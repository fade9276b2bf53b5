--------------------------- MODULE OrderLifecycle ---------------------------
(***************************************************************************)
(* What the two sides of an order are promised, without schedules, stock,  *)
(* deadlines or accounts: an order is placed once, the provider accepts it *)
(* at most once, nobody takes back a cancellation or a rejection, and once *)
(* its delivery day is over with the order accepted (settled: it has been  *)
(* charged) its status is fixed for good.                                  *)
(***************************************************************************)
CONSTANT OrderIds

VARIABLES status, settled

vars == <<status, settled>>

Open(o) == status[o] \in {"pending", "confirmed"} /\ o \notin settled

Init ==
    /\ status = [o \in OrderIds |-> "none"]
    /\ settled = {}

\* One or more new orders, all or none.
Place(placed) ==
    /\ \A o \in placed : status[o] = "none"
    /\ status' = [o \in OrderIds |-> IF o \in placed THEN "pending" ELSE status[o]]
    /\ UNCHANGED settled

\* The provider accepts; an order accepted late is settled at once.
Accept(o) ==
    /\ status[o] = "pending"
    /\ status' = [status EXCEPT ![o] = "confirmed"]
    /\ settled' \in {settled, settled \cup {o}}

\* The provider turns down some orders at once.
Decline(declined) ==
    /\ \A o \in declined : Open(o)
    /\ status' = [o \in OrderIds |-> IF o \in declined THEN "rejected" ELSE status[o]]
    /\ UNCHANGED settled

Withdraw(o) ==
    /\ Open(o)
    /\ status' = [status EXCEPT ![o] = "cancelled"]
    /\ UNCHANGED settled

\* An accepted order gives way to a new one: never the first without the second.
Exchange(o, new) ==
    /\ Open(o) /\ status[o] = "confirmed" /\ status[new] = "none"
    /\ status' = [status EXCEPT ![o] = "cancelled", ![new] = "pending"]
    /\ UNCHANGED settled

\* The delivery day of some accepted orders is over.
Settle(delivered) ==
    /\ \A o \in delivered : status[o] = "confirmed"
    /\ settled' = settled \cup delivered
    /\ UNCHANGED status

Next ==
    \/ \E S \in SUBSET OrderIds : Place(S) \/ Decline(S) \/ Settle(S)
    \/ \E o \in OrderIds : Accept(o) \/ Withdraw(o) \/ \E new \in OrderIds : Exchange(o, new)

Spec == Init /\ [][Next]_vars

=============================================================================
