------------------------------ MODULE MCAccounts ------------------------------
(***************************************************************************)
(* Instances of the two machines that move the accounts: the orders that   *)
(* are charged to them, on a server whose nightly job may not run, and the *)
(* receipts and invoices that collect one of them, two requests in flight. *)
(* A behaviour is of one of the two, chosen at the start.                  *)
(***************************************************************************)
EXTENDS MCOrderBook, Payments

CONSTANTS r1, r2

VARIABLE area

OrdersOrRequests == Symmetry \cup Permutations(Requests)

\* Bound: how many of the promises of the collection are broken in a behaviour.
FewCrossings == Cardinality(crossings) =< 1

AccountsInit ==
    /\ area \in {"orders", "payments"}
    /\ Init
    /\ PaymentsInit /\ (area # "payments" => phase = "current")

\* The steps of MissedJobSpec and of PaymentsSpec.
AccountsNext ==
    /\ UNCHANGED area
    /\ \/ /\ area = "orders" /\ (Next \/ Midnight)
          /\ UNCHANGED <<paymentsVars>>
       \/ /\ area = "payments" /\ PaymentsNext /\ FewCrossings'
          /\ UNCHANGED <<vars>>

accountsVars == <<area, vars, paymentsVars>>

AccountsSpec == AccountsInit /\ [][AccountsNext]_accountsVars
=============================================================================
