---------------------------- MODULE ReceiptReview ---------------------------
(***************************************************************************)
(* What both sides of a receipt are promised, without money, invoices or   *)
(* requests: one receipt of the account is under review at a time, it is   *)
(* decided once, the decision is never revised, and a receipt that is      *)
(* deleted does not come back.                                             *)
(***************************************************************************)
CONSTANT Receipts

VARIABLE status

Verdicts == {"approved", "rejected", "partial"}

Init == status = [p \in Receipts |-> "none"]

Send(p) ==
    /\ status[p] = "none"
    /\ \A q \in Receipts : status[q] # "submitted"
    /\ status' = [status EXCEPT ![p] = "submitted"]

Decide(p, verdict) ==
    /\ status[p] = "submitted"
    /\ status' = [status EXCEPT ![p] = verdict]

Delete(p) ==
    /\ status[p] # "none"
    /\ status' = [status EXCEPT ![p] = "deleted"]

Next == \E p \in Receipts : \/ Send(p)
                            \/ \E verdict \in Verdicts : Decide(p, verdict)
                            \/ Delete(p)

Spec == Init /\ [][Next]_status

=============================================================================
