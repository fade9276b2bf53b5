--------------------------- MODULE PaymentsProofs ---------------------------
(***************************************************************************)
(* What holds of the collection of an account whatever its owner and the   *)
(* provider do at once, for any number of requests in flight.              *)
(*                                                                         *)
(* The locks carry the argument: an approval holds a receipt that is under *)
(* review and that no other approval holds (Exclusive), so what it commits *)
(* is a decision on an undecided receipt. What a request reads before it   *)
(* writes is not under a lock, so each theorem names the crossing of two   *)
(* requests, or of a request and the calendar, after which its promise is  *)
(* broken, and proves it of everything else.                               *)
(*                                                                         *)
(* Then the page where the provider reads and reviews what is collected    *)
(* (CollectionsPage): the sums of its cards, of its history and of its     *)
(* sales are regroupings of one another, and its sheet keeps saying of a   *)
(* receipt what was said when it was reviewed.                             *)
(***************************************************************************)
EXTENDS Payments, CollectionsPage, SumTheorems, SequenceTheorems, TLAPS

\* Two approvals in flight are on different receipts.
Exclusive == \A r, q \in Requests :
                At(r, "approve") /\ At(q, "approve") /\ request[r].receipt = request[q].receipt
                   => r = q

\* What is covered is a finite number of units.
LEMMA PaidType == Paid \in Nat
<1>1. IsFiniteSet(ReceiptIds) /\ IsFiniteSet(1..MaxDebt)
  BY PaymentsAssumption, FS_Interval DEF ReceiptIds
<1>2. IsFiniteSet(ReceiptIds \X (1..MaxDebt))
  BY <1>1, FS_Product
<1>3. IsFiniteSet(Covered)
  BY <1>2, FS_Subset DEF Covered
<1> QED BY <1>3, FS_CardinalityType DEF Paid

LEMMA OutstandingType == payable \in Debts => Outstanding \in Debts
BY PaidType, PaymentsAssumption DEF Outstanding, Debts

\* A request takes its next step.
LEMMA GoesType ==
    ASSUME request \in [Requests -> Request], NEW r \in Requests, NEW next \in Request,
           Goes(r, next)
    PROVE  /\ request' \in [Requests -> Request] /\ request'[r] = next
           /\ \A q \in Requests \ {r} : request'[q] = request[q]
BY DEF Goes

LEMMA IdleType == Idle \in Request
BY PaymentsAssumption DEF Idle, Request, Steps, Debts

\* A request that does not start an approval takes no lock.
LEMMA NoNewLock ==
    ASSUME request \in [Requests -> Request], Exclusive, NEW r \in Requests,
           NEW next \in Request,
           Goes(r, next), next.step # "approve"
    PROVE  Locked' \subseteq Locked /\ Exclusive'
BY GoesType DEF Locked, At, Exclusive

-----------------------------------------------------------------------------

\* A commit ends its request and marks the others that are in flight.
LEMMA CommitMoves ==
    ASSUME request \in [Requests -> Request], NEW r \in Requests, ReceiptApproved(r)
    PROVE  /\ request' \in [Requests -> Request] /\ request'[r] = Idle
           /\ \A q \in Requests \ {r} :
                 /\ request'[q] = [request[q] EXCEPT !.crossed = ~At(q, "idle")]
                 /\ request'[q].receipt = request[q].receipt
                 /\ request'[q].invoice = request[q].invoice
                 /\ request'[q].step = request[q].step
                 /\ request'[q].crossed = ~At(q, "idle")
<1>1. \A q \in Requests : [request[q] EXCEPT !.crossed = ~At(q, "idle")] \in Request
  BY DEF Request, At
<1> QED BY <1>1, IdleType DEF ReceiptApproved, Request

LEMMA InitTypes == PaymentsInit => PaymentsTypeOK /\ Exclusive
<1> SUFFICES ASSUME PaymentsInit PROVE PaymentsTypeOK /\ Exclusive
  OBVIOUS
<1>1. DOMAIN receipts = {} /\ DOMAIN invoices = {}
  BY DEF PaymentsInit
<1>2. /\ receipts \in [DOMAIN receipts -> Receipt]
      /\ invoices \in [DOMAIN invoices -> InvoiceStatuses]
  BY <1>1 DEF PaymentsInit
<1>3. request \in [Requests -> Request] /\ \A r \in Requests : ~At(r, "approve")
  BY IdleType DEF PaymentsInit, At, Idle
<1>4. Locked = {}
  BY <1>3 DEF Locked
<1>5. /\ payable \in Debts /\ peak \in payable..MaxDebt
      /\ sent \in 0..MaxReceipts /\ issued \in 0..MaxInvoices
  BY PaymentsAssumption DEF PaymentsInit, Debts
<1> QED BY <1>1, <1>2, <1>3, <1>4, <1>5 DEF PaymentsInit, PaymentsTypeOK, Exclusive

\* A step that only moves one request, and starts no approval.
LEMMA MoveTypes ==
    ASSUME PaymentsTypeOK, Exclusive, NEW r \in Requests, NEW next \in Request, Goes(r, next),
           next.step # "approve",
           UNCHANGED <<phase, payable, peak, receipts, sent, invoices, issued, crossings>>
    PROVE  PaymentsTypeOK' /\ Exclusive'
<1>1. request' \in [Requests -> Request] /\ Locked' \subseteq Locked /\ Exclusive'
  BY GoesType, NoNewLock DEF PaymentsTypeOK
<1>2. UnderReview' = UnderReview
  BY DEF UnderReview, WithStatus
<1> QED BY <1>1, <1>2 DEF PaymentsTypeOK

LEMMA AccountTypes == PaymentsTypeOK /\ Exclusive /\ Account => PaymentsTypeOK' /\ Exclusive'
<1> SUFFICES ASSUME PaymentsTypeOK, Exclusive, Account PROVE PaymentsTypeOK' /\ Exclusive'
  OBVIOUS
<1>1. UNCHANGED <<receipts, sent, invoices, issued, request, crossings>>
  BY DEF Account, MonthBegins, MonthEnds, ChangeDebt
<1>2. Locked' = Locked /\ UnderReview' = UnderReview /\ Exclusive'
  BY <1>1 DEF Locked, UnderReview, WithStatus, Exclusive, At
<1>3. phase' \in Phases /\ payable' \in Debts /\ peak' \in payable'..MaxDebt
  <2>1. CASE MonthBegins \/ MonthEnds
    BY <2>1 DEF MonthBegins, MonthEnds, PaymentsTypeOK, Phases
  <2>2. CASE \E debt \in Debts : ChangeDebt(debt)
    BY <2>2, PaymentsAssumption DEF ChangeDebt, PaymentsTypeOK, Debts
  <2> QED BY <2>1, <2>2 DEF Account
<1> QED BY <1>1, <1>2, <1>3 DEF PaymentsTypeOK

LEMMA PayerTypes ==
    ASSUME PaymentsTypeOK, Exclusive, NEW r \in Requests, Payer(r)
    PROVE  PaymentsTypeOK' /\ Exclusive'
<1> USE IdleType
<1>0. request \in [Requests -> Request] /\ sent \in 0..MaxReceipts
  BY DEF PaymentsTypeOK
<1>1. CASE OpenSubmit(r)
  <2>1. /\ [Idle EXCEPT !.step = "submit"] \in Request
        /\ [Idle EXCEPT !.step = "submit"].step # "approve"
    BY DEF Request, Steps, Idle
  <2> QED BY <1>1, <2>1, MoveTypes DEF OpenSubmit
<1>2. CASE Validate(r)
  <2>1. On(r, "capture") \in Request /\ On(r, "capture").step # "approve"
    BY <1>0 DEF Request, Steps, On
  <2> QED BY <1>2, <2>1, MoveTypes DEF Validate
<1>6. CASE Capture(r)
  <2> DEFINE next == [On(r, "insert") EXCEPT !.expected = Outstanding]
  <2>1. next \in Request /\ next.step # "approve"
    BY <1>0, OutstandingType DEF Request, Steps, On, PaymentsTypeOK
  <2>2. /\ Goes(r, next)
        /\ UNCHANGED <<phase, payable, peak, receipts, sent, invoices, issued, crossings>>
    BY <1>6 DEF Capture
  <2> QED BY <2>1, <2>2, MoveTypes
<1>3. CASE InsertReceipt(r)
  <2> DEFINE row == Row("submitted", request[r].expected)
  <2>1. row \in Receipt /\ row.status = "submitted"
    BY <1>0 DEF Row, Receipt, Request
  <2>2. /\ receipts' = WithReceipt(sent + 1, row) /\ sent' = sent + 1 /\ sent < MaxReceipts
        /\ Ends(r) /\ UNCHANGED <<phase, payable, peak, invoices, issued>>
        /\ Crosses("receipt", request[r].crossed)
    BY <1>3 DEF InsertReceipt
  <2> HIDE DEF row
  <2>3. /\ DOMAIN receipts' = DOMAIN receipts \cup {sent + 1}
        /\ receipts' \in [DOMAIN receipts' -> Receipt]
        /\ UnderReview \subseteq UnderReview'
    BY <2>1, <2>2 DEF WithReceipt, PaymentsTypeOK, UnderReview, WithStatus
  <2>4. request' \in [Requests -> Request] /\ Locked' \subseteq Locked /\ Exclusive'
    BY <1>0, <2>2, GoesType, NoNewLock DEF Ends, Idle
  <2>5. sent' \in 0..MaxReceipts /\ DOMAIN receipts' \subseteq 1..sent'
    BY <1>0, <2>2, <2>3, PaymentsAssumption DEF PaymentsTypeOK
  <2>6. crossings' \subseteq Crossings
    BY <2>2 DEF Crosses, Crossings, PaymentsTypeOK
  <2> QED BY <2>2, <2>3, <2>4, <2>5, <2>6 DEF PaymentsTypeOK
<1>4. ASSUME NEW p \in ReceiptIds, OpenRemoval(r, p) PROVE PaymentsTypeOK' /\ Exclusive'
  <2>1. /\ [Idle EXCEPT !.step = "remove", !.receipt = p] \in Request
        /\ [Idle EXCEPT !.step = "remove", !.receipt = p].step # "approve"
    <3>1. p \in 0..MaxReceipts
      BY PaymentsAssumption DEF ReceiptIds
    <3> QED BY <3>1 DEF Request, Steps
  <2> QED BY <1>4, <2>1, MoveTypes DEF OpenRemoval
<1>5. CASE Remove(r)
  <2>1. /\ DOMAIN receipts' = DOMAIN receipts \ {request[r].receipt}
        /\ receipts' \in [DOMAIN receipts' -> Receipt]
        /\ UnderReview' = UnderReview \ {request[r].receipt}
    BY <1>5 DEF Remove, PaymentsTypeOK, UnderReview, WithStatus
  <2>2. request' \in [Requests -> Request] /\ Locked' \subseteq Locked /\ Exclusive'
    BY <1>0, <1>5, GoesType, NoNewLock DEF Remove, Ends, Idle
  <2>3. crossings' \subseteq Crossings
    BY <1>5 DEF Remove, Crosses, Crossings, PaymentsTypeOK
  <2> QED BY <1>5, <2>1, <2>2, <2>3 DEF Remove, PaymentsTypeOK
<1> QED BY <1>1, <1>2, <1>3, <1>4, <1>5, <1>6 DEF Payer

LEMMA ReviewerTypes ==
    ASSUME PaymentsTypeOK, Exclusive, NEW r \in Requests, Reviewer(r)
    PROVE  PaymentsTypeOK' /\ Exclusive'
<1> USE IdleType
<1>0. request \in [Requests -> Request] /\ issued \in 0..MaxInvoices
  BY DEF PaymentsTypeOK
<1>1. ASSUME NEW p \in ReceiptIds, NEW step \in {"review", "approval"}, OpenReview(r, p, step)
      PROVE  PaymentsTypeOK' /\ Exclusive'
  <2>1. /\ [Idle EXCEPT !.step = step, !.receipt = p] \in Request
        /\ [Idle EXCEPT !.step = step, !.receipt = p].step # "approve"
    <3>1. p \in 0..MaxReceipts
      BY PaymentsAssumption DEF ReceiptIds
    <3> QED BY <3>1 DEF Request, Steps, Idle
  <2> QED BY <1>1, <2>1, MoveTypes DEF OpenReview
<1>2. ASSUME NEW verdict \in {"rejected", "partial"}, Decide(r, verdict)
      PROVE PaymentsTypeOK' /\ Exclusive'
  <2> DEFINE p == request[r].receipt
  <2>1. /\ DOMAIN receipts' = DOMAIN receipts /\ receipts' \in [DOMAIN receipts' -> Receipt]
        /\ UnderReview' = UnderReview \ {p} /\ p \notin Locked
    BY <1>2 DEF Decide, Locks, PaymentsTypeOK, Receipt, UnderReview, WithStatus
  <2>2. request' \in [Requests -> Request] /\ Locked' \subseteq Locked /\ Exclusive'
    BY <1>0, <1>2, GoesType, NoNewLock DEF Decide, Ends, Idle
  <2> QED BY <1>2, <2>1, <2>2 DEF Decide, PaymentsTypeOK
<1>3. CASE BeginApprove(r)
  <2>1. PICK i \in 0..MaxInvoices :
           Goes(r, [On(r, "approve") EXCEPT !.invoice = i])
    <3>1. CASE \E i \in PendingInvoice :
                 Goes(r, [On(r, "approve") EXCEPT !.invoice = i])
      <4>1. PendingInvoice \subseteq 0..MaxInvoices
        BY <1>0, PaymentsAssumption DEF PendingInvoice, PaymentsTypeOK
      <4> QED BY <3>1, <4>1
    <3>2. CASE Goes(r, On(r, "approve"))
      <4>1. On(r, "approve") = [On(r, "approve") EXCEPT !.invoice = request[r].invoice]
        BY <1>0 DEF Request, On
      <4>2. request[r].invoice \in 0..MaxInvoices
        BY <1>0 DEF Request
      <4> QED BY <3>2, <4>1, <4>2
    <3> QED BY <1>3, <3>1, <3>2 DEF BeginApprove
  <2> DEFINE next == [On(r, "approve") EXCEPT !.invoice = i]
  <2>2. next \in Request /\ next.step = "approve" /\ next.receipt = request[r].receipt
    BY <1>0 DEF Request, Steps, On
  <2> HIDE DEF next
  <2>3. /\ request' \in [Requests -> Request] /\ request'[r] = next
        /\ \A q \in Requests \ {r} : request'[q] = request[q]
    BY <1>0, <2>1, <2>2, GoesType DEF next
  <2>4. Locked' \subseteq Locked \cup {request[r].receipt}
    BY <2>2, <2>3 DEF Locked, At
  <2>5. request[r].receipt \in UnderReview \ Locked
    BY <1>3 DEF BeginApprove, Locks
  <2>6. Exclusive'
    BY <2>2, <2>3, <2>5 DEF Exclusive, Locked, At
  <2>7. UNCHANGED <<phase, payable, peak, receipts, sent, invoices, issued, crossings>>
    BY <1>3 DEF BeginApprove
  <2>8. UnderReview' = UnderReview
    BY <2>7 DEF UnderReview, WithStatus
  <2> QED BY <2>3, <2>4, <2>5, <2>6, <2>7, <2>8 DEF PaymentsTypeOK
<1>4. CASE CommitApprove(r)
  <2> DEFINE p == request[r].receipt
  <2>1. /\ DOMAIN receipts' = DOMAIN receipts /\ receipts' \in [DOMAIN receipts' -> Receipt]
        /\ UnderReview' = UnderReview \ {p}
    BY <1>4 DEF CommitApprove, ReceiptApproved, PaymentsTypeOK, Receipt, UnderReview, WithStatus
  <2>2. /\ DOMAIN invoices' = DOMAIN invoices
        /\ invoices' \in [DOMAIN invoices' -> InvoiceStatuses]
    BY <1>4 DEF CommitApprove, PaymentsTypeOK, InvoiceStatuses
  <2>3. /\ request' \in [Requests -> Request] /\ request'[r] = Idle
        /\ \A q \in Requests \ {r} : /\ request'[q].receipt = request[q].receipt
                                     /\ request'[q].step = request[q].step
    BY <1>0, <1>4, CommitMoves DEF CommitApprove
  <2>4. Locked' \subseteq Locked \ {p}
    BY <1>4, <2>3 DEF Locked, At, Exclusive, CommitApprove, Idle
  <2>5. Exclusive'
    BY <2>3 DEF Exclusive, At, Idle
  <2>6. crossings' \subseteq Crossings
    BY <1>4 DEF CommitApprove, ReceiptApproved, Crosses, Crossings, PaymentsTypeOK
  <2> QED BY <1>4, <2>1, <2>2, <2>3, <2>4, <2>5, <2>6 DEF CommitApprove, PaymentsTypeOK
<1>5. CASE OpenInvoice(r)
  <2> DEFINE next == [Idle EXCEPT !.step = "insert_invoice", !.collected = Collected]
  <2>1. Collected \in BOOLEAN
    BY DEF Collected, Settled
  <2>2. next \in Request /\ next.step # "approve"
    BY <2>1 DEF Request, Steps, Idle
  <2> QED BY <1>5, <2>2, MoveTypes DEF OpenInvoice
<1>6. CASE InsertInvoice(r)
  <2> DEFINE st == IF request[r].collected THEN "approved" ELSE "pending"
  <2>1. /\ invoices' = WithInvoice(issued + 1, st) /\ issued' = issued + 1 /\ issued < MaxInvoices
        /\ Ends(r) /\ UNCHANGED <<phase, payable, peak, receipts, sent>>
        /\ Crosses("invoice", request[r].crossed \/ Locked # {})
    BY <1>6 DEF InsertInvoice
  <2>2. st \in InvoiceStatuses
    BY DEF InvoiceStatuses
  <2> HIDE DEF st
  <2>3. /\ DOMAIN invoices' = DOMAIN invoices \cup {issued + 1}
        /\ invoices' \in [DOMAIN invoices' -> InvoiceStatuses]
    BY <2>1, <2>2 DEF WithInvoice, PaymentsTypeOK
  <2>4. request' \in [Requests -> Request] /\ Locked' \subseteq Locked /\ Exclusive'
    BY <1>0, <2>1, GoesType, NoNewLock DEF Ends, Idle
  <2>5. issued' \in 0..MaxInvoices /\ DOMAIN invoices' \subseteq 1..issued'
    BY <1>0, <2>1, <2>3, PaymentsAssumption DEF PaymentsTypeOK
  <2>6. UnderReview' = UnderReview
    BY <2>1 DEF UnderReview, WithStatus
  <2>7. crossings' \subseteq Crossings
    BY <2>1 DEF Crosses, Crossings, PaymentsTypeOK
  <2> QED BY <2>1, <2>3, <2>4, <2>5, <2>6, <2>7 DEF PaymentsTypeOK
<1>7. ASSUME NEW i \in InvoiceIds, OpenInvoiceRemoval(r, i) PROVE PaymentsTypeOK' /\ Exclusive'
  <2>1. /\ [Idle EXCEPT !.step = "remove_invoice", !.invoice = i] \in Request
        /\ [Idle EXCEPT !.step = "remove_invoice", !.invoice = i].step # "approve"
    <3>1. i \in 0..MaxInvoices
      BY PaymentsAssumption DEF InvoiceIds
    <3> QED BY <3>1 DEF Request, Steps
  <2> QED BY <1>7, <2>1, MoveTypes DEF OpenInvoiceRemoval
<1>8. CASE RemoveInvoice(r)
  <2>1. /\ DOMAIN invoices' \subseteq DOMAIN invoices
        /\ invoices' \in [DOMAIN invoices' -> InvoiceStatuses]
    BY <1>8 DEF RemoveInvoice, PaymentsTypeOK
  <2>2. request' \in [Requests -> Request] /\ Locked' \subseteq Locked /\ Exclusive'
    BY <1>0, <1>8, GoesType, NoNewLock DEF RemoveInvoice, Ends, Idle
  <2>3. UnderReview' = UnderReview
    BY <1>8 DEF RemoveInvoice, UnderReview, WithStatus
  <2>4. crossings' \subseteq Crossings
    BY <1>8 DEF RemoveInvoice, Crosses, Crossings, PaymentsTypeOK
  <2> QED BY <1>8, <2>1, <2>2, <2>3, <2>4 DEF RemoveInvoice, PaymentsTypeOK
<1> QED BY <1>1, <1>2, <1>3, <1>4, <1>5, <1>6, <1>7, <1>8 DEF Reviewer

LEMMA StepTypes ==
    PaymentsTypeOK /\ Exclusive /\ [PaymentsNext]_paymentsVars => PaymentsTypeOK' /\ Exclusive'
<1> SUFFICES ASSUME PaymentsTypeOK, Exclusive, [PaymentsNext]_paymentsVars
             PROVE PaymentsTypeOK' /\ Exclusive'
  OBVIOUS
<1>1. ASSUME NEW r \in Requests, Abandon(r) PROVE PaymentsTypeOK' /\ Exclusive'
  <2>1. Idle.step # "approve"
    BY DEF Idle
  <2> QED BY <1>1, <2>1, IdleType, MoveTypes DEF Abandon, Ends
<1>2. CASE UNCHANGED paymentsVars
  BY <1>2 DEF paymentsVars, PaymentsTypeOK, Exclusive, At, Locked, UnderReview, WithStatus
<1> QED BY <1>1, <1>2, AccountTypes, PayerTypes, ReviewerTypes DEF PaymentsNext

LEMMA TypesInvariant == PaymentsSpec => [](PaymentsTypeOK /\ Exclusive)
BY InitTypes, StepTypes, PTL DEF PaymentsSpec

\* The variables keep their types, and what an approval holds is under review
\* until it commits: no rejection and no deletion comes in between.
THEOREM TypesCorrect == PaymentsSpec => []PaymentsTypeOK
BY TypesInvariant, PTL

-----------------------------------------------------------------------------
(* One row of each.                                                        *)

\* Whatever requests overlap, no account has two receipts under review: only the
\* INSERT adds one, and it finds none.
THEOREM ReviewIsUnique == PaymentsSpec => []OneUnderReview
<1>1. PaymentsInit => OneUnderReview
  BY DEF PaymentsInit, OneUnderReview, UnderReview, WithStatus
<1>2. PaymentsTypeOK /\ Exclusive /\ OneUnderReview /\ [PaymentsNext]_paymentsVars => OneUnderReview'
  <2> SUFFICES ASSUME PaymentsTypeOK, OneUnderReview, [PaymentsNext]_paymentsVars
               PROVE  OneUnderReview'
    OBVIOUS
  <2>1. ASSUME NEW r \in Requests, InsertReceipt(r) PROVE OneUnderReview'
    BY <2>1 DEF InsertReceipt, WithReceipt, OneUnderReview, UnderReview, WithStatus
  <2>2. ASSUME NEW r \in Requests, NEW verdict \in {"rejected", "partial"}, Decide(r, verdict)
        PROVE  OneUnderReview'
    BY <2>2 DEF Decide, OneUnderReview, UnderReview, WithStatus, PaymentsTypeOK
  <2>3. ASSUME NEW r \in Requests, CommitApprove(r) PROVE OneUnderReview'
    BY <2>3 DEF CommitApprove, ReceiptApproved, OneUnderReview, UnderReview, WithStatus,
        PaymentsTypeOK
  <2>4. ASSUME NEW r \in Requests, Remove(r) PROVE OneUnderReview'
    BY <2>4 DEF Remove, OneUnderReview, UnderReview, WithStatus
  <2>5. CASE receipts' = receipts
    BY <2>5 DEF OneUnderReview, UnderReview, WithStatus
  <2> QED BY <2>1, <2>2, <2>3, <2>4, <2>5
        DEF PaymentsNext, paymentsVars, Account, MonthBegins, MonthEnds, ChangeDebt, Payer,
            OpenSubmit, Validate, Capture,
            OpenRemoval, Reviewer, OpenReview, BeginApprove, OpenInvoice, InsertInvoice,
            OpenInvoiceRemoval, RemoveInvoice, Abandon
<1> QED BY <1>1, <1>2, TypesInvariant, PTL DEF PaymentsSpec

\* Nor a period two invoices.
THEOREM InvoiceIsUnique == PaymentsSpec => []OneInvoice
<1>1. PaymentsInit => OneInvoice
  BY DEF PaymentsInit, OneInvoice
<1>2. OneInvoice /\ [PaymentsNext]_paymentsVars => OneInvoice'
  <2> SUFFICES ASSUME OneInvoice, [PaymentsNext]_paymentsVars PROVE OneInvoice'
    OBVIOUS
  <2>1. ASSUME NEW r \in Requests, InsertInvoice(r) PROVE OneInvoice'
    BY <2>1 DEF InsertInvoice, WithInvoice, OneInvoice
  <2>2. ASSUME NEW r \in Requests, CommitApprove(r) PROVE OneInvoice'
    BY <2>2 DEF CommitApprove, OneInvoice
  <2>3. ASSUME NEW r \in Requests, RemoveInvoice(r) PROVE OneInvoice'
    BY <2>3 DEF RemoveInvoice, OneInvoice
  <2>4. CASE invoices' = invoices
    BY <2>4 DEF OneInvoice
  <2> QED BY <2>1, <2>2, <2>3, <2>4
        DEF PaymentsNext, paymentsVars, Account, MonthBegins, MonthEnds, ChangeDebt, Payer,
            OpenSubmit, Validate, Capture,
            InsertReceipt, OpenRemoval, Remove, Reviewer, OpenReview, Decide, BeginApprove,
            OpenInvoice,
            OpenInvoiceRemoval, Abandon
<1> QED BY <1>1, <1>2, PTL DEF PaymentsSpec

-----------------------------------------------------------------------------
(* The refinement.                                                         *)

\* A receipt that is not touched looks the same.
LEMMA SameReview ==
    ASSUME receipts' = receipts, sent' = sent
    PROVE  ReviewStatus' = ReviewStatus
BY DEF ReviewStatus

\* A decision on the receipt p, which is under review.
LEMMA DecisionReviews ==
    ASSUME PaymentsTypeOK, NEW p \in UnderReview,
           NEW verdict \in {"approved", "rejected", "partial"},
           receipts' = [receipts EXCEPT ![p].status = verdict], sent' = sent
    PROVE  Review!Next
<1>1. p \in ReceiptIds /\ p \in DOMAIN receipts /\ receipts[p].status = "submitted"
  BY PaymentsAssumption DEF UnderReview, WithStatus, PaymentsTypeOK, ReceiptIds
<1>2. DOMAIN receipts' = DOMAIN receipts /\ receipts'[p].status = verdict
  BY <1>1 DEF PaymentsTypeOK, Receipt
<1>3. \A q \in DOMAIN receipts \ {p} : receipts'[q] = receipts[q]
  OBVIOUS
<1>4. ReviewStatus[p] = "submitted" /\ ReviewStatus' = [ReviewStatus EXCEPT ![p] = verdict]
  BY <1>1, <1>2, <1>3 DEF ReviewStatus
<1> QED BY <1>1, <1>4 DEF Review!Next, Review!Decide, Review!Verdicts

LEMMA PayerReviews ==
    ASSUME PaymentsTypeOK, NEW r \in Requests, Payer(r)
    PROVE  Review!Next \/ ReviewStatus' = ReviewStatus
<1>1. CASE InsertReceipt(r)
  <2> DEFINE p == sent + 1
  <2>1. p \in ReceiptIds /\ p \notin DOMAIN receipts /\ sent \in Nat /\ p \notin 1..sent
    BY <1>1, PaymentsAssumption DEF InsertReceipt, PaymentsTypeOK, ReceiptIds
  <2>2. /\ DOMAIN receipts' = DOMAIN receipts \cup {p} /\ sent' = p
        /\ receipts'[p].status = "submitted"
        /\ \A q \in DOMAIN receipts : receipts'[q] = receipts[q]
    BY <1>1, <2>1 DEF InsertReceipt, WithReceipt, Row
  <2>3. ReviewStatus[p] = "none"
    BY <2>1 DEF ReviewStatus
  <2>4. \A q \in ReceiptIds : ReviewStatus[q] # "submitted"
    BY <1>1 DEF InsertReceipt, ReviewStatus, UnderReview, WithStatus
  <2>5. \A q \in ReceiptIds : q <= p <=> q <= sent \/ q = p
    BY <2>1 DEF ReceiptIds
  <2> HIDE DEF p
  <2>6. ReviewStatus' = [ReviewStatus EXCEPT ![p] = "submitted"]
    BY <2>1, <2>2, <2>5 DEF ReviewStatus
  <2> QED BY <2>1, <2>3, <2>4, <2>6 DEF Review!Next, Review!Send
<1>2. CASE Remove(r)
  <2> DEFINE p == request[r].receipt
  <2>1. CASE p \in DOMAIN receipts
    <3>1. p \in ReceiptIds /\ p <= sent
      BY <2>1, PaymentsAssumption DEF PaymentsTypeOK, ReceiptIds
    <3>2. receipts[p].status # "none"
      BY <2>1 DEF PaymentsTypeOK, Receipt
    <3>3. ReviewStatus[p] # "none"
      BY <2>1, <3>1, <3>2 DEF ReviewStatus
    <3>4. /\ DOMAIN receipts' = DOMAIN receipts \ {p} /\ sent' = sent
          /\ \A q \in DOMAIN receipts \ {p} : receipts'[q] = receipts[q]
      BY <1>2 DEF Remove
    <3>5. ReviewStatus' = [ReviewStatus EXCEPT ![p] = "deleted"]
      BY <2>1, <3>1, <3>4 DEF ReviewStatus
    <3> QED BY <3>1, <3>3, <3>5 DEF Review!Next, Review!Delete
  <2>2. CASE p \notin DOMAIN receipts
    BY <1>2, <2>2 DEF Remove, ReviewStatus, PaymentsTypeOK
  <2> QED BY <2>1, <2>2
<1>3. CASE receipts' = receipts /\ sent' = sent
  BY <1>3, SameReview
<1> QED BY <1>1, <1>2, <1>3 DEF Payer, OpenSubmit, Validate, Capture, OpenRemoval

LEMMA ReviewerReviews ==
    ASSUME PaymentsTypeOK, NEW r \in Requests, Reviewer(r)
    PROVE  Review!Next \/ ReviewStatus' = ReviewStatus
<1>1. ASSUME NEW verdict \in {"rejected", "partial"}, Decide(r, verdict) PROVE Review!Next
  BY <1>1, DecisionReviews DEF Decide
<1>2. CASE CommitApprove(r)
  <2>1. request[r].receipt \in UnderReview
    BY <1>2 DEF CommitApprove, PaymentsTypeOK, Locked
  <2> QED BY <1>2, <2>1, DecisionReviews DEF CommitApprove, ReceiptApproved
<1>3. CASE receipts' = receipts /\ sent' = sent
  BY <1>3, SameReview
<1> QED BY <1>1, <1>2, <1>3
      DEF Reviewer, OpenReview, BeginApprove, OpenInvoice, InsertInvoice, OpenInvoiceRemoval,
          RemoveInvoice

\* The receipts implement ReceiptReview: whatever reviews, submissions and
\* deletions overlap, a receipt is decided once and no decision is revised.
THEOREM ImplementsReview == PaymentsSpec => KeepsReview
<1>1. PaymentsInit => Review!Init
  BY PaymentsAssumption DEF PaymentsInit, Review!Init, ReviewStatus, ReceiptIds
<1>2. PaymentsTypeOK /\ [PaymentsNext]_paymentsVars => [Review!Next]_ReviewStatus
  <2> SUFFICES ASSUME PaymentsTypeOK, [PaymentsNext]_paymentsVars
               PROVE Review!Next \/ ReviewStatus' = ReviewStatus
    OBVIOUS
  <2>1. CASE Account \/ (\E r \in Requests : Abandon(r)) \/ UNCHANGED paymentsVars
    BY <2>1, SameReview DEF Account, MonthBegins, MonthEnds, ChangeDebt, Abandon, paymentsVars
  <2> QED BY <2>1, PayerReviews, ReviewerReviews DEF PaymentsNext
<1> QED BY <1>1, <1>2, TypesInvariant, PTL DEF PaymentsSpec, KeepsReview, Review!Spec

-----------------------------------------------------------------------------
(* What crosses what.                                                      *)

\* History is only added to.
LEMMA CrossingsGrow == [PaymentsNext]_paymentsVars => crossings \subseteq crossings'
<1> SUFFICES ASSUME [PaymentsNext]_paymentsVars PROVE crossings \subseteq crossings'
  OBVIOUS
<1>1. ASSUME NEW kind, NEW when, Crosses(kind, when) PROVE crossings \subseteq crossings'
  BY <1>1 DEF Crosses
<1> QED BY <1>1
      DEF PaymentsNext, paymentsVars, Account, MonthBegins, MonthEnds, ChangeDebt, Payer,
          OpenSubmit, Validate,
          Capture, InsertReceipt, OpenRemoval, Remove, Reviewer, OpenReview, Decide,
          BeginApprove,
          CommitApprove, ReceiptApproved, OpenInvoice, InsertInvoice, OpenInvoiceRemoval,
          RemoveInvoice, Abandon

\* What a request that no approval has crossed takes back was never approved: it
\* was not when the request began, and only an approval would have changed that.
SafeRemoval(r) ==
    ~request[r].crossed =>
       /\ At(r, "remove") => request[r].receipt \notin WithStatus("approved")
       /\ At(r, "remove_invoice") =>
            /\ request[r].invoice <= issued
            /\ \A i \in DOMAIN invoices : i = request[r].invoice => invoices[i] = "pending"

SafeRemovals == \A r \in Requests : SafeRemoval(r)

\* A step that approves nothing keeps the requests it does not move.
LEMMA OtherRemovals ==
    ASSUME PaymentsTypeOK, NEW q \in Requests, SafeRemoval(q), request'[q] = request[q],
           issued' \in Nat, issued <= issued',
           WithStatus("approved")' \subseteq WithStatus("approved"),
           \A i \in DOMAIN invoices' :
              i > issued \/ (i \in DOMAIN invoices /\ invoices'[i] = invoices[i])
    PROVE  SafeRemoval(q)'
<1>1. request[q].invoice \in Nat /\ issued \in Nat /\ DOMAIN invoices \subseteq Nat
  BY PaymentsAssumption DEF PaymentsTypeOK, Request
<1>2. \A st \in Steps : At(q, st)' = At(q, st)
  BY DEF At
<1>3. CASE request[q].crossed
  BY <1>3 DEF SafeRemoval
<1>4. CASE At(q, "remove") /\ ~request[q].crossed
  BY <1>4 DEF SafeRemoval, At
<1>5. CASE At(q, "remove_invoice") /\ ~request[q].crossed
  <2>1. /\ request[q].invoice <= issued
        /\ \A i \in DOMAIN invoices : i = request[q].invoice => invoices[i] = "pending"
    BY <1>5 DEF SafeRemoval
  <2>2. request'[q].invoice <= issued'
    BY <1>1, <2>1
  <2>3. \A i \in DOMAIN invoices' : i = request'[q].invoice => invoices'[i] = "pending"
    BY <1>1, <2>1
  <2> QED BY <1>5, <2>2, <2>3 DEF SafeRemoval, At
<1> QED BY <1>2, <1>3, <1>4, <1>5 DEF SafeRemoval, Steps

\* So does a request that moves, if what it takes back is not approved.
LEMMA MovedRemovals ==
    ASSUME PaymentsTypeOK, SafeRemovals, NEW r \in Requests, NEW next, Goes(r, next),
           issued' \in Nat, issued <= issued',
           WithStatus("approved")' \subseteq WithStatus("approved"),
           \A i \in DOMAIN invoices' :
              i > issued \/ (i \in DOMAIN invoices /\ invoices'[i] = invoices[i]),
           next.step = "remove" => next.receipt \notin WithStatus("approved"),
           next.step = "remove_invoice" =>
              /\ next.invoice \in DOMAIN invoices /\ invoices[next.invoice] = "pending"
    PROVE  SafeRemovals'
<1>1. request'[r] = next /\ \A q \in Requests \ {r} : request'[q] = request[q]
  BY DEF PaymentsTypeOK, Goes
<1>2. \A q \in Requests \ {r} : SafeRemoval(q)'
  BY <1>1, OtherRemovals DEF SafeRemovals
<1>3. issued \in Nat /\ DOMAIN invoices \subseteq 1..issued
  BY PaymentsAssumption DEF PaymentsTypeOK
<1>4. ASSUME next.step = "remove_invoice" PROVE SafeRemoval(r)'
  <2>1. next.invoice \in 1..issued
    BY <1>3, <1>4
  <2>2. next.invoice <= issued' /\ ~(next.invoice > issued)
    BY <1>3, <2>1
  <2>3. \A i \in DOMAIN invoices' : i = next.invoice => invoices'[i] = "pending"
    BY <1>4, <2>2
  <2> QED BY <1>1, <1>4, <2>2, <2>3 DEF SafeRemoval, At
<1>5. ASSUME next.step # "remove_invoice" PROVE SafeRemoval(r)'
  BY <1>1, <1>5 DEF SafeRemoval, At
<1> QED BY <1>2, <1>4, <1>5 DEF SafeRemovals

LEMMA StepRemovals == PaymentsTypeOK /\ SafeRemovals /\ [PaymentsNext]_paymentsVars => SafeRemovals'
<1> SUFFICES ASSUME PaymentsTypeOK, SafeRemovals, [PaymentsNext]_paymentsVars PROVE SafeRemovals'
  OBVIOUS
<1>0. issued \in Nat /\ request \in [Requests -> Request]
  BY PaymentsAssumption DEF PaymentsTypeOK
<1>1. Idle.step = "idle"
  BY DEF Idle
<1>2. CASE UNCHANGED <<receipts, invoices, issued, request>>
  <2>1. /\ WithStatus("approved")' = WithStatus("approved") /\ issued <= issued'
        /\ issued' \in Nat
    BY <1>0, <1>2 DEF WithStatus
  <2> QED BY <1>2, <2>1, OtherRemovals DEF SafeRemovals
<1>3. ASSUME NEW r \in Requests, NEW next, Goes(r, next),
             UNCHANGED <<receipts, invoices, issued>>,
             next.step = "remove" => next.receipt \notin WithStatus("approved"),
             next.step = "remove_invoice" =>
                /\ next.invoice \in DOMAIN invoices /\ invoices[next.invoice] = "pending"
      PROVE  SafeRemovals'
  <2>1. /\ WithStatus("approved")' = WithStatus("approved") /\ issued <= issued'
        /\ issued' \in Nat
    BY <1>0, <1>3 DEF WithStatus
  <2> QED BY <1>3, <2>1, MovedRemovals
<1>4. ASSUME NEW r \in Requests, Payer(r) PROVE SafeRemovals'
  <2>1. CASE OpenSubmit(r)
    <3> DEFINE next == [Idle EXCEPT !.step = "submit"]
    <3>1. next.step = "submit"
      BY DEF Idle
    <3>2. Goes(r, next) /\ UNCHANGED <<receipts, invoices, issued>>
      BY <2>1 DEF OpenSubmit
    <3> HIDE DEF next
    <3> QED BY <1>3, <3>1, <3>2
  <2>2. CASE Validate(r)
    <3>1. On(r, "capture").step = "capture"
      BY <1>0 DEF On, Request
    <3> QED BY <1>3, <2>2, <3>1 DEF Validate
  <2>3. CASE Capture(r)
    <3> DEFINE next == [On(r, "insert") EXCEPT !.expected = Outstanding]
    <3>1. next.step = "insert"
      BY <1>0 DEF On, Request
    <3>2. Goes(r, next) /\ UNCHANGED <<receipts, invoices, issued>>
      BY <2>3 DEF Capture
    <3> HIDE DEF next
    <3> QED BY <1>3, <3>1, <3>2
  <2>4. CASE InsertReceipt(r)
    <3>1. WithStatus("approved")' \subseteq WithStatus("approved")
      BY <2>4 DEF InsertReceipt, WithReceipt, Row, WithStatus
    <3> QED BY <1>0, <1>1, <2>4, <3>1, MovedRemovals DEF InsertReceipt, Ends
  <2>5. ASSUME NEW p \in ReceiptIds, OpenRemoval(r, p) PROVE SafeRemovals'
    <3> DEFINE next == [Idle EXCEPT !.step = "remove", !.receipt = p]
    <3>1. next.step = "remove" /\ next.receipt = p
      BY DEF Idle
    <3>2. /\ Goes(r, next) /\ UNCHANGED <<receipts, invoices, issued>>
          /\ p \notin WithStatus("approved")
      BY <2>5 DEF OpenRemoval, UnderReview, WithStatus
    <3> HIDE DEF next
    <3> QED BY <1>3, <3>1, <3>2
  <2>6. CASE Remove(r)
    <3>1. WithStatus("approved")' \subseteq WithStatus("approved")
      BY <2>6 DEF Remove, WithStatus
    <3> QED BY <1>0, <1>1, <2>6, <3>1, MovedRemovals DEF Remove, Ends
  <2> QED BY <1>4, <2>1, <2>2, <2>3, <2>4, <2>5, <2>6 DEF Payer
<1>5. ASSUME NEW r \in Requests, Reviewer(r) PROVE SafeRemovals'
  <2>1. ASSUME NEW p \in ReceiptIds, NEW step \in {"review", "approval"}, OpenReview(r, p, step)
        PROVE  SafeRemovals'
    <3> DEFINE next == [Idle EXCEPT !.step = step, !.receipt = p]
    <3>1. next.step = step
      BY DEF Idle
    <3>2. Goes(r, next) /\ UNCHANGED <<receipts, invoices, issued>>
      BY <2>1 DEF OpenReview
    <3> HIDE DEF next
    <3> QED BY <1>3, <3>1, <3>2
  <2>2. ASSUME NEW verdict \in {"rejected", "partial"}, Decide(r, verdict) PROVE SafeRemovals'
    <3>1. WithStatus("approved")' \subseteq WithStatus("approved")
      BY <2>2 DEF Decide, WithStatus, PaymentsTypeOK, Receipt
    <3> QED BY <1>0, <1>1, <2>2, <3>1, MovedRemovals DEF Decide, Ends
  <2>3. CASE BeginApprove(r)
    <3>1. On(r, "approve").step = "approve"
      BY <1>0 DEF On, Request
    <3>2. \A i : [On(r, "approve") EXCEPT !.invoice = i].step = "approve"
      BY <1>0 DEF On, Request
    <3>3. PICK next : Goes(r, next) /\ next.step = "approve"
      BY <2>3, <3>1, <3>2 DEF BeginApprove
    <3> QED BY <1>3, <2>3, <3>3 DEF BeginApprove
  <2>4. CASE CommitApprove(r)
    <3>1. \A q \in Requests : At(q, "idle")' \/ request'[q].crossed
      <4>1. At(r, "idle")'
        BY <1>0, <1>1, <2>4, CommitMoves DEF CommitApprove, At
      <4>2. \A q \in Requests \ {r} : At(q, "idle")' \/ request'[q].crossed
        BY <1>0, <2>4, CommitMoves DEF CommitApprove, At
      <4> QED BY <4>1, <4>2
    <3> QED BY <3>1 DEF SafeRemovals, SafeRemoval, At
  <2>5. CASE OpenInvoice(r)
    <3> DEFINE next == [Idle EXCEPT !.step = "insert_invoice", !.collected = Collected]
    <3>1. next.step = "insert_invoice"
      BY DEF Idle
    <3>2. Goes(r, next) /\ UNCHANGED <<receipts, invoices, issued>>
      BY <2>5 DEF OpenInvoice
    <3> HIDE DEF next
    <3> QED BY <1>3, <3>1, <3>2
  <2>6. CASE InsertInvoice(r)
    <3>1. WithStatus("approved")' = WithStatus("approved")
      BY <2>6 DEF InsertInvoice, WithStatus
    <3>2. issued' = issued + 1
      BY <2>6 DEF InsertInvoice
    <3>3. \A i \in DOMAIN invoices' :
              i > issued \/ (i \in DOMAIN invoices /\ invoices'[i] = invoices[i])
      BY <1>0, <2>6 DEF InsertInvoice, WithInvoice
    <3> QED BY <1>0, <1>1, <2>6, <3>1, <3>2, <3>3, MovedRemovals DEF InsertInvoice, Ends
  <2>7. ASSUME NEW i \in InvoiceIds, OpenInvoiceRemoval(r, i) PROVE SafeRemovals'
    <3> DEFINE next == [Idle EXCEPT !.step = "remove_invoice", !.invoice = i]
    <3>1. next.step = "remove_invoice" /\ next.invoice = i
      BY DEF Idle
    <3>2. /\ Goes(r, next) /\ UNCHANGED <<receipts, invoices, issued>>
          /\ i \in DOMAIN invoices /\ invoices[i] = "pending"
      BY <2>7 DEF OpenInvoiceRemoval
    <3> HIDE DEF next
    <3> QED BY <1>3, <3>1, <3>2
  <2>8. CASE RemoveInvoice(r)
    <3>1. WithStatus("approved")' = WithStatus("approved")
      BY <2>8 DEF RemoveInvoice, WithStatus
    <3> QED BY <1>0, <1>1, <2>8, <3>1, MovedRemovals DEF RemoveInvoice, Ends
  <2> QED BY <1>5, <2>1, <2>2, <2>3, <2>4, <2>5, <2>6, <2>7, <2>8 DEF Reviewer
<1>6. ASSUME NEW r \in Requests, Abandon(r) PROVE SafeRemovals'
  BY <1>1, <1>3, <1>6 DEF Abandon, Ends
<1>7. CASE Account \/ UNCHANGED paymentsVars
  BY <1>2, <1>7 DEF Account, MonthBegins, MonthEnds, ChangeDebt, paymentsVars
<1> QED BY <1>4, <1>5, <1>6, <1>7 DEF PaymentsNext

LEMMA RemovalsInvariant == PaymentsSpec => []SafeRemovals
<1>1. PaymentsInit => SafeRemovals
  BY DEF PaymentsInit, Idle, SafeRemovals, SafeRemoval, At
<1> QED BY <1>1, StepRemovals, TypesInvariant, PTL DEF PaymentsSpec

\* What was approved stays approved, whatever requests overlap, until a deletion
\* that an approval crossed is carried out: the checks before a deletion and the
\* locks of the reviews stop everything else.
THEOREM ApprovedForEver == PaymentsSpec => ApprovedStays
<1> DEFINE Stays == \/ "removal" \in crossings'
                    \/ /\ \A p \in WithStatus("approved") :
                             p \in DOMAIN receipts' /\ receipts'[p] = receipts[p]
                       /\ \A i \in DOMAIN invoices : invoices[i] = "approved" =>
                             i \in DOMAIN invoices' /\ invoices'[i] = "approved"
<1>1. PaymentsTypeOK /\ SafeRemovals /\ [PaymentsNext]_paymentsVars => [Stays]_paymentsVars
  <2> SUFFICES ASSUME PaymentsTypeOK, SafeRemovals, PaymentsNext PROVE Stays
    BY DEF paymentsVars
  <2>1. CASE receipts' = receipts /\ invoices' = invoices
    BY <2>1 DEF WithStatus
  <2>2. ASSUME NEW r \in Requests, InsertReceipt(r) PROVE Stays
    <3>1. sent + 1 \notin DOMAIN receipts
      BY PaymentsAssumption DEF PaymentsTypeOK
    <3> QED BY <2>2, <3>1 DEF InsertReceipt, WithReceipt, WithStatus
  <2>3. ASSUME NEW r \in Requests, Remove(r) PROVE Stays
    <3>1. CASE request[r].crossed
      BY <2>3, <3>1 DEF Remove, Crosses
    <3>2. CASE ~request[r].crossed
      <4>1. request[r].receipt \notin WithStatus("approved")
        BY <2>3, <3>2 DEF Remove, SafeRemovals, SafeRemoval
      <4> QED BY <2>3, <4>1 DEF Remove, WithStatus
    <3>3. request[r].crossed \in BOOLEAN
      BY DEF PaymentsTypeOK, Request
    <3> QED BY <3>1, <3>2, <3>3
  <2>4. ASSUME NEW r \in Requests, NEW verdict \in {"rejected", "partial"}, Decide(r, verdict)
        PROVE  Stays
    BY <2>4 DEF Decide, UnderReview, WithStatus
  <2>5. ASSUME NEW r \in Requests, CommitApprove(r) PROVE Stays
    <3>1. request[r].receipt \in UnderReview
      BY <2>5 DEF CommitApprove, PaymentsTypeOK, Locked
    <3> QED BY <2>5, <3>1 DEF CommitApprove, ReceiptApproved, UnderReview, WithStatus
  <2>6. ASSUME NEW r \in Requests, InsertInvoice(r) PROVE Stays
    BY <2>6 DEF InsertInvoice, WithInvoice, WithStatus
  <2>7. ASSUME NEW r \in Requests, RemoveInvoice(r) PROVE Stays
    <3>1. CASE request[r].crossed
      BY <2>7, <3>1 DEF RemoveInvoice, Crosses
    <3>2. CASE ~request[r].crossed
      BY <2>7, <3>2 DEF RemoveInvoice, SafeRemovals, SafeRemoval, WithStatus
    <3>3. request[r].crossed \in BOOLEAN
      BY DEF PaymentsTypeOK, Request
    <3> QED BY <3>1, <3>2, <3>3
  <2> HIDE DEF Stays
  <2> QED BY <2>1, <2>2, <2>3, <2>4, <2>5, <2>6, <2>7
        DEF PaymentsNext, Account, MonthBegins, MonthEnds, ChangeDebt, Payer, OpenSubmit,
            Validate, Capture,
            OpenRemoval, Reviewer, OpenReview, BeginApprove, OpenInvoice, OpenInvoiceRemoval, Abandon
<1> QED BY <1>1, TypesInvariant, RemovalsInvariant, PTL DEF PaymentsSpec, ApprovedStays

-----------------------------------------------------------------------------
(* Money.                                                                  *)

\* What a receipt on its way adds still fits what the account has owed, unless an
\* approval has crossed its request.
MoneyFits(r) == At(r, "insert") /\ ~request[r].crossed => Paid + request[r].expected <= peak

\* What PaidOnceUnlessCrossed needs to be inductive: whatever is approved next
\* also fits.
MoneyOK ==
    "receipt" \notin crossings =>
       /\ Paid <= peak
       /\ \A p \in UnderReview : Paid + receipts[p].expected <= peak
       /\ \A r \in Requests : MoneyFits(r)

LEMMA CoveredFinite == IsFiniteSet(Covered)
<1>1. IsFiniteSet(ReceiptIds) /\ IsFiniteSet(1..MaxDebt)
  BY PaymentsAssumption, FS_Interval DEF ReceiptIds
<1>2. IsFiniteSet(ReceiptIds \X (1..MaxDebt))
  BY <1>1, FS_Product
<1> QED BY <1>2, FS_Subset DEF Covered

\* Covering no more units does not pay more.
LEMMA PaidShrinks ==
    ASSUME Covered' \subseteq Covered
    PROVE  Paid' \in Nat /\ Paid' <= Paid
BY CoveredFinite, FS_Subset, FS_CardinalityType DEF Paid

\* An approved receipt adds at most what was expected of it.
LEMMA PaidGrows ==
    ASSUME NEW p, NEW e \in Nat, Covered' \subseteq Covered \cup ({p} \X (1..e))
    PROVE  Paid' \in Nat /\ Paid' <= Paid + e
<1> DEFINE Own == {p} \X (1..e)
<1>1. IsFiniteSet({p}) /\ Cardinality({p}) = 1
  BY FS_Singleton
<1>2. IsFiniteSet(1..e) /\ Cardinality(1..e) = e
  <2>1. \A b \in Int : IsFiniteSet(1..b) /\ Cardinality(1..b) = IF 1 > b THEN 0 ELSE b - 1 + 1
    BY FS_Interval
  <2> QED BY <2>1
<1>3. IsFiniteSet(Own) /\ Cardinality(Own) = Cardinality({p}) * Cardinality(1..e)
  BY <1>1, <1>2, FS_Product
<1>4. Cardinality(Own) = e
  BY <1>1, <1>2, <1>3
<1> HIDE DEF Own
<1>5. /\ IsFiniteSet(Covered \cup Own)
      /\ Cardinality(Covered \cup Own)
            = Cardinality(Covered) + Cardinality(Own) - Cardinality(Covered \cap Own)
  BY <1>3, CoveredFinite, FS_Union
<1>6. Cardinality(Covered \cap Own) \in Nat /\ Cardinality(Covered) \in Nat
  BY CoveredFinite, FS_Subset, FS_CardinalityType
<1>7. Cardinality(Covered') \in Nat /\ Cardinality(Covered') <= Cardinality(Covered \cup Own)
  BY <1>5, FS_Subset, FS_CardinalityType DEF Own
<1> QED BY <1>4, <1>5, <1>6, <1>7 DEF Paid

\* A step that approves nothing.
LEMMA SamePaid ==
    ASSUME \A p \in WithStatus("approved")' : /\ p \in WithStatus("approved")
                                              /\ receipts'[p].expected = receipts[p].expected
    PROVE  Paid' \in Nat /\ Paid' <= Paid
<1>1. Covered' \subseteq Covered
  BY DEF Covered
<1> QED BY <1>1, PaidShrinks

\* A step that approves nothing, and whose request reads no debt.
LEMMA MoneyKept ==
    ASSUME PaymentsTypeOK, PaymentsTypeOK', MoneyOK, crossings \subseteq crossings',
           peak <= peak',
           \A p \in WithStatus("approved")' : /\ p \in WithStatus("approved")
                                              /\ receipts'[p].expected = receipts[p].expected,
           \A p \in UnderReview' : /\ p \in UnderReview
                                   /\ receipts'[p].expected = receipts[p].expected,
           \A q \in Requests : request'[q] = request[q] \/ ~At(q, "insert")'
    PROVE  MoneyOK'
<1> SUFFICES ASSUME "receipt" \notin crossings' PROVE MoneyOK'
  BY DEF MoneyOK
<1>1. Paid' \in Nat /\ Paid' <= Paid /\ Paid \in Nat
  BY SamePaid, PaidType
<1>2. /\ peak \in Nat /\ peak' \in Nat
      /\ \A p \in UnderReview : receipts[p].expected \in Nat
      /\ \A q \in Requests : request[q].expected \in Nat
  BY PaymentsAssumption DEF PaymentsTypeOK, Debts, UnderReview, WithStatus, Receipt, Request
<1>3. /\ Paid <= peak
      /\ \A p \in UnderReview : Paid + receipts[p].expected <= peak
      /\ \A q \in Requests : MoneyFits(q)
  BY DEF MoneyOK
<1>4. Paid' <= peak'
  BY <1>1, <1>2, <1>3
<1>5. \A p \in UnderReview' : Paid' + receipts'[p].expected <= peak'
  <2> TAKE p \in UnderReview'
  <2>1. p \in UnderReview /\ receipts'[p].expected = receipts[p].expected
    OBVIOUS
  <2>2. Paid + receipts[p].expected <= peak /\ receipts[p].expected \in Nat
    BY <1>2, <1>3, <2>1
  <2> QED BY <1>1, <1>2, <2>1, <2>2
<1>6. \A q \in Requests : MoneyFits(q)'
  <2> SUFFICES ASSUME NEW q \in Requests, At(q, "insert")', ~request'[q].crossed
               PROVE  Paid' + request'[q].expected <= peak'
    BY DEF MoneyFits
  <2>1. request'[q] = request[q]
    OBVIOUS
  <2>2. Paid + request[q].expected <= peak
    BY <1>3, <2>1 DEF MoneyFits, At
  <2> QED BY <1>1, <1>2, <2>1, <2>2
<1> QED BY <1>4, <1>5, <1>6 DEF MoneyOK

\* The steps where the receipts, or what they cover, change.
LEMMA MoneyMoves ==
    ASSUME PaymentsTypeOK, PaymentsTypeOK', OneUnderReview, MoneyOK,
           crossings \subseteq crossings',
           NEW r \in Requests, Capture(r) \/ InsertReceipt(r) \/ CommitApprove(r)
    PROVE  MoneyOK'
<1> SUFFICES ASSUME "receipt" \notin crossings' PROVE MoneyOK'
  BY DEF MoneyOK
<1>0. /\ Paid \in Nat /\ peak \in Nat /\ payable \in Nat /\ payable <= peak
      /\ request \in [Requests -> Request]
      /\ \A p \in UnderReview : receipts[p].expected \in Nat
      /\ \A q \in Requests : request[q].expected \in Nat
  BY PaidType, PaymentsAssumption DEF PaymentsTypeOK, Debts, UnderReview, WithStatus,
      Receipt, Request
<1>1. /\ Paid <= peak
      /\ \A p \in UnderReview : Paid + receipts[p].expected <= peak
      /\ \A q \in Requests : MoneyFits(q)
  BY DEF MoneyOK
<1>2. CASE Capture(r)
  <2>1. receipts' = receipts /\ peak' = peak
    BY <1>2 DEF Capture
  <2>2. UnderReview' = UnderReview /\ Paid' = Paid
    BY <2>1 DEF UnderReview, WithStatus, Paid, Covered
  <2>3. Paid + Outstanding <= peak
    BY <1>0, <1>1 DEF Outstanding
  <2>4. /\ request'[r].expected = Outstanding
        /\ \A q \in Requests \ {r} : request'[q] = request[q]
    BY <1>0, <1>2 DEF Capture, Goes, On, Request
  <2>5. \A q \in Requests : MoneyFits(q)'
    BY <1>1, <2>1, <2>2, <2>3, <2>4 DEF MoneyFits, At
  <2> QED BY <1>1, <2>1, <2>2, <2>5 DEF MoneyOK
<1>3. CASE InsertReceipt(r)
  <2> DEFINE e == request[r].expected
  <2>1. ~request[r].crossed /\ At(r, "insert") /\ peak' = peak
    BY <1>3 DEF InsertReceipt, Crosses
  <2>2. Paid + e <= peak /\ e \in Nat
    BY <1>0, <1>1, <2>1 DEF MoneyFits
  <2>3. /\ UnderReview' = {sent + 1} /\ receipts'[sent + 1].expected = e
        /\ \A p \in WithStatus("approved")' : /\ p \in WithStatus("approved")
                                              /\ receipts'[p].expected = receipts[p].expected
    BY <1>3 DEF InsertReceipt, UnderReview, WithStatus, WithReceipt, Row
  <2>4. Paid' \in Nat /\ Paid' <= Paid
    BY <2>3, SamePaid
  <2>5. \A q \in Requests : request'[q] = request[q] \/ ~At(q, "insert")'
    BY <1>0, <1>3 DEF InsertReceipt, Ends, Goes, Idle, At
  <2> HIDE DEF e
  <2>6. \A q \in Requests : MoneyFits(q)'
    <3> SUFFICES ASSUME NEW q \in Requests, At(q, "insert")', ~request'[q].crossed
                 PROVE  Paid' + request'[q].expected <= peak'
      BY DEF MoneyFits
    <3>1. request'[q] = request[q]
      BY <2>5
    <3>2. Paid + request[q].expected <= peak /\ request[q].expected \in Nat
      BY <1>0, <1>1, <3>1 DEF MoneyFits, At
    <3> QED BY <1>0, <2>1, <2>4, <3>1, <3>2
  <2>7. Paid' <= peak' /\ Paid' + e <= peak'
    <3>1. /\ Paid \in Nat /\ peak \in Nat /\ e \in Nat /\ peak' = peak /\ Paid' \in Nat
          /\ Paid' <= Paid /\ Paid + e <= peak
      BY <1>0, <2>1, <2>2, <2>4
    <3>2. \A paid, more, q \in Nat : more <= paid /\ paid + e <= q => more <= q /\ more + e <= q
      BY <3>1
    <3> QED BY <3>1, <3>2
  <2> QED BY <2>3, <2>6, <2>7 DEF MoneyOK
<1>4. CASE CommitApprove(r)
  <2> DEFINE p == request[r].receipt
  <2>1. p \in UnderReview
    BY <1>4 DEF CommitApprove, PaymentsTypeOK, Locked
  <2>2. receipts' = [receipts EXCEPT ![p].status = "approved"] /\ peak' = peak
    BY <1>4 DEF CommitApprove, ReceiptApproved
  <2>3. UnderReview' = {}
    BY <2>1, <2>2 DEF OneUnderReview, UnderReview, WithStatus, PaymentsTypeOK, Receipt
  <2>4. Covered' \subseteq Covered \cup ({p} \X (1..receipts[p].expected))
    <3>1. \A q \in DOMAIN receipts : receipts'[q].expected = receipts[q].expected
      BY <2>2 DEF PaymentsTypeOK, Receipt
    <3>2. WithStatus("approved")' \subseteq WithStatus("approved") \cup {p}
      BY <2>2 DEF WithStatus
    <3>3. WithStatus("approved")' \subseteq DOMAIN receipts
      BY <2>2 DEF WithStatus
    <3> QED BY <3>1, <3>2, <3>3 DEF Covered
  <2>5. Paid' \in Nat /\ Paid' <= Paid + receipts[p].expected
    BY <1>0, <2>1, <2>4, PaidGrows
  <2>6. Paid + receipts[p].expected <= peak /\ receipts[p].expected \in Nat
    BY <1>0, <1>1, <2>1
  <2>7. Paid' <= peak'
    BY <1>0, <2>2, <2>5, <2>6
  <2>8. \A q \in Requests : ~At(q, "insert")' \/ request'[q].crossed
    <3>1. ~At(r, "insert")'
      BY <1>0, <1>4, CommitMoves DEF CommitApprove, At, Idle
    <3>2. \A q \in Requests \ {r} : ~At(q, "insert")' \/ request'[q].crossed
      BY <1>0, <1>4, CommitMoves DEF CommitApprove, At
    <3> QED BY <3>1, <3>2
  <2> QED BY <2>3, <2>7, <2>8 DEF MoneyOK, MoneyFits
<1> QED BY <1>2, <1>3, <1>4

LEMMA StepMoney ==
    PaymentsTypeOK /\ PaymentsTypeOK' /\ OneUnderReview /\ MoneyOK /\ [PaymentsNext]_paymentsVars
        => MoneyOK'
<1> SUFFICES ASSUME PaymentsTypeOK, PaymentsTypeOK', OneUnderReview, MoneyOK,
                    [PaymentsNext]_paymentsVars
             PROVE MoneyOK'
  OBVIOUS
<1>0. /\ crossings \subseteq crossings' /\ peak \in Nat /\ request \in [Requests -> Request]
  BY CrossingsGrow, PaymentsAssumption DEF PaymentsTypeOK, Debts
<1>1. ASSUME NEW r \in Requests, Capture(r) \/ InsertReceipt(r) \/ CommitApprove(r)
      PROVE MoneyOK'
  BY <1>0, <1>1, MoneyMoves
<1>2. ASSUME NEW r \in Requests, NEW next, Goes(r, next), next.step # "insert", peak' = peak,
             \A p \in DOMAIN receipts' : /\ p \in DOMAIN receipts
                                         /\ receipts'[p].expected = receipts[p].expected
                                         /\ \/ receipts'[p].status = receipts[p].status
                                            \/ receipts'[p].status \in {"rejected", "partial"}
      PROVE  MoneyOK'
  <2>1. \A q \in Requests : request'[q] = request[q] \/ ~At(q, "insert")'
    BY <1>0, <1>2 DEF Goes, At
  <2>2. /\ \A p \in WithStatus("approved")' : /\ p \in WithStatus("approved")
                                              /\ receipts'[p].expected = receipts[p].expected
        /\ \A p \in UnderReview' : /\ p \in UnderReview
                                   /\ receipts'[p].expected = receipts[p].expected
    BY <1>2 DEF WithStatus, UnderReview
  <2> QED BY <1>0, <1>2, <2>1, <2>2, MoneyKept
<1>3. ASSUME NEW r \in Requests, Ends(r), UNCHANGED <<peak, receipts>> PROVE MoneyOK'
  BY <1>2, <1>3 DEF Ends, Idle
<1>4. ASSUME NEW r \in Requests, Payer(r) PROVE MoneyOK'
  <2>1. CASE OpenSubmit(r)
    BY <1>2, <2>1 DEF OpenSubmit, Idle
  <2>2. CASE Validate(r)
    <3>1. On(r, "capture").step # "insert"
      BY <1>0 DEF On, Request
    <3> QED BY <1>2, <2>2, <3>1 DEF Validate
  <2>3. ASSUME NEW p \in ReceiptIds, OpenRemoval(r, p) PROVE MoneyOK'
    BY <1>2, <2>3 DEF OpenRemoval, Idle
  <2>4. CASE Remove(r)
    <3>1. Idle.step # "insert"
      BY DEF Idle
    <3> QED BY <1>2, <2>4, <3>1 DEF Remove, Ends
  <2> QED BY <1>1, <1>4, <2>1, <2>2, <2>3, <2>4 DEF Payer
<1>5. ASSUME NEW r \in Requests, Reviewer(r) PROVE MoneyOK'
  <2>1. ASSUME NEW p \in ReceiptIds, NEW step \in {"review", "approval"}, OpenReview(r, p, step)
        PROVE  MoneyOK'
    BY <1>2, <2>1 DEF OpenReview, Idle
  <2>2. ASSUME NEW verdict \in {"rejected", "partial"}, Decide(r, verdict) PROVE MoneyOK'
    <3>1. Idle.step # "insert"
      BY DEF Idle
    <3>2. \A p \in DOMAIN receipts' : /\ p \in DOMAIN receipts
                                      /\ receipts'[p].expected = receipts[p].expected
                                      /\ \/ receipts'[p].status = receipts[p].status
                                         \/ receipts'[p].status \in {"rejected", "partial"}
      BY <2>2 DEF Decide, PaymentsTypeOK, Receipt
    <3> QED BY <1>2, <2>2, <3>1, <3>2 DEF Decide, Ends
  <2>3. CASE BeginApprove(r)
    <3>1. On(r, "approve").step = "approve"
      BY <1>0 DEF On, Request
    <3>2. \A i : [On(r, "approve") EXCEPT !.invoice = i].step = "approve"
      BY <1>0 DEF On, Request
    <3>3. PICK next : Goes(r, next) /\ next.step = "approve"
      BY <2>3, <3>1, <3>2 DEF BeginApprove
    <3> QED BY <1>2, <2>3, <3>3 DEF BeginApprove
  <2>4. CASE OpenInvoice(r)
    BY <1>2, <2>4 DEF OpenInvoice, Idle
  <2>5. ASSUME NEW i \in InvoiceIds, OpenInvoiceRemoval(r, i) PROVE MoneyOK'
    BY <1>2, <2>5 DEF OpenInvoiceRemoval, Idle
  <2>6. CASE InsertInvoice(r) \/ RemoveInvoice(r)
    BY <1>3, <2>6 DEF InsertInvoice, RemoveInvoice
  <2> QED BY <1>1, <1>5, <2>1, <2>2, <2>3, <2>4, <2>5, <2>6 DEF Reviewer
<1>6. ASSUME NEW r \in Requests, Abandon(r) PROVE MoneyOK'
  BY <1>3, <1>6 DEF Abandon
<1>7. CASE Account \/ UNCHANGED paymentsVars
  <2>1. UNCHANGED <<receipts, request>> /\ peak <= peak'
    BY <1>0, <1>7, PaymentsAssumption
       DEF Account, MonthBegins, MonthEnds, ChangeDebt, paymentsVars, Debts
  <2>2. UnderReview' = UnderReview /\ WithStatus("approved")' = WithStatus("approved")
    BY <2>1 DEF UnderReview, WithStatus
  <2> QED BY <1>0, <2>1, <2>2, MoneyKept
<1> QED BY <1>4, <1>5, <1>6, <1>7 DEF PaymentsNext

\* Whatever requests overlap and however the debt moves between their steps, what
\* was approved never exceeds the most the account has owed, until a receipt is
\* inserted by a request that an approval has crossed.
THEOREM NobodyPaysTwice == PaymentsSpec => []PaidOnceUnlessCrossed
<1>1. PaymentsInit => MoneyOK
  <2> SUFFICES ASSUME PaymentsInit PROVE MoneyOK
    OBVIOUS
  <2>1. Covered = {} /\ UnderReview = {} /\ \A r \in Requests : ~At(r, "insert")
    BY DEF PaymentsInit, Covered, UnderReview, WithStatus, At, Idle
  <2>2. Paid = 0
    BY <2>1, FS_EmptySet DEF Paid
  <2> QED BY <2>1, <2>2 DEF PaymentsInit, MoneyOK, MoneyFits
<1>2. MoneyOK => PaidOnceUnlessCrossed
  BY DEF MoneyOK, PaidOnceUnlessCrossed, PaidWithinDebt
<1> QED BY <1>1, <1>2, StepMoney, TypesInvariant, ReviewIsUnique, PTL DEF PaymentsSpec

-----------------------------------------------------------------------------
(* The collection.                                                         *)

\* Nothing is approved before the month is over, and only then can the debt fall;
\* the receipt under review is the last one sent; an account that is settled is
\* shown as collected and its invoice is approved.
AccountOK ==
    /\ phase # "past" => WithStatus("approved") = {}
    /\ \A p \in UnderReview : IsLast(p)
    /\ SettledIsShown
    /\ Settled => \A i \in DOMAIN invoices : invoices[i] = "approved"
    /\ DOMAIN invoices # {} => IsCompany

\* Unless an approval has crossed it, a receipt on its way is for an account that
\* owes, and an invoice on its way knows if the account is settled; an approval on
\* its way knows the pending invoice.
Sending(r) == At(r, "submit") \/ At(r, "capture") \/ At(r, "insert")
RequestOK(r) ==
    /\ Sending(r) /\ ~request[r].crossed => ~Settled
    /\ At(r, "insert_invoice") => IsCompany
    /\ At(r, "insert_invoice") /\ ~request[r].crossed => (Settled => request[r].collected)
    /\ At(r, "approve") =>
         \A i \in DOMAIN invoices : invoices[i] = "approved" \/ i = request[r].invoice

\* What CollectedAndInvoiced needs to be inductive.
CollectionOK == crossings = {} => AccountOK /\ \A r \in Requests : RequestOK(r)

LEMMA SameBalance ==
    ASSUME receipts' = receipts, payable' = payable
    PROVE  /\ UnderReview' = UnderReview /\ WithStatus("approved")' = WithStatus("approved")
           /\ Settled' = Settled /\ Collected' = Collected
           /\ \A p : IsLast(p)' = IsLast(p)
BY DEF UnderReview, WithStatus, Settled, Collected, IsLast, Outstanding, Paid, Covered

\* Only an approval settles an account, or a debt that falls.
LEMMA NotNewlySettled ==
    ASSUME PaymentsTypeOK, payable' \in Nat, payable <= payable',
           \A p \in WithStatus("approved")' : /\ p \in WithStatus("approved")
                                              /\ receipts'[p].expected = receipts[p].expected
    PROVE  Settled' => Settled
<1>1. payable \in Nat /\ Paid \in Nat /\ Paid' \in Nat /\ Paid' <= Paid
  BY PaidType, SamePaid, PaymentsAssumption DEF PaymentsTypeOK, Debts
<1>2. Outstanding' = 0 => Outstanding = 0
  <2>1. \A debt, paid \in Nat : (IF debt >= paid THEN debt - paid ELSE 0) = 0 => debt <= paid
    OBVIOUS
  <2>2. Outstanding' = 0 => payable' <= Paid'
    BY <1>1, <2>1 DEF Outstanding
  <2>3. payable <= Paid => Outstanding = 0
    BY <1>1 DEF Outstanding
  <2> QED BY <1>1, <2>2, <2>3
<1>3. WithStatus("approved")' # {} => WithStatus("approved") # {}
  OBVIOUS
<1> QED BY <1>2, <1>3 DEF Settled

\* A request that a step does not move, when it neither settles the account nor
\* brings a pending invoice.
LEMMA OtherRequests ==
    ASSUME PaymentsTypeOK, NEW q \in Requests, RequestOK(q), request'[q] = request[q],
           Settled' => Settled,
           \A i \in DOMAIN invoices' : i \in DOMAIN invoices /\ invoices'[i] = invoices[i]
    PROVE  RequestOK(q)'
<1>1. \A st \in Steps : At(q, st)' = At(q, st)
  BY DEF At
<1>2. Sending(q)' = Sending(q)
  BY <1>1 DEF Sending, Steps
<1>3. At(q, "approve")' => \A i \in DOMAIN invoices' :
                              invoices'[i] = "approved" \/ i = request'[q].invoice
  BY <1>1 DEF RequestOK, Steps
<1> QED BY <1>1, <1>2, <1>3 DEF RequestOK, Steps

\* A step that only moves a request.
LEMMA MoveCollection ==
    ASSUME PaymentsTypeOK, CollectionOK, NEW r \in Requests, NEW next, Goes(r, next),
           UNCHANGED <<phase, payable, receipts, invoices, crossings>>,
           next.step \in {"submit", "capture", "insert"} =>
              (crossings = {} => next.crossed \/ ~Settled),
           next.step = "insert_invoice" => IsCompany /\ (SettledIsShown /\ Settled => next.collected),
           next.step = "approve" /\ crossings = {} =>
              \A i \in DOMAIN invoices : invoices[i] = "approved" \/ i = next.invoice
    PROVE  CollectionOK'
<1> SUFFICES ASSUME crossings = {} PROVE AccountOK' /\ \A q \in Requests : RequestOK(q)'
  BY DEF CollectionOK
<1>1. AccountOK /\ \A q \in Requests : RequestOK(q)
  BY DEF CollectionOK
<1>2. request'[r] = next /\ \A q \in Requests \ {r} : request'[q] = request[q]
  BY DEF Goes, PaymentsTypeOK
<1>3. /\ UnderReview' = UnderReview /\ WithStatus("approved")' = WithStatus("approved")
      /\ Settled' = Settled /\ Collected' = Collected
      /\ \A p : IsLast(p)' = IsLast(p)
  BY SameBalance
<1>4. AccountOK'
  BY <1>1, <1>3 DEF AccountOK, SettledIsShown
<1>5. \A q \in Requests \ {r} : RequestOK(q)'
  BY <1>1, <1>2, <1>3, OtherRequests
<1>6. RequestOK(r)'
  BY <1>1, <1>2, <1>3 DEF RequestOK, Sending, At, AccountOK
<1> QED BY <1>4, <1>5, <1>6

\* A request that ends, with no new invoice: what remains to show is about the
\* account alone.
LEMMA EndCollection ==
    ASSUME PaymentsTypeOK, CollectionOK, NEW r \in Requests, Ends(r),
           crossings \subseteq crossings',
           crossings' = {} => AccountOK' /\ (Settled' => Settled),
           \A i \in DOMAIN invoices' : i \in DOMAIN invoices /\ invoices'[i] = invoices[i]
    PROVE  CollectionOK'
<1> SUFFICES ASSUME crossings' = {} PROVE \A q \in Requests : RequestOK(q)'
  BY DEF CollectionOK
<1>1. \A q \in Requests : RequestOK(q)
  BY DEF CollectionOK
<1>2. request'[r] = Idle /\ \A q \in Requests \ {r} : request'[q] = request[q]
  BY DEF Ends, Goes, PaymentsTypeOK
<1>3. \A q \in Requests \ {r} : RequestOK(q)'
  BY <1>1, <1>2, OtherRequests
<1>4. RequestOK(r)'
  BY <1>2 DEF RequestOK, Sending, At, Idle
<1> QED BY <1>3, <1>4

LEMMA PayerCollection ==
    ASSUME PaymentsTypeOK, SafeRemovals, CollectionOK, crossings \subseteq crossings',
           NEW r \in Requests, Payer(r)
    PROVE  CollectionOK'
<1>0. payable \in Nat /\ sent \in Nat /\ request \in [Requests -> Request]
  BY PaymentsAssumption DEF PaymentsTypeOK, Debts
<1>1. CASE OpenSubmit(r)
  <2> DEFINE next == [Idle EXCEPT !.step = "submit"]
  <2>1. next.step = "submit" /\ Goes(r, next) /\ ~Settled
        /\ UNCHANGED <<phase, payable, receipts, invoices, crossings>>
    BY <1>1 DEF OpenSubmit, Idle
  <2> HIDE DEF next
  <2> QED BY <2>1, MoveCollection
<1>2. CASE Validate(r)
  <2> DEFINE next == On(r, "capture")
  <2>1. /\ next.step = "capture" /\ next.crossed = request[r].crossed /\ Goes(r, next)
        /\ UNCHANGED <<phase, payable, receipts, invoices, crossings>>
    BY <1>0, <1>2 DEF Validate, On, Request
  <2>2. crossings = {} => next.crossed \/ ~Settled
    BY <1>2, <2>1 DEF Validate, CollectionOK, RequestOK, Sending
  <2> HIDE DEF next
  <2> QED BY <2>1, <2>2, MoveCollection
<1>3. CASE Capture(r)
  <2> DEFINE next == [On(r, "insert") EXCEPT !.expected = Outstanding]
  <2>1. /\ next.step = "insert" /\ next.crossed = request[r].crossed /\ Goes(r, next)
        /\ UNCHANGED <<phase, payable, receipts, invoices, crossings>>
    BY <1>0, <1>3 DEF Capture, On, Request
  <2>2. crossings = {} => next.crossed \/ ~Settled
    BY <1>3, <2>1 DEF Capture, CollectionOK, RequestOK, Sending
  <2> HIDE DEF next
  <2> QED BY <2>1, <2>2, MoveCollection
<1>4. CASE InsertReceipt(r)
  <2> SUFFICES ASSUME crossings' = {} PROVE AccountOK' /\ (Settled' => Settled)
    BY <1>4, EndCollection DEF InsertReceipt
  <2>1. AccountOK /\ RequestOK(r) /\ ~request[r].crossed
    BY <1>4 DEF InsertReceipt, Crosses, CollectionOK
  <2>2. ~Settled /\ UNCHANGED <<phase, payable, invoices>>
    BY <1>4, <2>1 DEF InsertReceipt, RequestOK, Sending
  <2>3. /\ UnderReview' = {sent + 1} /\ DOMAIN receipts' = DOMAIN receipts \cup {sent + 1}
        /\ WithStatus("approved")' \subseteq WithStatus("approved")
        /\ \A p \in WithStatus("approved")' : receipts'[p].expected = receipts[p].expected
    BY <1>4 DEF InsertReceipt, UnderReview, WithStatus, WithReceipt, Row
  <2>4. ~Settled'
    BY <1>0, <2>2, <2>3, NotNewlySettled
  <2>5. (\A p \in UnderReview : IsLast(p))'
    BY <1>0, <2>3 DEF IsLast, PaymentsTypeOK
  <2> QED BY <2>1, <2>2, <2>3, <2>4, <2>5 DEF AccountOK, SettledIsShown
<1>5. ASSUME NEW p \in ReceiptIds, OpenRemoval(r, p) PROVE CollectionOK'
  <2> DEFINE next == [Idle EXCEPT !.step = "remove", !.receipt = p]
  <2>1. next.step = "remove" /\ Goes(r, next)
        /\ UNCHANGED <<phase, payable, receipts, invoices, crossings>>
    BY <1>5 DEF OpenRemoval, Idle
  <2> HIDE DEF next
  <2> QED BY <2>1, MoveCollection
<1>6. CASE Remove(r)
  <2> DEFINE p == request[r].receipt
  <2> SUFFICES ASSUME crossings' = {} PROVE AccountOK' /\ (Settled' => Settled)
    BY <1>6, EndCollection DEF Remove
  <2>1. /\ AccountOK /\ UNCHANGED <<phase, payable, invoices>>
        /\ p \notin WithStatus("approved")
    BY <1>6 DEF Remove, Crosses, CollectionOK, SafeRemovals, SafeRemoval
  <2>2. /\ DOMAIN receipts' = DOMAIN receipts \ {p}
        /\ \A q \in DOMAIN receipts \ {p} : receipts'[q] = receipts[q]
    BY <1>6 DEF Remove
  <2>3. /\ WithStatus("approved")' = WithStatus("approved")
        /\ UnderReview' = UnderReview \ {p}
        /\ \A q \in WithStatus("approved")' : receipts'[q].expected = receipts[q].expected
    BY <2>1, <2>2 DEF UnderReview, WithStatus
  <2>4. \A q \in DOMAIN receipts' : IsLast(q) => IsLast(q)'
    BY <2>2 DEF IsLast
  <2>5. Settled' => Settled
    BY <1>0, <2>1, <2>3, NotNewlySettled
  <2>6. (\A q \in UnderReview : IsLast(q))'
    BY <2>1, <2>3, <2>4 DEF UnderReview, WithStatus, AccountOK
  <2>7. SettledIsShown'
    <3> SUFFICES ASSUME Settled' PROVE Collected'
      BY DEF SettledIsShown
    <3>1. Collected
      BY <2>1, <2>5 DEF AccountOK, SettledIsShown
    <3>2. PICK q \in WithStatus("approved") : IsLast(q)
      BY <3>1 DEF Collected
    <3>3. IsLast(q)' /\ q \in WithStatus("approved")' /\ UnderReview' = {}
      BY <2>3, <2>4, <3>1, <3>2 DEF Collected, WithStatus
    <3> QED BY <3>3 DEF Collected
  <2> QED BY <2>1, <2>3, <2>5, <2>6, <2>7 DEF AccountOK
<1> QED BY <1>1, <1>2, <1>3, <1>4, <1>5, <1>6 DEF Payer

LEMMA ReviewerCollection ==
    ASSUME PaymentsTypeOK, Exclusive, OneUnderReview, OneInvoice, CollectionOK,
           crossings \subseteq crossings', NEW r \in Requests, Reviewer(r)
    PROVE  CollectionOK'
<1>0. payable \in Nat /\ request \in [Requests -> Request]
  BY PaymentsAssumption DEF PaymentsTypeOK, Debts
<1>1. ASSUME NEW p \in ReceiptIds, NEW step \in {"review", "approval"}, OpenReview(r, p, step)
      PROVE  CollectionOK'
  <2> DEFINE next == [Idle EXCEPT !.step = step, !.receipt = p]
  <2>1. next.step = step /\ Goes(r, next)
        /\ UNCHANGED <<phase, payable, receipts, invoices, crossings>>
    BY <1>1 DEF OpenReview, Idle
  <2> HIDE DEF next
  <2> QED BY <2>1, MoveCollection
<1>2. ASSUME NEW verdict \in {"rejected", "partial"}, Decide(r, verdict) PROVE CollectionOK'
  <2> DEFINE p == request[r].receipt
  <2> SUFFICES ASSUME crossings' = {} PROVE AccountOK' /\ (Settled' => Settled)
    BY <1>2, EndCollection DEF Decide
  <2>1. AccountOK
    BY DEF CollectionOK
  <2>2. p \in UnderReview /\ UNCHANGED <<phase, payable, invoices>>
        /\ receipts' = [receipts EXCEPT ![p].status = verdict]
    BY <1>2 DEF Decide
  <2>3. ~Settled
    BY <2>1, <2>2 DEF AccountOK, SettledIsShown, Collected
  <2>4. /\ DOMAIN receipts' = DOMAIN receipts
        /\ WithStatus("approved")' \subseteq WithStatus("approved")
        /\ UnderReview' \subseteq UnderReview
        /\ \A q \in DOMAIN receipts : receipts'[q].expected = receipts[q].expected
    BY <2>2 DEF UnderReview, WithStatus, PaymentsTypeOK, Receipt
  <2>5. ~Settled'
    BY <1>0, <2>2, <2>3, <2>4, NotNewlySettled DEF WithStatus
  <2>6. (\A q \in UnderReview : IsLast(q))'
    BY <2>1, <2>4 DEF IsLast, AccountOK
  <2> QED BY <2>1, <2>2, <2>4, <2>5, <2>6 DEF AccountOK, SettledIsShown
<1>3. CASE BeginApprove(r)
  <2>1. At(r, "approval") /\ UNCHANGED <<phase, payable, receipts, invoices, crossings>>
    BY <1>3 DEF BeginApprove
  <2>2. ASSUME NEW i \in PendingInvoice, Goes(r, [On(r, "approve") EXCEPT !.invoice = i])
        PROVE  CollectionOK'
    <3> DEFINE next == [On(r, "approve") EXCEPT !.invoice = i]
    <3>1. next.step = "approve" /\ next.invoice = i
      BY <1>0 DEF On, Request
    <3>2. \A j \in DOMAIN invoices : j = i
      BY <2>2 DEF OneInvoice, PendingInvoice
    <3> HIDE DEF next
    <3>3. Goes(r, next)
      BY <2>2 DEF next
    <3> QED BY <2>1, <3>1, <3>2, <3>3, MoveCollection
  <2>3. ASSUME PendingInvoice = {}, Goes(r, On(r, "approve")) PROVE CollectionOK'
    <3> DEFINE next == On(r, "approve")
    <3>1. next.step = "approve"
      BY <1>0 DEF On, Request
    <3>2. crossings = {} => \A j \in DOMAIN invoices : invoices[j] = "approved"
      BY <2>3 DEF PendingInvoice, CollectionOK, AccountOK, PaymentsTypeOK, InvoiceStatuses
    <3> HIDE DEF next
    <3>3. Goes(r, next)
      BY <2>3 DEF next
    <3> QED BY <2>1, <3>1, <3>2, <3>3, MoveCollection
  <2> QED BY <1>3, <2>2, <2>3 DEF BeginApprove
<1>4. CASE CommitApprove(r)
  <2> SUFFICES ASSUME crossings' = {} PROVE AccountOK' /\ \A q \in Requests : RequestOK(q)'
    BY DEF CollectionOK
  <2>0. PICK p : p = request[r].receipt
    OBVIOUS
  <2>1. AccountOK /\ RequestOK(r) /\ phase = "past" /\ phase' = phase
    BY <1>4 DEF CommitApprove, ReceiptApproved, Crosses, CollectionOK
  <2>2. p \in UnderReview /\ receipts' = [receipts EXCEPT ![p].status = "approved"]
    BY <1>4, <2>0 DEF CommitApprove, ReceiptApproved, PaymentsTypeOK, Locked
  <2>3. \A i \in DOMAIN invoices' : i \in DOMAIN invoices /\ invoices'[i] = "approved"
    BY <1>4, <2>1 DEF CommitApprove, RequestOK
  <2>4. /\ DOMAIN receipts' = DOMAIN receipts /\ UnderReview' = {}
        /\ p \in WithStatus("approved")'
    BY <2>2 DEF OneUnderReview, UnderReview, WithStatus, PaymentsTypeOK, Receipt
  <2>5. IsLast(p)'
    BY <2>1, <2>2, <2>4 DEF IsLast, AccountOK
  <2>6. AccountOK'
    BY <2>1, <2>3, <2>4, <2>5 DEF AccountOK, SettledIsShown, Collected
  <2>7. \A q \in Requests \ {r} : RequestOK(q)'
    <3> SUFFICES ASSUME NEW q \in Requests \ {r} PROVE RequestOK(q)'
      OBVIOUS
    <3>1. /\ request'[q].step = request[q].step /\ request'[q].crossed = ~At(q, "idle")
      BY <1>0, <1>4, CommitMoves DEF CommitApprove
    <3>2. RequestOK(q)
      BY <1>4 DEF CollectionOK
    <3> QED BY <2>3, <3>1, <3>2 DEF RequestOK, Sending, At
  <2>8. RequestOK(r)'
    BY <1>0, <1>4, CommitMoves DEF CommitApprove, RequestOK, Sending, At, Idle
  <2> QED BY <2>6, <2>7, <2>8
<1>5. CASE OpenInvoice(r)
  <2> DEFINE next == [Idle EXCEPT !.step = "insert_invoice", !.collected = Collected]
  <2>1. next.step = "insert_invoice" /\ next.collected = Collected /\ Goes(r, next) /\ IsCompany
        /\ UNCHANGED <<phase, payable, receipts, invoices, crossings>>
    BY <1>5 DEF OpenInvoice, Idle
  <2> HIDE DEF next
  <2> QED BY <2>1, MoveCollection DEF SettledIsShown
<1>6. CASE InsertInvoice(r)
  <2> SUFFICES ASSUME crossings' = {} PROVE AccountOK' /\ \A q \in Requests : RequestOK(q)'
    BY DEF CollectionOK
  <2>1. /\ AccountOK /\ \A q \in Requests : RequestOK(q)
        /\ ~request[r].crossed /\ Locked = {}
    BY <1>6 DEF InsertInvoice, Crosses, CollectionOK
  <2>2. /\ UNCHANGED <<phase, payable, receipts>> /\ Ends(r) /\ IsCompany
        /\ (Settled => request[r].collected)
    BY <1>6, <2>1 DEF InsertInvoice, RequestOK
  <2>3. Settled => \A i \in DOMAIN invoices' : invoices'[i] = "approved"
    BY <1>6, <2>2 DEF InsertInvoice, WithInvoice
  <2>4. AccountOK'
    BY <2>1, <2>2, <2>3, SameBalance DEF AccountOK, SettledIsShown
  <2>5. \A q \in Requests : ~At(q, "approve")
    BY <2>1 DEF Locked
  <2>6. request'[r] = Idle /\ \A q \in Requests \ {r} : request'[q] = request[q]
    BY <1>0, <2>2 DEF Ends, Goes
  <2>7. \A q \in Requests \ {r} : RequestOK(q)'
    BY <2>1, <2>2, <2>5, <2>6, SameBalance DEF RequestOK, Sending, At
  <2>8. RequestOK(r)'
    BY <2>6 DEF RequestOK, Sending, At, Idle
  <2> QED BY <2>4, <2>7, <2>8
<1>7. ASSUME NEW i \in InvoiceIds, OpenInvoiceRemoval(r, i) PROVE CollectionOK'
  <2> DEFINE next == [Idle EXCEPT !.step = "remove_invoice", !.invoice = i]
  <2>1. next.step = "remove_invoice" /\ Goes(r, next)
        /\ UNCHANGED <<phase, payable, receipts, invoices, crossings>>
    BY <1>7 DEF OpenInvoiceRemoval, Idle
  <2> HIDE DEF next
  <2> QED BY <2>1, MoveCollection
<1>8. CASE RemoveInvoice(r)
  <2>1. /\ Ends(r) /\ UNCHANGED <<phase, payable, receipts>>
        /\ \A i \in DOMAIN invoices' : i \in DOMAIN invoices /\ invoices'[i] = invoices[i]
    BY <1>8 DEF RemoveInvoice
  <2>2. crossings' = {} => AccountOK'
    BY <2>1, SameBalance DEF CollectionOK, AccountOK, SettledIsShown
  <2> QED BY <2>1, <2>2, SameBalance, EndCollection
<1> QED BY <1>1, <1>2, <1>3, <1>4, <1>5, <1>6, <1>7, <1>8 DEF Reviewer

LEMMA AccountCollection ==
    ASSUME PaymentsTypeOK, CollectionOK, Account
    PROVE  CollectionOK'
<1> SUFFICES ASSUME crossings = {} PROVE AccountOK' /\ \A r \in Requests : RequestOK(r)'
  BY DEF CollectionOK, Account, MonthBegins, MonthEnds, ChangeDebt
<1>1. /\ UNCHANGED <<receipts, invoices, request>>
      /\ phase' # "past" => phase # "past"
  BY DEF Account, MonthBegins, MonthEnds, ChangeDebt, Current
<1>2. /\ WithStatus("approved")' = WithStatus("approved") /\ UnderReview' = UnderReview
      /\ \A p : IsLast(p)' = IsLast(p)
  BY <1>1 DEF UnderReview, WithStatus, IsLast
<1>3. AccountOK /\ \A r \in Requests : RequestOK(r)
  BY DEF CollectionOK
<1>4. Settled' => Settled
  <2>1. CASE phase # "past"
    BY <1>2, <1>3, <2>1 DEF AccountOK, Settled
  <2>2. CASE phase = "past"
    <3>1. payable' \in Nat /\ payable \in Nat /\ payable <= payable'
      BY <2>2, PaymentsAssumption
         DEF Account, MonthBegins, MonthEnds, ChangeDebt, Current, PaymentsTypeOK, Debts
    <3> QED BY <1>1, <1>2, <3>1, NotNewlySettled
  <2> QED BY <2>1, <2>2
<1>5. SettledIsShown'
  BY <1>2, <1>3, <1>4 DEF AccountOK, SettledIsShown, Collected
<1>6. AccountOK'
  BY <1>1, <1>2, <1>3, <1>4, <1>5 DEF AccountOK
<1>7. \A r \in Requests : RequestOK(r)'
  BY <1>1, <1>3, <1>4, OtherRequests
<1> QED BY <1>6, <1>7

LEMMA CollectionInvariant == PaymentsSpec => []CollectionOK
<1>1. PaymentsInit => CollectionOK
  <2> SUFFICES ASSUME PaymentsInit PROVE CollectionOK
    OBVIOUS
  <2>1. /\ WithStatus("approved") = {} /\ UnderReview = {} /\ DOMAIN invoices = {}
        /\ \A r \in Requests : request[r].step = "idle"
    BY DEF PaymentsInit, UnderReview, WithStatus, Idle
  <2> QED BY <2>1 DEF CollectionOK, AccountOK, RequestOK, Sending, SettledIsShown, Settled, At
<1>2. PaymentsTypeOK /\ Exclusive /\ OneUnderReview /\ OneInvoice /\ SafeRemovals /\ CollectionOK
        /\ [PaymentsNext]_paymentsVars => CollectionOK'
  <2> SUFFICES ASSUME PaymentsTypeOK, Exclusive, OneUnderReview, OneInvoice, SafeRemovals,
                      CollectionOK,
                      [PaymentsNext]_paymentsVars
               PROVE  CollectionOK'
    OBVIOUS
  <2>0. crossings \subseteq crossings'
    BY CrossingsGrow
  <2>1. ASSUME NEW r \in Requests, Abandon(r) PROVE CollectionOK'
    <3>1. Ends(r) /\ UNCHANGED <<phase, payable, receipts, invoices, crossings>>
      BY <2>1 DEF Abandon
    <3>2. crossings' = {} => AccountOK'
      BY <3>1, SameBalance DEF CollectionOK, AccountOK, SettledIsShown
    <3> QED BY <2>0, <3>1, <3>2, SameBalance, EndCollection
  <2>2. CASE UNCHANGED paymentsVars
    <3>1. UNCHANGED <<phase, payable, receipts, invoices, request, crossings>>
      BY <2>2 DEF paymentsVars
    <3>2. crossings = {} => AccountOK'
      BY <3>1, SameBalance DEF CollectionOK, AccountOK, SettledIsShown
    <3>3. crossings = {} => \A r \in Requests : RequestOK(r)'
      BY <3>1, SameBalance, OtherRequests DEF CollectionOK
    <3> QED BY <3>1, <3>2, <3>3 DEF CollectionOK
  <2> QED BY <2>0, <2>1, <2>2, AccountCollection, PayerCollection, ReviewerCollection
      DEF PaymentsNext
<1> QED BY <1>1, <1>2, TypesInvariant, ReviewIsUnique, InvoiceIsUnique, RemovalsInvariant, PTL
       DEF PaymentsSpec

\* However many requests there are, a collected period has no pending invoice and a
\* settled account is collected, until an approval crosses another request or comes
\* before the month is over.
THEOREM CollectedPeriodsAreInvoiced == PaymentsSpec => []CollectedAndInvoiced
<1>1. CollectionOK => CollectedAndInvoiced
  BY DEF CollectionOK, AccountOK, CollectedAndInvoiced, InvoiceFollowsCollection, Collected
<1> QED BY <1>1, CollectionInvariant, PTL

\* Whatever requests overlap, an account has one receipt under review and a period
\* one invoice.
THEOREM OneOfEachAtATime == PaymentsSpec => []OneOfEach
BY ReviewIsUnique, InvoiceIsUnique, PTL DEF OneOfEach

-----------------------------------------------------------------------------
(* The page where the provider collects: the sums it shows *)

Books == [consumed : SUBSET Meals, receipts : [Owners -> Seq(Receipts)], running : BOOLEAN]

\* What each owner owes, or has of debt, as a function of all of them.
AmountsIn(b) == [owner \in Owners |-> Amount(b, owner)]
DebtsIn(b) == [owner \in Owners |-> OutstandingOf(b, owner)]

LEMMA OwnersAre ==
    /\ IsFiniteSet(Owners) /\ IsFiniteSet(Clients) /\ IsFiniteSet(Employees)
    /\ Clients \subseteq Owners /\ Employees \subseteq Owners
    /\ \A c \in Clients : c \notin Employees /\ ClientOf(c) = c
    /\ \A e \in Employees : e \notin Clients /\ ClientOf(e) = EmployerOf[e]
    /\ \A owner \in Owners : ClientOf(owner) \in Clients
<1>1. IsFiniteSet(Owners)
  BY CollectionsAssumption, FS_Union DEF Owners
<1> QED BY <1>1, CollectionsAssumption DEF Owners, ClientOf

LEMMA OrdersAre ==
    ASSUME NEW b \in Books, NEW owner
    PROVE  /\ OrdersOf(b, owner) \subseteq b.consumed /\ IsFiniteSet(OrdersOf(b, owner))
           /\ b.consumed \subseteq Meals /\ IsFiniteSet(b.consumed)
<1>1. b.consumed \subseteq Meals
  BY DEF Books
<1>2. OrdersOf(b, owner) \subseteq b.consumed
  BY DEF OrdersOf
<1>3. IsFiniteSet(Meals)
  BY CollectionsAssumption
<1>4. IsFiniteSet(b.consumed)
  BY <1>1, <1>3, FS_Subset
<1> QED BY <1>1, <1>2, <1>4, FS_Subset

\* An amount is at least what any of its orders brings, and comes from some order.
LEMMA AmountIs ==
    ASSUME NEW b \in Books, NEW owner
    PROVE  /\ Amount(b, owner) \in Nat
           /\ \A m \in OrdersOf(b, owner) : DetailOf(m, owner) =< Amount(b, owner)
           /\ Amount(b, owner) > 0 => OrdersOf(b, owner) # {}
<1> DEFINE S == OrdersOf(b, owner)
           f == [m \in S |-> DetailOf(m, owner)]
<1>1. IsFiniteSet(S) /\ S \subseteq Meals
  BY OrdersAre
<1>2. \A m \in S : f[m] \in Nat /\ f[m] = DetailOf(m, owner)
  BY <1>1, CollectionsAssumption DEF DetailOf
<1>3. Amount(b, owner) = SumFunctionOnSet(f, S)
  BY DEF Amount, SumFunction
<1> HIDE DEF f, S
<1>4. /\ SumFunctionOnSet(f, S) \in Nat
      /\ SumFunctionOnSet(f, S) > 0 => \E m \in S : f[m] > 0
      /\ \A m \in S : f[m] =< SumFunctionOnSet(f, S)
  BY <1>1, <1>2, SumIsNat
<1> QED BY <1>2, <1>3, <1>4 DEF S

LEMMA ReceiptsAre ==
    ASSUME NEW b \in Books, NEW owner \in Owners
    PROVE  /\ b.receipts[owner] \in Seq(Receipts)
           /\ DOMAIN b.receipts[owner] = 1..Len(b.receipts[owner])
           /\ Len(b.receipts[owner]) \in Nat
           /\ IsFiniteSet(DOMAIN b.receipts[owner])
           /\ \A i \in DOMAIN b.receipts[owner] :
                 /\ b.receipts[owner][i] \in Receipts
                 /\ b.receipts[owner][i].expected \in Nat
                 /\ b.receipts[owner][i].number \in 1..MaxReceiptsSent
                 /\ b.receipts[owner][i].status \in Verdicts \cup {"submitted"}
<1>1. b.receipts[owner] \in Seq(Receipts)
  BY DEF Books
<1>2. /\ DOMAIN b.receipts[owner] = 1..Len(b.receipts[owner])
      /\ Len(b.receipts[owner]) \in Nat
  BY <1>1, LenProperties
<1>3. IsFiniteSet(1..Len(b.receipts[owner]))
  BY <1>2, FS_Interval
<1>4. \A i \in DOMAIN b.receipts[owner] : b.receipts[owner][i] \in Receipts
  BY <1>1, <1>2, ElementOfSeq
<1>5. \A r \in Receipts : /\ r.expected \in Nat /\ r.number \in 1..MaxReceiptsSent
                          /\ r.status \in Verdicts \cup {"submitted"}
  BY DEF Receipts
<1> QED BY <1>1, <1>2, <1>3, <1>4, <1>5

LEMMA DebtIs ==
    ASSUME NEW b \in Books, NEW owner \in Owners
    PROVE  PaidOf(b, owner) \in Nat /\ OutstandingOf(b, owner) \in Nat
<1> DEFINE S == ReceiptsWith(b, owner, "approved")
           f == [i \in S |-> b.receipts[owner][i].expected]
<1>1. S \subseteq DOMAIN b.receipts[owner]
  BY DEF ReceiptsWith
<1>2. IsFiniteSet(S)
  BY <1>1, ReceiptsAre, FS_Subset
<1>3. \A i \in S : f[i] \in Nat
  BY <1>1, ReceiptsAre
<1>4. PaidOf(b, owner) = SumFunctionOnSet(f, S)
  BY DEF PaidOf, SumFunction
<1> HIDE DEF f, S
<1>5. PaidOf(b, owner) \in Nat
  BY <1>2, <1>3, <1>4, SumIsNat
<1>6. Amount(b, owner) \in Nat
  BY AmountIs
<1> QED BY <1>5, <1>6 DEF OutstandingOf

\* The sums over some owners are sums of the same functions.
LEMMA SumsOfOwners ==
    ASSUME NEW b \in Books, NEW owners, owners \subseteq Owners
    PROVE  /\ SumOf(Amount, b, owners) = SumFunctionOnSet(AmountsIn(b), owners)
           /\ SumOf(OutstandingOf, b, owners) = SumFunctionOnSet(DebtsIn(b), owners)
<1>1. IsFiniteSet(owners)
  BY OwnersAre, FS_Subset
<1>2. SumOf(Amount, b, owners) = SumFunctionOnSet(AmountsIn(b), owners)
  <2> DEFINE f == [owner \in owners |-> Amount(b, owner)]
  <2>1. SumOf(Amount, b, owners) = SumFunctionOnSet(f, owners)
    BY DEF SumOf, SumFunction
  <2>2. \A owner \in owners : f[owner] = AmountsIn(b)[owner]
    BY DEF AmountsIn
  <2> HIDE DEF f
  <2> QED BY <1>1, <2>1, <2>2, SumsAlike
<1>3. SumOf(OutstandingOf, b, owners) = SumFunctionOnSet(DebtsIn(b), owners)
  <2> DEFINE f == [owner \in owners |-> OutstandingOf(b, owner)]
  <2>1. SumOf(OutstandingOf, b, owners) = SumFunctionOnSet(f, owners)
    BY DEF SumOf, SumFunction
  <2>2. \A owner \in owners : f[owner] = DebtsIn(b)[owner]
    BY DEF DebtsIn
  <2> HIDE DEF f
  <2> QED BY <1>1, <2>1, <2>2, SumsAlike
<1> QED BY <1>2, <1>3

\* An account that counts as approved has a settled debt and nothing under review.
LEMMA ApprovedIs ==
    ASSUME NEW b, NEW owner, CollectionStatusOf(b, owner) = "approved"
    PROVE  OutstandingOf(b, owner) = 0 /\ ReceiptsWith(b, owner, "submitted") = {}
<1> DEFINE all == b.receipts[owner]
<1>1. ReceiptsWith(b, owner, "submitted") = {}
  BY DEF CollectionStatusOf
<1>2. all # <<>>
  BY DEF CollectionStatusOf
<1>3. ~(all[Len(all)].status = "approved" /\ ~IsSettled(b, owner))
  BY DEF CollectionStatusOf
<1>4. all[Len(all)].status = "approved"
  BY <1>1, <1>2, <1>3 DEF CollectionStatusOf
<1> QED BY <1>1, <1>3, <1>4 DEF IsSettled

LEMMA HistoryIsSettled == HistoryOwesNothing
<1> SUFFICES ASSUME NEW c \in Groups(shownLedger, "history"), NEW owner \in Rows(shownLedger, c)
             PROVE  /\ OutstandingOf(shownLedger, owner) = 0
                    /\ ReceiptsWith(shownLedger, owner, "submitted") = {}
  BY DEF HistoryOwesNothing
<1>1. CollectionStatusOf(shownLedger, owner) = "approved"
  BY DEF Groups, GroupSettled
<1> QED BY <1>1, ApprovedIs

\* A sum of nothings is nothing.
LEMMA NothingOwed ==
    ASSUME NEW b \in Books, NEW owners, owners \subseteq Owners,
           \A owner \in owners : OutstandingOf(b, owner) = 0
    PROVE  SumFunctionOnSet(DebtsIn(b), owners) = 0
<1> DEFINE f == DebtsIn(b)
<1>1. IsFiniteSet(owners)
  BY OwnersAre, FS_Subset
<1>2. \A owner \in owners : f[owner] \in Nat /\ f[owner] = 0
  BY DEF DebtsIn
<1> HIDE DEF f
<1>3. /\ SumFunctionOnSet(f, owners) \in Nat
      /\ SumFunctionOnSet(f, owners) > 0 => \E owner \in owners : f[owner] > 0
  BY <1>1, <1>2, SumIsNat
<1> QED BY <1>2, <1>3 DEF f

\* What the card of a pending group says is the debt of those of its accounts
\* that are not approved.
LEMMA CardSays ==
    ASSUME NEW b \in Books, NEW c \in Groups(b, "pending")
    PROVE  EmployeesTotal(b, c) + CompanyTotal(b, c, "pending") =
             SumFunctionOnSet(DebtsIn(b),
               {owner \in Rows(b, c) : CollectionStatusOf(b, owner) # "approved"})
<1> DEFINE all == Rows(b, c)
           due == {owner \in all : CollectionStatusOf(b, owner) # "approved"}
           f == DebtsIn(b)
<1>1. all \subseteq Owners /\ ~GroupSettled(b, c)
  BY DEF Rows, Groups
<1>2. /\ EmployeesTotal(b, c) = SumFunctionOnSet(f, all \ {c})
      /\ CompanyTotal(b, c, "pending") = SumFunctionOnSet(f, all \cap {c})
  <2>1. /\ SumOf(OutstandingOf, b, all \ {c}) = SumFunctionOnSet(f, all \ {c})
        /\ SumOf(OutstandingOf, b, all \cap {c}) = SumFunctionOnSet(f, all \cap {c})
    <3>1. all \ {c} \subseteq Owners /\ all \cap {c} \subseteq Owners
      BY <1>1
    <3> QED BY <3>1, SumsOfOwners
  <2> QED BY <1>1, <2>1 DEF EmployeesTotal, CompanyTotal
<1>3. \A owner \in all : f[owner] \in Int
  BY <1>1, DebtIs DEF DebtsIn
<1>4. IsFiniteSet(all)
  BY <1>1, OwnersAre, FS_Subset
<1>5. SumFunctionOnSet(f, all \ due) = 0
  <2>1. \A owner \in all \ due : OutstandingOf(b, owner) = 0
    BY ApprovedIs
  <2> QED BY <1>1, <2>1, NothingOwed
<1>6. due \subseteq all
  OBVIOUS
<1>7. SumFunctionOnSet(f, due) \in Int
  <2> HIDE DEF f, due, all
  <2>1. IsFiniteSet(due) /\ \A owner \in due : f[owner] \in Int
    BY <1>3, <1>4, <1>6, FS_Subset
  <2> QED BY <2>1, SumIsInt
<1> HIDE DEF f, due, all
<1>8. SumFunctionOnSet(f, all) = SumFunctionOnSet(f, all \ {c}) + SumFunctionOnSet(f, all \cap {c})
  <2> DEFINE A == all \ {c}
             B == all \cap {c}
  <2>1. A \cup B = all /\ A \cap B = {}
    OBVIOUS
  <2>2. IsFiniteSet(A) /\ IsFiniteSet(B)
    BY <1>4, FS_Subset
  <2>3. \A owner \in A \cup B : f[owner] \in Int
    BY <1>3, <2>1
  <2> HIDE DEF A, B
  <2>4. SumFunctionOnSet(f, A \cup B) = SumFunctionOnSet(f, A) + SumFunctionOnSet(f, B)
    BY <2>1, <2>2, <2>3, SumOfUnion
  <2> QED BY <2>1, <2>4 DEF A, B
<1>9. SumFunctionOnSet(f, all) = SumFunctionOnSet(f, all \ due) + SumFunctionOnSet(f, due)
  <2> DEFINE A == all \ due
  <2>1. A \cup due = all /\ A \cap due = {}
    BY <1>6
  <2>2. IsFiniteSet(A) /\ IsFiniteSet(due)
    BY <1>4, <1>6, FS_Subset
  <2>3. \A owner \in A \cup due : f[owner] \in Int
    BY <1>3, <2>1
  <2> HIDE DEF A
  <2>4. SumFunctionOnSet(f, A \cup due) = SumFunctionOnSet(f, A) + SumFunctionOnSet(f, due)
    BY <2>1, <2>2, <2>3, SumOfUnion
  <2> QED BY <2>1, <2>4 DEF A
<1>10. SumFunctionOnSet(f, all \ {c}) + SumFunctionOnSet(f, all \cap {c}) = SumFunctionOnSet(f, due)
  BY <1>5, <1>7, <1>8, <1>9
<1> QED BY <1>2, <1>10 DEF due, f, all

LEMMA CardsAddUp == shownLedger \in Books => OutstandingIsOfTheCards
<1> SUFFICES ASSUME shownLedger \in Books PROVE OutstandingIsOfTheCards
  OBVIOUS
<1> DEFINE b == shownLedger
           due == {owner \in UNION {Rows(b, c) : c \in Clients} :
                     CollectionStatusOf(b, owner) # "approved"}
           f == DebtsIn(b)
           K == Groups(b, "pending")
           key == [owner \in Owners |-> ClientOf(owner)]
           g == [c \in K |-> EmployeesTotal(b, c) + CompanyTotal(b, c, "pending")]
<1>1. due \subseteq Owners
  BY DEF Rows
<1>2. TotalOutstanding = SumFunctionOnSet(f, due)
  BY <1>1, SumsOfOwners DEF TotalOutstanding
<1>3. IsFiniteSet(due) /\ IsFiniteSet(K)
  <2>1. K \subseteq Clients
    BY DEF Groups
  <2> QED BY <1>1, <2>1, OwnersAre, FS_Subset
<1>4. \A owner \in due : f[owner] \in Int
  BY <1>1, DebtIs DEF DebtsIn
<1>5. \A owner \in due : key[owner] \in K
  <2> SUFFICES ASSUME NEW owner \in due PROVE key[owner] \in K
    OBVIOUS
  <2>1. PICK c \in Clients : owner \in Rows(b, c)
    OBVIOUS
  <2>2. key[owner] = c
    BY <1>1, <2>1 DEF Rows
  <2>3. Rows(b, c) # {} /\ ~GroupSettled(b, c)
    BY <2>1 DEF GroupSettled
  <2> QED BY <2>2, <2>3 DEF Groups
<1>6. \A c \in K : g[c] = SumFunctionOnSet(f, Those(due, key, c))
  <2> SUFFICES ASSUME NEW c \in K PROVE g[c] = SumFunctionOnSet(f, Those(due, key, c))
    OBVIOUS
  <2>1. g[c] = SumFunctionOnSet(f, {owner \in Rows(b, c) :
                                      CollectionStatusOf(b, owner) # "approved"})
    BY CardSays
  <2>2. c \in Clients
    BY DEF Groups
  <2>3. {owner \in Rows(b, c) : CollectionStatusOf(b, owner) # "approved"} = Those(due, key, c)
    BY <1>1, <2>2 DEF Those, Rows
  <2> QED BY <2>1, <2>3
<1>7. SumFunction(g) = SumFunctionOnSet(g, K)
  BY DEF SumFunction
<1>8. SumFunctionOnSet(g, K) = SumFunctionOnSet(f, due)
  <2> HIDE DEF g, K, f, due, key
  <2> QED BY <1>3, <1>4, <1>5, <1>6, SumOfGroups
<1> QED BY <1>2, <1>7, <1>8 DEF OutstandingIsOfTheCards

\* Whoever ate a meal, or the company of theirs, has an account that is shown.
LEMMA MealsOnce == shownLedger \in Books => MealsCountedOnce
<1> SUFFICES ASSUME shownLedger \in Books, shownLedger.running, NEW c \in Clients
             PROVE  GroupMeals(shownLedger, c) = Cardinality(SalesDetail(shownLedger, c))
  BY DEF MealsCountedOnce
<1> DEFINE b == shownLedger
           shown == UNION {OrdersOf(b, owner) : owner \in Rows(b, c)}
<1>1. \A m \in b.consumed : /\ m \in Meals /\ ConsumerOf[m] \in Employees
                            /\ EmployerOf[ConsumerOf[m]] \in Clients
                            /\ Charged[m] \in Nat /\ Subsidised[m] \in Nat
                            /\ Charged[m] + Subsidised[m] > 0
  BY CollectionsAssumption DEF Books
<1>2. SalesDetail(b, c) = {m \in b.consumed : c = EmployerOf[ConsumerOf[m]]}
  BY CollectionsAssumption DEF SalesDetail
<1>3. ASSUME NEW m \in shown PROVE m \in SalesDetail(b, c)
  <2>1. PICK owner \in Rows(b, c) : m \in OrdersOf(b, owner)
    OBVIOUS
  <2>2. m \in b.consumed /\ owner \in {ConsumerOf[m], EmployerOf[ConsumerOf[m]]}
    BY <2>1 DEF OrdersOf
  <2>3. ClientOf(owner) = c
    BY DEF Rows
  <2>4. ClientOf(owner) = EmployerOf[ConsumerOf[m]]
    BY <1>1, <2>2, OwnersAre
  <2> QED BY <1>2, <2>2, <2>3, <2>4
<1>4. ASSUME NEW m \in SalesDetail(b, c) PROVE m \in shown
  <2>1. m \in b.consumed /\ c = EmployerOf[ConsumerOf[m]]
    BY <1>2
  <2> DEFINE e == ConsumerOf[m]
  <2>2. m \in OrdersOf(b, e) /\ m \in OrdersOf(b, c)
    BY <2>1 DEF OrdersOf
  <2>3. e \in Employees /\ Charged[m] \in Nat /\ Subsidised[m] \in Nat
        /\ Charged[m] + Subsidised[m] > 0
    BY <1>1, <2>1
  <2>4. DetailOf(m, e) = Charged[m] /\ DetailOf(m, c) = Subsidised[m]
    BY <2>3, OwnersAre DEF DetailOf
  <2>5. Charged[m] =< Amount(b, e) /\ Subsidised[m] =< Amount(b, c)
    BY <2>2, <2>4, AmountIs
  <2>6. Amount(b, e) \in Nat /\ Amount(b, c) \in Nat
    BY AmountIs
  <2>7. Amount(b, e) > 0 \/ Amount(b, c) > 0
    BY <2>3, <2>5, <2>6
  <2>8. /\ e \in Owners /\ ClientOf(e) = c
        /\ c \in Owners /\ ClientOf(c) = c
    BY <2>1, <2>3, OwnersAre
  <2> QED BY <2>2, <2>7, <2>8 DEF Rows
<1>5. shown = SalesDetail(b, c)
  BY <1>3, <1>4
<1> QED BY <1>5 DEF GroupMeals

\* The accounts of the employees bring what they pay of each order, those of the
\* companies the rest.
LEMMA SalesAddUp == shownLedger \in Books => SalesAreTheDetail
<1> SUFFICES ASSUME shownLedger \in Books PROVE SalesAreTheDetail
  OBVIOUS
<1> DEFINE b == shownLedger
           S == b.consumed
           f == AmountsIn(b)
           price == [m \in S |-> Charged[m] + Subsidised[m]]
           company == [m \in S |-> EmployerOf[ConsumerOf[m]]]
<1>1. /\ IsFiniteSet(S)
      /\ \A m \in S : /\ ConsumerOf[m] \in Employees /\ company[m] \in Clients
                      /\ Charged[m] \in Int /\ Subsidised[m] \in Int
                      /\ price[m] = Charged[m] + Subsidised[m] /\ price[m] \in Int
  BY OrdersAre, CollectionsAssumption DEF Books
<1>2. CASE ~b.running
  <2>1. SalesDetail(b, AllClients) = {} /\ Sales(b) = 0
    BY <1>2 DEF SalesDetail, Sales
  <2>2. DayTotal({}) = 0
    BY SumOfNothing DEF DayTotal, SumFunction
  <2> QED BY <2>1, <2>2 DEF SalesAreTheDetail
<1>3. CASE b.running
  <2>1. Sales(b) = SumFunctionOnSet(f, Owners)
    BY <1>3, SumsOfOwners DEF Sales
  <2>2. SalesDetail(b, AllClients) = S
    BY <1>3 DEF SalesDetail
  <2>3. DayTotal(S) = SumFunctionOnSet(price, S)
    BY DEF DayTotal, SumFunction
  <2>4. \A e \in Employees : f[e] = SumFunctionOnSet(Charged, Those(S, ConsumerOf, e))
    <3> SUFFICES ASSUME NEW e \in Employees
                 PROVE  f[e] = SumFunctionOnSet(Charged, Those(S, ConsumerOf, e))
      OBVIOUS
    <3> DEFINE its == OrdersOf(b, e)
               d == [m \in its |-> DetailOf(m, e)]
    <3>1. its = Those(S, ConsumerOf, e)
      <4>1. \A m \in S : e \in {ConsumerOf[m], company[m]} <=> ConsumerOf[m] = e
        <5> SUFFICES ASSUME NEW m \in S
                     PROVE  e \in {ConsumerOf[m], company[m]} <=> ConsumerOf[m] = e
          OBVIOUS
        <5>1. ConsumerOf[m] \in Employees /\ company[m] \in Clients
          BY <1>1
        <5>2. ConsumerOf[m] # company[m] /\ ConsumerOf[m] \notin Clients
          BY <5>1, OwnersAre
        <5>3. e # company[m]
          BY <5>1, OwnersAre
        <5> QED BY <5>3
      <4> QED BY <4>1 DEF OrdersOf, Those
    <3>2. f[e] = SumFunctionOnSet(d, its)
      BY OwnersAre DEF AmountsIn, Amount, SumFunction
    <3>3. \A m \in its : d[m] = Charged[m]
      BY OwnersAre DEF DetailOf
    <3>4. IsFiniteSet(its)
      BY OrdersAre
    <3> HIDE DEF d, its
    <3>5. SumFunctionOnSet(d, its) = SumFunctionOnSet(Charged, its)
      BY <3>3, <3>4, SumsAlike
    <3> QED BY <3>1, <3>2, <3>5
  <2>5. \A c \in Clients : f[c] = SumFunctionOnSet(Subsidised, Those(S, company, c))
    <3> SUFFICES ASSUME NEW c \in Clients
                 PROVE  f[c] = SumFunctionOnSet(Subsidised, Those(S, company, c))
      OBVIOUS
    <3> DEFINE its == OrdersOf(b, c)
               d == [m \in its |-> DetailOf(m, c)]
    <3>1. its = Those(S, company, c)
      <4>1. \A m \in S : c \in {ConsumerOf[m], company[m]} <=> company[m] = c
        <5> SUFFICES ASSUME NEW m \in S
                     PROVE  c \in {ConsumerOf[m], company[m]} <=> company[m] = c
          OBVIOUS
        <5>1. ConsumerOf[m] \in Employees /\ company[m] \in Clients
          BY <1>1
        <5>2. ConsumerOf[m] # company[m] /\ ConsumerOf[m] \notin Clients
          BY <5>1, OwnersAre
        <5>3. c # ConsumerOf[m]
          BY <5>1, OwnersAre
        <5> QED BY <5>3
      <4> QED BY <4>1 DEF OrdersOf, Those
    <3>2. f[c] = SumFunctionOnSet(d, its)
      BY OwnersAre DEF AmountsIn, Amount, SumFunction
    <3>3. \A m \in its : d[m] = Subsidised[m]
      BY DEF DetailOf
    <3>4. IsFiniteSet(its)
      BY OrdersAre
    <3> HIDE DEF d, its
    <3>5. SumFunctionOnSet(d, its) = SumFunctionOnSet(Subsidised, its)
      BY <3>3, <3>4, SumsAlike
    <3> QED BY <3>1, <3>2, <3>5
  <2>6. \A owner \in Owners : f[owner] \in Int
    BY AmountIs DEF AmountsIn
  <2> HIDE DEF f, S, price, company
  <2>7. SumFunctionOnSet(f, Employees) = SumFunctionOnSet(Charged, S)
    <3>1. /\ \A m \in S : Charged[m] \in Int
          /\ \A m \in S : ConsumerOf[m] \in Employees
      BY <1>1
    <3> QED BY <1>1, <2>4, <3>1, OwnersAre, SumOfGroups
  <2>8. SumFunctionOnSet(f, Clients) = SumFunctionOnSet(Subsidised, S)
    <3>1. /\ \A m \in S : Subsidised[m] \in Int
          /\ \A m \in S : company[m] \in Clients
      BY <1>1
    <3> QED BY <1>1, <2>5, <3>1, OwnersAre, SumOfGroups
  <2>9. SumFunctionOnSet(f, Owners) = SumFunctionOnSet(f, Clients) + SumFunctionOnSet(f, Employees)
    <3>1. Owners = Clients \cup Employees /\ Clients \cap Employees = {}
      BY CollectionsAssumption DEF Owners
    <3>2. IsFiniteSet(Clients) /\ IsFiniteSet(Employees)
      BY OwnersAre
    <3> HIDE DEF Employees
    <3> QED BY <2>6, <3>1, <3>2, SumOfUnion
  <2>10. SumFunctionOnSet(price, S) = SumFunctionOnSet(Subsidised, S) + SumFunctionOnSet(Charged, S)
    <3>1. \A m \in S : /\ Subsidised[m] \in Int /\ Charged[m] \in Int
                       /\ price[m] = Subsidised[m] + Charged[m]
      BY <1>1
    <3> QED BY <1>1, <3>1, SumOfBoth
  <2>11. Sales(b) = DayTotal(SalesDetail(b, AllClients))
    BY <2>1, <2>2, <2>3, <2>7, <2>8, <2>9, <2>10
  <2> QED BY <2>11 DEF SalesAreTheDetail
<1> QED BY <1>2, <1>3

LEMMA RefusalIsSaid == shownLedger \in Books => RefusedSaysWhy
<1> SUFFICES ASSUME shownLedger \in Books, NEW owner \in Owners
             PROVE  LET all == shownLedger.receipts[owner]
                        refused == {i \in DOMAIN all : all[i].status \in {"partial", "rejected"}}
                    IN  refused # {} /\ ReceiptsWith(shownLedger, owner, "approved") = {}
                          => /\ Notice(shownLedger, owner) = all[Max(refused)].status
                             /\ all[Max(refused)] \in Range(History(shownLedger, owner))
  BY DEF RefusedSaysWhy
<1> DEFINE all == shownLedger.receipts[owner]
           refused == {i \in DOMAIN all : all[i].status \in {"partial", "rejected"}}
           last == Max(refused)
<1> SUFFICES ASSUME refused # {}, ReceiptsWith(shownLedger, owner, "approved") = {}
             PROVE  /\ Notice(shownLedger, owner) = all[last].status
                    /\ all[last] \in Range(History(shownLedger, owner))
  OBVIOUS
<1>1. /\ DOMAIN all = 1..Len(all) /\ Len(all) \in Nat /\ IsFiniteSet(DOMAIN all)
  BY ReceiptsAre
<1>2. refused = ReceiptsWith(shownLedger, owner, "rejected")
                  \cup ReceiptsWith(shownLedger, owner, "partial")
  BY DEF ReceiptsWith
<1>3. last \in refused
  <2>1. IsFiniteSet(refused) /\ refused \subseteq Int
    BY <1>1, FS_Subset
  <2> HIDE DEF refused
  <2>2. \E m \in refused : \A y \in refused : m >= y
    BY <2>1, LargestIsThere
  <2> QED BY <2>2 DEF Max
<1>4. all[last].status \in {"partial", "rejected"} /\ last \in DOMAIN all
  BY <1>3
<1>5. PendingRejectionReason(shownLedger, owner) = all[last].status
  BY <1>2 DEF PendingRejectionReason
<1>6. Notice(shownLedger, owner) = all[last].status
  BY <1>4, <1>5, CollectionsAssumption DEF Notice, Verdicts
<1>7. History(shownLedger, owner) = all
  <2>1. CASE Len(all) > 1
    BY <2>1 DEF History
  <2>2. CASE ~(Len(all) > 1)
    <3>1. Len(all) = 1 /\ last = 1
      <4> DEFINE n == Len(all)
      <4>1. last \in 1..n /\ n \in Nat
        BY <1>1, <1>4
      <4>2. ~(n > 1)
        BY <2>2
      <4> HIDE DEF last, n
      <4>3. n = 1 /\ last = 1
        BY <4>1, <4>2
      <4> QED BY <4>3 DEF n
    <3>2. \A i \in DOMAIN all : i = 1
      BY <1>1, <3>1
    <3> HIDE DEF last
    <3>3. ReceiptsWith(shownLedger, owner, "submitted") = {}
      BY <1>4, <3>1, <3>2 DEF ReceiptsWith
    <3>4. all # <<>> /\ all[Len(all)].status = all[last].status
      BY <1>4, <3>1
    <3>5. CollectionStatusOf(shownLedger, owner) = all[last].status
      BY <1>4, <3>3, <3>4 DEF CollectionStatusOf
    <3> QED BY <1>4, <3>5 DEF History
  <2> QED BY <2>1, <2>2
<1>8. all[last] \in Range(all)
  BY <1>4 DEF Range
<1> QED BY <1>6, <1>7, <1>8

-----------------------------------------------------------------------------
(* The page where the provider collects: the review of receipts *)

ReviewsInFlight == [owner : Owners, number : 1..MaxReceiptsSent, verdict : Verdicts,
                    answer : {"waiting", "done", "alert"}, mounted : BOOLEAN]

Sheets == [owner : Owners, kind : {"receipt", "report"}]

CollectTypes ==
    /\ ledger \in Books /\ shownLedger \in Books
    /\ receiptsSent \in 0..MaxReceiptsSent
    /\ review # NoOne => review \in ReviewsInFlight
    /\ strays \subseteq [owner : Owners, number : 1..MaxReceiptsSent, verdict : Verdicts]

\* A number is of one receipt, and was handed out.
Numbered(b, last) ==
    \A owner \in Owners : \A i \in DOMAIN b.receipts[owner] :
        /\ b.receipts[owner][i].number =< last
        /\ \A j \in DOMAIN b.receipts[owner] :
              b.receipts[owner][i].number = b.receipts[owner][j].number => i = j

\* Its receipt has the verdict, if it is still there.
StandsAs(b, owner, number, verdict) ==
    \A i \in Standing(b, owner, number) : b.receipts[owner][i].status = verdict

\* A sheet is open on a receipt under review, as the page knows it.
SheetStands ==
    sheet # NoOne => sheet \in Sheets /\ ReceiptsWith(shownLedger, sheet.owner, "submitted") # {}

\* The verdict in flight is on a receipt that was sent, and done if it is answered so.
ReviewStands ==
    review # NoOne =>
        /\ review.number =< receiptsSent
        /\ review.answer = "done" =>
              StandsAs(ledger, review.owner, review.number, review.verdict)

CollectInv ==
    /\ CollectTypes
    /\ Numbered(ledger, receiptsSent) /\ Numbered(shownLedger, receiptsSent)
    /\ SheetStands
    /\ ReviewStands

LEMMA CollectStarts == CollectionsInit => CollectInv
<1> SUFFICES ASSUME CollectionsInit PROVE CollectInv
  OBVIOUS
<1>1. ledger \in Books
  <2>1. [owner \in Owners |-> <<>>] \in [Owners -> Seq(Receipts)]
    BY EmptySeq
  <2> QED BY <2>1 DEF CollectionsInit, Books
<1>2. CollectTypes
  BY <1>1, CollectionsAssumption DEF CollectionsInit, CollectTypes
<1>3. \A owner \in Owners : DOMAIN ledger.receipts[owner] = {}
  BY DEF CollectionsInit
<1>4. Numbered(ledger, receiptsSent) /\ Numbered(shownLedger, receiptsSent)
  BY <1>3 DEF CollectionsInit, Numbered
<1> QED BY <1>2, <1>4 DEF CollectInv, CollectionsInit, SheetStands, ReviewStands

\* The books with other receipts of an owner.
WithReceipts(b, owner, s) == [b EXCEPT !.receipts[owner] = s]

LEMMA OtherReceipts ==
    ASSUME NEW b \in Books, NEW owner \in Owners, NEW s \in Seq(Receipts),
           NEW c, c = WithReceipts(b, owner, s)
    PROVE  /\ c \in Books /\ c.consumed = b.consumed /\ c.running = b.running
           /\ c.receipts[owner] = s
           /\ \A o \in Owners \ {owner} : c.receipts[o] = b.receipts[o]
<1>1. b.receipts \in [Owners -> Seq(Receipts)]
  BY DEF Books
<1>2. [b.receipts EXCEPT ![owner] = s] \in [Owners -> Seq(Receipts)]
  BY <1>1
<1>3. c = [b EXCEPT !.receipts = [b.receipts EXCEPT ![owner] = s]]
  BY DEF WithReceipts
<1>4. c.receipts = [b.receipts EXCEPT ![owner] = s]
  BY <1>3 DEF Books
<1> QED BY <1>1, <1>2, <1>3, <1>4 DEF Books

\* Receipts that come, one by one, from those there were keep what was true of them.
LEMMA FewerReceipts ==
    ASSUME NEW b \in Books, NEW c \in Books, NEW owner \in Owners, NEW last,
           Numbered(b, last), NEW k \in [DOMAIN c.receipts[owner] -> DOMAIN b.receipts[owner]],
           \A i \in DOMAIN c.receipts[owner] : c.receipts[owner][i] = b.receipts[owner][k[i]],
           \A i, j \in DOMAIN c.receipts[owner] : k[i] = k[j] => i = j,
           \A o \in Owners \ {owner} : c.receipts[o] = b.receipts[o]
    PROVE  /\ Numbered(c, last)
           /\ \A o \in Owners : \A number, verdict :
                StandsAs(b, o, number, verdict) => StandsAs(c, o, number, verdict)
<1>1. Numbered(c, last)
  <2> SUFFICES ASSUME NEW o \in Owners, NEW i \in DOMAIN c.receipts[o]
               PROVE  /\ c.receipts[o][i].number =< last
                      /\ \A j \in DOMAIN c.receipts[o] :
                            c.receipts[o][i].number = c.receipts[o][j].number => i = j
    BY DEF Numbered
  <2>1. CASE o = owner
    BY <2>1 DEF Numbered
  <2>2. CASE o # owner
    BY <2>2 DEF Numbered
  <2> QED BY <2>1, <2>2
<1>2. ASSUME NEW o \in Owners, NEW number, NEW verdict, StandsAs(b, o, number, verdict)
      PROVE  StandsAs(c, o, number, verdict)
  <2>1. CASE o = owner
    BY <1>2, <2>1 DEF StandsAs, Standing
  <2>2. CASE o # owner
    BY <1>2, <2>2 DEF StandsAs, Standing
  <2> QED BY <2>1, <2>2
<1> QED BY <1>1, <1>2

\* A verdict changes the status of the receipt it is on, and nothing else.
LEMMA JudgedIs ==
    ASSUME ledger \in Books, NEW owner \in Owners, NEW number, NEW verdict \in Verdicts,
           NEW c, c = Judged(owner, number, verdict)
    PROVE  /\ c \in Books /\ c.consumed = ledger.consumed /\ c.running = ledger.running
           /\ \A o \in Owners \ {owner} : c.receipts[o] = ledger.receipts[o]
           /\ \A o \in Owners :
                /\ DOMAIN c.receipts[o] = DOMAIN ledger.receipts[o]
                /\ \A i \in DOMAIN ledger.receipts[o] :
                      /\ c.receipts[o][i].number = ledger.receipts[o][i].number
                      /\ c.receipts[o][i].expected = ledger.receipts[o][i].expected
                      /\ c.receipts[o][i].status =
                           IF o = owner /\ ledger.receipts[o][i].number = number THEN verdict
                           ELSE ledger.receipts[o][i].status
<1> DEFINE all == ledger.receipts[owner]
           s == [i \in DOMAIN all |-> IF all[i].number = number
                                      THEN [all[i] EXCEPT !.status = verdict] ELSE all[i]]
<1>1. all \in Seq(Receipts) /\ DOMAIN all = 1..Len(all) /\ Len(all) \in Nat
  BY ReceiptsAre
<1>2. \A i \in DOMAIN all : all[i] \in Receipts
  BY ReceiptsAre
<1>3. \A r \in Receipts : /\ [r EXCEPT !.status = verdict] \in Receipts
                          /\ [r EXCEPT !.status = verdict].number = r.number
                          /\ [r EXCEPT !.status = verdict].expected = r.expected
                          /\ [r EXCEPT !.status = verdict].status = verdict
  BY DEF Receipts
<1>4. \A i \in DOMAIN all : /\ s[i] \in Receipts
                            /\ s[i].number = all[i].number /\ s[i].expected = all[i].expected
                            /\ s[i].status = IF all[i].number = number THEN verdict
                                             ELSE all[i].status
  BY <1>2, <1>3
<1>5. s \in Seq(Receipts)
  <2> DEFINE n == Len(all)
  <2>1. s \in [1..n -> Receipts] /\ n \in Nat
    BY <1>1, <1>4
  <2> HIDE DEF n, s
  <2> QED BY <2>1
<1>6. c = WithReceipts(ledger, owner, s)
  BY DEF Judged, WithReceipts
<1>7. DOMAIN s = DOMAIN all
  OBVIOUS
<1> HIDE DEF s
<1>8. /\ c \in Books /\ c.consumed = ledger.consumed /\ c.running = ledger.running
      /\ c.receipts[owner] = s
      /\ \A o \in Owners \ {owner} : c.receipts[o] = ledger.receipts[o]
  BY <1>5, <1>6, OtherReceipts
<1> QED BY <1>4, <1>7, <1>8

\* What a step of the server does to the receipts keeps what CollectInv says of them.
KeepsStanding(b, c, last) ==
    \A o \in Owners, verdict \in Verdicts : \A number :
        number =< last /\ StandsAs(b, o, number, verdict) => StandsAs(c, o, number, verdict)

\* A verdict falls on a receipt under review, and so on none that has a verdict.
LEMMA JudgingKeeps ==
    ASSUME ledger \in Books, NEW owner \in Owners, NEW number, NEW verdict \in Verdicts,
           NEW last, Numbered(ledger, last),
           NEW k \in Standing(ledger, owner, number),
           ledger.receipts[owner][k].status = "submitted",
           NEW c, c = Judged(owner, number, verdict)
    PROVE  /\ c \in Books /\ Numbered(c, last)
           /\ KeepsStanding(ledger, c, last)
           /\ StandsAs(c, owner, number, verdict)
<1>1. /\ c \in Books
      /\ \A o \in Owners \ {owner} : c.receipts[o] = ledger.receipts[o]
      /\ \A o \in Owners :
           /\ DOMAIN c.receipts[o] = DOMAIN ledger.receipts[o]
           /\ \A i \in DOMAIN ledger.receipts[o] :
                 /\ c.receipts[o][i].number = ledger.receipts[o][i].number
                 /\ c.receipts[o][i].status =
                      IF o = owner /\ ledger.receipts[o][i].number = number THEN verdict
                      ELSE ledger.receipts[o][i].status
  BY JudgedIs
<1>2. Numbered(c, last)
  BY <1>1 DEF Numbered
<1>3. ASSUME NEW o \in Owners, NEW n, NEW v \in Verdicts, StandsAs(ledger, o, n, v)
      PROVE  StandsAs(c, o, n, v)
  <2>1. CASE o = owner /\ n = number
    <3>1. ledger.receipts[owner][k].status = v
      BY <1>3, <2>1 DEF StandsAs
    <3> QED BY <3>1 DEF Verdicts
  <2>2. CASE ~(o = owner /\ n = number)
    <3> SUFFICES ASSUME NEW i \in Standing(c, o, n) PROVE c.receipts[o][i].status = v
      BY DEF StandsAs
    <3>1. i \in DOMAIN ledger.receipts[o] /\ ledger.receipts[o][i].number = n
      BY <1>1 DEF Standing
    <3>2. ledger.receipts[o][i].status = v
      BY <1>3, <3>1 DEF StandsAs, Standing
    <3> QED BY <1>1, <2>2, <3>1, <3>2
  <2> QED BY <2>1, <2>2
<1>4. StandsAs(c, owner, number, verdict)
  BY <1>1 DEF StandsAs, Standing
<1> QED BY <1>1, <1>2, <1>3, <1>4 DEF KeepsStanding

\* An owner takes a receipt away.
LEMMA RemovingKeeps ==
    ASSUME ledger \in Books, NEW last, Numbered(ledger, last), NEW owner \in Owners,
           RemoveReceipt(owner)
    PROVE  /\ ledger' \in Books /\ Numbered(ledger', last)
           /\ KeepsStanding(ledger, ledger', last)
<1> DEFINE all == ledger.receipts[owner]
           n == Len(all)
<1>1. PICK i \in DOMAIN all :
        ledger' = [ledger EXCEPT !.receipts[owner] =
                     SubSeq(@, 1, i - 1) \o SubSeq(@, i + 1, Len(@))]
  BY DEF RemoveReceipt
<1> DEFINE before == SubSeq(all, 1, i - 1)
           after == SubSeq(all, i + 1, n)
           s == before \o after
           k == [j \in 1..(n - 1) |-> IF j < i THEN j ELSE j + 1]
<1>2. ledger' = WithReceipts(ledger, owner, s)
  BY <1>1 DEF WithReceipts
<1>3. /\ DOMAIN all = 1..n /\ n \in Nat /\ i \in 1..n
      /\ \A j \in 1..n : all[j] \in Receipts
  BY ReceiptsAre
<1> HIDE DEF all, n
<1>4. /\ before \in Seq(Receipts) /\ Len(before) = i - 1
      /\ \A j \in 1..(i - 1) : before[j] = all[j]
  <2>1. \A j \in 1..(i - 1) : all[j] \in Receipts
    BY <1>3
  <2>2. i - 1 \in Int /\ 1 \in Int
    BY <1>3
  <2>3. /\ SubSeq(all, 1, i - 1) \in Seq(Receipts)
        /\ Len(SubSeq(all, 1, i - 1)) = IF 1 <= i - 1 THEN i - 1 - 1 + 1 ELSE 0
        /\ \A j \in 1..(i - 1 - 1 + 1) : SubSeq(all, 1, i - 1)[j] = all[1 + j - 1]
    BY <2>1, <2>2, SubSeqProperties
  <2> HIDE DEF before
  <2>4. /\ before \in Seq(Receipts)
        /\ Len(before) = IF 1 <= i - 1 THEN i - 1 - 1 + 1 ELSE 0
        /\ \A j \in 1..(i - 1 - 1 + 1) : before[j] = all[1 + j - 1]
    BY <2>3 DEF before
  <2>5. i - 1 - 1 + 1 = i - 1 /\ \A j \in 1..(i - 1) : 1 + j - 1 = j
    BY <1>3
  <2> QED BY <1>3, <2>4, <2>5
<1>5. /\ after \in Seq(Receipts) /\ Len(after) = n - i
      /\ \A j \in 1..(n - i) : after[j] = all[i + j]
  <2>1. \A j \in (i + 1)..n : all[j] \in Receipts
    BY <1>3
  <2>2. i + 1 \in Int /\ n \in Int
    BY <1>3
  <2>3. /\ SubSeq(all, i + 1, n) \in Seq(Receipts)
        /\ Len(SubSeq(all, i + 1, n)) = IF i + 1 <= n THEN n - (i + 1) + 1 ELSE 0
        /\ \A j \in 1..(n - (i + 1) + 1) : SubSeq(all, i + 1, n)[j] = all[i + 1 + j - 1]
    BY <2>1, <2>2, SubSeqProperties
  <2> HIDE DEF after
  <2>4. /\ after \in Seq(Receipts)
        /\ Len(after) = IF i + 1 <= n THEN n - (i + 1) + 1 ELSE 0
        /\ \A j \in 1..(n - (i + 1) + 1) : after[j] = all[i + 1 + j - 1]
    BY <2>3 DEF after
  <2>5. n - (i + 1) + 1 = n - i /\ \A j \in 1..(n - i) : i + 1 + j - 1 = i + j
    BY <1>3
  <2> QED BY <1>3, <2>4, <2>5
<1> HIDE DEF before, after
<1>6. /\ s \in Seq(Receipts) /\ DOMAIN s = 1..(n - 1)
      /\ \A j \in 1..(n - 1) : s[j] = all[k[j]] /\ k[j] \in 1..n
  <2>1. /\ s \in Seq(Receipts) /\ Len(s) = Len(before) + Len(after)
        /\ \A j \in 1..(Len(before) + Len(after)) :
              s[j] = IF j <= Len(before) THEN before[j] ELSE after[j - Len(before)]
    BY <1>4, <1>5, ConcatProperties
  <2> HIDE DEF s
  <2>2. Len(before) + Len(after) = n - 1
    BY <1>3, <1>4, <1>5
  <2>3. DOMAIN s = 1..(n - 1)
    BY <2>1, <2>2, LenProperties
  <2>4. ASSUME NEW j \in 1..(n - 1) PROVE s[j] = all[k[j]] /\ k[j] \in 1..n
    <3>1. CASE j < i
      <4>1. j <= i - 1 /\ j \in 1..(i - 1) /\ k[j] = j
        BY <1>3, <3>1
      <4>2. s[j] = before[j]
        BY <1>4, <2>1, <2>2, <4>1
      <4> QED BY <1>3, <1>4, <4>1, <4>2
    <3>2. CASE ~(j < i)
      <4>1. ~(j <= i - 1) /\ j - (i - 1) \in 1..(n - i) /\ k[j] = j + 1 /\ i + (j - (i - 1)) = j + 1
        BY <1>3, <3>2
      <4>2. s[j] = after[j - (i - 1)]
        BY <1>4, <2>1, <2>2, <4>1
      <4>3. after[j - (i - 1)] = all[i + (j - (i - 1))]
        BY <1>5, <4>1
      <4> QED BY <1>3, <4>1, <4>2, <4>3
    <3> QED BY <3>1, <3>2
  <2> QED BY <2>1, <2>3, <2>4
<1>7. \A j, l \in 1..(n - 1) : k[j] = k[l] => j = l
  BY <1>3
<1> HIDE DEF s, k
<1>8. /\ ledger' \in Books /\ ledger'.receipts[owner] = s
      /\ \A o \in Owners \ {owner} : ledger'.receipts[o] = ledger.receipts[o]
  BY <1>2, <1>6, OtherReceipts
<1>9. k \in [DOMAIN s -> DOMAIN all]
  BY <1>3, <1>6 DEF k
<1>10. /\ Numbered(ledger', last)
       /\ \A o \in Owners : \A number, verdict :
             StandsAs(ledger, o, number, verdict) => StandsAs(ledger', o, number, verdict)
  <2> DEFINE c == ledger'
  <2>1. /\ c \in Books /\ k \in [DOMAIN c.receipts[owner] -> DOMAIN ledger.receipts[owner]]
        /\ \A j \in DOMAIN c.receipts[owner] : c.receipts[owner][j] = ledger.receipts[owner][k[j]]
        /\ \A j, l \in DOMAIN c.receipts[owner] : k[j] = k[l] => j = l
        /\ \A o \in Owners \ {owner} : c.receipts[o] = ledger.receipts[o]
    BY <1>6, <1>7, <1>8, <1>9 DEF all
  <2> HIDE DEF c
  <2>2. /\ Numbered(c, last)
        /\ \A o \in Owners : \A number, verdict :
             StandsAs(ledger, o, number, verdict) => StandsAs(c, o, number, verdict)
    BY <2>1, FewerReceipts
  <2> QED BY <2>2 DEF c
<1> QED BY <1>8, <1>10 DEF KeepsStanding

\* And sends another, with a number of its own.
LEMMA SendingKeeps ==
    ASSUME ledger \in Books, receiptsSent \in 0..MaxReceiptsSent,
           Numbered(ledger, receiptsSent), NEW owner \in Owners, SendReceipt(owner)
    PROVE  /\ ledger' \in Books /\ Numbered(ledger', receiptsSent')
           /\ receiptsSent' = receiptsSent + 1 /\ receiptsSent' \in 0..MaxReceiptsSent
           /\ KeepsStanding(ledger, ledger', receiptsSent)
<1> DEFINE all == ledger.receipts[owner]
           n == Len(all)
           new == [number |-> receiptsSent + 1, status |-> "submitted",
                   expected |-> OutstandingOf(ledger, owner)]
           s == Append(all, new)
<1>1. /\ receiptsSent' = receiptsSent + 1 /\ receiptsSent + 1 \in 1..MaxReceiptsSent
      /\ receiptsSent' \in 0..MaxReceiptsSent /\ receiptsSent \in Int
  BY CollectionsAssumption DEF SendReceipt
<1>2. ledger' = WithReceipts(ledger, owner, s)
  BY <1>1 DEF SendReceipt, WithReceipts
<1>3. OutstandingOf(ledger, owner) \in Nat
  BY DebtIs
<1>4. new \in Receipts /\ new.number = receiptsSent + 1
  BY <1>1, <1>3 DEF Receipts
<1>5. /\ all \in Seq(Receipts) /\ DOMAIN all = 1..n /\ n \in Nat
      /\ \A i \in 1..n : all[i].number =< receiptsSent /\ all[i].number \in Int
  BY ReceiptsAre DEF Numbered
<1> HIDE DEF new, n
<1>6. /\ s \in Seq(Receipts) /\ DOMAIN s = 1..(n + 1)
      /\ \A i \in 1..n : s[i] = all[i]
      /\ s[n + 1] = new
  <2> HIDE DEF all
  <2>1. /\ s \in Seq(Receipts) /\ Len(s) = Len(all) + 1
        /\ \A i \in 1..Len(all) : s[i] = all[i]
        /\ s[Len(all) + 1] = new
    BY <1>4, <1>5, AppendProperties
  <2>2. Len(all) = n
    BY DEF n
  <2> HIDE DEF s
  <2>3. DOMAIN s = 1..Len(s)
    BY <2>1, LenProperties
  <2> QED BY <2>1, <2>2, <2>3
<1> HIDE DEF s
<1>7. /\ ledger' \in Books /\ ledger'.receipts[owner] = s
      /\ \A o \in Owners \ {owner} : ledger'.receipts[o] = ledger.receipts[o]
  BY <1>2, <1>6, OtherReceipts
<1>8. \A i \in DOMAIN s : /\ s[i].number =< receiptsSent + 1
                          /\ i \in 1..n => s[i].number =< receiptsSent /\ s[i] = all[i]
                          /\ i \notin 1..n => i = n + 1 /\ s[i].number = receiptsSent + 1
  <2> SUFFICES ASSUME NEW i \in DOMAIN s
               PROVE  /\ s[i].number =< receiptsSent + 1
                      /\ i \in 1..n => s[i].number =< receiptsSent /\ s[i] = all[i]
                      /\ i \notin 1..n => i = n + 1 /\ s[i].number = receiptsSent + 1
    OBVIOUS
  <2>1. CASE i \in 1..n
    <3> HIDE DEF all
    <3>1. s[i] = all[i] /\ all[i].number =< receiptsSent /\ all[i].number \in Int
      BY <1>5, <1>6, <2>1
    <3> QED BY <1>1, <2>1, <3>1
  <2>2. CASE i \notin 1..n
    <3>1. i = n + 1
      BY <1>5, <1>6, <2>2
    <3> QED BY <1>1, <1>4, <1>6, <2>2, <3>1
  <2> QED BY <2>1, <2>2
<1>9. Numbered(ledger', receiptsSent')
  <2> SUFFICES ASSUME NEW o \in Owners, NEW i \in DOMAIN ledger'.receipts[o]
               PROVE  /\ ledger'.receipts[o][i].number =< receiptsSent'
                      /\ \A j \in DOMAIN ledger'.receipts[o] :
                            ledger'.receipts[o][i].number = ledger'.receipts[o][j].number => i = j
    BY DEF Numbered
  <2>1. CASE o = owner
    <3>1. i \in DOMAIN s /\ s[i].number =< receiptsSent'
      BY <1>1, <1>7, <1>8, <2>1
    <3>2. ASSUME NEW j \in DOMAIN s, s[i].number = s[j].number PROVE i = j
      <4>1. CASE i \in 1..n /\ j \in 1..n
        <5>1. all[i].number = all[j].number
          BY <1>6, <3>2, <4>1
        <5> QED BY <1>5, <4>1, <5>1 DEF Numbered
      <4>2. CASE i \notin 1..n /\ j \notin 1..n
        BY <1>8, <3>1, <4>2
      <4>3. CASE i \in 1..n /\ j \notin 1..n
        <5>1. s[i].number =< receiptsSent /\ s[j].number = receiptsSent + 1
          BY <1>8, <3>1, <4>3
        <5> QED BY <1>1, <3>2, <5>1
      <4>4. CASE i \notin 1..n /\ j \in 1..n
        <5>1. s[j].number =< receiptsSent /\ s[i].number = receiptsSent + 1
          BY <1>8, <3>1, <4>4
        <5> QED BY <1>1, <3>2, <5>1
      <4> QED BY <4>1, <4>2, <4>3, <4>4
    <3> QED BY <1>7, <2>1, <3>1, <3>2
  <2>2. CASE o # owner
    <3>1. ledger'.receipts[o] = ledger.receipts[o]
      BY <1>7, <2>2
    <3>2. ledger.receipts[o][i].number =< receiptsSent /\ ledger.receipts[o][i].number \in Int
      BY <3>1, ReceiptsAre DEF Numbered
    <3> QED BY <1>1, <3>1, <3>2 DEF Numbered
  <2> QED BY <2>1, <2>2
<1>10. KeepsStanding(ledger, ledger', receiptsSent)
  <2> SUFFICES ASSUME NEW o \in Owners, NEW verdict \in Verdicts, NEW number,
                      number =< receiptsSent, StandsAs(ledger, o, number, verdict),
                      NEW i \in Standing(ledger', o, number)
               PROVE  ledger'.receipts[o][i].status = verdict
    BY DEF KeepsStanding, StandsAs
  <2>1. CASE o = owner
    <3>1. i \in DOMAIN s /\ s[i].number = number
      BY <1>7, <2>1 DEF Standing
    <3>2. s[i].number # receiptsSent + 1
      BY <1>1, <3>1
    <3>3. i \in 1..n /\ s[i] = all[i]
      BY <1>8, <3>1, <3>2
    <3>4. i \in Standing(ledger, o, number)
      BY <1>5, <2>1, <3>1, <3>3 DEF Standing
    <3>5. all[i].status = verdict
      BY <2>1, <3>4 DEF StandsAs
    <3> QED BY <1>7, <2>1, <3>3, <3>5
  <2>2. CASE o # owner
    BY <1>7, <2>2 DEF StandsAs, Standing
  <2> QED BY <2>1, <2>2
<1> QED BY <1>1, <1>7, <1>9, <1>10

\* A step of the server, with the page as it was, keeps the invariant.
LEMMA ServerMoves ==
    ASSUME CollectInv, ledger' \in Books, Numbered(ledger', receiptsSent'),
           receiptsSent' \in 0..MaxReceiptsSent, receiptsSent =< receiptsSent',
           KeepsStanding(ledger, ledger', receiptsSent), strays' \subseteq strays,
           UNCHANGED <<shownLedger, sheet, review>>
    PROVE  CollectInv'
<1>1. receiptsSent \in Int /\ receiptsSent' \in Int
  BY CollectionsAssumption DEF CollectInv, CollectTypes
<1>2. CollectTypes' /\ SheetStands'
  BY DEF CollectInv, CollectTypes, SheetStands
<1>3. Numbered(shownLedger', receiptsSent')
  <2> SUFFICES ASSUME NEW owner \in Owners, NEW i \in DOMAIN shownLedger.receipts[owner]
               PROVE  shownLedger.receipts[owner][i].number =< receiptsSent'
    BY DEF CollectInv, Numbered
  <2>1. shownLedger.receipts[owner][i].number =< receiptsSent
    BY DEF CollectInv, Numbered
  <2>2. shownLedger.receipts[owner][i].number \in Int
    BY ReceiptsAre DEF CollectInv, CollectTypes
  <2> QED BY <1>1, <2>1, <2>2
<1>4. ReviewStands'
  <2> SUFFICES ASSUME review # NoOne
               PROVE  /\ review.number =< receiptsSent'
                      /\ review.answer = "done" =>
                           StandsAs(ledger', review.owner, review.number, review.verdict)
    BY DEF ReviewStands
  <2>1. review.owner \in Owners /\ review.verdict \in Verdicts /\ review.number \in Int
    BY DEF CollectInv, CollectTypes, ReviewsInFlight
  <2>2. review.number =< receiptsSent
    BY DEF CollectInv, ReviewStands
  <2>3. review.number =< receiptsSent'
    BY <1>1, <2>1, <2>2
  <2>4. review.answer = "done" => StandsAs(ledger, review.owner, review.number, review.verdict)
    BY DEF CollectInv, ReviewStands
  <2> QED BY <2>1, <2>2, <2>3, <2>4 DEF KeepsStanding
<1> QED BY <1>2, <1>3, <1>4 DEF CollectInv

\* The orders change, or the month is over: not the receipts.
LEMMA OrdersMove ==
    ASSUME CollectInv, (\E m \in Meals : Consume(m) \/ TakeBack(m)) \/ MonthIsOver
    PROVE  CollectInv'
<1>1. ledger \in Books
  BY DEF CollectInv, CollectTypes
<1>2. /\ ledger' \in Books /\ ledger'.receipts = ledger.receipts
      /\ UNCHANGED <<receiptsSent, strays, shownLedger, sheet, review>>
  <2>1. ASSUME NEW m \in Meals, Consume(m)
        PROVE  /\ ledger' \in Books /\ ledger'.receipts = ledger.receipts
               /\ UNCHANGED <<receiptsSent, strays, shownLedger, sheet, review>>
    BY <1>1, <2>1 DEF Consume, Books, pageBooks
  <2>2. ASSUME NEW m \in Meals, TakeBack(m)
        PROVE  /\ ledger' \in Books /\ ledger'.receipts = ledger.receipts
               /\ UNCHANGED <<receiptsSent, strays, shownLedger, sheet, review>>
    BY <1>1, <2>2 DEF TakeBack, Books, pageBooks
  <2>3. CASE MonthIsOver
    BY <1>1, <2>3 DEF MonthIsOver, Books, pageBooks
  <2> QED BY <2>1, <2>2, <2>3
<1>3. Numbered(ledger', receiptsSent') /\ KeepsStanding(ledger, ledger', receiptsSent)
  BY <1>2 DEF CollectInv, Numbered, KeepsStanding, StandsAs, Standing
<1>4. receiptsSent' \in 0..MaxReceiptsSent /\ receiptsSent =< receiptsSent'
  BY <1>2, CollectionsAssumption DEF CollectInv, CollectTypes
<1> QED BY <1>2, <1>3, <1>4, ServerMoves

LEMMA OwnersMove ==
    ASSUME CollectInv, NEW owner \in Owners, SendReceipt(owner) \/ RemoveReceipt(owner)
    PROVE  CollectInv'
<1>1. /\ ledger \in Books /\ receiptsSent \in 0..MaxReceiptsSent /\ receiptsSent \in Int
      /\ Numbered(ledger, receiptsSent)
  BY CollectionsAssumption DEF CollectInv, CollectTypes
<1>2. CASE SendReceipt(owner)
  <2>1. /\ ledger' \in Books /\ Numbered(ledger', receiptsSent')
        /\ receiptsSent' = receiptsSent + 1 /\ receiptsSent' \in 0..MaxReceiptsSent
        /\ KeepsStanding(ledger, ledger', receiptsSent)
    BY <1>1, <1>2, SendingKeeps
  <2>2. receiptsSent =< receiptsSent'
    BY <1>1, <2>1
  <2>3. UNCHANGED <<strays, shownLedger, sheet, review>>
    BY <1>2 DEF SendReceipt, pageBooks
  <2> QED BY <2>1, <2>2, <2>3, ServerMoves
<1>3. CASE RemoveReceipt(owner)
  <2>1. /\ ledger' \in Books /\ Numbered(ledger', receiptsSent)
        /\ KeepsStanding(ledger, ledger', receiptsSent)
    BY <1>1, <1>3, RemovingKeeps
  <2>2. UNCHANGED <<receiptsSent, strays, shownLedger, sheet, review>>
    BY <1>3 DEF RemoveReceipt, pageBooks
  <2>3. receiptsSent =< receiptsSent'
    BY <1>1, <2>2
  <2> QED BY <1>1, <2>1, <2>2, <2>3, ServerMoves
<1> QED BY <1>2, <1>3

\* Another window of the provider, or a verdict the page gave up on.
LEMMA OthersJudge ==
    ASSUME CollectInv,
           \/ \E owner \in Owners, v \in Verdicts : ReviewElsewhere(owner, v)
           \/ ServeStray
    PROVE  CollectInv'
<1>1. /\ ledger \in Books /\ receiptsSent \in 0..MaxReceiptsSent /\ receiptsSent \in Int
      /\ Numbered(ledger, receiptsSent)
  BY CollectionsAssumption DEF CollectInv, CollectTypes
<1>2. ASSUME NEW owner \in Owners, NEW v \in Verdicts, ReviewElsewhere(owner, v)
      PROVE CollectInv'
  <2>1. PICK i \in ReceiptsWith(ledger, owner, "submitted") :
          ledger' = Judged(owner, ledger.receipts[owner][i].number, v)
    BY <1>2 DEF ReviewElsewhere
  <2>2. /\ i \in Standing(ledger, owner, ledger.receipts[owner][i].number)
        /\ ledger.receipts[owner][i].status = "submitted"
    BY DEF ReceiptsWith, Standing
  <2>3. /\ ledger' \in Books /\ Numbered(ledger', receiptsSent)
        /\ KeepsStanding(ledger, ledger', receiptsSent)
    BY <1>1, <2>1, <2>2, JudgingKeeps
  <2>4. UNCHANGED <<receiptsSent, strays, shownLedger, sheet, review>>
    BY <1>2 DEF ReviewElsewhere
  <2>5. receiptsSent =< receiptsSent'
    BY <1>1, <2>4
  <2> QED BY <1>1, <2>3, <2>4, <2>5, ServerMoves
<1>3. CASE ServeStray
  <2>1. PICK s \in strays :
          /\ strays' = strays \ {s}
          /\ ledger' = IF Takes(s.owner, s.number, s.verdict)
                       THEN Judged(s.owner, s.number, s.verdict) ELSE ledger
    BY <1>3 DEF ServeStray
  <2>2. s.owner \in Owners /\ s.verdict \in Verdicts
    BY DEF CollectInv, CollectTypes
  <2>3. UNCHANGED <<receiptsSent, shownLedger, sheet, review>> /\ receiptsSent =< receiptsSent'
    BY <1>1, <1>3 DEF ServeStray, pageBooks
  <2>4. CASE Takes(s.owner, s.number, s.verdict)
    <3>1. PICK k \in Standing(ledger, s.owner, s.number) :
            ledger.receipts[s.owner][k].status = "submitted"
      BY <2>4 DEF Takes
    <3>2. /\ ledger' \in Books /\ Numbered(ledger', receiptsSent)
          /\ KeepsStanding(ledger, ledger', receiptsSent)
      BY <1>1, <2>1, <2>2, <2>4, <3>1, JudgingKeeps
    <3> QED BY <1>1, <2>1, <2>3, <3>2, ServerMoves
  <2>5. CASE ~Takes(s.owner, s.number, s.verdict)
    <3>1. ledger' = ledger /\ strays' \subseteq strays
      BY <2>1, <2>5
    <3>2. KeepsStanding(ledger, ledger', receiptsSent)
      BY <3>1 DEF KeepsStanding
    <3> QED BY <1>1, <2>3, <3>1, <3>2, ServerMoves
  <2> QED BY <2>4, <2>5
<1> QED BY <1>2, <1>3

\* The verdict in flight gets to the server.
LEMMA ReviewServed == CollectInv /\ ServeReview => CollectInv'
<1> SUFFICES ASSUME CollectInv, ServeReview PROVE CollectInv'
  OBVIOUS
<1>1. /\ ledger \in Books /\ Numbered(ledger, receiptsSent)
      /\ review # NoOne /\ review \in ReviewsInFlight /\ review.number =< receiptsSent
      /\ review.owner \in Owners /\ review.verdict \in Verdicts
  BY DEF CollectInv, CollectTypes, ReviewStands, ServeReview, ReviewsInFlight
<1>2. UNCHANGED <<receiptsSent, shownLedger, sheet, strays>>
  BY DEF ServeReview
<1>3. CASE Takes(review.owner, review.number, review.verdict)
  <2>1. /\ ledger' = Judged(review.owner, review.number, review.verdict)
        /\ review' = [review EXCEPT !.answer = "done"]
    BY <1>3 DEF ServeReview
  <2>2. PICK k \in Standing(ledger, review.owner, review.number) :
          ledger.receipts[review.owner][k].status = "submitted"
    BY <1>3 DEF Takes
  <2>3. /\ ledger' \in Books /\ Numbered(ledger', receiptsSent)
        /\ StandsAs(ledger', review.owner, review.number, review.verdict)
    BY <1>1, <2>1, <2>2, JudgingKeeps
  <2>4. /\ review' \in ReviewsInFlight /\ review'.owner = review.owner
        /\ review'.number = review.number /\ review'.verdict = review.verdict
    BY <1>1, <2>1 DEF ReviewsInFlight
  <2>5. ReviewStands'
    BY <1>1, <1>2, <2>3, <2>4 DEF ReviewStands
  <2> QED BY <1>2, <2>3, <2>4, <2>5 DEF CollectInv, CollectTypes, SheetStands
<1>4. CASE ~Takes(review.owner, review.number, review.verdict)
  <2>1. ledger' = ledger /\ review' = [review EXCEPT !.answer = "alert"]
    BY <1>4 DEF ServeReview
  <2>2. /\ review' \in ReviewsInFlight /\ review'.number = review.number
        /\ review'.answer = "alert"
    BY <1>1, <2>1 DEF ReviewsInFlight
  <2>3. ReviewStands'
    BY <1>1, <1>2, <2>2 DEF ReviewStands
  <2> QED BY <1>2, <2>1, <2>2, <2>3 DEF CollectInv, CollectTypes, SheetStands
<1> QED BY <1>3, <1>4

\* A step of the page, with the server as it was, keeps the invariant if the sheet
\* and the verdict are on receipts there are.
LEMMA PageMoves ==
    ASSUME CollectInv, UNCHANGED serverBooks, shownLedger' \in {shownLedger, ledger},
           strays' \subseteq [owner : Owners, number : 1..MaxReceiptsSent, verdict : Verdicts],
           review' # NoOne =>
              /\ review' \in ReviewsInFlight /\ review'.number =< receiptsSent
              /\ review'.answer = "done" =>
                   StandsAs(ledger, review'.owner, review'.number, review'.verdict),
           SheetStands'
    PROVE  CollectInv'
<1>1. ledger' = ledger /\ receiptsSent' = receiptsSent
  BY DEF serverBooks
<1>2. CollectTypes' /\ ReviewStands'
  BY <1>1 DEF CollectInv, CollectTypes, ReviewStands
<1>3. Numbered(ledger', receiptsSent') /\ Numbered(shownLedger', receiptsSent')
  BY <1>1 DEF CollectInv
<1> QED BY <1>2, <1>3 DEF CollectInv

\* What CollectInv says of the verdict in flight and of those given up.
LEMMA InFlight ==
    ASSUME CollectInv
    PROVE  /\ strays \subseteq [owner : Owners, number : 1..MaxReceiptsSent, verdict : Verdicts]
           /\ review # NoOne =>
                /\ review \in ReviewsInFlight /\ review.number =< receiptsSent
                /\ review.answer = "done" =>
                     StandsAs(ledger, review.owner, review.number, review.verdict)
                /\ [owner |-> review.owner, number |-> review.number, verdict |-> review.verdict]
                     \in [owner : Owners, number : 1..MaxReceiptsSent, verdict : Verdicts]
BY DEF CollectInv, CollectTypes, ReviewStands, ReviewsInFlight

\* Under another tab or client the card of the verdict in flight may be gone.
LEMMA CardsGo ==
    ASSUME CollectInv,
           \/ \E t \in {"pending", "history"} : SelectTab(t)
           \/ \E c \in Clients \cup {AllClients} : SelectClient(c)
    PROVE  CollectInv'
<1>1. UNCHANGED <<serverBooks, shownLedger, sheet, strays>>
  BY DEF SelectTab, SelectClient
<1>2. PICK mounted \in BOOLEAN :
        review' = IF review = NoOne THEN NoOne ELSE [review EXCEPT !.mounted = mounted]
  <2>1. ASSUME NEW t \in {"pending", "history"}, SelectTab(t)
        PROVE  \E mounted \in BOOLEAN :
                  review' = IF review = NoOne THEN NoOne ELSE [review EXCEPT !.mounted = mounted]
    BY <2>1 DEF SelectTab
  <2>2. ASSUME NEW c \in Clients \cup {AllClients}, SelectClient(c)
        PROVE  \E mounted \in BOOLEAN :
                  review' = IF review = NoOne THEN NoOne ELSE [review EXCEPT !.mounted = mounted]
    <3> DEFINE mounted == review.mounted /\ c \in {AllClients, ClientOf(review.owner)}
    <3>1. mounted \in BOOLEAN
      OBVIOUS
    <3>2. review' = IF review = NoOne THEN NoOne ELSE [review EXCEPT !.mounted = mounted]
      BY <2>2 DEF SelectClient
    <3> QED BY <3>1, <3>2
  <2> QED BY <2>1, <2>2
<1>3. SheetStands'
  BY <1>1 DEF CollectInv, SheetStands
<1>4. review' # NoOne =>
        /\ review' \in ReviewsInFlight /\ review'.number =< receiptsSent
        /\ review'.answer = "done" =>
             StandsAs(ledger, review'.owner, review'.number, review'.verdict)
  <2> SUFFICES ASSUME review # NoOne
               PROVE  /\ review' \in ReviewsInFlight /\ review'.number =< receiptsSent
                      /\ review'.answer = "done" =>
                           StandsAs(ledger, review'.owner, review'.number, review'.verdict)
    BY <1>2
  <2>1. /\ review' \in ReviewsInFlight /\ review'.number = review.number
        /\ review'.owner = review.owner /\ review'.verdict = review.verdict
        /\ review'.answer = review.answer
    BY <1>2, InFlight DEF ReviewsInFlight
  <2> QED BY <2>1, InFlight
<1> QED BY <1>1, <1>3, <1>4, InFlight, PageMoves

\* An account under review has a receipt under review.
LEMMA HasOneUnderReview ==
    ASSUME NEW b \in Books, NEW owner \in Owners, CollectionStatusOf(b, owner) = "submitted"
    PROVE  ReceiptsWith(b, owner, "submitted") # {}
<1> DEFINE all == b.receipts[owner]
           n == Len(all)
<1> SUFFICES ASSUME ReceiptsWith(b, owner, "submitted") = {} PROVE FALSE
  OBVIOUS
<1>1. all # <<>> /\ all[n].status = "submitted"
  BY DEF CollectionStatusOf
<1>2. all \in Seq(Receipts) /\ DOMAIN all = 1..n
  BY ReceiptsAre
<1>3. n \in Nat \ {0}
  BY <1>1, <1>2, EmptySeq
<1>4. n \in DOMAIN all
  <2> HIDE DEF n
  <2>1. n \in 1..n
    BY <1>3
  <2> QED BY <1>2, <2>1
<1> QED BY <1>1, <1>4 DEF ReceiptsWith

LEMMA SheetsMove ==
    ASSUME CollectInv,
           \/ \E owner \in Owners : OpenReceipt(owner)
           \/ OpenReport \/ CloseSheet \/ CloseResult
    PROVE  CollectInv'
<1>1. UNCHANGED <<serverBooks, shownLedger, review, strays>>
  BY DEF OpenReceipt, OpenReport, CloseSheet, CloseResult
<1>2. SheetStands'
  <2>1. ASSUME NEW owner \in Owners, OpenReceipt(owner) PROVE SheetStands'
    <3>1. sheet' \in Sheets /\ sheet'.owner = owner /\ shownLedger' = shownLedger
      BY <2>1 DEF OpenReceipt, Sheets
    <3>2. ReceiptsWith(shownLedger, owner, "submitted") # {}
      <4>1. shownLedger \in Books /\ CollectionStatusOf(shownLedger, owner) = "submitted"
        BY <2>1 DEF OpenReceipt, Reviewable, CollectInv, CollectTypes
      <4> QED BY <4>1, HasOneUnderReview
    <3> QED BY <3>1, <3>2 DEF SheetStands
  <2>2. CASE OpenReport
    <3>1. sheet # NoOne /\ sheet' = [sheet EXCEPT !.kind = "report"]
      BY <2>2 DEF OpenReport
    <3>2. sheet \in Sheets
      BY <3>1 DEF CollectInv, SheetStands
    <3>3. sheet' \in Sheets /\ sheet'.owner = sheet.owner
      BY <3>1, <3>2 DEF Sheets
    <3> QED BY <1>1, <3>1, <3>3 DEF CollectInv, SheetStands
  <2>3. CASE CloseSheet
    <3>1. /\ sheet # NoOne
          /\ sheet' = IF sheet.kind = "report" THEN [sheet EXCEPT !.kind = "receipt"] ELSE NoOne
      BY <2>3 DEF CloseSheet
    <3>2. sheet \in Sheets
      BY <3>1 DEF CollectInv, SheetStands
    <3>3. sheet' = NoOne \/ (sheet' \in Sheets /\ sheet'.owner = sheet.owner)
      BY <3>1, <3>2 DEF Sheets
    <3> QED BY <1>1, <3>1, <3>3 DEF CollectInv, SheetStands
  <2>4. CASE CloseResult
    BY <2>4 DEF CloseResult, CollectInv, SheetStands
  <2> QED BY <2>1, <2>2, <2>3, <2>4
<1> QED BY <1>1, <1>2, InFlight, PageMoves

\* A verdict is sent on the receipt the sheet shows.
LEMMA VerdictIsSent ==
    ASSUME CollectInv, ConfirmPayment \/ \E v \in Verdicts : ReportIssue(v)
    PROVE  CollectInv'
<1>1. PICK v \in Verdicts : SendVerdict(v)
  BY DEF ConfirmPayment, ReportIssue, Verdicts
<1>2. sheet # NoOne
  BY DEF ConfirmPayment, ReportIssue
<1>3. UNCHANGED <<serverBooks, shownLedger, sheet>>
  BY <1>1 DEF SendVerdict
<1> DEFINE shownNumber == NumberUnderReview(shownLedger, sheet.owner)
<1>4. sheet.owner \in Owners /\ shownNumber \in 1..MaxReceiptsSent /\ shownNumber =< receiptsSent
  <2> DEFINE owner == sheet.owner
             S == ReceiptsWith(shownLedger, owner, "submitted")
             i == CHOOSE k \in S : TRUE
  <2>1. owner \in Owners /\ S # {}
    BY <1>2 DEF CollectInv, SheetStands, Sheets
  <2>2. i \in S
    BY <2>1
  <2>3. i \in DOMAIN shownLedger.receipts[owner]
    BY <2>2 DEF ReceiptsWith
  <2>4. shownNumber = shownLedger.receipts[owner][i].number
    BY DEF NumberUnderReview
  <2>5. shownLedger \in Books /\ Numbered(shownLedger, receiptsSent)
    BY DEF CollectInv, CollectTypes
  <2> HIDE DEF owner, i, S, shownNumber
  <2>6. shownNumber \in 1..MaxReceiptsSent /\ shownNumber =< receiptsSent
    BY <2>1, <2>3, <2>4, <2>5, ReceiptsAre DEF Numbered
  <2> QED BY <2>1, <2>6 DEF owner
<1>5. review' = [owner |-> sheet.owner, number |-> shownNumber, verdict |-> v,
                 answer |-> "waiting", mounted |-> TRUE]
  BY <1>1 DEF SendVerdict
<1> HIDE DEF shownNumber
<1>6. review' \in ReviewsInFlight /\ review'.number =< receiptsSent /\ review'.answer # "done"
  BY <1>4, <1>5 DEF ReviewsInFlight
<1>7. strays' \subseteq [owner : Owners, number : 1..MaxReceiptsSent, verdict : Verdicts]
  <2>1. strays' = IF review # NoOne /\ review.answer = "waiting"
                  THEN strays \cup {[owner |-> review.owner, number |-> review.number,
                                     verdict |-> review.verdict]}
                  ELSE strays
    BY <1>1 DEF SendVerdict
  <2> QED BY <2>1, InFlight
<1>8. SheetStands'
  BY <1>3 DEF CollectInv, SheetStands
<1> QED BY <1>3, <1>6, <1>7, <1>8, PageMoves

\* Its answer comes, or it is lost, or the page is gone to again.
LEMMA ReviewEnds == CollectInv /\ (ReviewArrives \/ LoseReview \/ VisitPage) => CollectInv'
<1>1. ASSUME CollectInv, ReviewArrives PROVE CollectInv'
  <2>1. /\ UNCHANGED <<serverBooks, strays>> /\ review' = NoOne
        /\ shownLedger' = ledger /\ sheet' = SheetAfter
    BY <1>1 DEF ReviewArrives, ArrivalOf
  <2>2. sheet' # NoOne =>
          sheet' = sheet /\ sheet # NoOne /\ Reviewable(ledger, tab, sheet.owner)
    BY <2>1 DEF SheetAfter
  <2>3. SheetStands'
    <3> SUFFICES ASSUME sheet' # NoOne
                 PROVE  sheet' \in Sheets /\ ReceiptsWith(shownLedger', sheet'.owner, "submitted") # {}
      BY DEF SheetStands
    <3>1. /\ sheet' = sheet /\ sheet \in Sheets /\ sheet.owner \in Owners
          /\ CollectionStatusOf(ledger, sheet.owner) = "submitted" /\ ledger \in Books
      BY <1>1, <2>2 DEF Reviewable, CollectInv, CollectTypes, SheetStands, Sheets
    <3>2. ReceiptsWith(ledger, sheet.owner, "submitted") # {}
      BY <3>1, HasOneUnderReview
    <3> QED BY <2>1, <3>1, <3>2
  <2> QED BY <1>1, <2>1, <2>3, InFlight, PageMoves
<1>2. ASSUME CollectInv, LoseReview PROVE CollectInv'
  <2>1. UNCHANGED <<serverBooks, shownLedger, sheet>> /\ review # NoOne /\ review' = NoOne
    BY <1>2 DEF LoseReview
  <2>2. strays' \subseteq [owner : Owners, number : 1..MaxReceiptsSent, verdict : Verdicts]
    <3>1. strays' = IF review.answer = "waiting"
                    THEN strays \cup {[owner |-> review.owner, number |-> review.number,
                                       verdict |-> review.verdict]}
                    ELSE strays
      BY <1>2 DEF LoseReview
    <3> QED BY <1>2, <2>1, <3>1, InFlight
  <2>3. SheetStands'
    BY <1>2, <2>1 DEF CollectInv, SheetStands
  <2> QED BY <1>2, <2>1, <2>2, <2>3, PageMoves
<1>3. ASSUME CollectInv, VisitPage PROVE CollectInv'
  <2>1. /\ UNCHANGED <<serverBooks, strays>> /\ review' = NoOne
        /\ shownLedger' = ledger /\ SheetStands'
    BY <1>3 DEF VisitPage, SheetStands
  <2> QED BY <1>3, <2>1, InFlight, PageMoves
<1> QED BY <1>1, <1>2, <1>3

LEMMA CollectKept == CollectInv /\ [CollectionsNext]_collectionsVars => CollectInv'
<1> SUFFICES ASSUME CollectInv, [CollectionsNext]_collectionsVars PROVE CollectInv'
  OBVIOUS
<1>1. CASE (\E m \in Meals : Consume(m) \/ TakeBack(m)) \/ MonthIsOver
  BY <1>1, OrdersMove
<1>2. CASE \E owner \in Owners : SendReceipt(owner) \/ RemoveReceipt(owner)
  BY <1>2, OwnersMove
<1>3. CASE (\E owner \in Owners, v \in Verdicts : ReviewElsewhere(owner, v)) \/ ServeStray
  BY <1>3, OthersJudge
<1>4. CASE ServeReview
  BY <1>4, ReviewServed
<1>5. CASE \/ \E t \in {"pending", "history"} : SelectTab(t)
           \/ \E c \in Clients \cup {AllClients} : SelectClient(c)
  BY <1>5, CardsGo
<1>6. CASE \/ \E owner \in Owners : OpenReceipt(owner)
           \/ OpenReport \/ CloseSheet \/ CloseResult
  BY <1>6, SheetsMove
<1>7. CASE ConfirmPayment \/ \E v \in Verdicts : ReportIssue(v)
  BY <1>7, VerdictIsSent
<1>8. CASE ReviewArrives \/ LoseReview \/ VisitPage
  BY <1>8, ReviewEnds
<1>9. CASE UNCHANGED collectionsVars
  <2>1. UNCHANGED <<ledger, receiptsSent, shownLedger, sheet, review, strays>>
    BY <1>9 DEF collectionsVars
  <2>2. SheetStands'
    BY <2>1 DEF CollectInv, SheetStands
  <2> QED BY <2>1, <2>2, InFlight, PageMoves DEF serverBooks
<1> QED BY <1>1, <1>2, <1>3, <1>4, <1>5, <1>6, <1>7, <1>8, <1>9 DEF CollectionsNext

LEMMA CollectInvariant == CollectionsSpec => []CollectInv
<1> QED BY CollectStarts, CollectKept, PTL DEF CollectionsSpec

\* Whatever was delivered after a receipt was sent, and in whatever order receipts
\* were judged: nothing is owed in the history, the debt at the head is that of the
\* cards, a meal is one although two accounts bring it, the sales by accounts are the
\* sales by days (services/provider_collection_summary.rb:61-78), and an account
\* says why its last receipt was refused (models/account.rb:112-119).
THEOREM BooksAlwaysAgree == CollectionsSpec => []BooksAgree
<1>1. CollectInv => BooksAgree
  BY HistoryIsSettled, CardsAddUp, MealsOnce, SalesAddUp, RefusalIsSaid
     DEF CollectInv, CollectTypes, BooksAgree
<1> QED BY <1>1, CollectInvariant, PTL

-----------------------------------------------------------------------------
(* The page where the provider collects: what is told of a verdict, and moved *)

\* Steps after which the page does not say that a verdict was given.
LEMMA ToldOnlyOnArrival ==
    ASSUME [CollectionsNext]_collectionsVars, ~ReviewArrives
    PROVE  /\ reviewResult' # reviewResult => reviewResult' = NoOne
           /\ shownLedger' # shownLedger => review = NoOne
<1>1. CASE (\E m \in Meals : Consume(m) \/ TakeBack(m)) \/ MonthIsOver
  BY <1>1 DEF Consume, TakeBack, MonthIsOver, pageBooks
<1>2. CASE \E owner \in Owners : \/ SendReceipt(owner) \/ RemoveReceipt(owner)
                                 \/ OpenReceipt(owner)
  BY <1>2 DEF SendReceipt, RemoveReceipt, OpenReceipt, pageBooks
<1>3. CASE \/ \E owner \in Owners, v \in Verdicts : ReviewElsewhere(owner, v)
           \/ ServeReview \/ ServeStray
  BY <1>3 DEF ReviewElsewhere, ServeReview, ServeStray, pageBooks
<1>4. CASE \/ \E t \in {"pending", "history"} : SelectTab(t)
           \/ \E c \in Clients \cup {AllClients} : SelectClient(c)
           \/ OpenReport \/ CloseSheet \/ LoseReview
  BY <1>4 DEF SelectTab, SelectClient, OpenReport, CloseSheet, LoseReview
<1>5. CASE ConfirmPayment \/ \E v \in Verdicts : ReportIssue(v)
  BY <1>5 DEF ConfirmPayment, ReportIssue, SendVerdict
<1>6. CASE CloseResult \/ VisitPage
  BY <1>6 DEF CloseResult, VisitPage
<1>7. CASE UNCHANGED collectionsVars
  BY <1>7 DEF collectionsVars
<1> QED BY <1>1, <1>2, <1>3, <1>4, <1>5, <1>6, <1>7 DEF CollectionsNext

LEMMA VerdictIsTold ==
    ASSUME [CollectionsNext]_collectionsVars,
           review # NoOne, shownLedger' # shownLedger, review.answer = "done"
    PROVE  reviewResult' = review.verdict
<1>1. ReviewArrives
  BY ToldOnlyOnArrival
<1> QED BY <1>1 DEF ReviewArrives, ArrivalOf

LEMMA ToldAsItStands ==
    ASSUME CollectInv, [CollectionsNext]_collectionsVars,
           reviewResult' # reviewResult, reviewResult' # NoOne,
           NEW i \in Standing(ledger, review.owner, review.number)
    PROVE  ledger.receipts[review.owner][i].status = reviewResult'
<1>1. ReviewArrives
  BY ToldOnlyOnArrival
<1>2. review # NoOne /\ review.answer = "done" /\ reviewResult' = review.verdict
  BY <1>1 DEF ReviewArrives, ArrivalOf
<1>3. StandsAs(ledger, review.owner, review.number, review.verdict)
  BY <1>2 DEF CollectInv, ReviewStands
<1> QED BY <1>2, <1>3 DEF StandsAs

\* The receipt approved joins those that are paid, alone since its number is its own.
LEMMA ApprovalMoves ==
    ASSUME CollectInv, NEW owner \in Owners, NEW i \in ReceiptsWith(ledger, owner, "submitted"),
           Judged(owner, ledger.receipts[owner][i].number, "approved") = ledger',
           ledger.receipts[owner][i].expected <= OutstandingOf(ledger, owner)
    PROVE  /\ Amount(ledger', owner) = Amount(ledger, owner)
           /\ OutstandingOf(ledger', owner) =
                OutstandingOf(ledger, owner) - ledger.receipts[owner][i].expected
<1> DEFINE b == ledger
           c == ledger'
           number == ledger.receipts[owner][i].number
           expected == ledger.receipts[owner][i].expected
           S == ReceiptsWith(b, owner, "approved")
           T == ReceiptsWith(c, owner, "approved")
           f == [k \in DOMAIN b.receipts[owner] |-> b.receipts[owner][k].expected]
           fS == [k \in S |-> b.receipts[owner][k].expected]
           fT == [k \in T |-> c.receipts[owner][k].expected]
<1>1. b \in Books /\ Numbered(b, receiptsSent)
  BY DEF CollectInv, CollectTypes
<1>2. /\ c \in Books /\ c.consumed = b.consumed
      /\ DOMAIN c.receipts[owner] = DOMAIN b.receipts[owner]
      /\ \A k \in DOMAIN b.receipts[owner] :
            /\ c.receipts[owner][k].expected = b.receipts[owner][k].expected
            /\ c.receipts[owner][k].status =
                 IF b.receipts[owner][k].number = number THEN "approved"
                 ELSE b.receipts[owner][k].status
  <2>1. ledger' = Judged(owner, number, "approved") /\ "approved" \in Verdicts
    BY DEF Verdicts
  <2> HIDE DEF number
  <2> QED BY <1>1, <2>1, JudgedIs
<1>3. i \in DOMAIN b.receipts[owner] /\ b.receipts[owner][i].status = "submitted"
  BY DEF ReceiptsWith
<1>4. \A k \in DOMAIN b.receipts[owner] : b.receipts[owner][k].number = number => k = i
  BY <1>1, <1>3 DEF Numbered
<1>5. T = S \cup {i} /\ i \notin S
  BY <1>2, <1>3, <1>4 DEF ReceiptsWith
<1>6. /\ IsFiniteSet(DOMAIN b.receipts[owner])
      /\ \A k \in DOMAIN b.receipts[owner] : f[k] \in Int
      /\ f[i] = expected /\ expected \in Nat
  BY <1>1, <1>3, ReceiptsAre
<1>7. IsFiniteSet(S) /\ IsFiniteSet(T) /\ S \subseteq DOMAIN b.receipts[owner]
      /\ T \subseteq DOMAIN b.receipts[owner]
  <2>1. S \subseteq DOMAIN b.receipts[owner] /\ T \subseteq DOMAIN b.receipts[owner]
    BY <1>2 DEF ReceiptsWith
  <2> QED BY <1>6, <2>1, FS_Subset
<1>8. PaidOf(b, owner) = SumFunctionOnSet(fS, S) /\ PaidOf(c, owner) = SumFunctionOnSet(fT, T)
  BY DEF PaidOf, SumFunction
<1>9. (\A k \in S : fS[k] = f[k]) /\ (\A k \in T : fT[k] = f[k])
  BY <1>2, <1>7
<1>10. Amount(c, owner) = Amount(b, owner)
  BY <1>2 DEF Amount, OrdersOf
<1>11. Amount(b, owner) \in Nat /\ PaidOf(b, owner) \in Nat
  BY <1>1, AmountIs, DebtIs
<1>12. expected <= OutstandingOf(b, owner)
  OBVIOUS
<1> HIDE DEF S, T, f, fS, fT, expected, c
<1>13. PaidOf(c, owner) = expected + PaidOf(b, owner)
  <2>1. SumFunctionOnSet(fS, S) = SumFunctionOnSet(f, S)
    BY <1>7, <1>9, SumsAlike
  <2>2. SumFunctionOnSet(fT, T) = SumFunctionOnSet(f, T)
    BY <1>7, <1>9, SumsAlike
  <2>3. (\A k \in S : f[k] \in Int) /\ f[i] \in Int
    BY <1>6, <1>7
  <2>4. SumFunctionOnSet(f, S \cup {i}) = f[i] + SumFunctionOnSet(f, S)
    BY <1>5, <1>7, <2>3, SumWith
  <2> QED BY <1>5, <1>6, <1>8, <2>1, <2>2, <2>4
<1>14. OutstandingOf(c, owner) = OutstandingOf(b, owner) - expected
  <2> DEFINE A == Amount(b, owner)
             P == PaidOf(b, owner)
  <2>1. OutstandingOf(b, owner) = IF A > P THEN A - P ELSE 0
    BY DEF OutstandingOf
  <2>2. OutstandingOf(c, owner) = IF A > expected + P THEN A - (expected + P) ELSE 0
    BY <1>10, <1>13 DEF OutstandingOf
  <2>3. A \in Nat /\ P \in Nat /\ expected \in Nat
    BY <1>6, <1>11
  <2> HIDE DEF A, P
  <2> QED BY <1>12, <2>1, <2>2, <2>3
<1> QED BY <1>10, <1>14 DEF c, expected

\* A verdict that was taken is told although its card is gone, what is told is so of
\* the receipt, and an approval moves what the receipt was for from owed to paid and
\* no more (controllers/provider/payments_controller.rb:12-47, models/account.rb:88-92).
THEOREM ReviewsAreTold == CollectionsSpec => ReviewedAsTold
<1> DEFINE Told == review # NoOne /\ review' = NoOne /\ shownLedger' # shownLedger
                     /\ review.answer = "done" => reviewResult' = review.verdict
           Truth == reviewResult' # reviewResult /\ reviewResult' # NoOne
                      => \A i \in Standing(ledger, review.owner, review.number) :
                            ledger.receipts[review.owner][i].status = reviewResult'
           Moves == \A owner \in Owners : \A i \in ReceiptsWith(ledger, owner, "submitted") :
                      LET receipt == ledger.receipts[owner][i]
                      IN  Judged(owner, receipt.number, "approved") = ledger'
                            /\ receipt.expected <= OutstandingOf(ledger, owner)
                            => /\ Amount(ledger', owner) = Amount(ledger, owner)
                               /\ OutstandingOf(ledger', owner) =
                                    OutstandingOf(ledger, owner) - receipt.expected
<1>1. [CollectionsNext]_collectionsVars => Told
  BY VerdictIsTold
<1>2. CollectInv /\ [CollectionsNext]_collectionsVars => Truth
  BY ToldAsItStands
<1>3. CollectInv => Moves
  BY ApprovalMoves
<1> HIDE DEF Told, Truth, Moves
<1>4. CollectionsSpec => [][Told]_collectionsVars
  BY <1>1, PTL DEF CollectionsSpec
<1>5. CollectionsSpec => [][Truth]_collectionsVars
  BY <1>2, CollectInvariant, PTL DEF CollectionsSpec
<1>6. CollectionsSpec => [][Moves]_collectionsVars
  BY <1>3, CollectInvariant, PTL DEF CollectionsSpec
<1> QED BY <1>4, <1>5, <1>6
        DEF ReviewedAsTold, ReviewIsTold, TellsTheTruth, ApprovalMovesTheAmount, Told, Truth,
            Moves
=============================================================================
