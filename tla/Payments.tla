------------------------------ MODULE Payments ------------------------------
(***************************************************************************)
(* The collection of one account: the receipts its owner sends, their      *)
(* review by the provider, and the invoice of the period, while what the   *)
(* account owes keeps changing.  It models app/models/payment.rb,          *)
(* app/models/invoice.rb, the balance and the collection status of         *)
(* app/models/account.rb, and the controllers that call them.  Accounts    *)
(* share nothing here, so one account is the whole model.                  *)
(*                                                                         *)
(* A request is a sequence of steps, because the code checks first and     *)
(* locks or writes later; the requests in flight interleave.  An approval  *)
(* is the one transaction with a read between its lock and its commit: it  *)
(* keeps its receipt locked until then.  A request that fails a check, hits *)
(* a unique index, loses its connection or is rolled back is abandoned.    *)
(*                                                                         *)
(* Money is counted in whole units and includes the VAT of the account.    *)
(***************************************************************************)
EXTENDS Integers, FiniteSets

CONSTANTS
    IsCompany,      \* Account#company?: the account of a company, or an employee's
    Requests,       \* bound: the requests in flight at once
    MaxDebt,        \* bound: what the account can owe
    MaxReceipts,    \* bound: receipts sent in all
    MaxInvoices     \* bound: invoices uploaded in all

ASSUME PaymentsAssumption ==
    /\ IsCompany \in BOOLEAN
    /\ MaxDebt \in Nat /\ MaxReceipts \in Nat /\ MaxInvoices \in Nat

VARIABLES
    phase,       \* whether the month of the account is to come, running or over
    payable,     \* Account#payable_amount
    peak,        \* the most it has been (history)
    receipts,    \* the rows of payments, by id
    sent,        \* ids of payments handed out
    invoices,    \* the status of the rows of invoices, by id
    issued,      \* ids of invoices handed out
    request,     \* what each request in flight is about to do
    crossings    \* what approvals have crossed (history)

paymentsVars == <<phase, payable, peak, receipts, sent, invoices, issued, request, crossings>>

\* An account is made by the first order of its month that is confirmed: before
\* the month, in it, or when a confirmation comes after it.
Phases == {"future", "current", "past"}

\* Account#current?
Current == phase = "current"

\* An approval committed before the month was over, and a receipt, an invoice or
\* a deletion of a request that an approval was committed in the middle of.
Crossings == {"early", "receipt", "invoice", "removal"}

Debts == 0..MaxDebt
ReceiptIds == 1..MaxReceipts
InvoiceIds == 1..MaxInvoices

\* A row in "pending" is never written: both controllers create it submitted.
Receipt == [status: {"submitted", "approved", "rejected", "partial"}, expected: Debts]

\* Nothing writes "rejected" in an invoice, so every invoice there is is active.
InvoiceStatuses == {"pending", "approved"}

-----------------------------------------------------------------------------
(* The balance.                                                            *)

WithStatus(st) == {p \in DOMAIN receipts : receipts[p].status = st}
UnderReview == WithStatus("submitted")

\* What the approved receipts cover, as a set of units of money.
Covered == {unit \in ReceiptIds \X (1..MaxDebt) :
              unit[1] \in WithStatus("approved") /\ unit[2] <= receipts[unit[1]].expected}
Paid == Cardinality(Covered)

\* Mutant of Outstanding: earlier receipts are forgotten.
OutstandingInFull == payable

Outstanding == IF payable >= Paid THEN payable - Paid ELSE 0

Settled == WithStatus("approved") # {} /\ Outstanding = 0

\* created_at and the id are both given out by the INSERT.
IsLast(p) == p \in DOMAIN receipts /\ \A q \in DOMAIN receipts : q <= p

\* Account#collection_status = "approved": nothing under review, and the last
\* receipt approved with the debt covered.
Collected == /\ UnderReview = {}
             /\ \E p \in WithStatus("approved") : IsLast(p)
             /\ Settled

-----------------------------------------------------------------------------
(* The requests.                                                           *)

Steps == {"idle", "submit", "capture", "insert", "review", "approval", "approve",
          "remove", "insert_invoice", "remove_invoice"}

\* The receipt and the invoice a request is about (0 for none), the debt it
\* read, whether it read the account as collected, and whether an approval has
\* been committed since it began (history).
Request == [step: Steps, receipt: 0..MaxReceipts, invoice: 0..MaxInvoices,
            expected: Debts, collected: BOOLEAN, crossed: BOOLEAN]
Idle == [step |-> "idle", receipt |-> 0, invoice |-> 0, expected |-> 0,
         collected |-> FALSE, crossed |-> FALSE]

At(r, step) == request[r].step = step
Goes(r, next) == request' = [request EXCEPT ![r] = next]
Ends(r) == Goes(r, Idle)

\* The request goes on with what it has, and what it does is crossed or not.
On(r, step) == [request[r] EXCEPT !.step = step]
Crosses(kind, when) == crossings' = crossings \cup (IF when THEN {kind} ELSE {})

\* The receipts an approval holds locked.
Locked == {request[r].receipt : r \in {q \in Requests : At(q, "approve")}}

PaymentsInit ==
    /\ phase \in Phases
    /\ payable = 0 /\ peak = 0
    /\ receipts = <<>> /\ sent = 0
    /\ invoices = <<>> /\ issued = 0
    /\ request = [r \in Requests |-> Idle]
    /\ crossings = {}

-----------------------------------------------------------------------------
(* The debt.                                                               *)

\* Account#sync_amount!: orders delivered, confirmed late or turned down.  No
\* order of a month to come is delivered, and once the month is over an order can
\* still be confirmed, never taken back.
ChangeDebt(debt) ==
    /\ \/ Current
       \/ phase = "past" /\ debt > payable
    /\ payable' = debt
    /\ peak' = IF debt > peak THEN debt ELSE peak
    /\ UNCHANGED <<phase, receipts, sent, invoices, issued, request, crossings>>

MonthBegins ==
    /\ phase = "future"
    /\ phase' = "current"
    /\ UNCHANGED <<payable, peak, receipts, sent, invoices, issued, request, crossings>>

MonthEnds ==
    /\ Current
    /\ phase' = "past"
    /\ UNCHANGED <<payable, peak, receipts, sent, invoices, issued, request, crossings>>

-----------------------------------------------------------------------------
(* Sending a receipt.                                                      *)

\* Mutant of OpenSubmit: a settled account takes receipts.
OpenSubmitAlways(r) ==
    /\ At(r, "idle")
    /\ IsCompany \/ ~Current
    /\ Goes(r, [Idle EXCEPT !.step = "submit"])
    /\ UNCHANGED <<phase, payable, peak, receipts, sent, invoices, issued, crossings>>

\* #create of the payments controllers up to the save: an employee does not pay
\* the month that is running.
OpenSubmit(r) ==
    /\ At(r, "idle")
    /\ IsCompany \/ ~Current
    /\ ~Settled
    /\ Goes(r, [Idle EXCEPT !.step = "submit"])
    /\ UNCHANGED <<phase, payable, peak, receipts, sent, invoices, issued, crossings>>

\* only_one_submitted_per_account.
Validate(r) ==
    /\ At(r, "submit")
    /\ UnderReview = {}
    /\ Goes(r, On(r, "capture"))
    /\ UNCHANGED <<phase, payable, peak, receipts, sent, invoices, issued, crossings>>

\* capture_expected_amount, before the row is saved.
Capture(r) ==
    /\ At(r, "capture")
    /\ Goes(r, [On(r, "insert") EXCEPT !.expected = Outstanding])
    /\ UNCHANGED <<phase, payable, peak, receipts, sent, invoices, issued, crossings>>

Row(st, expected) == [status |-> st, expected |-> expected]
WithReceipt(id, row) == [p \in DOMAIN receipts \cup {id} |->
                           IF p = id THEN row ELSE receipts[p]]

\* Mutants of InsertReceipt: without the unique index, and with an id already used.
InsertAnyway(r) ==
    /\ At(r, "insert")
    /\ sent < MaxReceipts
    /\ sent' = sent + 1
    /\ receipts' = WithReceipt(sent + 1, Row("submitted", request[r].expected))
    /\ Ends(r)
    /\ Crosses("receipt", request[r].crossed)
    /\ UNCHANGED <<phase, payable, peak, invoices, issued>>

InsertSameId(r) ==
    /\ At(r, "insert")
    /\ UnderReview = {}
    /\ sent < MaxReceipts
    /\ receipts' = WithReceipt(sent + 1, Row("submitted", request[r].expected))
    /\ Ends(r)
    /\ UNCHANGED <<phase, payable, peak, sent, invoices, issued, crossings>>

\* The INSERT: the unique index of submitted receipts refuses a second one, and
\* waits for the transaction that is approving the first.
InsertReceipt(r) ==
    /\ At(r, "insert")
    /\ UnderReview = {}
    /\ sent < MaxReceipts
    /\ sent' = sent + 1
    /\ receipts' = WithReceipt(sent + 1, Row("submitted", request[r].expected))
    /\ Ends(r)
    /\ Crosses("receipt", request[r].crossed)
    /\ UNCHANGED <<phase, payable, peak, invoices, issued>>

-----------------------------------------------------------------------------
(* Reviewing it.                                                           *)

\* Provider::PaymentsController#update up to the lock, for an approval or for
\* another verdict; the month that is running is not approved.
OpenReview(r, p, step) ==
    /\ At(r, "idle")
    /\ p \in UnderReview
    /\ step = "approval" => ~Current
    /\ Goes(r, [Idle EXCEPT !.step = step, !.receipt = p])
    /\ UNCHANGED <<phase, payable, peak, receipts, sent, invoices, issued, crossings>>

\* with_lock reloads the row: it waits for an approval to commit, and fails if
\* the row is gone.
Locks(r) == request[r].receipt \in DOMAIN receipts \ Locked

\* Mutant of Decide: the status is the one read before the lock.
DecideUnchecked(r, verdict) ==
    /\ At(r, "review") /\ Locks(r)
    /\ receipts' = [receipts EXCEPT ![request[r].receipt].status = verdict]
    /\ Ends(r)
    /\ UNCHANGED <<phase, payable, peak, sent, invoices, issued, crossings>>

\* Payment#reject_with and #mark_partial.
Decide(r, verdict) ==
    /\ At(r, "review") /\ Locks(r)
    /\ request[r].receipt \in UnderReview
    /\ receipts' = [receipts EXCEPT ![request[r].receipt].status = verdict]
    /\ Ends(r)
    /\ UNCHANGED <<phase, payable, peak, sent, invoices, issued, crossings>>

\* account.invoices.pending.first, of a company's account.
PendingInvoice == {i \in DOMAIN invoices : IsCompany /\ invoices[i] = "pending"}

\* Payment#approve up to the commit.
BeginApprove(r) ==
    /\ At(r, "approval") /\ Locks(r)
    /\ request[r].receipt \in UnderReview
    /\ \/ \E i \in PendingInvoice :
            Goes(r, [On(r, "approve") EXCEPT !.invoice = i])
       \/ PendingInvoice = {} /\ Goes(r, On(r, "approve"))
    /\ UNCHANGED <<phase, payable, peak, receipts, sent, invoices, issued, crossings>>

\* What an approval does to the receipts and, as history, to the requests it is
\* committed in the middle of.
ReceiptApproved(r) ==
    /\ receipts' = [receipts EXCEPT ![request[r].receipt].status = "approved"]
    /\ request' = [q \in Requests |->
                     IF q = r THEN Idle
                     ELSE [request[q] EXCEPT !.crossed = ~At(q, "idle")]]
    /\ Crosses("early", phase # "past")

\* Mutant of CommitApprove: the invoice is left as it was.
CommitReceiptOnly(r) ==
    /\ At(r, "approve")
    /\ ReceiptApproved(r)
    /\ UNCHANGED <<phase, payable, peak, sent, invoices, issued>>

\* Its commit: the receipt and the invoice it read, if that is still there.
CommitApprove(r) ==
    /\ At(r, "approve")
    /\ ReceiptApproved(r)
    /\ invoices' = [i \in DOMAIN invoices |->
                      IF i = request[r].invoice THEN "approved" ELSE invoices[i]]
    /\ UNCHANGED <<phase, payable, peak, sent, issued>>

-----------------------------------------------------------------------------
(* Taking it back.                                                         *)

\* Mutant of OpenRemoval: any receipt.
OpenRemovalOfAny(r, p) ==
    /\ At(r, "idle")
    /\ p \in DOMAIN receipts
    /\ Goes(r, [Idle EXCEPT !.step = "remove", !.receipt = p])
    /\ UNCHANGED <<phase, payable, peak, receipts, sent, invoices, issued, crossings>>

\* #destroy of the payments controllers up to the DELETE.
OpenRemoval(r, p) ==
    /\ At(r, "idle")
    /\ p \in UnderReview \cup WithStatus("rejected")
    /\ Goes(r, [Idle EXCEPT !.step = "remove", !.receipt = p])
    /\ UNCHANGED <<phase, payable, peak, receipts, sent, invoices, issued, crossings>>

\* destroy! deletes the row whatever its status is by now; it only waits for an
\* approval that holds it.
Remove(r) ==
    /\ At(r, "remove") /\ request[r].receipt \notin Locked
    /\ receipts' = [p \in DOMAIN receipts \ {request[r].receipt} |-> receipts[p]]
    /\ Ends(r)
    /\ Crosses("removal", request[r].crossed)
    /\ UNCHANGED <<phase, payable, peak, sent, invoices, issued>>

-----------------------------------------------------------------------------
(* The invoice of the period.                                              *)

\* Provider::InvoicesController#create up to the INSERT: the period has no
\* invoice, and approve_if_account_settled reads the collection status.
OpenInvoice(r) ==
    /\ At(r, "idle")
    /\ IsCompany
    /\ DOMAIN invoices = {}
    /\ Goes(r, [Idle EXCEPT !.step = "insert_invoice", !.collected = Collected])
    /\ UNCHANGED <<phase, payable, peak, receipts, sent, invoices, issued, crossings>>

WithInvoice(id, st) == [i \in DOMAIN invoices \cup {id} |->
                          IF i = id THEN st ELSE invoices[i]]

\* Mutant of InsertInvoice: without the unique index.
InsertInvoiceAnyway(r) ==
    /\ At(r, "insert_invoice")
    /\ issued < MaxInvoices
    /\ issued' = issued + 1
    /\ invoices' = WithInvoice(issued + 1, IF request[r].collected THEN "approved" ELSE "pending")
    /\ Ends(r)
    /\ Crosses("invoice", request[r].crossed \/ Locked # {})
    /\ UNCHANGED <<phase, payable, peak, receipts, sent>>

\* The INSERT, under the unique index of active invoices.
InsertInvoice(r) ==
    /\ At(r, "insert_invoice")
    /\ DOMAIN invoices = {}
    /\ issued < MaxInvoices
    /\ issued' = issued + 1
    /\ invoices' = WithInvoice(issued + 1, IF request[r].collected THEN "approved" ELSE "pending")
    /\ Ends(r)
    /\ Crosses("invoice", request[r].crossed \/ Locked # {})
    /\ UNCHANGED <<phase, payable, peak, receipts, sent>>

\* Mutant of OpenInvoiceRemoval: removable? is not asked.
OpenInvoiceRemovalOfAny(r, i) ==
    /\ At(r, "idle")
    /\ i \in DOMAIN invoices
    /\ Goes(r, [Idle EXCEPT !.step = "remove_invoice", !.invoice = i])
    /\ UNCHANGED <<phase, payable, peak, receipts, sent, invoices, issued, crossings>>

\* Provider::InvoicesController#destroy up to the DELETE.
OpenInvoiceRemoval(r, i) ==
    /\ At(r, "idle")
    /\ i \in DOMAIN invoices /\ invoices[i] = "pending"
    /\ Goes(r, [Idle EXCEPT !.step = "remove_invoice", !.invoice = i])
    /\ UNCHANGED <<phase, payable, peak, receipts, sent, invoices, issued, crossings>>

RemoveInvoice(r) ==
    /\ At(r, "remove_invoice")
    /\ invoices' = [i \in DOMAIN invoices \ {request[r].invoice} |-> invoices[i]]
    /\ Ends(r)
    /\ Crosses("removal", request[r].crossed)
    /\ UNCHANGED <<phase, payable, peak, receipts, sent, issued>>

-----------------------------------------------------------------------------

\* A request that ends without effect.
Abandon(r) ==
    /\ ~At(r, "idle")
    /\ Ends(r)
    /\ UNCHANGED <<phase, payable, peak, receipts, sent, invoices, issued, crossings>>

Account == MonthBegins \/ MonthEnds \/ \E debt \in Debts : ChangeDebt(debt)

Payer(r) ==
    \/ OpenSubmit(r) \/ Validate(r) \/ Capture(r) \/ InsertReceipt(r)
    \/ \E p \in ReceiptIds : OpenRemoval(r, p)
    \/ Remove(r)

Reviewer(r) ==
    \/ \E p \in ReceiptIds, step \in {"review", "approval"} : OpenReview(r, p, step)
    \/ \E verdict \in {"rejected", "partial"} : Decide(r, verdict)
    \/ BeginApprove(r) \/ CommitApprove(r)
    \/ OpenInvoice(r) \/ InsertInvoice(r)
    \/ \E i \in InvoiceIds : OpenInvoiceRemoval(r, i)
    \/ RemoveInvoice(r)

PaymentsNext == Account \/ \E r \in Requests : Payer(r) \/ Reviewer(r) \/ Abandon(r)

PaymentsSpec == PaymentsInit /\ [][PaymentsNext]_paymentsVars

-----------------------------------------------------------------------------
(* Properties.                                                             *)

\* Every variable has its type, ids are handed out in order, and an approval
\* holds a receipt that is under review.
PaymentsTypeOK ==
    /\ phase \in Phases
    /\ payable \in Debts /\ peak \in payable..MaxDebt
    /\ sent \in 0..MaxReceipts /\ issued \in 0..MaxInvoices
    /\ DOMAIN receipts \subseteq 1..sent
    /\ receipts \in [DOMAIN receipts -> Receipt]
    /\ DOMAIN invoices \subseteq 1..issued
    /\ invoices \in [DOMAIN invoices -> InvoiceStatuses]
    /\ request \in [Requests -> Request]
    /\ Locked \subseteq UnderReview
    /\ crossings \subseteq Crossings

\* An account has at most one receipt under review, whatever requests overlap
\* (payment.rb:137-146).
OneUnderReview == \A p, q \in UnderReview : p = q

\* A period has at most one invoice (invoice.rb:42-48).
OneInvoice == \A i, j \in DOMAIN invoices : i = j

\* Whatever requests overlap, an account has at most one receipt under review and
\* a period one invoice: what the checks let through the unique indices stop
\* (payment.rb:140, invoice.rb:42).
OneOfEach == OneUnderReview /\ OneInvoice

\* What ReceiptReview sees of a receipt.
ReviewStatus == [p \in ReceiptIds |->
                   IF p \in DOMAIN receipts THEN receipts[p].status
                   ELSE IF p <= sent THEN "deleted" ELSE "none"]

\* A receipt is decided once, and a review that comes late changes nothing
\* (payment.rb:31-59): the receipts keep the promises of ReceiptReview.
Review == INSTANCE ReceiptReview WITH Receipts <- ReceiptIds, status <- ReviewStatus
KeepsReview == Review!Spec

\* "Cada comprobante aprobado cubre el importe que se esperaba al enviarlo"
\* (account.rb:61), and of two sent at once "el segundo lo frena el índice
\* único" (consumer/payments_controller.rb:77-78), so nobody pays twice: what
\* was approved never exceeds the most the account has owed.
PaidWithinDebt == Paid <= peak

\* Whatever requests overlap and however the debt moves meanwhile, nobody pays
\* twice unless an approval was committed in the middle of sending a receipt: the
\* checks, the amount read and the unique index (payment.rb:109-111,137-146) leave
\* no other way.
PaidOnceUnlessCrossed == "receipt" \notin crossings => PaidWithinDebt

\* "approves the pending invoice when a company payment is approved" and
\* "aprueba la factura posterior al pago" (provider/payments_spec.rb:84,
\* provider/invoices_spec.rb:30): no collected period has a pending invoice.
InvoiceFollowsCollection ==
    Collected => \A i \in DOMAIN invoices : invoices[i] = "approved"

\* A settled account is shown as collected (account.rb:105-119): the status of
\* its last receipt never hides that the debt is covered.
SettledIsShown == Settled => Collected

\* With any number of requests at once, a settled account is shown as collected and
\* its invoice follows, whichever came last, unless an approval crossed another
\* request or came before the month was over, while the debt could still fall
\* (account.rb:91-119, payment.rb:31-43, invoice.rb:34-36).
CollectedAndInvoiced == crossings = {} => InvoiceFollowsCollection /\ SettledIsShown

\* An approved receipt is not deleted: "does not remove a receipt that has
\* already been reviewed" (spec/requests/payments_spec.rb:222).
ApprovedReceiptStays ==
    [][\A p \in WithStatus("approved") :
         p \in DOMAIN receipts' /\ receipts'[p] = receipts[p]]_paymentsVars

\* What was approved, receipt or invoice, is approved for ever, unless a deletion
\* checked before the approval is carried out after it (payments_controller.rb:33-40,
\* provider/invoices_controller.rb; invoices_spec.rb:210).
ApprovedStays ==
    [][\/ "removal" \in crossings'
       \/ /\ \A p \in WithStatus("approved") :
                p \in DOMAIN receipts' /\ receipts'[p] = receipts[p]
          /\ \A i \in DOMAIN invoices : invoices[i] = "approved" =>
                i \in DOMAIN invoices' /\ invoices'[i] = "approved"]_paymentsVars
=============================================================================
