-------------------------- MODULE CollectionsPage --------------------------
(***************************************************************************)
(* What a provider is owed for a month, and the review of the receipts it  *)
(* is sent (pages/provider/collections/index.tsx and                       *)
(* components/{collections,payments}) over ProviderCollectionSummary and   *)
(* Provider::PaymentsController.  An order hangs from two accounts, of the *)
(* employee who ate and of the company that pays the subsidy; a client's   *)
(* accounts make a group, in the history once all of them are settled.     *)
(*                                                                         *)
(* The page works on the books as they were when it was loaded, while      *)
(* orders are delivered or taken back, owners send and remove receipts and *)
(* the provider reviews them in another window.  The dialogs that only     *)
(* show what the page has are state formulae.  Amounts are without VAT,    *)
(* which a setting adds to the accounts of companies.                      *)
(***************************************************************************)
EXTENDS Integers, Sequences, FiniteSets, FiniteSetsExt

CONSTANTS
    Clients,        \* the companies
    EmployerOf,     \* the company of each employee
    ConsumerOf,     \* the employee of each order
    Charged,        \* what the employee pays of each order
    Subsidised,     \* what the company pays of it
    NoOne,          \* null
    AllClients,     \* the filter as the page opens
    MaxReceiptsSent,    \* bound: receipts sent in all
    MaxReviews      \* bound: verdicts given, on the page or in another window

Employees == DOMAIN EmployerOf
Owners == Clients \cup Employees
Meals == DOMAIN ConsumerOf
Verdicts == {"approved", "partial", "rejected"}

ASSUME CollectionsAssumption ==
    /\ IsFiniteSet(Clients) /\ IsFiniteSet(Employees) /\ IsFiniteSet(Meals)
    /\ Clients \cap Employees = {}
    /\ \A e \in Employees : EmployerOf[e] \in Clients
    /\ \A m \in Meals : /\ ConsumerOf[m] \in Employees
                        /\ Charged[m] \in Nat /\ Subsidised[m] \in Nat
                        /\ Charged[m] + Subsidised[m] > 0    \* a dish has a price
    /\ MaxReceiptsSent \in Nat /\ MaxReviews \in Nat
    /\ AllClients \notin Clients
    /\ NoOne \notin Verdicts

VARIABLES
    ledger,         \* the server: orders consumed, receipts, the month running
    receiptsSent,   \* receipts sent in all, and so the number of the last
    shownLedger,    \* the same, as the page was told
    tab,            \* "pending" or "history"
    client,         \* the clients shown: all, or one
    sheet,          \* the receipt open, or the report of what is wrong with it
    review,         \* the verdict in flight
    strays,         \* verdicts interrupted that the server may still serve
    reviewResult,   \* the verdict the page says was given
    reviews         \* verdicts given

collectionsVars == <<ledger, receiptsSent, shownLedger, tab, client, sheet, review,
                     strays, reviewResult, reviews>>

serverBooks == <<ledger, receiptsSent>>
pageBooks == <<shownLedger, tab, client, sheet, review, reviewResult, reviews>>

-----------------------------------------------------------------------------
(* The books *)

ClientOf(owner) == IF owner \in Clients THEN owner ELSE EmployerOf[owner]

\* An order hangs from the account of its employee and from the company's.
OrdersOf(b, owner) ==
    {m \in b.consumed : owner \in {ConsumerOf[m], EmployerOf[ConsumerOf[m]]}}

\* A mutant of DetailOf: the company is asked for the whole price.
DetailAtPrice(m, owner) ==
    IF owner \in Clients THEN Subsidised[m] + Charged[m] ELSE Charged[m]

\* The panel's detail: the subsidy for the company, its part for the employee.
DetailOf(m, owner) == IF owner \in Clients THEN Subsidised[m] ELSE Charged[m]

Amount(b, owner) ==
    SumFunction([m \in OrdersOf(b, owner) |-> DetailOf(m, owner)])

ReceiptsWith(b, owner, status) ==
    {i \in DOMAIN b.receipts[owner] : b.receipts[owner][i].status = status}

\* A mutant of PaidOf: the last receipt approved stands for all.
PaidOfLast(b, owner) ==
    LET approved == ReceiptsWith(b, owner, "approved")
    IN  IF approved = {} THEN 0 ELSE b.receipts[owner][Max(approved)].expected

PaidOf(b, owner) ==
    SumFunction([i \in ReceiptsWith(b, owner, "approved") |-> b.receipts[owner][i].expected])

OutstandingOf(b, owner) ==
    IF Amount(b, owner) > PaidOf(b, owner) THEN Amount(b, owner) - PaidOf(b, owner) ELSE 0

IsSettled(b, owner) ==
    ReceiptsWith(b, owner, "approved") # {} /\ OutstandingOf(b, owner) = 0

\* A mutant of CollectionStatusOf: the last receipt decides, whatever is owed since.
StatusOfTheLast(b, owner) ==
    LET all == b.receipts[owner]
    IN  IF all = <<>> THEN "pending" ELSE all[Len(all)].status

\* Account#collection_status.
CollectionStatusOf(b, owner) ==
    LET all == b.receipts[owner]
    IN  CASE ReceiptsWith(b, owner, "submitted") # {} -> "submitted"
          [] all = <<>> -> "pending"
          [] all[Len(all)].status = "approved" /\ ~IsSettled(b, owner) -> "pending"
          [] OTHER -> all[Len(all)].status

-----------------------------------------------------------------------------
(* The groups *)

\* An account without anything to collect is not shown.
Rows(b, c) == {owner \in Owners : ClientOf(owner) = c /\ Amount(b, owner) > 0}

SumOf(f(_, _), b, owners) == SumFunction([owner \in owners |-> f(b, owner)])

GroupSettled(b, c) ==
    \A owner \in Rows(b, c) : CollectionStatusOf(b, owner) = "approved"

\* The groups of a tab.
Groups(b, t) ==
    {c \in Clients : Rows(b, c) # {} /\ (GroupSettled(b, c) <=> t = "history")}

\* A client without a group any more is no filter.
Visible(b, t) ==
    IF \E s \in {"pending", "history"} : client \in Groups(b, s)
    THEN Groups(b, t) \cap {client} ELSE Groups(b, t)

\* A mutant of GroupMeals: every account brings its own.
GroupMealsTwice(b, c) ==
    SumFunction([owner \in Rows(b, c) |-> Cardinality(OrdersOf(b, owner))])

\* An order hangs from two accounts, and is one meal.
GroupMeals(b, c) == Cardinality(UNION {OrdersOf(b, owner) : owner \in Rows(b, c)})

\* What the head of the employees and of the company say in a card.
EmployeesTotal(b, c) ==
    IF GroupSettled(b, c) THEN SumOf(Amount, b, Rows(b, c) \ {c})
    ELSE SumOf(OutstandingOf, b, Rows(b, c) \ {c})

CompanyTotal(b, c, t) ==
    IF t = "history" THEN SumOf(Amount, b, Rows(b, c) \cap {c})
    ELSE SumOf(OutstandingOf, b, Rows(b, c) \cap {c})

\* A mutant of TotalOutstanding: accounts paid in part count in full.
TotalInFull ==
    SumOf(Amount, shownLedger,
          {owner \in UNION {Rows(shownLedger, c) : c \in Clients} :
             CollectionStatusOf(shownLedger, owner) # "approved"})

\* The debt over the pending groups.
TotalOutstanding ==
    SumOf(OutstandingOf, shownLedger,
          {owner \in UNION {Rows(shownLedger, c) : c \in Clients} :
             CollectionStatusOf(shownLedger, owner) # "approved"})

\* The sales of the month, and the days its detail has, of one client or all.
Sales(b) == IF b.running THEN SumOf(Amount, b, Owners) ELSE 0

SalesDetail(b, c) ==
    IF ~b.running THEN {}
    ELSE {m \in b.consumed : c \in {EmployerOf[ConsumerOf[m]], AllClients}}

\* A day, or all of them: what the head over the orders says.
DayTotal(orders) == SumFunction([m \in orders |-> Charged[m] + Subsidised[m]])

-----------------------------------------------------------------------------
(* The panel of an account *)

\* A mutant of PendingRejectionReason: the first thing that was wrong.
FirstRejectionReason(b, owner) ==
    LET issues == ReceiptsWith(b, owner, "rejected") \cup ReceiptsWith(b, owner, "partial")
    IN  IF ReceiptsWith(b, owner, "approved") # {} \/ issues = {} THEN NoOne
        ELSE b.receipts[owner][Min(issues)].status

\* What was wrong with the last receipt that was refused, until one is approved.
PendingRejectionReason(b, owner) ==
    LET issues == ReceiptsWith(b, owner, "rejected") \cup ReceiptsWith(b, owner, "partial")
    IN  IF ReceiptsWith(b, owner, "approved") # {} \/ issues = {} THEN NoOne
        ELSE b.receipts[owner][Max(issues)].status

\* And the line of its own for an account paid in part.
Notice(b, owner) ==
    IF PendingRejectionReason(b, owner) # NoOne THEN PendingRejectionReason(b, owner)
    ELSE IF CollectionStatusOf(b, owner) = "partial" THEN "partial" ELSE NoOne

\* The receipts listed under it.
History(b, owner) ==
    IF CollectionStatusOf(b, owner) \in {"partial", "rejected"}
         \/ Len(b.receipts[owner]) > 1 \/ ReceiptsWith(b, owner, "approved") # {}
    THEN b.receipts[owner] ELSE <<>>

\* The button to review is in the panels on show of accounts under review.
Reviewable(b, t, owner) ==
    /\ ClientOf(owner) \in Visible(b, t) /\ owner \in Rows(b, ClientOf(owner))
    /\ CollectionStatusOf(b, owner) = "submitted"

NumberUnderReview(b, owner) ==
    b.receipts[owner][CHOOSE i \in ReceiptsWith(b, owner, "submitted") : TRUE].number

-----------------------------------------------------------------------------
(* The server *)

CollectionsInit ==
    /\ ledger = [consumed |-> {}, receipts |-> [owner \in Owners |-> <<>>],
                 running |-> TRUE]
    /\ receiptsSent = 0
    /\ shownLedger = ledger
    /\ tab = "pending" /\ client = AllClients
    /\ sheet = NoOne /\ review = NoOne /\ strays = {} /\ reviewResult = NoOne
    /\ reviews = 0

\* An order is delivered, and due to both accounts.
Consume(m) ==
    /\ m \notin ledger.consumed /\ ledger.running
    /\ ledger' = [ledger EXCEPT !.consumed = @ \cup {m}]
    /\ UNCHANGED <<receiptsSent, pageBooks, strays>>

\* It is taken back: rejected, or cancelled.
TakeBack(m) ==
    /\ m \in ledger.consumed /\ ledger.running
    /\ ledger' = [ledger EXCEPT !.consumed = @ \ {m}]
    /\ UNCHANGED <<receiptsSent, pageBooks, strays>>

MonthIsOver ==
    /\ ledger.running /\ ledger' = [ledger EXCEPT !.running = FALSE]
    /\ UNCHANGED <<receiptsSent, pageBooks, strays>>

\* An employee waits for the month to end; a company may not.
SendReceipt(owner) ==
    /\ owner \in Employees => ~ledger.running
    /\ Amount(ledger, owner) > 0 /\ ~IsSettled(ledger, owner)
    /\ ReceiptsWith(ledger, owner, "submitted") = {}
    /\ receiptsSent < MaxReceiptsSent /\ receiptsSent' = receiptsSent + 1
    /\ ledger' = [ledger EXCEPT !.receipts[owner] =
                    Append(@, [number |-> receiptsSent', status |-> "submitted",
                               expected |-> OutstandingOf(ledger, owner)])]
    /\ UNCHANGED <<pageBooks, strays>>

RemoveReceipt(owner) ==
    /\ \E i \in DOMAIN ledger.receipts[owner] :
          /\ ledger.receipts[owner][i].status \in {"submitted", "rejected"}
          /\ ledger' = [ledger EXCEPT !.receipts[owner] =
                          SubSeq(@, 1, i - 1) \o SubSeq(@, i + 1, Len(@))]
    /\ UNCHANGED <<receiptsSent, pageBooks, strays>>

Standing(b, owner, number) ==
    {i \in DOMAIN b.receipts[owner] : b.receipts[owner][i].number = number}

\* Only a receipt under review takes a verdict, and only a closed month is paid.
Takes(owner, number, verdict) ==
    /\ \E i \in Standing(ledger, owner, number) :
          ledger.receipts[owner][i].status = "submitted"
    /\ verdict = "approved" => ~ledger.running

Judged(owner, number, verdict) ==
    [ledger EXCEPT !.receipts[owner] =
        [i \in DOMAIN @ |-> IF @[i].number = number
                            THEN [@[i] EXCEPT !.status = verdict] ELSE @[i]]]

\* The provider reviews it in another window.
ReviewElsewhere(owner, verdict) ==
    /\ \E i \in ReceiptsWith(ledger, owner, "submitted") :
          LET number == ledger.receipts[owner][i].number
          IN  /\ Takes(owner, number, verdict)
              /\ ledger' = Judged(owner, number, verdict)
    /\ reviews < MaxReviews /\ reviews' = reviews + 1
    /\ UNCHANGED <<receiptsSent, shownLedger, tab, client, sheet, review, strays,
                   reviewResult>>

\* A receipt removed is not found: no answer the page knows.
ServeReview ==
    /\ review # NoOne /\ review.answer = "waiting"
    /\ Standing(ledger, review.owner, review.number) # {}
    /\ IF Takes(review.owner, review.number, review.verdict)
       THEN /\ ledger' = Judged(review.owner, review.number, review.verdict)
            /\ review' = [review EXCEPT !.answer = "done"]
       ELSE /\ review' = [review EXCEPT !.answer = "alert"]
            /\ UNCHANGED ledger
    /\ UNCHANGED <<receiptsSent, shownLedger, tab, client, sheet, strays,
                   reviewResult, reviews>>

\* A verdict the page gave up on may get there all the same.
ServeStray ==
    /\ \E s \in strays :
          /\ strays' = strays \ {s}
          /\ ledger' = IF Takes(s.owner, s.number, s.verdict)
                       THEN Judged(s.owner, s.number, s.verdict) ELSE ledger
    /\ UNCHANGED <<receiptsSent, pageBooks>>

-----------------------------------------------------------------------------
(* The page *)

\* Under a dialog nothing else can be reached.
Free == sheet = NoOne /\ reviewResult = NoOne

\* The cards of a tab go with it, and what they had under way loses its place.
SelectTab(t) ==
    /\ Free /\ t # tab /\ tab' = t
    /\ review' = IF review = NoOne THEN NoOne ELSE [review EXCEPT !.mounted = FALSE]
    /\ UNCHANGED <<serverBooks, shownLedger, client, sheet, strays, reviewResult, reviews>>

\* So do those of the clients left out.
SelectClient(c) ==
    /\ Free /\ c # client
    /\ c # AllClients =>
          \E t \in {"pending", "history"} : c \in Groups(shownLedger, t)
    /\ client' = c
    /\ review' = IF review = NoOne THEN NoOne
                 ELSE [review EXCEPT !.mounted =
                         @ /\ c \in {AllClients, ClientOf(review.owner)}]
    /\ UNCHANGED <<serverBooks, shownLedger, tab, sheet, strays, reviewResult, reviews>>

\* A sheet waits for the verdict of its own kind that it sent.
Processing(owner, verdicts) ==
    /\ review # NoOne /\ review.mounted
    /\ review.owner = owner /\ review.verdict \in verdicts

OpenReceipt(owner) ==
    /\ Free /\ Reviewable(shownLedger, tab, owner)
    /\ sheet' = [owner |-> owner, kind |-> "receipt"]
    /\ UNCHANGED <<serverBooks, shownLedger, tab, client, review, strays,
                   reviewResult, reviews>>

OpenReport ==
    /\ sheet # NoOne /\ sheet.kind = "receipt" /\ reviewResult = NoOne
    /\ ~Processing(sheet.owner, {"approved"})
    /\ sheet' = [sheet EXCEPT !.kind = "report"]
    /\ UNCHANGED <<serverBooks, shownLedger, tab, client, review, strays,
                   reviewResult, reviews>>

\* Closing the report leads back to the receipt.
CloseSheet ==
    /\ sheet # NoOne /\ reviewResult = NoOne
    /\ sheet' = IF sheet.kind = "report" THEN [sheet EXCEPT !.kind = "receipt"] ELSE NoOne
    /\ UNCHANGED <<serverBooks, shownLedger, tab, client, review, strays,
                   reviewResult, reviews>>

\* A visit sent interrupts the one under way.
SendVerdict(verdict) ==
    /\ reviews < MaxReviews /\ reviews' = reviews + 1
    /\ strays' = IF review # NoOne /\ review.answer = "waiting"
                 THEN strays \cup {[owner |-> review.owner, number |-> review.number,
                                    verdict |-> review.verdict]}
                 ELSE strays
    /\ review' = [owner |-> sheet.owner, number |-> NumberUnderReview(shownLedger, sheet.owner),
                  verdict |-> verdict, answer |-> "waiting", mounted |-> TRUE]
    /\ UNCHANGED <<serverBooks, shownLedger, tab, client, sheet, reviewResult>>

\* Not while the page knows the month as running.
ConfirmPayment ==
    /\ sheet # NoOne /\ sheet.kind = "receipt" /\ reviewResult = NoOne
    /\ ~shownLedger.running /\ ~Processing(sheet.owner, {"approved"})
    /\ SendVerdict("approved")

ReportIssue(verdict) ==
    /\ verdict # "approved"
    /\ sheet # NoOne /\ sheet.kind = "report" /\ reviewResult = NoOne
    /\ ~Processing(sheet.owner, Verdicts \ {"approved"})
    /\ SendVerdict(verdict)

\* The sheet after a verdict: an approval closes that of its account whatever
\* was answered, a report only closes when it was done; and no sheet outlives
\* its button.
SheetAfter ==
    LET own == sheet # NoOne /\ review.mounted /\ sheet.owner = review.owner
        closed == IF review.verdict = "approved" THEN sheet.kind = "receipt"
                  ELSE sheet.kind = "report" /\ review.answer = "done"
    IN  IF sheet = NoOne \/ ~Reviewable(ledger, tab, sheet.owner) THEN NoOne
        ELSE IF own THEN IF closed THEN NoOne ELSE sheet
        ELSE sheet

ArrivalOf(told) ==
    /\ review # NoOne /\ review.answer \in {"done", "alert"}
    /\ shownLedger' = ledger
    /\ sheet' = SheetAfter
    /\ reviewResult' = IF told THEN review.verdict ELSE reviewResult
    /\ review' = NoOne
    /\ UNCHANGED <<serverBooks, tab, client, strays, reviews>>

\* A mutant of ReviewArrives: told by the card, which may be gone by then.
ReviewArrivesInItsCard ==
    ArrivalOf(review.answer = "done" /\ Reviewable(ledger, tab, review.owner))

\* A mutant of ReviewArrives: told without a look at the alert.
ReviewArrivesAnyway == ArrivalOf(TRUE)

\* The answer brings the books anew; what was done is told by the page.
ReviewArrives == ArrivalOf(review.answer = "done")

LoseReview ==
    /\ review # NoOne /\ review' = NoOne
    /\ strays' = IF review.answer = "waiting"
                 THEN strays \cup {[owner |-> review.owner, number |-> review.number,
                                    verdict |-> review.verdict]}
                 ELSE strays
    /\ UNCHANGED <<serverBooks, shownLedger, tab, client, sheet, reviewResult, reviews>>

CloseResult ==
    /\ reviewResult # NoOne /\ reviewResult' = NoOne
    /\ UNCHANGED <<serverBooks, shownLedger, tab, client, sheet, review, strays, reviews>>

\* The page is gone to again, as it opens.
VisitPage ==
    /\ review = NoOne
    /\ shownLedger' = ledger /\ tab' = "pending" /\ client' = AllClients
    /\ sheet' = NoOne /\ reviewResult' = NoOne
    /\ UNCHANGED <<serverBooks, review, strays, reviews>>

CollectionsNext ==
    \/ \E m \in Meals : Consume(m) \/ TakeBack(m)
    \/ MonthIsOver
    \/ \E owner \in Owners : \/ SendReceipt(owner) \/ RemoveReceipt(owner)
                             \/ \E v \in Verdicts : ReviewElsewhere(owner, v)
                             \/ OpenReceipt(owner)
    \/ ServeReview \/ ServeStray
    \/ \E t \in {"pending", "history"} : SelectTab(t)
    \/ \E c \in Clients \cup {AllClients} : SelectClient(c)
    \/ OpenReport \/ CloseSheet \/ ConfirmPayment
    \/ \E v \in Verdicts : ReportIssue(v)
    \/ ReviewArrives \/ LoseReview \/ CloseResult \/ VisitPage

CollectionsSpec == CollectionsInit /\ [][CollectionsNext]_collectionsVars

-----------------------------------------------------------------------------
(* Properties *)

Receipts == [number : 1..MaxReceiptsSent, status : Verdicts \cup {"submitted"}, expected : Nat]

\* Every variable keeps its type.
CollectionsTypeOK ==
    /\ \A b \in {ledger, shownLedger} :
          /\ b.consumed \subseteq Meals /\ b.running \in BOOLEAN
          /\ DOMAIN b.receipts = Owners
          /\ \A owner \in Owners :
                \A i \in DOMAIN b.receipts[owner] : b.receipts[owner][i] \in Receipts
    /\ receiptsSent \in 0..MaxReceiptsSent /\ reviews \in 0..MaxReviews
    /\ tab \in {"pending", "history"} /\ client \in Clients \cup {AllClients}
    /\ sheet # NoOne => sheet \in [owner : Owners, kind : {"receipt", "report"}]
    /\ review # NoOne =>
          review \in [owner : Owners, number : 1..MaxReceiptsSent, verdict : Verdicts,
                      answer : {"waiting", "done", "alert"}, mounted : BOOLEAN]
    /\ strays \subseteq [owner : Owners, number : 1..MaxReceiptsSent, verdict : Verdicts]
    /\ reviewResult # NoOne => reviewResult \in Verdicts

\* Nothing is owed and nothing is left to review in the history, whatever was
\* delivered after a receipt was sent and in whichever order receipts were judged.
HistoryOwesNothing ==
    \A c \in Groups(shownLedger, "history") : \A owner \in Rows(shownLedger, c) :
        /\ OutstandingOf(shownLedger, owner) = 0
        /\ ReceiptsWith(shownLedger, owner, "submitted") = {}

\* The debt at the head of the page is what the heads of the cards under it say.
OutstandingIsOfTheCards ==
    TotalOutstanding =
        SumFunction([c \in Groups(shownLedger, "pending") |->
                       EmployeesTotal(shownLedger, c) + CompanyTotal(shownLedger, c, "pending")])

\* A meal hangs from two accounts and is one in its card, the same meals the
\* detail of the sales lists for that client.
MealsCountedOnce ==
    shownLedger.running =>
        \A c \in Clients : GroupMeals(shownLedger, c) = Cardinality(SalesDetail(shownLedger, c))

\* The sales, summed over accounts, are those of the days, summed over orders.
SalesAreTheDetail ==
    Sales(shownLedger) = DayTotal(SalesDetail(shownLedger, AllClients))

\* Until a receipt is approved, an account says what was wrong with the last one
\* refused and lists it, while the next is under review too.
RefusedSaysWhy ==
    \A owner \in Owners :
        LET all == shownLedger.receipts[owner]
            refused == {i \in DOMAIN all : all[i].status \in {"partial", "rejected"}}
        IN  refused # {} /\ ReceiptsWith(shownLedger, owner, "approved") = {}
              => /\ Notice(shownLedger, owner) = all[Max(refused)].status
                 /\ all[Max(refused)] \in Range(History(shownLedger, owner))

\* Every verdict that was taken is told, its account gone from the tab or not.
ReviewIsTold ==
    [][review # NoOne /\ review' = NoOne /\ shownLedger' # shownLedger
         /\ review.answer = "done" => reviewResult' = review.verdict]_collectionsVars

\* What is told is so: the receipt has that verdict, or its owner removed it since.
TellsTheTruth ==
    [][reviewResult' # reviewResult /\ reviewResult' # NoOne
         => \A i \in Standing(ledger, review.owner, review.number) :
               ledger.receipts[review.owner][i].status = reviewResult']_collectionsVars

\* An approval only moves what a receipt was for from owed to paid, unless the
\* debt fell under it since it was sent.
ApprovalMovesTheAmount ==
    [][\A owner \in Owners : \A i \in ReceiptsWith(ledger, owner, "submitted") :
          LET receipt == ledger.receipts[owner][i]
          IN  Judged(owner, receipt.number, "approved") = ledger'
                /\ receipt.expected <= OutstandingOf(ledger, owner)
                => /\ Amount(ledger', owner) = Amount(ledger, owner)
                   /\ OutstandingOf(ledger', owner) =
                        OutstandingOf(ledger, owner) - receipt.expected]_collectionsVars

\* What a page of collections says about the same money agrees, card by card.
BooksAgree ==
    /\ HistoryOwesNothing
    /\ OutstandingIsOfTheCards
    /\ MealsCountedOnce
    /\ SalesAreTheDetail
    /\ RefusedSaysWhy

\* A verdict is told, what is told is so, and what it moves is what the receipt
\* was for.
ReviewedAsTold == ReviewIsTold /\ TellsTheTruth /\ ApprovalMovesTheAmount
=============================================================================
