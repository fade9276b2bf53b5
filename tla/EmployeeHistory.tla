--------------------------- MODULE EmployeeHistory ---------------------------
(***************************************************************************)
(* What human resources sees of an employee: the list of employees         *)
(* (pages/admin/consumers/index.tsx), the page of one of them              *)
(* (pages/admin/consumers/show.tsx) with its months                        *)
(* (components/admin/consumer-year-history.tsx) and the sheet of a month   *)
(* (components/admin/consumer-month-sheet.tsx), over what                  *)
(* AdminConsumerSummary says of the accounts.  The accounts go on moving   *)
(* while a page is open: it shows what it was loaded with.                 *)
(*                                                                         *)
(* One employee; each of its meals costs it 1.  The date stands still,     *)
(* after the tenth day of month ThisMonth, so the accounts of earlier      *)
(* months are overdue; a meal of ThisMonth may be of today, and is then    *)
(* still in the provider's hands to turn down.                             *)
(***************************************************************************)
EXTENDS Integers, FiniteSets, FiniteSetsExt

CONSTANTS
    Books,          \* accounts: pairs of a provider and a month
    ThisMonth,      \* months are numbered from 1
    MonthsInYear,
    BooksAtFirst,   \* what the accounts may hold at the start
    All,            \* providerId null: every provider
    NoMonth,        \* selectedKey null
    MaxMeals,       \* bound: meals of an account
    MaxTurns        \* bound: changes of the accounts

ASSUME HistoryAssumption ==
    /\ ThisMonth \in Nat \ {0} /\ MonthsInYear \in Nat \ {0}
    /\ IsFiniteSet(Books)
    /\ \A b \in Books : b = <<b[1], b[2]>> /\ b[1] # All /\ b[2] \in 1..ThisMonth
    /\ MaxMeals \in Nat /\ MaxTurns \in Nat

VARIABLES
    books,          \* the accounts
    given,          \* the accounts as the page was loaded with them
    hrPage,         \* "index" or "show"
    employeeTab,    \* filter of the index: "all" or "pending"
    year,           \* the year picked
    monthPicked,    \* selectedKey
    sheetOpen,
    payeePicked,    \* providerId of the sheet
    reminding,      \* the reminder sent from the page: "no", "sent" or "done"
    turns           \* changes of the accounts so far

historyVars == <<books, given, hrPage, employeeTab, year, monthPicked, sheetOpen,
                 payeePicked, reminding, turns>>

Payees == {b[1] : b \in Books}
YearOf(month) == (month - 1) \div MonthsInYear
Book == [opened : BOOLEAN, booked : 0..MaxMeals, eaten : 0..MaxMeals, amount : 0..MaxMeals,
         paid : 0..MaxMeals, asked : 0..MaxMeals,
         last : {"none", "submitted", "approved", "rejected"}]

ASSUME BooksAssumption == BooksAtFirst \subseteq [Books -> Book]

HistoryTypeOK ==
    /\ books \in [Books -> Book] /\ given \in [Books -> Book]
    /\ hrPage \in {"index", "show"} /\ employeeTab \in {"all", "pending"}
    /\ year \in 0..YearOf(ThisMonth)
    /\ monthPicked # NoMonth => monthPicked \in 1..ThisMonth
    /\ sheetOpen \in BOOLEAN
    /\ payeePicked # All => payeePicked \in Payees
    /\ reminding \in {"no", "sent", "done"}
    /\ turns \in 0..MaxTurns

-----------------------------------------------------------------------------
(* What the server says of the accounts *)

\* An account is opened by its first order, and stays whatever comes of it.
Exists(account) == account.opened

\* outstanding_amount: the approved receipts cover what was owed when sent.
Outstanding(account) == Max({account.amount - account.paid, 0})

\* collection_status
CollectionStatus(account) ==
    IF account.last = "none" \/ (account.last = "approved" /\ Outstanding(account) > 0)
    THEN "pending" ELSE account.last

\* A mutant of StatusOf: what is settled is looked at first.
StatusOfTheSettled(all, some) ==
    LET said == {CollectionStatus(all[b]) : b \in {c \in some : all[c].amount > 0}}
    IN  CASE said = {} -> "nothing"
          [] "approved" \in said -> "approved"
          [] "pending" \in said -> "pending"
          [] "rejected" \in said -> "rejected"
          [] OTHER -> "submitted"

\* status_of: of the accounts with an amount, the one that asks for most
\* attention; "nothing" stands for nil.
StatusOf(all, some) ==
    LET said == {CollectionStatus(all[b]) : b \in {c \in some : all[c].amount > 0}}
    IN  CASE said = {} -> "nothing"
          [] "pending" \in said -> "pending"
          [] "rejected" \in said -> "rejected"
          [] "submitted" \in said -> "submitted"
          [] OTHER -> "approved"

AmountOf(all, some) == SumFunction([b \in some |-> all[b].amount])

Started(all) == {b \in Books : Exists(all[b])}

\* debt_rows_for: what an employee owes, of any month, with this month's
\* accounts; who owes nothing is left with what the month adds up to.
EmployeeRow(all) ==
    LET owed == {b \in Started(all) : b[2] = ThisMonth \/ Outstanding(all[b]) > 0}
        debt == SumFunction([b \in owed |-> Outstanding(all[b])])
    IN  [amount |-> IF debt > 0 THEN debt ELSE AmountOf(all, owed),
         status |-> StatusOf(all, owed), debt |-> debt]

\* MonthRow
AccountsOf(all, month) == {b \in Started(all) : b[2] = month}

\* A mutant of MealsOn: orders that are yet to be delivered are listed too.
MealsOnAndAfter(account) == account.eaten + account.booked

\* orders.select(&:consumed?)
MealsOn(account) == account.eaten

\* EmployeeEligibility: the accounts worth a reminder.
Overdue(all) ==
    {b \in Started(all) : /\ b[2] < ThisMonth /\ all[b].amount > 0
                          /\ CollectionStatus(all[b]) \in {"pending", "rejected"}}

-----------------------------------------------------------------------------
(* What the pages show *)

\* inTab: the employee is in the tab unless it is settled and the tab is of
\* those who are not.
InTab(row, tab) == tab = "all" \/ row.status \notin {"nothing", "approved"}

\* years and visibleMonths.  The present year is listed in any case, the
\* others when they have an account.
Years == {YearOf(ThisMonth)} \cup {YearOf(b[2]) : b \in Started(given)}
VisibleMonths == {m \in 1..ThisMonth : YearOf(m) = year}
NeverOrdered == \A b \in Books : YearOf(b[2]) \in Years => given[b].eaten = 0

\* filterConsumerHistory with the filter the sheet sets, a provider: without
\* one, the figures of the accounts; with one, those of the orders.
Filtered(month, payee) ==
    LET accounts == AccountsOf(given, month)
        kept == {b \in accounts : b[1] = payee /\ MealsOn(given[b]) > 0}
    IN  IF payee = All
        THEN [payees |-> [b \in accounts |-> given[b].amount],
              total |-> AmountOf(given, accounts)]
        ELSE [payees |-> [b \in kept |-> MealsOn(given[b])],
              total |-> SumFunction([b \in kept |-> MealsOn(given[b])])]

\* What the open sheet lists for a choice of provider.
SheetOf(payee) == Filtered(monthPicked, payee)

\* The providers the sheet's menu offers.
PayeesOffered(month) == {b[1] : b \in AccountsOf(given, month)}

-----------------------------------------------------------------------------
(* The accounts, meanwhile *)

Turn(b, account) ==
    /\ turns < MaxTurns
    /\ turns' = turns + 1
    /\ books' = [books EXCEPT ![b] = account]
    /\ UNCHANGED <<given, hrPage, employeeTab, year, monthPicked, sheetOpen, payeePicked,
                   reminding>>

\* An order of this month is placed and accepted.
BookMeal(b) ==
    /\ b[2] = ThisMonth /\ books[b].booked + books[b].eaten < MaxMeals
    /\ Turn(b, [books[b] EXCEPT !.opened = TRUE, !.booked = @ + 1])

\* Its day comes: it counts, though the amount waits for the job.
MealIsDue(b) ==
    /\ books[b].booked > 0
    /\ Turn(b, [books[b] EXCEPT !.booked = @ - 1, !.eaten = @ + 1])

\* sync_amount!, by DeliveredOrdersSyncJob.
SyncAmount(b) ==
    /\ books[b].amount # books[b].eaten
    /\ Turn(b, [books[b] EXCEPT !.amount = books[b].eaten])

\* The provider turns down a meal of today; the amount follows at once.
TurnDown(b) ==
    /\ b[2] = ThisMonth /\ books[b].eaten > 0
    /\ Turn(b, [books[b] EXCEPT !.eaten = @ - 1, !.amount = books[b].eaten - 1])

\* The employee sends the receipt of what it owes.
Report(b) ==
    /\ Outstanding(books[b]) > 0 /\ books[b].last # "submitted"
    /\ Turn(b, [books[b] EXCEPT !.asked = Outstanding(books[b]), !.last = "submitted"])

\* The provider approves it or turns it down.
Review(b) ==
    /\ books[b].last = "submitted"
    /\ \/ Turn(b, [books[b] EXCEPT !.last = "approved", !.paid = @ + books[b].asked,
                                   !.asked = 0])
       \/ Turn(b, [books[b] EXCEPT !.last = "rejected", !.asked = 0])

-----------------------------------------------------------------------------
(* The pages *)

\* Admin::ConsumersController#index, from the navigation or, on the tab of
\* those who owe, from the dashboard.  Leaving the other page ends its state.
VisitIndex ==
    /\ reminding # "sent"
    /\ hrPage' = "index" /\ given' = books
    /\ employeeTab' \in {"all", "pending"}
    /\ year' = YearOf(ThisMonth)
    /\ monthPicked' = NoMonth /\ sheetOpen' = FALSE /\ payeePicked' = All
    /\ UNCHANGED <<books, reminding, turns>>

PickTab ==
    /\ hrPage = "index"
    /\ employeeTab' = IF employeeTab = "all" THEN "pending" ELSE "all"
    /\ UNCHANGED <<books, given, hrPage, year, monthPicked, sheetOpen, payeePicked,
                   reminding, turns>>

\* The row of the employee leads to its page.
VisitEmployee ==
    /\ hrPage = "index" /\ InTab(EmployeeRow(given), employeeTab)
    /\ hrPage' = "show" /\ given' = books
    /\ UNCHANGED <<books, employeeTab, year, monthPicked, sheetOpen, payeePicked, reminding,
                   turns>>

OnPage == hrPage = "show" /\ reminding # "sent"

\* The sheet is keyed by the month: it starts anew with another one, and the
\* filter with it.
PickYear(y) ==
    /\ OnPage /\ ~sheetOpen /\ ~NeverOrdered
    /\ y \in Years \ {year}
    /\ year' = y
    /\ monthPicked' = NoMonth /\ sheetOpen' = FALSE /\ payeePicked' = All
    /\ UNCHANGED <<books, given, hrPage, employeeTab, reminding, turns>>

\* A mutant of PayeeAfter: the sheet has no key.
PayeeKept(month) == payeePicked

PayeeAfter(month) == IF month = monthPicked THEN payeePicked ELSE All

OpenMonth(month) ==
    /\ OnPage /\ ~sheetOpen /\ ~NeverOrdered
    /\ month \in VisibleMonths
    /\ payeePicked' = PayeeAfter(month)
    /\ monthPicked' = month /\ sheetOpen' = TRUE
    /\ UNCHANGED <<books, given, hrPage, employeeTab, year, reminding, turns>>

PickPayee(payee) ==
    /\ OnPage /\ sheetOpen
    /\ payee \in PayeesOffered(monthPicked) \cup {All}
    /\ payeePicked' = payee
    /\ UNCHANGED <<books, given, hrPage, employeeTab, year, monthPicked, sheetOpen,
                   reminding, turns>>

CloseMonth ==
    /\ OnPage /\ sheetOpen
    /\ sheetOpen' = FALSE
    /\ UNCHANGED <<books, given, hrPage, employeeTab, year, monthPicked, payeePicked,
                   reminding, turns>>

\* handleSend; the dialog of the reminder does not close while it is sent.
\* One reminder: the next is three days away.
SendReminder ==
    /\ OnPage /\ ~sheetOpen /\ reminding = "no" /\ Overdue(given) # {}
    /\ reminding' = "sent"
    /\ UNCHANGED <<books, given, hrPage, employeeTab, year, monthPicked, sheetOpen,
                   payeePicked, turns>>

\* The answer brings the page up to date and keeps its state (preserveState);
\* the server refuses when nothing is overdue any more.
Reminded ==
    /\ reminding = "sent"
    /\ reminding' = IF Overdue(books) = {} THEN "no" ELSE "done"
    /\ given' = books
    /\ UNCHANGED <<books, hrPage, employeeTab, year, monthPicked, sheetOpen, payeePicked,
                   turns>>

HistoryInit ==
    /\ books \in BooksAtFirst /\ given = books
    /\ hrPage \in {"index", "show"} /\ employeeTab = "all"
    /\ year = YearOf(ThisMonth) /\ monthPicked = NoMonth
    /\ sheetOpen = FALSE /\ payeePicked = All
    /\ reminding = "no" /\ turns = 0

HistoryNext ==
    \/ \E b \in Books : \/ BookMeal(b) \/ MealIsDue(b) \/ SyncAmount(b)
                        \/ TurnDown(b) \/ Report(b) \/ Review(b)
    \/ VisitIndex \/ PickTab \/ VisitEmployee
    \/ \E y \in 0..YearOf(ThisMonth) : PickYear(y)
    \/ \E month \in 1..ThisMonth : OpenMonth(month)
    \/ \E payee \in Payees \cup {All} : PickPayee(payee)
    \/ CloseMonth \/ SendReminder \/ Reminded

HistorySpec == HistoryInit /\ [][HistoryNext]_historyVars

-----------------------------------------------------------------------------
(* Properties *)

\* Whoever owes something, of whatever month, is in the tab of those who owe.
WhoOwesIsPending ==
    hrPage = "index" =>
        LET row == EmployeeRow(given) IN row.debt > 0 => InTab(row, "pending")

\* The sheet of a month says the same of a provider whether it is filtered by
\* it, when it adds orders up, or not, when it shows the accounts; only an
\* account the job had not reached when the page was loaded tells them apart.
SameEitherWay ==
    sheetOpen =>
        \A b \in AccountsOf(given, monthPicked) : given[b].amount = given[b].eaten =>
            SheetOf(b[1]).total = SheetOf(All).payees[b]

\* The provider the sheet is filtered by is one its menu offers, so what it
\* leaves out is never the filter of another month.
FilterIsOfTheMonth ==
    sheetOpen => payeePicked \in PayeesOffered(monthPicked) \cup {All}

\* What an employee owes is one thing in the list, in the months and in the sheet
\* of a month, filtered or not.
OneDebt == WhoOwesIsPending /\ SameEitherWay /\ FilterIsOfTheMonth
=============================================================================
