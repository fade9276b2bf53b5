--------------------------- MODULE FetchedDetails ---------------------------
(***************************************************************************)
(* The screens that fetch what they show apart from the page they are in:  *)
(*                                                                         *)
(* "accounts"  what an employee owes: a sheet with the orders of an        *)
(*             account, or with those of this month, which came with the   *)
(*             page (pages/consumer/accounts/index.tsx)                    *)
(* "payments"  what a company owes: a dialog with the consumption of the   *)
(*             month of an account, or of the month of the page            *)
(*             (pages/admin/payments/index.tsx)                            *)
(* "usage"     the statistics of a month, and a summary of them written on *)
(*             request (pages/admin/benefit_usage/analysis.tsx)            *)
(* "dish"      the price of what is selected of a dish                     *)
(*             (pages/consumer/dashboard/dish-detail.tsx)                  *)
(*                                                                         *)
(* Answers come in any order, or not at all.  The first two take whatever  *)
(* comes; the other two heed only what they are still waiting for.         *)
(***************************************************************************)
EXTENDS Integers, FiniteSets

CONSTANTS
    Months,         \* the months a page can be of
    Providers,      \* numbers, in the order of their names
    Consumed,       \* the accounts: pairs of a provider and a month
    Selections,     \* what can be selected of a dish: quantity and benefits
    Nothing,        \* null
    MaxAsked        \* bound: requests in all

ASSUME DetailsAssumption ==
    /\ Providers \subseteq Nat /\ IsFiniteSet(Providers)
    /\ Consumed \subseteq Providers \X Months
    /\ \A m \in Months : \E p \in Providers : <<p, m>> \in Consumed
    /\ MaxAsked \in Nat
    /\ Nothing \notin Months \cup Consumed \cup Selections
    /\ Months \cap Consumed = {}
    /\ Nothing \notin Providers

VARIABLES
    view,       \* the screen of this behaviour
    month,      \* the month of the page
    going,      \* the month it is being taken to, or none
    shut,       \* whether its sheet or dialog is closed
    wanted,     \* what it was last asked to show
    providerId, \* the provider chosen in the dialog of a month
    detail,     \* what it shows
    loading,    \* its spinner
    error,      \* it says it could not
    timer,      \* the price is to be asked for
    summary,    \* the month of the summary shown, or that it was refused
    generating, \* a summary is being written
    asked,      \* the requests in flight
    count,      \* requests made
    alone       \* since it was asked to show this, nothing else was on its
                \* way and nothing failed (history)

fetchVars == <<view, month, going, shut, wanted, providerId, detail, loading, error,
               timer, summary, generating, asked, count, alone>>

Views == {"accounts", "payments", "usage", "dish"}

Subjects == Months \cup Consumed \cup Selections

Heeded(what) == {r \in asked : r.heeded /\ r.what = what}

\* One more request, of the number it makes: the card of a settled account asks
\* so for its detail, and all the others like it.
Asking(what, of, others) ==
    /\ count < MaxAsked
    /\ count' = count + 1
    /\ asked' = others \cup
                {[n |-> count + 1, what |-> what, of |-> of, heeded |-> TRUE]}

\* A request aborted, or whose effect was cleaned up: its answer is ignored.
Aborted(requests) == {[r EXCEPT !.heeded = FALSE] : r \in requests}

FetchTypeOK ==
    /\ view \in Views
    /\ month \in Months /\ going \in Months \cup {Nothing}
    /\ wanted \in Subjects \cup {Nothing}
    /\ detail \in Subjects \cup {Nothing}
    /\ providerId \in Providers \cup {Nothing}
    /\ shut \in BOOLEAN /\ loading \in BOOLEAN /\ error \in BOOLEAN
    /\ timer \in BOOLEAN /\ generating \in BOOLEAN /\ alone \in BOOLEAN
    /\ summary \in Months \cup {Nothing, "refused"}
    /\ asked \subseteq [n : 1..MaxAsked, what : {"detail", "summary"},
                        of : Subjects, heeded : BOOLEAN]
    /\ count \in 0..MaxAsked

-----------------------------------------------------------------------------
(* The sheets of accounts and of payments *)

\* The page brought this month's orders: its sheet shows them at once.
OpenMonth ==
    /\ view = "accounts" /\ shut
    /\ shut' = FALSE
    /\ wanted' = month /\ detail' = month
    /\ loading' = FALSE
    /\ alone' = (asked = {})
    /\ UNCHANGED <<view, month, going, providerId, error, timer, summary, generating,
                   asked, count>>

\* A mutant of OpenMonthDetail: what was open before is shown again.
OpenMonthUnset ==
    /\ view = "payments" /\ shut
    /\ shut' = FALSE
    /\ wanted' = month
    /\ providerId' = Nothing
    /\ alone' = (asked = {})
    /\ UNCHANGED <<view, month, going, detail, loading, error, timer, summary,
                   generating, asked, count>>

\* No provider chosen: the dialog opens on the first one of the month.  The
\* spinner of an account still on its way is left on.
OpenMonthDetail ==
    /\ view = "payments" /\ shut
    /\ shut' = FALSE
    /\ wanted' = month /\ detail' = month
    /\ providerId' = Nothing
    /\ alone' = (asked = {})
    /\ UNCHANGED <<view, month, going, loading, error, timer, summary, generating,
                   asked, count>>

\* An account of the list, owed or settled: its card asks for its orders.
HandleClick(account) ==
    /\ view = "accounts" /\ shut
    /\ shut' = FALSE
    /\ wanted' = account
    /\ loading' = TRUE
    /\ Asking("detail", account, asked)
    /\ alone' = (asked = {})
    /\ UNCHANGED <<view, month, going, providerId, detail, error, timer, summary,
                   generating>>

OpenAccount(account) ==
    /\ view = "payments" /\ shut
    /\ shut' = FALSE
    /\ wanted' = account /\ providerId' = account[1]
    /\ loading' = TRUE
    /\ Asking("detail", account, asked)
    /\ alone' = (asked = {})
    /\ UNCHANGED <<view, month, going, detail, error, timer, summary, generating>>

\* What the answer is of: the payments of a company come by whole months.
AnswerTo(request) ==
    IF view = "payments" THEN request.of[2] ELSE request.of

SheetArrives(r) ==
    /\ view \in {"accounts", "payments"}
    /\ r \in asked
    /\ asked' = asked \ {r}
    /\ detail' = AnswerTo(r)
    /\ loading' = FALSE
    /\ UNCHANGED <<view, month, going, shut, wanted, providerId, error, timer, summary,
                   generating, count, alone>>

\* A mutant of SheetFails: the spinner is put out only by an answer.
SheetHangs(r) ==
    /\ view \in {"accounts", "payments"}
    /\ r \in asked
    /\ asked' = asked \ {r}
    /\ alone' = FALSE
    /\ UNCHANGED <<view, month, going, shut, wanted, providerId, detail, loading, error,
                   timer, summary, generating, count>>

\* Nothing says it failed: what was shown before is shown again.
SheetFails(r) ==
    /\ view \in {"accounts", "payments"}
    /\ r \in asked
    /\ asked' = asked \ {r}
    /\ loading' = FALSE
    /\ alone' = FALSE
    /\ UNCHANGED <<view, month, going, shut, wanted, providerId, detail, error, timer,
                   summary, generating, count>>

\* The dialog of payments changes of provider within what it shows.
ChangeProvider(p) ==
    /\ view = "payments" /\ ~shut /\ ~loading
    /\ <<p, detail>> \in Consumed
    /\ providerId' = p
    /\ UNCHANGED <<view, month, going, shut, wanted, detail, loading, error, timer,
                   summary, generating, asked, count, alone>>

CloseDetail ==
    /\ view \in {"accounts", "payments"} /\ ~shut
    /\ shut' = TRUE
    /\ UNCHANGED <<view, month, going, wanted, providerId, detail, loading, error,
                   timer, summary, generating, asked, count, alone>>

\* The provider the dialog shows: the one chosen if the month shown has it.
ShownProvider ==
    LET had == {p \in Providers : <<p, detail>> \in Consumed}
    IN IF providerId \in had THEN providerId
       ELSE CHOOSE p \in had : \A q \in had : p =< q

SheetNext ==
    \/ OpenMonth \/ OpenMonthDetail \/ CloseDetail
    \/ \E account \in Consumed : HandleClick(account) \/ OpenAccount(account)
    \/ \E r \in asked : SheetArrives(r) \/ SheetFails(r)
    \/ \E p \in Providers : ChangeProvider(p)

-----------------------------------------------------------------------------
(* The statistics of a month *)

\* The effect asks, for the month and for every attempt.
Retry ==
    /\ view = "usage" /\ error
    /\ error' = FALSE
    /\ detail' = Nothing
    /\ Asking("detail", month, Aborted(asked))
    /\ alone' = TRUE
    /\ UNCHANGED <<view, month, going, shut, wanted, providerId, loading, timer,
                   summary, generating>>

StatsArrive(r) ==
    /\ view = "usage"
    /\ r \in asked /\ r.what = "detail"
    /\ asked' = asked \ {r}
    /\ detail' = IF r.heeded THEN r.of ELSE detail
    /\ UNCHANGED <<view, month, going, shut, wanted, providerId, loading, error, timer,
                   summary, generating, count, alone>>

StatsFail(r) ==
    /\ view = "usage"
    /\ r \in asked /\ r.what = "detail"
    /\ asked' = asked \ {r}
    /\ error' = (error \/ r.heeded)
    /\ alone' = (alone /\ ~r.heeded)
    /\ UNCHANGED <<view, month, going, shut, wanted, providerId, detail, loading, timer,
                   summary, generating, count>>

\* A mutant of Generate: asked for again while one is being written.
GenerateTwice ==
    /\ view = "usage"
    /\ detail # Nothing /\ going = Nothing
    /\ generating' = TRUE
    /\ summary' = Nothing
    /\ Asking("summary", month, asked)
    /\ UNCHANGED <<view, month, going, shut, wanted, providerId, detail, loading, error,
                   timer, alone>>

\* The button, and what it calls: one at a time, and only with statistics.
Generate ==
    /\ view = "usage"
    /\ detail # Nothing /\ ~generating /\ going = Nothing
    /\ Heeded("summary") = {}
    /\ generating' = TRUE
    /\ summary' = Nothing
    /\ Asking("summary", month, asked)
    /\ UNCHANGED <<view, month, going, shut, wanted, providerId, detail, loading, error,
                   timer, alone>>

\* Written, or refused: too many, not configured, not available.
SummaryArrives(r) ==
    /\ view = "usage"
    /\ r \in asked /\ r.what = "summary"
    /\ asked' = asked \ {r}
    /\ IF r.heeded
       THEN /\ summary' \in {r.of, "refused"}
            /\ generating' = FALSE
       ELSE UNCHANGED <<summary, generating>>
    /\ UNCHANGED <<view, month, going, shut, wanted, providerId, detail, loading, error,
                   timer, count, alone>>

\* A mutant of CancelSummary: what is being written is not aborted.
CancelNothing ==
    asked' = asked

CancelSummary ==
    asked' = Aborted(Heeded("summary")) \cup (asked \ Heeded("summary"))

\* Another month is visited.  The page of payments keeps its state.
SelectMonth(m) ==
    /\ view \in {"payments", "usage"} /\ m # month
    /\ view = "payments" => shut
    /\ going' = m
    /\ IF view = "usage"
       THEN /\ CancelSummary
            /\ summary' = Nothing /\ generating' = FALSE
       ELSE UNCHANGED <<asked, summary, generating>>
    /\ UNCHANGED <<view, month, shut, wanted, providerId, detail, loading, error, timer,
                   count, alone>>

\* A mutant of MonthArrives: the statistics are kept from month to month.
MonthKeepsStats ==
    /\ going # Nothing
    /\ month' = going /\ going' = Nothing
    /\ IF view = "usage"
       THEN /\ wanted' = going
            /\ error' = FALSE /\ summary' = Nothing /\ generating' = FALSE
            /\ Asking("detail", going, Aborted(asked))
            /\ alone' = TRUE
       ELSE UNCHANGED <<wanted, error, summary, generating, asked, count, alone>>
    /\ UNCHANGED <<view, shut, providerId, detail, loading, timer>>

\* The page of a month is another one, with a key: it starts over.
MonthArrives ==
    /\ going # Nothing
    /\ month' = going /\ going' = Nothing
    /\ IF view = "usage"
       THEN /\ wanted' = going /\ detail' = Nothing
            /\ error' = FALSE /\ summary' = Nothing /\ generating' = FALSE
            /\ Asking("detail", going, Aborted(asked))
            /\ alone' = TRUE
       ELSE UNCHANGED <<wanted, detail, error, summary, generating, asked, count, alone>>
    /\ UNCHANGED <<view, shut, providerId, loading, timer>>

\* The visit ends without a page.
MonthFails ==
    /\ going # Nothing
    /\ going' = Nothing
    /\ UNCHANGED <<view, month, shut, wanted, providerId, detail, loading, error, timer,
                   summary, generating, asked, count, alone>>

UsageNext ==
    \/ Retry \/ Generate \/ MonthArrives \/ MonthFails
    \/ \E m \in Months : SelectMonth(m)
    \/ \E r \in asked : StatsArrive(r) \/ StatsFail(r) \/ SummaryArrives(r)

-----------------------------------------------------------------------------
(* The price of a dish *)

\* Every change starts the wait over, and cancels what was asked.
ChangeSelection(s) ==
    /\ view = "dish" /\ s # wanted
    /\ wanted' = s
    /\ timer' = TRUE
    /\ asked' = Aborted(asked)
    /\ alone' = TRUE
    /\ UNCHANGED <<view, month, going, shut, providerId, detail, loading, error,
                   summary, generating, count>>

AskPrice ==
    /\ view = "dish" /\ timer
    /\ timer' = FALSE
    /\ Asking("detail", wanted, asked)
    /\ UNCHANGED <<view, month, going, shut, wanted, providerId, detail, loading, error,
                   summary, generating, alone>>

\* A mutant of PriceArrives: the answer to another selection is taken.
PriceTaken(r) ==
    /\ view = "dish" /\ r \in asked
    /\ asked' = asked \ {r}
    /\ detail' = r.of
    /\ UNCHANGED <<view, month, going, shut, wanted, providerId, loading, error, timer,
                   summary, generating, count, alone>>

PriceArrives(r) ==
    /\ view = "dish" /\ r \in asked
    /\ asked' = asked \ {r}
    /\ detail' = IF r.heeded THEN r.of ELSE detail
    /\ UNCHANGED <<view, month, going, shut, wanted, providerId, loading, error, timer,
                   summary, generating, count, alone>>

\* Nothing is done: the price shown is that of a selection before.
PriceFails(r) ==
    /\ view = "dish" /\ r \in asked
    /\ asked' = asked \ {r}
    /\ alone' = (alone /\ ~r.heeded)
    /\ UNCHANGED <<view, month, going, shut, wanted, providerId, detail, loading, error,
                   timer, summary, generating, count>>

DishNext ==
    \/ AskPrice
    \/ \E s \in Selections : ChangeSelection(s)
    \/ \E r \in asked : PriceArrives(r) \/ PriceFails(r)

-----------------------------------------------------------------------------
FetchInit ==
    /\ view \in Views
    /\ month \in Months
    /\ going = Nothing
    /\ shut = TRUE
    /\ wanted \in CASE view = "usage" -> {month}
                    [] view = "dish" -> Selections
                    [] OTHER -> {Nothing}
    /\ providerId = Nothing /\ detail = Nothing
    /\ loading = FALSE /\ error = FALSE
    /\ timer = (view = "dish")
    /\ summary = Nothing /\ generating = FALSE
    /\ asked = IF view = "usage"
               THEN {[n |-> 1, what |-> "detail", of |-> month, heeded |-> TRUE]}
               ELSE {}
    /\ count = IF view = "usage" THEN 1 ELSE 0
    /\ alone = TRUE

FetchNext == SheetNext \/ UsageNext \/ DishNext

FetchSpec == FetchInit /\ [][FetchNext]_fetchVars

\* Every request is answered or fails, and so does every visit; the timer of
\* the browser runs.
FetchFairness ==
    /\ WF_fetchVars(\E r \in asked : SheetArrives(r) \/ SheetFails(r))
    /\ WF_fetchVars(\E r \in asked : StatsArrive(r) \/ StatsFail(r))
    /\ WF_fetchVars(\E r \in asked : SummaryArrives(r))
    /\ WF_fetchVars(MonthArrives \/ MonthFails)

-----------------------------------------------------------------------------
(* Properties *)

\* Whether the screen says it has what it was asked for.
Quiet ==
    CASE view \in {"accounts", "payments"} -> ~shut /\ ~loading
      [] view = "usage" -> detail # Nothing
      [] view = "dish" -> ~timer /\ Heeded("detail") = {}

\* What it has to show to be what it was asked for.
AsWanted ==
    IF view = "payments" /\ wanted \in Consumed
    THEN /\ detail = wanted[2]
         /\ providerId = wanted[1] => ShownProvider = wanted[1]
    ELSE detail = wanted

\* A screen shows something else than what it was asked for only if answers
\* raced or one failed: no sequence of openings, closings and changes of month
\* does it by itself.
StaleOnlyAfterARaceOrAFailure == Quiet /\ alone => AsWanted

\* The statistics and the summary are of the month of the page, whatever was
\* asked before, in whatever order it came (use-benefit-usage.ts).
FiguresAreOfTheMonth ==
    view = "usage" => /\ detail \in {Nothing, month}
                      /\ summary \in {Nothing, "refused", month}

\* A summary is said to be in the making exactly while one answer is awaited,
\* though months change and visits fail meanwhile (cancelSummary).
SummaryInTheMaking ==
    /\ Cardinality(Heeded("summary")) =< 1
    /\ generating <=> Heeded("summary") # {}

\* The price of a dish only changes to that of what is selected: an answer that
\* comes late is not taken (dish-detail.tsx, cancelled).
PriceIsOfTheSelection ==
    [][view = "dish" /\ detail' # detail => detail' = wanted]_fetchVars

\* A dialog of payments without anything to show yet spins as well.
Spinning ==
    /\ view \in {"accounts", "payments"} /\ ~shut
    /\ loading \/ (view = "payments" /\ detail = Nothing)

\* Nobody is left looking at a spinner: a sheet, a month or a summary that is on
\* its way comes, or the screen says or does something else.  Only a dialog of
\* payments whose first request raced or failed goes on spinning, until it is
\* closed: it does not say that it failed.
SpinnersEnd ==
    /\ loading ~> ~loading
    /\ (Spinning /\ alone) ~> ~(Spinning /\ alone)
    /\ (view = "usage" /\ detail = Nothing /\ ~error) ~> (detail # Nothing \/ error)
    /\ generating ~> ~generating

\* Every screen shows what it was last asked for, or that it is on its way, but
\* for the sheets that take whatever comes, once answers raced or one failed.
ShowsWhatWasAsked ==
    /\ [](StaleOnlyAfterARaceOrAFailure /\ FiguresAreOfTheMonth /\ SummaryInTheMaking)
    /\ PriceIsOfTheSelection
=============================================================================
