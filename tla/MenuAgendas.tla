----------------------------- MODULE MenuAgendas -----------------------------
(***************************************************************************)
(* On which days a dish is offered: the agenda of the form of a dish       *)
(* (components/menus/menu-agenda-fields.tsx), new or edited, and the sheet *)
(* that asks, when a dish that is already scheduled changes, which days it *)
(* changes on and what to do with the orders accepted on them              *)
(* (components/menus/edit-menu-sheet.tsx).                                 *)
(*                                                                         *)
(* What the form takes, the days the sheet counts and the day the page     *)
(* goes to afterwards are worked out in the browser, from the days the     *)
(* page was loaded with; the server works them out again, on its own, when *)
(* the request arrives (Menus::Create, Menus::Update).                     *)
(*                                                                         *)
(* Days are working days, numbered; a week has Week of them.               *)
(***************************************************************************)
EXTENDS Integers, FiniteSets

CONSTANTS
    Week,           \* working days of a week
    LastDay,        \* bound: the last day that can be picked
    ClosedDays,     \* days the provider does not open
    DaysAtFirst,    \* days the dish edited may be scheduled on
    NotSent,        \* null
    MaxEdits,       \* bound: changes to the agenda of the form
    MaxSends        \* bound: requests sent

ASSUME AgendaAssumption ==
    /\ Week \in Nat \ {0} /\ LastDay \in Nat \ {0}
    /\ ClosedDays \subseteq 1..LastDay /\ DaysAtFirst \subseteq 1..LastDay
    /\ MaxEdits \in Nat /\ MaxSends \in Nat

VARIABLES
    editing,        \* the page: the dish is edited, or new
    today,          \* the day it is
    openedOn,       \* the day it was when the page was loaded
    agenda,         \* what the form says
    edits,          \* changes made to it
    scheduled,      \* the days the dish is scheduled on
    accepted,       \* those with orders the provider confirmed
    daysShown,      \* both, as the page was loaded
    sheet,          \* the sheet: open, scope, orders to reject, its step
    saved,          \* it says the dish was saved
    sent,           \* the request in flight
    landing,        \* the day the page offers to go to, after a dish is added
    sends           \* requests sent

agendaVars == <<editing, today, openedOn, agenda, edits, scheduled, accepted,
                daysShown, sheet, saved, sent, landing, sends>>

menuFormVars == <<editing, openedOn, agenda, edits, daysShown, sheet, saved, landing, sends>>

Days == 1..LastDay

Weekdays == 1..Week

\* The dates of a form may be empty: "".
Empty == 0

Drafts == [mode : {"single", "weekly", "range"}, weekdays : SUBSET Weekdays,
           date : Days \cup {Empty}, starts : Days \cup {Empty}, ends : Days \cup {Empty}]

AnyDraft == [mode : {"single", "weekly", "range"}, weekdays : SUBSET Weekdays,
             date : Nat, starts : Nat, ends : Nat]

SaveRecords == [agenda : AnyDraft, scope : {"day", "saved"}, reject : BOOLEAN,
                asked : BOOLEAN, seen : SUBSET Nat, answer : {"waiting", "done", "refused"},
                lands : Nat]

ASSUME NotSentAssumption == NotSent \notin SaveRecords

ClosedSheet == [open |-> FALSE, scope |-> "day", reject |-> FALSE, step |-> FALSE]

AgendaTypeOK ==
    /\ editing \in BOOLEAN /\ saved \in BOOLEAN
    /\ today \in Days /\ openedOn \in Days
    /\ agenda \in Drafts
    /\ scheduled \subseteq Days /\ accepted \subseteq scheduled
    /\ daysShown \in [scheduled : SUBSET Days, accepted : SUBSET Days]
    /\ sheet \in [open : BOOLEAN, scope : {"day", "saved"}, reject : BOOLEAN, step : BOOLEAN]
    /\ sent # NotSent =>
         /\ sent.answer \in {"waiting", "done", "refused"}
         /\ sent.seen \subseteq Days /\ sent.lands \in 0..LastDay + Week
         /\ sent.asked \in BOOLEAN /\ sent.reject \in BOOLEAN
    /\ landing \in 0..LastDay + Week
    /\ edits \in 0..MaxEdits /\ sends \in 0..MaxSends

-----------------------------------------------------------------------------
(* The calendar *)

Cwday(d) == ((d - 1) % Week) + 1

\* Calendar#maximum_publish_date: the end of next week.
MaximumPublishDate(day) == ((day - 1) \div Week + 2) * Week

\* A dish was scheduled no further than it can be published.
ASSUME ScheduledAssumption == DaysAtFirst \subseteq 1..MaximumPublishDate(1)

NextDateFor(weekday, from) == CHOOSE d \in from..(from + Week - 1) : Cwday(d) = weekday

Earliest(days) == CHOOSE d \in days : \A e \in days : d =< e

Later(a, b) == IF a > b THEN a ELSE b

-----------------------------------------------------------------------------
(* The agenda of the form *)

\* A mutant of AgendaProblem: the end of a range is not asked for.
ProblemOpenEnded(draft) ==
    IF draft.weekdays = {}
    THEN IF draft.mode = "single" THEN "none" ELSE "weekdays_required"
    ELSE IF CASE draft.mode = "single" -> draft.date # Empty
              [] draft.mode \in {"weekly", "range"} -> draft.starts # Empty
         THEN "none" ELSE "incomplete"

\* A dish on no day is saved without publishing it; to repeat it, days are
\* required.
AgendaProblem(draft) ==
    IF draft.weekdays = {}
    THEN IF draft.mode = "single" THEN "none" ELSE "weekdays_required"
    ELSE IF CASE draft.mode = "single" -> draft.date # Empty
              [] draft.mode = "weekly" -> draft.starts # Empty
              [] draft.mode = "range" -> draft.starts # Empty /\ draft.ends >= draft.starts
         THEN "none" ELSE "incomplete"

\* AgendaPayload: without days there is no agenda.
ModeOf(draft) == IF draft.weekdays = {} THEN "none" ELSE draft.mode

\* A mutant of FirstPublishedDate: a repeated dish is published from today.
FirstFromToday(draft, day) ==
    IF draft.weekdays = {} THEN Empty
    ELSE IF draft.mode = "single" THEN draft.date
    ELSE Earliest({d \in day..(day + Week - 1) : Cwday(d) \in draft.weekdays})

\* The first day of the agenda.  It does not look at the end of a range.
FirstPublishedDate(draft, day) ==
    LET from == Later(draft.starts, day)
    IN
    IF draft.weekdays = {} THEN Empty
    ELSE IF draft.mode = "single" THEN draft.date
    ELSE Earliest({d \in from..(from + Week - 1) : Cwday(d) \in draft.weekdays})

\* A page has a draft of what the server says: none, a day, or a repetition.
InitialAgenda(mode, weekdays, date, starts, ends) ==
    [mode |-> IF mode = "none" THEN "single" ELSE mode, weekdays |-> weekdays,
     date |-> date, starts |-> starts, ends |-> ends]

\* The form can be reached: no sheet over it, no news of a dish added.
FieldsFree == ~sheet.open /\ landing = Empty

Edits(draft) ==
    /\ FieldsFree /\ edits < MaxEdits
    /\ edits' = edits + 1
    /\ agenda' = draft
    /\ UNCHANGED <<editing, today, openedOn, scheduled, accepted, daysShown, sheet, saved,
                   sent, landing, sends>>

\* A weekday is pressed.  A dish that does not repeat has one, and its next date.
ChangeWeekdays(weekday) ==
    Edits(IF agenda.mode # "single"
          THEN [agenda EXCEPT !.weekdays = IF weekday \in @ THEN @ \ {weekday}
                                           ELSE @ \cup {weekday}]
          ELSE IF weekday \in agenda.weekdays
          THEN [agenda EXCEPT !.weekdays = {}, !.date = Empty]
          ELSE [agenda EXCEPT !.weekdays = {weekday},
                              !.date = NextDateFor(weekday, openedOn)])

\* A mutant of ChangeMode: the date is left as it was.
ChangeModeOnly(mode) ==
    /\ mode # agenda.mode
    /\ Edits(IF mode # "single"
             THEN [agenda EXCEPT !.mode = mode,
                                 !.starts = IF @ # Empty THEN @ ELSE openedOn]
             ELSE IF agenda.weekdays = {}
             THEN [agenda EXCEPT !.mode = mode]
             ELSE [agenda EXCEPT !.mode = mode, !.weekdays = {Earliest(agenda.weekdays)}])

ChangeMode(mode) ==
    /\ mode # agenda.mode
    /\ Edits(IF mode # "single"
             THEN [agenda EXCEPT !.mode = mode,
                                 !.starts = IF @ # Empty THEN @ ELSE openedOn]
             ELSE IF agenda.weekdays = {}
             THEN [agenda EXCEPT !.mode = mode, !.date = Empty]
             ELSE LET weekday == Earliest(agenda.weekdays)
                  IN [agenda EXCEPT !.mode = mode, !.weekdays = {weekday},
                                    !.date = NextDateFor(weekday, openedOn)])

\* A date is picked; the one picked already is taken away.
Picked(old, date) == IF date = old THEN Empty ELSE date

ChangeDate(date) ==
    LET new == Picked(agenda.date, date)
    IN
    /\ agenda.mode = "single" /\ agenda.weekdays # {}
    /\ date \in openedOn..MaximumPublishDate(openedOn)
    /\ Edits([agenda EXCEPT !.date = new,
                            !.weekdays = IF new = Empty THEN {} ELSE {Cwday(new)}])

ChangeStarts(date) ==
    /\ agenda.mode # "single" /\ agenda.weekdays # {}
    /\ date >= openedOn
    /\ (agenda.mode = "range" /\ agenda.ends # Empty) => date =< agenda.ends
    /\ Edits([agenda EXCEPT !.starts = Picked(@, date)])

ChangeEnds(date) ==
    /\ agenda.mode = "range" /\ agenda.weekdays # {}
    /\ date >= IF agenda.starts # Empty THEN agenda.starts ELSE openedOn
    /\ Edits([agenda EXCEPT !.ends = Picked(@, date)])

ChangeAgenda ==
    \/ \E weekday \in Weekdays : ChangeWeekdays(weekday)
    \/ \E mode \in {"single", "weekly", "range"} : ChangeMode(mode)
    \/ \E date \in Days : ChangeDate(date) \/ ChangeStarts(date) \/ ChangeEnds(date)

-----------------------------------------------------------------------------
(* Saving: a new dish at once, an old one after the sheet *)

Sends(request) ==
    /\ sends < MaxSends
    /\ sends' = sends + 1
    /\ sent' = request

\* The button is disabled while a request is in flight.
Submit ==
    /\ FieldsFree /\ sent = NotSent
    /\ AgendaProblem(agenda) = "none"
    /\ IF editing
       THEN /\ saved' = FALSE
            /\ sheet' = [sheet EXCEPT !.open = TRUE]
            /\ UNCHANGED <<sent, sends>>
       ELSE /\ Sends([agenda |-> agenda, scope |-> "day", reject |-> FALSE,
                      asked |-> FALSE, seen |-> {}, answer |-> "waiting",
                      lands |-> FirstPublishedDate(agenda, openedOn)])
            /\ UNCHANGED <<sheet, saved>>
    /\ UNCHANGED <<editing, today, openedOn, agenda, edits, scheduled, accepted, daysShown,
                   landing>>

\* A mutant of AffectedDays: a range has no end.
AffectedOpenEnded(draft, scope, days, day) ==
    CASE ModeOf(draft) = "single" /\ scope = "day" -> {d \in days : d = draft.date}
      [] ModeOf(draft) = "single" /\ scope = "saved" -> {d \in days : d >= draft.date}
      [] ModeOf(draft) \in {"weekly", "range"} -> {d \in days : d >= draft.starts}
      [] ModeOf(draft) = "none" -> days

\* The days of the sheet: those the change reaches, of the days it knows.
AffectedDays(draft, scope, days, day) ==
    CASE ModeOf(draft) = "single" /\ scope = "day" -> {d \in days : d = draft.date}
      [] ModeOf(draft) = "single" /\ scope = "saved" -> {d \in days : d >= draft.date}
      [] ModeOf(draft) = "weekly" -> {d \in days : d >= draft.starts}
      [] ModeOf(draft) = "range" -> {d \in days : d >= draft.starts /\ d =< draft.ends}
      [] ModeOf(draft) = "none" -> days

Affected == AffectedDays(agenda, sheet.scope, daysShown.scheduled, openedOn)

SomeConfirmed == Affected \cap daysShown.accepted # {}

Stage ==
    IF saved THEN "saved"
    ELSE IF ModeOf(agenda) # "single" THEN "period"
    ELSE IF sheet.step THEN "orders" ELSE "scope"

\* The sheet asks about the orders accepted.
AsksAboutOrders == Stage = "orders" \/ (Stage = "period" /\ SomeConfirmed)

\* The two questions, and the step between them.
AnswerQuestions ==
    /\ sheet.open
    /\ \/ \E scope \in {"day", "saved"} :
            Stage = "scope" /\ sheet' = [sheet EXCEPT !.scope = scope]
       \/ \E reject \in BOOLEAN :
            AsksAboutOrders /\ sheet' = [sheet EXCEPT !.reject = reject]
       \/ /\ Stage = "scope" /\ SomeConfirmed
          /\ sheet' = [sheet EXCEPT !.step = TRUE]
       \/ /\ Stage = "orders" /\ sent = NotSent
          /\ sheet' = [sheet EXCEPT !.step = FALSE]
    /\ UNCHANGED <<editing, today, openedOn, agenda, edits, scheduled, accepted, daysShown,
                   saved, sent, landing, sends>>

\* Back, or Escape, the request in flight or not.
CloseSheet ==
    /\ sheet.open
    /\ sheet' = ClosedSheet
    /\ UNCHANGED <<editing, today, openedOn, agenda, edits, scheduled, accepted, daysShown,
                   saved, sent, landing, sends>>

\* A mutant of Apply: the first step can be applied as well.
ApplyAtOnce ==
    /\ sheet.open /\ sent = NotSent /\ Stage # "saved"
    /\ Sends([agenda |-> agenda, scope |-> sheet.scope,
              reject |-> SomeConfirmed /\ sheet.reject,
              asked |-> AsksAboutOrders, seen |-> Affected, answer |-> "waiting",
              lands |-> Empty])
    /\ UNCHANGED <<editing, today, openedOn, agenda, edits, scheduled, accepted, daysShown,
                   sheet, saved, landing>>

\* Applied once everything was asked; with no order accepted they are kept.
Apply ==
    /\ sheet.open /\ sent = NotSent /\ Stage # "saved"
    /\ ~(Stage = "scope" /\ SomeConfirmed)
    /\ Sends([agenda |-> agenda, scope |-> sheet.scope,
              reject |-> SomeConfirmed /\ sheet.reject,
              asked |-> AsksAboutOrders, seen |-> Affected, answer |-> "waiting",
              lands |-> Empty])
    /\ UNCHANGED <<editing, today, openedOn, agenda, edits, scheduled, accepted, daysShown,
                   sheet, saved, landing>>

Reloaded ==
    /\ daysShown' = [scheduled |-> {d \in scheduled : d >= today},
                     accepted |-> {d \in accepted : d >= today}]
    /\ openedOn' = today

\* The page comes again; an error closes the sheet without its resetting.
SaveDone ==
    /\ sent # NotSent /\ sent.answer # "waiting"
    /\ sent' = NotSent
    /\ Reloaded
    /\ IF editing
       THEN /\ saved' = IF sent.answer = "done" THEN TRUE ELSE saved
            /\ sheet' = IF sent.answer = "done" THEN sheet
                        ELSE [sheet EXCEPT !.open = FALSE]
            /\ UNCHANGED landing
       ELSE /\ landing' = IF sent.answer = "done" THEN sent.lands ELSE landing
            /\ UNCHANGED <<sheet, saved>>
    /\ UNCHANGED <<editing, today, agenda, edits, scheduled, accepted, sends>>

\* A mutant of SaveLost: the button waits for an answer.
SaveUnnoticed ==
    /\ sent # NotSent /\ sent.answer # "waiting"
    /\ sent' = NotSent
    /\ UNCHANGED <<today, scheduled, accepted, menuFormVars>>

SaveLost ==
    /\ sent # NotSent
    /\ sent' = NotSent
    /\ UNCHANGED <<today, scheduled, accepted, menuFormVars>>

\* Another dish: the form starts over, with the day it was opened for.
AddAnother ==
    /\ ~editing /\ landing # Empty
    /\ landing' = Empty
    /\ agenda' = InitialAgenda("single", {Cwday(today)}, today, Empty, Empty)
    /\ openedOn' = today
    /\ scheduled' = {} /\ accepted' = {}
    /\ UNCHANGED <<editing, today, edits, daysShown, sheet, saved, sent, sends>>

-----------------------------------------------------------------------------
(* The server *)

ValidAgenda(draft) ==
    CASE ModeOf(draft) = "none" -> TRUE
      [] ModeOf(draft) = "single" ->
           /\ draft.date >= today /\ draft.date =< MaximumPublishDate(today)
           /\ draft.date \notin ClosedDays \/ (editing /\ draft.date \in scheduled)
      [] OTHER ->
           /\ draft.starts >= today
           /\ draft.mode = "range" => draft.ends >= draft.starts

\* MenuAgenda#dates_until, without the days closed.
DatesUntil(draft) ==
    {d \in Days \ ClosedDays :
        /\ d >= Later(draft.starts, today) /\ d =< MaximumPublishDate(today)
        /\ draft.mode = "range" => d =< draft.ends
        /\ Cwday(d) \in draft.weekdays}

NewDates(draft) ==
    CASE ModeOf(draft) = "none" -> {}
      [] ModeOf(draft) = "single" -> {draft.date}
      [] OTHER -> DatesUntil(draft)

\* Menus::Update#affected_schedules.
AffectedSchedules(draft, scope) ==
    CASE ModeOf(draft) = "single" /\ scope = "day" -> scheduled \cap {draft.date}
      [] ModeOf(draft) = "single" /\ scope = "saved" ->
           {d \in scheduled : d >= Later(draft.date, today)}
      [] ModeOf(draft) = "range" ->
           {d \in scheduled : d >= Later(draft.starts, today) /\ d =< draft.ends}
      [] ModeOf(draft) = "weekly" -> {d \in scheduled : d >= Later(draft.starts, today)}
      [] ModeOf(draft) = "none" -> {d \in scheduled : d >= today}

\* All of it or nothing.
ServeSave ==
    /\ sent # NotSent /\ sent.answer = "waiting"
    /\ IF ValidAgenda(sent.agenda)
       THEN /\ scheduled' = IF editing THEN scheduled \cup NewDates(sent.agenda)
                            ELSE NewDates(sent.agenda)
            /\ accepted' = IF sent.reject
                           THEN accepted \ AffectedSchedules(sent.agenda, sent.scope)
                           ELSE accepted
            /\ sent' = [sent EXCEPT !.answer = "done"]
       ELSE /\ sent' = [sent EXCEPT !.answer = "refused"]
            /\ UNCHANGED <<scheduled, accepted>>
    /\ UNCHANGED <<today, menuFormVars>>

\* Days are scheduled and taken away elsewhere, orders are accepted, and days
\* pass.
ScheduleMoves ==
    /\ \/ \E d \in DaysAtFirst :
            /\ editing /\ d >= today
            /\ \/ d \in scheduled /\ accepted' = accepted \cup {d} /\ UNCHANGED scheduled
               \/ d \notin scheduled /\ scheduled' = scheduled \cup {d} /\ UNCHANGED accepted
               \/ /\ d \in scheduled \ accepted
                  /\ scheduled' = scheduled \ {d} /\ UNCHANGED accepted
            /\ UNCHANGED today
       \/ /\ MaximumPublishDate(today + 1) =< LastDay
          /\ today' = today + 1
          /\ UNCHANGED <<scheduled, accepted>>
    /\ UNCHANGED <<sent, menuFormVars>>

-----------------------------------------------------------------------------
\* What initial_agenda may say of the dish edited.
Opens(mode, weekdays, date, starts, ends) ==
    agenda = InitialAgenda(mode, weekdays, date, starts, ends)

AgendaInit ==
    /\ editing \in BOOLEAN
    /\ today = 1 /\ openedOn = 1
    /\ IF editing
       THEN /\ scheduled \in SUBSET DaysAtFirst
            /\ accepted \in SUBSET scheduled
            /\ \/ scheduled = {} /\ Opens("none", {}, Empty, Empty, Empty)
               \/ \E d \in scheduled : Opens("single", {Cwday(d)}, d, Empty, Empty)
               \/ \E d \in scheduled : Opens("weekly", {Cwday(d)}, Empty, 1, Empty)
               \/ \E d \in scheduled : Opens("range", {Cwday(d)}, Empty, 1, d)
       ELSE /\ scheduled = {} /\ accepted = {}
            /\ \/ Opens("none", {}, Empty, Empty, Empty)
               \/ Opens("single", {1}, 1, Empty, Empty)
    /\ daysShown = [scheduled |-> scheduled, accepted |-> accepted]
    /\ sheet = ClosedSheet /\ saved = FALSE /\ sent = NotSent /\ landing = Empty
    /\ edits = 0 /\ sends = 0

AgendaNext ==
    \/ ChangeAgenda \/ Submit
    \/ AnswerQuestions \/ CloseSheet \/ Apply
    \/ SaveDone \/ SaveLost \/ AddAnother
    \/ ServeSave \/ ScheduleMoves

AgendaSpec == AgendaInit /\ [][AgendaNext]_agendaVars

\* Every request is answered, or fails.
AgendaFairness == WF_agendaVars(SaveDone \/ SaveLost)

-----------------------------------------------------------------------------
(* Properties *)

\* A dish that does not repeat has a day and its weekday, or none of them,
\* whatever was pressed before: both are sent, and each is shown in its place
\* (changeWeekdays, changeMode, changeDate).
SingleIsOneDay ==
    agenda.mode = "single" => IF agenda.date = Empty THEN agenda.weekdays = {}
                              ELSE agenda.weekdays = {Cwday(agenda.date)}

\* What the form lets through the server takes, but for a day that is closed or
\* has passed: agendaProblem, with what the fields offer, and valid_agenda? are
\* two versions of one rule.
WhatTheFormTakesIsValid ==
    LET first == IF ModeOf(agenda) = "single" THEN agenda.date ELSE agenda.starts
    IN
    /\ AgendaProblem(agenda) = "none"
    /\ first >= today
    /\ ~(ModeOf(agenda) = "single" /\ first \in ClosedDays)
    => ValidAgenda(agenda)

\* The sheet counts the days the server changes: an order is rejected if the
\* sheet counted its day, and no other of the days it knew
\* (affectedDays and affected_schedules).
RejectsTheDaysCounted ==
    [][sent # NotSent /\ sent' # NotSent /\ sent.reject
       /\ sent.answer = "waiting" /\ sent'.answer = "done" =>
         \A d \in daysShown.scheduled : d >= today /\ d \in accepted =>
           (d \notin accepted' <=> d \in sent.seen)]_agendaVars

\* And only if the provider had the question before them: no answer given to
\* another sheet is sent.
RejectsOnlyIfAsked == sent # NotSent /\ sent.reject => sent.asked

\* A dish that was published lands on the first day it was published on, if it
\* is not closed (firstPublishedDate, "el primer dia en que queda publicado").
LandsWherePublished ==
    landing # Empty /\ landing \notin ClosedDays /\ scheduled # {} =>
      landing = Earliest(scheduled)

\* The form of an agenda, its sheet and the server agree on what is valid, on the
\* days that change, on whose orders are rejected and on the day to land on.
AgendasAgree ==
    /\ [](SingleIsOneDay /\ WhatTheFormTakesIsValid /\ RejectsOnlyIfAsked /\ LandsWherePublished)
    /\ RejectsTheDaysCounted
=============================================================================
