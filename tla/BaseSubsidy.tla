----------------------------- MODULE BaseSubsidy -----------------------------
(***************************************************************************)
(* The base subsidy of a company, as HR programs it                        *)
(* (pages/admin/benefit_configurations/index.tsx and components/           *)
(* benefit-configurations/edit-benefit-configuration-form.tsx): a change   *)
(* applies from the configurable month, the next one or, past the cutoff,  *)
(* the one after.  If one is already programmed for that month the form    *)
(* asks before it replaces it.  The server says which month it is          *)
(* (Admin::BenefitConfigurationsController#create, Calendar#               *)
(* configurable_month), and nobody tells the page when that changes.       *)
(*                                                                         *)
(* Two visits of the page: the first, interrupted by the second, may still *)
(* be served.  Other people of HR use the same page.                       *)
(***************************************************************************)
EXTENDS Integers

CONSTANTS
    Subsidies,      \* subsidies the server takes
    Unfit,          \* one it does not: a blank or zero field
    NoSubsidy,      \* none
    NoProgramming,  \* null
    LastMonth,      \* bound: the last month it may be
    MaxProgrammings \* bound: saves asked for

ASSUME SubsidyAssumption ==
    /\ LastMonth \in Nat \ {0} /\ MaxProgrammings \in Nat
    /\ NoSubsidy \notin Subsidies \cup {Unfit} /\ Unfit \notin Subsidies

VARIABLES
    monthNow,       \* the month today is in
    late,           \* today is past the configuration cutoff
    programmed,     \* the subsidy that applies from each month
    monthSaid,      \* configurable_month, as the page was given it
    programmedShown,\* base_subsidy and pending_base_subsidies, likewise
    editor,         \* isEditingInline, isMobileSheetOpen
    entry,          \* the data of the form
    conflict,       \* showPendingConflict
    programming,    \* the save in flight
    adriftProgrammings, \* saves interrupted before they were served
    programmings    \* saves asked for

subsidyVars == <<monthNow, late, programmed, monthSaid, programmedShown, editor, entry,
                 conflict, programming, adriftProgrammings, programmings>>

ProgramMonths == 1..(LastMonth + 2)

\* asked: whoever sends it answered that what is programmed be replaced.
Plans == [subsidy : Subsidies \cup {Unfit}, replace : BOOLEAN, asked : BOOLEAN,
          month : ProgramMonths]

SubsidyTypeOK ==
    /\ monthNow \in 1..LastMonth /\ late \in BOOLEAN
    /\ programmed \in [ProgramMonths -> Subsidies \cup {NoSubsidy}]
    /\ programmedShown \in [ProgramMonths -> Subsidies \cup {NoSubsidy}]
    /\ monthSaid \in ProgramMonths
    /\ editor \in {"closed", "inline", "sheet"}
    /\ entry \in Subsidies \cup {Unfit}
    /\ conflict \in BOOLEAN
    /\ programming # NoProgramming =>
         programming \in [plan : Plans, answer : {"waiting", "done", "refused"},
                          heard : BOOLEAN]
    /\ adriftProgrammings \subseteq Plans
    /\ programmings \in 0..MaxProgrammings

-----------------------------------------------------------------------------
\* Calendar#configurable_month.
ConfigurableNow == monthNow + (IF late THEN 2 ELSE 1)

\* pendingBenefitConfiguration.
PendingShown == programmedShown[monthSaid]

\* base_subsidy_for: the latest of those that apply already.
BaseShown ==
    LET applied == {month \in 1..monthNow : programmedShown[month] # NoSubsidy}
    IN IF applied = {} THEN Unfit
       ELSE programmedShown[CHOOSE month \in applied : \A other \in applied : other <= month]

PageOfSubsidy == <<monthSaid, programmedShown>>

OnTheCalendar == <<monthNow, late>>

-----------------------------------------------------------------------------
(* The page *)

\* handleStartEditing: in the page or, on a phone, in a sheet.
StartEditing ==
    /\ editor = "closed"
    /\ editor' \in {"inline", "sheet"}
    /\ entry' = BaseShown /\ conflict' = FALSE
    /\ UNCHANGED <<OnTheCalendar, programmed, PageOfSubsidy, programming, adriftProgrammings,
                   programmings>>

EditEntry ==
    /\ editor # "closed"
    /\ entry' \in (Subsidies \cup {Unfit}) \ {entry}
    /\ UNCHANGED <<OnTheCalendar, programmed, PageOfSubsidy, editor, conflict, programming,
                   adriftProgrammings, programmings>>

\* submit: a form that was closed and opened again does not know of the one in flight.
SendSubsidy(replace, asked) ==
    /\ programmings < MaxProgrammings
    /\ programmings' = programmings + 1
    /\ adriftProgrammings' = IF programming # NoProgramming /\ programming.answer = "waiting"
                             THEN adriftProgrammings \cup {programming.plan}
                             ELSE adriftProgrammings
    /\ programming' = [plan |-> [subsidy |-> entry, replace |-> replace, asked |-> asked,
                                 month |-> monthSaid],
                       answer |-> "waiting", heard |-> TRUE]

SaveRunning == programming # NoProgramming /\ programming.heard

\* A mutant of HandleSubmit: it replaces what is programmed without a word.
HandleSubmitReplacing ==
    /\ editor # "closed" /\ ~conflict /\ ~SaveRunning
    /\ SendSubsidy(TRUE, FALSE)
    /\ UNCHANGED <<OnTheCalendar, programmed, PageOfSubsidy, editor, entry, conflict>>

\* handleSubmit: it asks first if it knows of a programmed change.
HandleSubmit ==
    /\ editor # "closed" /\ ~conflict /\ ~SaveRunning
    /\ \/ /\ PendingShown # NoSubsidy
          /\ conflict' = TRUE
          /\ UNCHANGED <<programming, adriftProgrammings, programmings>>
       \/ /\ PendingShown = NoSubsidy
          /\ SendSubsidy(FALSE, FALSE)
          /\ UNCHANGED conflict
    /\ UNCHANGED <<OnTheCalendar, programmed, PageOfSubsidy, editor, entry>>

\* handleReplace.
HandleReplace ==
    /\ editor # "closed" /\ conflict /\ PendingShown # NoSubsidy /\ ~SaveRunning
    /\ SendSubsidy(TRUE, TRUE)
    /\ conflict' = FALSE
    /\ UNCHANGED <<OnTheCalendar, programmed, PageOfSubsidy, editor, entry>>

\* onCancel, handleKeepExisting, and the sheet closed from outside: the form goes.
CancelEditing ==
    /\ editor # "closed"
    /\ editor' = "closed" /\ conflict' = FALSE
    /\ programming' = IF programming = NoProgramming THEN NoProgramming
                      ELSE [programming EXCEPT !.heard = FALSE]
    /\ UNCHANGED <<OnTheCalendar, programmed, PageOfSubsidy, entry, adriftProgrammings,
                   programmings>>

\* The page arrives with what is programmed.  onSuccess closes whichever form is open
\* by then; an error leaves the form as it is.
ProgrammingArrives ==
    /\ programming # NoProgramming /\ programming.answer # "waiting"
    /\ monthSaid' = ConfigurableNow /\ programmedShown' = programmed
    /\ editor' = IF programming.answer = "done" THEN "closed" ELSE editor
    /\ conflict' = IF programming.answer = "done" THEN FALSE ELSE conflict
    /\ programming' = NoProgramming
    /\ UNCHANGED <<OnTheCalendar, programmed, entry, adriftProgrammings, programmings>>

\* A mutant of ProgrammingLost: the button waits for ever.
ProgrammingForgotten ==
    /\ programming # NoProgramming
    /\ programming' = [programming EXCEPT !.answer = "waiting"]
    /\ UNCHANGED <<OnTheCalendar, programmed, PageOfSubsidy, editor, entry, conflict,
                   adriftProgrammings, programmings>>

ProgrammingLost ==
    /\ programming # NoProgramming
    /\ adriftProgrammings' = IF programming.answer = "waiting"
                             THEN adriftProgrammings \cup {programming.plan}
                             ELSE adriftProgrammings
    /\ programming' = NoProgramming
    /\ UNCHANGED <<OnTheCalendar, programmed, PageOfSubsidy, editor, entry, conflict,
                   programmings>>

-----------------------------------------------------------------------------
(* The server *)

\* Mutants of Created: without the transaction the programmed one is destroyed though
\* the new one is not valid; and the month is the one the page said.
CreatedWithoutTransaction(plan) ==
    LET free == IF plan.replace THEN [programmed EXCEPT ![ConfigurableNow] = NoSubsidy]
                ELSE programmed
    IN IF plan.subsidy = Unfit \/ free[ConfigurableNow] # NoSubsidy THEN free
       ELSE [free EXCEPT ![ConfigurableNow] = plan.subsidy]

CreatedForTheMonthSaid(plan) ==
    LET free == IF plan.replace THEN [programmed EXCEPT ![plan.month] = NoSubsidy]
                ELSE programmed
    IN IF plan.subsidy = Unfit \/ free[plan.month] # NoSubsidy THEN programmed
       ELSE [free EXCEPT ![plan.month] = plan.subsidy]

\* create: one transaction that destroys what is programmed for the configurable month,
\* if it is to be replaced, and saves the new one unless it is not valid or there is one
\* for that month (unique_effective_from_per_company).
Created(plan) ==
    LET free == IF plan.replace THEN [programmed EXCEPT ![ConfigurableNow] = NoSubsidy]
                ELSE programmed
    IN IF plan.subsidy = Unfit \/ free[ConfigurableNow] # NoSubsidy THEN programmed
       ELSE [free EXCEPT ![ConfigurableNow] = plan.subsidy]

Takes(plan) ==
    plan.subsidy # Unfit /\ (plan.replace \/ programmed[ConfigurableNow] = NoSubsidy)

ServeProgramming ==
    /\ programming # NoProgramming /\ programming.answer = "waiting"
    /\ programmed' = Created(programming.plan)
    /\ programming' = [programming EXCEPT !.answer = IF Takes(programming.plan) THEN "done"
                                                     ELSE "refused"]
    /\ UNCHANGED <<OnTheCalendar, PageOfSubsidy, editor, entry, conflict, adriftProgrammings,
                   programmings>>

ServeProgrammingLate ==
    /\ \E plan \in adriftProgrammings :
         /\ programmed' = Created(plan)
         /\ adriftProgrammings' = adriftProgrammings \ {plan}
    /\ UNCHANGED <<OnTheCalendar, PageOfSubsidy, editor, entry, conflict, programming,
                   programmings>>

\* Somebody else of HR programs one, or replaces what they see.
ProgramElsewhere ==
    /\ \E subsidy \in Subsidies :
         programmed' = [programmed EXCEPT ![ConfigurableNow] = subsidy]
    /\ UNCHANGED <<OnTheCalendar, PageOfSubsidy, editor, entry, conflict, programming,
                   adriftProgrammings, programmings>>

\* The day of the cutoff goes by; the month ends.
PassCutoff ==
    /\ ~late
    /\ late' = TRUE
    /\ UNCHANGED <<monthNow, programmed, PageOfSubsidy, editor, entry, conflict, programming,
                   adriftProgrammings, programmings>>

PassMonth ==
    /\ late /\ monthNow < LastMonth
    /\ monthNow' = monthNow + 1 /\ late' = FALSE
    /\ UNCHANGED <<programmed, PageOfSubsidy, editor, entry, conflict, programming,
                   adriftProgrammings, programmings>>

-----------------------------------------------------------------------------
\* A company that has programmed nothing yet.
SubsidyInit ==
    /\ monthNow = 1 /\ late \in BOOLEAN
    /\ programmed = [month \in ProgramMonths |-> NoSubsidy]
    /\ monthSaid = ConfigurableNow /\ programmedShown = programmed
    /\ editor = "closed" /\ entry = Unfit /\ conflict = FALSE
    /\ programming = NoProgramming /\ adriftProgrammings = {} /\ programmings = 0

SubsidyNext ==
    \/ StartEditing \/ EditEntry \/ HandleSubmit \/ HandleReplace \/ CancelEditing
    \/ ProgrammingArrives \/ ProgrammingLost
    \/ ServeProgramming \/ ServeProgrammingLate \/ ProgramElsewhere
    \/ PassCutoff \/ PassMonth

SubsidySpec == SubsidyInit /\ [][SubsidyNext]_subsidyVars

\* Every save is answered, or fails.
SubsidyFairness == WF_subsidyVars(ProgrammingArrives \/ ProgrammingLost)

-----------------------------------------------------------------------------
(* Properties *)

\* What is programmed for a month is never undone without another in its place: the
\* replacement is one transaction ("No queremos borrar el beneficio que ya esta si no
\* podemos crear uno nuevo").
NeverLeftWithout ==
    [][\A m \in ProgramMonths :
         programmed[m] # NoSubsidy => programmed'[m] # NoSubsidy]_subsidyVars

\* Only a month that is still configurable changes: never one that applies already, nor
\* the next one once its benefits may be assigned, however old the page is.
OnlyTheConfigurableChanges ==
    [][\A m \in ProgramMonths :
         programmed'[m] # programmed[m] => m >= ConfigurableNow]_subsidyVars

\* This page replaces a programmed subsidy only if whoever uses it answered so: the save
\* in flight, or the interrupted one that is served late, carries that answer.
ReplacesOnlyIfAnswered ==
    [][\A m \in ProgramMonths :
         (programmed[m] # NoSubsidy /\ programmed'[m] # programmed[m]) =>
            \/ ProgramElsewhere
            \/ \E plan \in adriftProgrammings \cup
                           (IF programming = NoProgramming THEN {} ELSE {programming.plan}) :
                 plan.asked]_subsidyVars

\* The button does not stay disabled.
ProgrammingEnds == programming # NoProgramming ~> programming = NoProgramming

\* A month in time is all that is ever programmed, nothing is replaced without
\* asking, and nothing programmed is lost.
ProgrammedWithCare ==
    /\ NeverLeftWithout
    /\ OnlyTheConfigurableChanges
    /\ ReplacesOnlyIfAnswered
=============================================================================
