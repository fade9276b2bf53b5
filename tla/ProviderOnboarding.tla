------------------------- MODULE ProviderOnboarding -------------------------
(***************************************************************************)
(* The steps a new provider is led through (pages/provider/onboarding/     *)
(* show.tsx): an introduction, the payment details, the closing time of    *)
(* orders (components/provider/closing-time-section.tsx), the deliveries,  *)
(* the notifications, and a last page.  Each step is the answer to a visit *)
(* and the server says which comes next (Provider::OnboardingController,   *)
(* Provider::OrderDeadlinesController).                                    *)
(*                                                                         *)
(* The page makes one visit at a time: one that starts interrupts the one  *)
(* in flight, which the server may serve all the same.  A PATCH keeps what *)
(* the page holds, a GET starts it anew.  The closures of the second step  *)
(* are in FormDialogs.                                                     *)
(***************************************************************************)
EXTENDS Integers

CONSTANTS
    Times,          \* closing times
    NoTime,         \* none chosen, none set
    Alerts,         \* configurable notifications of the providers
    NoTrip,         \* null
    MaxTrips        \* bound: visits made

ASSUME OnboardingAssumption == MaxTrips \in Nat /\ NoTime \notin Times

VARIABLES
    atStep,         \* step: 0 the introduction, 5 done; 6 the dashboard
    details,        \* the payment details of the form: all three are written
    canContinue,    \* the state of that name
    deliveryChosen, \* selected of DeliveriesStep
    subscribed,     \* subscribed of NotificationsStep
    timeDialog,     \* open, stage, newTime of ClosingTimeSection; its form is processing
    shownProvider,  \* the provider the page was given
    trip,           \* the visit in flight
    adriftTrips,    \* visits interrupted before the server served them
    savedProvider,  \* the row of the provider and the notifications of its user
    continued,      \* steps left with their button
    raced,          \* a visit was interrupted or lost
    touched,        \* the time was changed while it was being saved
    trips           \* visits made

onboardingVars == <<atStep, details, canContinue, deliveryChosen, subscribed, timeDialog,
                    shownProvider, trip, adriftTrips, savedProvider, continued, raced,
                    touched, trips>>

Introduction == 0
LastStep == 4
Finished == 5
Dashboard == 6

DeliveryChoices == {"none", "office", "home"}

Unconfigured == [details |-> FALSE, deadline |-> NoTime, delivery |-> "none",
                 alertsSet |-> FALSE, alerts |-> {}, onboarded |-> FALSE]

ClosedTime == [open |-> FALSE, stage |-> "form", time |-> NoTime, sending |-> FALSE]

Providers == [details : BOOLEAN, deadline : Times \cup {NoTime}, delivery : DeliveryChoices,
              alertsSet : BOOLEAN, alerts : SUBSET Alerts, onboarded : BOOLEAN]

Asks == [kind : {"page", "intro", "skip", "continue", "time", "errors"}, step : 0..Finished,
         delivery : DeliveryChoices, alerts : SUBSET Alerts, time : Times \cup {NoTime}]

\* A visit, with the step it lands on; no visit is not one.
Trips == [asks : Asks, lands : -1..Dashboard]

ASSUME NoTripAssumption == NoTrip \notin Trips

OnboardingTypeOK ==
    /\ atStep \in 0..Dashboard
    /\ details \in BOOLEAN /\ canContinue \in BOOLEAN
    /\ deliveryChosen \in DeliveryChoices
    /\ subscribed \subseteq Alerts
    /\ timeDialog \in [open : BOOLEAN, stage : {"form", "saved"}, time : Times \cup {NoTime},
                       sending : BOOLEAN]
    /\ savedProvider \in Providers /\ shownProvider \in Providers
    /\ trip \in Trips \cup {NoTrip}
    /\ adriftTrips \subseteq Asks
    /\ continued \subseteq 1..LastStep
    /\ raced \in BOOLEAN /\ touched \in BOOLEAN
    /\ trips \in 0..MaxTrips

-----------------------------------------------------------------------------
(* What a step starts with, and what is asked of the server *)

\* useState of the page: only a page that starts at the first step looks at it.
FirstCanContinue(step, provider) == step = 1 => provider.details

\* useState of DeliveriesStep.
FirstDelivery(provider) == provider.delivery

\* useState of NotificationsStep and subscribed_keys: all of them at first.
FirstSubscribed(provider) == IF provider.alertsSet THEN provider.alerts ELSE Alerts

Asking(kind, step) == [kind |-> kind, step |-> step, delivery |-> "none", alerts |-> {},
                       time |-> NoTime]

\* -1 while the server has not served it; else the step it redirects to.
Waits(request) == request # NoTrip /\ request.lands = -1

AtStep(step) == atStep = step /\ ~timeDialog.open

Processing == trip # NoTrip /\ trip.asks.kind = "continue"

\* router.patch and router.get: what is in flight is interrupted.
Travel(asks) ==
    /\ trips < MaxTrips
    /\ trips' = trips + 1
    /\ trip' = [asks |-> asks, lands |-> -1]
    /\ adriftTrips' = IF Waits(trip) THEN adriftTrips \cup {trip.asks} ELSE adriftTrips
    /\ raced' = (raced \/ trip # NoTrip)
    /\ touched' = FALSE

StepShown == <<atStep, details, canContinue, deliveryChosen, subscribed, shownProvider>>

-----------------------------------------------------------------------------
(* The page *)

\* The link of the introduction.
Start ==
    /\ AtStep(Introduction)
    /\ Travel(Asking("page", 1))
    /\ UNCHANGED <<StepShown, timeDialog, savedProvider, continued>>

\* skipIntro.
SkipIntro ==
    /\ AtStep(Introduction)
    /\ ~(trip # NoTrip /\ trip.asks.kind = "intro")
    /\ Travel(Asking("intro", Introduction))
    /\ UNCHANGED <<StepShown, timeDialog, savedProvider, continued>>

\* skip: the arrow above is never disabled; the last step has none.
Skip ==
    /\ atStep \in 1..(LastStep - 1) /\ ~timeDialog.open
    /\ Travel(Asking("skip", atStep))
    /\ UNCHANGED <<StepShown, timeDialog, savedProvider, continued>>

\* back: the page of the step before.
GoBack ==
    /\ atStep \in 2..LastStep /\ ~timeDialog.open
    /\ Travel(Asking("page", atStep - 1))
    /\ UNCHANGED <<StepShown, timeDialog, savedProvider, continued>>

\* handleStep1Change: a field of the payment details.
ChangeDetails ==
    /\ AtStep(1)
    /\ details' = ~details
    /\ canContinue' = details'
    /\ UNCHANGED <<atStep, deliveryChosen, subscribed, timeDialog, shownProvider, trip,
                   adriftTrips, savedProvider, continued, raced, touched, trips>>

\* The radio buttons of DeliveriesStep.
ChooseDelivery ==
    /\ AtStep(3)
    /\ deliveryChosen' \in {"office", "home"} \ {deliveryChosen}
    /\ UNCHANGED <<atStep, details, canContinue, subscribed, timeDialog, shownProvider, trip,
                   adriftTrips, savedProvider, continued, raced, touched, trips>>

\* toggle of NotificationsStep.
ToggleAlert ==
    /\ AtStep(4)
    /\ \E alert \in Alerts :
         subscribed' = IF alert \in subscribed THEN subscribed \ {alert}
                       ELSE subscribed \cup {alert}
    /\ UNCHANGED <<atStep, details, canContinue, deliveryChosen, timeDialog, shownProvider,
                   trip, adriftTrips, savedProvider, continued, raced, touched, trips>>

\* A mutant of MayContinue: the second step does not wait for a closing time.
MayContinueAlways(step) ==
    CASE step = 1 -> canContinue
      [] step = 2 -> TRUE
      [] step = 3 -> deliveryChosen # "none"
      [] step = 4 -> TRUE

\* What enables the button of each step.
MayContinue(step) ==
    CASE step = 1 -> canContinue
      [] step = 2 -> shownProvider.deadline # NoTime
      [] step = 3 -> deliveryChosen # "none"
      [] step = 4 -> TRUE

\* The button of a step: the form of the first sends its fields, the second nothing
\* of its own, the others what was chosen.
Continue ==
    /\ atStep \in 1..LastStep /\ ~timeDialog.open
    /\ MayContinue(atStep) /\ ~Processing
    /\ Travel([Asking("continue", atStep) EXCEPT
                 !.delivery = IF atStep = 3 THEN deliveryChosen ELSE "none",
                 !.alerts = IF atStep = 4 THEN subscribed ELSE {}])
    /\ UNCHANGED <<StepShown, timeDialog, savedProvider, continued>>

-----------------------------------------------------------------------------
(* The closing time *)

\* add_closing_time, while the provider has none.
OpenTime ==
    /\ AtStep(2) /\ shownProvider.deadline = NoTime
    /\ timeDialog' = [ClosedTime EXCEPT !.open = TRUE]
    /\ touched' = (touched \/ trip # NoTrip)
    /\ UNCHANGED <<StepShown, trip, adriftTrips, savedProvider, continued, raced, trips>>

PickTime ==
    /\ timeDialog.open /\ timeDialog.stage = "form"
    /\ \E time \in Times \ {timeDialog.time} : timeDialog' = [timeDialog EXCEPT !.time = time]
    /\ touched' = (touched \/ trip # NoTrip)
    /\ UNCHANGED <<StepShown, trip, adriftTrips, savedProvider, continued, raced, trips>>

\* The form of the dialog.  Closed and opened again, it may send a second time.
SaveTime ==
    /\ timeDialog.open /\ timeDialog.stage = "form" /\ timeDialog.time # NoTime
    /\ ~timeDialog.sending
    /\ Travel([Asking("time", 2) EXCEPT !.time = timeDialog.time])
    /\ timeDialog' = [timeDialog EXCEPT !.sending = TRUE]
    /\ UNCHANGED <<StepShown, savedProvider, continued>>

CloseTime ==
    /\ timeDialog.open
    /\ timeDialog' = [timeDialog EXCEPT !.open = FALSE, !.sending = FALSE]
    /\ UNCHANGED <<StepShown, trip, adriftTrips, savedProvider, continued, raced, touched, trips>>

\* onValueChange: a time chosen in the page is saved at once.
ChangeTime ==
    /\ AtStep(2) /\ shownProvider.deadline # NoTime
    /\ \E time \in Times \ {shownProvider.deadline} :
         Travel([Asking("time", 2) EXCEPT !.time = time])
    /\ UNCHANGED <<StepShown, timeDialog, savedProvider, continued>>

-----------------------------------------------------------------------------
(* The server *)

\* A mutant of Onboards: the last step does not count.
OnboardsAfterTheLast(asks) ==
    \/ asks.kind = "intro"
    \/ asks.kind \in {"skip", "continue"} /\ asks.step > LastStep

\* What completes the onboarding: the introduction skipped, the last step passed.
Onboards(asks) ==
    \/ asks.kind = "intro"
    \/ asks.kind \in {"skip", "continue"} /\ asks.step >= LastStep

\* advance, current_step and settings_path.
LandsOn(asks) ==
    CASE asks.kind = "intro" -> Dashboard
      [] asks.kind \in {"skip", "continue"} -> asks.step + 1
      [] OTHER -> asks.step

\* A mutant of Saved: the notifications turned off stay.
SavedAdding(provider, asks) ==
    LET onboarded == [provider EXCEPT !.onboarded = @ \/ Onboards(asks)]
        passed(step) == asks.kind = "continue" /\ asks.step = step
    IN CASE passed(1) -> [onboarded EXCEPT !.details = TRUE]
         [] passed(3) -> [onboarded EXCEPT !.delivery = asks.delivery]
         [] passed(4) -> [onboarded EXCEPT !.alertsSet = TRUE, !.alerts = @ \cup asks.alerts]
         [] asks.kind = "time" -> [onboarded EXCEPT !.deadline = asks.time]
         [] OTHER -> onboarded

\* update, save_step and OrderDeadlinesController#update: the row after serving.
Saved(provider, asks) ==
    LET onboarded == [provider EXCEPT !.onboarded = @ \/ Onboards(asks)]
        passed(step) == asks.kind = "continue" /\ asks.step = step
    IN CASE passed(1) -> [onboarded EXCEPT !.details = TRUE]
         [] passed(3) -> [onboarded EXCEPT !.delivery = asks.delivery]
         [] passed(4) -> [onboarded EXCEPT !.alertsSet = TRUE, !.alerts = asks.alerts]
         [] asks.kind = "time" -> [onboarded EXCEPT !.deadline = asks.time]
         [] OTHER -> onboarded

\* The validations may refuse what is saved: it lands on the same step, with errors.
MayRefuse(asks) == asks.kind = "time" \/ (asks.kind = "continue" /\ asks.step \in {1, 3})

Serve ==
    /\ Waits(trip)
    /\ \/ /\ savedProvider' = Saved(savedProvider, trip.asks)
          /\ trip' = [trip EXCEPT !.lands = LandsOn(trip.asks)]
       \/ /\ MayRefuse(trip.asks)
          /\ trip' = [trip EXCEPT !.lands = trip.asks.step, !.asks.kind = "errors"]
          /\ UNCHANGED savedProvider
    /\ UNCHANGED <<StepShown, timeDialog, adriftTrips, continued, raced, touched, trips>>

\* A visit that was interrupted is served late, or never.
ServeLate ==
    /\ \E asks \in adriftTrips :
         /\ adriftTrips' = adriftTrips \ {asks}
         /\ \/ savedProvider' = Saved(savedProvider, asks)
            \/ UNCHANGED savedProvider
    /\ UNCHANGED <<StepShown, timeDialog, trip, continued, raced, touched, trips>>

-----------------------------------------------------------------------------
(* The answers *)

\* A mutant of Starts: going back keeps what the page held.
StartsNever(asks) == FALSE

\* The page starts anew after a GET.
Starts(asks) == asks.kind = "page"

\* The saved stage of ClosingTimeSection: set by the answer of its form (stage), or
\* with the time that was chosen in the page (newTime, stage, open).
TimeAfter(asks) ==
    CASE asks.kind = "errors" -> [timeDialog EXCEPT !.sending = FALSE]
      [] asks.kind = "time" /\ shownProvider.deadline = NoTime ->
           [timeDialog EXCEPT !.stage = "saved", !.sending = FALSE]
      [] asks.kind = "time" /\ shownProvider.deadline # NoTime ->
           [open |-> TRUE, stage |-> "saved", time |-> asks.time, sending |-> FALSE]
      [] OTHER -> ClosedTime

\* A mutant of TripArrives: the dialog keeps the time it said before.
ArriveSayingOldTime ==
    /\ trip # NoTrip /\ ~Waits(trip)
    /\ LET asks == trip.asks step == trip.lands IN
         /\ atStep' = step
         /\ shownProvider' = savedProvider
         /\ timeDialog' = [TimeAfter(asks) EXCEPT !.time = timeDialog.time]
         /\ details' = IF step = atStep THEN details ELSE savedProvider.details
         /\ canContinue' = IF Starts(asks)
                           THEN FirstCanContinue(step, savedProvider) ELSE canContinue
         /\ deliveryChosen' = IF step = atStep THEN deliveryChosen
                              ELSE FirstDelivery(savedProvider)
         /\ subscribed' = IF step = atStep THEN subscribed ELSE FirstSubscribed(savedProvider)
         /\ continued' = IF asks.kind = "continue" THEN continued \cup {asks.step}
                         ELSE continued
    /\ trip' = NoTrip /\ touched' = FALSE
    /\ UNCHANGED <<adriftTrips, savedProvider, raced, trips>>

\* The page of the step arrives with the provider as it is by then.  The forms of a
\* step that was not shown start with what is saved.
TripArrives ==
    /\ trip # NoTrip /\ ~Waits(trip)
    /\ LET asks == trip.asks step == trip.lands IN
         /\ atStep' = step
         /\ shownProvider' = savedProvider
         /\ timeDialog' = TimeAfter(asks)
         /\ details' = IF step = atStep THEN details ELSE savedProvider.details
         /\ canContinue' = IF Starts(asks)
                           THEN FirstCanContinue(step, savedProvider) ELSE canContinue
         /\ deliveryChosen' = IF step = atStep THEN deliveryChosen
                              ELSE FirstDelivery(savedProvider)
         /\ subscribed' = IF step = atStep THEN subscribed ELSE FirstSubscribed(savedProvider)
         /\ continued' = IF asks.kind = "continue" THEN continued \cup {asks.step}
                         ELSE continued
    /\ trip' = NoTrip /\ touched' = FALSE
    /\ UNCHANGED <<adriftTrips, savedProvider, raced, trips>>

\* A mutant of LoseTrip: the buttons wait for an answer that will not come.
LoseForgetting ==
    /\ trip # NoTrip
    /\ trip' = [trip EXCEPT !.lands = -1]
    /\ raced' = TRUE /\ touched' = FALSE
    /\ UNCHANGED <<StepShown, timeDialog, adriftTrips, savedProvider, continued, trips>>

\* The answer does not come: onFinish.
LoseTrip ==
    /\ trip # NoTrip
    /\ trip' = NoTrip
    /\ adriftTrips' = IF Waits(trip) THEN adriftTrips \cup {trip.asks} ELSE adriftTrips
    /\ raced' = TRUE /\ touched' = FALSE
    /\ timeDialog' = [timeDialog EXCEPT !.sending = FALSE]
    /\ UNCHANGED <<StepShown, savedProvider, continued, trips>>

-----------------------------------------------------------------------------
\* One that went through all of it, and may come back to a step by its address.
Configured(time) == [details |-> TRUE, deadline |-> time, delivery |-> "office",
                     alertsSet |-> TRUE, alerts |-> Alerts, onboarded |-> TRUE]

\* The page opens at the introduction, or at the step of its address.
OnboardingInit ==
    /\ atStep \in 0..LastStep
    /\ savedProvider \in {Unconfigured} \cup {Configured(time) : time \in Times}
    /\ shownProvider = savedProvider /\ details = savedProvider.details
    /\ canContinue = FirstCanContinue(atStep, savedProvider)
    /\ deliveryChosen = FirstDelivery(savedProvider)
    /\ subscribed = FirstSubscribed(savedProvider)
    /\ timeDialog = ClosedTime
    /\ trip = NoTrip /\ adriftTrips = {} /\ continued = {}
    /\ raced = FALSE /\ touched = FALSE /\ trips = 0

OnboardingNext ==
    \/ Start \/ SkipIntro \/ Skip \/ GoBack
    \/ ChangeDetails \/ ChooseDelivery \/ ToggleAlert \/ Continue
    \/ OpenTime \/ PickTime \/ SaveTime \/ CloseTime \/ ChangeTime
    \/ Serve \/ ServeLate \/ TripArrives \/ LoseTrip

OnboardingSpec == OnboardingInit /\ [][OnboardingNext]_onboardingVars

\* Every visit is answered, or fails.
OnboardingFairness == WF_onboardingVars(TripArrives \/ LoseTrip)

-----------------------------------------------------------------------------
(* Properties *)

\* On the first step the button is enabled exactly when the three payment details
\* are written, whatever way led there (step1Complete at the start, then
\* handleStep1Change): canContinue is kept by every PATCH, from a step to the next.
ContinueMatchesForm == atStep = 1 => (canContinue <=> details)

\* Whoever is shown the last page, or the dashboard, is onboarded: else the dashboard
\* would send them back to the introduction (require_onboarding).
FinishedIsOnboarded == atStep \in {Finished, Dashboard} => savedProvider.onboarded

\* A step that was left with its button is configured, though the server takes the
\* second without a closing time: the page only enables its button once there is one.
ContinuedIsConfigured ==
    /\ 1 \in continued => savedProvider.details
    /\ 2 \in continued => savedProvider.deadline # NoTime
    /\ 3 \in continued => savedProvider.delivery # "none"

\* The notifications are those chosen when the last button was pressed, those turned
\* off included, unless a visit was interrupted or lost (save_notifications).
AlertsAreTheChosen ==
    trip # NoTrip /\ trip.lands = Finished /\ ~raced => savedProvider.alerts = trip.asks.alerts

\* The time the dialog says was saved is the one in the page, unless a visit was
\* interrupted or lost, or the time was changed while it was being saved: the dialog
\* says what is in its state, not what was sent.
SaysTheTimeSaved ==
    [][timeDialog'.open /\ timeDialog'.stage = "saved" /\ ~raced' /\ ~touched
         => timeDialog'.time = shownProvider'.deadline]_onboardingVars

\* Whatever way is taken through the steps, each is left as it was filled in, and
\* what is said to be saved is saved.
StepsKept ==
    /\ [](ContinueMatchesForm /\ FinishedIsOnboarded /\ ContinuedIsConfigured /\ AlertsAreTheChosen)
    /\ SaysTheTimeSaved
=============================================================================
