---------------------------- MODULE MenuPublishing ----------------------------
(***************************************************************************)
(* The page where a provider adds dishes (pages/provider/menus/new.tsx):   *)
(* a tab with the form of a new dish (components/menus/new-menu-form.tsx)  *)
(* and a tab that publishes saved dishes on a day                          *)
(* (components/menus/saved-menus-tab.tsx), with one dialog that says what  *)
(* was added.  The tab that is not shown is not mounted: what was written  *)
(* in it is gone, but the answer to what it sent is still heard.           *)
(*                                                                         *)
(* The page makes one visit at a time: one that starts interrupts the one  *)
(* in flight, which the server may serve all the same.  The agenda of the  *)
(* form is that of MenuAgendas, its groups those of DishOptions.           *)
(***************************************************************************)
EXTENDS Integers, FiniteSets

CONSTANTS
    Dishes,         \* saved dishes
    PublishDays,    \* days one may publish on
    NoDay,          \* no day: ""
    NoVisit,        \* null
    MaxWritten,     \* bound: dishes written in the form
    MaxVisits       \* bound: requests sent

ASSUME PublishingAssumption == MaxWritten \in Nat /\ MaxVisits \in Nat

VARIABLES
    tabShown,       \* "new" or "saved"
    written,        \* the dish in the form: its number, 0 while it is blank
    writings,       \* dishes written so far
    day,            \* date
    picked,         \* selected
    visit,          \* the request in flight: what it asks, its answer
    heard,          \* what sent it is still mounted: it is processing
    adrift,         \* requests interrupted before the server served them
    added,          \* the dialog: whether it is open, the origin, the day
    publishedShown, \* what the page was loaded with
    published,      \* the days each saved dish is published on, as pairs
    withdrawn,      \* those removed elsewhere between an answer and its page
    made,           \* dishes made of each one written
    unheard,        \* those whose answer was lost or interrupted
    visits          \* requests sent

publishingVars == <<tabShown, written, writings, day, picked, visit, heard, adrift, added,
                    publishedShown, published, withdrawn, made, unheard, visits>>

NotAdded == [open |-> FALSE, origin |-> "none", day |-> NoDay, menus |-> {}]

Creations == [kind : {"create"}, number : 1..MaxWritten]

Publications == [kind : {"publish"}, day : PublishDays, menus : (SUBSET Dishes) \ {{}}]

\* A visit, and no visit is not one.
Requests == [asks : Creations \cup Publications, answer : {"waiting", "done", "refused"}]

ASSUME NoVisitAssumption == NoVisit \notin Requests

PublishingTypeOK ==
    /\ tabShown \in {"new", "saved"}
    /\ written \in 0..writings /\ writings \in 0..MaxWritten
    /\ day \in PublishDays \cup {NoDay}
    /\ picked \subseteq Dishes
    /\ visit \in Requests \cup {NoVisit}
    /\ heard \in BOOLEAN
    /\ added.open \in BOOLEAN /\ added.origin \in {"none", "new", "saved"}
    /\ published \subseteq Dishes \X PublishDays
    /\ publishedShown \cup withdrawn \subseteq Dishes \X PublishDays
    /\ made \in [1..MaxWritten -> 0..MaxVisits]
    /\ unheard \subseteq 1..MaxWritten
    /\ visits \in 0..MaxVisits

-----------------------------------------------------------------------------
\* Nothing over the page.
AtPage == ~added.open

\* The visit in flight is interrupted: the server may serve it or not.
Unheard(request) ==
    IF request # NoVisit /\ request.asks.kind = "create" THEN {request.asks.number} ELSE {}

Visit(request) ==
    /\ visits < MaxVisits
    /\ visits' = visits + 1
    /\ visit' = [asks |-> request, answer |-> "waiting"]
    /\ heard' = TRUE
    /\ unheard' = unheard \cup Unheard(visit)
    /\ adrift' = IF visit # NoVisit /\ visit.answer = "waiting"
                 THEN adrift \cup {visit.asks} ELSE adrift

\* The form is filled in; changed later, it is still the same dish.
WriteDish ==
    /\ AtPage /\ tabShown = "new" /\ written = 0
    /\ writings < MaxWritten
    /\ writings' = writings + 1
    /\ written' = writings'
    /\ UNCHANGED <<tabShown, day, picked, visit, heard, adrift, added, publishedShown,
                   published, withdrawn, made, unheard, visits>>

CreateDish ==
    /\ AtPage /\ tabShown = "new" /\ written # 0
    /\ ~(visit # NoVisit /\ heard)
    /\ Visit([kind |-> "create", number |-> written])
    /\ UNCHANGED <<tabShown, written, writings, day, picked, added, publishedShown,
                   published, withdrawn, made>>

\* The other tab starts anew; what was sent from this one goes on.
SwitchTab ==
    /\ AtPage
    /\ tabShown' = IF tabShown = "new" THEN "saved" ELSE "new"
    /\ written' = 0 /\ day' = NoDay /\ picked' = {}
    /\ heard' = FALSE
    /\ UNCHANGED <<writings, visit, adrift, added, publishedShown, published, withdrawn,
                   made, unheard, visits>>

\* A mutant of ChangeDay: the dishes picked stay.
ChangeDayKeeping ==
    /\ AtPage /\ tabShown = "saved"
    /\ day' \in (PublishDays \cup {NoDay}) \ {day}
    /\ UNCHANGED <<tabShown, written, writings, picked, visit, heard, adrift, added,
                   publishedShown, published, withdrawn, made, unheard, visits>>

ChangeDay ==
    /\ AtPage /\ tabShown = "saved"
    /\ day' \in (PublishDays \cup {NoDay}) \ {day}
    /\ picked' = {}
    /\ UNCHANGED <<tabShown, written, writings, visit, heard, adrift, added, publishedShown,
                   published, withdrawn, made, unheard, visits>>

\* The dishes that are not on that day yet, as far as the page knows; they can
\* be picked while others are being published.
Available == {dish \in Dishes : <<dish, day>> \notin publishedShown}

Toggle ==
    /\ AtPage /\ tabShown = "saved" /\ day # NoDay
    /\ \E dish \in Available :
         picked' = IF dish \in picked THEN picked \ {dish} ELSE picked \cup {dish}
    /\ UNCHANGED <<tabShown, written, writings, day, visit, heard, adrift, added,
                   publishedShown, published, withdrawn, made, unheard, visits>>

PublishDishes ==
    /\ AtPage /\ tabShown = "saved" /\ picked # {}
    /\ ~(visit # NoVisit /\ heard)
    /\ Visit([kind |-> "publish", day |-> day, menus |-> picked])
    /\ UNCHANGED <<tabShown, written, writings, day, picked, added, publishedShown,
                   published, withdrawn, made>>

\* A mutant of Serves: a dish published on some day is taken as published.
ServesTheUnpublished(asks) ==
    \/ /\ asks.kind = "create"
       /\ made' = [made EXCEPT ![asks.number] = @ + 1]
       /\ UNCHANGED published
    \/ /\ asks.kind = "publish"
       /\ LET known == {pair[1] : pair \in published}
          IN published' = published \cup ((asks.menus \ known) \X {asks.day})
       /\ UNCHANGED made

\* Menus::Create, and Menus::Publish: every dish asked for, and nothing for those
\* that were there.
Serves(asks) ==
    \/ /\ asks.kind = "create"
       /\ made' = [made EXCEPT ![asks.number] = @ + 1]
       /\ UNCHANGED published
    \/ /\ asks.kind = "publish"
       /\ published' = published \cup (asks.menus \X {asks.day})
       /\ UNCHANGED made

\* The server serves the visit, or refuses it.
ServeVisit ==
    /\ visit # NoVisit /\ visit.answer = "waiting"
    /\ \/ Serves(visit.asks) /\ visit' = [visit EXCEPT !.answer = "done"]
       \/ visit' = [visit EXCEPT !.answer = "refused"] /\ UNCHANGED <<published, made>>
    /\ withdrawn' = {}
    /\ UNCHANGED <<tabShown, written, writings, day, picked, heard, adrift, added,
                   publishedShown, unheard, visits>>

\* One that was interrupted is served late, or never.
ServeAdrift ==
    /\ \E asks \in adrift :
         /\ adrift' = adrift \ {asks}
         /\ Serves(asks) \/ UNCHANGED <<published, made>>
    /\ UNCHANGED <<tabShown, written, writings, day, picked, visit, heard, added,
                   publishedShown, withdrawn, unheard, visits>>

\* The page comes with what is published now.  The dialog opens for what was
\* asked, whatever tab is shown; the dishes picked are let go.
VisitArrives ==
    /\ visit # NoVisit /\ visit.answer # "waiting"
    /\ publishedShown' = published
    /\ visit' = NoVisit /\ heard' = FALSE
    /\ added' = IF visit.answer = "refused" THEN added
                ELSE IF visit.asks.kind = "create"
                THEN [open |-> TRUE, origin |-> "new", day |-> NoDay, menus |-> {}]
                ELSE [open |-> TRUE, origin |-> "saved", day |-> visit.asks.day,
                      menus |-> visit.asks.menus]
    /\ picked' = IF visit.answer = "done" /\ visit.asks.kind = "publish" /\ heard
                 THEN {} ELSE picked
    /\ UNCHANGED <<tabShown, written, writings, day, adrift, published, withdrawn, made,
                   unheard, visits>>

\* A mutant of VisitLost: the button waits for the answer.
VisitForgotten ==
    /\ visit # NoVisit
    /\ visit' = [visit EXCEPT !.answer = "waiting"]
    /\ UNCHANGED <<tabShown, written, writings, day, picked, heard, adrift, added,
                   publishedShown, published, withdrawn, made, unheard, visits>>

VisitLost ==
    /\ visit # NoVisit
    /\ visit' = NoVisit /\ heard' = FALSE
    /\ unheard' = unheard \cup Unheard(visit)
    /\ adrift' = IF visit.answer = "waiting" THEN adrift \cup {visit.asks} ELSE adrift
    /\ UNCHANGED <<tabShown, written, writings, day, picked, added, publishedShown,
                   published, withdrawn, made, visits>>

\* A mutant of CloseAdded: the form is left as it was.
CloseAddedOnly ==
    /\ added.open
    /\ added' = NotAdded
    /\ UNCHANGED <<tabShown, written, writings, day, picked, visit, heard, adrift,
                   publishedShown, published, withdrawn, made, unheard, visits>>

\* closeAdded: after a new dish the form starts over.
CloseAdded ==
    /\ added.open
    /\ added' = NotAdded
    /\ written' = IF added.origin = "new" THEN 0 ELSE written
    /\ UNCHANGED <<tabShown, writings, day, picked, visit, heard, adrift, publishedShown,
                   published, withdrawn, made, unheard, visits>>

\* Dishes are published elsewhere, by their agendas among others.
PublishElsewhere ==
    /\ \E pair \in (Dishes \X PublishDays) \ published : published' = published \cup {pair}
    /\ UNCHANGED <<tabShown, written, writings, day, picked, visit, heard, adrift, added,
                   publishedShown, withdrawn, made, unheard, visits>>

\* And removed from a day, in another window (SchedulesController#destroy).
RemoveElsewhere ==
    /\ \E pair \in published :
         /\ published' = published \ {pair}
         /\ withdrawn' = IF visit # NoVisit /\ visit.answer # "waiting"
                         THEN withdrawn \cup {pair} ELSE withdrawn
    /\ UNCHANGED <<tabShown, written, writings, day, picked, visit, heard, adrift, added,
                   publishedShown, made, unheard, visits>>

-----------------------------------------------------------------------------
PublishingInit ==
    /\ tabShown = "new" /\ written = 0 /\ writings = 0
    /\ day = NoDay /\ picked = {}
    /\ visit = NoVisit /\ heard = FALSE /\ adrift = {} /\ added = NotAdded
    /\ published \in SUBSET (Dishes \X PublishDays) /\ publishedShown = published
    /\ withdrawn = {}
    /\ made = [number \in 1..MaxWritten |-> 0] /\ unheard = {} /\ visits = 0

PublishingNext ==
    \/ WriteDish \/ CreateDish \/ SwitchTab \/ ChangeDay \/ Toggle \/ PublishDishes
    \/ ServeVisit \/ ServeAdrift \/ VisitArrives \/ VisitLost
    \/ CloseAdded \/ PublishElsewhere \/ RemoveElsewhere

PublishingSpec == PublishingInit /\ [][PublishingNext]_publishingVars

\* Every request is answered, or fails.
PublishingFairness == WF_publishingVars(VisitArrives \/ VisitLost)

-----------------------------------------------------------------------------
(* Properties *)

\* A dish that was written once is made once, unless an answer was lost or
\* interrupted: the form does not send it twice, and after it is told that the
\* dish was added it starts over (handleSubmit, closeAdded).
MadeOnce == \A number \in 1..writings : made[number] > 1 => number \in unheard

\* What the dialog says was published on a day is on the page on that day, every
\* dish of it (onPublished; Publish does all of it or nothing, and does nothing for
\* a dish that was there), but what another window took down before the page came.
SaysWhatWasPublished ==
    added.open => added.menus \X {added.day} \subseteq publishedShown \cup withdrawn

\* Until the page comes again, what is picked is on offer on the day it will be
\* published: another day lets go of it (changeDate).  Not after that: a dish
\* published meanwhile stays picked, though it is shown as added.
PickedAreOffered == visits = 0 => picked \subseteq Available

\* What is written is made once, what is picked can be published, and what is said
\* to be published is on the page.
PublishedAsSaid == MadeOnce /\ SaysWhatWasPublished /\ PickedAreOffered
=============================================================================
