------------------------- MODULE ProviderOrdersPage -------------------------
(***************************************************************************)
(* The orders of a provider (pages/provider/orders/index.tsx): two lists,  *)
(* of the orders to come and of those delivered, as they were when the     *)
(* page was loaded; filters over them, which the file exported has to      *)
(* repeat on the server (Provider::OrdersExport), with a normalisation of  *)
(* its own; the day that is open; and the decisions taken on the cards,    *)
(* which load the page again and may take the card out of the list.        *)
(***************************************************************************)
EXTENDS Integers, FiniteSets, FiniteSetsExt

CONSTANTS
    Orders,         \* the orders there may be
    DateOf,         \* their delivery dates, numbers
    MethodOf,       \* "office" or "home"
    TextOf,         \* the words each can be found by, its status apart
    Dates,          \* the days there are
    Searches,       \* what is searched for: sets of words
    Nobody,         \* null
    Unset,          \* undefined
    MaxDecisions    \* bound: decisions sent

\* What is written over or beside letters: accents (combining marks that are
\* diacritics), spacing accents (diacritics that do not combine: a lone ´, a
\* middle dot) and signs (combining marks that are no diacritics: the variation
\* selector of an emoji).
Marks == {"accent", "spacing", "sign"}

\* A word written: its letters, without case, "" if it has none, and its marks.
IsWord(x) ==
    /\ x = [letters |-> x.letters, marks |-> x.marks]
    /\ x.letters \in STRING /\ x.marks \subseteq Marks

ASSUME PageAssumption ==
    /\ IsFiniteSet(Orders) /\ Dates \subseteq Nat
    /\ \A o \in Orders : DateOf[o] \in Dates /\ \A x \in TextOf[o] : IsWord(x)
    /\ \A search \in Searches : \A x \in search : IsWord(x)
    /\ {} \in Searches /\ MaxDecisions \in Nat

VARIABLES
    current,        \* the status of each order on the server, or "none"
    calendar,       \* the day it is
    listed,         \* the statuses the page was loaded with
    listedOn,       \* the day it was loaded
    filter,         \* period, status, delivery method and words searched for
    selected,       \* the day chosen, Unset before, null if it was closed
    wide,           \* a wide window
    deciding,       \* the decision in flight
    waitingCard,    \* the card that waits for it, null if it was taken away
    overtaken,      \* decisions interrupted or lost, which may still be served
    decision,       \* the decision told in a sheet
    decisions,      \* decisions sent
    takenVisits,    \* those the server took
    toldVisits,     \* those that were told
    unheardVisits   \* those whose answer was interrupted or lost

ordersVars == <<current, calendar, listed, listedOn, filter, selected, wide, deciding,
                waitingCard, overtaken, decision, decisions, takenVisits, toldVisits,
                unheardVisits>>

controls == <<filter, selected, wide>>

visitsPast == <<takenVisits, toldVisits, unheardVisits>>

Statuses == {"pending", "confirmed", "cancelled", "rejected"}

DecisionVisits == 1..MaxDecisions

Decisions == [visit : DecisionVisits, id : Orders, status : {"confirmed", "rejected"}]

\* A decision in flight, and no decision is not one.
InFlight == [visit : DecisionVisits, id : Orders, status : {"confirmed", "rejected"},
             answer : {"waiting", "done", "alert"}]

ASSUME NobodyAssumption == Nobody \notin InFlight

\* The decision of a visit.
DecisionOf(d) == [visit |-> d.visit, id |-> d.id, status |-> d.status]

Filters == [period : {"upcoming", "history"}, status : {"pending", "confirmed", "all"},
            delivery : {"all", "office", "home"}, search : Searches]

OrdersTypeOK ==
    /\ current \in [Orders -> Statuses \cup {"none"}]
    /\ listed \in [Orders -> Statuses \cup {"none"}]
    /\ calendar \in Dates /\ listedOn \in Dates
    /\ filter \in Filters
    /\ selected \in Dates \cup {Unset, Nobody}
    /\ wide \in BOOLEAN
    /\ deciding \in InFlight \cup {Nobody}
    /\ waitingCard \in Orders \cup {Nobody}
    /\ overtaken \subseteq Decisions
    /\ decision \in Decisions \cup {Nobody}
    /\ decisions \in 0..MaxDecisions
    /\ takenVisits \cup toldVisits \cup unheardVisits \subseteq DecisionVisits

-----------------------------------------------------------------------------
(* The lists *)

\* Provider::OrdersController#orders_in.
OrdersIn(period, status, day) ==
    {o \in Orders : /\ status[o] # "none"
                    /\ IF period = "history" THEN DateOf[o] < day ELSE DateOf[o] >= day}

\* The orders of the period shown, as the page has them.
Loaded == OrdersIn(filter.period, listed, listedOn)

NoLetters == [letters |-> "", marks |-> {}]

\* The words of an order: its code, its dish, who asks for it and where it goes,
\* which stay, and the name of its status.
Texts(o, status) == TextOf[o] \cup {[letters |-> status, marks |-> {}]}

\* A word in a text: the same, or marks alone that some word of it has.
Within(x, texts) ==
    \E y \in texts : x = y \/ (x.letters = "" /\ x.marks \subseteq y.marks)

\* On the page, diacritics are taken out.
PageNormalize(x) == [x EXCEPT !.marks = @ \ {"accent", "spacing"}]

PageFinds(o, status) ==
    LET texts == {PageNormalize(y) : y \in Texts(o, status)}
    IN  \A x \in {PageNormalize(y) : y \in filter.search} \ {NoLetters} : Within(x, texts)

FilterOrders(orders, status) ==
    {o \in orders :
        /\ filter.status # "all" => status[o] = filter.status
        /\ filter.delivery # "all" => MethodOf[o] = filter.delivery
        /\ PageFinds(o, status[o])}

Visible == FilterOrders(Loaded, listed)

\* The days with something visible.
GroupByDate == {DateOf[o] : o \in Visible}

\* Today if it has orders, or the first of the list: the nearest to come, the
\* last delivered.
InitialDate ==
    IF listedOn \in GroupByDate THEN listedOn
    ELSE IF filter.period = "upcoming" THEN Min(GroupByDate) ELSE Max(GroupByDate)

ActiveDate ==
    CASE selected = Nobody -> Nobody
      [] selected \in GroupByDate -> selected
      [] OTHER -> InitialDate

\* In the file, combining marks are.
FileNormalize(x) == [x EXCEPT !.marks = @ \ {"accent", "sign"}]

FileFinds(o, status) ==
    LET texts == {FileNormalize(y) : y \in Texts(o, status)}
    IN  \A x \in {FileNormalize(y) : y \in filter.search} \ {NoLetters} : Within(x, texts)

\* What the address of the file asks for: a status or a method it knows.
VisibleInFile(o) ==
    /\ filter.status \in {"pending", "confirmed"} => current[o] = filter.status
    /\ filter.delivery \in {"office", "home"} => MethodOf[o] = filter.delivery
    /\ FileFinds(o, current[o])

\* A mutant of VisibleInFile: the words are looked for as they were written.
VisibleAsWritten(o) ==
    /\ filter.status \in {"pending", "confirmed"} => current[o] = filter.status
    /\ filter.delivery \in {"office", "home"} => MethodOf[o] = filter.delivery
    /\ \A x \in filter.search : Within(x, Texts(o, current[o]))

Exported == {o \in OrdersIn(filter.period, current, calendar) : VisibleInFile(o)}

-----------------------------------------------------------------------------
(* The controls.  The sheets are modal.  A card taken away, by another list, a *)
(* filter or its day closing, forgets that it is busy.                         *)

Reachable == decision = Nobody

\* The cards on show.
CardsShown == {o \in Visible : DateOf[o] = ActiveDate}

ControlsMove ==
    /\ UNCHANGED <<current, calendar, listed, listedOn, wide, deciding, overtaken,
                   decision, decisions, visitsPast>>
    /\ waitingCard' = IF waitingCard \in CardsShown' THEN waitingCard ELSE Nobody

\* The list of another period is another component: the day chosen is forgotten.
SelectPeriod(period) ==
    /\ Reachable /\ period # filter.period
    /\ filter' = [filter EXCEPT !.period = period]
    /\ selected' = Unset
    /\ waitingCard' = Nobody
    /\ UNCHANGED <<current, calendar, listed, listedOn, wide, deciding, overtaken,
                   decision, decisions, visitsPast>>

\* On a narrow window, a period without orders has no filters.
Filterable == Reachable /\ (wide \/ Loaded # {})

SelectStatus(status) ==
    /\ Filterable
    /\ filter' = [filter EXCEPT !.status = status]
    /\ UNCHANGED selected
    /\ ControlsMove

TypeSearch(words) ==
    /\ Filterable
    /\ filter' = [filter EXCEPT !.search = words]
    /\ UNCHANGED selected
    /\ ControlsMove

\* The sheet of delivery methods starts from the filter there is each time it
\* opens, and changes it only when it is applied.
ApplyDelivery(method) ==
    /\ Filterable
    /\ filter' = [filter EXCEPT !.delivery = method]
    /\ UNCHANGED selected
    /\ ControlsMove

\* On a wide window the day open is not closed.
ToggleDay(date) ==
    /\ Reachable /\ date \in GroupByDate
    /\ selected' = IF date # ActiveDate THEN date
                   ELSE IF wide THEN selected ELSE Nobody
    /\ UNCHANGED filter
    /\ ControlsMove

-----------------------------------------------------------------------------
(* The decisions *)

\* What the card offers on an order, as the page has it.
CanDecide(o, status) ==
    /\ o \in CardsShown
    /\ \/ status = "confirmed" /\ listed[o] = "pending"
       \/ /\ status = "rejected"
          /\ \/ listed[o] = "pending"
             \/ listed[o] = "confirmed" /\ DateOf[o] >= listedOn

\* The visit in flight will not be heard of; the server may yet serve it.
NotHeardOf ==
    /\ overtaken' = IF deciding # Nobody /\ deciding.answer = "waiting"
                    THEN overtaken \cup {DecisionOf(deciding)} ELSE overtaken
    /\ unheardVisits' = IF deciding = Nobody THEN unheardVisits
                        ELSE unheardVisits \cup {deciding.visit}

\* A card is busy with its own decision only: one on another card interrupts.
Decide(o, status) ==
    /\ Reachable /\ decisions < MaxDecisions
    /\ waitingCard # o
    /\ CanDecide(o, status)
    /\ NotHeardOf
    /\ deciding' = [visit |-> decisions + 1, id |-> o, status |-> status,
                    answer |-> "waiting"]
    /\ waitingCard' = o
    /\ decisions' = decisions + 1
    /\ UNCHANGED <<current, calendar, listed, listedOn, controls, decision,
                   takenVisits, toldVisits>>

\* Order#decide: pending orders, and the rejection of a confirmed one that is
\* not delivered yet.
Decidable(o, status) ==
    \/ current[o] = "pending"
    \/ current[o] = "confirmed" /\ status = "rejected" /\ DateOf[o] >= calendar

\* A mutant of Decidable: nothing is decided on an order already delivered.
DecidableUntilDelivered(o, status) ==
    /\ DateOf[o] >= calendar
    /\ \/ current[o] = "pending"
       \/ current[o] = "confirmed" /\ status = "rejected"

\* What the server does with a decision.
Answers(d) ==
    IF Decidable(d.id, d.status)
    THEN /\ current' = [current EXCEPT ![d.id] = d.status]
         /\ takenVisits' = takenVisits \cup {d.visit}
    ELSE UNCHANGED <<current, takenVisits>>

ServeDecision ==
    /\ deciding # Nobody /\ deciding.answer = "waiting"
    /\ Answers(deciding)
    /\ deciding' = [deciding EXCEPT
                     !.answer = IF Decidable(deciding.id, deciding.status)
                                THEN "done" ELSE "alert"]
    /\ UNCHANGED <<calendar, listed, listedOn, controls, waitingCard, overtaken, decision,
                   decisions, toldVisits, unheardVisits>>

ServeOvertaken(d) ==
    /\ overtaken' = overtaken \ {d}
    /\ Answers(d)
    /\ UNCHANGED <<calendar, listed, listedOn, controls, deciding, waitingCard, decision,
                   decisions, toldVisits, unheardVisits>>

Reloads == listed' = current /\ listedOn' = calendar

\* A mutant of DecisionArrives: the sheet lives in the card.
TellsInTheCard ==
    /\ deciding # Nobody /\ deciding.answer # "waiting"
    /\ Reloads
    /\ IF deciding.answer = "done" /\ waitingCard = deciding.id
          /\ filter.status \in {"all", deciding.status}
       THEN /\ decision' = DecisionOf(deciding)
            /\ toldVisits' = toldVisits \cup {deciding.visit}
       ELSE UNCHANGED <<decision, toldVisits>>
    /\ deciding' = Nobody /\ waitingCard' = Nobody
    /\ UNCHANGED <<current, calendar, controls, overtaken, decisions,
                   takenVisits, unheardVisits>>

\* The page is loaded again and keeps its state; the news is told by the page,
\* unless what comes is an alert.
DecisionArrives ==
    /\ deciding # Nobody /\ deciding.answer # "waiting"
    /\ Reloads
    /\ IF deciding.answer = "done"
       THEN /\ decision' = DecisionOf(deciding)
            /\ toldVisits' = toldVisits \cup {deciding.visit}
       ELSE UNCHANGED <<decision, toldVisits>>
    /\ deciding' = Nobody /\ waitingCard' = Nobody
    /\ UNCHANGED <<current, calendar, controls, overtaken, decisions,
                   takenVisits, unheardVisits>>

DecisionLost ==
    /\ deciding # Nobody
    /\ NotHeardOf
    /\ deciding' = Nobody /\ waitingCard' = Nobody
    /\ UNCHANGED <<current, calendar, listed, listedOn, controls, decision, decisions,
                   takenVisits, toldVisits>>

CloseDecided ==
    /\ decision # Nobody
    /\ decision' = Nobody
    /\ UNCHANGED <<current, calendar, listed, listedOn, controls, deciding, waitingCard,
                   overtaken, decisions, visitsPast>>

\* The employees, another window of the provider, and the calendar.
Meanwhile ==
    /\ \/ \E o \in Orders :
            /\ \/ current[o] = "none" /\ DateOf[o] >= calendar
                  /\ current' = [current EXCEPT ![o] = "pending"]
               \/ current[o] \in {"pending", "confirmed"} /\ DateOf[o] >= calendar
                  /\ current' = [current EXCEPT ![o] = "cancelled"]
            /\ UNCHANGED calendar
       \/ /\ calendar + 1 \in Dates
          /\ calendar' = calendar + 1
          /\ UNCHANGED current
    /\ UNCHANGED <<listed, listedOn, controls, deciding, waitingCard, overtaken, decision,
                   decisions, visitsPast>>

-----------------------------------------------------------------------------
OrdersInit ==
    /\ current \in [Orders -> {"none", "pending", "confirmed"}]
    /\ calendar = Min(Dates)
    /\ listed = current /\ listedOn = calendar
    /\ filter = [period |-> "upcoming", status |-> "all", delivery |-> "all",
                 search |-> {}]
    /\ selected = Unset
    /\ wide \in BOOLEAN
    /\ deciding = Nobody /\ waitingCard = Nobody /\ overtaken = {} /\ decision = Nobody
    /\ decisions = 0 /\ takenVisits = {} /\ toldVisits = {} /\ unheardVisits = {}

OrdersNext ==
    \/ \E period \in {"upcoming", "history"} : SelectPeriod(period)
    \/ \E status \in {"pending", "confirmed", "all"} : SelectStatus(status)
    \/ \E words \in Searches : TypeSearch(words)
    \/ \E method \in {"all", "office", "home"} : ApplyDelivery(method)
    \/ \E date \in Dates : ToggleDay(date)
    \/ \E o \in Orders, status \in {"confirmed", "rejected"} : Decide(o, status)
    \/ ServeDecision \/ (\E d \in overtaken : ServeOvertaken(d))
    \/ DecisionArrives \/ DecisionLost \/ CloseDecided \/ Meanwhile

OrdersSpec == OrdersInit /\ [][OrdersNext]_ordersVars

\* Every request is answered, or fails.
OrdersFairness == WF_ordersVars(DecisionArrives \/ DecisionLost)

-----------------------------------------------------------------------------
(* Properties *)

UpToDate == listed = current /\ listedOn = calendar

\* The two normalisations agree on a word.
Ordinary(x) == x.marks \subseteq {"accent"}

\* They agree on the words searched for and on those of the orders like them.
SearchedAlike ==
    \A x \in filter.search :
        /\ Ordinary(x)
        /\ \A o \in Loaded : \A y \in TextOf[o] : y.letters = x.letters => Ordinary(y)

\* The file has the orders of the screen, if nothing changed since it was loaded:
\* "si cambia uno, tiene que cambiar el otro, o el archivo exportado deja de
\* coincidir con la lista" (lib/provider-orders.ts:37).  The two were written
\* apart, and agree but on spacing accents and signs.
FileIsTheList == UpToDate /\ SearchedAlike => Exported = Visible

\* What is told was taken by the server, and what it took is told, in the list
\* the order leaves too, whatever is filtered meanwhile, unless its visit was
\* interrupted or lost: "al decidir, el pedido puede salir de la lista filtrada y
\* su tarjeta se desmonta" (provider-order-decided-sheet.tsx:26).
TakenIsTold ==
    /\ toldVisits \subseteq takenVisits
    /\ takenVisits \subseteq toldVisits \cup unheardVisits
                        \cup (IF deciding = Nobody THEN {} ELSE {deciding.visit})

\* What a card offers, the server takes, if neither the order nor the day has
\* changed since the page was loaded: rejectable (provider/order_serializer.rb)
\* against Order#decide.
OfferedIsTaken ==
    (deciding # Nobody /\ deciding.answer = "waiting" /\ calendar = listedOn)
    => (current[deciding.id] = listed[deciding.id]
          => Decidable(deciding.id, deciding.status))

\* The list, the file, the cards and the news of a decision agree with each other.
ListsAgree == FileIsTheList /\ TakenIsTold /\ OfferedIsTaken
=============================================================================
