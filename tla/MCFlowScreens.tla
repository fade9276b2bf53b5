----------------------------- MODULE MCFlowScreens ----------------------------
(* Tasks that take several steps and answers, instances for TLC: a provider *)
(* that decides on its orders, edits the agenda of a dish, publishes dishes, *)
(* imports a menu, is taken on or goes through its menu by weeks, and an    *)
(* employee that fills its cart.  A behaviour is of one task, chosen at the *)
(* start; the others stay as they open.                                     *)
EXTENDS ProviderOrdersPage, MenuAgendas, MenuPublishing, MenuImport,
        ProviderOnboarding, MenuWeek, ConsumerCart, TLC

CONSTANTS o1, o2, w, blank

VARIABLE area

SomeDates == (o1 :> 1) @@ (o2 :> 2)
SomeMethods == (o1 :> "office") @@ (o2 :> "home")

Word(letters, marks) == [letters |-> letters, marks |-> marks]

\* A name with an accent in what is searched for, and an emoji in one of the
\* orders; an accent alone, which is no word on the page and one in the file; the
\* name of a status.
SomeTexts == (o1 :> {Word("ana", {})}) @@ (o2 :> {Word("ana", {"sign"})})
SomeSearches ==
    {{}, {Word("ana", {"accent"})}, {Word("", {"spacing"})}, {Word("pending", {})}}

\* Bound: the lists are filtered by one thing at a time, besides the period.
FilteredByOne ==
    Cardinality({filter.status, filter.delivery} \ {"all"})
      + (IF filter.search = {} THEN 0 ELSE 1) =< 1

SomeDays == (o1 :> 3) @@ (o2 :> 3) @@ (w :> 5)

NoBenefits == {{}}

SomeOrdersInit ==
    /\ OrdersInit
    /\ \/ current[o1] = "pending" /\ current[o2] = "none" /\ ~wide
       \/ current[o1] = "confirmed" /\ current[o2] = "pending" /\ wide

FlowInit ==
    /\ area \in {"orders", "agenda", "publishing", "import", "onboarding", "week", "cart"}
    /\ SomeOrdersInit
    /\ area # "orders" =>
         current[o1] = "pending"
    /\ AgendaInit /\ (area # "agenda" => ~editing /\ agenda.weekdays = {})
    /\ PublishingInit /\ (area # "publishing" => published = {})
    /\ ImportInit /\ (area # "import" => menus = [name \in Names |-> "none"])
    /\ area = "import" => menus[o1] = "saved" /\ menus[o2] \in {"none", "ordered"}
    /\ OnboardingInit /\ (area # "onboarding" => atStep = 0 /\ savedProvider = Unconfigured)
    /\ WeekInit
    /\ Init

FlowNext ==
    /\ UNCHANGED area
    /\ \/ /\ area = "orders" /\ OrdersNext /\ FilteredByOne'
          /\ UNCHANGED <<agendaVars, publishingVars, importVars, onboardingVars, weekVars, vars>>
       \/ /\ area = "agenda" /\ AgendaNext
          /\ UNCHANGED <<ordersVars, publishingVars, importVars, onboardingVars, weekVars, vars>>
       \/ /\ area = "publishing" /\ PublishingNext
          /\ UNCHANGED <<ordersVars, agendaVars, importVars, onboardingVars, weekVars, vars>>
       \/ /\ area = "import" /\ ImportNext
          /\ UNCHANGED <<ordersVars, agendaVars, publishingVars, onboardingVars, weekVars, vars>>
       \/ /\ area = "onboarding" /\ OnboardingNext
          /\ UNCHANGED <<ordersVars, agendaVars, publishingVars, importVars, weekVars, vars>>
       \/ /\ area = "week" /\ WeekNext
          /\ UNCHANGED <<ordersVars, agendaVars, publishingVars, importVars, onboardingVars, vars>>
       \/ /\ area = "cart" /\ Next
          /\ UNCHANGED <<ordersVars, agendaVars, publishingVars, importVars, onboardingVars, weekVars>>

flowVars ==
    <<area, ordersVars, agendaVars, publishingVars, importVars, onboardingVars, weekVars, vars>>

FlowSpec ==
    /\ FlowInit /\ [][FlowNext]_flowVars
    /\ OrdersFairness /\ AgendaFairness /\ PublishingFairness
    /\ ImportFairness /\ OnboardingFairness /\ WeekFairness
    /\ CartFairness

\* A task is held by an answer: a card that decides, a form that saves, a visit, an
\* import, a step, a change of week, the price of a cart.
Held ==
    \/ deciding # Nobody \/ sent # NotSent \/ visit # NoVisit
    \/ importing # NoName \/ trip # NoTrip \/ moving # NoMove
    \/ loading

\* Whatever is shown as on its way ends, of every task of this instance: as a
\* behaviour is of one task, that none of them is held for ever says it of each.
\* The cart can wait for its confirmation as well.
EveryWaitEnds ==
    /\ Held ~> ~Held
    /\ ConfirmSettles
===============================================================================
