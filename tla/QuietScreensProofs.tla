------------------------- MODULE QuietScreensProofs -------------------------
(***************************************************************************)
(* What holds of the screens whose promises are all of safety, for any     *)
(* number of dishes, options, providers, employees and requests: choosing  *)
(* a dish (DishChoices), going through the menu (MenuBrowsing), the form   *)
(* of a special subsidy (SpecialSubsidies), the employees as HR sees them  *)
(* (EmployeeHistory) and the groups of options of a dish (DishOptions).    *)
(***************************************************************************)
EXTENDS DishChoices, MenuBrowsing, DishOptions, SpecialSubsidies, EmployeeHistory,
        SumTheorems, SequenceTheorems

-----------------------------------------------------------------------------
(* Choosing a dish.  What was chosen under one menu alone fits that menu.  *)

\* Only groups of the menu, and of each as many of its options as it takes.
Fits(choice, menu) ==
    /\ DOMAIN choice \subseteq GroupIds(menu)
    /\ \A group \in menu : group.id \in DOMAIN choice =>
         /\ choice[group.id] \subseteq group.options
         /\ IsFiniteSet(choice[group.id]) /\ Cardinality(choice[group.id]) <= group.limit

\* And something of every group that asks for it.
Complete(choice, menu) ==
    \A group \in menu : group.required => /\ group.id \in DOMAIN choice
                                          /\ choice[group.id] # {}

ChoicesInv ==
    /\ offered \in Menus /\ menuShown \in Menus
    /\ selections # NotChosen => menuShown \in begun
    /\ cartLine # NotChosen => begun # {}
    /\ \A menu \in Menus : begun = {menu} =>
         /\ selections # NotChosen => Fits(selections, menu)
         /\ cartLine # NotChosen => Fits(cartLine, menu) /\ Complete(cartLine, menu)
    /\ refused # NotChosen => selections = NotChosen /\ begun # {refused}

\* A choice that fits the menu as it is, with all it asks for, is taken.
LEMMA FittingIsTaken ==
    ASSUME NEW choice, offered \in Menus, Fits(choice, offered), Complete(choice, offered)
    PROVE  OfferedByMenu(choice)
<1> DEFINE filled == {id \in DOMAIN choice : choice[id] # {}}
<1>1. filled \subseteq GroupIds(offered)
  BY DEF Fits
<1>2. ASSUME NEW group \in offered
      PROVE  LET values == IF group.id \in filled THEN choice[group.id] ELSE {}
             IN /\ group.required => values # {}
                /\ Cardinality(values) <= group.limit
                /\ values \subseteq group.options
  <2>1. group.limit \in Int /\ group.limit >= 1
    BY ChoicesAssumption
  <2>2. Cardinality({}) = 0
    BY FS_EmptySet
  <2> QED BY <2>1, <2>2 DEF Fits, Complete
<1> QED BY <1>1, <1>2 DEF OfferedByMenu

\* A box that is ticked or not leaves a choice that fits.
LEMMA ChooseFits ==
    ASSUME NEW menu \in Menus, menuShown = menu, Fits(selections, menu),
           NEW group \in menu, NEW values, values \subseteq group.options,
           IsFiniteSet(values), Cardinality(values) <= group.limit,
           SetValues(group.id, values)
    PROVE  Fits(selections', menu)
<1>1. /\ DOMAIN selections' = DOMAIN selections \cup {group.id}
      /\ selections'[group.id] = values
      /\ \A id \in DOMAIN selections \ {group.id} : selections'[id] = selections[id]
  BY DEF SetValues
<1>2. \A other \in menu : other.id = group.id => other = group
  BY ChoicesAssumption
<1>3. group.id \in GroupIds(menu)
  BY DEF GroupIds
<1> QED BY <1>1, <1>2, <1>3 DEF Fits

LEMMA ChoicesStep == ChoicesInv /\ [ChoicesNext]_choicesVars => ChoicesInv'
<1> SUFFICES ASSUME ChoicesInv, [ChoicesNext]_choicesVars PROVE ChoicesInv'
  OBVIOUS
<1>1. CASE LoadMenu
  BY <1>1 DEF LoadMenu, ChoicesInv
<1>2. CASE OpenDish
  <2>1. /\ UNCHANGED <<offered, menuShown, cartLine, refused>>
        /\ begun' = begun \cup {menuShown}
        /\ selections' = IF cartLine = NotChosen THEN NoSelections ELSE cartLine
        /\ refused = NotChosen
    BY <1>2 DEF OpenDish
  <2>2. \A menu : Fits(NoSelections, menu)
    BY DEF Fits, NoSelections
  <2>3. ASSUME NEW menu \in Menus, begun' = {menu}, cartLine # NotChosen
        PROVE  begun = {menu}
    BY <2>1, <2>3 DEF ChoicesInv
  <2> QED BY <2>1, <2>2, <2>3 DEF ChoicesInv
<1>3. CASE Choose
  <2>1. selections # NotChosen /\ UNCHANGED <<offered, menuShown, cartLine, begun, refused>>
        /\ refused = NotChosen
    BY <1>3 DEF Choose, ChoicesInv
  <2>2. ASSUME NEW menu \in Menus, begun = {menu} PROVE Fits(selections', menu)
    <3>1. menuShown = menu /\ Fits(selections, menu)
      BY <2>1, <2>2 DEF ChoicesInv
    <3>2. PICK group \in menuShown : \E option \in group.options :
             LET values == ChosenOf(group.id)
             IN
             \/ group.limit = 1
                /\ SetValues(group.id, IF values = {option} THEN {} ELSE {option})
             \/ /\ group.limit > 1 /\ option \in values
                /\ SetValues(group.id, values \ {option})
             \/ /\ group.limit > 1 /\ option \notin values
                /\ Cardinality(values) < group.limit
                /\ SetValues(group.id, values \cup {option})
      BY <1>3 DEF Choose
    <3>3. PICK option \in group.options :
             LET values == ChosenOf(group.id)
             IN
             \/ group.limit = 1
                /\ SetValues(group.id, IF values = {option} THEN {} ELSE {option})
             \/ /\ group.limit > 1 /\ option \in values
                /\ SetValues(group.id, values \ {option})
             \/ /\ group.limit > 1 /\ option \notin values
                /\ Cardinality(values) < group.limit
                /\ SetValues(group.id, values \cup {option})
      BY <3>2
    <3> DEFINE values == ChosenOf(group.id)
    <3>4. /\ group \in menu /\ group.limit \in Int /\ group.limit >= 1
          /\ IsFiniteSet({}) /\ Cardinality({}) = 0
          /\ IsFiniteSet({option}) /\ Cardinality({option}) = 1
      <4>1. group \in menu /\ group.limit \in Int /\ group.limit >= 1
        BY <3>1, ChoicesAssumption
      <4>2. IsFiniteSet({}) /\ Cardinality({}) = 0
        BY FS_EmptySet
      <4>3. IsFiniteSet({option}) /\ Cardinality({option}) = 1
        BY FS_Singleton
      <4> QED BY <4>1, <4>2, <4>3
    <3>5. values \subseteq group.options /\ IsFiniteSet(values)
          /\ Cardinality(values) <= group.limit /\ Cardinality(values) \in Nat
      <4>1. CASE group.id \in DOMAIN selections
        BY <3>1, <3>4, <4>1, FS_CardinalityType DEF Fits, ChosenOf
      <4>2. CASE group.id \notin DOMAIN selections
        BY <3>4, <4>2 DEF ChosenOf
      <4> QED BY <4>1, <4>2
    <3>6. CASE SetValues(group.id, {}) \/ SetValues(group.id, {option})
      BY <3>1, <3>4, <3>6, ChooseFits
    <3>7. CASE SetValues(group.id, values \ {option})
      <4>1. IsFiniteSet(values \ {option}) /\ Cardinality(values \ {option}) <= group.limit
            /\ values \ {option} \subseteq group.options
        BY <3>4, <3>5, FS_RemoveElement, FS_Subset, FS_CardinalityType
      <4> QED BY <3>1, <3>4, <3>7, <4>1, ChooseFits
    <3>8. CASE /\ option \notin values /\ Cardinality(values) < group.limit
               /\ SetValues(group.id, values \cup {option})
      <4>1. /\ IsFiniteSet(values \cup {option})
            /\ Cardinality(values \cup {option}) = Cardinality(values) + 1
        BY <3>5, <3>8, FS_AddElement
      <4>2. Cardinality(values \cup {option}) <= group.limit
            /\ values \cup {option} \subseteq group.options
        BY <3>4, <3>5, <3>8, <4>1
      <4> QED BY <3>1, <3>4, <3>8, <4>1, <4>2, ChooseFits
    <3> QED BY <3>3, <3>6, <3>7, <3>8
  <2> QED BY <2>1, <2>2 DEF ChoicesInv
<1>4. CASE AddDish
  <2>1. /\ selections # NotChosen /\ ~ChoicesMissing /\ cartLine' = selections
        /\ selections' = NotChosen
        /\ UNCHANGED <<offered, menuShown, begun, refused>>
    BY <1>4 DEF AddDish
  <2>2. Complete(selections, menuShown)
    BY <2>1 DEF ChoicesMissing, ChosenOf, Complete
  <2>3. \A menu \in Menus : begun = {menu} => menuShown = menu
    BY <2>1 DEF ChoicesInv
  <2> QED BY <2>1, <2>2, <2>3 DEF ChoicesInv
<1>5. CASE DropDish
  BY <1>5 DEF DropDish, ChoicesInv
<1>6. CASE OrderDish
  <2>1. CASE OfferedByMenu(cartLine)
    BY <1>6, <2>1 DEF OrderDish, ChoicesInv
  <2>2. CASE ~OfferedByMenu(cartLine)
    <3>1. begun # {offered}
      BY <1>6, <2>2, FittingIsTaken DEF OrderDish, ChoicesInv
    <3> QED BY <1>6, <2>2, <3>1 DEF OrderDish, ChoicesInv
  <2> QED BY <2>1, <2>2
<1>7. CASE ChangeDish
  BY <1>7 DEF ChangeDish, ChoicesInv
<1>8. CASE UNCHANGED choicesVars
  BY <1>8 DEF choicesVars, ChoicesInv
<1> QED BY <1>1, <1>2, <1>3, <1>4, <1>5, <1>6, <1>7, <1>8 DEF ChoicesNext

\* The boxes and the button let through what the server takes: whatever the
\* dishes ask for, an order is refused for its options only if the provider
\* changed them while the employee chose (option-choices.tsx:64-101,
\* order.rb:539-552).
THEOREM RefusedIfChanged == ChoicesSpec => []RefusedOnlyIfChanged
<1>1. ChoicesInit => ChoicesInv
  BY DEF ChoicesInit, ChoicesInv
<1>2. ChoicesInv => RefusedOnlyIfChanged
  BY DEF ChoicesInv, RefusedOnlyIfChanged
<1> QED BY <1>1, <1>2, ChoicesStep, PTL DEF ChoicesSpec

-----------------------------------------------------------------------------
(* Going through the menu.  The notices and the filter are as they were     *)
(* left by the steps of their own; a star with no visit on its way is what  *)
(* was last asked of it because a visit always asks for that, and the only  *)
(* ones that may ask for something else were interrupted, and are counted   *)
(* as crossed when they are served after all.                               *)

Visit == [star : Stars, on : BOOLEAN, served : BOOLEAN, answer : SUBSET Stars]
Asks == [star : Stars, on : BOOLEAN]

\* A filter leaves one out of the providers it was picked among; no sheet is open over a dish.
FilterInv == AllIsNoFilter /\ (browsing = "dish" => draftFilter = NoSheet)

StarsInv ==
    /\ starsShown \subseteq Stars /\ starsSaved \subseteq Stars
    /\ starVisit # NoStar => starVisit \in Visit
    /\ adriftStars \subseteq Asks
    /\ starVisit # NoStar => (starVisit.on <=> starVisit.star \in starsAsked)
    /\ \A star \in Stars \ starsCrossed :
         \/ star \in starsSaved <=> star \in starsAsked
         \/ starVisit # NoStar /\ ~starVisit.served /\ starVisit.star = star
         \/ \E asks \in adriftStars : asks.star = star
    /\ browsing = "orders" => starVisit = NoStar
    /\ browsing # "orders" /\ ~starsBehind =>
         /\ starVisit = NoStar => starsShown = starsSaved
         /\ starVisit # NoStar /\ starVisit.served => starVisit.answer = starsSaved

BrowsingInv == FilterInv /\ dismissed = dismissedAt /\ StarsInv

LEMMA FilterStep == FilterInv /\ [BrowsingNext]_browsingVars => FilterInv'
<1> SUFFICES ASSUME FilterInv, [BrowsingNext]_browsingVars PROVE FilterInv'
  OBVIOUS
<1> USE DEF FilterInv, AllIsNoFilter
<1>1. CASE UNCHANGED filterVars /\ (UNCHANGED browsing \/ OpenDishOfMenu \/ BackToMenu)
  BY <1>1 DEF filterVars, OpenDishOfMenu, BackToMenu, LeavesOneOut
<1>2. CASE OpenFilter
  BY <1>2 DEF OpenFilter, SelectedProviders, LeavesOneOut
<1>3. CASE PickOption
  <2>1. UNCHANGED <<browsing, menuFilter, menuAmong>> /\ draftAmong' = kitchensShown
        /\ browsing # "dish"
    BY <1>3 DEF PickOption
  <2>2. browsing = "menu" => draftFilter' = {} \/ ~ (kitchensShown \subseteq draftFilter')
    BY <1>3 DEF PickOption, Toggled
  <2> QED BY <2>1, <2>2 DEF LeavesOneOut
<1>4. CASE ApplyFilter
  BY <1>4 DEF ApplyFilter, LeavesOneOut
<1>5. CASE CancelFilter
  BY <1>5 DEF CancelFilter, LeavesOneOut
<1>6. CASE FilterByProvider
  <2>1. PICK kitchen \in kitchensShown :
           menuFilter' = IF menuFilter = {kitchen} THEN {} ELSE {kitchen}
    BY <1>6 DEF FilterByProvider
  <2>2. menuAmong' = kitchensShown /\ UNCHANGED <<browsing, draftFilter>> /\ draftFilter = NoSheet
    BY <1>6 DEF FilterByProvider
  <2> QED BY <2>1, <2>2 DEF LeavesOneOut
<1>7. CASE GoToOrders \/ GoToMenu \/ AnotherSession
  BY <1>7 DEF GoToOrders, GoToMenu, AnotherSession, LeavesOneOut
<1> QED BY <1>1, <1>2, <1>3, <1>4, <1>5, <1>6, <1>7
      DEF BrowsingNext, browsingVars, filterVars, ChangeDate, Dismiss, ToggleFavorite, ServeStar,
          ServeStarLate, StarArrives, StarLost, OpenDishOfMenu, BackToMenu

LEMMA StarsStep == StarsInv /\ [BrowsingNext]_browsingVars => StarsInv'
<1> SUFFICES ASSUME StarsInv, [BrowsingNext]_browsingVars PROVE StarsInv'
  OBVIOUS
<1>1. CASE UNCHANGED starVars /\ ((browsing' = "orders") = (browsing = "orders"))
  BY <1>1 DEF starVars, StarsInv
<1>2. CASE ToggleFavorite
  <2>1. PICK star \in Stars :
           LET on == star \notin starsShown IN
           /\ starVisit' = [star |-> star, on |-> on, served |-> FALSE, answer |-> {}]
           /\ starsAsked' = IF on THEN starsAsked \cup {star} ELSE starsAsked \ {star}
    BY <1>2 DEF ToggleFavorite
  <2>2. starVisit' \in Visit /\ starVisit'.star = star /\ ~starVisit'.served
        /\ (starVisit'.on <=> star \notin starsShown)
    BY <2>1 DEF Visit
  <2>3. starVisit' # NoStar
    BY <2>2, BrowsingAssumption DEF Visit
  <2>4. star \in starsAsked' <=> star \notin starsShown
    BY <2>1
  <2>5. \A other \in Stars \ {star} : other \in starsAsked' <=> other \in starsAsked
    BY <2>1
  <2>6. adriftStars' = IF starVisit # NoStar /\ ~starVisit.served
                      THEN adriftStars \cup {[star |-> starVisit.star, on |-> starVisit.on]}
                      ELSE adriftStars
    BY <1>2 DEF ToggleFavorite
  <2>7. adriftStars' \subseteq Asks /\ adriftStars \subseteq adriftStars'
    BY <2>6 DEF StarsInv, Visit, Asks
  <2>8. starVisit # NoStar /\ ~starVisit.served =>
           \E asks \in adriftStars' : asks.star = starVisit.star
    <3> DEFINE cut == [star |-> starVisit.star, on |-> starVisit.on]
    <3>1. cut.star = starVisit.star
      OBVIOUS
    <3>2. starVisit # NoStar /\ ~starVisit.served => cut \in adriftStars'
      BY <2>6
    <3> HIDE DEF cut
    <3> QED BY <3>1, <3>2
  <2>9. UNCHANGED <<browsing, starsShown, starsSaved, starsCrossed, starsBehind>>
        /\ browsing = "menu"
    BY <1>2 DEF ToggleFavorite
  <2>10. ASSUME NEW other \in Stars \ starsCrossed'
         PROVE  \/ other \in starsSaved' <=> other \in starsAsked'
                \/ starVisit' # NoStar /\ ~starVisit'.served /\ starVisit'.star = other
                \/ \E asks \in adriftStars' : asks.star = other
    BY <2>2, <2>3, <2>5, <2>7, <2>8, <2>9 DEF StarsInv
  <2> QED BY <2>2, <2>3, <2>4, <2>7, <2>9, <2>10 DEF StarsInv
<1>3. CASE ServeStar
  <2>1. starVisit # NoStar /\ ~starVisit.served /\ starVisit \in Visit
    BY <1>3 DEF ServeStar, StarsInv
  <2>2. starVisit' = [starVisit EXCEPT !.served = TRUE, !.answer = starsSaved']
        /\ starsSaved' = StarsAfter(starVisit.star, starVisit.on)
        /\ ~starsBehind'
    BY <1>3 DEF ServeStar
  <2>3. starsSaved' \subseteq Stars
    BY <2>1, <2>2 DEF StarsAfter, Visit, StarsInv
  <2>4. /\ starVisit' \in Visit /\ starVisit'.star = starVisit.star
        /\ starVisit'.on = starVisit.on /\ starVisit'.served /\ starVisit'.answer = starsSaved'
    BY <2>1, <2>2, <2>3 DEF Visit
  <2>5. starVisit' # NoStar
    BY <2>4, BrowsingAssumption DEF Visit
  <2>6. UNCHANGED <<browsing, starsShown, adriftStars, starsAsked, starsCrossed>>
    BY <1>3 DEF ServeStar
  <2>7. starVisit.star \in starsSaved' <=> starVisit.star \in starsAsked
    BY <2>1, <2>2 DEF StarsAfter, StarsInv
  <2>8. \A other \in Stars \ {starVisit.star} : other \in starsSaved' <=> other \in starsSaved
    BY <2>2 DEF StarsAfter
  <2>9. ASSUME NEW other \in Stars \ starsCrossed'
         PROVE  \/ other \in starsSaved' <=> other \in starsAsked'
                \/ \E asks \in adriftStars' : asks.star = other
    BY <2>6, <2>7, <2>8 DEF StarsInv
  <2> QED BY <2>1, <2>2, <2>3, <2>4, <2>5, <2>6, <2>9 DEF StarsInv
<1>4. CASE ServeStarLate
  <2>1. PICK asks \in adriftStars :
           /\ adriftStars' = adriftStars \ {asks}
           /\ starsSaved' = StarsAfter(asks.star, asks.on)
           /\ starsCrossed' = IF asks.on # (asks.star \in starsAsked)
                              THEN starsCrossed \cup {asks.star} ELSE starsCrossed
    BY <1>4 DEF ServeStarLate
  <2>2. asks \in Asks
    BY DEF StarsInv
  <2>3. starsSaved' \subseteq Stars
    BY <2>1, <2>2 DEF StarsAfter, Asks, StarsInv
  <2>4. UNCHANGED <<browsing, starsShown, starVisit, starsAsked>> /\ starsBehind'
    BY <1>4 DEF ServeStarLate
  <2>5. asks.star \notin starsCrossed' => (asks.star \in starsSaved' <=> asks.star \in starsAsked)
    BY <2>1, <2>2 DEF StarsAfter, Asks
  <2>6. \A other \in Stars \ {asks.star} : other \in starsSaved' <=> other \in starsSaved
    BY <2>1 DEF StarsAfter
  <2>7. starsCrossed \subseteq starsCrossed'
    BY <2>1
  <2>8. ASSUME NEW other \in Stars \ starsCrossed'
         PROVE  \/ other \in starsSaved' <=> other \in starsAsked'
                \/ starVisit' # NoStar /\ ~starVisit'.served /\ starVisit'.star = other
                \/ \E some \in adriftStars' : some.star = other
    BY <2>1, <2>4, <2>5, <2>6, <2>7 DEF StarsInv
  <2> QED BY <2>1, <2>3, <2>4, <2>8 DEF StarsInv
<1>5. CASE StarArrives
  <2>1. starVisit \in Visit /\ starsShown' = starVisit.answer /\ starVisit.served
        /\ starVisit' = NoStar
    BY <1>5 DEF StarArrives, StarsInv
  <2> QED BY <1>5, <2>1 DEF StarArrives, StarsInv, Visit
<1>6. CASE StarLost
  <2>1. starVisit' = NoStar /\ starsCrossed \subseteq starsCrossed' /\ starsBehind'
        /\ (~starVisit.served => starVisit.star \in starsCrossed')
    BY <1>6 DEF StarLost
  <2> QED BY <1>6, <2>1 DEF StarLost, StarsInv
<1>7. CASE GoToOrders
  <2>1. adriftStars' = IF starVisit # NoStar /\ ~starVisit.served
                      THEN adriftStars \cup {[star |-> starVisit.star, on |-> starVisit.on]}
                      ELSE adriftStars
    BY <1>7 DEF GoToOrders
  <2>2. adriftStars' \subseteq Asks /\ adriftStars \subseteq adriftStars'
    BY <2>1 DEF StarsInv, Visit, Asks
  <2>3. starVisit # NoStar /\ ~starVisit.served =>
           \E asks \in adriftStars' : asks.star = starVisit.star
    <3> DEFINE cut == [star |-> starVisit.star, on |-> starVisit.on]
    <3>1. cut.star = starVisit.star
      OBVIOUS
    <3>2. starVisit # NoStar /\ ~starVisit.served => cut \in adriftStars'
      BY <2>1
    <3> HIDE DEF cut
    <3> QED BY <3>1, <3>2
  <2> QED BY <1>7, <2>2, <2>3 DEF GoToOrders, StarsInv
<1>8. CASE GoToMenu
  BY <1>8 DEF GoToMenu, StarsInv
<1> QED BY <1>1, <1>2, <1>3, <1>4, <1>5, <1>6, <1>7, <1>8
      DEF BrowsingNext, browsingVars, starVars, ChangeDate, Dismiss, OpenFilter, PickOption,
          ApplyFilter, CancelFilter, FilterByProvider, OpenDishOfMenu, BackToMenu, AnotherSession

\* The filter, the notices and the stars of the menu are as they were last left,
\* whatever visits are interrupted, lost or served late (weekly-menu.tsx:79-116,
\* provider-filter-sheet.tsx, lib/favorites.ts, consumer/favorites_controller.rb).
THEOREM MenuLeftAsChosen == BrowsingSpec => []LeftAsChosen
<1>1. BrowsingInit => BrowsingInv
  BY DEF BrowsingInit, BrowsingInv, FilterInv, AllIsNoFilter, LeavesOneOut, StarsInv
<1>2. BrowsingInv /\ [BrowsingNext]_browsingVars => BrowsingInv'
  <2> SUFFICES ASSUME BrowsingInv, [BrowsingNext]_browsingVars
               PROVE  dismissed' = dismissedAt'
    BY FilterStep, StarsStep DEF BrowsingInv
  <2>1. CASE Dismiss
    BY <2>1 DEF Dismiss, Remember, BrowsingInv
  <2>2. CASE UNCHANGED <<dismissed, dismissedAt>>
    BY <2>2 DEF BrowsingInv
  <2> QED BY <2>1, <2>2
        DEF BrowsingNext, browsingVars, noticeVars, ChangeDate, OpenFilter, PickOption, ApplyFilter,
            CancelFilter, FilterByProvider, ToggleFavorite, ServeStar, ServeStarLate, StarArrives,
            StarLost, OpenDishOfMenu, BackToMenu, GoToOrders, GoToMenu, AnotherSession
<1>3. BrowsingInv => LeftAsChosen
  <2> SUFFICES ASSUME BrowsingInv PROVE LeftAsChosen
    OBVIOUS
  <2>1. AllIsNoFilter
    BY DEF BrowsingInv, FilterInv
  <2>2. NoticesGoOneByOne
    BY DEF BrowsingInv, NoticesGoOneByOne, NoticesOnShow
  <2>3. StarsAsAsked
    BY DEF BrowsingInv, StarsInv, StarsAsAsked
  <2> QED BY <2>1, <2>2, <2>3 DEF LeftAsChosen
<1> QED BY <1>1, <1>2, <1>3, PTL DEF BrowsingSpec
-----------------------------------------------------------------------------
(* The form of a special subsidy.  First the calendar: an advance of some   *)
(* months ends after the day it starts from.                                *)

LEMMA StartsWithinTheYear ==
  \A r \in 0..11 : /\ MonthStarts[r + 1] \in 0..364
                   /\ MonthStarts[r + 1] < MonthStarts[r + 2]
                   /\ MonthStarts[r + 2] <= 365
<1>1. /\ MonthStarts[1] = 0 /\ MonthStarts[2] = 31 /\ MonthStarts[3] = 59
      /\ MonthStarts[4] = 90 /\ MonthStarts[5] = 120 /\ MonthStarts[6] = 151
      /\ MonthStarts[7] = 181 /\ MonthStarts[8] = 212 /\ MonthStarts[9] = 243
      /\ MonthStarts[10] = 273 /\ MonthStarts[11] = 304 /\ MonthStarts[12] = 334
      /\ MonthStarts[13] = 365
  BY DEF MonthStarts
<1> SUFFICES ASSUME NEW r \in 0..11
             PROVE /\ MonthStarts[r + 1] \in 0..364
                   /\ MonthStarts[r + 1] < MonthStarts[r + 2]
                   /\ MonthStarts[r + 2] <= 365
  OBVIOUS
<1>2. r \in {0, 1, 2, 3, 4, 5, 6, 7, 8, 9, 10, 11}
  OBVIOUS
<1> QED BY <1>1, <1>2

LEMMA StartsInOrder ==
  ASSUME NEW m \in Int, NEW n \in Int, m < n
  PROVE  StartOfMonth(m) \in Int /\ StartOfMonth(n) \in Int /\ StartOfMonth(m) < StartOfMonth(n)
<1> DEFINE r == m % 12  t == n % 12
           yearFrom == 365 * (m \div 12)  yearTo == 365 * (n \div 12)
           from == MonthStarts[r + 1]  to == MonthStarts[t + 1]
<1>1. /\ r \in 0..11 /\ t \in 0..11 /\ yearFrom \in Int /\ yearTo \in Int
      /\ yearFrom + 365 <= yearTo \/ (yearFrom = yearTo /\ r < t)
  OBVIOUS
<1>2. StartOfMonth(m) = yearFrom + from /\ StartOfMonth(n) = yearTo + to
  BY DEF StartOfMonth
<1> HIDE DEF r, t, yearFrom, yearTo
<1>3. from \in 0..364 /\ to \in 0..364
  BY <1>1, StartsWithinTheYear
<1>4. \A i, j \in 0..11 : i < j => MonthStarts[i + 1] < MonthStarts[j + 1]
  <2>1. /\ MonthStarts[1] = 0 /\ MonthStarts[2] = 31 /\ MonthStarts[3] = 59
        /\ MonthStarts[4] = 90 /\ MonthStarts[5] = 120 /\ MonthStarts[6] = 151
        /\ MonthStarts[7] = 181 /\ MonthStarts[8] = 212 /\ MonthStarts[9] = 243
        /\ MonthStarts[10] = 273 /\ MonthStarts[11] = 304 /\ MonthStarts[12] = 334
    BY DEF MonthStarts
  <2> SUFFICES ASSUME NEW i \in 0..11, NEW j \in 0..11, i < j
               PROVE MonthStarts[i + 1] < MonthStarts[j + 1]
    OBVIOUS
  <2>2. i \in {0, 1, 2, 3, 4, 5, 6, 7, 8, 9, 10, 11}
        /\ j \in {0, 1, 2, 3, 4, 5, 6, 7, 8, 9, 10, 11}
    OBVIOUS
  <2> QED BY <2>1, <2>2
<1>5. r < t => from < to
  BY <1>1, <1>4
<1> HIDE DEF from, to
<1> QED BY <1>1, <1>2, <1>3, <1>5

LEMMA DayWithinItsMonth ==
  ASSUME NEW day \in Int
  PROVE  /\ MonthOf(day) \in Int
         /\ StartOfMonth(MonthOf(day)) <= day
         /\ day < StartOfMonth(MonthOf(day) + 1)
<1> DEFINE d == day % 365
           y == day \div 365
           Covers(month) == MonthStarts[month + 1] <= d /\ d < MonthStarts[month + 2]
           month == CHOOSE month \in 0..11 : Covers(month)
<1>1. d \in 0..364 /\ y \in Int /\ day = 365 * y + d
  OBVIOUS
<1>2. month \in 0..11 /\ Covers(month)
  <2>1. /\ MonthStarts[1] = 0 /\ MonthStarts[2] = 31 /\ MonthStarts[3] = 59
        /\ MonthStarts[4] = 90 /\ MonthStarts[5] = 120 /\ MonthStarts[6] = 151
        /\ MonthStarts[7] = 181 /\ MonthStarts[8] = 212 /\ MonthStarts[9] = 243
        /\ MonthStarts[10] = 273 /\ MonthStarts[11] = 304 /\ MonthStarts[12] = 334
        /\ MonthStarts[13] = 365
    BY DEF MonthStarts
  <2> HIDE DEF d
  <2>2. \E k \in 0..11 : Covers(k)
    <3>1. Covers(0) \/ Covers(1) \/ Covers(2) \/ Covers(3) \/ Covers(4) \/ Covers(5)
          \/ Covers(6) \/ Covers(7) \/ Covers(8) \/ Covers(9) \/ Covers(10) \/ Covers(11)
      BY <1>1, <2>1
    <3> QED BY <3>1
  <2> QED BY <2>2
<1>3. MonthOf(day) = 12 * y + month
  BY DEF MonthOf
<1> HIDE DEF d, y, month
<1>4. MonthOf(day) \in Int /\ MonthOf(day) \div 12 = y /\ MonthOf(day) % 12 = month
  BY <1>1, <1>2, <1>3
<1>5. StartOfMonth(MonthOf(day)) = 365 * y + MonthStarts[month + 1]
  BY <1>4 DEF StartOfMonth
<1>6. StartOfMonth(MonthOf(day) + 1) = 365 * y + MonthStarts[month + 2]
  <2>1. CASE month = 11
    <3>1. (MonthOf(day) + 1) \div 12 = y + 1 /\ (MonthOf(day) + 1) % 12 = 0
      BY <1>1, <1>3, <2>1
    <3>2. MonthStarts[1] = 0 /\ MonthStarts[13] = 365
      BY DEF MonthStarts
    <3> QED BY <1>1, <2>1, <3>1, <3>2 DEF StartOfMonth
  <2>2. CASE month # 11
    <3>1. (MonthOf(day) + 1) \div 12 = y /\ (MonthOf(day) + 1) % 12 = month + 1
      BY <1>1, <1>2, <1>3, <2>2
    <3>2. (month + 1) + 1 = month + 2
      BY <1>2
    <3> QED BY <3>1, <3>2 DEF StartOfMonth
  <2> QED BY <2>1, <2>2
<1>7. MonthStarts[month + 1] \in 0..364 /\ MonthStarts[month + 2] \in Int
  <2>1. MonthStarts[month + 1] \in 0..364
    BY <1>2, StartsWithinTheYear
  <2>2. CASE month = 11
    BY <2>2 DEF MonthStarts
  <2>3. CASE month # 11
    <3>1. month + 1 \in 0..11 /\ (month + 1) + 1 = month + 2
      BY <1>2, <2>3
    <3>2. MonthStarts[(month + 1) + 1] \in 0..364
      BY <3>1, StartsWithinTheYear
    <3>3. MonthStarts[(month + 1) + 1] = MonthStarts[month + 2]
      BY <3>1
    <3>4. MonthStarts[month + 2] \in 0..364
      BY <3>2, <3>3
    <3> QED BY <2>1, <3>4
  <2> QED BY <2>1, <2>2, <2>3
<1> QED BY <1>1, <1>2, <1>4, <1>5, <1>6, <1>7

LEMMA MonthsAdvance ==
  ASSUME NEW day \in Int, NEW months \in Nat, months > 0
  PROVE  AdvanceMonths(day, months) \in Int /\ day < AdvanceMonths(day, months)
<1> DEFINE here == MonthOf(day)
           there == here + months
           inMonth == day - StartOfMonth(here)
<1>1. here \in Int /\ StartOfMonth(here) <= day /\ day < StartOfMonth(here + 1)
  BY DayWithinItsMonth
<1> HIDE DEF here
<1>2. there \in Int /\ here < there
  BY <1>1
<1>3. StartOfMonth(here) \in Int /\ StartOfMonth(here + 1) \in Int
  BY <1>1, StartsInOrder
<1>4. StartOfMonth(here + 1) <= StartOfMonth(there) /\ StartOfMonth(there) \in Int
  <2>1. CASE here + 1 = there
    BY <2>1, <1>3
  <2>2. CASE here + 1 < there
    BY <1>1, <1>2, <2>2, StartsInOrder
  <2> QED BY <1>1, <2>1, <2>2
<1>5. LengthOfMonth(there) \in Int /\ LengthOfMonth(there) >= 1
  <2>1. there + 1 \in Int /\ there < there + 1
    BY <1>2
  <2>2. StartOfMonth(there + 1) \in Int /\ StartOfMonth(there) < StartOfMonth(there + 1)
    BY <1>2, <2>1, StartsInOrder
  <2> QED BY <1>4, <2>2 DEF LengthOfMonth
<1>6. inMonth \in Nat
  BY <1>1, <1>3
<1>7. AdvanceMonths(day, months) =
        StartOfMonth(there) + (IF inMonth < LengthOfMonth(there) THEN inMonth
                               ELSE LengthOfMonth(there) - 1)
  BY DEF AdvanceMonths, here
<1> HIDE DEF there, inMonth
<1> QED BY <1>1, <1>3, <1>4, <1>5, <1>6, <1>7

-----------------------------------------------------------------------------
(* The rules the server saves, there and back.                              *)

\* A rule keeps only what its type uses, and a gift ends no sooner than it starts.
GoodRule(rule) ==
    /\ rule \in Rule
    /\ rule.type = "seniority" => rule.limit = 0
    /\ rule.type # "seniority" => rule.years = 0
    /\ rule.type \notin {"birthday", "onboarding"} => rule.days = 0
    /\ rule.type = "gift" => rule.from # NoGiftDay /\ rule.from <= rule.until
    /\ rule.type # "gift" => rule.from = NoGiftDay /\ rule.until = 0

Good(subsidy) == subsidy \in Subsidy /\ GoodRule(subsidy.rule)

\* IsValid, of any form that was opened with any subsidy and drawn on any day.
LetGo(form, saved, day) ==
    /\ form.proper
    /\ form.all \/ form.who # {}
    /\ form.type # ""
    /\ form.type = "seniority" => form.years > 0
    /\ form.type # "seniority" => form.limit > 0 /\ form.amount > 0
    /\ form.type \in {"birthday", "onboarding"} => form.amount <= MaxValidity(form.unit)
    /\ form.type = "gift" =>
         /\ form.from # NoGiftDay
         /\ \/ form.from >= day
            \/ saved # NoRule /\ form.from = saved.rule.from

LEMMA UnitsInDays ==
  ASSUME NEW unit \in DurationUnits
  PROVE  /\ DaysPerUnit[unit] \in Nat \ {0}
         /\ MaxValidity(unit) * DaysPerUnit[unit] <= MaxValidityDays
<1>1. DaysPerUnit["days"] = 1 /\ DaysPerUnit["weeks"] = 7 /\ DaysPerUnit["months"] = 30
  BY DEF DaysPerUnit
<1>2. MaxValidity("days") = 100 /\ MaxValidity("weeks") = 14 /\ MaxValidity("months") = 3
  BY <1>1 DEF MaxValidity, MaxValidityDays
<1> QED BY <1>1, <1>2 DEF DurationUnits, MaxValidityDays

LEMMA AdvanceIsLater ==
  ASSUME NEW day \in Int, NEW amount \in Nat, amount > 0, NEW unit \in DurationUnits
  PROVE  Advance(day, amount, unit) \in Int /\ day < Advance(day, amount, unit)
<1>1. CASE unit = "months"
  BY <1>1, MonthsAdvance DEF Advance
<1>2. CASE unit # "months"
  <2>1. amount * DaysPerUnit[unit] \in Nat /\ amount * DaysPerUnit[unit] > 0
    <3>1. DaysPerUnit["days"] = 1 /\ DaysPerUnit["weeks"] = 7
      BY DEF DaysPerUnit
    <3>2. amount * 1 > 0 /\ amount * 7 > 0 /\ amount * 1 \in Nat /\ amount * 7 \in Nat
      OBVIOUS
    <3> QED BY <1>2, <3>1, <3>2 DEF DurationUnits
  <2>2. Advance(day, amount, unit) = day + amount * DaysPerUnit[unit]
    BY <1>2 DEF Advance
  <2> DEFINE more == amount * DaysPerUnit[unit]
  <2> HIDE DEF more
  <2>3. more \in Nat /\ more > 0 /\ Advance(day, amount, unit) = day + more
    BY <2>1, <2>2 DEF more
  <2> QED BY <2>3
<1> QED BY <1>1, <1>2

LEMMA BackToTheDays ==
  ASSUME NEW days \in Nat
  PROVE  LET validity == ValidityInDays(days) IN
         /\ validity.amount \in Nat /\ validity.unit \in DurationUnits
         /\ validity.amount * DaysPerUnit[validity.unit] = days
<1>1. DaysPerUnit["days"] = 1 /\ DaysPerUnit["weeks"] = 7 /\ DaysPerUnit["months"] = 30
  BY DEF DaysPerUnit
<1>2. CASE days > 0 /\ days % 30 = 0
  <2>1. ValidityInDays(days) = [amount |-> days \div 30, unit |-> "months"]
    BY <1>2 DEF ValidityInDays
  <2>2. days \div 30 \in Nat /\ (days \div 30) * 30 = days
    BY <1>2
  <2> QED BY <1>1, <2>1, <2>2 DEF DurationUnits
<1>3. CASE days > 0 /\ days % 30 # 0 /\ days % 7 = 0
  <2>1. ValidityInDays(days) = [amount |-> days \div 7, unit |-> "weeks"]
    BY <1>3 DEF ValidityInDays
  <2>2. days \div 7 \in Nat /\ (days \div 7) * 7 = days
    BY <1>3
  <2> QED BY <1>1, <2>1, <2>2 DEF DurationUnits
<1>4. CASE ~(days > 0 /\ days % 30 = 0) /\ ~(days > 0 /\ days % 30 # 0 /\ days % 7 = 0)
  <2>1. ValidityInDays(days) = [amount |-> days, unit |-> "days"]
    BY <1>4 DEF ValidityInDays
  <2> QED BY <1>1, <2>1 DEF DurationUnits
<1> QED BY <1>2, <1>3, <1>4

LEMMA BackToTheDate ==
  ASSUME NEW from \in Int, NEW to \in Int, from < to
  PROVE  LET validity == ValidityBetween(from, to) IN
         /\ validity.amount \in Nat /\ validity.unit \in DurationUnits
         /\ Advance(from, validity.amount, validity.unit) = to
<1> DEFINE months == MonthOf(to) - MonthOf(from)
           days == to - from
           inMonths == months > 0 /\ AdvanceMonths(from, months) = to
<1>1. months \in Int /\ days \in Nat
  <2>1. MonthOf(from) \in Int /\ MonthOf(to) \in Int
    BY DayWithinItsMonth
  <2> QED BY <2>1
<1>2. DaysPerUnit["days"] = 1 /\ DaysPerUnit["weeks"] = 7
  BY DEF DaysPerUnit
<1>3. CASE inMonths
  <2>1. ValidityBetween(from, to) = [amount |-> months, unit |-> "months"]
    BY <1>3 DEF ValidityBetween
  <2>2. Advance(from, months, "months") = to
    BY <1>3 DEF Advance
  <2>3. months \in Nat
    BY <1>1, <1>3
  <2> QED BY <2>1, <2>2, <2>3 DEF DurationUnits
<1>4. CASE ~inMonths /\ days % 7 = 0
  <2>1. ValidityBetween(from, to) = [amount |-> days \div 7, unit |-> "weeks"]
    BY <1>4 DEF ValidityBetween
  <2>2. days \div 7 \in Nat /\ (days \div 7) * 7 = days
    BY <1>1, <1>4
  <2>3. Advance(from, days \div 7, "weeks") = from + (days \div 7) * 7
    BY <1>2 DEF Advance
  <2>4. from + (days \div 7) * 7 = to
    BY <2>2
  <2> QED BY <2>1, <2>2, <2>3, <2>4 DEF DurationUnits
<1>5. CASE ~inMonths /\ days % 7 # 0
  <2>1. ValidityBetween(from, to) = [amount |-> days, unit |-> "days"]
    BY <1>5 DEF ValidityBetween
  <2>2. Advance(from, days, "days") = from + days * 1
    BY <1>2 DEF Advance
  <2>3. from + days * 1 = to
    BY <1>1
  <2> QED BY <1>1, <2>1, <2>2, <2>3 DEF DurationUnits
<1> QED BY <1>3, <1>4, <1>5

LEMMA GiftDaysAreDays ==
  /\ \A day \in GiftDays \cup {NoGiftDay} : day \in Int
  /\ NoGiftDay \notin GiftDays
BY SpecialAssumption

LEMMA RuleThereAndBack ==
  ASSUME NEW rule, GoodRule(rule)
  PROVE  /\ RuleOf(ConditionOf(rule)) = rule
         /\ ConditionOf(rule).amount \in Nat /\ ConditionOf(rule).unit \in DurationUnits
<1> DEFINE condition == ConditionOf(rule)
<1>1. /\ rule \in Rule /\ rule.type \in Conditions
      /\ rule = [type |-> rule.type, years |-> rule.years, limit |-> rule.limit,
                 days |-> rule.days, from |-> rule.from, until |-> rule.until]
  BY DEF GoodRule, Rule
<1>2. /\ condition.type = rule.type /\ condition.from = rule.from
      /\ condition.years = IF rule.type = "seniority" THEN rule.years ELSE 1
      /\ condition.limit = IF rule.type = "seniority" THEN 1 ELSE rule.limit
  BY DEF ConditionOf
<1>3. CASE rule.type = "seniority"
  <2>1. condition.amount = 2 /\ condition.unit = "weeks"
    BY <1>3 DEF ConditionOf
  <2>2. RuleOf(condition) = [type |-> rule.type, years |-> rule.years, limit |-> 0,
                             days |-> 0, from |-> NoGiftDay, until |-> 0]
    BY <1>2, <1>3 DEF RuleOf
  <2> QED BY <1>1, <1>3, <2>1, <2>2 DEF GoodRule, DurationUnits
<1>4. CASE rule.type \in {"birthday", "onboarding"}
  <2>1. rule.days \in Nat
    BY <1>1 DEF Rule
  <2>2. condition.amount = ValidityInDays(rule.days).amount
        /\ condition.unit = ValidityInDays(rule.days).unit
    BY <1>4 DEF ConditionOf
  <2>3. /\ condition.amount \in Nat /\ condition.unit \in DurationUnits
        /\ condition.amount * DaysPerUnit[condition.unit] = rule.days
    BY <2>1, <2>2, BackToTheDays
  <2>4. RuleOf(condition) = [type |-> rule.type, years |-> 0, limit |-> rule.limit,
                             days |-> condition.amount * DaysPerUnit[condition.unit],
                             from |-> NoGiftDay, until |-> 0]
    BY <1>2, <1>4 DEF RuleOf
  <2> HIDE DEF condition
  <2> QED BY <1>1, <1>4, <2>3, <2>4 DEF GoodRule, condition
<1>5. CASE rule.type = "gift"
  <2>1. /\ rule.from \in Int /\ rule.until \in Int /\ rule.until + 1 \in Int
        /\ rule.from < rule.until + 1 /\ rule.from # NoGiftDay
    <3>1. rule.from \in Int /\ rule.until \in Int
      BY <1>1, GiftDaysAreDays DEF Rule
    <3>2. rule.from <= rule.until /\ rule.from # NoGiftDay
      BY <1>5 DEF GoodRule
    <3> QED BY <3>1, <3>2
  <2>2. condition.amount = ValidityBetween(rule.from, rule.until + 1).amount
        /\ condition.unit = ValidityBetween(rule.from, rule.until + 1).unit
    BY <1>5 DEF ConditionOf
  <2>3. /\ condition.amount \in Nat /\ condition.unit \in DurationUnits
        /\ Advance(rule.from, condition.amount, condition.unit) = rule.until + 1
    BY <2>1, <2>2, BackToTheDate
  <2>4. RuleOf(condition) =
          [type |-> rule.type, years |-> 0, limit |-> rule.limit, days |-> 0,
           from |-> rule.from,
           until |-> Advance(rule.from, condition.amount, condition.unit) - 1]
    BY <1>2, <1>5, <2>1 DEF RuleOf
  <2>5. (rule.until + 1) - 1 = rule.until
    BY <2>1
  <2> HIDE DEF condition
  <2> QED BY <1>1, <1>5, <2>3, <2>4, <2>5 DEF GoodRule, condition
<1> QED BY <1>1, <1>3, <1>4, <1>5 DEF Conditions

LEMMA FormOfASubsidy ==
  ASSUME NEW subsidy, Good(subsidy)
  PROVE  FormOf(subsidy) \in AnyForm
<1>1. /\ subsidy.all \in BOOLEAN /\ subsidy.who \in SUBSET Staff /\ GoodRule(subsidy.rule)
      /\ subsidy.rule \in Rule
  BY DEF Good, Subsidy
<1> DEFINE rule == subsidy.rule
           condition == ConditionOf(rule)
<1>2. condition.amount \in Nat /\ condition.unit \in DurationUnits
  BY <1>1, RuleThereAndBack
<1>3. /\ condition.type \in Conditions /\ condition.years \in {0, 1}
      /\ condition.limit \in {0, 1} /\ condition.from \in GiftDays \cup {NoGiftDay}
  BY <1>1 DEF ConditionOf, Rule
<1>4. FormOf(subsidy) = [proper |-> TRUE, all |-> subsidy.all, who |-> subsidy.who,
                         type |-> condition.type, years |-> condition.years,
                         limit |-> condition.limit, amount |-> condition.amount,
                         unit |-> condition.unit, from |-> condition.from]
  BY DEF FormOf
<1> HIDE DEF condition
<1> DEFINE form == FormOf(subsidy)
<1>5. /\ form = [proper |-> form.proper, all |-> form.all, who |-> form.who,
                 type |-> form.type, years |-> form.years, limit |-> form.limit,
                 amount |-> form.amount, unit |-> form.unit, from |-> form.from]
      /\ form.proper = TRUE /\ form.all = subsidy.all /\ form.who = subsidy.who
      /\ form.type = condition.type /\ form.years = condition.years
      /\ form.limit = condition.limit /\ form.amount = condition.amount
      /\ form.unit = condition.unit /\ form.from = condition.from
  BY <1>4
<1> HIDE DEF form
<1>6. form.proper \in BOOLEAN /\ form.all \in BOOLEAN
  BY <1>1, <1>5
<1>7. /\ form.who \in SUBSET Staff /\ form.type \in Conditions \cup {""}
      /\ form.years \in {0, 1} /\ form.limit \in {0, 1} /\ form.amount \in Nat
      /\ form.unit \in DurationUnits /\ form.from \in GiftDays \cup {NoGiftDay}
  BY <1>1, <1>2, <1>3, <1>5
<1>8. form \in AnyForm
  BY <1>5, <1>6, <1>7 DEF AnyForm
<1> QED BY <1>8 DEF form

\* What the form lets go makes a good rule.
LEMMA RuleOfAForm ==
  ASSUME NEW form \in AnyForm, NEW saved, NEW day, LetGo(form, saved, day)
  PROVE  /\ GoodRule(RuleOf(form)) /\ RuleOf(form).type = form.type
         /\ form.type # "seniority" => RuleOf(form).limit > 0
         /\ form.type = "seniority" => RuleOf(form).years > 0
         /\ form.type = "gift" => RuleOf(form).from = form.from
<1>1. /\ form.type \in Conditions /\ form.years \in {0, 1} /\ form.limit \in {0, 1}
      /\ form.amount \in Nat /\ form.unit \in DurationUnits
      /\ form.from \in GiftDays \cup {NoGiftDay}
  BY DEF AnyForm, LetGo
<1> DEFINE rule == RuleOf(form)
<1>2. /\ rule.type = form.type
      /\ rule.years = IF form.type = "seniority" THEN form.years ELSE 0
      /\ rule.limit = IF form.type = "seniority" THEN 0 ELSE form.limit
      /\ rule.days = IF form.type \in {"birthday", "onboarding"}
                     THEN form.amount * DaysPerUnit[form.unit] ELSE 0
      /\ rule.from = IF form.type = "gift" THEN form.from ELSE NoGiftDay
      /\ rule.until = IF form.type = "gift" /\ form.from # NoGiftDay
                      THEN Advance(form.from, form.amount, form.unit) - 1 ELSE 0
      /\ rule = [type |-> rule.type, years |-> rule.years, limit |-> rule.limit,
                 days |-> rule.days, from |-> rule.from, until |-> rule.until]
  BY DEF RuleOf
<1> HIDE DEF rule
<1>3. rule.days \in Nat
  <2>1. DaysPerUnit[form.unit] \in Nat
    BY <1>1, UnitsInDays
  <2>2. \A x, y \in Nat : x * y \in Nat
    OBVIOUS
  <2>3. form.amount * DaysPerUnit[form.unit] \in Nat
    BY <1>1, <2>1, <2>2
  <2> QED BY <1>2, <2>3
<1>4. rule.until \in Int /\ (form.type = "gift" => rule.from # NoGiftDay /\ rule.from <= rule.until)
  <2>1. CASE form.type = "gift"
    <3>1. form.from # NoGiftDay /\ form.amount > 0 /\ form.from \in Int
      BY <1>1, <2>1, GiftDaysAreDays DEF LetGo
    <3> DEFINE end == Advance(form.from, form.amount, form.unit)
    <3>2. end \in Int /\ form.from < end
      BY <1>1, <3>1, AdvanceIsLater
    <3>3. rule.until = end - 1 /\ rule.from = form.from
      BY <1>2, <2>1, <3>1
    <3> HIDE DEF end
    <3> QED BY <3>1, <3>2, <3>3
  <2>2. CASE form.type # "gift"
    BY <1>2, <2>2
  <2> QED BY <2>1, <2>2
<1>5. rule.years \in {0, 1} /\ rule.limit \in {0, 1} /\ rule.from \in GiftDays \cup {NoGiftDay}
  BY <1>1, <1>2
<1>6. rule \in Rule
  BY <1>1, <1>2, <1>3, <1>4, <1>5 DEF Rule
<1>7. GoodRule(rule)
  <2>1. rule.type = "seniority" => rule.limit = 0
    BY <1>2
  <2>2. rule.type # "seniority" => rule.years = 0
    BY <1>2
  <2>3. rule.type \notin {"birthday", "onboarding"} => rule.days = 0
    BY <1>2
  <2>4. rule.type # "gift" => rule.from = NoGiftDay /\ rule.until = 0
    BY <1>2
  <2>5. rule.type = form.type
    BY <1>2
  <2> QED BY <1>4, <1>6, <2>1, <2>2, <2>3, <2>4, <2>5 DEF GoodRule
<1>8. /\ form.type # "seniority" => rule.limit > 0
      /\ form.type = "seniority" => rule.years > 0
      /\ form.type = "gift" => rule.from = form.from
  BY <1>2 DEF LetGo
<1>9. rule.type = form.type
  BY <1>2
<1> QED BY <1>7, <1>8, <1>9 DEF rule

\* The server takes what a form lets go on the same day, with the same subsidy in sight.
LEMMA WhatIsLetGoIsTaken ==
  ASSUME NEW form \in AnyForm, NEW saved, saved # NoRule => Good(saved),
         NEW today \in Int, LetGo(form, saved, today)
  PROVE  Accepts(form, saved, today)
<1> DEFINE rule == RuleOf(form)
<1>1. /\ GoodRule(rule) /\ rule.type = form.type
      /\ form.type # "seniority" => rule.limit > 0
      /\ form.type = "seniority" => rule.years > 0
      /\ form.type = "gift" => rule.from = form.from
  BY RuleOfAForm
<1>2. form.proper /\ (form.all \/ form.who # {})
  BY DEF LetGo
<1>3. form.type \in Conditions
  BY DEF LetGo, AnyForm
<1>4. CASE form.type = "seniority"
  BY <1>1, <1>2, <1>4 DEF Accepts
<1>5. CASE form.type \in {"birthday", "onboarding"}
  <2>1. /\ form.amount \in Nat /\ form.unit \in DurationUnits /\ form.amount > 0
        /\ form.amount <= MaxValidity(form.unit)
    BY <1>5 DEF LetGo, AnyForm
  <2>2. rule.days = form.amount * DaysPerUnit[form.unit]
    BY <1>5 DEF RuleOf
  <2>3. form.amount * DaysPerUnit[form.unit] \in 1..MaxValidityDays
    <3>1. DaysPerUnit["days"] = 1 /\ DaysPerUnit["weeks"] = 7 /\ DaysPerUnit["months"] = 30
      BY DEF DaysPerUnit
    <3>2. MaxValidity("days") = 100 /\ MaxValidity("weeks") = 14 /\ MaxValidity("months") = 3
      BY <3>1 DEF MaxValidity, MaxValidityDays
    <3>3. CASE form.unit = "days"
      BY <2>1, <3>1, <3>2, <3>3 DEF MaxValidityDays
    <3>4. CASE form.unit = "weeks"
      BY <2>1, <3>1, <3>2, <3>4 DEF MaxValidityDays
    <3>5. CASE form.unit = "months"
      BY <2>1, <3>1, <3>2, <3>5 DEF MaxValidityDays
    <3> QED BY <2>1, <3>3, <3>4, <3>5 DEF DurationUnits
  <2>4. rule.days \in 1..MaxValidityDays
    BY <2>2, <2>3
  <2> HIDE DEF rule
  <2> QED BY <1>1, <1>2, <1>5, <2>4 DEF Accepts, rule
<1>6. CASE form.type = "gift"
  <2>1. rule.from # NoGiftDay /\ rule.from <= rule.until /\ rule.limit > 0
        /\ rule.from \in Int /\ rule.until \in Int
    BY <1>1, <1>6, GiftDaysAreDays DEF GoodRule, Rule
  <2>2. form.from >= today \/ (saved # NoRule /\ form.from = saved.rule.from)
    BY <1>6 DEF LetGo
  <2>3. saved # NoRule /\ form.from = saved.rule.from => saved.rule.type = "gift"
    BY <1>1, <1>6, <2>1 DEF Good, GoodRule
  <2>4. rule.until >= rule.from
    BY <2>1
  <2> HIDE DEF rule
  <2> QED BY <1>1, <1>2, <1>6, <2>1, <2>2, <2>3, <2>4 DEF Accepts, rule
<1> QED BY <1>3, <1>4, <1>5, <1>6 DEF Conditions

-----------------------------------------------------------------------------
(* The form and the server, step by step.                                   *)

Request == [of : Subsidy \cup {NoRule}, form : AnyForm, drawn : Int, changed : BOOLEAN]

\* What was sent was let go when it was drawn; and unless others changed the subsidy, the
\* one the form is of is the one that is saved.
RequestOK ==
    submission = "waiting" =>
        /\ posted.drawn <= dayOfForm
        /\ LetGo(posted.form, posted.of, posted.drawn)
        /\ ~posted.changed /\ posted.of # NoRule => special = posted.of

FormInv ==
    /\ dayOfForm \in Int /\ dayRendered \in Int /\ dayRendered <= dayOfForm
    /\ special # NoRule => Good(special)
    /\ original # NoRule => Good(original)
    /\ fields \in AnyForm
    /\ formOpen \in BOOLEAN /\ changedElsewhere \in BOOLEAN
    /\ formOpen /\ ~changedElsewhere /\ original # NoRule /\ submission # "done" =>
         special = original
    /\ submission # "none" => posted \in Request /\ (posted.of # NoRule => Good(posted.of))
    /\ submission = "none" => posted = NoRule
    /\ RequestOK

SpecialInv == FormInv /\ FormTakesWhatTheServerTakes

LEMMA RequestIsNoNull == NoRule \notin Request
BY NoRuleAssumption DEF Request

LEMMA FieldsAreAForm == FieldSet \subseteq AnyForm
<1>1. Amounts \cup {2} \subseteq Nat
  BY SpecialAssumption
<1> QED BY <1>1 DEF FieldSet, AnyForm

LEMMA BlankIsAForm ==
  /\ BlankForm \in AnyForm
  /\ [BlankForm EXCEPT !.type = "birthday"] \in AnyForm
  /\ \A day \in GiftDays : [BlankForm EXCEPT !.type = "gift", !.from = day] \in AnyForm
BY DEF BlankForm, AnyForm, Conditions, DurationUnits

LEMMA SpecialStarts == SpecialInit => SpecialInv
<1> SUFFICES ASSUME SpecialInit PROVE SpecialInv
  OBVIOUS
<1>1. special # NoRule => Good(special)
  <2> SUFFICES ASSUME special # NoRule PROVE Good(special)
    OBVIOUS
  <2>1. PICK day \in GiftDays :
          special = [rule |-> RuleOf([BlankForm EXCEPT !.type = "gift", !.from = day]),
                     all |-> TRUE, who |-> {}]
    BY DEF SpecialInit
  <2> DEFINE form == [BlankForm EXCEPT !.type = "gift", !.from = day]
             asIf == [form EXCEPT !.proper = TRUE]
  <2>2. asIf \in AnyForm
    BY BlankIsAForm DEF AnyForm
  <2>3. asIf.type = "gift" /\ asIf.from = day /\ asIf.limit = 1 /\ asIf.amount = 2
        /\ asIf.proper /\ asIf.all
    BY DEF BlankForm
  <2>4. day \in Int /\ day # NoGiftDay
    BY GiftDaysAreDays
  <2>5. LetGo(asIf, NoRule, day)
    BY <2>3, <2>4 DEF LetGo
  <2>6. GoodRule(RuleOf(asIf))
    BY <2>2, <2>5, RuleOfAForm
  <2>7. RuleOf(asIf) = RuleOf(form)
    BY DEF RuleOf, BlankForm
  <2> HIDE DEF form, asIf
  <2>8. GoodRule(RuleOf(form)) /\ RuleOf(form) \in Rule
    BY <2>6, <2>7 DEF GoodRule
  <2>9. special = [rule |-> RuleOf(form), all |-> TRUE, who |-> {}]
    BY <2>1 DEF form
  <2> QED BY <2>8, <2>9 DEF Good, Subsidy
<1>2. dayOfForm \in Int /\ dayRendered \in Int /\ dayRendered <= dayOfForm
  <2>1. dayOfForm = FirstDay /\ dayRendered = FirstDay
    BY DEF SpecialInit
  <2>2. FirstDay \in Int
    BY SpecialAssumption
  <2> QED BY <2>1, <2>2
<1>3. fields \in AnyForm
  BY BlankIsAForm DEF SpecialInit
<1> QED BY <1>1, <1>2, <1>3
        DEF SpecialInit, SpecialInv, FormInv, RequestOK, FormTakesWhatTheServerTakes

\* What is saved, with whom it is for.
LEMMA SavedIsGood ==
  ASSUME NEW form \in AnyForm, GoodRule(RuleOf(form))
  PROVE  Good([rule |-> RuleOf(form), all |-> form.all,
               who |-> IF form.all THEN {} ELSE form.who])
<1>1. RuleOf(form) \in Rule
  BY DEF GoodRule
<1>2. form.all \in BOOLEAN /\ (IF form.all THEN {} ELSE form.who) \in SUBSET Staff
  BY DEF AnyForm
<1> QED BY <1>1, <1>2 DEF Good, Subsidy

LEMMA OpeningKeeps == SpecialInv /\ OpenForm => SpecialInv'
<1> SUFFICES ASSUME SpecialInv, OpenForm PROVE SpecialInv'
  OBVIOUS
<1>1. /\ formOpen' = TRUE /\ dayRendered' = dayOfForm /\ changedElsewhere' = FALSE
      /\ UNCHANGED <<dayOfForm, special, submission, posted>>
  BY DEF OpenForm
<1>2. (original' = NoRule \/ (special # NoRule /\ original' = special)) /\ fields' \in AnyForm
  <2>1. CASE original' = NoRule /\ fields' = BlankForm
    BY <2>1, BlankIsAForm
  <2>2. CASE special # NoRule /\ original' = special /\ fields' = FormOf(special)
    BY <2>2, FormOfASubsidy DEF SpecialInv, FormInv
  <2> QED BY <2>1, <2>2 DEF OpenForm
<1>3. RequestOK' /\ FormTakesWhatTheServerTakes'
  BY <1>1 DEF SpecialInv, FormInv, RequestOK, FormTakesWhatTheServerTakes
<1>4. dayOfForm' \in Int /\ dayRendered' \in Int /\ dayRendered' <= dayOfForm'
  BY <1>1 DEF SpecialInv, FormInv
<1> QED BY <1>1, <1>2, <1>3, <1>4 DEF SpecialInv, FormInv

LEMMA FillingKeeps == SpecialInv /\ FillIn => SpecialInv'
<1> SUFFICES ASSUME SpecialInv, FillIn PROVE SpecialInv'
  OBVIOUS
<1>1. fields' \in AnyForm
  BY FieldsAreAForm DEF FillIn
<1> QED BY <1>1 DEF FillIn, SpecialInv, FormInv, RequestOK, FormTakesWhatTheServerTakes

LEMMA SubmittingKeeps == SpecialInv /\ SubmitForm => SpecialInv'
<1> SUFFICES ASSUME SpecialInv, SubmitForm PROVE SpecialInv'
  OBVIOUS
<1>1. /\ posted' = [of |-> original, form |-> fields, drawn |-> dayRendered,
                    changed |-> changedElsewhere]
      /\ submission' = "waiting" /\ submission = "none" /\ formOpen /\ IsValid(fields)
      /\ UNCHANGED <<dayOfForm, dayRendered, special, formOpen, original, fields,
                     changedElsewhere>>
  BY DEF SubmitForm
<1>2. /\ posted'.of = original /\ posted'.form = fields /\ posted'.drawn = dayRendered
      /\ posted'.changed = changedElsewhere
  BY <1>1
<1>3. original \in Subsidy \cup {NoRule} /\ fields \in AnyForm /\ dayRendered \in Int
      /\ changedElsewhere \in BOOLEAN
  BY DEF SpecialInv, FormInv, Good
<1>4. posted' \in Request
  BY <1>1, <1>3 DEF Request
<1>5. LetGo(posted'.form, posted'.of, posted'.drawn)
  BY <1>1, <1>2 DEF IsValid, LetGo
<1> QED BY <1>1, <1>2, <1>4, <1>5
        DEF SpecialInv, FormInv, RequestOK, FormTakesWhatTheServerTakes

LEMMA ServingKeeps == SpecialInv /\ ServeForm => SpecialInv'
<1> SUFFICES ASSUME SpecialInv, ServeForm PROVE SpecialInv'
  OBVIOUS
<1>1. /\ submission = "waiting"
      /\ UNCHANGED <<dayOfForm, dayRendered, formOpen, original, fields, posted,
                     changedElsewhere>>
  BY DEF ServeForm
<1>2. CASE submission' = "missing" /\ UNCHANGED special
  BY <1>1, <1>2 DEF SpecialInv, FormInv, RequestOK, FormTakesWhatTheServerTakes
<1>3. CASE posted.of # NoRule => special # NoRule
  <2> DEFINE form == posted.form
             saved == IF posted.of = NoRule THEN NoRule ELSE special
  <2>1. /\ form \in AnyForm /\ posted.drawn \in Int /\ posted.drawn <= dayOfForm
        /\ LetGo(form, posted.of, posted.drawn) /\ dayOfForm \in Int
        /\ posted.changed \in BOOLEAN
    BY <1>1 DEF SpecialInv, FormInv, RequestOK, Request
  <2>2. CASE submission' = "done"
             /\ special' = [rule |-> RuleOf(form), all |-> form.all,
                            who |-> IF form.all THEN {} ELSE form.who]
    <3>1. GoodRule(RuleOf(form))
      BY <2>1, RuleOfAForm
    <3>2. Good(special')
      BY <2>1, <2>2, <3>1, SavedIsGood
    <3> QED BY <1>1, <2>2, <3>2
            DEF SpecialInv, FormInv, RequestOK, FormTakesWhatTheServerTakes
  <2>3. CASE submission' = "refused" /\ UNCHANGED special /\ ~Accepts(form, saved, dayOfForm)
    <3>1. posted.drawn < dayOfForm \/ posted.changed
      <4> SUFFICES ASSUME posted.drawn = dayOfForm, ~posted.changed PROVE FALSE
        BY <2>1
      <4>1. saved = posted.of
        BY <1>1 DEF SpecialInv, FormInv, RequestOK
      <4>2. saved # NoRule => Good(saved)
        BY <4>1, <1>1 DEF SpecialInv, FormInv
      <4>3. LetGo(form, saved, dayOfForm)
        BY <2>1, <4>1
      <4> HIDE DEF saved, form
      <4>4. Accepts(form, saved, dayOfForm)
        BY <2>1, <4>2, <4>3, WhatIsLetGoIsTaken
      <4> QED BY <2>3, <4>4
    <3> QED BY <1>1, <2>3, <3>1
            DEF SpecialInv, FormInv, RequestOK, FormTakesWhatTheServerTakes
  <2>4. \/ submission' = "missing" /\ UNCHANGED special
        \/ /\ submission' = "done"
           /\ special' = [rule |-> RuleOf(form), all |-> form.all,
                          who |-> IF form.all THEN {} ELSE form.who]
        \/ submission' = "refused" /\ UNCHANGED special /\ ~Accepts(form, saved, dayOfForm)
    BY DEF ServeForm
  <2> HIDE DEF form, saved
  <2> QED BY <1>2, <2>2, <2>3, <2>4
<1>4. \/ submission' = "missing" /\ UNCHANGED special
      \/ posted.of # NoRule => special # NoRule
  BY DEF ServeForm
<1> QED BY <1>2, <1>3, <1>4

LEMMA AnsweringKeeps == SpecialInv /\ FormAnswered => SpecialInv'
BY DEF FormAnswered, SpecialInv, FormInv, RequestOK, FormTakesWhatTheServerTakes

LEMMA ChangingElsewhereKeeps == SpecialInv /\ ChangeElsewhere => SpecialInv'
<1> SUFFICES ASSUME SpecialInv, ChangeElsewhere PROVE SpecialInv'
  OBVIOUS
<1> DEFINE birthday == [BlankForm EXCEPT !.type = "birthday"]
           asIf == [birthday EXCEPT !.proper = TRUE]
<1>1. /\ special # NoRule /\ changedElsewhere'
      /\ UNCHANGED <<dayOfForm, dayRendered, formOpen, original, fields, submission>>
      /\ special' = NoRule \/ special' = [special EXCEPT !.rule = RuleOf(birthday)]
      /\ posted' = IF posted = NoRule THEN posted ELSE [posted EXCEPT !.changed = TRUE]
  BY DEF ChangeElsewhere
<1>2. GoodRule(RuleOf(birthday))
  <2>1. asIf \in AnyForm
    BY BlankIsAForm DEF AnyForm
  <2>2. asIf.type = "birthday" /\ asIf.limit = 1 /\ asIf.amount = 2 /\ asIf.unit = "weeks"
        /\ asIf.proper /\ asIf.all
    BY DEF BlankForm
  <2>3. MaxValidity("weeks") = 14
    BY DEF MaxValidity, MaxValidityDays, DaysPerUnit
  <2>4. LetGo(asIf, NoRule, 0)
    BY <2>2, <2>3 DEF LetGo
  <2>5. RuleOf(asIf) = RuleOf(birthday)
    BY DEF RuleOf, BlankForm
  <2> HIDE DEF asIf, birthday
  <2>6. GoodRule(RuleOf(asIf))
    BY <2>1, <2>4, RuleOfAForm
  <2> QED BY <2>5, <2>6
<1> HIDE DEF birthday, asIf
<1>3. special' # NoRule => Good(special')
  <2>1. Good(special) /\ RuleOf(birthday) \in Rule
    BY <1>1, <1>2 DEF SpecialInv, FormInv, GoodRule
  <2>2. Good([special EXCEPT !.rule = RuleOf(birthday)])
    BY <2>1, <1>2 DEF Good, Subsidy
  <2> QED BY <1>1, <2>2
<1>4. submission # "none" =>
        /\ posted' \in Request /\ posted'.changed
        /\ posted'.of = posted.of /\ posted'.form = posted.form /\ posted'.drawn = posted.drawn
  <2> SUFFICES ASSUME submission # "none"
               PROVE /\ posted' \in Request /\ posted'.changed
                     /\ posted'.of = posted.of /\ posted'.form = posted.form
                     /\ posted'.drawn = posted.drawn
    OBVIOUS
  <2>1. posted \in Request /\ posted # NoRule
    BY RequestIsNoNull DEF SpecialInv, FormInv
  <2>2. posted' = [posted EXCEPT !.changed = TRUE]
    BY <1>1, <2>1
  <2> QED BY <2>1, <2>2 DEF Request
<1>5. submission = "none" => posted' = NoRule
  BY <1>1 DEF SpecialInv, FormInv
<1> QED BY <1>1, <1>3, <1>4, <1>5
        DEF SpecialInv, FormInv, RequestOK, FormTakesWhatTheServerTakes

LEMMA SpecialKeeps == SpecialInv /\ [SpecialNext]_specialVars => SpecialInv'
<1> SUFFICES ASSUME SpecialInv, [SpecialNext]_specialVars PROVE SpecialInv'
  OBVIOUS
<1>1. CASE CancelForm
  BY <1>1 DEF CancelForm, SpecialInv, FormInv, RequestOK, FormTakesWhatTheServerTakes
<1>2. CASE FormDayPasses
  BY <1>2 DEF FormDayPasses, SpecialInv, FormInv, RequestOK, FormTakesWhatTheServerTakes,
              Request
<1>3. CASE UNCHANGED specialVars
  BY <1>3 DEF specialVars, SpecialInv, FormInv, RequestOK, FormTakesWhatTheServerTakes
<1> QED BY <1>1, <1>2, <1>3, OpeningKeeps, FillingKeeps, SubmittingKeeps, ServingKeeps,
           AnsweringKeeps, ChangingElsewhereKeeps DEF SpecialNext

\* What the form of a special subsidy lets go, the server takes, whatever its type, unit and
\* amount, unless a day went by or others changed the subsidy; and a subsidy sent back as
\* its form was filled it stays the same, month ends included (special-subsidy-form.tsx:126-143
\* against benefit_configuration.rb:190-204 and 217-293).
THEOREM FormsAgree == SpecialSpec => []FormAndServerAgree
<1>1. SpecialInit => SpecialInv
  BY SpecialStarts
<1>2. SpecialInv /\ [SpecialNext]_specialVars => SpecialInv'
  BY SpecialKeeps
<1>3. SpecialInv => FormAndServerAgree
  BY RuleThereAndBack
     DEF SpecialInv, FormInv, Good, FormAndServerAgree, SameWhenSavedUnchanged
<1> QED BY <1>1, <1>2, <1>3, PTL DEF SpecialSpec

-----------------------------------------------------------------------------
(* The history of an employee *)

\* An account without the bounds.
Accounted == [opened : BOOLEAN, booked : Nat, eaten : Nat, amount : Nat, paid : Nat, asked : Nat,
              last : {"none", "submitted", "approved", "rejected"}]

\* The page knows no account the server does not have, and a filter was offered for the month
\* it is of: accounts are never closed.
HistoryInv ==
    /\ books \in [Books -> Accounted] /\ given \in [Books -> Accounted]
    /\ Started(given) \subseteq Started(books)
    /\ payeePicked # All => payeePicked \in PayeesOffered(monthPicked)

LEMMA OutstandingAmount ==
  ASSUME NEW account \in Accounted
  PROVE  /\ Outstanding(account) \in Nat
         /\ Outstanding(account) > 0 => account.amount > 0
<1>1. account.amount \in Nat /\ account.paid \in Nat
  BY DEF Accounted
<1> DEFINE owes == account.amount - account.paid
<1>2. \E x \in {owes, 0} : \A y \in {owes, 0} : x >= y
  <2>1. CASE owes >= 0
    BY <1>1, <2>1
  <2>2. CASE owes < 0
    BY <1>1, <2>2
  <2> QED BY <1>1, <2>1, <2>2
<1>3. Max({owes, 0}) \in {owes, 0} /\ Max({owes, 0}) >= 0
  BY <1>2 DEF Max
<1> QED BY <1>1, <1>3 DEF Outstanding

LEMMA HistoryStarts == HistoryInit => HistoryInv
<1>1. Book \subseteq Accounted
  BY HistoryAssumption DEF Book, Accounted
<1>2. [Books -> Book] \subseteq [Books -> Accounted]
  BY <1>1
<1> QED BY <1>2, BooksAssumption DEF HistoryInit, HistoryInv

\* An account that moves stays open.
LEMMA TurnKeeps ==
  ASSUME HistoryInv, NEW b \in Books, NEW account \in Accounted, Turn(b, account),
         books[b].opened => account.opened
  PROVE  HistoryInv'
<1>1. /\ books' = [books EXCEPT ![b] = account]
      /\ UNCHANGED <<given, monthPicked, payeePicked>>
  BY DEF Turn
<1>2. books' \in [Books -> Accounted]
  BY <1>1 DEF HistoryInv
<1>3. Started(books) \subseteq Started(books')
  BY <1>1 DEF Started, Exists, HistoryInv
<1>4. Started(given') \subseteq Started(books')
  BY <1>1, <1>3 DEF HistoryInv
<1>5. PayeesOffered(monthPicked)' = PayeesOffered(monthPicked)
  BY <1>1 DEF PayeesOffered, AccountsOf
<1>6. (Started(given) \subseteq Started(books))'
  BY <1>4 DEF Started
<1> QED BY <1>1, <1>2, <1>5, <1>6 DEF HistoryInv

LEMMA AccountsMove ==
  ASSUME HistoryInv, NEW b \in Books,
         \/ BookMeal(b) \/ MealIsDue(b) \/ SyncAmount(b) \/ TurnDown(b) \/ Report(b) \/ Review(b)
  PROVE  HistoryInv'
<1> DEFINE account == books[b]
<1>1. account \in Accounted
  BY DEF HistoryInv
<1>2. /\ account.booked \in Nat /\ account.eaten \in Nat /\ account.amount \in Nat
      /\ account.paid \in Nat /\ account.asked \in Nat /\ Outstanding(account) \in Nat
  BY <1>1, OutstandingAmount DEF Accounted
<1> HIDE DEF account
<1> SUFFICES \E after \in Accounted : Turn(b, after) /\ (account.opened => after.opened)
  BY TurnKeeps DEF account
<1>3. CASE BookMeal(b)
  <2> DEFINE more == account.booked + 1
             after == [account EXCEPT !.opened = TRUE, !.booked = more]
  <2>2. Turn(b, after) /\ more \in Nat
    BY <1>2, <1>3 DEF BookMeal, account
  <2> HIDE DEF more
  <2>1. after \in Accounted /\ after.opened
    BY <1>1, <2>2 DEF Accounted
  <2> QED BY <2>1, <2>2
<1>4. CASE MealIsDue(b)
  <2> DEFINE fewer == account.booked - 1
             more == account.eaten + 1
             after == [account EXCEPT !.booked = fewer, !.eaten = more]
  <2>1. Turn(b, after) /\ fewer \in Nat /\ more \in Nat
    BY <1>2, <1>4 DEF MealIsDue, account
  <2> HIDE DEF fewer, more
  <2>2. after \in Accounted /\ after.opened = account.opened
    BY <1>1, <2>1 DEF Accounted
  <2> QED BY <2>1, <2>2
<1>5. CASE SyncAmount(b)
  <2> DEFINE after == [account EXCEPT !.amount = account.eaten]
  <2>1. Turn(b, after)
    BY <1>5 DEF SyncAmount, account
  <2>2. after \in Accounted /\ after.opened = account.opened
    BY <1>1, <1>2 DEF Accounted
  <2> QED BY <2>1, <2>2
<1>6. CASE TurnDown(b)
  <2> DEFINE fewer == account.eaten - 1
             after == [account EXCEPT !.eaten = fewer, !.amount = fewer]
  <2>1. Turn(b, after) /\ fewer \in Nat
    BY <1>2, <1>6 DEF TurnDown, account
  <2> HIDE DEF fewer
  <2>2. after \in Accounted /\ after.opened = account.opened
    BY <1>1, <2>1 DEF Accounted
  <2> QED BY <2>1, <2>2
<1>7. CASE Report(b)
  <2> DEFINE after == [account EXCEPT !.asked = Outstanding(account), !.last = "submitted"]
  <2>1. Turn(b, after)
    BY <1>7 DEF Report, account
  <2>2. after \in Accounted /\ after.opened = account.opened
    BY <1>1, <1>2 DEF Accounted
  <2> QED BY <2>1, <2>2
<1>8. CASE Review(b)
  <2> DEFINE more == account.paid + account.asked
             taken == [account EXCEPT !.last = "approved", !.paid = more, !.asked = 0]
             refusal == [account EXCEPT !.last = "rejected", !.asked = 0]
  <2>1. Turn(b, taken) \/ Turn(b, refusal)
    BY <1>8 DEF Review, account
  <2>4. more \in Nat
    BY <1>2
  <2> HIDE DEF more
  <2>2. taken \in Accounted /\ taken.opened = account.opened
    BY <1>1, <2>4 DEF Accounted
  <2>3. refusal \in Accounted /\ refusal.opened = account.opened
    BY <1>1, <1>2 DEF Accounted
  <2> HIDE DEF taken, refusal
  <2> QED BY <2>1, <2>2, <2>3
<1> QED BY <1>3, <1>4, <1>5, <1>6, <1>7, <1>8

\* The pages, loaded and picked in.
LEMMA PagesKeep ==
  ASSUME HistoryInv,
         \/ VisitIndex \/ PickTab \/ VisitEmployee \/ CloseMonth \/ SendReminder \/ Reminded
         \/ \E y \in 0..YearOf(ThisMonth) : PickYear(y)
         \/ \E month \in 1..ThisMonth : OpenMonth(month)
         \/ \E payee \in Payees \cup {All} : PickPayee(payee)
  PROVE  HistoryInv'
<1>1. CASE VisitIndex \/ VisitEmployee \/ Reminded
  <2>1. books' = books /\ given' = books
    BY <1>1 DEF VisitIndex, VisitEmployee, Reminded
  <2>2. payeePicked' = All \/ UNCHANGED <<payeePicked, monthPicked>>
    BY <1>1 DEF VisitIndex, VisitEmployee, Reminded
  <2>3. PayeesOffered(monthPicked) \subseteq {b[1] : b \in AccountsOf(books, monthPicked)}
    BY DEF HistoryInv, PayeesOffered, AccountsOf
  <2> QED BY <2>1, <2>2, <2>3 DEF HistoryInv, PayeesOffered, AccountsOf, Started
<1>2. CASE PickTab \/ CloseMonth \/ SendReminder
  BY <1>2 DEF PickTab, CloseMonth, SendReminder, HistoryInv, PayeesOffered, AccountsOf, Started
<1>3. CASE \E y \in 0..YearOf(ThisMonth) : PickYear(y)
  BY <1>3 DEF PickYear, HistoryInv, Started
<1>4. CASE \E month \in 1..ThisMonth : OpenMonth(month)
  BY <1>4 DEF OpenMonth, PayeeAfter, HistoryInv, PayeesOffered, AccountsOf, Started
<1>5. CASE \E payee \in Payees \cup {All} : PickPayee(payee)
  BY <1>5 DEF PickPayee, HistoryInv, PayeesOffered, AccountsOf, Started
<1> QED BY <1>1, <1>2, <1>3, <1>4, <1>5

LEMMA HistoryStep == HistoryInv /\ [HistoryNext]_historyVars => HistoryInv'
<1> SUFFICES ASSUME HistoryInv, [HistoryNext]_historyVars PROVE HistoryInv'
  OBVIOUS
<1>1. CASE UNCHANGED historyVars
  BY <1>1 DEF historyVars, HistoryInv, PayeesOffered, AccountsOf, Started
<1>2. CASE HistoryNext
  BY <1>2, AccountsMove, PagesKeep DEF HistoryNext
<1> QED BY <1>1, <1>2

\* A debt is of some account that owes, and such an account is neither empty nor settled.
LEMMA DebtIsPending == HistoryInv => WhoOwesIsPending
<1> SUFFICES ASSUME HistoryInv, EmployeeRow(given).debt > 0
             PROVE  EmployeeRow(given).status \notin {"nothing", "approved"}
  BY DEF WhoOwesIsPending, InTab
<1> DEFINE owing == {b \in Started(given) : b[2] = ThisMonth \/ Outstanding(given[b]) > 0}
           of == [b \in owing |-> Outstanding(given[b])]
           said == {CollectionStatus(given[b]) : b \in {c \in owing : given[c].amount > 0}}
<1>1. /\ EmployeeRow(given).debt = SumFunctionOnSet(of, owing)
      /\ EmployeeRow(given).status = StatusOf(given, owing)
  BY DEF EmployeeRow, SumFunction
<1>2. IsFiniteSet(owing) /\ owing \subseteq Books
  BY HistoryAssumption, SmallerIsFinite DEF Started
<1>3. \A b \in owing : of[b] \in Nat
  BY <1>2, OutstandingAmount DEF HistoryInv
<1> HIDE DEF owing
<1>4. PICK b \in owing : Outstanding(given[b]) > 0
  <2> HIDE DEF of
  <2>1. PICK b \in owing : of[b] > 0
    BY <1>1, <1>2, <1>3, SumIsNat
  <2> QED BY <2>1 DEF of
<1>5. given[b] \in Accounted /\ given[b].amount > 0
  BY <1>2, <1>4, OutstandingAmount DEF HistoryInv
<1>6. CollectionStatus(given[b]) \in {"pending", "submitted", "rejected"}
  BY <1>4, <1>5 DEF CollectionStatus, Accounted
<1>7. CollectionStatus(given[b]) \in said
  BY <1>5
<1>8. said # {} /\ ("pending" \in said \/ "rejected" \in said \/ "submitted" \in said)
  BY <1>6, <1>7
<1>9. StatusOf(given, owing) = CASE said = {} -> "nothing"
                                 [] "pending" \in said -> "pending"
                                 [] "rejected" \in said -> "rejected"
                                 [] "submitted" \in said -> "submitted"
                                 [] OTHER -> "approved"
  BY DEF StatusOf
<1> HIDE DEF said
<1>10. StatusOf(given, owing) \in {"pending", "rejected", "submitted"}
  <2>1. CASE "pending" \in said
    BY <1>8, <1>9, <2>1
  <2>2. CASE "pending" \notin said /\ "rejected" \in said
    BY <1>8, <1>9, <2>2
  <2>3. CASE "pending" \notin said /\ "rejected" \notin said
    BY <1>8, <1>9, <2>3
  <2> QED BY <2>1, <2>2, <2>3
<1> QED BY <1>1, <1>10

\* The filter leaves one account of the month, or none, and its meals are its amount.
LEMMA FilteredIsTheAccount == HistoryInv => SameEitherWay
<1> SUFFICES ASSUME HistoryInv, NEW b \in AccountsOf(given, monthPicked),
                    given[b].amount = given[b].eaten
             PROVE  SheetOf(b[1]).total = SheetOf(All).payees[b]
  BY DEF SameEitherWay
<1> DEFINE kept == {c \in AccountsOf(given, monthPicked) : c[1] = b[1] /\ MealsOn(given[c]) > 0}
           of == [c \in kept |-> MealsOn(given[c])]
<1>1. b \in Books /\ b[1] # All
  BY HistoryAssumption DEF AccountsOf, Started
<1>2. SheetOf(All).payees[b] = given[b].amount
  BY DEF SheetOf, Filtered
<1>3. SheetOf(b[1]).total = SumFunctionOnSet(of, kept)
  BY <1>1 DEF SheetOf, Filtered, SumFunction
<1>4. \A c \in kept : c = b
  BY <1>1, HistoryAssumption DEF AccountsOf, Started
<1>5. given[b].eaten \in Nat
  BY <1>1 DEF HistoryInv, Accounted
<1>6. CASE given[b].eaten > 0
  <2>1. kept = {b}
    BY <1>4, <1>6 DEF MealsOn
  <2>2. of[b] = given[b].eaten
    BY <2>1 DEF MealsOn
  <2> HIDE DEF kept, of
  <2>3. SumFunctionOnSet(of, {b}) = of[b]
    BY <1>5, <2>2, SumOfOne
  <2> QED BY <1>2, <1>3, <2>1, <2>2, <2>3
<1>7. CASE given[b].eaten = 0
  <2>1. kept = {}
    BY <1>4, <1>7 DEF MealsOn
  <2> HIDE DEF kept, of
  <2> QED BY <1>2, <1>3, <1>7, <2>1, SumOfNothing
<1> QED BY <1>5, <1>6, <1>7

\* However accounts move while the pages are open: whoever owes something is listed among those
\* who owe, a month says the same of a provider filtered by it or not, and the filter is of the
\* month on show (pages/admin/consumers/index.tsx:55, lib/admin-consumer-history.ts:27,
\* components/admin/consumer-month-sheet.tsx:64).
THEOREM DebtIsOne == HistorySpec => []OneDebt
<1>1. HistoryInv => OneDebt
  BY DebtIsPending, FilteredIsTheAccount DEF OneDebt, FilterIsOfTheMonth, HistoryInv
<1> QED BY <1>1, HistoryStarts, HistoryStep, PTL DEF HistorySpec

-----------------------------------------------------------------------------
(* The options of a dish.  A group has an id of its own, and options that were *)
(* written in the dialog, all of them different.                               *)

WrittenLists == {list \in Lists : list # <<>> /\ Cardinality(Values(list)) = Len(list)}

\* A group that can be met, with an id among those given.
Meetable(group, last) ==
    /\ group \in AnyGroup /\ group.id =< last
    /\ \E list \in WrittenLists : group.options = Values(list)
    /\ group.limit =< Cardinality(group.options)

\* The groups of a menu.
MenuGroups(some, last) ==
    /\ IsFiniteSet(some)
    /\ \A group \in some : Meetable(group, last) /\ group.id # Unsaved
    /\ \A group, other \in some : group.id = other.id => group = other

\* Those of a form, some without an id.
FormGroups(list, last) ==
    /\ list \in Seq(AnyGroup)
    /\ \A i \in 1..Len(list) : Meetable(list[i], last)
    /\ \A i, j \in 1..Len(list) : list[i].id = list[j].id /\ list[i].id # Unsaved => i = j

LEMMA SequenceIs ==
    ASSUME NEW S, NEW list \in Seq(S)
    PROVE  /\ Len(list) \in Nat /\ DOMAIN list = 1..Len(list)
           /\ \A i \in 1..Len(list) : list[i] \in S
BY LenProperties, ElementOfSeq

LEMMA WrittenIs ==
    ASSUME NEW list \in WrittenLists
    PROVE  /\ Values(list) # {} /\ Cardinality(Values(list)) = Len(list) /\ Len(list) \in Nat
           /\ Values(list) \in {Values(l) : l \in Lists}
<1>1. list \in Lists /\ list # <<>> /\ Cardinality(Values(list)) = Len(list)
  BY DEF WrittenLists
<1>2. PICK S : list \in Seq(S)
  BY <1>1, OptionsAssumption
<1>3. DOMAIN list = 1..Len(list) /\ Len(list) \in Nat \ {0}
  BY <1>1, <1>2, SequenceIs, EmptySeq
<1>4. 1 \in DOMAIN list
  BY <1>3
<1> QED BY <1>1, <1>3, <1>4 DEF Values

\* Ids come after those given, one for each group that needs it.
LEMMA NumberedIs ==
    ASSUME lastId \in Nat, FormGroups(patching.list, lastId), NEW kept \in BOOLEAN
    PROVE  /\ MenuGroups(Numbered(kept), lastId + Len(patching.list))
           /\ Cardinality(Numbered(kept)) = Len(patching.list)
           /\ {Content(group) : group \in Numbered(kept)}
                = {Content(patching.list[i]) : i \in DOMAIN patching.list}
           /\ \A group \in Numbered(kept) :
                \/ group.id > lastId
                \/ kept /\ group.id \in Ids(Values(patching.list)) \ {Unsaved}
<1> DEFINE list == patching.list
           n == Len(list)
           NeedsOne(i) == ~kept \/ list[i].id = Unsaved
           Before(i) == {j \in 1..i : NeedsOne(j)}
           With(i) == [list[i] EXCEPT !.id = lastId + Cardinality(Before(i))]
           rec == [i \in 1..n |-> IF NeedsOne(i) THEN With(i) ELSE list[i]]
<1>1. n \in Nat /\ DOMAIN list = 1..n /\ \A i \in 1..n : list[i] \in AnyGroup
  BY SequenceIs DEF FormGroups
<1>2. Numbered(kept) = {rec[i] : i \in 1..n}
  <2>1. Numbered(kept) = {IF NeedsOne(i) THEN With(i) ELSE list[i] : i \in DOMAIN list}
    BY DEF Numbered
  <2>2. Numbered(kept) = {IF NeedsOne(i) THEN With(i) ELSE list[i] : i \in 1..n}
    BY <1>1, <2>1
  <2> HIDE DEF n, NeedsOne, With, list
  <2> QED BY <2>2
<1>3. ASSUME NEW i \in 1..n
      PROVE  /\ IsFiniteSet(Before(i)) /\ Cardinality(Before(i)) \in Nat
             /\ Cardinality(Before(i)) =< n
             /\ NeedsOne(i) => Cardinality(Before(i)) > 0
  <2>1. IsFiniteSet(1..i) /\ Cardinality(1..i) = i
    BY <1>1, <1>3, FS_Interval
  <2>2. Before(i) \subseteq 1..i
    OBVIOUS
  <2>3. IsFiniteSet(Before(i)) /\ Cardinality(Before(i)) =< i
    BY <2>1, <2>2, FS_Subset
  <2>4. Cardinality(Before(i)) \in Nat
    BY <2>3, FS_CardinalityType
  <2>5. NeedsOne(i) => i \in Before(i)
    <3>1. i \in 1..i
      BY <1>1, <1>3
    <3> QED BY <3>1
  <2> HIDE DEF Before, NeedsOne
  <2>6. NeedsOne(i) => Cardinality(Before(i)) # 0
    BY <2>3, <2>5, FS_EmptySet
  <2> QED BY <1>1, <1>3, <2>3, <2>4, <2>6
<1>4. ASSUME NEW i \in 1..n, NEW j \in 1..n, i < j, NeedsOne(j)
      PROVE  Cardinality(Before(i)) < Cardinality(Before(j))
  <2>1. Before(i) \subseteq Before(j) /\ j \in Before(j) /\ j \notin Before(i)
    <3>1. 1..i \subseteq 1..j /\ j \in 1..j /\ j \notin 1..i
      BY <1>1, <1>4
    <3> QED BY <1>4, <3>1
  <2> HIDE DEF Before, NeedsOne
  <2>2. /\ Cardinality(Before(i)) =< Cardinality(Before(j))
        /\ Cardinality(Before(i)) # Cardinality(Before(j))
        /\ Cardinality(Before(i)) \in Nat /\ Cardinality(Before(j)) \in Nat
    BY <1>3, <2>1, FS_Subset
  <2> QED BY <2>2
<1>5. ASSUME NEW i \in 1..n
      PROVE  /\ rec[i] \in AnyGroup /\ Content(rec[i]) = Content(list[i])
             /\ rec[i].options = list[i].options /\ rec[i].limit = list[i].limit
             /\ rec[i].id = IF NeedsOne(i) THEN lastId + Cardinality(Before(i)) ELSE list[i].id
  <2> HIDE DEF Before
  <2>1. lastId + Cardinality(Before(i)) \in Nat
    BY <1>3
  <2> DEFINE id == lastId + Cardinality(Before(i))
  <2>2. rec[i] = IF NeedsOne(i) THEN [list[i] EXCEPT !.id = id] ELSE list[i]
    OBVIOUS
  <2>3. list[i] \in AnyGroup
    BY <1>1
  <2> HIDE DEF rec, id, NeedsOne, Before
  <2> QED BY <2>1, <2>2, <2>3 DEF AnyGroup, Content, id
<1> HIDE DEF rec, Before, n
<1>6. ASSUME NEW i \in 1..n
      PROVE  /\ rec[i].id \in Nat /\ rec[i].id =< lastId + n /\ rec[i].id # Unsaved
             /\ NeedsOne(i) => rec[i].id > lastId
             /\ ~NeedsOne(i) => rec[i].id = list[i].id /\ list[i].id =< lastId
  <2> DEFINE id == rec[i].id
  <2>1. CASE NeedsOne(i)
    <3>1. id = lastId + Cardinality(Before(i))
      BY <1>5, <2>1
    <3> HIDE DEF id, NeedsOne
    <3>2. id \in Nat /\ id > lastId /\ id =< lastId + n
      BY <1>1, <1>3, <2>1, <3>1
    <3>3. id # Unsaved
      BY <3>2 DEF Unsaved
    <3> QED BY <2>1, <3>2, <3>3 DEF id
  <2>2. CASE ~NeedsOne(i)
    <3>1. id = list[i].id
      BY <1>5, <2>2
    <3>2. id \in Nat /\ id =< lastId /\ id # Unsaved
      BY <1>1, <2>2, <3>1 DEF AnyGroup, FormGroups, Meetable, n
    <3> HIDE DEF id, NeedsOne
    <3>3. id =< lastId + n
      BY <1>1, <3>2
    <3> QED BY <2>2, <3>1, <3>2, <3>3 DEF id
  <2> QED BY <2>1, <2>2
<1>7. ASSUME NEW i \in 1..n, NEW j \in 1..n, rec[i].id = rec[j].id PROVE i = j
  <2>1. CASE NeedsOne(i) /\ NeedsOne(j)
    <3>1. lastId + Cardinality(Before(i)) = lastId + Cardinality(Before(j))
      BY <1>5, <1>7, <2>1
    <3>2. Cardinality(Before(i)) = Cardinality(Before(j))
      BY <1>3, <3>1
    <3>3. ~(i < j) /\ ~(j < i)
      BY <1>3, <1>4, <2>1, <3>2
    <3> QED BY <1>1, <3>3
  <2>2. CASE ~NeedsOne(i) /\ ~NeedsOne(j)
    <3>1. list[i].id = list[j].id /\ list[i].id # Unsaved
      BY <1>6, <1>7, <2>2
    <3> QED BY <3>1 DEF FormGroups, n
  <2>3. CASE NeedsOne(i) /\ ~NeedsOne(j)
    <3>1. rec[i].id > lastId /\ rec[j].id =< lastId
      BY <1>6, <2>3
    <3> QED BY <1>6, <1>7, <3>1
  <2>4. CASE ~NeedsOne(i) /\ NeedsOne(j)
    <3>1. rec[j].id > lastId /\ rec[i].id =< lastId
      BY <1>6, <2>4
    <3> QED BY <1>6, <1>7, <3>1
  <2> QED BY <2>1, <2>2, <2>3, <2>4
<1>8. IsFiniteSet(Numbered(kept)) /\ Cardinality(Numbered(kept)) = n
  <2>1. IsFiniteSet(1..n) /\ Cardinality(1..n) = n
    BY <1>1, FS_Interval
  <2>2. DOMAIN rec = 1..n
    BY DEF rec
  <2>3. rec \in Bijection(1..n, Numbered(kept))
    <3>1. rec \in [1..n -> Numbered(kept)]
      BY <1>2, <2>2 DEF rec
    <3>2. rec \in Injection(1..n, Numbered(kept))
      BY <1>7, <3>1 DEF Injection, IsInjective
    <3>3. rec \in Surjection(1..n, Numbered(kept))
      BY <1>2, <3>1 DEF Surjection
    <3> QED BY <3>2, <3>3 DEF Bijection
  <2> QED BY <2>1, <2>3, FS_Bijection DEF ExistsBijection
<1>9. MenuGroups(Numbered(kept), lastId + n)
  <2>1. ASSUME NEW group \in Numbered(kept)
        PROVE  Meetable(group, lastId + n) /\ group.id # Unsaved
    <3>1. PICK i \in 1..n : group = rec[i]
      BY <1>2
    <3>2. Meetable(list[i], lastId)
      BY DEF FormGroups, n
    <3> QED BY <1>5, <1>6, <3>1, <3>2 DEF Meetable
  <2>2. ASSUME NEW group \in Numbered(kept), NEW other \in Numbered(kept), group.id = other.id
        PROVE  group = other
    BY <1>2, <1>7, <2>2
  <2> QED BY <1>8, <2>1, <2>2 DEF MenuGroups
<1>10. {Content(group) : group \in Numbered(kept)} = {Content(list[i]) : i \in DOMAIN list}
  BY <1>1, <1>2, <1>5
<1>11. ASSUME NEW group \in Numbered(kept)
       PROVE  \/ group.id > lastId
              \/ kept /\ group.id \in Ids(Values(list)) \ {Unsaved}
  <2>1. PICK i \in 1..n : group = rec[i]
    BY <1>2
  <2> QED BY <1>1, <1>6, <2>1 DEF Ids, Values
<1> QED BY <1>8, <1>9, <1>10, <1>11 DEF n

\* Groups with ids of their own can be put in order of id.
Ordered(list) == \A i, j \in DOMAIN list : i < j => list[i].id < list[j].id

LEMMA OrderIsThere ==
    ASSUME NEW some, NEW last, MenuGroups(some, last)
    PROVE  \E list \in [1..Cardinality(some) -> some] : Ordered(list)
<1> DEFINE Sorted(s) == \E list \in [1..Cardinality(s) -> s] : Ordered(list)
           Bad == {s \in SUBSET some : ~Sorted(s)}
<1>1. ASSUME Bad # {} PROVE FALSE
  <2>1. IsFiniteSet(some) /\ Bad \subseteq FiniteSubsetsOf(some)
    BY SmallerIsFinite DEF MenuGroups
  <2>2. PICK T \in Bad : \A s \in Bad : ~(s \subseteq T /\ s # T)
    <3> HIDE DEF Bad
    <3> QED BY <1>1, <2>1, SmallestOfThem
  <2>3. IsFiniteSet(T) /\ T \subseteq some
    BY <2>1, <2>2, SmallerIsFinite
  <2>4. T # {}
    <3> SUFFICES Sorted({})
      BY <2>2
    <3> DEFINE none == [i \in 1..0 |-> 0]
    <3>1. Cardinality({}) = 0 /\ 1..0 = {}
      BY FS_EmptySet
    <3>2. none \in [1..Cardinality({}) -> {}] /\ DOMAIN none = {}
      BY <3>1
    <3> HIDE DEF none
    <3>3. Ordered(none)
      BY <3>2 DEF Ordered
    <3> QED BY <3>2, <3>3
  <2> DEFINE idOf == [group \in T |-> group.id]
             taken == {idOf[group] : group \in T}
  <2>5. IsFiniteSet(taken) /\ taken \subseteq Int /\ taken # {}
    <3>1. \A group \in T : idOf[group] \in Int
      BY <2>3 DEF MenuGroups, Meetable, AnyGroup
    <3> HIDE DEF idOf
    <3> QED BY <2>3, <2>4, <3>1, ImageIsFinite
  <2>6. PICK x \in T : \A group \in T : group.id =< x.id
    <3>1. \E m \in taken : \A y \in taken : m >= y
      <4> HIDE DEF taken
      <4> QED BY <2>5, LargestIsThere
    <3>2. PICK x \in T : \A y \in taken : idOf[x] >= y
      BY <3>1
    <3>3. ASSUME NEW group \in T PROVE group.id =< x.id
      <4>1. idOf[x] >= idOf[group]
        BY <3>2
      <4>2. idOf[x] = x.id /\ idOf[group] = group.id
        OBVIOUS
      <4> QED BY <2>3, <4>1, <4>2 DEF MenuGroups, Meetable, AnyGroup
    <3> QED BY <3>3
  <2> DEFINE rest == T \ {x}
             n == Cardinality(rest)
  <2>7. IsFiniteSet(rest) /\ n \in Nat /\ Cardinality(T) = n + 1
    <3>1. IsFiniteSet(rest) /\ Cardinality(rest) = Cardinality(T) - 1
      BY <2>3, <2>6, FS_RemoveElement
    <3>2. Cardinality(T) \in Nat /\ Cardinality(rest) \in Nat
      BY <2>3, <3>1, FS_CardinalityType
    <3> QED BY <3>1, <3>2
  <2>8. Sorted(rest)
    <3>1. rest \subseteq T /\ rest # T /\ rest \in SUBSET some
      BY <2>3, <2>6
    <3>2. rest \notin Bad
      <4> HIDE DEF Bad, rest
      <4> QED BY <2>2, <3>1
    <3> HIDE DEF rest, Sorted
    <3> QED BY <3>1, <3>2
  <2>9. PICK list \in [1..n -> rest] : Ordered(list)
    BY <2>8
  <2> DEFINE longer == [i \in 1..(n + 1) |-> IF i = n + 1 THEN x ELSE list[i]]
  <2> HIDE DEF n
  <2>10. \A i \in 1..n : list[i] \in T /\ list[i] # x
    BY <2>9
  <2>11. longer \in [1..(n + 1) -> T]
    BY <2>6, <2>7, <2>10
  <2>12. Ordered(longer)
    <3> SUFFICES ASSUME NEW i \in 1..(n + 1), NEW j \in 1..(n + 1), i < j
                 PROVE  longer[i].id < longer[j].id
      BY DEF Ordered
    <3>1. i \in 1..n /\ longer[i] = list[i]
      BY <2>7
    <3>2. CASE j = n + 1
      <4>1. longer[j] = x
        BY <3>2
      <4>2. list[i] \in some /\ x \in some /\ list[i] # x /\ list[i].id =< x.id
        BY <2>3, <2>6, <2>10, <3>1
      <4>3. list[i].id # x.id /\ list[i].id \in Int /\ x.id \in Int
        BY <4>2 DEF MenuGroups, Meetable, AnyGroup
      <4> QED BY <3>1, <4>1, <4>2, <4>3
    <3>3. CASE j # n + 1
      <4>1. j \in 1..n /\ longer[j] = list[j]
        BY <2>7, <3>3
      <4> QED BY <2>9, <3>1, <4>1 DEF Ordered
    <3> QED BY <3>2, <3>3
  <2> HIDE DEF longer
  <2>13. Sorted(T)
    BY <2>7, <2>11, <2>12 DEF n
  <2> QED BY <2>2, <2>13
<1>2. some \notin Bad
  BY <1>1
<1> QED BY <1>2

\* A form that opens has the groups of the menu, by id.
LEMMA InOrderIs ==
    ASSUME NEW some, NEW last, MenuGroups(some, last)
    PROVE  /\ FormGroups(InOrder(some), last)
           /\ Ids(Values(InOrder(some))) = Ids(some)
           /\ Unsaved \notin Ids(some)
           /\ \A i \in DOMAIN InOrder(some) : InOrder(some)[i] \in some
<1> DEFINE n == Cardinality(some)
           list == InOrder(some)
<1>1. list \in [1..n -> some] /\ Ordered(list)
  BY OrderIsThere DEF InOrder, Ordered
<1>2. IsFiniteSet(some) /\ n \in Nat /\ IsFiniteSet(1..n) /\ Cardinality(1..n) = n
  BY FS_CardinalityType, FS_Interval DEF MenuGroups
<1> HIDE DEF list
<1>3. \A group \in some : group \in AnyGroup /\ group.id \in Int /\ group.id # Unsaved
  BY DEF MenuGroups, Meetable, AnyGroup
<1>4. \A i, j \in 1..n : list[i].id = list[j].id => i = j
  <2> SUFFICES ASSUME NEW i \in 1..n, NEW j \in 1..n, list[i].id = list[j].id PROVE i = j
    OBVIOUS
  <2>1. i < j => list[i].id < list[j].id
    BY <1>1 DEF Ordered
  <2>2. j < i => list[j].id < list[i].id
    BY <1>1 DEF Ordered
  <2>3. list[i].id \in Int /\ list[j].id \in Int
    BY <1>1, <1>3
  <2> HIDE DEF n
  <2> QED BY <1>2, <2>1, <2>2, <2>3
<1>5. list \in Injection(1..n, some)
  BY <1>1, <1>4 DEF Injection, IsInjective
<1>6. list \in Surjection(1..n, some)
  <2> HIDE DEF n
  <2>1. n = Cardinality(some)
    BY DEF n
  <2> QED BY <1>2, <1>5, <2>1, FS_Injection
<1>7. \A group \in some : \E i \in 1..n : list[i] = group
  BY <1>6 DEF Surjection
<1>8. /\ list \in Seq(AnyGroup) /\ Len(list) = n /\ DOMAIN list = 1..n
  <2> HIDE DEF n
  <2>1. list \in [1..n -> AnyGroup] /\ n \in Nat /\ DOMAIN list = 1..n
    BY <1>1, <1>2, <1>3
  <2> QED BY <2>1
<1>9. FormGroups(list, last)
  <2>1. \A i \in 1..n : Meetable(list[i], last)
    BY <1>1 DEF MenuGroups
  <2> QED BY <1>4, <1>8, <2>1 DEF FormGroups
<1>10. Values(list) = some
  BY <1>1, <1>7, <1>8 DEF Values
<1>11. Unsaved \notin Ids(some)
  BY <1>3 DEF Ids
<1> QED BY <1>1, <1>8, <1>9, <1>10, <1>11 DEF list

\* What the form names of the menu it was opened from.
FormIds == (Ids(Values(draftGroups)) \ {Unsaved}) \cup removedIds

GroupDialogs == [index : Nat, list : Lists \cup {<<>>}, limit : Nat, required : BOOLEAN]

MenusStand ==
    /\ lastId \in Nat
    /\ MenuGroups(groups, lastId)
    /\ \/ variant = {}
       \/ \E own \in variant :
            /\ variant = {own} /\ MenuGroups(own, lastId)
            /\ Ids(groups) \cap Ids(own) = {}

\* One thing at a time is over the form.
OneOver ==
    /\ dialog # NoGroups =>
         /\ dialog \in GroupDialogs /\ (dialog.index = 0 \/ dialog.index \in DOMAIN draftGroups)
         /\ patching = NoGroups /\ toldSaved = NoGroups
    /\ patching # NoGroups =>
         /\ patching.list = draftGroups /\ patching.removed = removedIds
         /\ patching.scope \in {"day", "saved"}
         /\ toldSaved = NoGroups

\* Until it is saved, a form names the groups of the menu it was opened from, of
\* the dish or of the day: an id leaves the list only to be removed.
NamesWhatItOpened ==
    first /\ toldSaved = NoGroups =>
      FormIds = Ids(groups) \/ \E own \in variant : FormIds = Ids(own)

OptionsInv ==
    /\ MenusStand
    /\ FormGroups(draftGroups, lastId)
    /\ OneOver
    /\ NamesWhatItOpened
    /\ first \in BOOLEAN
    /\ SavedIsTheForm

LEMMA LaterMenus ==
    ASSUME NEW last \in Nat, NEW later \in Nat, last =< later
    PROVE  /\ \A some : MenuGroups(some, last) => MenuGroups(some, later)
           /\ \A list : FormGroups(list, last) => FormGroups(list, later)
<1>1. \A group : Meetable(group, last) => Meetable(group, later)
  BY DEF Meetable, AnyGroup
<1> QED BY <1>1 DEF MenuGroups, FormGroups

LEMMA OptionsStart == OptionsInit => OptionsInv
<1> SUFFICES ASSUME OptionsInit PROVE OptionsInv
  OBVIOUS
<1>1. MenuGroups(groups, lastId) /\ lastId = 1 /\ lastId \in Nat
  <2>1. CASE groups = {}
    BY <2>1, FS_EmptySet DEF OptionsInit, MenuGroups
  <2>2. CASE groups # {}
    <3>1. PICK list \in WrittenLists, required \in BOOLEAN :
            groups = {[id |-> 1, options |-> Values(list), limit |-> Len(list),
                       required |-> required]}
      BY <2>2 DEF OptionsInit, WrittenLists
    <3> DEFINE group == [id |-> 1, options |-> Values(list), limit |-> Len(list),
                         required |-> required]
    <3>2. group \in AnyGroup /\ group.options = Values(list) /\ group.limit = Len(list)
          /\ group.id = 1
      BY WrittenIs DEF AnyGroup
    <3>3. Meetable(group, 1)
      <4> HIDE DEF group
      <4> QED BY <3>2, WrittenIs DEF Meetable
    <3>4. IsFiniteSet({group})
      BY FS_Singleton
    <3>5. groups = {group}
      BY <3>1
    <3> HIDE DEF group
    <3> QED BY <3>2, <3>3, <3>4, <3>5 DEF OptionsInit, MenuGroups, Unsaved
  <2> QED BY <2>1, <2>2 DEF OptionsInit
<1>2. FormGroups(draftGroups, lastId) /\ Ids(Values(draftGroups)) = Ids(groups)
      /\ Unsaved \notin Ids(groups)
  BY <1>1, InOrderIs DEF OptionsInit
<1> QED BY <1>1, <1>2 DEF OptionsInit, OptionsInv, MenusStand, OneOver, NamesWhatItOpened,
           FormIds, SavedIsTheForm

\* The dialog of a group opens on options that were written in it.
LEMMA GroupOpens == OptionsInv /\ (OpenAddGroup \/ OpenEditGroup \/ CloseGroup) => OptionsInv'
<1> SUFFICES ASSUME OptionsInv, OpenAddGroup \/ OpenEditGroup \/ CloseGroup PROVE OptionsInv'
  OBVIOUS
<1>1. /\ UNCHANGED <<groups, variant, lastId, draftGroups, removedIds, patching, first,
                     toldSaved>>
      /\ OneOver'
  <2>1. CASE OpenAddGroup
    <3>1. dialog' \in GroupDialogs /\ dialog'.index = 0
      BY <2>1 DEF OpenAddGroup, GroupDialogs
    <3> QED BY <2>1, <3>1 DEF OpenAddGroup, AtTheForm, OneOver
  <2>2. CASE OpenEditGroup
    <3>1. PICK index \in DOMAIN draftGroups :
            dialog' = [index |-> index,
                       list |-> CHOOSE l \in Lists :
                                  /\ Values(l) = draftGroups[index].options
                                  /\ Len(l) = Cardinality(draftGroups[index].options),
                       limit |-> draftGroups[index].limit,
                       required |-> draftGroups[index].required]
      BY <2>2 DEF OpenEditGroup
    <3>2. /\ index \in 1..Len(draftGroups) /\ Len(draftGroups) \in Nat
          /\ draftGroups[index] \in AnyGroup
          /\ Meetable(draftGroups[index], lastId)
      BY SequenceIs DEF OptionsInv, FormGroups
    <3>3. \E l \in Lists : /\ Values(l) = draftGroups[index].options
                           /\ Len(l) = Cardinality(draftGroups[index].options)
      BY <3>2 DEF Meetable, WrittenLists
    <3>4. dialog' \in GroupDialogs /\ dialog'.index = index
      BY <3>1, <3>2, <3>3 DEF GroupDialogs, AnyGroup
    <3> QED BY <2>2, <3>4 DEF OpenEditGroup, AtTheForm, OneOver
  <2>3. CASE CloseGroup
    BY <2>3 DEF CloseGroup, OneOver, OptionsInv
  <2> QED BY <2>1, <2>2, <2>3
<1> QED BY <1>1 DEF OptionsInv, MenusStand, NamesWhatItOpened, FormIds, SavedIsTheForm, OffersTheForm

LEMMA GroupChanges == OptionsInv /\ ChangeGroup => OptionsInv'
<1> SUFFICES ASSUME OptionsInv, ChangeGroup PROVE OptionsInv'
  OBVIOUS
<1>1. dialog \in GroupDialogs
  BY DEF OptionsInv, OneOver, ChangeGroup
<1>2. dialog' \in GroupDialogs /\ dialog'.index = dialog.index
  <2>1. CASE \E list \in Lists : dialog' = [dialog EXCEPT !.list = list]
    BY <1>1, <2>1 DEF GroupDialogs
  <2>2. CASE \E limit \in 1..2 : dialog' = [dialog EXCEPT !.limit = limit]
    BY <1>1, <2>2 DEF GroupDialogs
  <2>3. CASE dialog' = [dialog EXCEPT !.required = ~@]
    <3>1. (~dialog.required) \in BOOLEAN
      OBVIOUS
    <3> QED BY <1>1, <2>3, <3>1 DEF GroupDialogs
  <2> QED BY <2>1, <2>2, <2>3 DEF ChangeGroup
<1>3. OneOver'
  BY <1>2 DEF OptionsInv, OneOver, ChangeGroup
<1> QED BY <1>3 DEF ChangeGroup, OptionsInv, MenusStand, NamesWhatItOpened, FormIds, SavedIsTheForm,
           OffersTheForm

\* What the dialog lets through can be met.
LEMMA GroupIsMeetable ==
    ASSUME dialog \in GroupDialogs, CanSaveDraft, NEW last \in Nat, NEW id \in Nat, id =< last
    PROVE  Meetable(GroupOf(id), last) /\ GroupOf(id).id = id
<1>1. dialog.list \in WrittenLists
  BY DEF GroupDialogs, CanSaveDraft, WrittenLists
<1>2. /\ Cardinality(Values(dialog.list)) = Len(dialog.list) /\ Len(dialog.list) \in Nat
      /\ Values(dialog.list) \in {Values(l) : l \in Lists}
  BY <1>1, WrittenIs
<1> DEFINE least == Smaller(dialog.limit, Len(dialog.list))
<1>3. least \in Nat /\ least =< Len(dialog.list)
  BY <1>2 DEF Smaller, GroupDialogs
<1>4. GroupOf(id) = [id |-> id, options |-> Values(dialog.list), limit |-> least,
                     required |-> dialog.required]
  BY DEF GroupOf
<1> HIDE DEF least
<1>5. GroupOf(id) \in AnyGroup
  BY <1>2, <1>3, <1>4 DEF AnyGroup, GroupDialogs
<1> QED BY <1>1, <1>2, <1>3, <1>4, <1>5 DEF Meetable

LEMMA GroupIsSaved == OptionsInv /\ SaveGroup => OptionsInv'
<1> SUFFICES ASSUME OptionsInv, SaveGroup PROVE OptionsInv'
  OBVIOUS
<1>1. /\ dialog \in GroupDialogs /\ CanSaveDraft
      /\ dialog.index = 0 \/ dialog.index \in DOMAIN draftGroups
      /\ patching = NoGroups /\ toldSaved = NoGroups /\ lastId \in Nat
      /\ UNCHANGED <<groups, variant, lastId, removedIds, patching, first, toldSaved>>
      /\ dialog' = NoGroups
  BY DEF OptionsInv, OneOver, SaveGroup, MenusStand
<1>2. /\ Len(draftGroups) \in Nat /\ DOMAIN draftGroups = 1..Len(draftGroups)
      /\ \A i \in 1..Len(draftGroups) : /\ draftGroups[i] \in AnyGroup
                                        /\ draftGroups[i].id \in Nat
                                        /\ draftGroups[i].id =< lastId
  BY SequenceIs DEF OptionsInv, FormGroups, Meetable, AnyGroup
<1> DEFINE n == Len(draftGroups)
<1>3. FormGroups(draftGroups', lastId)
      /\ Ids(Values(draftGroups')) \ {Unsaved} = Ids(Values(draftGroups)) \ {Unsaved}
  <2>1. CASE dialog.index = 0
    <3> DEFINE new == GroupOf(Unsaved)
    <3>1. Meetable(new, lastId) /\ new.id = Unsaved /\ new \in AnyGroup
      BY <1>1, GroupIsMeetable DEF Unsaved, Meetable
    <3>2. draftGroups' = Append(draftGroups, new)
      BY <2>1 DEF SaveGroup
    <3> HIDE DEF new
    <3>3. /\ draftGroups' \in Seq(AnyGroup) /\ Len(draftGroups') = n + 1
          /\ DOMAIN draftGroups' = 1..(n + 1)
          /\ \A i \in 1..n : draftGroups'[i] = draftGroups[i]
          /\ draftGroups'[n + 1] = new
      BY <1>2, <3>1, <3>2 DEF OptionsInv, FormGroups
    <3> HIDE DEF n
    <3>4. n \in Nat
      BY <1>2 DEF n
    <3>5. \A i \in 1..(n + 1) : i \in 1..n \/ i = n + 1
      BY <3>4
    <3>6. n + 1 \in 1..(n + 1) /\ \A i \in 1..n : i \in 1..(n + 1)
      BY <3>4
    <3>7. FormGroups(draftGroups', lastId)
      <4>1. \A i \in 1..(n + 1) : Meetable(draftGroups'[i], lastId)
        BY <3>1, <3>3, <3>5 DEF OptionsInv, FormGroups, n
      <4>2. \A i, j \in 1..(n + 1) : draftGroups'[i].id = draftGroups'[j].id
              /\ draftGroups'[i].id # Unsaved => i = j
        BY <3>1, <3>3, <3>5 DEF OptionsInv, FormGroups, n
      <4> QED BY <3>3, <4>1, <4>2 DEF FormGroups
    <3>8. Values(draftGroups') = Values(draftGroups) \cup {new}
      <4>1. DOMAIN draftGroups = 1..n
        BY <1>2 DEF n
      <4> QED BY <3>3, <3>5, <3>6, <4>1 DEF Values
    <3> QED BY <3>1, <3>7, <3>8 DEF Ids
  <2>2. CASE dialog.index # 0
    <3> DEFINE k == dialog.index
               new == GroupOf(draftGroups[k].id)
    <3>1. k \in 1..n
      BY <1>1, <1>2, <2>2
    <3>2. Meetable(new, lastId) /\ new.id = draftGroups[k].id /\ new \in AnyGroup
      BY <1>1, <1>2, <3>1, GroupIsMeetable DEF Meetable
    <3>3. draftGroups' = [draftGroups EXCEPT ![k] = new]
      BY <2>2 DEF SaveGroup
    <3> HIDE DEF new, k
    <3>4. /\ draftGroups' \in Seq(AnyGroup) /\ Len(draftGroups') = n
          /\ DOMAIN draftGroups' = 1..n
          /\ \A i \in 1..n : draftGroups'[i] = IF i = k THEN new ELSE draftGroups[i]
      BY <1>2, <3>1, <3>2, <3>3 DEF OptionsInv, FormGroups
    <3> HIDE DEF n
    <3>5. \A i \in 1..n : draftGroups'[i].id = draftGroups[i].id /\ Meetable(draftGroups'[i], lastId)
      BY <3>2, <3>4 DEF OptionsInv, FormGroups, n
    <3>6. FormGroups(draftGroups', lastId)
      BY <3>4, <3>5 DEF OptionsInv, FormGroups, n
    <3>7. Ids(Values(draftGroups')) = Ids(Values(draftGroups))
      <4>1. DOMAIN draftGroups = 1..n
        BY <1>2 DEF n
      <4> QED BY <3>4, <3>5, <4>1 DEF Ids, Values
    <3> QED BY <3>6, <3>7
  <2> QED BY <2>1, <2>2
<1>4. FormIds' = FormIds
  BY <1>1, <1>3 DEF FormIds
<1>5. OneOver'
  BY <1>1 DEF OneOver
<1>6. MenusStand' /\ FormGroups(draftGroups, lastId)' /\ NamesWhatItOpened' /\ SavedIsTheForm'
  BY <1>1, <1>3, <1>4 DEF OptionsInv, MenusStand, NamesWhatItOpened, SavedIsTheForm
<1> QED BY <1>1, <1>5, <1>6 DEF OptionsInv

\* Only a group with an id is removed from the menu, and its id is then asked for.
LEMMA GroupIsRemoved == OptionsInv /\ RemoveGroup => OptionsInv'
<1> SUFFICES ASSUME OptionsInv, RemoveGroup PROVE OptionsInv'
  OBVIOUS
<1>1. /\ Len(draftGroups) \in Nat /\ DOMAIN draftGroups = 1..Len(draftGroups)
      /\ draftGroups \in Seq(AnyGroup)
  BY SequenceIs DEF OptionsInv, FormGroups
<1>2. PICK k \in 1..Len(draftGroups) :
        /\ removedIds' = removedIds \cup ({draftGroups[k].id} \ {Unsaved})
        /\ draftGroups' = SubSeq(draftGroups, 1, k - 1)
                            \o SubSeq(draftGroups, k + 1, Len(draftGroups))
  BY <1>1 DEF RemoveGroup
<1> DEFINE n == Len(draftGroups)
           from(i) == IF i < k THEN i ELSE i + 1
<1>3. /\ draftGroups' \in Seq(AnyGroup) /\ Len(draftGroups') = n - 1
      /\ \A i \in 1..(n - 1) : draftGroups'[i] = draftGroups[from(i)]
  <2> DEFINE before == SubSeq(draftGroups, 1, k - 1)
             after == SubSeq(draftGroups, k + 1, n)
  <2>1. /\ before \in Seq(AnyGroup) /\ Len(before) = k - 1
        /\ \A i \in 1..(k - 1) : before[i] = draftGroups[i]
    <3>1. 1 \in 1..(n + 1) /\ k - 1 \in 0..n
      BY <1>1
    <3> QED BY <1>1, <3>1, SubSeqProperties
  <2>2. /\ after \in Seq(AnyGroup) /\ Len(after) = n - k
        /\ \A i \in 1..(n - k) : after[i] = draftGroups[k + i]
    <3>1. /\ k + 1 \in 1..(n + 1) /\ n \in k..n /\ n - (k + 1) + 1 = n - k
          /\ \A i \in 1..(n - k) : k + 1 + i - 1 = k + i
      BY <1>1
    <3>2. \A i \in (k + 1)..n : draftGroups[i] \in AnyGroup
      BY <1>1
    <3>3. /\ after \in Seq(AnyGroup)
          /\ Len(after) = IF k + 1 =< n THEN n - (k + 1) + 1 ELSE 0
          /\ \A i \in 1..(n - (k + 1) + 1) : after[i] = draftGroups[k + 1 + i - 1]
      <4>1. k + 1 \in Int /\ n \in Int
        BY <1>1
      <4> HIDE DEF n
      <4> QED BY <3>2, <4>1, SubSeqProperties
    <3>4. Len(after) = n - k
      BY <1>1, <3>3
    <3>5. \A i \in 1..(n - k) : after[i] = draftGroups[k + i]
      <4> HIDE DEF n, after
      <4> QED BY <3>1, <3>3
    <3> QED BY <3>3, <3>4, <3>5
  <2> HIDE DEF before, after
  <2>3. /\ before \o after \in Seq(AnyGroup) /\ Len(before \o after) = Len(before) + Len(after)
        /\ \A i \in 1..(Len(before) + Len(after)) :
             (before \o after)[i] = IF i =< Len(before) THEN before[i]
                                    ELSE after[i - Len(before)]
    BY <2>1, <2>2, ConcatProperties
  <2>4. draftGroups' = before \o after
    BY <1>2 DEF before, after
  <2> DEFINE m == n
  <2>5. m = n /\ m \in Nat /\ k \in 1..m
    BY <1>1
  <2> HIDE DEF m
  <2>6. Len(before) + Len(after) = m - 1
    BY <2>1, <2>2, <2>5
  <2>7. ASSUME NEW i \in 1..(m - 1) PROVE draftGroups'[i] = draftGroups[from(i)]
    <3>1. CASE i < k
      <4>1. i \in 1..(k - 1)
        BY <2>5, <3>1
      <4> QED BY <2>1, <2>3, <2>4, <2>5, <2>6, <3>1, <4>1
    <3>2. CASE ~(i < k)
      <4>1. i - (k - 1) \in 1..(m - k) /\ k + (i - (k - 1)) = i + 1 /\ ~(i =< k - 1)
        BY <2>5, <3>2
      <4>2. draftGroups'[i] = after[i - (k - 1)]
        BY <2>1, <2>3, <2>4, <2>5, <2>6, <4>1
      <4> QED BY <2>2, <2>5, <3>2, <4>1, <4>2
    <3> QED BY <3>1, <3>2
  <2> QED BY <2>3, <2>4, <2>5, <2>6, <2>7
<1>4. \A i \in 1..(n - 1) : from(i) \in 1..n /\ from(i) # k
  <2> HIDE DEF n
  <2>1. n \in Nat /\ k \in 1..n
    BY <1>1 DEF n
  <2> QED BY <2>1
<1>5. \A i, j \in 1..(n - 1) : from(i) = from(j) => i = j
  BY <1>1
<1>6. \A j \in 1..n : j = k \/ \E i \in 1..(n - 1) : from(i) = j
  <2> HIDE DEF n
  <2>1. n \in Nat /\ k \in 1..n
    BY <1>1 DEF n
  <2> SUFFICES ASSUME NEW j \in 1..n, j # k PROVE \E i \in 1..(n - 1) : from(i) = j
    OBVIOUS
  <2>2. CASE j < k
    <3>1. j \in 1..(n - 1) /\ from(j) = j
      BY <2>1, <2>2
    <3> QED BY <3>1
  <2>3. CASE j > k
    <3>1. j - 1 \in 1..(n - 1) /\ from(j - 1) = j
      BY <2>1, <2>3
    <3> QED BY <3>1
  <2> QED BY <2>1, <2>2, <2>3
<1>7. DOMAIN draftGroups' = 1..(n - 1)
  BY <1>3, SequenceIs
<1> HIDE DEF n, from
<1>8. FormGroups(draftGroups', lastId)
  <2>1. /\ \A i \in 1..n : Meetable(draftGroups[i], lastId)
        /\ \A i, j \in 1..n : draftGroups[i].id = draftGroups[j].id
                                /\ draftGroups[i].id # Unsaved => i = j
    BY DEF OptionsInv, FormGroups, n
  <2>2. \A i, j \in 1..(n - 1) : draftGroups'[i].id = draftGroups'[j].id
          /\ draftGroups'[i].id # Unsaved => i = j
    BY <1>3, <1>4, <1>5, <2>1
  <2>3. \A i \in 1..(n - 1) : Meetable(draftGroups'[i], lastId)
    BY <1>3, <1>4, <2>1
  <2> QED BY <1>3, <2>2, <2>3 DEF FormGroups
<1>9. Ids(Values(draftGroups)) = Ids(Values(draftGroups')) \cup {draftGroups[k].id}
  <2>1. Values(draftGroups) = Values(draftGroups') \cup {draftGroups[k]}
    <3>1. DOMAIN draftGroups = 1..n /\ k \in 1..n
      BY <1>1, <1>2 DEF n
    <3>2. ASSUME NEW j \in 1..n
          PROVE  draftGroups[j] \in Values(draftGroups') \cup {draftGroups[k]}
      <4>1. CASE j = k
        BY <4>1
      <4>2. CASE j # k
        <5>1. PICK i \in 1..(n - 1) : from(i) = j
          BY <1>6, <4>2
        <5>2. draftGroups'[i] = draftGroups[j]
          BY <1>3, <5>1
        <5> QED BY <1>7, <5>2 DEF Values
      <4> QED BY <4>1, <4>2
    <3>3. ASSUME NEW i \in 1..(n - 1)
          PROVE  draftGroups'[i] \in Values(draftGroups)
      BY <1>3, <1>4, <3>1 DEF Values
    <3>4. Values(draftGroups) \subseteq Values(draftGroups') \cup {draftGroups[k]}
      BY <3>1, <3>2 DEF Values
    <3>5. Values(draftGroups') \subseteq Values(draftGroups)
      BY <1>7, <3>3 DEF Values
    <3>6. draftGroups[k] \in Values(draftGroups)
      BY <3>1 DEF Values
    <3> QED BY <3>4, <3>5, <3>6
  <2> QED BY <2>1 DEF Ids
<1>10. FormIds' = FormIds
  BY <1>2, <1>9 DEF FormIds
<1>11. /\ UNCHANGED <<groups, variant, lastId, dialog, patching, first, toldSaved>>
       /\ dialog = NoGroups /\ patching = NoGroups /\ toldSaved = NoGroups
  BY DEF RemoveGroup, AtTheForm
<1>12. MenusStand' /\ OneOver' /\ NamesWhatItOpened' /\ SavedIsTheForm'
  BY <1>10, <1>11 DEF OptionsInv, MenusStand, OneOver, NamesWhatItOpened, SavedIsTheForm
<1> QED BY <1>8, <1>11, <1>12 DEF OptionsInv

LEMMA DishIsSent == OptionsInv /\ (SaveDish \/ CloseSaved) => OptionsInv'
<1> SUFFICES ASSUME OptionsInv, SaveDish \/ CloseSaved PROVE OptionsInv'
  OBVIOUS
<1>1. UNCHANGED <<groups, variant, lastId, draftGroups, removedIds, dialog>>
  BY DEF SaveDish, CloseSaved
<1>2. OneOver' /\ NamesWhatItOpened' /\ SavedIsTheForm' /\ first' \in BOOLEAN
  <2>1. CASE SaveDish
    <3>1. /\ patching'.list = draftGroups /\ patching'.removed = removedIds
          /\ patching'.scope \in {"day", "saved"} /\ dialog = NoGroups
          /\ toldSaved = NoGroups /\ UNCHANGED <<toldSaved, first>>
      BY <2>1 DEF SaveDish, AtTheForm
    <3> QED BY <1>1, <3>1 DEF OptionsInv, OneOver, NamesWhatItOpened, FormIds, SavedIsTheForm
  <2>2. CASE CloseSaved
    <3>1. toldSaved' = NoGroups /\ first' = FALSE /\ UNCHANGED patching
      BY <2>2 DEF CloseSaved
    <3> QED BY <1>1, <3>1 DEF OptionsInv, OneOver, NamesWhatItOpened, SavedIsTheForm
  <2> QED BY <2>1, <2>2
<1>3. MenusStand' /\ FormGroups(draftGroups, lastId)'
  BY <1>1 DEF OptionsInv, MenusStand
<1> QED BY <1>2, <1>3 DEF OptionsInv

LEMMA OfferedIs ==
    ASSUME MenusStand
    PROVE  MenuGroups(Offered, lastId) /\ (Offered = groups \/ Offered \in variant)
<1>1. CASE variant = {}
  BY <1>1 DEF MenusStand, Offered
<1>2. CASE variant # {}
  <2>1. PICK own : variant = {own} /\ MenuGroups(own, lastId)
    BY <1>2 DEF MenusStand
  <2>2. UNION variant = own
    BY <2>1
  <2> QED BY <1>2, <2>1, <2>2 DEF Offered
<1> QED BY <1>1, <1>2

LEMMA FormOpensAgain == OptionsInv /\ ReopenForm => OptionsInv'
<1> SUFFICES ASSUME OptionsInv, ReopenForm PROVE OptionsInv'
  OBVIOUS
<1>1. PICK own \in {groups, Offered} : draftGroups' = InOrder(own)
  BY DEF ReopenForm
<1>2. MenuGroups(own, lastId) /\ (own = groups \/ own \in variant)
  BY <1>1, OfferedIs DEF OptionsInv, MenusStand
<1>3. /\ FormGroups(draftGroups', lastId)
      /\ Ids(Values(draftGroups')) \ {Unsaved} = Ids(own)
  BY <1>1, <1>2, InOrderIs
<1>4. /\ UNCHANGED <<groups, variant, lastId, dialog, patching>>
      /\ removedIds' = {} /\ first' = TRUE /\ toldSaved' = NoGroups
      /\ dialog = NoGroups /\ patching = NoGroups
  BY DEF ReopenForm
<1>5. FormIds' = Ids(own)
  BY <1>3, <1>4 DEF FormIds
<1>6. MenusStand' /\ OneOver' /\ NamesWhatItOpened' /\ SavedIsTheForm'
  BY <1>2, <1>4, <1>5 DEF OptionsInv, MenusStand, OneOver, NamesWhatItOpened, SavedIsTheForm
<1> QED BY <1>3, <1>4, <1>6 DEF OptionsInv

\* The groups of a dish that was changed still have ids of their own, and are
\* those of the form when it names all that the dish had.
LEMMA AssignIs ==
    ASSUME lastId \in Nat, FormGroups(patching.list, lastId), NEW own, MenuGroups(own, lastId)
    PROVE  /\ MenuGroups(Assign(own), lastId + Len(patching.list))
           /\ LET asked == (Ids(Values(patching.list)) \ {Unsaved}) \cup patching.removed
              IN (\A group \in own : group.id \in asked) \/ ~(asked \subseteq Ids(own))
                 => \E kept \in BOOLEAN : Assign(own) = Numbered(kept)
<1> DEFINE asked == (Ids(Values(patching.list)) \ {Unsaved}) \cup patching.removed
           left == {group \in own : group.id \notin asked}
           last == lastId + Len(patching.list)
<1>1. Len(patching.list) \in Nat
  BY SequenceIs DEF FormGroups
<1>2. Assign(own) = IF asked \subseteq Ids(own) THEN left \cup Numbered(TRUE) ELSE Numbered(FALSE)
  BY DEF Assign
<1>3. \A kept \in BOOLEAN :
        /\ MenuGroups(Numbered(kept), last)
        /\ \A group \in Numbered(kept) :
             group.id > lastId \/ (kept /\ group.id \in asked)
  BY NumberedIs
<1>4. MenuGroups(own, last)
  BY <1>1, LaterMenus
<1> HIDE DEF last, asked
<1>5. MenuGroups(left \cup Numbered(TRUE), last)
  <2>1. IsFiniteSet(left \cup Numbered(TRUE))
    <3>1. IsFiniteSet(left)
      BY FS_Subset DEF MenuGroups
    <3> QED BY <1>3, <3>1, FS_Union DEF MenuGroups
  <2>2. \A group \in left \cup Numbered(TRUE) : Meetable(group, last) /\ group.id # Unsaved
    BY <1>3, <1>4 DEF MenuGroups
  <2>3. ASSUME NEW group \in left, NEW other \in Numbered(TRUE) PROVE group.id # other.id
    <3>1. group.id \notin asked /\ group.id =< lastId /\ group.id \in Nat
      BY DEF MenuGroups, Meetable, AnyGroup
    <3>2. other.id > lastId \/ other.id \in asked
      BY <1>3
    <3>3. other.id \in Nat
      BY <1>3 DEF MenuGroups, Meetable, AnyGroup
    <3> QED BY <3>1, <3>2, <3>3
  <2>4. ASSUME NEW group \in left \cup Numbered(TRUE), NEW other \in left \cup Numbered(TRUE),
               group.id = other.id
        PROVE  group = other
    <3>1. CASE group \in left /\ other \in left
      BY <2>4, <3>1 DEF MenuGroups
    <3>2. CASE group \in Numbered(TRUE) /\ other \in Numbered(TRUE)
      BY <1>3, <2>4, <3>2 DEF MenuGroups
    <3> HIDE DEF left
    <3> QED BY <2>3, <2>4, <3>1, <3>2
  <2> QED BY <2>1, <2>2, <2>4 DEF MenuGroups
<1>6. MenuGroups(Assign(own), last)
  BY <1>2, <1>3, <1>5
<1>7. (\A group \in own : group.id \in asked) \/ ~(asked \subseteq Ids(own))
        => \E kept \in BOOLEAN : Assign(own) = Numbered(kept)
  <2>1. CASE asked \subseteq Ids(own) /\ \A group \in own : group.id \in asked
    <3>1. left = {}
      BY <2>1
    <3>2. Assign(own) = Numbered(TRUE)
      BY <1>2, <2>1, <3>1
    <3> QED BY <3>2
  <2>2. CASE ~(asked \subseteq Ids(own))
    BY <1>2, <2>2
  <2> QED BY <2>1, <2>2
<1> QED BY <1>6, <1>7 DEF last, asked

\* What is saved is what the form says, when it was opened from what it changes.
LEMMA DishIsServed == OptionsInv /\ ServeOptions => OptionsInv'
<1> SUFFICES ASSUME OptionsInv, ServeOptions PROVE OptionsInv'
  OBVIOUS
<1> DEFINE last == lastId + Len(patching.list)
           asked == (Ids(Values(patching.list)) \ {Unsaved}) \cup patching.removed
           unknown == /\ patching.scope = "saved" /\ groups # {}
                      /\ Ids(Values(patching.list)) \cup patching.removed \subseteq {Unsaved}
<1>1. /\ patching # NoGroups /\ patching.list = draftGroups /\ patching.removed = removedIds
      /\ patching.scope \in {"day", "saved"} /\ toldSaved = NoGroups /\ dialog = NoGroups
      /\ MenuGroups(groups, lastId) /\ lastId \in Nat /\ FormGroups(patching.list, lastId)
  BY DEF OptionsInv, OneOver, MenusStand, ServeOptions
<1>2. Len(patching.list) \in Nat
  BY <1>1, SequenceIs DEF FormGroups
<1>3. /\ lastId' = last /\ patching' = NoGroups
      /\ UNCHANGED <<draftGroups, removedIds, dialog, first>>
      /\ toldSaved' = [offered |-> Offered', unknown |-> unknown]
  BY DEF ServeOptions
<1>4. MenusStand'
  <2>1. last \in Nat /\ MenuGroups(groups, last)
    BY <1>1, <1>2, LaterMenus
  <2>2. CASE patching.scope = "day"
    <3>1. variant' = {Numbered(FALSE)} /\ groups' = groups
      BY <2>2 DEF ServeOptions
    <3>2. /\ MenuGroups(Numbered(FALSE), last)
          /\ \A group \in Numbered(FALSE) : group.id > lastId
      BY <1>1, NumberedIs
    <3>3. Ids(groups) \cap Ids(Numbered(FALSE)) = {}
      <4>1. ASSUME NEW one \in groups, NEW other \in Numbered(FALSE) PROVE one.id # other.id
        <5>1. one.id =< lastId /\ one.id \in Nat /\ other.id > lastId /\ other.id \in Nat
          BY <1>1, <3>2 DEF MenuGroups, Meetable, AnyGroup
        <5> QED BY <1>1, <5>1
      <4> QED BY <4>1 DEF Ids
    <3> HIDE DEF last
    <3> QED BY <1>3, <2>1, <3>1, <3>2, <3>3 DEF MenusStand
  <2>3. CASE patching.scope = "saved"
    <3>1. variant' = {} /\ groups' = Assign(groups)
      BY <2>3 DEF ServeOptions
    <3>2. MenuGroups(Assign(groups), last)
      BY <1>1, AssignIs
    <3> HIDE DEF last
    <3> QED BY <1>3, <2>1, <3>1, <3>2 DEF MenusStand
  <2> QED BY <1>1, <2>2, <2>3
<1>5. FormGroups(draftGroups', lastId')
  BY <1>1, <1>2, <1>3, LaterMenus
<1>6. toldSaved' # NoGroups
  <2>1. MenuGroups(Offered, lastId)'
    BY <1>4, OfferedIs, PTL
  <2>2. Offered' \in SUBSET AnyGroup
    BY <2>1 DEF MenuGroups, Meetable
  <2>3. toldSaved' \in [offered : SUBSET AnyGroup, unknown : BOOLEAN]
    <3> HIDE DEF unknown
    <3>1. unknown \in BOOLEAN
      BY DEF unknown
    <3> QED BY <1>3, <2>2, <3>1
  <2> QED BY <2>3, NoGroupsAssumption
<1>7. ASSUME first, ~unknown
      PROVE  \E kept \in BOOLEAN : Offered' = Numbered(kept)
  <2>1. CASE patching.scope = "day"
    <3>1. variant' = {Numbered(FALSE)}
      BY <2>1 DEF ServeOptions
    <3>2. UNION variant' = Numbered(FALSE)
      BY <3>1
    <3> QED BY <3>1, <3>2 DEF Offered
  <2>2. CASE patching.scope = "saved"
    <3>1. Offered' = Assign(groups)
      BY <2>2 DEF ServeOptions, Offered
    <3>2. asked = FormIds
      BY <1>1 DEF FormIds
    <3>3. (\A group \in groups : group.id \in asked) \/ ~(asked \subseteq Ids(groups))
      <4>1. CASE asked = Ids(groups)
        BY <4>1 DEF Ids
      <4>2. CASE asked # Ids(groups)
        <5>1. PICK own \in variant : asked = Ids(own)
          BY <1>1, <1>7, <3>2, <4>2 DEF OptionsInv, NamesWhatItOpened
        <5>2. Ids(groups) \cap asked = {}
          BY <5>1 DEF OptionsInv, MenusStand
        <5>3. CASE asked # {}
          BY <5>2, <5>3
        <5>4. CASE asked = {}
          <6>1. groups = {}
            BY <1>7, <2>2, <5>4
          <6> QED BY <6>1
        <5> QED BY <5>3, <5>4
      <4> QED BY <4>1, <4>2
    <3> QED BY <1>1, <3>1, <3>3, AssignIs
  <2> QED BY <1>1, <2>1, <2>2
<1>8. SavedIsTheForm'
  <2> SUFFICES ASSUME first, ~unknown PROVE OffersTheForm'
    BY <1>3 DEF SavedIsTheForm
  <2>1. PICK kept \in BOOLEAN : Offered' = Numbered(kept)
    BY <1>7
  <2>2. toldSaved'.offered = Numbered(kept) /\ draftGroups' = patching.list
    BY <1>1, <1>3, <2>1
  <2>3. /\ Cardinality(Numbered(kept)) = Len(patching.list)
        /\ {Content(group) : group \in Numbered(kept)}
             = {Content(patching.list[i]) : i \in DOMAIN patching.list}
    BY <1>1, NumberedIs
  <2> QED BY <2>2, <2>3 DEF OffersTheForm
<1>9. OneOver' /\ NamesWhatItOpened'
  BY <1>1, <1>3, <1>6 DEF OneOver, NamesWhatItOpened
<1> QED BY <1>3, <1>4, <1>5, <1>8, <1>9 DEF OptionsInv

LEMMA OptionsStep == OptionsInv /\ [OptionsNext]_optionsVars => OptionsInv'
<1> SUFFICES ASSUME OptionsInv, [OptionsNext]_optionsVars PROVE OptionsInv'
  OBVIOUS
<1>1. CASE UNCHANGED optionsVars
  BY <1>1 DEF optionsVars, OptionsInv, MenusStand, OneOver, NamesWhatItOpened, FormIds,
              SavedIsTheForm, OffersTheForm
<1>2. CASE OptionsNext
  BY <1>2, GroupOpens, GroupChanges, GroupIsSaved, GroupIsRemoved, DishIsSent, DishIsServed,
     FormOpensAgain DEF OptionsNext
<1> QED BY <1>1, <1>2

\* The dish that is said to be saved offers what its form says, group by group and
\* with the limits it was written with, the first time a form is saved, if the
\* form names a group of the dish or the dish had none; and every group offered
\* has options and can be met (app/services/menus/update.rb#assign,
\* components/menus/new-menu-form.tsx#saveDraft).
THEOREM OptionsAsWritten == OptionsSpec => []OfferedAsWritten
<1>1. OptionsInv => OfferedAsWritten
  <2> SUFFICES ASSUME OptionsInv PROVE GroupsCanBeMet
    BY DEF OptionsInv, OfferedAsWritten
  <2>1. MenuGroups(Offered, lastId)
    BY OfferedIs DEF OptionsInv
  <2>2. ASSUME NEW group \in Offered
        PROVE  group.options # {} /\ group.limit =< Cardinality(group.options)
    <3>1. Meetable(group, lastId)
      BY <2>1 DEF MenuGroups
    <3> QED BY <3>1, WrittenIs DEF Meetable
  <2> QED BY <2>2 DEF GroupsCanBeMet
<1> QED BY <1>1, OptionsStart, OptionsStep, PTL DEF OptionsSpec
=============================================================================
