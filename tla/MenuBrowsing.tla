---------------------------- MODULE MenuBrowsing ----------------------------
(***************************************************************************)
(* An employee going through the menu of the week (pages/consumer/         *)
(* dashboard/weekly-menu.tsx), before choosing a dish: the filter by       *)
(* provider and its sheet (components/consumer/provider-filter-sheet.tsx), *)
(* which the list of orders uses too with one provider at a time           *)
(* (pages/consumer/orders/index.tsx); the notices of closures, which the   *)
(* browser's tab remembers as dismissed (hooks/use-session-storage.tsx);   *)
(* and the favourites, every one a visit of its own (lib/favorites.ts,     *)
(* Consumer::FavoritesController).                                         *)
(*                                                                         *)
(* The filter of the menu outlives its page and ends with the session      *)
(* (layouts/persistent-layout.tsx); that of the orders is their page's.    *)
(* The providers do not: every visit to the menu brings those there are    *)
(* (dashboard_controller.rb), and one may have been invited, or closed its  *)
(* account, since the filter was picked.                                   *)
(***************************************************************************)
EXTENDS Integers, FiniteSets

CONSTANTS
    Kitchens,       \* providers there are, were or will be
    Stars,          \* dishes and providers that may be favourites
    Closures,       \* the closures ahead: records of kitchen, from and to
    WeekDays,       \* days of the week on show
    NoSheet,        \* null: the sheet of the filter is closed
    NoStar,         \* null: no visit is in flight
    MaxStars        \* bound: favourites asked for

ASSUME BrowsingAssumption ==
    /\ WeekDays \subseteq Nat /\ WeekDays # {}
    /\ \A closure \in Closures :
         closure.kitchen \in Kitchens /\ closure.from \in Nat /\ closure.to \in Nat
    /\ MaxStars \in Nat
    /\ NoStar \notin [star : Stars, on : BOOLEAN, served : BOOLEAN, answer : SUBSET Stars]

VARIABLES
    browsing,       \* the page: "menu", "orders" or "dish"
    dayOn,          \* date
    kitchensShown,  \* providers, as the menu was given them
    menuFilter,     \* activeProviders of the menu; empty: all of them
    menuAmong,      \* the providers on show when the filter of the menu was picked
    ordersFilter,   \* activeProviders of the orders
    draftFilter,    \* draftProviders of the sheet that is open, if one is
    draftAmong,     \* the providers on show when the draft was picked
    dismissed,      \* what the tab remembers as dismissed: closure and kind
    dismissedAt,    \* every notice that was dismissed
    starsShown,     \* favorites, as the page was given them
    starsSaved,     \* the favourites of the employee
    starVisit,      \* the visit in flight: its star, what it asks and, once served, its answer
    adriftStars,    \* visits interrupted before the server served them
    starsAsked,     \* what was last asked of every star
    starsCrossed,   \* stars whose requests were served out of order, or perhaps never
    starsBehind,    \* the page may not know of the last change
    starsMade       \* favourites asked for

browsingVars == <<browsing, dayOn, kitchensShown, menuFilter, menuAmong, ordersFilter,
                  draftFilter, draftAmong, dismissed, dismissedAt, starsShown, starsSaved,
                  starVisit, adriftStars, starsAsked, starsCrossed, starsBehind, starsMade>>
starVars == <<starsShown, starsSaved, starVisit, adriftStars, starsAsked, starsCrossed,
              starsBehind, starsMade>>
filterVars == <<kitchensShown, menuFilter, menuAmong, ordersFilter, draftFilter, draftAmong>>
noticeVars == <<dismissed, dismissedAt>>

Notices == Closures \X {"soon", "now"}

BrowsingTypeOK ==
    /\ browsing \in {"menu", "orders", "dish"} /\ dayOn \in WeekDays
    /\ kitchensShown \subseteq Kitchens /\ menuFilter \subseteq Kitchens
    /\ menuAmong \subseteq Kitchens /\ draftAmong \subseteq Kitchens
    /\ ordersFilter \subseteq Kitchens /\ Cardinality(ordersFilter) <= 1
    /\ draftFilter # NoSheet => draftFilter \subseteq Kitchens /\ browsing # "dish"
    /\ dismissed \subseteq Notices /\ dismissedAt \subseteq Notices
    /\ starsShown \subseteq Stars /\ starsSaved \subseteq Stars /\ starsAsked \subseteq Stars
    /\ starVisit # NoStar => starVisit.star \in Stars /\ starVisit.served \in BOOLEAN
    /\ \A asks \in adriftStars : asks.star \in Stars /\ asks.on \in BOOLEAN
    /\ starsCrossed \subseteq Stars /\ starsBehind \in BOOLEAN
    /\ starsMade \in 0..MaxStars

-----------------------------------------------------------------------------
(* What the menu lists *)

\* filteredSchedules and the banners: those of every provider, or of the ones picked.
Listed(kitchen) == menuFilter = {} \/ kitchen \in menuFilter

\* A closure ahead of the day on show, or one that covers it for a provider listed.  Those
\* of a provider that left went with it.
Due(notice) ==
    LET closure == notice[1] IN
    /\ closure.kitchen \in kitchensShown
    /\ IF notice[2] = "soon" THEN closure.from > dayOn
       ELSE closure.from <= dayOn /\ dayOn <= closure.to /\ Listed(closure.kitchen)

\* soonClosures and closedBanners.
NoticesOnShow == {notice \in Notices : Due(notice) /\ notice \notin dismissed}

ChangeDate ==
    /\ browsing = "menu" /\ draftFilter = NoSheet
    /\ dayOn' \in WeekDays \ {dayOn}
    /\ UNCHANGED <<browsing, dismissed, dismissedAt>> /\ UNCHANGED filterVars
    /\ UNCHANGED starVars

\* A mutant of Remember: one key for both of the notices of a closure.
RememberTheClosure(notice) == {notice[1]} \X {"soon", "now"}

\* The key has the kind of the notice and its closure.
Remember(notice) == {notice}

Dismiss ==
    /\ browsing = "menu" /\ draftFilter = NoSheet
    /\ \E notice \in NoticesOnShow :
         /\ dismissed' = dismissed \cup Remember(notice)
         /\ dismissedAt' = dismissedAt \cup {notice}
    /\ UNCHANGED <<browsing, dayOn>> /\ UNCHANGED filterVars /\ UNCHANGED starVars

-----------------------------------------------------------------------------
(* The filter *)

SelectedProviders == IF browsing = "menu" THEN menuFilter ELSE ordersFilter

\* The sheet opens with what is in force.
OpenFilter ==
    /\ browsing # "dish" /\ draftFilter = NoSheet
    /\ draftFilter' = SelectedProviders /\ draftAmong' = menuAmong
    /\ UNCHANGED <<browsing, dayOn, kitchensShown, menuFilter, menuAmong, ordersFilter>>
    /\ UNCHANGED noticeVars /\ UNCHANGED starVars

\* A mutant of Toggled: as many as there are stand for all of them, whichever they are.
ToggledByNumber(draft, kitchen) ==
    LET next == (draft \cup {kitchen}) \ (draft \cap {kitchen}) IN
    IF browsing = "orders" THEN {kitchen} \ draft
    ELSE IF Cardinality(next) = Cardinality(kitchensShown) THEN {} ELSE next

\* toggleProvider: one at a time among the orders; on the menu, every one on show, with
\* or without others that left, is no filter.
Toggled(draft, kitchen) ==
    LET next == (draft \cup {kitchen}) \ (draft \cap {kitchen}) IN
    IF browsing = "orders" THEN {kitchen} \ draft
    ELSE IF kitchensShown \subseteq next THEN {} ELSE next

\* The providers of the sheet: on the menu, those on show; among the orders, theirs.
Options == IF browsing = "menu" THEN kitchensShown ELSE Kitchens

\* An option of the sheet, or the one for all of them.
PickOption ==
    /\ draftFilter # NoSheet
    /\ \/ draftFilter' = {}
       \/ \E kitchen \in Options : draftFilter' = Toggled(draftFilter, kitchen)
    /\ draftAmong' = kitchensShown
    /\ UNCHANGED <<browsing, dayOn, kitchensShown, menuFilter, menuAmong, ordersFilter>>
    /\ UNCHANGED noticeVars /\ UNCHANGED starVars

ApplyFilter ==
    /\ draftFilter # NoSheet
    /\ draftFilter' = NoSheet /\ draftAmong' = {}
    /\ IF browsing = "menu"
       THEN menuFilter' = draftFilter /\ menuAmong' = draftAmong /\ UNCHANGED ordersFilter
       ELSE ordersFilter' = draftFilter /\ UNCHANGED <<menuFilter, menuAmong>>
    /\ UNCHANGED <<browsing, dayOn, kitchensShown>>
    /\ UNCHANGED noticeVars /\ UNCHANGED starVars

CancelFilter ==
    /\ draftFilter # NoSheet
    /\ draftFilter' = NoSheet /\ draftAmong' = {}
    /\ UNCHANGED <<browsing, dayOn, kitchensShown, menuFilter, menuAmong, ordersFilter>>
    /\ UNCHANGED noticeVars /\ UNCHANGED starVars

\* filterByProvider: the shortcut to a favourite, or frequent, provider of those on show.
FilterByProvider ==
    /\ browsing = "menu" /\ draftFilter = NoSheet
    /\ \E kitchen \in kitchensShown \cap Stars :
         menuFilter' = IF menuFilter = {kitchen} THEN {} ELSE {kitchen}
    /\ menuAmong' = kitchensShown
    /\ UNCHANGED <<browsing, dayOn, kitchensShown, ordersFilter, draftFilter, draftAmong>>
    /\ UNCHANGED noticeVars /\ UNCHANGED starVars

-----------------------------------------------------------------------------
(* Favourites *)

\* A star asks for the opposite of what it shows, whatever is in flight: that is
\* interrupted, and the server may serve it all the same.  Those of the providers are in
\* the sheet too.
ToggleFavorite ==
    /\ browsing = "menu" /\ starsMade < MaxStars
    /\ starsMade' = starsMade + 1
    /\ \E star \in Stars :
         LET on == star \notin starsShown IN
         /\ draftFilter # NoSheet => star \in kitchensShown
         /\ starVisit' = [star |-> star, on |-> on, served |-> FALSE, answer |-> {}]
         /\ starsAsked' = IF on THEN starsAsked \cup {star} ELSE starsAsked \ {star}
    /\ adriftStars' = IF starVisit # NoStar /\ ~starVisit.served
                      THEN adriftStars \cup {[star |-> starVisit.star, on |-> starVisit.on]}
                      ELSE adriftStars
    /\ UNCHANGED <<browsing, dayOn, dismissed, dismissedAt, starsShown, starsSaved,
                   starsCrossed, starsBehind>>
    /\ UNCHANGED filterVars

\* A mutant of StarsAfter: the server turns the favourite over.
StarsTurnedOver(star, on) ==
    (starsSaved \cup {star}) \ (starsSaved \cap {star})

\* update (find_or_create_by!) and destroy: the same twice is the same.
StarsAfter(star, on) == IF on THEN starsSaved \cup {star} ELSE starsSaved \ {star}

\* The answer has the favourites.
ServeStar ==
    /\ starVisit # NoStar /\ ~starVisit.served
    /\ starsSaved' = StarsAfter(starVisit.star, starVisit.on)
    /\ starVisit' = [starVisit EXCEPT !.served = TRUE, !.answer = starsSaved']
    /\ starsBehind' = FALSE
    /\ UNCHANGED <<browsing, dayOn, dismissed, dismissedAt, starsShown, adriftStars,
                   starsAsked, starsCrossed, starsMade>>
    /\ UNCHANGED filterVars

ServeStarLate ==
    /\ \E asks \in adriftStars :
         /\ adriftStars' = adriftStars \ {asks}
         /\ starsSaved' = StarsAfter(asks.star, asks.on)
         /\ starsCrossed' = IF asks.on # (asks.star \in starsAsked)
                            THEN starsCrossed \cup {asks.star} ELSE starsCrossed
    /\ starsBehind' = TRUE
    /\ UNCHANGED <<browsing, dayOn, dismissed, dismissedAt, starsShown, starVisit,
                   starsAsked, starsMade>>
    /\ UNCHANGED filterVars

StarArrives ==
    /\ starVisit # NoStar /\ starVisit.served
    /\ starsShown' = starVisit.answer
    /\ starVisit' = NoStar
    /\ UNCHANGED <<browsing, dayOn, dismissed, dismissedAt, starsSaved, adriftStars,
                   starsAsked, starsCrossed, starsBehind, starsMade>>
    /\ UNCHANGED filterVars

\* The request or its answer is lost, or the provider of the star left; nothing is said.
StarLost ==
    /\ starVisit # NoStar
    /\ starVisit' = NoStar
    /\ starsCrossed' = IF starVisit.served THEN starsCrossed
                       ELSE starsCrossed \cup {starVisit.star}
    /\ starsBehind' = TRUE
    /\ UNCHANGED <<browsing, dayOn, dismissed, dismissedAt, starsShown, starsSaved,
                   adriftStars, starsAsked, starsMade>>
    /\ UNCHANGED filterVars

-----------------------------------------------------------------------------
(* Other pages, and another session *)

\* A dish opens over the menu, the same page; the orders are another one.
OpenDishOfMenu ==
    /\ browsing = "menu" /\ draftFilter = NoSheet
    /\ browsing' = "dish"
    /\ UNCHANGED <<dayOn, dismissed, dismissedAt>> /\ UNCHANGED filterVars
    /\ UNCHANGED starVars

BackToMenu ==
    /\ browsing = "dish"
    /\ browsing' = "menu"
    /\ UNCHANGED <<dayOn, dismissed, dismissedAt>> /\ UNCHANGED filterVars
    /\ UNCHANGED starVars

GoToOrders ==
    /\ browsing = "menu" /\ draftFilter = NoSheet
    /\ browsing' = "orders" /\ ordersFilter' = {}
    /\ starVisit' = NoStar
    /\ adriftStars' = IF starVisit # NoStar /\ ~starVisit.served
                      THEN adriftStars \cup {[star |-> starVisit.star, on |-> starVisit.on]}
                      ELSE adriftStars
    /\ UNCHANGED <<dayOn, kitchensShown, menuFilter, menuAmong, draftFilter, draftAmong>>
    /\ UNCHANGED noticeVars
    /\ UNCHANGED <<starsShown, starsSaved, starsAsked, starsCrossed, starsBehind, starsMade>>

\* The menu opens anew, on any day of its week, with the providers there are by then;
\* only its filter and the tab are kept.
GoToMenu ==
    /\ browsing = "orders" /\ draftFilter = NoSheet
    /\ browsing' = "menu" /\ dayOn' \in WeekDays
    /\ kitchensShown' \in SUBSET Kitchens
    /\ starsShown' = starsSaved /\ starsBehind' = FALSE
    /\ UNCHANGED <<menuFilter, menuAmong, ordersFilter, draftFilter, draftAmong>>
    /\ UNCHANGED noticeVars
    /\ UNCHANGED <<starsSaved, starVisit, adriftStars, starsAsked, starsCrossed, starsMade>>

\* Signing out and in again: the filter is gone, and what was dismissed is not.
AnotherSession ==
    /\ browsing = "orders" /\ draftFilter = NoSheet
    /\ menuFilter' = {} /\ menuAmong' = {}
    /\ UNCHANGED <<browsing, dayOn, kitchensShown, ordersFilter, draftFilter, draftAmong>>
    /\ UNCHANGED noticeVars /\ UNCHANGED starVars

-----------------------------------------------------------------------------
BrowsingInit ==
    /\ browsing = "menu" /\ dayOn \in WeekDays
    /\ kitchensShown \in SUBSET Kitchens
    /\ menuFilter = {} /\ ordersFilter = {} /\ draftFilter = NoSheet
    /\ menuAmong = {} /\ draftAmong = {}
    /\ dismissed = {} /\ dismissedAt = {}
    /\ starsShown = {} /\ starsSaved = {} /\ starsAsked = {}
    /\ starVisit = NoStar /\ adriftStars = {}
    /\ starsCrossed = {} /\ starsBehind = FALSE /\ starsMade = 0

BrowsingNext ==
    \/ ChangeDate \/ Dismiss
    \/ OpenFilter \/ PickOption \/ ApplyFilter \/ CancelFilter \/ FilterByProvider
    \/ ToggleFavorite \/ ServeStar \/ ServeStarLate \/ StarArrives \/ StarLost
    \/ OpenDishOfMenu \/ BackToMenu \/ GoToOrders \/ GoToMenu \/ AnotherSession

BrowsingSpec == BrowsingInit /\ [][BrowsingNext]_browsingVars

-----------------------------------------------------------------------------
(* Properties *)

\* Whatever was picked, and applied or not, on whichever list of providers, leaves out one
\* of those on show when it was picked: "all of them" is one state, so that the label, the
\* option that is checked and what an empty day says ("nothing published" against "nothing
\* of the ones picked") agree, and who is invited later is listed.  Except the shortcut to
\* the only provider there is, which is checked by itself.
LeavesOneOut(filter, among) ==
    filter = {} \/ ~ (among \subseteq filter) \/ \E kitchen \in among : filter = {kitchen}

AllIsNoFilter ==
    /\ LeavesOneOut(menuFilter, menuAmong)
    /\ draftFilter # NoSheet /\ browsing = "menu" => LeavesOneOut(draftFilter, draftAmong)

\* A notice that is due is on show until it is dismissed, and never again in that tab,
\* across days, dishes and pages; the two of a closure go one by one ("Cada aviso ... se
\* cierra por separado").
NoticesGoOneByOne == \A notice \in Notices :
    Due(notice) => (notice \in NoticesOnShow <=> notice \notin dismissedAt)

\* With nothing on its way, a star is what was last asked of it, a second click on one
\* that did not change yet included; and the page shows it.  Except the stars whose
\* requests were served in another order or got lost, and a page that was not told.
StarsAsAsked ==
    /\ starVisit = NoStar /\ adriftStars = {} =>
         \A star \in Stars \ starsCrossed : star \in starsSaved <=> star \in starsAsked
    /\ starVisit = NoStar /\ browsing = "menu" /\ ~starsBehind => starsShown = starsSaved

\* The filter, the notices and the stars of the menu are as they were last left.
LeftAsChosen == AllIsNoFilter /\ NoticesGoOneByOne /\ StarsAsAsked
=============================================================================
