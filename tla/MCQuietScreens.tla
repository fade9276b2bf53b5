---------------------------- MODULE MCQuietScreens ----------------------------
(* Screens whose promises are all of safety, instances for TLC: the menu of *)
(* the week, the options of a dish on both sides, the cart when its answers *)
(* get lost, the special subsidies, the employees as seen by HR, the        *)
(* receipts as the provider reviews them.  A behaviour is of one screen,    *)
(* chosen at the start; the others stay as they open.                       *)
EXTENDS ConsumerCart, DishChoices, MenuBrowsing, DishOptions, SpecialSubsidies,
        EmployeeHistory, CollectionsPage, TLC

CONSTANTS a, b, d1, d2, blank, coupon

VARIABLE area

OneBenefit == {{coupon}}

Group(id, options, limit, required) ==
    [id |-> id, options |-> options, limit |-> limit, required |-> required]

SomeMenus ==
    {{Group(1, {a, b}, 1, TRUE), Group(2, {d1, d2, blank}, 2, FALSE)},
     {Group(1, {a}, 1, TRUE)},
     {Group(3, {a, b}, 2, TRUE)}}

SomeLists == {<<a>>, <<a, b>>, <<a, a>>}

SomeClosures == {[kitchen |-> d1, from |-> 2, to |-> 3]}

SomeBooks == {<<d1, 1>>, <<d2, 1>>, <<d1, 3>>}

Account(meals, paid, last) ==
    [opened |-> meals > 0, booked |-> 0, eaten |-> meals, amount |-> meals,
     paid |-> paid, asked |-> 0, last |-> last]

SomeBooksAtFirst ==
    {[book \in SomeBooks |-> CASE book = <<d1, 1>> -> Account(1, 0, "none")
                               [] book = <<d2, 1>> -> earlier
                               [] OTHER -> latest] :
        earlier \in {Account(2, 0, "rejected"), Account(2, 2, "approved")},
        latest \in {Account(0, 0, "none"), Account(1, 1, "approved")}}

OneEmployer == b :> a
OneConsumer == (d1 :> b) @@ (d2 :> b)
SomeCharged == (d1 :> 1) @@ (d2 :> 0)
SomeSubsidised == (d1 :> 1) @@ (d2 :> 1)

\* Bound: a debt that grows, with approvals alone.
TwoMealsApproved ==
    /\ area = "approvals"
    /\ review # NoOne => review.verdict = "approved"
    /\ \A owner \in Owners : \A i \in DOMAIN ledger.receipts[owner] :
          ledger.receipts[owner][i].status \in {"submitted", "approved"}

\* Bound: any verdict, on the receipts of one meal.
OneMealJudged == area = "verdicts" /\ ledger.consumed \subseteq {d1}

\* Bound: the filter or the stars, that share the page and nothing else.
FilterOrStars ==
    \/ area = "menu" /\ starsMade = 0
    \/ area = "stars" /\ draftFilter = NoSheet /\ menuFilter = {}

\* Bound: what the form does not show, for the type of the subsidy or because it
\* is for all, is as it opens.
FieldsAsShown ==
    /\ fields.type # "seniority" => fields.years = BlankForm.years
    /\ fields.type = "seniority" => fields.limit = BlankForm.limit
    /\ fields.type \notin {"birthday", "onboarding", "gift"} =>
         fields.amount = BlankForm.amount /\ fields.unit = BlankForm.unit
    /\ fields.type # "gift" => fields.from = NoGiftDay
    /\ fields.all => fields.who = {}

QuietInit ==
    /\ area \in {"cart", "choices", "menu", "stars", "options", "special", "employee",
                "approvals", "verdicts"}
    /\ Init /\ (area # "cart" => session = a)
    /\ ChoicesInit /\ (area # "choices" => offered = {Group(1, {a}, 1, TRUE)})
    /\ BrowsingInit
    /\ area # "menu" => kitchensShown = IF area = "stars" THEN Kitchens ELSE {}
    /\ area \notin {"menu", "stars"} => dayOn = 1
    /\ OptionsInit /\ (area # "options" => groups = {})
    /\ SpecialInit /\ (area # "special" => special = NoRule)
    /\ HistoryInit
    /\ area # "employee" =>
         hrPage = "show" /\ \A book \in SomeBooks : books[book].paid = 0
    /\ CollectionsInit

QuietNext ==
    /\ UNCHANGED area
    /\ \/ /\ area = "cart" /\ Next
          /\ UNCHANGED <<choicesVars, browsingVars, optionsVars, specialVars,
                      historyVars, collectionsVars>>
       \/ /\ area = "choices" /\ ChoicesNext
          /\ UNCHANGED <<vars, browsingVars, optionsVars, specialVars,
                      historyVars, collectionsVars>>
       \/ /\ area \in {"menu", "stars"} /\ BrowsingNext /\ FilterOrStars'
          /\ UNCHANGED <<vars, choicesVars, optionsVars, specialVars,
                      historyVars, collectionsVars>>
       \/ /\ area = "options" /\ OptionsNext
          /\ UNCHANGED <<vars, choicesVars, browsingVars, specialVars,
                      historyVars, collectionsVars>>
       \/ /\ area = "special" /\ SpecialNext /\ FieldsAsShown'
          /\ UNCHANGED <<vars, choicesVars, browsingVars, optionsVars,
                      historyVars, collectionsVars>>
       \/ /\ area = "employee" /\ HistoryNext
          /\ UNCHANGED <<vars, choicesVars, browsingVars, optionsVars,
                      specialVars, collectionsVars>>
       \/ /\ area \in {"approvals", "verdicts"} /\ CollectionsNext
          /\ TwoMealsApproved' \/ OneMealJudged'
          /\ UNCHANGED <<vars, choicesVars, browsingVars, optionsVars,
                      specialVars, historyVars>>

quietVars ==
    <<area, vars, choicesVars, browsingVars, optionsVars, specialVars, historyVars,
      collectionsVars>>

QuietSpec ==
    /\ QuietInit /\ [][QuietNext]_quietVars
===============================================================================
