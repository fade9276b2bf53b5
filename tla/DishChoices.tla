----------------------------- MODULE DishChoices -----------------------------
(***************************************************************************)
(* What an employee chooses of a dish: the groups of options of its detail *)
(* (components/menus/option-choices.tsx in                                 *)
(* pages/consumer/dashboard/dish-detail.tsx), the line of the cart that    *)
(* keeps the choice in the session of the browser, and the check the       *)
(* server makes when it is ordered (Order).  Meanwhile the provider may    *)
(* change the groups of the dish; a group that was written again has       *)
(* another id.                                                             *)
(***************************************************************************)
EXTENDS Integers, FiniteSets

CONSTANTS
    Menus,          \* the groups the dish may have, each menu a set of them
    NotChosen,      \* null
    MaxOfferings    \* bound: times the provider changes them

ASSUME ChoicesAssumption ==
    /\ \A menu \in Menus : \A group \in menu :
         /\ group.options # {} /\ group.limit \in 1..Cardinality(group.options)
         /\ group.required \in BOOLEAN
         /\ \A other \in menu : other.id = group.id => other = group
    /\ MaxOfferings \in Nat

VARIABLES
    offered,        \* the groups the dish has
    offerings,      \* times they changed
    menuShown,      \* the groups the employee sees
    selections,     \* what they chose, by group; NotChosen: no detail is open
    cartLine,       \* what the line of their cart says, or NotChosen
    begun,          \* the menus that choice was made under
    refused         \* an order was refused for its options: the groups then

choicesVars == <<offered, offerings, menuShown, selections, cartLine, begun, refused>>

GroupIds(menu) == {group.id : group \in menu}

AllIds == UNION {GroupIds(menu) : menu \in Menus}

AllOptions == UNION {group.options : group \in UNION Menus}

ChoicesOf(x) == x # NotChosen => /\ DOMAIN x \subseteq AllIds
                               /\ \A id \in DOMAIN x : x[id] \subseteq AllOptions

ChoicesTypeOK ==
    /\ offered \in Menus /\ menuShown \in Menus /\ begun \subseteq Menus
    /\ offerings \in 0..MaxOfferings
    /\ ChoicesOf(selections) /\ ChoicesOf(cartLine)
    /\ refused # NotChosen => refused \in Menus

-----------------------------------------------------------------------------
(* The menu and its detail *)

\* The menu is loaded; the cart is kept in the session of the browser.
LoadMenu ==
    /\ menuShown' = offered
    /\ selections' = NotChosen /\ refused' = NotChosen
    /\ begun' = IF cartLine = NotChosen THEN {} ELSE begun
    /\ UNCHANGED <<offered, offerings, cartLine>>

NoSelections == [id \in {} |-> {}]

\* The detail starts with what the line of the cart says, if there is one.
OpenDish ==
    /\ selections = NotChosen /\ refused = NotChosen
    /\ selections' = IF cartLine = NotChosen THEN NoSelections ELSE cartLine
    /\ begun' = begun \cup {menuShown}
    /\ UNCHANGED <<offered, offerings, menuShown, cartLine, refused>>

ChosenOf(id) == IF id \in DOMAIN selections THEN selections[id] ELSE {}

SetValues(id, values) ==
    selections' = [other \in DOMAIN selections \cup {id} |->
                     IF other = id THEN values ELSE selections[other]]

\* A mutant of Choose: the boxes are never blocked.
ChooseAny ==
    /\ selections # NotChosen
    /\ \E group \in menuShown : \E option \in group.options :
         LET values == ChosenOf(group.id)
         IN SetValues(group.id, IF option \in values THEN values \ {option}
                                ELSE IF group.limit = 1 THEN {option}
                                ELSE values \cup {option})
    /\ UNCHANGED <<offered, offerings, menuShown, cartLine, begun, refused>>

\* One option, and again to take it away; or up to the limit.
Choose ==
    /\ selections # NotChosen
    /\ \E group \in menuShown : \E option \in group.options :
         LET values == ChosenOf(group.id)
         IN
         \/ group.limit = 1 /\ SetValues(group.id, IF values = {option} THEN {} ELSE {option})
         \/ /\ group.limit > 1 /\ option \in values
            /\ SetValues(group.id, values \ {option})
         \/ /\ group.limit > 1 /\ option \notin values
            /\ Cardinality(values) < group.limit
            /\ SetValues(group.id, values \cup {option})
    /\ UNCHANGED <<offered, offerings, menuShown, cartLine, begun, refused>>

\* A mutant of ChoicesMissing: only of the groups that were touched.
MissingOfTouched ==
    \E id \in DOMAIN selections : \E group \in menuShown :
      group.id = id /\ group.required /\ selections[id] = {}

ChoicesMissing == \E group \in menuShown : group.required /\ ChosenOf(group.id) = {}

AddDish ==
    /\ selections # NotChosen /\ ~ChoicesMissing
    /\ cartLine' = selections
    /\ selections' = NotChosen
    /\ UNCHANGED <<offered, offerings, menuShown, begun, refused>>

\* The line is taken out of the cart, or the detail is left.
DropDish ==
    /\ selections # NotChosen \/ cartLine # NotChosen
    /\ selections' = NotChosen
    /\ cartLine' = IF selections = NotChosen THEN NotChosen ELSE cartLine
    /\ begun' = IF cartLine' = NotChosen THEN {} ELSE begun
    /\ UNCHANGED <<offered, offerings, menuShown, refused>>

\* Order#selected_options_offered_by_menu, of the choices that are not empty.
OfferedByMenu(chosen) ==
    LET given == {id \in DOMAIN chosen : chosen[id] # {}}
    IN
    /\ given \subseteq GroupIds(offered)
    /\ \A group \in offered :
         LET values == IF group.id \in given THEN chosen[group.id] ELSE {}
         IN /\ group.required => values # {}
            /\ Cardinality(values) =< group.limit
            /\ values \subseteq group.options

\* The cart is ordered; a cart that is refused stays as it was.
OrderDish ==
    /\ selections = NotChosen /\ cartLine # NotChosen /\ refused = NotChosen
    /\ IF OfferedByMenu(cartLine)
       THEN cartLine' = NotChosen /\ begun' = {} /\ UNCHANGED refused
       ELSE refused' = offered /\ UNCHANGED <<cartLine, begun>>
    /\ UNCHANGED <<offered, offerings, menuShown, selections>>

\* The provider saves the dish with other groups.
ChangeDish ==
    /\ offerings < MaxOfferings
    /\ offerings' = offerings + 1
    /\ offered' \in Menus \ {offered}
    /\ UNCHANGED <<menuShown, selections, cartLine, begun, refused>>

-----------------------------------------------------------------------------
ChoicesInit ==
    /\ offered \in Menus /\ offerings = 0
    /\ menuShown = offered /\ selections = NotChosen /\ cartLine = NotChosen
    /\ begun = {} /\ refused = NotChosen

ChoicesNext ==
    \/ LoadMenu \/ OpenDish \/ Choose \/ AddDish \/ DropDish \/ OrderDish
    \/ ChangeDish

ChoicesSpec == ChoicesInit /\ [][ChoicesNext]_choicesVars

-----------------------------------------------------------------------------
(* Properties *)

\* What the detail lets through the server takes: an order is refused for its
\* options only if the dish was another while the choice was made (OptionChoices
\* and choicesMissing against selected_options_offered_by_menu).
RefusedOnlyIfChanged == refused # NotChosen => begun # {refused}
=============================================================================
