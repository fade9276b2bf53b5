----------------------------- MODULE DishOptions -----------------------------
(***************************************************************************)
(* The groups of options of a dish as the provider writes them: the groups *)
(* of the form of a dish, the dialog that edits one of them                *)
(* (components/menus/new-menu-form.tsx) and what the server does with what *)
(* the form sends (Menus::Update#assign).                                  *)
(*                                                                         *)
(* A group that the form shows from the dish it opened has an id; one that *)
(* was added has none until the server saves it, and the form never learns *)
(* it.  A change may be for the saved dish or for one day only; that day   *)
(* has then a variant, with groups of its own.                             *)
(***************************************************************************)
EXTENDS Integers, Sequences, FiniteSets

CONSTANTS
    Lists,          \* the lists of options that may be written, as sequences
    NoGroups,       \* null
    MaxGroups,      \* bound: groups of a form
    MaxIds,         \* bound: groups ever saved
    MaxSavings      \* bound: requests to save

ASSUME OptionsAssumption ==
    /\ \A list \in Lists : list \in Seq(UNION {{l[i] : i \in DOMAIN l} : l \in Lists})
    /\ MaxGroups \in Nat /\ MaxIds \in Nat \ {0} /\ MaxSavings \in Nat

VARIABLES
    groups,         \* the groups of the saved dish
    variant,        \* {}, or {those of the variant of the day}
    lastId,         \* ids given so far
    draftGroups,    \* the groups of the form, in order
    removedIds,     \* removedGroupIds
    dialog,         \* the dialog of a group: NoGroups, or what it says
    patching,       \* the request in flight, or NoGroups
    savings,        \* requests sent
    first,          \* the form was not saved yet
    toldSaved       \* what the server had when it said the dish was saved, and
                    \* whether the form named none of the groups of the dish

optionsVars == <<groups, variant, lastId, draftGroups, removedIds, dialog, patching,
                 savings, first, toldSaved>>

Values(list) == {list[i] : i \in DOMAIN list}

\* The id of a group that has none yet.
Unsaved == 0

Contents == [options : {Values(list) : list \in Lists}, limit : 1..2, required : BOOLEAN]

\* What the dish offers on the day.
Offered == IF variant = {} THEN groups ELSE UNION variant

Ids(some) == {group.id : group \in some}

AnyGroup == [id : Nat, options : {Values(list) : list \in Lists}, limit : Nat,
             required : BOOLEAN]

ASSUME NoGroupsAssumption ==
    NoGroups \notin [offered : SUBSET AnyGroup, unknown : BOOLEAN]

Content(group) == [options |-> group.options, limit |-> group.limit, required |-> group.required]

OptionsTypeOK ==
    /\ \A group \in groups \cup UNION variant :
         group.id \in 1..lastId /\ Content(group) \in Contents
    /\ lastId \in 0..MaxIds
    /\ \A i \in DOMAIN draftGroups :
         draftGroups[i].id \in 0..lastId /\ Content(draftGroups[i]) \in Contents
    /\ removedIds \subseteq 1..lastId
    /\ dialog # NoGroups => dialog.list \in Lists \cup {<<>>} /\ dialog.index \in 0..MaxGroups
    /\ savings \in 0..MaxSavings /\ first \in BOOLEAN

-----------------------------------------------------------------------------
(* The form of the provider *)

\* With nothing over it: the dialog of a group, the sheet that saves.
AtTheForm == dialog = NoGroups /\ patching = NoGroups /\ toldSaved = NoGroups

OpenAddGroup ==
    /\ AtTheForm /\ Len(draftGroups) < MaxGroups
    /\ dialog' = [index |-> 0, list |-> <<>>, limit |-> 1, required |-> FALSE]
    /\ UNCHANGED <<groups, variant, lastId, draftGroups, removedIds, patching, savings,
                   first, toldSaved>>

OpenEditGroup ==
    /\ AtTheForm
    /\ \E index \in DOMAIN draftGroups :
         LET group == draftGroups[index]
             list == CHOOSE l \in Lists :
                       Values(l) = group.options /\ Len(l) = Cardinality(group.options)
         IN dialog' = [index |-> index, list |-> list, limit |-> group.limit,
                       required |-> group.required]
    /\ UNCHANGED <<groups, variant, lastId, draftGroups, removedIds, patching, savings,
                   first, toldSaved>>

Smaller(a, b) == IF a < b THEN a ELSE b

\* The options are free text; the limit goes up to as many as there are, and is
\* not lowered when some are erased.
ChangeGroup ==
    /\ dialog # NoGroups
    /\ \/ \E list \in Lists : dialog' = [dialog EXCEPT !.list = list]
       \/ \E limit \in 1..2 :
            /\ limit =< IF dialog.list = <<>> THEN 1 ELSE Len(dialog.list)
            /\ dialog' = [dialog EXCEPT !.limit = limit]
       \/ dialog' = [dialog EXCEPT !.required = ~@]
    /\ UNCHANGED <<groups, variant, lastId, draftGroups, removedIds, patching, savings,
                   first, toldSaved>>

CanSaveDraft ==
    /\ dialog.list # <<>>
    /\ Cardinality(Values(dialog.list)) = Len(dialog.list)

\* A mutant of GroupOf: the limit is kept as it was chosen.
GroupUnlimited(id) ==
    [id |-> id, options |-> Values(dialog.list), limit |-> dialog.limit,
     required |-> dialog.required]

GroupOf(id) ==
    [id |-> id, options |-> Values(dialog.list),
     limit |-> Smaller(dialog.limit, Len(dialog.list)), required |-> dialog.required]

SaveGroup ==
    /\ dialog # NoGroups /\ CanSaveDraft
    /\ draftGroups' = IF dialog.index = 0
                      THEN Append(draftGroups, GroupOf(Unsaved))
                      ELSE [draftGroups EXCEPT ![dialog.index] = GroupOf(@.id)]
    /\ dialog' = NoGroups
    /\ UNCHANGED <<groups, variant, lastId, removedIds, patching, savings, first, toldSaved>>

CloseGroup ==
    /\ dialog # NoGroups
    /\ dialog' = NoGroups
    /\ UNCHANGED <<groups, variant, lastId, draftGroups, removedIds, patching, savings,
                   first, toldSaved>>

RemoveGroup ==
    /\ AtTheForm
    /\ \E index \in DOMAIN draftGroups :
         /\ removedIds' = removedIds \cup ({draftGroups[index].id} \ {Unsaved})
         /\ draftGroups' = SubSeq(draftGroups, 1, index - 1)
                             \o SubSeq(draftGroups, index + 1, Len(draftGroups))
    /\ UNCHANGED <<groups, variant, lastId, dialog, patching, savings, first, toldSaved>>

\* The dish is saved, for the day only or from that day on (the sheet and its
\* answer are those of MenuAgendas).
SaveDish ==
    /\ AtTheForm /\ savings < MaxSavings
    /\ \E scope \in {"day", "saved"} :
         patching' = [scope |-> scope, groups |-> Values(draftGroups), list |-> draftGroups,
                      removed |-> removedIds]
    /\ savings' = savings + 1
    /\ UNCHANGED <<groups, variant, lastId, draftGroups, removedIds, dialog, first,
                   toldSaved>>

\* The groups of the request with ids given to those that do not keep one.
Numbered(kept) ==
    LET list == patching.list
        New(i) == ~kept \/ list[i].id = Unsaved
        Before(i) == {j \in 1..i : New(j)}
    IN {IF New(i) THEN [list[i] EXCEPT !.id = lastId + Cardinality(Before(i))] ELSE list[i] :
          i \in DOMAIN list}

\* A mutant of Assign: it does not look whether the ids are of the menu's groups.
AssignAnyId(own) ==
    LET asked == (Ids(Values(patching.list)) \ {Unsaved}) \cup patching.removed
    IN {group \in own : group.id \notin asked} \cup Numbered(TRUE)

\* Menus::Update#assign of a menu that has the groups `own`: its own groups are
\* changed, added to or removed by id, any other are copied in their place.
Assign(own) ==
    LET asked == (Ids(Values(patching.list)) \ {Unsaved}) \cup patching.removed
    IN
    IF asked \subseteq Ids(own)
    THEN {group \in own : group.id \notin asked} \cup Numbered(TRUE)
    ELSE Numbered(FALSE)

\* For the day, a new variant with copies; for the dish, the dish itself, and the
\* day has no variant any more.  The sheet says it is saved.
ServeOptions ==
    /\ patching # NoGroups
    /\ lastId + Len(patching.list) =< MaxIds
    /\ lastId' = lastId + Len(patching.list)
    /\ IF patching.scope = "day"
       THEN variant' = {Numbered(FALSE)} /\ UNCHANGED groups
       ELSE variant' = {} /\ groups' = Assign(groups)
    /\ toldSaved' = [offered |-> Offered',
                     unknown |-> /\ patching.scope = "saved" /\ groups # {}
                                 /\ Ids(Values(patching.list)) \cup patching.removed
                                      \subseteq {Unsaved}]
    /\ patching' = NoGroups
    /\ UNCHANGED <<draftGroups, removedIds, dialog, savings, first>>

\* The sheet that says so is closed; the form is still there, as it was.
CloseSaved ==
    /\ toldSaved # NoGroups
    /\ toldSaved' = NoGroups
    /\ first' = FALSE
    /\ UNCHANGED <<groups, variant, lastId, draftGroups, removedIds, dialog, patching,
                   savings>>

InOrder(some) ==
    CHOOSE list \in [1..Cardinality(some) -> some] :
      \A i, j \in DOMAIN list : i < j => list[i].id < list[j].id

\* The form is opened again: of the saved dish, or of the day.
ReopenForm ==
    /\ dialog = NoGroups /\ patching = NoGroups
    /\ \E own \in {groups, Offered} :
         /\ Cardinality(own) =< MaxGroups
         /\ draftGroups' = InOrder(own)
    /\ removedIds' = {} /\ first' = TRUE /\ toldSaved' = NoGroups
    /\ UNCHANGED <<groups, variant, lastId, dialog, patching, savings>>

-----------------------------------------------------------------------------
OptionsInit ==
    /\ \E list \in {l \in Lists : l # <<>> /\ Cardinality(Values(l)) = Len(l)}, required \in BOOLEAN :
         groups \in {{}, {[id |-> 1, options |-> Values(list), limit |-> Len(list),
                           required |-> required]}}
    /\ variant = {} /\ lastId = 1
    /\ draftGroups = InOrder(groups) /\ removedIds = {}
    /\ dialog = NoGroups /\ patching = NoGroups /\ savings = 0 /\ first = TRUE
    /\ toldSaved = NoGroups

OptionsNext ==
    \/ OpenAddGroup \/ OpenEditGroup \/ ChangeGroup \/ SaveGroup \/ CloseGroup
    \/ RemoveGroup \/ SaveDish \/ ServeOptions \/ CloseSaved \/ ReopenForm

OptionsSpec == OptionsInit /\ [][OptionsNext]_optionsVars

-----------------------------------------------------------------------------
(* Properties *)

\* Every group a dish offers can be chosen from: a group has options, and its
\* limit is of as many as it has.  Only the dialog sees to it: MenuOptionGroup
\* checks neither (saveDraft).
GroupsCanBeMet ==
    \A group \in Offered : group.options # {} /\ group.limit =< Cardinality(group.options)

OffersTheForm ==
    /\ Cardinality(toldSaved.offered) = Len(draftGroups)
    /\ {Content(group) : group \in toldSaved.offered}
         = {Content(draftGroups[i]) : i \in DOMAIN draftGroups}

\* The dish that is said to be saved offers what the form says, group by group,
\* the first time a form is saved, if it names some group of the dish or the dish
\* had none.
SavedIsTheForm == toldSaved # NoGroups /\ first /\ ~toldSaved.unknown => OffersTheForm

\* It should always ("Si el formulario trae los grupos del mismo plato, van con
\* sus ids.  Si trae los de otro, se reemplazan por copias", Menus::Update#assign);
\* but a form saved twice adds again the groups it added, and one without groups,
\* opened from the day, leaves those of the dish.
SavedIsAlwaysTheForm == toldSaved # NoGroups => OffersTheForm

\* A dish offers what the form said, and what it offers can be chosen.
OfferedAsWritten == GroupsCanBeMet /\ SavedIsTheForm
=============================================================================
