------------------------ MODULE CompanyScreensProofs ------------------------
(***************************************************************************)
(* What holds of the screens of a company for any number of months,        *)
(* subsidies, orders, items and requests: HR programming the base subsidy  *)
(* (BaseSubsidy), an employee modifying an order (OrderEditing), the       *)
(* details fetched apart from the page (FetchedDetails) and the dialogs    *)
(* that wait for an answer (FormDialogs).  The first two act on a server   *)
(* that has moved since the screen was loaded, so nothing the screen shows *)
(* takes part in the arguments: they rest on what the server checks, and   *)
(* on what the requests carry of what was agreed.  The last two rest on    *)
(* what a screen does with an answer that comes late, or not at all.       *)
(***************************************************************************)
EXTENDS BaseSubsidy, OrderEditing, FetchedDetails, FormDialogs, FiniteSetTheorems,
        WellFoundedInduction, TLAPS

-----------------------------------------------------------------------------
(* The base subsidy *)

\* Some months, one of them the latest.
LEMMA Latest ==
    ASSUME NEW n \in Nat, NEW T, T \subseteq 1..n, T # {}
    PROVE  \E m \in T : \A other \in T : other <= m
<1> DEFINE Back == {n - m : m \in T}
<1>1. Back \subseteq Nat /\ Back # {}
  <2>1. \A m \in T : m \in Int /\ n - m \in Nat
    OBVIOUS
  <2>2. PICK m \in T : TRUE
    OBVIOUS
  <2> QED BY <2>1, <2>2
<1>2. PICK x \in Back : \A y \in Back : ~(<<y, x>> \in OpToRel(<, Nat))
  BY <1>1, NatLessThanWellFounded, WFMin, Zenon
<1>3. \A y \in Back : ~(y < x)
  BY <1>1, <1>2 DEF OpToRel
<1>4. PICK m \in T : x = n - m
  OBVIOUS
<1>5. \A other \in T : other <= m
  BY <1>3, <1>4
<1> QED BY <1>5

\* The form opens with a subsidy, or blank.
LEMMA BaseType == SubsidyTypeOK => BaseShown \in Subsidies \cup {Unfit}
<1> SUFFICES ASSUME SubsidyTypeOK PROVE BaseShown \in Subsidies \cup {Unfit}
  OBVIOUS
<1> DEFINE applied == {m \in 1..monthNow : programmedShown[m] # NoSubsidy}
<1>1. monthNow \in Nat /\ 1..monthNow \subseteq ProgramMonths
  BY SubsidyAssumption DEF SubsidyTypeOK, ProgramMonths
<1>2. CASE applied = {}
  BY <1>2 DEF BaseShown
<1>3. CASE applied # {}
  <2>1. \E m \in applied : \A other \in applied : other <= m
    BY <1>1, <1>3, Latest
  <2> DEFINE latest == CHOOSE m \in applied : \A other \in applied : other <= m
  <2>2. latest \in applied
    BY <2>1
  <2>3. BaseShown = programmedShown[latest]
    BY <1>3 DEF BaseShown
  <2>4. programmedShown[latest] \in Subsidies
    BY <1>1, <2>2 DEF SubsidyTypeOK
  <2> QED BY <2>3, <2>4
<1> QED BY <1>2, <1>3

LEMMA ConfigurableType == SubsidyTypeOK => ConfigurableNow \in ProgramMonths
BY SubsidyAssumption DEF SubsidyTypeOK, ConfigurableNow, ProgramMonths

\* What the server programs is a subsidy, and only for the configurable month.
LEMMA CreatedType ==
    ASSUME SubsidyTypeOK, NEW plan \in Plans
    PROVE  /\ Created(plan) \in [ProgramMonths -> Subsidies \cup {NoSubsidy}]
           /\ \A m \in ProgramMonths \ {ConfigurableNow} :
                Created(plan)[m] = programmed[m]
           /\ programmed[ConfigurableNow] # NoSubsidy =>
                /\ Created(plan)[ConfigurableNow] # NoSubsidy
                /\ ~plan.replace => Created(plan)[ConfigurableNow] = programmed[ConfigurableNow]
BY ConfigurableType, SubsidyAssumption DEF SubsidyTypeOK, Created, Plans

\* A plan that replaces was answered for.
AskedFor ==
    /\ programming # NoProgramming /\ programming.plan.replace => programming.plan.asked
    /\ \A plan \in adriftProgrammings : plan.replace => plan.asked

SubsidyInv == SubsidyTypeOK /\ AskedFor

LEMMA SubsidyInitInv == SubsidyInit => SubsidyInv
<1> SUFFICES ASSUME SubsidyInit PROVE SubsidyInv
  OBVIOUS
<1>1. monthSaid \in ProgramMonths
  BY SubsidyAssumption DEF SubsidyInit, ConfigurableNow, ProgramMonths
<1>2. /\ monthNow \in 1..LastMonth /\ programmings \in 0..MaxProgrammings
      /\ programmed \in [ProgramMonths -> Subsidies \cup {NoSubsidy}]
  BY SubsidyAssumption DEF SubsidyInit
<1>3. SubsidyTypeOK
  BY <1>1, <1>2 DEF SubsidyInit, SubsidyTypeOK
<1>4. AskedFor
  BY DEF SubsidyInit, AskedFor
<1> QED BY <1>3, <1>4 DEF SubsidyInv

\* What a save leaves in flight.
LEMMA SendType ==
    ASSUME SubsidyInv, NEW replace \in BOOLEAN, NEW confirmed \in BOOLEAN,
           replace => confirmed, SendSubsidy(replace, confirmed)
    PROVE  /\ programming' \in [plan : Plans, answer : {"waiting", "done", "refused"},
                                heard : BOOLEAN]
           /\ programming'.plan.replace => programming'.plan.asked
           /\ adriftProgrammings' \subseteq Plans
           /\ \A plan \in adriftProgrammings' : plan.replace => plan.asked
           /\ programmings' \in 0..MaxProgrammings
<1>1. [subsidy |-> entry, replace |-> replace, asked |-> confirmed, month |-> monthSaid] \in Plans
  BY DEF SubsidyInv, SubsidyTypeOK, Plans
<1>2. /\ programming' \in [plan : Plans, answer : {"waiting", "done", "refused"},
                           heard : BOOLEAN]
      /\ programming'.plan.replace => programming'.plan.asked
  BY <1>1 DEF SendSubsidy
<1>3. programmings' \in 0..MaxProgrammings
  BY SubsidyAssumption DEF SendSubsidy, SubsidyInv, SubsidyTypeOK
<1>4. /\ adriftProgrammings' \subseteq Plans
      /\ \A plan \in adriftProgrammings' : plan.replace => plan.asked
  BY DEF SendSubsidy, SubsidyInv, SubsidyTypeOK, AskedFor
<1> QED BY <1>2, <1>3, <1>4

LEMMA SubsidyStep == SubsidyInv /\ [SubsidyNext]_subsidyVars => SubsidyInv'
<1> SUFFICES ASSUME SubsidyInv, [SubsidyNext]_subsidyVars PROVE SubsidyInv'
  OBVIOUS
<1> USE DEF SubsidyInv, SubsidyTypeOK, AskedFor, OnTheCalendar, PageOfSubsidy
<1>1. CASE StartEditing
  BY <1>1, BaseType DEF StartEditing
<1>2. CASE EditEntry
  BY <1>2 DEF EditEntry
<1>3. CASE HandleSubmit
  <2>1. CASE conflict'
    BY <1>3, <2>1 DEF HandleSubmit
  <2>2. CASE SendSubsidy(FALSE, FALSE)
    BY <1>3, <2>2, SendType DEF HandleSubmit
  <2> QED BY <1>3, <2>1, <2>2 DEF HandleSubmit
<1>4. CASE HandleReplace
  BY <1>4, SendType DEF HandleReplace
<1>5. CASE CancelEditing
  BY <1>5 DEF CancelEditing
<1>6. CASE ProgrammingArrives
  BY <1>6, ConfigurableType DEF ProgrammingArrives
<1>7. CASE ProgrammingLost
  BY <1>7 DEF ProgrammingLost
<1>8. CASE ServeProgramming
  <2>1. programming.plan \in Plans
    BY <1>8 DEF ServeProgramming
  <2>2. programmed' \in [ProgramMonths -> Subsidies \cup {NoSubsidy}]
    BY <1>8, <2>1, CreatedType DEF ServeProgramming
  <2> QED BY <1>8, <2>2 DEF ServeProgramming
<1>9. CASE ServeProgrammingLate
  <2>1. programmed' \in [ProgramMonths -> Subsidies \cup {NoSubsidy}]
    BY <1>9, CreatedType DEF ServeProgrammingLate
  <2> QED BY <1>9, <2>1 DEF ServeProgrammingLate
<1>10. CASE ProgramElsewhere
  BY <1>10, ConfigurableType DEF ProgramElsewhere
<1>11. CASE PassCutoff
  BY <1>11 DEF PassCutoff
<1>12. CASE PassMonth
  <2>1. monthNow' \in 1..LastMonth
    BY <1>12, SubsidyAssumption DEF PassMonth
  <2> QED BY <1>12, <2>1 DEF PassMonth
<1>13. CASE UNCHANGED subsidyVars
  BY <1>13 DEF subsidyVars
<1> QED
  BY <1>1, <1>2, <1>3, <1>4, <1>5, <1>6, <1>7, <1>8, <1>9, <1>10, <1>11, <1>12, <1>13
     DEF SubsidyNext

\* Every variable of the page and of what is programmed keeps its type.
THEOREM SubsidyTypes == SubsidySpec => []SubsidyTypeOK
<1>1. SubsidyInv => SubsidyTypeOK
  BY DEF SubsidyInv
<1> QED BY <1>1, SubsidyInitInv, SubsidyStep, PTL DEF SubsidySpec

\* The changes programmed come from the server's side alone.
LEMMA ProgrammedSteps ==
    ASSUME SubsidyInv, [SubsidyNext]_subsidyVars
    PROVE  \/ UNCHANGED programmed
           \/ ServeProgramming \/ ServeProgrammingLate \/ ProgramElsewhere
BY DEF SubsidyNext, subsidyVars, StartEditing, EditEntry, HandleSubmit, HandleReplace,
       CancelEditing, ProgrammingArrives, ProgrammingLost, PassCutoff, PassMonth

\* And each of them is a plan created, or what somebody else of HR programs.
LEMMA ProgrammedBy ==
    ASSUME SubsidyInv, [SubsidyNext]_subsidyVars, programmed' # programmed
    PROVE  \/ \E subsidy \in Subsidies :
                /\ programmed' = [programmed EXCEPT ![ConfigurableNow] = subsidy]
                /\ ProgramElsewhere
           \/ /\ programming # NoProgramming /\ programming.plan \in Plans
              /\ programmed' = Created(programming.plan)
           \/ \E plan \in adriftProgrammings :
                plan \in Plans /\ programmed' = Created(plan)
<1>1. CASE ServeProgramming
  BY <1>1 DEF ServeProgramming, SubsidyInv, SubsidyTypeOK
<1>2. CASE ServeProgrammingLate
  BY <1>2 DEF ServeProgrammingLate, SubsidyInv, SubsidyTypeOK
<1>3. CASE ProgramElsewhere
  <2>1. PICK subsidy \in Subsidies :
          programmed' = [programmed EXCEPT ![ConfigurableNow] = subsidy]
    BY <1>3 DEF ProgramElsewhere
  <2> QED BY <1>3, <2>1
<1> QED BY <1>1, <1>2, <1>3, ProgrammedSteps

\* Only a month still configurable changes, however old the page is: the
\* server programs for the month its own calendar says.
THEOREM ChangesOnlyTheConfigurable == SubsidySpec => OnlyTheConfigurableChanges
<1> DEFINE Only == \A m \in ProgramMonths :
                     programmed'[m] # programmed[m] => m >= ConfigurableNow
<1>1. SubsidyInv /\ [SubsidyNext]_subsidyVars => [Only]_subsidyVars
  <2> SUFFICES ASSUME SubsidyInv, [SubsidyNext]_subsidyVars,
                      NEW m \in ProgramMonths, programmed'[m] # programmed[m]
               PROVE  m >= ConfigurableNow
    OBVIOUS
  <2>1. SubsidyTypeOK /\ ConfigurableNow \in Nat
    BY ConfigurableType, SubsidyAssumption DEF SubsidyInv, ProgramMonths
  <2>2. m = ConfigurableNow
    BY <2>1, ProgrammedBy, CreatedType DEF SubsidyTypeOK
  <2> QED BY <2>1, <2>2
<1> QED
  BY <1>1, SubsidyInitInv, SubsidyStep, PTL DEF SubsidySpec, OnlyTheConfigurableChanges

\* A month programmed stays so: a replacement that cannot be saved undoes nothing.
THEOREM NeverWithout == SubsidySpec => NeverLeftWithout
<1> DEFINE Stays == \A m \in ProgramMonths :
                      programmed[m] # NoSubsidy => programmed'[m] # NoSubsidy
<1>1. SubsidyInv /\ [SubsidyNext]_subsidyVars => [Stays]_subsidyVars
  <2> SUFFICES ASSUME SubsidyInv, [SubsidyNext]_subsidyVars,
                      NEW m \in ProgramMonths, programmed[m] # NoSubsidy
               PROVE  programmed'[m] # NoSubsidy
    OBVIOUS
  <2>1. SubsidyTypeOK
    BY DEF SubsidyInv
  <2>2. \A plan \in Plans : Created(plan)[m] # NoSubsidy
    BY <2>1, CreatedType
  <2>3. \A subsidy \in Subsidies :
          [programmed EXCEPT ![ConfigurableNow] = subsidy][m] # NoSubsidy
    BY <2>1, SubsidyAssumption DEF SubsidyTypeOK
  <2> QED BY <2>2, <2>3, ProgrammedBy
<1> QED
  BY <1>1, SubsidyInitInv, SubsidyStep, PTL DEF SubsidySpec, NeverLeftWithout

\* What is programmed is only replaced by this page if it was answered for: every
\* save in flight or adrift that replaces carries the answer (AskedFor).
THEOREM ReplacesAsAnswered == SubsidySpec => ReplacesOnlyIfAnswered
<1> DEFINE
      Replaced == \A m \in ProgramMonths :
         (programmed[m] # NoSubsidy /\ programmed'[m] # programmed[m]) =>
            \/ ProgramElsewhere
            \/ \E plan \in adriftProgrammings \cup
                           (IF programming = NoProgramming THEN {} ELSE {programming.plan}) :
                 plan.asked
<1>1. SubsidyInv /\ [SubsidyNext]_subsidyVars => [Replaced]_subsidyVars
  <2> SUFFICES ASSUME SubsidyInv, [SubsidyNext]_subsidyVars, ~ProgramElsewhere,
                      NEW m \in ProgramMonths, programmed[m] # NoSubsidy,
                      programmed'[m] # programmed[m]
               PROVE  \E plan \in adriftProgrammings \cup
                           (IF programming = NoProgramming THEN {} ELSE {programming.plan}) :
                        plan.asked
    OBVIOUS
  <2>1. SubsidyTypeOK /\ AskedFor
    BY DEF SubsidyInv
  <2>2. \A plan \in Plans : Created(plan)[m] # programmed[m] => plan.replace
    <3>1. SUFFICES ASSUME NEW plan \in Plans, Created(plan)[m] # programmed[m]
                   PROVE  plan.replace
      OBVIOUS
    <3>2. m = ConfigurableNow
      BY <2>1, <3>1, CreatedType
    <3> QED BY <2>1, <3>1, <3>2, CreatedType
  <2> QED BY <2>1, <2>2, ProgrammedBy DEF AskedFor
<1> QED
  BY <1>1, SubsidyInitInv, SubsidyStep, PTL DEF SubsidySpec, ReplacesOnlyIfAnswered

-----------------------------------------------------------------------------
(* The order modified *)

Savings == [id : Ids, amount : 1..MaxUnits, details : Details,
            agreed : {"modify_confirmed", "add_units", NoOne},
            answer : {"waiting", "updated", "edit", "elsewhere"}, to : Ids]

\* An order there is has meals: the form starts with them.
HasMeals == \A o \in Ids : book[o].status # "none" => book[o].amount \in 1..MaxUnits

EditInv == EditTypeOK /\ HasMeals

LEMMA EditInitInv == EditInit => EditInv
<1> SUFFICES ASSUME EditInit PROVE EditInv
  OBVIOUS
<1>1. PICK row \in Rows :
        /\ row.status \in {"pending", "confirmed"} /\ row.amount > 0
        /\ book = [o \in Ids |-> IF o = 1 THEN row ELSE NoRow(row.details)]
        /\ delivery = "later" /\ place = "elsewhere"
        /\ shown = [id |-> 1, row |-> row]
        /\ form = [amount |-> row.amount, details |-> row.details]
        /\ confirmKind = NoOne /\ saving = NoOne
        /\ leaving = FALSE /\ updatedOpen = FALSE /\ saves = 0
  BY DEF EditInit
<1>2. /\ row.amount \in 1..MaxUnits /\ row.details \in Details
      /\ 0 \in 0..MaxUnits /\ 0 \in 0..MaxSaves /\ 1 \in Ids
  BY <1>1, EditingAssumption DEF Rows, Ids
<1>3. book \in [Ids -> Rows] /\ HasMeals
  <2>1. NoRow(row.details) \in Rows
    BY <1>2 DEF Rows, NoRow
  <2>2. NoRow(row.details).status = "none"
    BY DEF NoRow
  <2> QED BY <1>1, <1>2, <2>1, <2>2 DEF HasMeals
<1>4. shown.id \in Ids /\ shown.row \in Rows /\ saves \in 0..MaxSaves
  BY <1>1, <1>2
<1>5. EditTypeOK
  BY <1>1, <1>2, <1>3, <1>4 DEF EditTypeOK
<1> QED BY <1>3, <1>5 DEF EditInv

\* The server writes rows, each with meals, and answers.
LEMMA ServeType ==
    ASSUME EditInv, ServeModify
    PROVE  /\ book' \in [Ids -> Rows] /\ HasMeals'
           /\ saving' \in Savings
<1> USE DEF EditInv, EditTypeOK, HasMeals, Savings
<1>1. saving \in Savings /\ saving.id \in Ids
  BY DEF ServeModify
<1>2. CASE RewritePending
  <2>1. [book[saving.id] EXCEPT !.amount = saving.amount, !.details = saving.details] \in Rows
    <3>1. saving.amount \in 0..MaxUnits
      BY <1>1, EditingAssumption
    <3>2. book[saving.id] \in Rows /\ saving.details \in Details
      BY <1>1
    <3> QED BY <3>1, <3>2 DEF Rows
  <2>2. book' = [book EXCEPT ![saving.id] = [book[saving.id] EXCEPT
                                !.amount = saving.amount, !.details = saving.details]]
    BY <1>2 DEF RewritePending
  <2>3. saving' \in Savings
    BY <1>1, <1>2 DEF RewritePending, Answers
  <2> QED BY <1>1, <2>1, <2>2, <2>3 DEF Rows
<1>3. CASE OrderMore
  <2>1. PICK new \in Ids :
          /\ book' = [book EXCEPT ![new] = [status |-> "pending", details |-> saving.details,
                                            amount |-> saving.amount - book[saving.id].amount]]
          /\ Answers("updated", new)
    BY <1>3 DEF OrderMore
  <2>2. saving.amount - book[saving.id].amount \in 1..MaxUnits
    BY <1>1, <1>3, EditingAssumption DEF OrderMore, Rows
  <2>3. [status |-> "pending", details |-> saving.details,
         amount |-> saving.amount - book[saving.id].amount] \in Rows
    BY <1>1, <2>2, EditingAssumption DEF Rows
  <2>4. saving' \in Savings
    BY <1>1, <2>1 DEF Answers
  <2> QED BY <2>1, <2>2, <2>3, <2>4
<1>4. CASE NothingToChange
  BY <1>1, <1>4 DEF NothingToChange, Answers
<1>5. CASE Replace
  <2> DEFINE anew == [status |-> "pending", details |-> saving.details,
                      amount |-> saving.amount]
             gone == [book[saving.id] EXCEPT !.status = "cancelled"]
  <2>1. PICK new \in Ids :
          /\ book' = [book EXCEPT ![saving.id] = gone, ![new] = anew]
          /\ Answers("updated", new)
    BY <1>5 DEF Replace
  <2>2. anew \in Rows /\ gone \in Rows /\ gone.amount = book[saving.id].amount
    BY <1>1, EditingAssumption DEF Rows
  <2>3. book[saving.id].amount \in 1..MaxUnits
    BY <1>1, <1>5 DEF Replace
  <2>4. saving' \in Savings
    BY <1>1, <2>1 DEF Answers
  <2> QED BY <1>1, <2>1, <2>2, <2>3, <2>4
<1>6. CASE RefuseModify
  BY <1>1, <1>6 DEF RefuseModify, Answers
<1> QED BY <1>2, <1>3, <1>4, <1>5, <1>6 DEF ServeModify

LEMMA EditStep == EditInv /\ [EditNext]_editVars => EditInv'
<1> SUFFICES ASSUME EditInv, [EditNext]_editVars PROVE EditInv'
  OBVIOUS
<1> USE DEF EditInv, EditTypeOK, HasMeals, screenVars
<1>1. ASSUME NEW o \in Ids, OpenEdit(o) PROVE EditInv'
  <2>1. book[o] \in Rows /\ book[o].amount \in 1..MaxUnits
    BY <1>1 DEF OpenEdit, CanModify
  <2>2. form' \in [amount : 1..MaxUnits, details : Details]
    BY <1>1, <2>1 DEF OpenEdit, Rows
  <2> QED BY <1>1, <2>1, <2>2 DEF OpenEdit
<1>2. ASSUME NEW o \in Ids, DecideOrder(o) PROVE EditInv'
  <2>1. PICK status \in {"confirmed", "rejected", "cancelled"} :
          book' = [book EXCEPT ![o].status = status] /\ book[o].status # "none"
    BY <1>2 DEF DecideOrder, CanModify
  <2>2. /\ [book[o] EXCEPT !.status = status] \in Rows
        /\ [book[o] EXCEPT !.status = status].amount = book[o].amount
    BY DEF Rows
  <2>3. book' \in [Ids -> Rows] /\ HasMeals'
    BY <2>1, <2>2
  <2> QED BY <1>2, <2>3 DEF DecideOrder
<1>3. ASSUME NEW amount \in 1..MaxUnits, NEW details \in Details,
             ChangeForm(amount, details)
      PROVE  EditInv'
  BY <1>3 DEF ChangeForm
<1>4. ASSUME NEW agreed \in {"modify_confirmed", "add_units", NoOne}, Save(agreed)
      PROVE  saving' \in Savings /\ leaving' \in BOOLEAN /\ saves' \in 0..MaxSaves
  <2>1. saves' \in 0..MaxSaves
    BY <1>4, EditingAssumption DEF Save
  <2>2. saving' \in Savings
    BY <1>4 DEF Save, Savings
  <2> QED BY <1>4, <2>1, <2>2 DEF Save
<1>5. CASE Modify
  <2>1. CASE Save(NoOne) /\ UNCHANGED confirmKind
    BY <1>4, <1>5, <2>1 DEF Modify, Savings
  <2>2. CASE UNCHANGED <<saving, leaving, saves>>
    BY <1>5, <2>2 DEF Modify
  <2> QED BY <1>5, <2>1, <2>2 DEF Modify
<1>6. CASE ConfirmModify
  BY <1>4, <1>6 DEF ConfirmModify, Savings
<1>7. CASE CloseConfirm
  BY <1>7 DEF CloseConfirm
<1>8. CASE CloseUpdated
  BY <1>8 DEF CloseUpdated
<1>9. CASE Leaves
  BY <1>9 DEF Leaves
<1>10. CASE ServeModify
  BY <1>10, ServeType DEF ServeModify, Savings
<1>11. CASE SaveArrives
  <2>1. saving.to \in Ids /\ book[saving.to] \in Rows
    BY <1>11 DEF SaveArrives
  <2> QED BY <1>11, <2>1 DEF SaveArrives
<1>12. CASE SaveFails
  BY <1>12 DEF SaveFails
<1>13. CASE DayPasses
  BY <1>13 DEF DayPasses
<1>14. CASE UNCHANGED editVars
  BY <1>14 DEF editVars
<1> QED
  BY <1>1, <1>2, <1>3, <1>5, <1>6, <1>7, <1>8, <1>9, <1>10, <1>11, <1>12, <1>13, <1>14
     DEF EditNext

\* Every variable of the page and of the orders keeps its type.
THEOREM EditTypes == EditSpec => []EditTypeOK
<1>1. EditInv => EditTypeOK
  BY DEF EditInv
<1> QED BY <1>1, EditInitInv, EditStep, PTL DEF EditSpec

\* What the request in flight asks for is done by the server alone.
LEMMA DoneByTheServer ==
    ASSUME EditInv, [EditNext]_editVars, Does
    PROVE  RewritePending \/ OrderMore \/ NothingToChange \/ Replace
<1>1. ServeModify
  BY DEF EditInv, EditTypeOK, EditNext, Does, editVars, screenVars, OpenEdit, DecideOrder,
         ChangeForm, Modify, ConfirmModify, CloseConfirm, CloseUpdated, Leaves, SaveArrives,
         SaveFails, DayPasses
<1>2. ~RefuseModify
  BY DEF RefuseModify, Answers, Does, EditInv, EditTypeOK
<1> QED BY <1>1, <1>2 DEF ServeModify

\* Who agreed only to more meals never loses the order the provider accepted.
THEOREM MoreNeverCancels == EditSpec => AddUnitsNeverCancels
<1> DEFINE Keeps == Does /\ saving.agreed = "add_units" => \A o \in Ids : ~Cancels(o)
<1>1. EditInv /\ [EditNext]_editVars => [Keeps]_editVars
  <2> SUFFICES ASSUME EditInv, [EditNext]_editVars, Does, saving.agreed = "add_units",
                      NEW o \in Ids, Cancels(o)
               PROVE  FALSE
    OBVIOUS
  <2> USE DEF EditInv, EditTypeOK, Cancels, Rows
  <2>1. CASE RewritePending
    BY <2>1 DEF RewritePending
  <2>2. CASE OrderMore
    BY <2>2 DEF OrderMore
  <2>3. CASE NothingToChange
    BY <2>3 DEF NothingToChange
  <2>4. CASE Replace
    BY <2>4 DEF Replace
  <2> QED BY <2>1, <2>2, <2>3, <2>4, DoneByTheServer
<1> QED
  BY <1>1, EditInitInv, EditStep, PTL DEF EditSpec, AddUnitsNeverCancels

\* The order accepted and the complementary one add up to what was asked for.
THEOREM AddsUp == EditSpec => AddsUpToWhatWasAsked
<1> DEFINE
      Adds == Does => \A o, new \in Ids :
                 /\ book[o].status = "confirmed" /\ book'[o].status = "confirmed"
                 /\ o = saving.id
                 /\ book[new].status = "none" /\ book'[new].status # "none"
                 => book[o].amount + book'[new].amount = saving.amount
<1>1. EditInv /\ [EditNext]_editVars => [Adds]_editVars
  <2> SUFFICES ASSUME EditInv, [EditNext]_editVars, Does, NEW o \in Ids, NEW new \in Ids,
                      book[o].status = "confirmed", book'[o].status = "confirmed",
                      o = saving.id,
                      book[new].status = "none", book'[new].status # "none"
               PROVE  book[o].amount + book'[new].amount = saving.amount
    OBVIOUS
  <2> USE DEF EditInv, EditTypeOK, Rows
  <2>1. CASE RewritePending
    BY <2>1 DEF RewritePending
  <2>2. CASE OrderMore
    <3>1. saving.amount \in Int /\ book[o].amount \in Int
      BY EditingAssumption DEF Does
    <3>2. book'[new].amount = saving.amount - book[o].amount
      BY <2>2 DEF OrderMore
    <3> QED BY <3>1, <3>2
  <2>3. CASE NothingToChange
    BY <2>3 DEF NothingToChange
  <2>4. CASE Replace
    BY <2>4 DEF Replace
  <2> QED BY <2>1, <2>2, <2>3, <2>4, DoneByTheServer
<1> QED
  BY <1>1, EditInitInv, EditStep, PTL DEF EditSpec, AddsUpToWhatWasAsked

\* Nothing programmed is lost, changed late or replaced unasked.
THEOREM Programmed == SubsidySpec => ProgrammedWithCare
BY NeverWithout, ChangesOnlyTheConfigurable, ReplacesAsAnswered
   DEF ProgrammedWithCare

\* A save that only adds cancels nothing and adds what was asked.
THEOREM AcceptedKept == EditSpec => AcceptedOrderKept
BY MoreNeverCancels, AddsUp DEF AcceptedOrderKept
-----------------------------------------------------------------------------
(* The screens that fetch what they show                                    *)

Asks == [n : Nat, what : {"detail", "summary"}, of : Subjects, heeded : BOOLEAN]

Asked ==
    /\ view \in Views /\ month \in Months /\ going \in Months \cup {Nothing}
    /\ asked \subseteq Asks /\ count \in Nat
    /\ view # "usage" => ~generating /\ \A r \in asked : r.what = "detail"
    /\ view \in {"accounts", "dish"} => going = Nothing

\* A sheet that nothing raced has what it was asked for, or that alone on its way.
SheetInv ==
    view \in {"accounts", "payments"} =>
        /\ loading => asked # {}
        /\ ~shut /\ alone =>
             \/ asked = {} /\ ~loading /\ AsWanted
             \/ /\ loading
                /\ \E r \in asked :
                     /\ asked = {r} /\ r.of = wanted
                     /\ view = "payments" => wanted \in Consumed /\ providerId = wanted[1]

\* Of what is heeded there is one of each kind, of the month on show; and a summary is
\* asked for of statistics that came.
UsageInv ==
    view = "usage" =>
        /\ wanted = month
        /\ detail \in {Nothing, month} /\ summary \in {Nothing, "refused", month}
        /\ \A r \in asked : r.heeded => r.of = month
        /\ \A r, s \in Heeded("detail") : r = s
        /\ \A r, s \in Heeded("summary") : r = s
        /\ generating <=> Heeded("summary") # {}
        /\ Heeded("detail") # {} => detail = Nothing /\ ~error
        /\ detail = Nothing => Heeded("summary") = {}
        /\ error => detail = Nothing

\* Only the price of what is selected is heeded.
DishInv ==
    view = "dish" =>
        /\ wanted \in Selections
        /\ \A r \in asked : r.heeded => r.of = wanted /\ ~timer
        /\ ~timer /\ Heeded("detail") = {} /\ alone => detail = wanted

FetchInv == Asked /\ SheetInv /\ UsageInv /\ DishInv

LEMMA FetchStarts == FetchInit => FetchInv
<1> SUFFICES ASSUME FetchInit PROVE FetchInv
  OBVIOUS
<1>1. view \in Views /\ month \in Months /\ going = Nothing /\ shut /\ detail = Nothing
      /\ ~generating /\ ~loading /\ ~error /\ summary = Nothing
  BY DEF FetchInit
<1>2. CASE view = "usage"
  <2>1. /\ asked = {[n |-> 1, what |-> "detail", of |-> month, heeded |-> TRUE]}
        /\ count = 1 /\ wanted = month
    BY <1>2 DEF FetchInit
  <2>2. asked \subseteq Asks
    BY <1>1, <2>1 DEF Asks, Subjects
  <2> DEFINE first == [n |-> 1, what |-> "detail", of |-> month, heeded |-> TRUE]
  <2>3. first.of = month /\ first.what = "detail" /\ first.heeded
    OBVIOUS
  <2> HIDE DEF first
  <2>4. asked = {first}
    BY <2>1 DEF first
  <2>5. Heeded("detail") = {first} /\ Heeded("summary") = {}
    BY <2>3, <2>4 DEF Heeded
  <2>6. UsageInv
    BY <1>1, <1>2, <2>1, <2>3, <2>4, <2>5 DEF UsageInv
  <2>7. Asked /\ SheetInv /\ DishInv
    BY <1>1, <1>2, <2>1, <2>2 DEF Asked, SheetInv, DishInv
  <2> QED BY <2>6, <2>7 DEF FetchInv
<1>3. CASE view # "usage"
  <2>1. asked = {} /\ count = 0 /\ (view = "dish" => wanted \in Selections /\ timer)
    BY <1>3 DEF FetchInit
  <2> QED BY <1>1, <1>3, <2>1 DEF FetchInv, Asked, SheetInv, UsageInv, DishInv
<1> QED BY <1>2, <1>3

\* What a request more is.
LEMMA AskingOne ==
  ASSUME Asked, NEW what \in {"detail", "summary"}, NEW of \in Subjects, NEW others,
         others \subseteq Asks, Asking(what, of, others)
  PROVE  /\ asked' \subseteq Asks /\ count' \in Nat
         /\ \E r \in asked' : /\ asked' = others \cup {r} /\ r.what = what /\ r.of = of
                              /\ r.heeded
<1> DEFINE one == [n |-> count + 1, what |-> what, of |-> of, heeded |-> TRUE]
<1>1. count \in Nat /\ count' = count + 1 /\ asked' = others \cup {one}
  BY DEF Asked, Asking
<1>2. one \in Asks /\ one.what = what /\ one.of = of /\ one.heeded
  BY <1>1 DEF Asks
<1> HIDE DEF one
<1>3. asked' \subseteq Asks /\ one \in asked'
  BY <1>1, <1>2
<1> QED BY <1>1, <1>2, <1>3

LEMMA AbortedAll ==
  ASSUME NEW requests, requests \subseteq Asks
  PROVE  /\ Aborted(requests) \subseteq Asks
         /\ \A r \in Aborted(requests) : ~r.heeded
         /\ \A what : (\A r \in requests : r.what = what) =>
                        \A r \in Aborted(requests) : r.what = what
BY DEF Aborted, Asks

LEMMA SheetsKeep == FetchInv /\ SheetNext => FetchInv'
<1> SUFFICES ASSUME FetchInv, SheetNext PROVE FetchInv'
  OBVIOUS
<1>a. Asked /\ SheetInv
  BY DEF FetchInv
<1>1. view \in {"accounts", "payments"} /\ UNCHANGED <<view, month, going, generating>>
  BY DEF SheetNext, OpenMonth, OpenMonthDetail, CloseDetail, HandleClick, OpenAccount,
         SheetArrives, SheetFails, ChangeProvider
<1>2. UsageInv' /\ DishInv'
  BY <1>1 DEF UsageInv, DishInv
<1>m. month \in Months /\ month \notin Consumed
  BY <1>a, DetailsAssumption DEF Asked
<1>3. CASE OpenMonth
  <2>1. /\ view = "accounts" /\ ~shut' /\ wanted' = month /\ detail' = month /\ ~loading'
        /\ alone' = (asked = {}) /\ UNCHANGED <<asked, count>>
    BY <1>3 DEF OpenMonth
  <2>2. Asked'
    BY <1>a, <1>1, <2>1 DEF Asked
  <2>3. AsWanted'
    BY <1>1, <2>1 DEF AsWanted
  <2> QED BY <1>2, <2>1, <2>2, <2>3 DEF FetchInv, SheetInv
<1>4. CASE OpenMonthDetail
  <2>1. /\ view = "payments" /\ ~shut' /\ wanted' = month /\ detail' = month
        /\ alone' = (asked = {}) /\ UNCHANGED <<loading, asked, count>>
    BY <1>4 DEF OpenMonthDetail
  <2>2. Asked'
    BY <1>a, <1>1, <2>1 DEF Asked
  <2>3. AsWanted'
    BY <1>1, <1>m, <2>1 DEF AsWanted
  <2>4. loading => asked # {}
    BY <1>a, <1>1 DEF SheetInv
  <2> QED BY <1>2, <2>1, <2>2, <2>3, <2>4 DEF FetchInv, SheetInv
<1>5. CASE CloseDetail
  BY <1>a, <1>1, <1>2, <1>5 DEF CloseDetail, FetchInv, Asked, SheetInv
<1>6. ASSUME NEW account \in Consumed, HandleClick(account) \/ OpenAccount(account)
      PROVE FetchInv'
  <2>1. /\ Asking("detail", account, asked) /\ ~shut' /\ wanted' = account /\ loading'
        /\ alone' = (asked = {})
        /\ view = "payments" => providerId' = account[1]
    BY <1>6 DEF HandleClick, OpenAccount
  <2>2. account \in Subjects /\ asked \subseteq Asks
    BY <1>a DEF Subjects, Asked
  <2>3. /\ asked' \subseteq Asks /\ count' \in Nat
        /\ \E r \in asked' : /\ asked' = asked \cup {r} /\ r.what = "detail"
                             /\ r.of = account /\ r.heeded
    BY <1>a, <2>1, <2>2, AskingOne
  <2>4. PICK r \in asked' : /\ asked' = asked \cup {r} /\ r.what = "detail"
                            /\ r.of = account /\ r.heeded
    BY <2>3
  <2>5. Asked'
    BY <1>a, <1>1, <2>3, <2>4 DEF Asked
  <2>6. SheetInv'
    BY <1>1, <2>1, <2>4 DEF SheetInv
  <2> QED BY <1>2, <2>5, <2>6 DEF FetchInv
<1>7. ASSUME NEW r \in asked, SheetArrives(r)
      PROVE FetchInv'
  <2>1. /\ asked' = asked \ {r} /\ ~loading' /\ detail' = AnswerTo(r)
        /\ UNCHANGED <<shut, wanted, providerId, count, alone>>
    BY <1>7 DEF SheetArrives
  <2>2. Asked'
    BY <1>a, <1>1, <2>1 DEF Asked
  <2>3. ~shut /\ alone => asked' = {} /\ AsWanted'
    <3> SUFFICES ASSUME ~shut, alone PROVE asked' = {} /\ AsWanted'
      OBVIOUS
    <3>1. /\ asked = {r} /\ r.of = wanted
          /\ view = "payments" => wanted \in Consumed /\ providerId = wanted[1]
      BY <1>a, <1>1 DEF SheetInv
    <3>2. asked' = {}
      BY <2>1, <3>1
    <3>3. CASE view = "accounts"
      BY <1>1, <2>1, <3>1, <3>3 DEF AnswerTo, AsWanted
    <3>4. CASE view = "payments"
      <4>1. detail' = wanted[2] /\ wanted \in Consumed /\ providerId = wanted[1]
        BY <2>1, <3>1, <3>4 DEF AnswerTo
      <4>2. wanted = <<wanted[1], wanted[2]>> /\ wanted[1] \in Providers
        BY <4>1, DetailsAssumption
      <4>3. ShownProvider' = wanted[1]
        BY <2>1, <4>1, <4>2 DEF ShownProvider
      <4>4. wanted' = wanted /\ view' = "payments"
        BY <1>1, <2>1, <3>4
      <4> QED BY <3>2, <4>1, <4>3, <4>4 DEF AsWanted
    <3> QED BY <1>1, <3>2, <3>3, <3>4
  <2> QED BY <1>1, <1>2, <2>1, <2>2, <2>3 DEF FetchInv, SheetInv
<1>8. ASSUME NEW r \in asked, SheetFails(r)
      PROVE FetchInv'
  BY <1>a, <1>1, <1>2, <1>8 DEF SheetFails, FetchInv, Asked, SheetInv
<1>9. ASSUME NEW p \in Providers, ChangeProvider(p)
      PROVE FetchInv'
  <2>1. /\ view = "payments" /\ ~shut /\ ~loading /\ <<p, detail>> \in Consumed
        /\ providerId' = p
        /\ UNCHANGED <<shut, wanted, detail, loading, asked, count, alone>>
    BY <1>9 DEF ChangeProvider
  <2>2. alone => asked = {} /\ AsWanted
    BY <1>a, <2>1 DEF SheetInv
  <2>3. alone => AsWanted'
    <3>1. CASE wanted \in Consumed
      <4>1. wanted = <<wanted[1], wanted[2]>> /\ wanted[1] \in Providers
        BY <3>1, DetailsAssumption
      <4>2. detail = wanted[2] /\ providerId' = wanted[1] => ShownProvider' = wanted[1]
        BY <2>1, <3>1, <4>1 DEF ShownProvider
      <4> QED BY <1>1, <2>1, <2>2, <3>1, <4>2 DEF AsWanted
    <3>2. CASE wanted \notin Consumed
      BY <1>1, <2>1, <2>2, <3>2 DEF AsWanted
    <3> QED BY <3>1, <3>2
  <2>4. Asked'
    BY <1>a, <1>1, <2>1 DEF Asked
  <2> QED BY <1>1, <1>2, <2>1, <2>2, <2>3, <2>4 DEF FetchInv, SheetInv
<1> QED BY <1>3, <1>4, <1>5, <1>6, <1>7, <1>8, <1>9 DEF SheetNext

LEMMA UsageKeeps == FetchInv /\ UsageNext => FetchInv'
<1> SUFFICES ASSUME FetchInv, UsageNext PROVE FetchInv'
  OBVIOUS
<1>a. Asked /\ SheetInv /\ UsageInv /\ asked \subseteq Asks /\ month \in Months
  BY DEF FetchInv, Asked
<1>b. view \notin {"accounts", "dish"} /\ view' = view /\ DishInv'
  BY <1>a DEF UsageNext, Retry, Generate, MonthArrives, MonthFails, SelectMonth,
              StatsArrive, StatsFail, SummaryArrives, Asked, DishInv
<1>1. CASE MonthFails
  BY <1>a, <1>b, <1>1 DEF MonthFails, FetchInv, Asked, SheetInv, UsageInv, AsWanted,
                          ShownProvider, Heeded
<1>2. CASE Retry
  <2>1. /\ view = "usage" /\ error /\ ~error' /\ detail' = Nothing
        /\ Asking("detail", month, Aborted(asked))
        /\ UNCHANGED <<month, going, wanted, summary, generating>>
    BY <1>2 DEF Retry
  <2>2. /\ Aborted(asked) \subseteq Asks /\ \A r \in Aborted(asked) : ~r.heeded
    BY <1>a, AbortedAll
  <2>3. month \in Subjects
    BY <1>a DEF Subjects
  <2>4. /\ asked' \subseteq Asks /\ count' \in Nat
        /\ \E r \in asked' : /\ asked' = Aborted(asked) \cup {r} /\ r.what = "detail"
                             /\ r.of = month /\ r.heeded
    BY <1>a, <2>1, <2>2, <2>3, AskingOne
  <2>5. PICK r \in asked' : /\ asked' = Aborted(asked) \cup {r} /\ r.what = "detail"
                            /\ r.of = month /\ r.heeded
    BY <2>4
  <2>6. Heeded("detail")' = {r} /\ Heeded("summary")' = {}
    BY <2>2, <2>5 DEF Heeded
  <2>7. ~generating /\ \A s \in asked' : s.heeded => s.of = month
    BY <1>a, <2>1, <2>2, <2>5 DEF UsageInv
  <2>8. UsageInv'
    BY <1>a, <2>1, <2>6, <2>7 DEF UsageInv
  <2> QED BY <1>a, <1>b, <2>1, <2>4, <2>8 DEF FetchInv, Asked, SheetInv
<1>3. CASE Generate
  <2>1. /\ view = "usage" /\ detail # Nothing /\ Heeded("summary") = {} /\ generating'
        /\ summary' = Nothing /\ Asking("summary", month, asked)
        /\ UNCHANGED <<month, going, wanted, detail, error>>
    BY <1>3 DEF Generate
  <2>2. month \in Subjects
    BY <1>a DEF Subjects
  <2>3. /\ asked' \subseteq Asks /\ count' \in Nat
        /\ \E r \in asked' : /\ asked' = asked \cup {r} /\ r.what = "summary"
                             /\ r.of = month /\ r.heeded
    BY <1>a, <2>1, <2>2, AskingOne
  <2>4. PICK r \in asked' : /\ asked' = asked \cup {r} /\ r.what = "summary"
                            /\ r.of = month /\ r.heeded
    BY <2>3
  <2>5. Heeded("summary")' = {r} /\ Heeded("detail")' = Heeded("detail")
    BY <2>1, <2>4 DEF Heeded
  <2>6. \A s \in asked' : s.heeded => s.of = month
    BY <1>a, <2>1, <2>4 DEF UsageInv
  <2>7. UsageInv'
    BY <1>a, <2>1, <2>5, <2>6 DEF UsageInv
  <2> QED BY <1>a, <1>b, <2>1, <2>3, <2>7 DEF FetchInv, Asked, SheetInv
<1>4. CASE MonthArrives
  <2>1. CASE view = "usage"
    <3>1. /\ going # Nothing /\ month' = going /\ going' = Nothing /\ wanted' = going
          /\ detail' = Nothing /\ ~error' /\ summary' = Nothing /\ ~generating'
          /\ Asking("detail", going, Aborted(asked))
      BY <1>4, <2>1 DEF MonthArrives
    <3>2. /\ Aborted(asked) \subseteq Asks /\ \A r \in Aborted(asked) : ~r.heeded
      BY <1>a, AbortedAll
    <3>3. going \in Months /\ going \in Subjects
      BY <1>a, <3>1 DEF Asked, Subjects
    <3>4. /\ asked' \subseteq Asks /\ count' \in Nat
          /\ \E r \in asked' : /\ asked' = Aborted(asked) \cup {r} /\ r.what = "detail"
                               /\ r.of = going /\ r.heeded
      BY <1>a, <3>1, <3>2, <3>3, AskingOne
    <3>5. PICK r \in asked' : /\ asked' = Aborted(asked) \cup {r} /\ r.what = "detail"
                              /\ r.of = going /\ r.heeded
      BY <3>4
    <3>6. Heeded("detail")' = {r} /\ Heeded("summary")' = {}
      BY <3>2, <3>5 DEF Heeded
    <3>7. \A s \in asked' : s.heeded => s.of = going
      BY <3>2, <3>5
    <3>8. UsageInv'
      BY <3>1, <3>6, <3>7 DEF UsageInv
    <3> QED BY <1>a, <1>b, <2>1, <3>1, <3>3, <3>4, <3>8 DEF FetchInv, Asked, SheetInv
  <2>2. CASE view # "usage"
    BY <1>a, <1>b, <1>4, <2>2
       DEF MonthArrives, FetchInv, Asked, SheetInv, UsageInv, AsWanted, ShownProvider
  <2> QED BY <2>1, <2>2
<1>5. ASSUME NEW m \in Months, SelectMonth(m)
      PROVE FetchInv'
  <2>1. CASE view = "usage"
    <3>1. /\ going' = m /\ summary' = Nothing /\ ~generating'
          /\ asked' = Aborted(Heeded("summary")) \cup (asked \ Heeded("summary"))
          /\ UNCHANGED <<month, wanted, detail, error, count>>
      BY <1>5, <2>1 DEF SelectMonth, CancelSummary
    <3>2. Heeded("summary") \subseteq Asks
      BY <1>a DEF Heeded
    <3>3. /\ Aborted(Heeded("summary")) \subseteq Asks
          /\ \A r \in Aborted(Heeded("summary")) : ~r.heeded
      BY <3>2, AbortedAll
    <3>4. asked' \subseteq Asks
      BY <1>a, <3>1, <3>3
    <3>5. Heeded("summary")' = {} /\ Heeded("detail")' = Heeded("detail")
      BY <3>1, <3>3 DEF Heeded
    <3>6. \A s \in asked' : s.heeded => s.of = month
      BY <1>a, <2>1, <3>1, <3>3 DEF UsageInv
    <3>7. UsageInv'
      BY <1>a, <1>b, <2>1, <3>1, <3>5, <3>6 DEF UsageInv
    <3> QED BY <1>a, <1>b, <2>1, <3>1, <3>4, <3>7 DEF FetchInv, Asked, SheetInv
  <2>2. CASE view # "usage"
    BY <1>a, <1>b, <1>5, <2>2
       DEF SelectMonth, FetchInv, Asked, SheetInv, UsageInv, AsWanted, ShownProvider
  <2> QED BY <2>1, <2>2
<1>6. ASSUME NEW r \in asked, StatsArrive(r)
      PROVE FetchInv'
  <2>1. /\ view = "usage" /\ r.what = "detail" /\ asked' = asked \ {r}
        /\ detail' = IF r.heeded THEN r.of ELSE detail
        /\ UNCHANGED <<month, going, wanted, error, summary, generating, count>>
    BY <1>6 DEF StatsArrive
  <2>2. Heeded("summary")' = Heeded("summary") /\ Heeded("detail")' = Heeded("detail") \ {r}
    BY <2>1 DEF Heeded
  <2>3. r.heeded => r \in Heeded("detail") /\ r.of = month
    BY <1>a, <2>1 DEF Heeded, UsageInv
  <2>4. month # Nothing
    BY <1>a, DetailsAssumption
  <2>5. UsageInv'
    BY <1>a, <2>1, <2>2, <2>3, <2>4 DEF UsageInv
  <2> QED BY <1>a, <1>b, <2>1, <2>5 DEF FetchInv, Asked, SheetInv
<1>7. ASSUME NEW r \in asked, StatsFail(r)
      PROVE FetchInv'
  <2>1. /\ view = "usage" /\ r.what = "detail" /\ asked' = asked \ {r}
        /\ error' = (error \/ r.heeded)
        /\ UNCHANGED <<month, going, wanted, detail, summary, generating, count>>
    BY <1>7 DEF StatsFail
  <2>2. Heeded("summary")' = Heeded("summary") /\ Heeded("detail")' = Heeded("detail") \ {r}
    BY <2>1 DEF Heeded
  <2>3. r.heeded => r \in Heeded("detail")
    BY <1>a, <2>1 DEF Heeded
  <2>4. UsageInv'
    BY <1>a, <2>1, <2>2, <2>3 DEF UsageInv
  <2> QED BY <1>a, <1>b, <2>1, <2>4 DEF FetchInv, Asked, SheetInv
<1>8. ASSUME NEW r \in asked, SummaryArrives(r)
      PROVE FetchInv'
  <2>1. /\ view = "usage" /\ r.what = "summary" /\ asked' = asked \ {r}
        /\ r.heeded => summary' \in {r.of, "refused"} /\ ~generating'
        /\ ~r.heeded => UNCHANGED <<summary, generating>>
        /\ UNCHANGED <<month, going, wanted, detail, error, count>>
    BY <1>8 DEF SummaryArrives
  <2>2. Heeded("detail")' = Heeded("detail") /\ Heeded("summary")' = Heeded("summary") \ {r}
    BY <2>1 DEF Heeded
  <2>3. r.heeded => r.of = month /\ Heeded("summary")' = {}
    BY <1>a, <2>1, <2>2 DEF Heeded, UsageInv
  <2>4. ~r.heeded => Heeded("summary")' = Heeded("summary")
    BY <2>2 DEF Heeded
  <2>5. UsageInv'
    BY <1>a, <2>1, <2>2, <2>3, <2>4 DEF UsageInv
  <2> QED BY <1>a, <1>b, <2>1, <2>5 DEF FetchInv, Asked, SheetInv
<1> QED BY <1>1, <1>2, <1>3, <1>4, <1>5, <1>6, <1>7, <1>8 DEF UsageNext

LEMMA DishKeeps == FetchInv /\ DishNext => FetchInv'
<1> SUFFICES ASSUME FetchInv, DishNext PROVE FetchInv'
  OBVIOUS
<1>a. Asked /\ DishInv /\ asked \subseteq Asks
  BY DEF FetchInv, Asked
<1>b. /\ view = "dish" /\ UNCHANGED <<view, month, going, generating>>
      /\ SheetInv' /\ UsageInv'
  BY DEF DishNext, AskPrice, ChangeSelection, PriceArrives, PriceFails, SheetInv, UsageInv
<1>1. CASE AskPrice
  <2>1. /\ ~timer' /\ Asking("detail", wanted, asked) /\ UNCHANGED wanted
    BY <1>1 DEF AskPrice
  <2>2. wanted \in Selections /\ wanted \in Subjects
    BY <1>a, <1>b DEF DishInv, Subjects
  <2>3. /\ asked' \subseteq Asks /\ count' \in Nat
        /\ \E r \in asked' : /\ asked' = asked \cup {r} /\ r.what = "detail"
                             /\ r.of = wanted /\ r.heeded
    BY <1>a, <2>1, <2>2, AskingOne
  <2>4. PICK r \in asked' : /\ asked' = asked \cup {r} /\ r.what = "detail"
                            /\ r.of = wanted /\ r.heeded
    BY <2>3
  <2>5. r \in Heeded("detail")'
    BY <2>4 DEF Heeded
  <2>6. DishInv'
    BY <1>a, <1>b, <2>1, <2>2, <2>4, <2>5 DEF DishInv
  <2> QED BY <1>a, <1>b, <2>3, <2>4, <2>6 DEF FetchInv, Asked
<1>2. ASSUME NEW s \in Selections, ChangeSelection(s)
      PROVE FetchInv'
  <2>1. asked' = Aborted(asked) /\ wanted' = s /\ timer' /\ UNCHANGED count
    BY <1>2 DEF ChangeSelection
  <2>2. /\ Aborted(asked) \subseteq Asks /\ \A r \in Aborted(asked) : ~r.heeded
        /\ \A r \in Aborted(asked) : r.what = "detail"
    BY <1>a, <1>b, AbortedAll DEF Asked
  <2> QED BY <1>a, <1>b, <2>1, <2>2 DEF FetchInv, Asked, DishInv
<1>3. ASSUME NEW r \in asked, PriceArrives(r)
      PROVE FetchInv'
  <2>1. /\ asked' = asked \ {r} /\ detail' = IF r.heeded THEN r.of ELSE detail
        /\ UNCHANGED <<wanted, timer, count, alone>>
    BY <1>3 DEF PriceArrives
  <2>2. r.heeded => r.of = wanted
    BY <1>a, <1>b DEF DishInv
  <2>3. ~r.heeded => Heeded("detail")' = Heeded("detail")
    BY <2>1 DEF Heeded
  <2> QED BY <1>a, <1>b, <2>1, <2>2, <2>3 DEF FetchInv, Asked, DishInv
<1>4. ASSUME NEW r \in asked, PriceFails(r)
      PROVE FetchInv'
  <2>1. /\ asked' = asked \ {r} /\ alone' = (alone /\ ~r.heeded)
        /\ UNCHANGED <<wanted, timer, count, detail>>
    BY <1>4 DEF PriceFails
  <2>2. ~r.heeded => Heeded("detail")' = Heeded("detail")
    BY <2>1 DEF Heeded
  <2> QED BY <1>a, <1>b, <2>1, <2>2 DEF FetchInv, Asked, DishInv
<1> QED BY <1>1, <1>2, <1>3, <1>4 DEF DishNext

\* Every screen shows what it was last asked for, or that it is on its way, but for the
\* sheets that take whatever comes, once answers raced or one failed
\* (use-benefit-usage.ts, dish-detail.tsx, consumer/accounts and admin/payments/index.tsx).
THEOREM ShownAsAsked == FetchSpec => ShowsWhatWasAsked
<1>1. FetchInit => FetchInv
  BY FetchStarts
<1>2. FetchInv /\ [FetchNext]_fetchVars => FetchInv'
  <2> SUFFICES ASSUME FetchInv, UNCHANGED fetchVars PROVE FetchInv'
    BY SheetsKeep, UsageKeeps, DishKeeps DEF FetchNext
  <2> QED BY DEF fetchVars, FetchInv, Asked, SheetInv, UsageInv, DishInv, AsWanted,
                 ShownProvider, Heeded
<1>3. FetchInv => StaleOnlyAfterARaceOrAFailure /\ FiguresAreOfTheMonth /\ SummaryInTheMaking
  <2> SUFFICES ASSUME FetchInv
               PROVE  StaleOnlyAfterARaceOrAFailure /\ FiguresAreOfTheMonth
                        /\ SummaryInTheMaking
    OBVIOUS
  <2>1. view \in Views /\ month \in Months /\ month # Nothing
    BY DetailsAssumption DEF FetchInv, Asked
  <2>2. Quiet /\ alone => AsWanted
    <3>1. CASE view \in {"accounts", "payments"}
      BY <3>1 DEF FetchInv, SheetInv, Quiet
    <3>2. CASE view = "usage"
      BY <3>2, <2>1 DEF FetchInv, UsageInv, Quiet, AsWanted
    <3>3. CASE view = "dish"
      BY <3>3 DEF FetchInv, DishInv, Quiet, AsWanted
    <3> QED BY <2>1, <3>1, <3>2, <3>3 DEF Views
  <2>3. FiguresAreOfTheMonth
    BY DEF FetchInv, UsageInv, FiguresAreOfTheMonth
  <2>4. generating <=> Heeded("summary") # {}
    <3>1. CASE view = "usage"
      BY <3>1 DEF FetchInv, UsageInv
    <3>2. CASE view # "usage"
      BY <3>2 DEF FetchInv, Asked, Heeded
    <3> QED BY <3>1, <3>2
  <2>5. Cardinality(Heeded("summary")) =< 1
    <3>1. CASE Heeded("summary") = {}
      BY <3>1, FS_EmptySet
    <3>2. CASE Heeded("summary") # {}
      <4>1. PICK r : r \in Heeded("summary")
        BY <3>2
      <4>2. view = "usage"
        BY <3>2 DEF FetchInv, Asked, Heeded
      <4>3. Heeded("summary") = {r}
        BY <4>1, <4>2 DEF FetchInv, UsageInv
      <4>4. Cardinality({r}) = 1
        BY FS_Singleton
      <4> QED BY <4>3, <4>4
    <3> QED BY <3>1, <3>2
  <2> QED BY <2>2, <2>3, <2>4, <2>5 DEF StaleOnlyAfterARaceOrAFailure, SummaryInTheMaking
<1> DEFINE OfTheSelection == view = "dish" /\ detail' # detail => detail' = wanted
<1>4. FetchInv /\ [FetchNext]_fetchVars => [OfTheSelection]_fetchVars
  <2> SUFFICES ASSUME FetchInv, FetchNext, view = "dish", detail' # detail
               PROVE  detail' = wanted
    OBVIOUS
  <2>1. going = Nothing
    BY DEF FetchInv, Asked
  <2>2. PICK r \in asked : PriceArrives(r)
    <3>1. ~SheetNext
      BY DEF SheetNext, OpenMonth, OpenMonthDetail, CloseDetail, HandleClick, OpenAccount,
             SheetArrives, SheetFails, ChangeProvider
    <3>2. ~UsageNext
      BY <2>1 DEF UsageNext, Retry, Generate, MonthArrives, MonthFails, SelectMonth,
                  StatsArrive, StatsFail, SummaryArrives
    <3> QED BY <3>1, <3>2 DEF FetchNext, DishNext, AskPrice, ChangeSelection, PriceFails
  <2>3. r.heeded /\ detail' = r.of
    BY <2>2 DEF PriceArrives
  <2> QED BY <2>3 DEF FetchInv, DishInv
<1> HIDE DEF OfTheSelection
<1>5. FetchSpec => [][OfTheSelection]_fetchVars
  BY <1>1, <1>2, <1>4, PTL DEF FetchSpec
<1>6. FetchSpec => PriceIsOfTheSelection
  BY <1>5 DEF PriceIsOfTheSelection, OfTheSelection
<1> QED BY <1>1, <1>2, <1>3, <1>6, PTL DEF FetchSpec, ShowsWhatWasAsked

-----------------------------------------------------------------------------
(* The dialogs.  Of their traits, only these take part.                     *)

LEMMA TraitsOfAll ==
  \A d \in Dialogs :
    /\ "guards" \in d
    /\ "shared" \in d => "leaves" \notin d
    /\ "shared" \in d /\ ("chooses" \in d \/ "edits" \in d) => "clears" \in d \/ "loads" \in d
    /\ "tells" \in d /\ "alerts" \in d => "reads" \in d
    /\ "staged" \in d => "tells" \in d
    /\ "clears" \in d /\ "recovers" \notin d => "holds" \in d
    /\ "shared" \in d /\ "staged" \in d /\ d # ClosureForm =>
         {"blocks", "clears"} \subseteq d /\ "content" \notin d /\ "closes" \notin d
BY DEF Dialogs, RejectPaymentDialog, PaymentReviewSheet, RemoveInvoiceDialog, UploadInvoice,
       DebtReminderDialog, DeleteMenuDialog, RemoveScheduleDialog, DeleteSpecialSubsidyDialog,
       SpecialSubsidyForm, ClosureForm, ClosingTimeForm, ProviderOrderActions,
       CancelOrderSheet, ConfirmModifyDialog, AddressFormSheet, AddAddressSheet,
       DeleteAddressDialog, BenefitConfigurationForm, PaymentDetailsSheet,
       UploadReceiptDialog, UploadReceiptInline, DeleteReceiptDialog, ReviewForm,
       ProfileForm, EmailForm, PasswordForm, ProviderSignIn, ForgotPasswordDialog,
       ResetCodeForm, PasswordSetupForm

DialogTypes ==
    /\ dialog \in Dialogs /\ opened \in Items \cup {None}
    /\ draft \in [Keys -> Items \cup {None}]
    /\ busy \in [Keys -> BOOLEAN]
    /\ stage \in [Keys -> {"form", "told"}]
    /\ visit # None =>
         /\ visit \in Visits /\ visit.key = Key(visit.item)
         /\ visit.mounted => busy[visit.key]
         /\ ~Is("content") => visit.mounted
    /\ strays \subseteq Items /\ live \subseteq Items /\ told \subseteq Items
    /\ made \in [Items -> Nat] /\ ended \in [Items -> Nat]

\* What is typed is for the item the dialog is open on, or for the one whose dialog it is.
Drafts ==
    /\ Is("shared") =>
         /\ opened # None => draft[One] \in {None, opened}
         /\ opened = None /\ ~Is("loads") => draft[One] = None
    /\ ~Is("shared") => \A i \in Items : draft[i] \in {None, i}
    /\ ~Is("chooses") /\ ~Is("edits") => \A k \in Keys : draft[k] = None
    /\ visit # None => visit.draft \in {None, visit.item}

One1(condition) == IF condition THEN 1 ELSE 0

\* What is done once is not accepted again; and where the flag outlives the dialog, what
\* was done, and may still be, was sent by visits that ended, but for the last one.
Doings ==
    /\ \A i \in told : made[i] > 0
    /\ visit # None /\ visit.answer = "done" => made[visit.item] > 0
    /\ visit # None /\ visit.answer = "alert" => Is("alerts")
    /\ ~Is("creates") => \A i \in Items : made[i] <= 1 /\ (i \in live => made[i] = 0)
    /\ ~Is("content") =>
         \A i \in Items : made[i] + One1(i \in strays) <=
           ended[i] + One1(visit # None /\ visit.item = i /\ visit.answer = "done")

\* The shared dialog that tells cannot be closed until its answer comes.
Stages ==
    /\ ~Is("staged") => \A k \in Keys : stage[k] = "form"
    /\ ~Is("shared") => \A i \in Items : stage[i] = "told" => made[i] > 0
    /\ Is("shared") /\ Is("staged") /\ dialog # ClosureForm =>
         /\ opened = None => stage[One] = "form"
         /\ opened # None /\ stage[One] = "told" => made[opened] > 0
         /\ visit # None => opened = visit.item

DialogInv == DialogTypes /\ Drafts /\ Doings /\ Stages

LEMMA TraitsOfThis ==
  ASSUME dialog \in Dialogs
  PROVE  /\ Is("guards")
         /\ Is("shared") => ~Is("leaves")
         /\ Is("shared") /\ (Is("chooses") \/ Is("edits")) => Is("clears") \/ Is("loads")
         /\ Is("tells") /\ Is("alerts") => Is("reads")
         /\ Is("staged") => Is("tells")
         /\ Is("clears") /\ ~Is("recovers") => Is("holds")
         /\ Is("shared") /\ Is("staged") /\ dialog # ClosureForm =>
              Is("blocks") /\ Is("clears") /\ ~Is("content") /\ ~Is("closes")
BY TraitsOfAll DEF Is

LEMMA KeysOfItems ==
  /\ None \notin Items /\ One \notin Items /\ One \in Keys /\ Items \subseteq Keys
  /\ \A i \in Items : Key(i) \in Keys
  /\ Is("shared") => \A i \in Items : Key(i) = One
  /\ ~Is("shared") => \A i \in Items : Key(i) = i
BY DialogsAssumption DEF Keys, Key

LEMMA DialogStarts == Init => DialogInv
BY KeysOfItems DEF Init, DialogInv, DialogTypes, Drafts, Doings, Stages, One1

LEMMA OpenKeeps == DialogInv /\ (\E i \in Items : Open(i)) => DialogInv'
<1> SUFFICES ASSUME DialogInv, NEW i \in Items, Open(i) PROVE DialogInv'
  OBVIOUS
<1>1. /\ opened = None /\ opened' = i
      /\ draft' = IF Is("loads") THEN [draft EXCEPT ![Key(i)] = None] ELSE draft
      /\ stage' = IF Is("loads") THEN [stage EXCEPT ![Key(i)] = "form"] ELSE stage
      /\ UNCHANGED <<dialog, busy, visit, strays, live, made, ended, told>>
  BY DEF Open
<1>2. /\ DialogTypes /\ Drafts /\ Doings /\ Stages
  BY DEF DialogInv
<1>3. \A trait : Is(trait)' = Is(trait)
  BY <1>1 DEF Is
<1>4. \A j : Key(j)' = Key(j)
  BY <1>1 DEF Is, Key
<1>5. DialogTypes'
  BY <1>1, <1>2, <1>3, <1>4, KeysOfItems DEF DialogTypes
<1>6. Drafts'
  <2>1. CASE Is("shared")
    <3>1. Key(i) = One /\ draft \in [Keys -> Items \cup {None}]
      BY <2>1, <1>2, KeysOfItems DEF DialogTypes
    <3>2. draft'[One] = None
      BY <1>1, <1>2, <2>1, <3>1, KeysOfItems DEF Drafts
    <3>3. ~Is("chooses") /\ ~Is("edits") => \A k \in Keys : draft'[k] = None
      BY <1>1, <1>2, <3>1, KeysOfItems DEF Drafts
    <3> QED BY <1>1, <1>2, <1>3, <2>1, <3>2, <3>3, KeysOfItems DEF Drafts
  <2>2. CASE ~Is("shared")
    <3>1. Key(i) = i /\ draft \in [Keys -> Items \cup {None}]
      BY <2>2, <1>2, KeysOfItems DEF DialogTypes
    <3>2. \A k \in Keys : draft'[k] \in {None, draft[k]}
      BY <1>1, <3>1, KeysOfItems
    <3> QED BY <1>1, <1>2, <1>3, <2>2, <3>2, KeysOfItems DEF Drafts
  <2> QED BY <2>1, <2>2
<1>7. Doings'
  BY <1>1, <1>2, <1>3 DEF Doings, One1
<1>8. Stages'
  <2>1. \A k \in Keys : stage'[k] = stage[k] \/ stage'[k] = "form"
    BY <1>1, <1>2, KeysOfItems DEF DialogTypes
  <2>2. Is("shared") /\ Is("staged") /\ dialog # ClosureForm => visit = None
    BY <1>1, <1>2, KeysOfItems DEF Stages, DialogTypes, Visits
  <2> QED BY <1>1, <1>2, <1>3, <2>1, <2>2, KeysOfItems DEF Stages
<1> QED BY <1>5, <1>6, <1>7, <1>8 DEF DialogInv

LEMMA TypeKeeps == DialogInv /\ Type => DialogInv'
<1> SUFFICES ASSUME DialogInv, Type PROVE DialogInv'
  OBVIOUS
<1>1. /\ opened # None /\ (Is("chooses") \/ Is("edits"))
      /\ draft' = [draft EXCEPT ![Key(opened)] = opened]
      /\ UNCHANGED <<dialog, opened, busy, stage, visit, strays, live, made, ended, told>>
  BY DEF Type
<1>2. /\ DialogTypes /\ Drafts /\ Doings /\ Stages
  BY DEF DialogInv
<1>3. \A trait : Is(trait)' = Is(trait)
  BY <1>1 DEF Is
<1>4. \A j : Key(j)' = Key(j)
  BY <1>1 DEF Is, Key
<1>5. opened \in Items /\ draft \in [Keys -> Items \cup {None}]
  BY <1>1, <1>2 DEF DialogTypes
<1>6. DialogTypes'
  BY <1>1, <1>2, <1>3, <1>4, <1>5, KeysOfItems DEF DialogTypes
<1>7. Drafts'
  <2>1. CASE Is("shared")
    BY <1>1, <1>2, <1>3, <1>5, <2>1, KeysOfItems DEF Drafts
  <2>2. CASE ~Is("shared")
    BY <1>1, <1>2, <1>3, <1>5, <2>2, KeysOfItems DEF Drafts
  <2> QED BY <2>1, <2>2
<1>8. Doings' /\ Stages'
  BY <1>1, <1>2, <1>3 DEF Doings, Stages, One1
<1> QED BY <1>6, <1>7, <1>8 DEF DialogInv

LEMMA CloseKeeps == DialogInv /\ Close => DialogInv'
<1> SUFFICES ASSUME DialogInv, Close PROVE DialogInv'
  OBVIOUS
<1> DEFINE k == Key(opened)
<1>1. /\ opened # None /\ Closable /\ opened' = None
      /\ draft' = IF Is("clears") \/ Volatile THEN [draft EXCEPT ![k] = None] ELSE draft
      /\ stage' = IF Is("clears") THEN [stage EXCEPT ![k] = "form"] ELSE stage
      /\ busy' = IF Volatile \/ (Is("clears") /\ ~Is("recovers"))
                 THEN [busy EXCEPT ![k] = FALSE] ELSE busy
      /\ UNCHANGED <<dialog, live, made, told>>
  BY DEF Close
<1>2. /\ DialogTypes /\ Drafts /\ Doings /\ Stages
  BY DEF DialogInv
<1>3. \A trait : Is(trait)' = Is(trait)
  BY <1>1 DEF Is
<1>4. \A j : Key(j)' = Key(j)
  BY <1>1 DEF Is, Key
<1>5. opened \in Items /\ k \in Keys /\ dialog \in Dialogs
  BY <1>1, <1>2, KeysOfItems DEF DialogTypes
<1>6. \/ /\ visit' = None /\ visit # None
         /\ strays' = IF visit.answer = "waiting" THEN strays \cup {visit.item} ELSE strays
         /\ ended' = [ended EXCEPT ![visit.item] = @ + 1]
      \/ /\ ~(Is("page") /\ visit # None) /\ UNCHANGED <<strays, ended>>
         /\ visit' = IF Volatile /\ visit # None
                     THEN [visit EXCEPT !.mounted = FALSE] ELSE visit
  BY DEF Close, Interrupted
<1>7. visit' # None => visit # None /\ ~(Is("page") /\ visit # None) /\ UNCHANGED <<strays, ended>>
        /\ visit' = IF Volatile THEN [visit EXCEPT !.mounted = FALSE] ELSE visit
  BY <1>6
<1>8. visit' # None =>
        /\ visit' \in Visits /\ visit'.item = visit.item /\ visit'.key = visit.key
        /\ visit'.draft = visit.draft /\ visit'.answer = visit.answer
        /\ visit'.mounted => visit.mounted /\ ~Volatile
        /\ ~Is("content") => visit'.mounted
  BY <1>2, <1>7 DEF DialogTypes, Visits, Volatile
<1>9. visit' # None /\ visit'.mounted => busy'[visit'.key]
  <2> SUFFICES ASSUME visit' # None, visit'.mounted PROVE busy'[visit'.key]
    OBVIOUS
  <2>1. visit # None /\ visit.mounted /\ ~Volatile /\ visit'.key = visit.key /\ busy[visit.key]
        /\ visit.key \in Keys /\ busy \in [Keys -> BOOLEAN]
    BY <1>2, <1>7, <1>8 DEF DialogTypes, Visits
  <2>2. CASE Is("clears") /\ ~Is("recovers")
    <3>1. visit.key # k
      BY <1>1, <1>2, <1>5, <2>1, <2>2, TraitsOfThis DEF Closable, Sending
    <3> QED BY <1>1, <2>1, <3>1
  <2>3. CASE ~(Is("clears") /\ ~Is("recovers"))
    BY <1>1, <2>1, <2>3
  <2> QED BY <2>2, <2>3
<1>10. DialogTypes'
  <2>1. strays' \subseteq Items /\ ended' \in [Items -> Nat]
    BY <1>2, <1>6 DEF DialogTypes, Visits
  <2>2. /\ draft' \in [Keys -> Items \cup {None}] /\ busy' \in [Keys -> BOOLEAN]
        /\ stage' \in [Keys -> {"form", "told"}]
    BY <1>1, <1>2, <1>5 DEF DialogTypes
  <2>3. visit' # None => visit'.key = Key(visit'.item)
    BY <1>2, <1>7, <1>8 DEF DialogTypes
  <2> QED BY <1>1, <1>2, <1>3, <1>4, <1>8, <1>9, <2>1, <2>2, <2>3 DEF DialogTypes
<1>11. Drafts'
  <2>1. \A j \in Keys : draft'[j] \in {None, draft[j]}
    BY <1>1, <1>2, <1>5 DEF DialogTypes
  <2>2. visit' # None => visit'.draft \in {None, visit'.item}
    BY <1>2, <1>7, <1>8 DEF Drafts
  <2>3. Is("shared") /\ ~Is("loads") => draft'[One] = None
    <3> SUFFICES ASSUME Is("shared"), ~Is("loads") PROVE draft'[One] = None
      OBVIOUS
    <3>1. CASE Is("chooses") \/ Is("edits")
      <4>1. Is("clears") /\ k = One
        BY <1>5, <3>1, TraitsOfThis, KeysOfItems
      <4> QED BY <1>1, <1>2, <1>5, <4>1 DEF DialogTypes
    <3>2. CASE ~(Is("chooses") \/ Is("edits"))
      BY <1>2, <2>1, <3>2, KeysOfItems DEF Drafts
    <3> QED BY <3>1, <3>2
  <2> QED BY <1>1, <1>2, <1>3, <2>1, <2>2, <2>3, KeysOfItems DEF Drafts
<1>12. Doings'
  <2>1. /\ visit' # None /\ visit'.answer = "done" => made'[visit'.item] > 0
        /\ visit' # None /\ visit'.answer = "alert" => Is("alerts")
    BY <1>1, <1>2, <1>7, <1>8 DEF Doings
  <2>2. ASSUME ~Is("content"), NEW i \in Items
        PROVE  made[i] + One1(i \in strays') <=
                 ended'[i] + One1(visit' # None /\ visit'.item = i /\ visit'.answer = "done")
    <3>1. made[i] + One1(i \in strays) <=
            ended[i] + One1(visit # None /\ visit.item = i /\ visit.answer = "done")
      BY <1>2, <2>2 DEF Doings
    <3>2. made[i] \in Nat /\ ended[i] \in Nat /\ ended \in [Items -> Nat]
      BY <1>2 DEF DialogTypes
    <3>3. CASE visit' # None
      BY <1>7, <1>8, <3>1, <3>3 DEF One1
    <3>4. CASE visit' = None /\ visit = None
      BY <1>6, <3>1, <3>4 DEF One1
    <3>5. CASE visit' = None /\ visit # None
      <4>1. /\ strays' = IF visit.answer = "waiting" THEN strays \cup {visit.item} ELSE strays
            /\ ended' = [ended EXCEPT ![visit.item] = @ + 1]
        BY <1>6, <1>2, <3>5, NoneAssumption DEF DialogTypes, Visits
      <4>2. CASE visit.item = i
        BY <3>1, <3>2, <3>5, <4>1, <4>2 DEF One1
      <4>3. CASE visit.item # i
        BY <3>1, <3>2, <3>5, <4>1, <4>3 DEF One1
      <4> QED BY <4>2, <4>3
    <3> QED BY <3>3, <3>4, <3>5
  <2> QED BY <1>1, <1>2, <1>3, <2>1, <2>2 DEF Doings
<1>13. Stages'
  <2>1. \A j \in Keys : stage'[j] = stage[j] \/ stage'[j] = "form"
    BY <1>1, <1>2, <1>5 DEF DialogTypes
  <2>2. Is("shared") /\ Is("staged") /\ dialog # ClosureForm =>
          stage'[One] = "form" /\ visit' = None
    <3> SUFFICES ASSUME Is("shared"), Is("staged"), dialog # ClosureForm
                 PROVE  stage'[One] = "form" /\ visit' = None
      OBVIOUS
    <3>1. Is("blocks") /\ Is("clears") /\ ~Is("content") /\ k = One
      BY <1>5, TraitsOfThis, KeysOfItems
    <3>2. stage'[One] = "form"
      BY <1>1, <1>2, <1>5, <3>1 DEF DialogTypes
    <3>3. ~busy[One]
      BY <1>1, <3>1 DEF Closable
    <3>4. visit = None
      BY <1>2, <3>1, <3>3, KeysOfItems DEF DialogTypes, Visits
    <3> QED BY <1>7, <3>2, <3>4
  <2> QED BY <1>1, <1>2, <1>3, <2>1, <2>2, KeysOfItems DEF Stages
<1> QED BY <1>10, <1>11, <1>12, <1>13 DEF DialogInv

LEMMA SubmitKeeps == DialogInv /\ Submit => DialogInv'
<1> SUFFICES ASSUME DialogInv, Submit PROVE DialogInv'
  OBVIOUS
<1> DEFINE k == Key(opened)
           other == visit # None /\ visit.key # k
<1>1. /\ opened # None /\ (Is("guards") => ~busy[k])
      /\ visit' = [item |-> opened, key |-> k, draft |-> draft[k],
                   mounted |-> TRUE, answer |-> "waiting"]
      /\ busy' = [busy EXCEPT ![k] = TRUE,
                  ![IF visit = None \/ visit.key = k THEN k ELSE visit.key] =
                      (visit = None \/ visit.key = k)]
      /\ strays' = IF visit # None /\ visit.answer = "waiting"
                   THEN strays \cup {visit.item} ELSE strays
      /\ ended' = IF visit # None /\ visit.item # opened
                  THEN [ended EXCEPT ![visit.item] = @ + 1] ELSE ended
      /\ UNCHANGED <<dialog, opened, draft, stage, live, made, told>>
  BY DEF Submit, Interrupted
<1>2. /\ DialogTypes /\ Drafts /\ Doings /\ Stages
  BY DEF DialogInv
<1>3. \A trait : Is(trait)' = Is(trait)
  BY <1>1 DEF Is
<1>4. \A j : Key(j)' = Key(j)
  BY <1>1 DEF Is, Key
<1>5. opened \in Items /\ k \in Keys /\ dialog \in Dialogs /\ draft[k] \in Items \cup {None}
      /\ ended \in [Items -> Nat]
  BY <1>1, <1>2, KeysOfItems DEF DialogTypes
<1>6. visit' \in Visits /\ visit' # None /\ visit'.key = Key(visit'.item)
  <2>1. visit' \in Visits
    BY <1>1, <1>5 DEF Visits
  <2>2. visit'.key = Key(visit'.item)
    BY <1>1
  <2> QED BY <2>1, <2>2, NoneAssumption
<1>7. visit # None => visit.item \in Items /\ visit.key \in Keys /\ visit.key = Key(visit.item)
  BY <1>2 DEF DialogTypes, Visits
<1>8. busy' \in [Keys -> BOOLEAN] /\ busy'[k]
  <2>1. busy \in [Keys -> BOOLEAN]
    BY <1>2 DEF DialogTypes
  <2>2. CASE other
    <3>1. busy' = [busy EXCEPT ![k] = TRUE, ![visit.key] = FALSE]
      BY <1>1, <2>2
    <3> QED BY <1>5, <1>7, <2>1, <2>2, <3>1
  <2>3. CASE ~other
    <3>1. busy' = [busy EXCEPT ![k] = TRUE, ![k] = TRUE]
      BY <1>1, <2>3
    <3> QED BY <1>5, <2>1, <3>1
  <2> QED BY <2>2, <2>3
<1>9. DialogTypes'
  <2>1. strays' \subseteq Items /\ ended' \in [Items -> Nat]
    BY <1>1, <1>2, <1>5, <1>7 DEF DialogTypes
  <2>2. visit'.key = k /\ visit'.mounted
    BY <1>1
  <2> QED BY <1>1, <1>2, <1>3, <1>4, <1>6, <1>8, <2>1, <2>2 DEF DialogTypes
<1>10. Drafts'
  <2>1. draft[k] \in {None, opened}
    BY <1>1, <1>2, <1>5, KeysOfItems DEF Drafts
  <2>2. visit'.draft = draft[k] /\ visit'.item = opened
    BY <1>1
  <2> QED BY <1>1, <1>2, <1>3, <2>1, <2>2 DEF Drafts
<1>11. Doings'
  <2>1. visit'.answer = "waiting"
    BY <1>1
  <2>2. ASSUME ~Is("content"), NEW i \in Items
        PROVE  made[i] + One1(i \in strays') <= ended'[i]
    <3>1. made[i] + One1(i \in strays) <=
            ended[i] + One1(visit # None /\ visit.item = i /\ visit.answer = "done")
      BY <1>2, <2>2 DEF Doings
    <3>2. made[i] \in Nat /\ ended[i] \in Nat
      BY <1>2 DEF DialogTypes
    <3>3. CASE visit = None
      BY <1>1, <3>1, <3>2, <3>3 DEF One1
    <3>4. CASE visit # None
      <4>1. ~busy[k] /\ busy[visit.key]
        BY <1>1, <1>2, <1>5, <2>2, <3>4, TraitsOfThis DEF DialogTypes
      <4>2. visit.item # opened /\ ended' = [ended EXCEPT ![visit.item] = @ + 1]
        BY <1>1, <1>7, <3>4, <4>1
      <4>3. CASE visit.item = i
        BY <1>1, <1>5, <3>1, <3>2, <3>4, <4>2, <4>3 DEF One1
      <4>4. CASE visit.item # i
        BY <1>1, <1>5, <1>7, <3>1, <3>2, <3>4, <4>2, <4>4 DEF One1
      <4> QED BY <4>3, <4>4
    <3> QED BY <3>3, <3>4
  <2>3. ASSUME NEW i \in Items
        PROVE  One1(visit' # None /\ visit'.item = i /\ visit'.answer = "done") = 0
    BY <2>1 DEF One1
  <2>4. ASSUME ~Is("content"), NEW i \in Items
        PROVE  made[i] + One1(i \in strays') <=
                 ended'[i] + One1(visit' # None /\ visit'.item = i /\ visit'.answer = "done")
    <3>1. ended' \in [Items -> Nat]
      BY <1>9 DEF DialogTypes
    <3> QED BY <2>2, <2>3, <2>4, <3>1
  <2> QED BY <1>1, <1>2, <1>3, <2>1, <2>4 DEF Doings
<1>12. Stages'
  BY <1>1, <1>2, <1>3 DEF Stages
<1> QED BY <1>9, <1>10, <1>11, <1>12 DEF DialogInv

LEMMA ArriveKeeps == DialogInv /\ Arrive => DialogInv'
<1> SUFFICES ASSUME DialogInv, Arrive PROVE DialogInv'
  OBVIOUS
<1> DEFINE k == visit.key
           i == visit.item
           done == visit.answer = "done"
<1>1. /\ visit # None /\ visit' = None
      /\ opened' \in {None, opened}
      /\ opened' # opened => (Succeeded /\ Is("closes")) \/ (done /\ Is("leaves"))
      /\ draft' = IF Succeeded /\ (Is("empties") \/ (Is("clears") /\ Is("closes")))
                  THEN [draft EXCEPT ![k] = None] ELSE draft
      /\ stage' = IF Succeeded /\ Is("staged") THEN [stage EXCEPT ![k] = "told"] ELSE stage
      /\ busy' = IF visit.mounted THEN [busy EXCEPT ![k] = FALSE] ELSE busy
      /\ told' = IF Succeeded /\ Is("tells") THEN told \cup {i} ELSE told
      /\ ended' = IF done THEN [ended EXCEPT ![i] = @ + 1] ELSE ended
      /\ UNCHANGED <<dialog, strays, live, made>>
  BY DEF Arrive
<1>2. /\ DialogTypes /\ Drafts /\ Doings /\ Stages
  BY DEF DialogInv
<1>3. \A trait : Is(trait)' = Is(trait)
  BY <1>1 DEF Is
<1>4. \A j : Key(j)' = Key(j)
  BY <1>1 DEF Is, Key
<1>5. i \in Items /\ k \in Keys /\ k = Key(i) /\ dialog \in Dialogs /\ ended \in [Items -> Nat]
      /\ draft \in [Keys -> Items \cup {None}] /\ stage \in [Keys -> {"form", "told"}]
  BY <1>1, <1>2 DEF DialogTypes, Visits
<1>6. done => made[i] > 0
  BY <1>1, <1>2 DEF Doings
<1>7. Succeeded /\ Is("tells") => made[i] > 0
  BY <1>1, <1>2, <1>5, <1>6, TraitsOfThis DEF Doings, Succeeded
<1>8. DialogTypes'
  BY <1>1, <1>2, <1>3, <1>4, <1>5 DEF DialogTypes
<1>9. Drafts'
  <2>1. \A j \in Keys : draft'[j] \in {None, draft[j]}
    BY <1>1, <1>5
  <2>2. Is("shared") /\ ~Is("loads") /\ opened' = None => draft'[One] = None
    <3> SUFFICES ASSUME Is("shared"), ~Is("loads"), opened' = None PROVE draft'[One] = None
      OBVIOUS
    <3>1. k = One /\ ~Is("leaves")
      BY <1>5, TraitsOfThis, KeysOfItems
    <3>2. CASE opened = None
      BY <1>2, <2>1, <3>2, KeysOfItems DEF Drafts
    <3>3. CASE ~(Is("chooses") \/ Is("edits"))
      BY <1>2, <2>1, <3>3, KeysOfItems DEF Drafts
    <3>4. CASE opened # None /\ (Is("chooses") \/ Is("edits"))
      <4>1. Is("clears") /\ Is("closes") /\ Succeeded
        BY <1>1, <1>5, <3>1, <3>4, TraitsOfThis
      <4> QED BY <1>1, <1>5, <3>1, <4>1
    <3> QED BY <3>2, <3>3, <3>4
  <2> QED BY <1>1, <1>2, <1>3, <2>1, <2>2, KeysOfItems DEF Drafts
<1>10. Doings'
  <2>1. \A j \in told' : made[j] > 0
    BY <1>1, <1>2, <1>7 DEF Doings
  <2>2. ASSUME ~Is("content"), NEW j \in Items
        PROVE  made[j] + One1(j \in strays) <= ended'[j]
    <3>1. made[j] + One1(j \in strays) <=
            ended[j] + One1(visit # None /\ visit.item = j /\ visit.answer = "done")
      BY <1>2, <2>2 DEF Doings
    <3>2. made[j] \in Nat /\ ended[j] \in Nat
      BY <1>2 DEF DialogTypes
    <3>3. CASE done /\ i = j
      BY <1>1, <1>5, <3>1, <3>2, <3>3 DEF One1
    <3>4. CASE ~(done /\ i = j)
      BY <1>1, <1>5, <3>1, <3>2, <3>4 DEF One1
    <3> QED BY <3>3, <3>4
  <2>3. ended' \in [Items -> Nat]
    BY <1>8 DEF DialogTypes
  <2>4. ASSUME ~Is("content"), NEW j \in Items
        PROVE  made[j] + One1(j \in strays) <=
                 ended'[j] + One1(visit' # None /\ visit'.item = j /\ visit'.answer = "done")
    BY <1>1, <2>2, <2>3, <2>4 DEF One1
  <2> QED BY <1>1, <1>2, <1>3, <2>1, <2>4 DEF Doings
<1>11. Stages'
  <2>1. ~Is("staged") => \A j \in Keys : stage'[j] = "form"
    BY <1>1, <1>2 DEF Stages
  <2>2. ~Is("shared") => \A j \in Items : stage'[j] = "told" => made[j] > 0
    BY <1>1, <1>2, <1>5, <1>7, TraitsOfThis, KeysOfItems DEF Stages
  <2>3. Is("shared") /\ Is("staged") /\ dialog # ClosureForm =>
          /\ opened' = None => stage'[One] = "form"
          /\ opened' # None /\ stage'[One] = "told" => made[opened'] > 0
    <3> SUFFICES ASSUME Is("shared"), Is("staged"), dialog # ClosureForm
                 PROVE  opened' = i /\ opened' # None /\ (stage'[One] = "told" => made[i] > 0)
      OBVIOUS
    <3>1. k = One /\ ~Is("closes") /\ ~Is("leaves") /\ Is("tells")
      BY <1>5, TraitsOfThis, KeysOfItems
    <3>2. opened = i /\ opened' = opened
      BY <1>1, <1>2, <3>1 DEF Stages
    <3>3. stage[One] = "told" => made[opened] > 0
      BY <1>2, <1>5, <3>2, KeysOfItems DEF Stages
    <3> QED BY <1>1, <1>5, <1>7, <3>1, <3>2, <3>3, KeysOfItems
  <2> QED BY <1>1, <1>2, <1>3, <2>1, <2>2, <2>3 DEF Stages
<1> QED BY <1>8, <1>9, <1>10, <1>11 DEF DialogInv

LEMMA FailKeeps == DialogInv /\ Fail => DialogInv'
<1> SUFFICES ASSUME DialogInv, Fail PROVE DialogInv'
  OBVIOUS
<1>1. /\ visit # None /\ visit' = None
      /\ strays' = IF visit.answer = "waiting" THEN strays \cup {visit.item} ELSE strays
      /\ busy' = IF Is("recovers") /\ visit.mounted
                 THEN [busy EXCEPT ![visit.key] = FALSE] ELSE busy
      /\ ended' = [ended EXCEPT ![visit.item] = @ + 1]
      /\ UNCHANGED <<dialog, opened, draft, stage, live, made, told>>
  BY DEF Fail, Interrupted
<1>2. /\ DialogTypes /\ Drafts /\ Doings /\ Stages
  BY DEF DialogInv
<1>3. \A trait : Is(trait)' = Is(trait)
  BY <1>1 DEF Is
<1>4. visit.item \in Items /\ visit.key \in Keys
  BY <1>1, <1>2 DEF DialogTypes, Visits
<1>5. DialogTypes'
  BY <1>1, <1>2, <1>3, <1>4 DEF DialogTypes
<1>6. Drafts' /\ Stages'
  BY <1>1, <1>2, <1>3 DEF Drafts, Stages
<1>7. Doings'
  <2>1. ASSUME ~Is("content"), NEW j \in Items
        PROVE  made[j] + One1(j \in strays') <= ended'[j]
    <3>1. made[j] + One1(j \in strays) <=
            ended[j] + One1(visit # None /\ visit.item = j /\ visit.answer = "done")
      BY <1>2, <2>1 DEF Doings
    <3>2. made[j] \in Nat /\ ended[j] \in Nat /\ ended \in [Items -> Nat]
      BY <1>2 DEF DialogTypes
    <3>3. CASE visit.item = j
      BY <1>1, <3>1, <3>2, <3>3 DEF One1
    <3>4. CASE visit.item # j
      BY <1>1, <1>4, <3>1, <3>2, <3>4 DEF One1
    <3> QED BY <3>3, <3>4
  <2>2. ended' \in [Items -> Nat]
    BY <1>5 DEF DialogTypes
  <2>3. ASSUME ~Is("content"), NEW j \in Items
        PROVE  made[j] + One1(j \in strays') <=
                 ended'[j] + One1(visit' # None /\ visit'.item = j /\ visit'.answer = "done")
    BY <1>1, <2>1, <2>2, <2>3 DEF One1
  <2> QED BY <1>1, <1>2, <1>3, <2>3 DEF Doings
<1> QED BY <1>5, <1>6, <1>7 DEF DialogInv

\* The server does it to what it still accepts, and creating aside, once.
LEMMA DoneOnceByTheServer ==
  ASSUME DialogInv, NEW i \in Items, Do(i)
  PROVE  /\ made' \in [Items -> Nat] /\ live' \subseteq Items
         /\ \A j \in Items : made'[j] = made[j] \/ (j = i /\ i \in live /\ made'[j] = made[j] + 1)
         /\ i \in live => made'[i] > 0
         /\ ~Is("creates") => \A j \in Items : made'[j] <= 1 /\ (j \in live' => made'[j] = 0)
<1>1. /\ made' = IF i \in live THEN [made EXCEPT ![i] = @ + 1] ELSE made
      /\ live' = IF Is("creates") THEN live ELSE live \ {i}
  BY DEF Do
<1>2. made \in [Items -> Nat] /\ live \subseteq Items
  BY DEF DialogInv, DialogTypes
<1>3. ~Is("creates") => \A j \in Items : made[j] <= 1 /\ (j \in live => made[j] = 0)
  BY DEF DialogInv, Doings
<1> QED BY <1>1, <1>2, <1>3

LEMMA ServeKeeps == DialogInv /\ Serve => DialogInv'
<1> SUFFICES ASSUME DialogInv, Serve PROVE DialogInv'
  OBVIOUS
<1> DEFINE answer == IF visit.item \in live THEN "done"
                     ELSE IF Is("alerts") THEN "alert" ELSE "errors"
<1>1. /\ visit # None /\ visit.answer = "waiting" /\ Do(visit.item)
      /\ visit' = [visit EXCEPT !.answer = answer]
      /\ UNCHANGED <<dialog, opened, draft, busy, stage, strays, ended, told>>
  BY DEF Serve, screen
<1>2. /\ DialogTypes /\ Drafts /\ Doings /\ Stages
  BY DEF DialogInv
<1>3. \A trait : Is(trait)' = Is(trait)
  BY <1>1 DEF Is
<1>4. \A j : Key(j)' = Key(j)
  BY <1>1 DEF Is, Key
<1>5. visit \in Visits /\ visit.item \in Items
  BY <1>1, <1>2 DEF DialogTypes, Visits
<1>6. /\ visit' \in Visits /\ visit'.item = visit.item /\ visit'.key = visit.key
      /\ visit'.draft = visit.draft /\ visit'.mounted = visit.mounted
      /\ visit'.answer = answer
  BY <1>1, <1>5 DEF Visits
<1>7. /\ made' \in [Items -> Nat] /\ live' \subseteq Items
      /\ \A j \in Items : made'[j] = made[j]
                            \/ (j = visit.item /\ visit.item \in live /\ made'[j] = made[j] + 1)
      /\ visit.item \in live => made'[visit.item] > 0
      /\ ~Is("creates") => \A j \in Items : made'[j] <= 1 /\ (j \in live' => made'[j] = 0)
  BY <1>1, <1>5, DoneOnceByTheServer
<1> HIDE DEF answer
<1>8. DialogTypes'
  BY <1>1, <1>2, <1>3, <1>4, <1>6, <1>7 DEF DialogTypes
<1>9. made \in [Items -> Nat] /\ ended \in [Items -> Nat]
  BY <1>2 DEF DialogTypes
<1>10. \A j \in Items : made[j] > 0 => made'[j] > 0
  BY <1>7, <1>9
<1>11. Drafts'
  BY <1>1, <1>2, <1>3, <1>6 DEF Drafts
<1>12. Doings'
  <2>1. \A j \in told : made'[j] > 0
    BY <1>2, <1>10 DEF Doings, DialogTypes
  <2>2. /\ visit'.answer = "done" => made'[visit'.item] > 0
        /\ visit'.answer = "alert" => Is("alerts")
    BY <1>6, <1>7 DEF answer
  <2>3. ASSUME ~Is("content"), NEW j \in Items
        PROVE  made'[j] + One1(j \in strays) <=
                 ended[j] + One1(visit' # None /\ visit'.item = j /\ visit'.answer = "done")
    <3>1. made[j] + One1(j \in strays) <=
            ended[j] + One1(visit # None /\ visit.item = j /\ visit.answer = "done")
      BY <1>2, <2>3 DEF Doings
    <3>2. made[j] + One1(j \in strays) <= ended[j]
      BY <1>1, <1>9, <3>1 DEF One1
    <3>3. CASE made'[j] = made[j]
      BY <1>9, <3>2, <3>3 DEF One1
    <3>4. CASE j = visit.item /\ visit.item \in live /\ made'[j] = made[j] + 1
      <4>1. visit' # None /\ visit'.item = j /\ visit'.answer = "done"
        BY <1>6, <3>4, NoneAssumption DEF answer
      <4> QED BY <1>9, <3>2, <3>4, <4>1 DEF One1
    <3> QED BY <1>7, <3>3, <3>4
  <2> QED BY <1>1, <1>3, <1>7, <2>1, <2>2, <2>3 DEF Doings
<1>13. Stages'
  <2>1. Items \subseteq Keys /\ opened \in Items \cup {None}
    BY <1>2, KeysOfItems DEF DialogTypes
  <2> QED BY <1>1, <1>2, <1>3, <1>6, <1>10, <2>1 DEF Stages
<1> QED BY <1>8, <1>11, <1>12, <1>13 DEF DialogInv

LEMMA StrayKeeps == DialogInv /\ (\E i \in Items : ServeStray(i)) => DialogInv'
<1> SUFFICES ASSUME DialogInv, NEW i \in Items, ServeStray(i) PROVE DialogInv'
  OBVIOUS
<1>1. /\ i \in strays /\ strays' = strays \ {i} /\ Do(i)
      /\ UNCHANGED <<dialog, opened, draft, busy, stage, visit, ended, told>>
  BY DEF ServeStray, screen
<1>2. /\ DialogTypes /\ Drafts /\ Doings /\ Stages
  BY DEF DialogInv
<1>3. \A trait : Is(trait)' = Is(trait)
  BY <1>1 DEF Is
<1>4. \A j : Key(j)' = Key(j)
  BY <1>1 DEF Is, Key
<1>5. /\ made' \in [Items -> Nat] /\ live' \subseteq Items
      /\ \A j \in Items : made'[j] = made[j] \/ (j = i /\ made'[j] = made[j] + 1)
      /\ ~Is("creates") => \A j \in Items : made'[j] <= 1 /\ (j \in live' => made'[j] = 0)
  BY <1>1, DoneOnceByTheServer
<1>6. made \in [Items -> Nat] /\ ended \in [Items -> Nat]
  BY <1>2 DEF DialogTypes
<1>7. \A j \in Items : made[j] > 0 => made'[j] > 0
  BY <1>5, <1>6
<1>8. DialogTypes'
  BY <1>1, <1>2, <1>3, <1>4, <1>5 DEF DialogTypes
<1>9. Drafts'
  BY <1>1, <1>2, <1>3 DEF Drafts
<1>10. Doings'
  <2>1. /\ \A j \in told : made'[j] > 0
        /\ visit # None /\ visit.answer = "done" => made'[visit.item] > 0
        /\ visit # None /\ visit.answer = "alert" => Is("alerts")
    BY <1>2, <1>7 DEF Doings, DialogTypes, Visits
  <2>2. ASSUME ~Is("content"), NEW j \in Items
        PROVE  made'[j] + One1(j \in strays') <=
                 ended[j] + One1(visit # None /\ visit.item = j /\ visit.answer = "done")
    <3>1. made[j] + One1(j \in strays) <=
            ended[j] + One1(visit # None /\ visit.item = j /\ visit.answer = "done")
      BY <1>2, <2>2 DEF Doings
    <3>2. made'[j] + One1(j \in strays') <= made[j] + One1(j \in strays)
      BY <1>1, <1>5, <1>6 DEF One1
    <3>3. made'[j] \in Nat /\ One1(j \in strays') \in Nat
      BY <1>5 DEF One1
    <3> HIDE DEF One1
    <3> QED BY <1>6, <3>1, <3>2, <3>3 DEF One1
  <2> QED BY <1>1, <1>3, <1>5, <2>1, <2>2 DEF Doings
<1>11. Stages'
  <2>1. Items \subseteq Keys /\ opened \in Items \cup {None}
    BY <1>2, KeysOfItems DEF DialogTypes
  <2> QED BY <1>1, <1>2, <1>3, <1>7, <2>1 DEF Stages
<1> QED BY <1>8, <1>9, <1>10, <1>11 DEF DialogInv

LEMMA OthersKeep == DialogInv /\ (\E i \in Items : Others(i)) => DialogInv'
<1> SUFFICES ASSUME DialogInv, NEW i \in Items, Others(i) PROVE DialogInv'
  OBVIOUS
<1>1. live' \subseteq live
      /\ UNCHANGED <<dialog, opened, draft, busy, stage, visit, strays, made, ended, told>>
  BY DEF Others, screen
<1>2. /\ DialogTypes /\ Drafts /\ Doings /\ Stages
  BY DEF DialogInv
<1>3. \A trait : Is(trait)' = Is(trait)
  BY <1>1 DEF Is
<1>4. \A j : Key(j)' = Key(j)
  BY <1>1 DEF Is, Key
<1> QED BY <1>1, <1>2, <1>3, <1>4 DEF DialogInv, DialogTypes, Drafts, Doings, Stages, One1

LEMMA DialogsStep == DialogInv /\ [Next]_vars => DialogInv'
<1> SUFFICES ASSUME DialogInv, [Next]_vars PROVE DialogInv'
  OBVIOUS
<1>1. CASE UNCHANGED vars
  BY <1>1 DEF vars, screen, DialogInv, DialogTypes, Drafts, Doings, Stages, One1, Is, Key
<1>2. CASE Next
  BY <1>2, OpenKeeps, TypeKeeps, CloseKeeps, SubmitKeeps, ArriveKeeps, FailKeeps, ServeKeeps,
     StrayKeeps, OthersKeep DEF Next
<1> QED BY <1>1, <1>2

\* Whatever the dialog, of the thirty of the front end (delete-menu-sheet.tsx:50,
\* reject-payment-dialog.tsx:70, delete-address-dialog.tsx:46...), and however its visits
\* are interrupted, lost or answered late: what it sends was typed for its item, it is done
\* once unless an answer was lost, and what it says is done is done.
THEOREM DialogsKeep == Spec => []DialogsKeepTheirWord
<1>1. DialogInv => DialogsKeepTheirWord
  <2> SUFFICES ASSUME DialogInv PROVE DialogsKeepTheirWord
    OBVIOUS
  <2>1. SendsWhatWasTypedForIt /\ ToldIsDone
    BY DEF DialogInv, Drafts, Doings, SendsWhatWasTypedForIt, ToldIsDone
  <2>2. DoneOnce
    <3> SUFFICES ASSUME NEW i \in Items, made[i] > 1 + ended[i]
                 PROVE  Is("content") /\ Is("creates")
      BY DEF DoneOnce
    <3>1. made[i] \in Nat /\ ended[i] \in Nat
      BY DEF DialogInv, DialogTypes
    <3>2. Is("creates")
      BY <3>1 DEF DialogInv, Doings
    <3>3. Is("content")
      BY <3>1 DEF DialogInv, Doings, One1
    <3> QED BY <3>2, <3>3
  <2>3. SaysItOfItsItem
    BY KeysOfItems DEF DialogInv, DialogTypes, Stages, SaysItOfItsItem
  <2> QED BY <2>1, <2>2, <2>3 DEF DialogsKeepTheirWord
<1> QED BY <1>1, DialogStarts, DialogsStep, PTL DEF Spec
=============================================================================
