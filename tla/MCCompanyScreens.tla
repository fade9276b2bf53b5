--------------------------- MODULE MCCompanyScreens ---------------------------
(* Screens of the employees and of the people who run their benefits that  *)
(* wait for answers, instances for TLC: details that are fetched, an order  *)
(* that is edited, the dialogs with a form, the base subsidy; and the       *)
(* calendar that says when they can, day after day through months of every  *)
(* start and length.  A behaviour is of one of them, chosen at the start;   *)
(* the others stay as they open.                                            *)
EXTENDS FetchedDetails, OrderEditing, BaseSubsidy, FormDialogs, BusinessDays

CONSTANTS d1, d2, m1, m2, s1, s2

VARIABLE area

SomeConsumed == {<<1, m1>>, <<2, m1>>, <<2, m2>>}

CompanyInit ==
    /\ area \in {"details", "order", "subsidy", "dialog", "calendar"}
    /\ FetchInit /\ (area # "details" => view = "accounts" /\ month = m1)
    /\ EditInit
    /\ area # "order" =>
         shown.row = [status |-> "pending", amount |-> 1, details |-> d1]
    /\ SubsidyInit /\ (area # "subsidy" => ~late)
    /\ Init /\ (area # "dialog" => dialog = ProfileForm)
    /\ DaysInit /\ (area # "calendar" => monthStart = 0 /\ monthEnd = 30)

CompanyNext ==
    /\ UNCHANGED area
    /\ \/ /\ area = "details" /\ FetchNext
          /\ UNCHANGED <<editVars, subsidyVars, vars, daysVars>>
       \/ /\ area = "order" /\ EditNext
          /\ UNCHANGED <<fetchVars, subsidyVars, vars, daysVars>>
       \/ /\ area = "subsidy" /\ SubsidyNext
          /\ UNCHANGED <<fetchVars, editVars, vars, daysVars>>
       \/ /\ area = "dialog" /\ Next
          /\ UNCHANGED <<fetchVars, editVars, subsidyVars, daysVars>>
       \/ /\ area = "calendar" /\ DaysNext
          /\ UNCHANGED <<fetchVars, editVars, subsidyVars, vars>>

companyVars ==
    <<area, fetchVars, editVars, subsidyVars, vars, daysVars>>

CompanySpec ==
    /\ CompanyInit /\ [][CompanyNext]_companyVars
    /\ FetchFairness /\ EditFairness /\ SubsidyFairness
    /\ WF_vars(Arrive \/ Fail)

\* Whatever is shown as on its way ends, and nobody is held by a dialog for ever:
\* of every screen of this instance.
EveryWaitEnds ==
    /\ SpinnersEnd /\ SavingEnds /\ ProgrammingEnds
    /\ WaitsEnd /\ NeverTrapped
===============================================================================
