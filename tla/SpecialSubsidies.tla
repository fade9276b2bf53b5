-------------------------- MODULE SpecialSubsidies --------------------------
(***************************************************************************)
(* The form of a special subsidy (components/benefit-configurations/       *)
(* special-subsidy-form.tsx) and what the server makes of it               *)
(* (BenefitConfiguration#save_special_subsidy and #special_condition).     *)
(* The form speaks of an amount of days, weeks or months; the server keeps *)
(* a number of days, or the last date of a gift, and gives the form back   *)
(* an amount in the largest unit that represents it exactly.               *)
(*                                                                         *)
(* Days are numbered from the first of a January; no year is a leap year.  *)
(* What form and server check alike of a name and a percentage is one      *)
(* field, "proper"; a blank or fractional number is 0.                     *)
(***************************************************************************)
EXTENDS Integers

CONSTANTS
    Staff,          \* employees of the company
    Amounts,        \* validities one may write
    GiftDays,       \* days a gift may start on
    NoGiftDay,      \* "": no day, before all of them
    NoRule,         \* no special subsidy yet
    FirstDay,       \* the day the page is opened
    LastFormDay,    \* bound: the last day
    MaxFillings     \* bound: times a form is filled in

ASSUME SpecialAssumption ==
    /\ Amounts \subseteq Nat
    /\ NoGiftDay \in Int /\ FirstDay \in Int /\ LastFormDay \in Int /\ GiftDays \subseteq Int
    /\ NoGiftDay < FirstDay /\ FirstDay <= LastFormDay
    /\ \A day \in GiftDays : NoGiftDay < day
    /\ MaxFillings \in Nat

VARIABLES
    dayOfForm,      \* today
    dayRendered,    \* today, as of the last change of the form: now
    special,        \* the subsidy that is saved
    formOpen,       \* the form is shown
    original,       \* the subsidy it was opened with
    fields,         \* its data
    submission,     \* "none", "waiting", or the answer
    posted,         \* what was sent: its form, its subsidy, when it was drawn
    changedElsewhere,   \* others changed the subsidy since it was opened
    fillings        \* times a form was filled in

specialVars == <<dayOfForm, dayRendered, special, formOpen, original, fields, submission,
                 posted, changedElsewhere, fillings>>

Conditions == {"seniority", "birthday", "onboarding", "gift"}
DurationUnits == {"days", "weeks", "months"}
DaysPerUnit == [days |-> 1, weeks |-> 7, months |-> 30]
MaxValidityDays == 100

FieldSet == [proper : BOOLEAN, all : BOOLEAN, who : SUBSET Staff, type : Conditions \cup {""},
             years : {0, 1}, limit : {0, 1}, amount : Amounts \cup {2}, unit : DurationUnits,
             from : GiftDays \cup {NoGiftDay}]

\* The fields of a form, any amount included, the rules and the subsidies.
AnyForm == [proper : BOOLEAN, all : BOOLEAN, who : SUBSET Staff, type : Conditions \cup {""},
            years : {0, 1}, limit : {0, 1}, amount : Nat, unit : DurationUnits,
            from : GiftDays \cup {NoGiftDay}]
Rule == [type : Conditions, years : {0, 1}, limit : {0, 1}, days : Nat,
         from : GiftDays \cup {NoGiftDay}, until : Int]
Subsidy == [rule : Rule, all : BOOLEAN, who : SUBSET Staff]

\* null is not a request.
ASSUME NoRuleAssumption ==
    NoRule \notin [of : Subsidy \cup {NoRule}, form : AnyForm, drawn : Int, changed : BOOLEAN]

-----------------------------------------------------------------------------
(* The calendar: Date#advance *)

MonthStarts == <<0, 31, 59, 90, 120, 151, 181, 212, 243, 273, 304, 334, 365>>

\* Months are numbered on from the first January.
StartOfMonth(month) == 365 * (month \div 12) + MonthStarts[(month % 12) + 1]
LengthOfMonth(month) == StartOfMonth(month + 1) - StartOfMonth(month)
MonthOf(day) ==
    12 * (day \div 365)
      + (CHOOSE month \in 0..11 : /\ MonthStarts[month + 1] <= day % 365
                                  /\ day % 365 < MonthStarts[month + 2])

\* The same day some months later, or the last one of a shorter month.
AdvanceMonths(day, months) ==
    LET month == MonthOf(day) + months
        inMonth == day - StartOfMonth(MonthOf(day))
    IN StartOfMonth(month) + (IF inMonth < LengthOfMonth(month) THEN inMonth
                              ELSE LengthOfMonth(month) - 1)

Advance(day, amount, unit) ==
    IF unit = "months" THEN AdvanceMonths(day, amount) ELSE day + amount * DaysPerUnit[unit]

-----------------------------------------------------------------------------
(* The server: from a condition to a rule, and back *)

\* special_rule_attributes: the fields the type does not use are not kept.
RuleOf(condition) ==
    [type |-> condition.type,
     years |-> IF condition.type = "seniority" THEN condition.years ELSE 0,
     limit |-> IF condition.type = "seniority" THEN 0 ELSE condition.limit,
     days |-> IF condition.type \in {"birthday", "onboarding"}
              THEN condition.amount * DaysPerUnit[condition.unit] ELSE 0,
     from |-> IF condition.type = "gift" THEN condition.from ELSE NoGiftDay,
     until |-> IF condition.type = "gift" /\ condition.from # NoGiftDay
               THEN Advance(condition.from, condition.amount, condition.unit) - 1 ELSE 0]

\* validity_in_days.
ValidityInDays(days) ==
    CASE days > 0 /\ days % 30 = 0 -> [amount |-> days \div 30, unit |-> "months"]
      [] days > 0 /\ days % 30 # 0 /\ days % 7 = 0 -> [amount |-> days \div 7, unit |-> "weeks"]
      [] OTHER -> [amount |-> days, unit |-> "days"]

\* A mutant of ValidityBetween: any whole number of months will do.
ValidityBetweenInMonths(from, to) ==
    LET months == MonthOf(to) - MonthOf(from)
        days == to - from
    IN CASE months > 0 -> [amount |-> months, unit |-> "months"]
         [] months = 0 /\ days % 7 = 0 -> [amount |-> days \div 7, unit |-> "weeks"]
         [] OTHER -> [amount |-> days, unit |-> "days"]

\* validity_between: months only if they lead to that very day.
ValidityBetween(from, to) ==
    LET months == MonthOf(to) - MonthOf(from)
        days == to - from
        inMonths == months > 0 /\ AdvanceMonths(from, months) = to
    IN CASE inMonths -> [amount |-> months, unit |-> "months"]
         [] ~inMonths /\ days % 7 = 0 -> [amount |-> days \div 7, unit |-> "weeks"]
         [] OTHER -> [amount |-> days, unit |-> "days"]

\* special_condition, and the defaults the form gives to the fields it does not find.
ConditionOf(rule) ==
    LET validity ==
            CASE rule.type = "gift" -> ValidityBetween(rule.from, rule.until + 1)
              [] rule.type \in {"birthday", "onboarding"} -> ValidityInDays(rule.days)
              [] OTHER -> [amount |-> 2, unit |-> "weeks"]
    IN [type |-> rule.type,
        years |-> IF rule.type = "seniority" THEN rule.years ELSE 1,
        limit |-> IF rule.type = "seniority" THEN 1 ELSE rule.limit,
        amount |-> validity.amount, unit |-> validity.unit, from |-> rule.from]

\* The validations of the subsidy and of its rule, on the day it is saved.  A gift may
\* start in the past only if it did already.
Accepts(form, saved, today) ==
    LET rule == RuleOf(form)
        unchangedFrom == saved # NoRule /\ saved.rule.type = "gift"
                           /\ saved.rule.from = rule.from
    IN /\ form.proper
       /\ form.all \/ form.who # {}
       /\ CASE rule.type = "seniority" -> rule.years > 0
            [] rule.type \in {"birthday", "onboarding"} ->
                 rule.limit > 0 /\ rule.days \in 1..MaxValidityDays
            [] rule.type = "gift" ->
                 /\ rule.limit > 0 /\ rule.from # NoGiftDay
                 /\ rule.from >= today \/ unchangedFrom
                 /\ rule.until >= rule.from
            [] OTHER -> FALSE

-----------------------------------------------------------------------------
(* The form *)

\* A mutant of MaxValidity: rounded up.
MaxValidityUp(unit) == (MaxValidityDays + DaysPerUnit[unit] - 1) \div DaysPerUnit[unit]

\* maxValidity of birthdays and onboardings.
MaxValidity(unit) == MaxValidityDays \div DaysPerUnit[unit]

\* conditionIsValid and isValid, as of the last change.
IsValid(form) ==
    /\ form.proper
    /\ form.all \/ form.who # {}
    /\ form.type # ""
    /\ form.type = "seniority" => form.years > 0
    /\ form.type # "seniority" => form.limit > 0 /\ form.amount > 0
    /\ form.type \in {"birthday", "onboarding"} => form.amount <= MaxValidity(form.unit)
    /\ form.type = "gift" =>
         /\ form.from # NoGiftDay
         /\ \/ form.from >= dayRendered
            \/ original # NoRule /\ form.from = original.rule.from

BlankForm == [proper |-> FALSE, all |-> TRUE, who |-> {}, type |-> "", years |-> 1,
              limit |-> 1, amount |-> 2, unit |-> "weeks", from |-> NoGiftDay]

FormOf(saved) ==
    LET condition == ConditionOf(saved.rule)
    IN [proper |-> TRUE, all |-> saved.all, who |-> saved.who, type |-> condition.type,
        years |-> condition.years, limit |-> condition.limit, amount |-> condition.amount,
        unit |-> condition.unit, from |-> condition.from]

\* The form of a new subsidy, or of the saved one.
OpenForm ==
    /\ ~formOpen
    /\ formOpen' = TRUE /\ dayRendered' = dayOfForm /\ changedElsewhere' = FALSE
    /\ \/ original' = NoRule /\ fields' = BlankForm
       \/ special # NoRule /\ original' = special /\ fields' = FormOf(special)
    /\ UNCHANGED <<dayOfForm, special, submission, posted, fillings>>

\* Its fields, in one step, also while what it said is on its way: the picker of
\* the day offers none before today, and keeps one that was.
FillIn ==
    /\ formOpen /\ fillings < MaxFillings
    /\ fillings' = fillings + 1
    /\ \E form \in FieldSet :
         /\ form.from \in {NoGiftDay, fields.from} \/ form.from >= dayOfForm
         /\ fields' = form
    /\ dayRendered' = dayOfForm
    /\ UNCHANGED <<dayOfForm, special, formOpen, original, submission, posted,
                   changedElsewhere>>

\* handleSubmit; a form opened meanwhile is sent after the answer to the one before.
SubmitForm ==
    /\ formOpen /\ submission = "none" /\ IsValid(fields)
    /\ submission' = "waiting"
    /\ posted' = [of |-> original, form |-> fields, drawn |-> dayRendered,
                  changed |-> changedElsewhere]
    /\ UNCHANGED <<dayOfForm, dayRendered, special, formOpen, original, fields,
                   changedElsewhere, fillings>>

\* save_special_subsidy: one transaction.  A subsidy that was deactivated is not found.
ServeForm ==
    /\ submission = "waiting"
    /\ \/ /\ posted.of # NoRule /\ special = NoRule
          /\ submission' = "missing"
          /\ UNCHANGED special
       \/ /\ posted.of # NoRule => special # NoRule
          /\ LET form == posted.form
                 saved == IF posted.of = NoRule THEN NoRule ELSE special
             IN IF Accepts(form, saved, dayOfForm)
                THEN /\ special' = [rule |-> RuleOf(form), all |-> form.all,
                                    who |-> IF form.all THEN {} ELSE form.who]
                     /\ submission' = "done"
                ELSE submission' = "refused" /\ UNCHANGED special
    /\ UNCHANGED <<dayOfForm, dayRendered, formOpen, original, fields, posted,
                   changedElsewhere, fillings>>

\* onSuccess closes the form, whichever is open; an error leaves it.
FormAnswered ==
    /\ submission \in {"done", "refused", "missing"}
    /\ submission' = "none" /\ posted' = NoRule
    /\ formOpen' = (formOpen /\ submission # "done")
    /\ dayRendered' = dayOfForm
    /\ UNCHANGED <<dayOfForm, special, original, fields, changedElsewhere, fillings>>

\* Cancelled or closed, also while what it said is on its way.
CancelForm ==
    /\ formOpen
    /\ formOpen' = FALSE
    /\ UNCHANGED <<dayOfForm, dayRendered, special, original, fields, submission, posted,
                   changedElsewhere, fillings>>

\* Somebody else of HR deactivates the subsidy, or makes it one of birthdays.
ChangeElsewhere ==
    /\ special # NoRule /\ special.rule.type = "gift"
    /\ changedElsewhere' = TRUE
    /\ posted' = IF posted = NoRule THEN posted ELSE [posted EXCEPT !.changed = TRUE]
    /\ special' \in {NoRule, [special EXCEPT !.rule = RuleOf([BlankForm EXCEPT
                                                               !.type = "birthday"])]}
    /\ UNCHANGED <<dayOfForm, dayRendered, formOpen, original, fields, submission, fillings>>

FormDayPasses ==
    /\ dayOfForm < LastFormDay
    /\ dayOfForm' = dayOfForm + 1
    /\ UNCHANGED <<dayRendered, special, formOpen, original, fields, submission, posted,
                   changedElsewhere, fillings>>

-----------------------------------------------------------------------------
\* There is no special subsidy, or a gift that started before today.
SpecialInit ==
    /\ dayOfForm = FirstDay /\ dayRendered = FirstDay
    /\ special \in {NoRule} \cup
         {[rule |-> RuleOf([BlankForm EXCEPT !.type = "gift", !.from = day]),
           all |-> TRUE, who |-> {}] : day \in {past \in GiftDays : past < FirstDay}}
    /\ formOpen = FALSE /\ original = NoRule /\ fields = BlankForm
    /\ submission = "none" /\ posted = NoRule /\ changedElsewhere = FALSE /\ fillings = 0

SpecialNext ==
    \/ OpenForm \/ FillIn \/ SubmitForm \/ ServeForm \/ FormAnswered \/ CancelForm
    \/ ChangeElsewhere \/ FormDayPasses

SpecialSpec == SpecialInit /\ [][SpecialNext]_specialVars

-----------------------------------------------------------------------------
(* Properties *)

SpecialTypeOK ==
    /\ dayOfForm \in FirstDay..LastFormDay /\ dayRendered \in FirstDay..dayOfForm
    /\ special # NoRule => special.rule.type \in Conditions
    /\ original # NoRule => original.rule.type \in Conditions
    /\ formOpen \in BOOLEAN /\ changedElsewhere \in BOOLEAN
    /\ fields.type \in Conditions \cup {""} /\ fields.unit \in DurationUnits
    /\ submission \in {"none", "waiting", "done", "refused", "missing"}
    /\ posted = NoRule <=> submission = "none"
    /\ fillings \in 0..MaxFillings

\* What the form lets go the server takes, in every unit and at every limit, unless a day
\* went by since the form was drawn or somebody else changed the subsidy.
FormTakesWhatTheServerTakes ==
    submission = "refused" => posted.drawn < dayOfForm \/ posted.changed

\* A subsidy whose form is opened and sent as it is stays as it was: the amount and unit
\* the server gives back lead to the same days, or to the same last date, month ends
\* included (special_condition against special_rule_attributes).
SameWhenSavedUnchanged == special # NoRule => RuleOf(ConditionOf(special.rule)) = special.rule

\* Form and server have the same idea of a special subsidy, there and back.
FormAndServerAgree == FormTakesWhatTheServerTakes /\ SameWhenSavedUnchanged
=============================================================================
