------------------------- MODULE BusinessDaysProofs -------------------------
(***************************************************************************)
(* The claims of app/models/calendar.rb, for every day and any succession  *)
(* of month lengths.  Everything follows from linear arithmetic modulo 7   *)
(* once the date is known to be inside a month of 28 to 31 days (DaysTypeOK).  *)
(***************************************************************************)
EXTENDS BusinessDays, TLAPS

USE DEF Sunday, Monday, Friday, Saturday

\* The date stays inside its month.
THEOREM TypeCorrect == DaysSpec => []DaysTypeOK
<1>1. DaysInit => DaysTypeOK
  BY DEF DaysInit, DaysTypeOK, MonthLengths
<1>2. DaysTypeOK /\ [DaysNext]_daysVars => DaysTypeOK'
  BY LastDayAssumption DEF DaysTypeOK, DaysNext, NextDay, NextMonth, daysVars, MonthLengths
<1>3. QED BY <1>1, <1>2, PTL DEF DaysSpec

\* The assignment day is one of the last seven days of the month.
LEMMA AssignmentInLastWeek ==
    ASSUME NEW end \in Int
    PROVE  MonthlyBenefitAssignment(end) \in (end - 6)..end
BY SMTT(30) DEF MonthlyBenefitAssignment, LastSaturday, Wday

\* On any date of the month, whoever can order for the day after its end does
\* so on or after the assignment day.
LEMMA OrdersFollowAssignment ==
    ASSUME NEW day \in Int, NEW end \in Int, day <= end,
           end + 1 \in AllowedOrderDates(day)
    PROVE  MonthlyBenefitAssignment(end) <= day
BY SMTT(60) DEF AllowedOrderDates, OrderStart, NextOccurring,
   MonthlyBenefitAssignment, LastSaturday, OnWeekend, Wday

\* On the last Saturday of a month that ends on another day, Friday excepted,
\* the week that holds the first of next month is open.
LEMMA SaturdayOpensNextMonth ==
    ASSUME NEW end \in Int, Wday(end) # Friday, LastSaturday(end) # end
    PROVE  end + 1 \in AllowedOrderDates(LastSaturday(end))
<1> DEFINE s == LastSaturday(end)
<1>1. s \in (end - 6)..(end - 1) /\ Wday(s) = Saturday /\ end # s + 6
  BY SMTT(30) DEF LastSaturday, Wday
<1> HIDE DEF s
<1>2. OrderStart(s) = s + 2 /\ Wday(s + 2) = Monday
  BY <1>1, SMTT(30) DEF OrderStart, OnWeekend, NextOccurring, Wday
<1>3. NextOccurring(s + 2, Friday) = s + 6
  BY <1>1, <1>2, SMTT(30) DEF NextOccurring, Wday
<1>4. AllowedOrderDates(s) = (s + 2)..(s + 6)
  BY <1>2, <1>3 DEF AllowedOrderDates
<1>5. end + 1 \in (s + 2)..(s + 6)
  BY <1>1
<1> QED BY <1>4, <1>5 DEF s

\* Nobody orders for next month before its benefits are assigned
\* (calendar.rb:41-44), for every date.
THEOREM AssignmentPrecedes == DaysSpec => []AssignmentPrecedesOrders
<1>1. DaysTypeOK => today \in Int /\ monthEnd \in Int /\ today <= monthEnd
  BY DEF DaysTypeOK
<1>2. DaysTypeOK => AssignmentPrecedesOrders
  BY <1>1, OrdersFollowAssignment DEF AssignmentPrecedesOrders, FirstOfNextMonth
<1>3. QED BY <1>2, TypeCorrect, PTL

\* The assignment day is the latest that precedes every order for next month
\* (calendar.rb:45): the orders open on that very day.
THEOREM AssignmentLatest == DaysSpec => []AssignmentIsLatest
<1>1. ASSUME DaysTypeOK PROVE AssignmentIsLatest
  <2> DEFINE assignment == MonthlyBenefitAssignment(monthEnd)
  <2>1. assignment \in (monthEnd - 6)..monthEnd
    BY <1>1, AssignmentInLastWeek DEF DaysTypeOK
  <2>2. SUFFICES ASSUME NEW day \in (assignment + 1)..monthEnd
                 PROVE  /\ assignment \in monthStart..(day - 1)
                        /\ FirstOfNextMonth \in AllowedOrderDates(assignment)
    BY DEF AssignmentIsLatest
  <2>3. assignment \in monthStart..(day - 1)
    BY <1>1, <2>1 DEF DaysTypeOK
  <2>4. assignment # monthEnd
    BY <2>1, <2>2
  <2>5. Wday(monthEnd) # Friday /\ assignment = LastSaturday(monthEnd)
    BY <2>4 DEF MonthlyBenefitAssignment
  <2>6. FirstOfNextMonth \in AllowedOrderDates(assignment)
    BY <1>1, <2>4, <2>5, SaturdayOpensNextMonth DEF DaysTypeOK, FirstOfNextMonth
  <2>7. QED BY <2>3, <2>6
<1>2. QED BY <1>1, TypeCorrect, PTL

\* The three windows of calendar.rb:13-32 agree on every date.
THEOREM OrderableShown == DaysSpec => []OrderableIsShownAndPublishable
<1>1. DaysTypeOK => OrderableIsShownAndPublishable
  BY SMTT(60) DEF DaysTypeOK, OrderableIsShownAndPublishable, AllowedOrderDates, OrderStart,
     ScheduleWeekRange, MaximumPublishDate, BeginningOfWeek, NextOccurring, OnWeekend, Wday
<1>2. QED BY <1>1, TypeCorrect, PTL

\* Every month is configurable for a while and none is skipped.
THEOREM MonthsConfigurable == DaysSpec => EveryMonthIsConfigurable
<1>1. DaysTypeOK /\ [DaysNext]_daysVars =>
        [ConfiguredMonth' \in {ConfiguredMonth, ConfiguredMonth + 1}]_daysVars
  <2> SUFFICES ASSUME DaysTypeOK, DaysNext
               PROVE  ConfiguredMonth' \in {ConfiguredMonth, ConfiguredMonth + 1}
    BY DEF daysVars
  <2> DEFINE assigned == MonthlyBenefitAssignment(monthEnd)
             assignedNext == MonthlyBenefitAssignment(monthEnd')
  <2>1. assigned \in (monthEnd - 6)..monthEnd
    BY AssignmentInLastWeek DEF DaysTypeOK
  <2>2. CASE NextDay
    <3>1. monthEnd' = monthEnd
      BY <2>2 DEF NextDay
    <3>2. ConfiguredMonth' = monthIndex' + (IF today' <= assigned - 1 THEN 1 ELSE 2)
      BY <3>1 DEF ConfiguredMonth, ConfigurableMonth, ConfigurationCutoff
    <3>3. ConfiguredMonth = monthIndex + (IF today <= assigned - 1 THEN 1 ELSE 2)
      BY DEF ConfiguredMonth, ConfigurableMonth, ConfigurationCutoff
    <3> HIDE DEF assigned
    <3> QED BY <2>1, <2>2, <3>2, <3>3 DEF NextDay, DaysTypeOK
  <2>3. CASE NextMonth
    <3>1. monthEnd' \in Int /\ monthEnd' >= monthEnd + 28
      BY <2>3 DEF NextMonth, DaysTypeOK, MonthLengths
    <3>2. assignedNext \in (monthEnd' - 6)..monthEnd'
      BY <3>1, AssignmentInLastWeek
    <3>3. ConfiguredMonth' = monthIndex' + (IF today' <= assignedNext - 1 THEN 1 ELSE 2)
      BY DEF ConfiguredMonth, ConfigurableMonth, ConfigurationCutoff
    <3>4. ConfiguredMonth = monthIndex + (IF today <= assigned - 1 THEN 1 ELSE 2)
      BY DEF ConfiguredMonth, ConfigurableMonth, ConfigurationCutoff
    <3> HIDE DEF assigned, assignedNext
    <3> QED BY <2>1, <2>3, <3>1, <3>2, <3>3, <3>4 DEF NextMonth, DaysTypeOK
  <2>4. QED BY <2>2, <2>3 DEF DaysNext
<1>2. QED BY <1>1, TypeCorrect, PTL DEF DaysSpec, EveryMonthIsConfigurable

\* The order window moves forward without gaps (calendar.rb:22-27).
THEOREM WindowMovesForward == DaysSpec => WindowNeverRetracts
<1>1. DaysTypeOK /\ [DaysNext]_daysVars =>
        [\A day \in AllowedOrderDates(today) :
           day >= today' => day \in AllowedOrderDates(today')]_daysVars
  <2> SUFFICES ASSUME DaysTypeOK, DaysNext, NEW day \in AllowedOrderDates(today), day >= today'
               PROVE  day \in AllowedOrderDates(today')
    BY DEF daysVars
  <2>1. today \in Int /\ today' = today + 1
    BY DEF DaysTypeOK, DaysNext, NextDay, NextMonth
  <2> QED
    BY <2>1, SMTT(60) DEF AllowedOrderDates, OrderStart, NextOccurring, OnWeekend, Wday
<1>2. QED BY <1>1, TypeCorrect, PTL DEF DaysSpec, WindowNeverRetracts

\* The benefits of a month are assigned before anybody orders for it, on the last
\* day that allows it, and never before the configuration that reaches them
\* closes: the cutoff is the day before (calendar.rb:34-66).
THEOREM MonthsAssignedInTime == DaysSpec => []AssignedInTime
<1>1. DaysTypeOK => ConfigurableIsUnassigned
  <2> SUFFICES ASSUME DaysTypeOK PROVE ConfigurableIsUnassigned
    OBVIOUS
  <2>1. MonthlyBenefitAssignment(monthEnd) \in Int /\ today \in Int
    BY AssignmentInLastWeek DEF DaysTypeOK
  <2> QED BY <2>1
        DEF ConfigurableIsUnassigned, ConfigurableMonth, ConfigurationCutoff
<1>2. QED
  BY <1>1, TypeCorrect, AssignmentPrecedes, AssignmentLatest, PTL
     DEF AssignedInTime
=============================================================================
