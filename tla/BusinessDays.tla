---------------------------- MODULE BusinessDays ----------------------------
(***************************************************************************)
(* The calendar at work: one business day after another, through months of *)
(* every length that start on any weekday.  The state is the date the      *)
(* system reads as Date.current and the month it falls in; the properties  *)
(* are what app/models/calendar.rb promises of its rules as days go by.    *)
(***************************************************************************)
EXTENDS Calendar

CONSTANT LastDay    \* bound: the last day explored

ASSUME LastDayAssumption == LastDay \in Int

VARIABLES today, monthIndex, monthStart, monthEnd

daysVars == <<today, monthIndex, monthStart, monthEnd>>

MonthLengths == 28..31

DaysInit ==
    /\ monthStart \in 0..6
    /\ \E length \in MonthLengths : monthEnd = monthStart + length - 1
    /\ today = monthStart
    /\ monthIndex = 0

\* Mutant of NextDay: the month does not end.
NextDayForever ==
    /\ today < LastDay
    /\ today' = today + 1
    /\ UNCHANGED <<monthIndex, monthStart, monthEnd>>

\* Midnight inside a month.
NextDay ==
    /\ today < LastDay
    /\ today < monthEnd
    /\ today' = today + 1
    /\ UNCHANGED <<monthIndex, monthStart, monthEnd>>

\* Midnight of the last day of the month.
NextMonth ==
    /\ today < LastDay
    /\ today = monthEnd
    /\ today' = today + 1
    /\ monthIndex' = monthIndex + 1
    /\ monthStart' = monthEnd + 1
    /\ \E length \in MonthLengths : monthEnd' = monthEnd + length

DaysNext == NextDay \/ NextMonth

DaysSpec == DaysInit /\ [][DaysNext]_daysVars

-----------------------------------------------------------------------------

\* The date is inside its month, and a month has 28 to 31 days.
DaysTypeOK ==
    /\ monthIndex \in Nat
    /\ {today, monthStart, monthEnd} \subseteq Int
    /\ monthStart <= today /\ today <= monthEnd
    /\ monthEnd - monthStart \in 27..30

FirstOfNextMonth == monthEnd + 1

\* "siempre que se cumple que allowed_order_dates.include?(first of next month)
\* entonces también se cumple que monthly_benefit_assignment <= @today"
\* (calendar.rb:41-44): no employee orders for a month before the day on which
\* its monthly benefits are assigned.
AssignmentPrecedesOrders ==
    FirstOfNextMonth \in AllowedOrderDates(today) =>
        MonthlyBenefitAssignment(monthEnd) <= today

\* "Además, monthly_benefit_assignment es el mayor día de este mes que cumple
\* esto" (calendar.rb:45): on any later day of the month, somebody could
\* already have ordered for the next month on an earlier day.
AssignmentIsLatest ==
    \A day \in (MonthlyBenefitAssignment(monthEnd) + 1)..monthEnd :
        \E earlier \in monthStart..(day - 1) :
            FirstOfNextMonth \in AllowedOrderDates(earlier)

\* Whatever can be ordered is on the screen, can have been published, and is a
\* working day: calendar.rb:13-32 derive the three windows separately.
OrderableIsShownAndPublishable ==
    \A day \in AllowedOrderDates(today) :
        /\ day \in ScheduleWeekRange(today)
        /\ day <= MaximumPublishDate(today)
        /\ ~OnWeekend(day)

\* A configuration that reaches next month's benefits is made before the day
\* they are assigned (calendar.rb:56-66); afterwards it would arrive too late.
ConfigurableIsUnassigned ==
    ConfigurableMonth(today, monthEnd) = 1 =>
        today < MonthlyBenefitAssignment(monthEnd)

\* The month a configuration made today applies to.
ConfiguredMonth == monthIndex + ConfigurableMonth(today, monthEnd)

\* As days pass, the configured month neither goes back nor skips a month: every
\* month is configurable for a while (calendar.rb:67-73).
EveryMonthIsConfigurable ==
    [][ConfiguredMonth' \in {ConfiguredMonth, ConfiguredMonth + 1}]_daysVars

\* A date that could be ordered yesterday and has not passed can be ordered
\* today (calendar.rb:22-27): the window moves forward without gaps.
WindowNeverRetracts ==
    [][\A day \in AllowedOrderDates(today) :
         day >= today' => day \in AllowedOrderDates(today')]_daysVars

\* The benefits of a month are assigned in time: before anybody can order for
\* it, as late as that allows, and after the last configuration that reaches
\* them (calendar.rb:34-66).
AssignedInTime ==
    /\ AssignmentPrecedesOrders
    /\ AssignmentIsLatest
    /\ ConfigurableIsUnassigned
=============================================================================
