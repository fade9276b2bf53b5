------------------------------ MODULE Calendar ------------------------------
(***************************************************************************)
(* The business calendar: app/models/calendar.rb, a Ruby class without     *)
(* state whose methods derive every date rule from today's date.           *)
(*                                                                         *)
(* A date is a day number.  Its weekday is Ruby's Date#wday: 0 is Sunday,  *)
(* 1 Monday, 5 Friday and 6 Saturday, so the day numbers are anchored on a *)
(* Sunday.  A month is given by its last day: no rule looks at anything    *)
(* else of it.                                                             *)
(***************************************************************************)
EXTENDS Integers

Sunday == 0
Monday == 1
Friday == 5
Saturday == 6

Wday(d) == d % 7
OnWeekend(d) == Wday(d) \in {Sunday, Saturday}

\* Date#beginning_of_week(:monday): the Monday on or before d.
BeginningOfWeek(d) == d - ((Wday(d) - Monday) % 7)

\* Date#next_occurring: the first w strictly after d.
NextOccurring(d, w) == d + 1 + ((w - Wday(d + 1)) % 7)

\* Mutant of OrderStart: orders close the day before.
OrderStartTomorrow(today) ==
    IF OnWeekend(today) THEN NextOccurring(today, Monday) ELSE today + 1

\* The first day an employee can order for.
OrderStart(today) ==
    IF OnWeekend(today) THEN NextOccurring(today, Monday) ELSE today

\* The week the employee sees.
ScheduleWeekRange(today) ==
    LET start == IF OnWeekend(today) THEN NextOccurring(today, Monday)
                                     ELSE BeginningOfWeek(today)
    IN  start..NextOccurring(start, Friday)

\* Mutant of AllowedOrderDates: on a Friday, the next one is a week away.
AllowedOrderDatesPastFriday(today) ==
    OrderStart(today)..NextOccurring(OrderStart(today), Friday)

\* The dates the employee can order for.
AllowedOrderDates(today) ==
    LET start == OrderStart(today)
    IN  start..(IF Wday(start) = Friday THEN start ELSE NextOccurring(start, Friday))

\* The last date a provider can publish for: Friday of next week.
MaximumPublishDate(today) == BeginningOfWeek(today) + 7 + 4

LastSaturday(monthEnd) == monthEnd - ((Wday(monthEnd) - Saturday) % 7)

\* Mutants of MonthlyBenefitAssignment: without the month that ends on a Friday,
\* and with the last day of the month whatever it is.
AssignmentOnSaturday(monthEnd) == LastSaturday(monthEnd)
AssignmentOnLastDay(monthEnd) == monthEnd

\* The day of the month on which next month's monthly benefits are assigned.
MonthlyBenefitAssignment(monthEnd) ==
    IF Wday(monthEnd) = Friday THEN monthEnd ELSE LastSaturday(monthEnd)

\* Mutant of ConfigurationCutoff: the day of the assignment itself.
CutoffOnAssignment(monthEnd) == MonthlyBenefitAssignment(monthEnd)

\* The last day on which next month's benefits can still be configured.
ConfigurationCutoff(monthEnd) == MonthlyBenefitAssignment(monthEnd) - 1

\* Mutant of ConfigurableMonth: the comparison the other way round.
ConfigurableMonthSwapped(today, monthEnd) ==
    IF today <= ConfigurationCutoff(monthEnd) THEN 2 ELSE 1

\* How many months ahead a configuration made today applies.
ConfigurableMonth(today, monthEnd) ==
    IF today <= ConfigurationCutoff(monthEnd) THEN 1 ELSE 2

=============================================================================
