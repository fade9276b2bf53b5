---------------------------- MODULE MCOrderBook -----------------------------
(***************************************************************************)
(* Instances of OrderBook.  Day 4 is a Thursday, day 5 the Friday after it *)
(* and day 6 a Saturday, so an order is placed before its delivery day, on *)
(* it, or never.  m1 is served on s1 and m2 on s2.                         *)
(***************************************************************************)
EXTENDS OrderBook, TLC

CONSTANTS c1, c2, k1, p1, m1, m2, s1, s2, o1, o2, o3

MCCompanyOf == [c \in Consumers |-> k1]
MCProviderOf == [m \in Menus |-> p1]
MCMenuOf == [s \in Schedules |-> IF s = s1 THEN m1 ELSE m2]

MCThursday == [s \in Schedules |-> 4]
MCFriday == [s \in Schedules |-> 5]
MCMonthEndDates == [s \in Schedules |-> IF s = s1 THEN 4 ELSE 5]

MCStock1 == [s \in Schedules |-> 1]
MCStock3 == [s \in Schedules |-> 3]

MCOneMonth == [d \in Days |-> 1]
MCMonthEnd4 == [d \in Days |-> IF d <= 4 THEN 1 ELSE 2]
MCMonthEnd5 == [d \in Days |-> IF d <= 5 THEN 1 ELSE 2]

MCClosable == {<<p1, 5>>}

Symmetry == Permutations(OrderIds) \cup Permutations(Consumers)
=============================================================================
