---------------------------- MODULE BusinessDays ----------------------------
(***************************************************************************)
(* The demo's task b: the canned solver (lib/solvers/next-business-day)    *)
(* knows the public holidays only, the hidden suite's calendar has two     *)
(* more.  A date is its day of 2026, 1 January being day 1, a Thursday.    *)
(***************************************************************************)
EXTENDS Integers, FiniteSets

Months == <<31, 28, 31, 30, 31, 30, 31, 31, 30, 31, 30, 31>>
DayOf[m \in 1..13, d \in 1..31] == IF m = 1 THEN d ELSE DayOf[m - 1, d] + Months[m - 1]
Year == 1..DayOf[13, 1]    \* New Year's Day of 2027 included

Sunday == 0
Saturday == 6
Weekday(day) == (day + 3) % 7

NATIONAL_HOLIDAYS_IN == {DayOf[1, 26], DayOf[8, 15], DayOf[10, 2], DayOf[12, 25]}
HiddenHolidays == {DayOf[1, 15], DayOf[8, 26]}    \* Pongal, Onam

IsBusinessDay(day, holidays) == Weekday(day) \notin {Sunday, Saturday} /\ day \notin holidays

\* Seeded fault: what follows a weekend is not looked at.
SkipsOnce(day) ==
    IF IsBusinessDay(day + 1, NATIONAL_HOLIDAYS_IN) THEN day + 1
    ELSE IF Weekday(day + 1) = Saturday THEN day + 3 ELSE day + 2

\* The solver: a day later, again while that is a weekend or a public holiday.
NextBusinessDay(day) ==
    LET later[d \in Nat] == IF IsBusinessDay(d, NATIONAL_HOLIDAYS_IN) THEN d ELSE later[d + 1]
    IN  later[day + 1]

-----------------------------------------------------------------------------
(* The hidden suite.                                                       *)

Case(from, hops, expected) == [from |-> from, hops |-> hops, expected |-> expected]
HiddenCases ==
    {Case(DayOf[1, 23], 1, DayOf[1, 27]),   Case(DayOf[8, 14], 1, DayOf[8, 17]),
     Case(DayOf[10, 1], 1, DayOf[10, 5]),   Case(DayOf[12, 24], 1, DayOf[12, 28]),
     Case(DayOf[12, 31], 1, DayOf[13, 1]),
     Case(DayOf[1, 14], 1, DayOf[1, 16]),   Case(DayOf[1, 13], 2, DayOf[1, 16]),
     Case(DayOf[8, 25], 1, DayOf[8, 27]),   Case(DayOf[8, 24], 2, DayOf[8, 27]),
     Case(DayOf[8, 21], 3, DayOf[8, 27])}

Walk(from, hops) ==
    LET at[n \in Nat] == IF n = 0 THEN from ELSE NextBusinessDay(at[n - 1]) IN at[hops]
Passes(case) == Walk(case.from, case.hops) = case.expected
PassedByTheSolver == Cardinality({case \in HiddenCases : Passes(case)})
=============================================================================
