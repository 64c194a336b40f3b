------------------------------ MODULE Calendar ------------------------------
(***************************************************************************)
(* The recurrences of a tab on the calendar: where each cycle starts, ends *)
(* and falls due. Dates are civil, without a time or a zone, and every     *)
(* cycle is computed from the anchor.                                      *)
(***************************************************************************)
EXTENDS Integers, FiniteSets, Functions

CONSTANTS
  Schedule,    \* the tab's schedule [kind, anchor, billing, interval]
  MaxPeriods   \* how many cycles one call looks at

Date(y, m, d) == [year |-> y, month |-> m, day |-> d]

Leap(y) == y % 4 = 0 /\ (y % 100 # 0 \/ y % 400 = 0)

DaysIn(y, m) ==
  CASE m \in {4, 6, 9, 11} -> 30
    [] m = 2               -> IF Leap(y) THEN 29 ELSE 28
    [] OTHER               -> 31

ValidDate(d) == d.year \in Nat \ {0} /\ d.month \in 1 .. 12 /\ d.day \in 1 .. DaysIn(d.year, d.month)

(* Days since the calendar began: dates compare as these numbers do. *)
DayNumber(d) ==
  365 * (d.year - 1) + (d.year - 1) \div 4 - (d.year - 1) \div 100 + (d.year - 1) \div 400
    + SumFunction([m \in 1 .. d.month - 1 |-> DaysIn(d.year, m)])
    + d.day

Tomorrow(d) ==
  CASE d.day < DaysIn(d.year, d.month) -> [d EXCEPT !.day = @ + 1]
    [] d.day = DaysIn(d.year, d.month) /\ d.month < 12 -> Date(d.year, d.month + 1, 1)
    [] OTHER -> Date(d.year + 1, 1, 1)

AddDays(d, n) ==
  LET later[i \in 0 .. n] == IF i = 0 THEN d ELSE Tomorrow(later[i - 1])
  IN later[n]

(* A year and month, n months on. *)
AddMonths(y, m, n) ==
  LET total == y * 12 + (m - 1) + n IN <<total \div 12, (total % 12) + 1>>

Lesser(a, b) == IF a <= b THEN a ELSE b

-----------------------------------------------------------------------------
(* A recurrence, its interval, an anchor, and when in a cycle the charge
   lands. *)
Every == IF Schedule.interval < 1 THEN 1 ELSE Schedule.interval

Valid(s) ==
  /\ s.kind \in {"weekly", "biweekly", "monthly_day", "monthly_last"}
  /\ s.billing \in {"advance", "arrears"}
  /\ ValidDate(s.anchor)
  /\ s.interval \in 0 .. 104

(* An old two-week schedule becomes every second week, and a last-day anchor
   moves to the last day of its month. *)
Normalize(s) ==
  LET billed == IF s.billing = "" THEN [s EXCEPT !.billing = "advance"] ELSE s
      stepped == CASE s.kind = "biweekly" -> [billed EXCEPT !.kind = "weekly", !.interval = 2]
                   [] s.kind # "biweekly" /\ s.interval < 1 -> [billed EXCEPT !.interval = 1]
                   [] OTHER -> billed
  IN IF s.kind = "monthly_last" /\ ValidDate(s.anchor)
     THEN [stepped EXCEPT !.anchor.day = DaysIn(s.anchor.year, s.anchor.month)]
     ELSE stepped

(* A schedule is stored as it was normalized. *)
ASSUME ScheduleAssumption ==
  /\ Schedule \in [kind : STRING, anchor : [year : Nat, month : 1 .. 12, day : 1 .. 31],
                   billing : STRING, interval : Nat]
  /\ Valid(Schedule) /\ Normalize(Schedule) = Schedule
  /\ MaxPeriods \in Nat

(* The fraction of a year that a cycle covers. *)
RateBasis == IF Schedule.kind = "weekly" THEN <<7 * Every, 365>> ELSE <<Every, 12>>

(* Year and month of cycle n of a monthly schedule. *)
MonthOf(n) == AddMonths(Schedule.anchor.year, Schedule.anchor.month, Every * n)

(* Mutant of Nth: the day is that of the cycle before. *)
NthChained(n) ==
  LET day[i \in 0 .. n] == IF i = 0 THEN Schedule.anchor.day
                           ELSE Lesser(day[i - 1], DaysIn(MonthOf(i)[1], MonthOf(i)[2]))
  IN IF Schedule.kind = "weekly" THEN AddDays(Schedule.anchor, 7 * Every * n)
     ELSE Date(MonthOf(n)[1], MonthOf(n)[2], day[n])

(* The first day of cycle n. A day its month does not have is clamped, and
   only for that month. *)
Nth(n) ==
  LET last == DaysIn(MonthOf(n)[1], MonthOf(n)[2])
  IN CASE Schedule.kind = "weekly"       -> AddDays(Schedule.anchor, 7 * Every * n)
       [] Schedule.kind = "monthly_day"  ->
            Date(MonthOf(n)[1], MonthOf(n)[2], Lesser(Schedule.anchor.day, last))
       [] Schedule.kind = "monthly_last" -> Date(MonthOf(n)[1], MonthOf(n)[2], last)

Period(n) ==
  [start |-> Nth(n), end |-> Nth(n + 1),
   due   |-> IF Schedule.billing = "arrears" THEN Nth(n + 1) ELSE Nth(n)]

Due == [n \in 0 .. MaxPeriods - 1 |-> DayNumber(Period(n).due)]

(* The cycles due by a day: those before the first that is not, and no more
   than the cap. *)
DueThrough(day) == {n \in DOMAIN Due : \A i \in 0 .. n : Due[i] <= day}

(* The first due date that has not passed; the cap if there is none. *)
NextDueIndex(day) ==
  LET ahead == {n \in DOMAIN Due : Due[n] >= day}
  IN IF ahead = {} THEN MaxPeriods ELSE CHOOSE n \in ahead : \A m \in ahead : n <= m
=============================================================================
