----------------------------- MODULE MCInterest -----------------------------
EXTENDS Interest

(* The anchor is the last of December, and the year after it a leap year. *)
ScheduleDef ==
  [kind |-> "monthly_day", anchor |-> Date(2023, 12, 31), billing |-> "arrears", interval |-> 1]

Terms0Def == [rate |-> 12000, term |-> 3, payment |-> 20]

(* A day before any is due, one between the first two, and one on the third. *)
DaysDef == <<Date(2024, 1, 10), Date(2024, 2, 10), Date(2024, 3, 31)>>

(* Ahead of the first two days, and before the period of the last. *)
BankDatesDef == {Date(2024, 2, 12)}

DifferencesDef == {4, -8}

Symmetry == Permutations(Readers)
=============================================================================
