----------------------------- MODULE MCAccrual -----------------------------
EXTENDS Accrual, TLC

Symmetry == Permutations(Readers)

EveryDay(rule) == [anchor |-> 0, step |-> 1, billing |-> rule]

(* One grid of cycles, billed either way. *)
BothRules == {EveryDay("advance"), EveryDay("arrears")}
=============================================================================
