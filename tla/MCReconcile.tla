---------------------------- MODULE MCReconcile ----------------------------
EXTENDS Reconcile, TLC

CONSTANTS l1, l2

(* Two deposits that differ by less than the tolerance. *)
TwoLines == (l1 :> 2) @@ (l2 :> 3)

Symmetry == Permutations(Requests)
=============================================================================
