------------------------------ MODULE Statements ------------------------------
(***************************************************************************)
(* What importing bank statements promises, whatever the order of the      *)
(* files, however they overlap and however often each is sent: of every    *)
(* line, as many are kept as the file that shows most of them shows.       *)
(***************************************************************************)
EXTENDS Naturals

CONSTANTS
  LineKeys,  \* what a line can say
  Contents   \* how many of each line a file can show: functions on LineKeys

VARIABLE kept  \* how many of each line are kept

Larger(a, b) == IF a > b THEN a ELSE b

Init == kept = [k \in LineKeys |-> 0]

Absorb(c) == kept' = [k \in LineKeys |-> Larger(kept[k], c[k])]

Next == \E c \in Contents : Absorb(c)

Spec == Init /\ [][Next]_kept
=============================================================================
