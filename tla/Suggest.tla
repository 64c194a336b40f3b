-------------------------------- MODULE Suggest --------------------------------
(***************************************************************************)
(* The matching of bank lines to recorded payments: which pairs are within *)
(* the limits, how each is scored, and which are suggested, tied or left.  *)
(*                                                                         *)
(* A line is [id, day, amount, named], "named" telling whether its text    *)
(* holds the tab's name or a participant's; a payment is [seq, day,        *)
(* amount, method].  Days and amounts are numbers.                         *)
(***************************************************************************)
EXTENDS Integers, FiniteSets

Distance(a, b) == IF a < b THEN b - a ELSE a - b

Within(low, n, high) == LET raised == IF n < low THEN low ELSE n
                        IN  IF raised > high THEN high ELSE raised

(* The rows of the settings: days, a percentage, and amounts. *)
SettingsRows ==
  [window : Int, percent : Int, cap : Int, floor : Int, min : Int, names : BOOLEAN]

(* What the setup page refuses to save. *)
Valid(set) ==
  /\ set.window \in 0 .. 60
  /\ set.percent \in 0 .. 100
  /\ set.cap \in 0 .. 1000000
  /\ set.floor \in 0 .. 10000
  /\ set.floor <= set.cap
  /\ set.min \in 0 .. 1000000

(* The difference allowed for a recorded amount. *)
Tolerance(recorded, set) ==
  Within(set.floor, (recorded * set.percent) \div 100, set.cap)

InLimits(line, pay, set) ==
  /\ Distance(line.day, pay.day) <= set.window
  /\ Distance(line.amount, pay.amount) <= Tolerance(pay.amount, set)

Score(line, pay, set) ==
  LET off    == Distance(line.amount, pay.amount)
      tol    == Tolerance(pay.amount, set)
      days   == Distance(line.day, pay.day)
      amount == IF off = 0 THEN 100 ELSE (60 * (tol - off)) \div tol
      date   == IF set.window = 0 THEN 30
                ELSE (30 * (set.window - days)) \div set.window
      name   == IF set.names /\ line.named THEN 40 ELSE 0
      method == IF pay.method = "transfer" THEN 10
                ELSE IF pay.method = "other" THEN 5 ELSE 0
  IN  amount + date + name + method

Offered(lines, set) == {l \in lines : l.amount >= set.min}

Pairs(lines, pays, set) ==
  {[line  |-> lp[1].id, seq |-> lp[2].seq,
    exact |-> lp[1].amount = lp[2].amount,
    score |-> Score(lp[1], lp[2], set)] :
      lp \in {x \in Offered(lines, set) \X pays : InLimits(x[1], x[2], set)}}

Touch(p, q) == p.line = q.line \/ p.seq = q.seq

(* The order the pairs are sorted in. *)
Before(p, q) ==
  \/ p.score > q.score
  \/ p.score = q.score /\ p.line < q.line
  \/ p.score = q.score /\ p.line = q.line /\ p.seq < q.seq

First(pairs) == CHOOSE p \in pairs : \A q \in pairs \ {p} : Before(p, q)
Last(pairs)  == CHOOSE p \in pairs : \A q \in pairs \ {p} : Before(q, p)

(* Mutant of TieGroup: the first of equal pairs is simply taken.           *)
NoTies(pairs, top) == {top}

(* The unused pairs of top's score that share lines or payments with it,   *)
(* one through another; none is more steps away than there are pairs.      *)
TieGroup(pairs, top) ==
  LET same == {p \in pairs : p.score = top.score}
      reached[n \in 0 .. Cardinality(same)] ==
        IF n = 0 THEN {top}
        ELSE LET nearer == reached[n - 1]
             IN  {p \in same : \E q \in nearer : Touch(p, q)}
  IN  reached[Cardinality(same)]

(* The best unused pair is taken when it stands alone, and its whole group *)
(* is set apart when it does not; either way its lines and payments are    *)
(* used.                                                                   *)
PlaceFirst(res) ==
  LET group == TieGroup(res.left, First(res.left))
      left  == {p \in res.left : \A q \in group : ~ Touch(p, q)}
  IN  IF Cardinality(group) = 1
      THEN [left |-> left, suggestions |-> res.suggestions \cup group, ties |-> res.ties]
      ELSE [left |-> left, suggestions |-> res.suggestions, ties |-> res.ties \cup {group}]

(* Each round uses a pair at least. *)
Place(pairs) ==
  LET after[n \in 0 .. Cardinality(pairs)] ==
        IF n = 0 THEN [left |-> pairs, suggestions |-> {}, ties |-> {}]
        ELSE LET res == after[n - 1]
             IN  IF res.left = {} THEN res ELSE PlaceFirst(res)
  IN  after[Cardinality(pairs)]

LinesOf(group) == {p.line : p \in group}
SeqsOf(group)  == {p.seq : p \in group}

(* Every pair of a result that was placed, suggested or tied.              *)
Placed(res) == res.suggestions \cup UNION res.ties

Suggestions(lines, pays, set) ==
  LET res == Place(Pairs(lines, pays, set))
  IN  [suggestions       |-> res.suggestions,
       ties              |-> res.ties,
       unmatchedLines    |-> {l.id : l \in Offered(lines, set)} \ LinesOf(Placed(res)),
       unmatchedPayments |-> {p.seq : p \in pays} \ SeqsOf(Placed(res))]

(***************************************************************************)
(* What a reader of the page may take from a suggestion.                   *)
(***************************************************************************)

(* Every pair within the limits lost, if it lost, to a pair of one of its  *)
(* ends that scored at least as much; nothing is used twice; a suggestion  *)
(* has no rival of its own score except one whose other end was placed     *)
(* higher; and a tie is two or more pairs of one score, so no choice       *)
(* between equals is ever made by the order of ids.                        *)
Fair(lines, pays, set) ==
  LET res    == Suggestions(lines, pays, set)
      pairs  == Pairs(lines, pays, set)
      placed == Placed(res)
      groups == {{p} : p \in res.suggestions} \cup res.ties
  IN  /\ \A q \in pairs : \E p \in placed : Touch(p, q) /\ p.score >= q.score
      /\ \A g, h \in groups : g # h => /\ LinesOf(g) \cap LinesOf(h) = {}
                                       /\ SeqsOf(g) \cap SeqsOf(h) = {}
      /\ \A p \in res.suggestions : \A q \in pairs \ {p} :
           Touch(p, q) /\ q.score = p.score =>
             \E r \in placed \ {p} : Touch(r, q) /\ r.score > q.score
      /\ \A g \in res.ties :
           /\ Cardinality(g) >= 2
           /\ \A p, q \in g : p.score = q.score
=============================================================================
