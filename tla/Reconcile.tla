------------------------------ MODULE Reconcile ------------------------------
(***************************************************************************)
(* Bank reconciliation: a line of a bank statement is matched with a       *)
(* payment recorded on a tab, recorded as a payment of its own, or         *)
(* ignored, and each of these can be undone from either side. Confirming a *)
(* match posts the difference between the two amounts, so that the tab     *)
(* shows what the bank shows.                                              *)
(*                                                                         *)
(* Each method of the store is one transaction, a step here: it locks the  *)
(* line (or the match) and the payment first, and the unique index on      *)
(* reverses_seq refuses a second reversal. An undo is several of them: the *)
(* ledger looks up what reconciliation ties the entry to, and acts on the  *)
(* answer later, when other requests may have changed it.                  *)
(***************************************************************************)
EXTENDS Integers, FiniteSets, Sequences, Functions

CONSTANTS
  Requests,    \* requests that undo something
  Lines,       \* lines of the imported statements
  Bank,        \* the amount of each line
  Amounts,     \* what people record, each once
  Tolerance,   \* the difference a confirmation may post
  MaxPosted,   \* bound on the entries other than reversals
  MaxMatches,  \* bound on the rows of bank_matches
  MaxReviews   \* bound on the rows of payment_reviews

ASSUME AmountsAssumption ==
  /\ Bank \in [Lines -> Nat \ {0}]
  /\ Amounts \subseteq Nat \ {0}
  /\ Tolerance \in Nat

ASSUME BoundsAssumption == MaxPosted \in Nat /\ MaxMatches \in Nat /\ MaxReviews \in Nat

VARIABLES
  lines,    \* bank_lines: the state of each, and the entry it is recorded as
  entries,  \* entries of the tab: payments, adjustments and reversals
  matches,  \* bank_matches, the undone ones included
  reviews,  \* payment_reviews: payments set aside as not in the bank
  req       \* what each undo has looked up

vars == <<lines, entries, matches, reviews, req>>

-----------------------------------------------------------------------------
Line(state, rec) == [state |-> state, rec |-> rec]

Open == Line("open", 0)

NextSeq == Cardinality(entries) + 1

(* An entry posted by reconciliation carries a key with its prefix. *)
Entry(seq, kind, amount, recon) ==
  [seq |-> seq, kind |-> kind, amount |-> amount, recon |-> recon, reverses |-> 0]

AmountOf(s) == (CHOOSE e \in entries : e.seq = s).amount

Reversal(seq, target) ==
  [seq |-> seq, kind |-> "reversal", amount |-> -AmountOf(target), recon |-> FALSE,
   reverses |-> target]

Reversals(targets) == {Reversal(Cardinality(entries) + i, targets[i]) : i \in DOMAIN targets}

Reversed(s) == \E e \in entries : e.reverses = s

Standing == {m \in matches : ~m.undone}

Posted == {e \in entries : e.kind # "reversal"}

HasRoom == Cardinality(Posted) < MaxPosted

Idle == [pc |-> "idle"]

Init ==
  /\ lines = [l \in Lines |-> Open]
  /\ entries = {}
  /\ matches = {}
  /\ reviews = {}
  /\ req = [q \in Requests |-> Idle]

(* Somebody records a payment on the tab's page. There is one form for each
   amount, and a form posts once. *)
Pay ==
  /\ HasRoom
  /\ \E a \in Amounts :
       /\ \A e \in Posted : e.amount = a => e.recon
       /\ entries' = entries \cup {Entry(NextSeq, "payment", a, FALSE)}
  /\ UNCHANGED <<lines, matches, reviews, req>>

-----------------------------------------------------------------------------
(* Mutant of LockPayment: it does not look at the reviews. *)
LockPaymentReviewed(e) ==
  /\ e.kind = "payment" /\ ~e.recon
  /\ ~Reversed(e.seq)
  /\ \A m \in Standing : m.entry # e.seq

(* A payment that can be decided on: recorded by a person, not undone, with
   no standing match and no standing review. *)
LockPayment(e) ==
  /\ e.kind = "payment" /\ ~e.recon
  /\ ~Reversed(e.seq)
  /\ \A m \in Standing : m.entry # e.seq
  /\ \A v \in reviews : v.undone \/ v.entry # e.seq

Suggestable(bank, recorded) ==
  bank - recorded <= Tolerance /\ recorded - bank <= Tolerance

(* Mutant of Delta: the difference is taken the other way. *)
DeltaSwapped(seq, bank, recorded) ==
  IF bank > recorded THEN {Entry(seq, "payment", bank - recorded, TRUE)}
  ELSE IF bank < recorded THEN {Entry(seq, "adjustment", recorded - bank, TRUE)}
  ELSE {}

(* What confirming posts: a payment of what more moved, an adjustment of what
   did not, nothing when the two agree. *)
Delta(seq, bank, recorded) ==
  IF bank > recorded THEN {Entry(seq, "payment", bank - recorded, TRUE)}
  ELSE IF bank < recorded THEN {Entry(seq, "adjustment", -(recorded - bank), TRUE)}
  ELSE {}

Confirm(l) ==
  /\ Cardinality(matches) < MaxMatches
  /\ lines[l].state = "open"
  /\ \E e \in entries :
       LET delta == Delta(NextSeq, Bank[l], e.amount) IN
       /\ LockPayment(e)
       /\ Suggestable(Bank[l], e.amount)
       /\ delta = {} \/ HasRoom
       /\ entries' = entries \cup delta
       /\ matches' = matches \cup
            {[id |-> Cardinality(matches) + 1, line |-> l, entry |-> e.seq,
              delta |-> IF delta = {} THEN 0 ELSE NextSeq, undone |-> FALSE]}
  /\ lines' = [lines EXCEPT ![l] = Line("matched", 0)]
  /\ UNCHANGED <<reviews, req>>

(* An open line is recorded as a payment of its amount. *)
RecordLine(l) ==
  /\ HasRoom
  /\ lines[l].state = "open"
  /\ entries' = entries \cup {Entry(NextSeq, "payment", Bank[l], TRUE)}
  /\ lines' = [lines EXCEPT ![l] = Line("recorded", NextSeq)]
  /\ UNCHANGED <<matches, reviews, req>>

IgnoreBankLine(l) ==
  /\ lines[l].state = "open"
  /\ lines' = [lines EXCEPT ![l] = Line("ignored", 0)]
  /\ UNCHANGED <<entries, matches, reviews, req>>

UnignoreBankLine(l) ==
  /\ lines[l].state = "ignored"
  /\ lines' = [lines EXCEPT ![l] = Open]
  /\ UNCHANGED <<entries, matches, reviews, req>>

(* A payment with no bank transaction is set aside. *)
SetPaymentNotInBank ==
  /\ Cardinality(reviews) < MaxReviews
  /\ \E e \in entries :
       /\ LockPayment(e)
       /\ reviews' = reviews \cup
            {[id |-> Cardinality(reviews) + 1, entry |-> e.seq, undone |-> FALSE]}
  /\ UNCHANGED <<lines, entries, matches, req>>

UndoPaymentReview ==
  /\ \E v \in reviews :
       /\ ~v.undone
       /\ reviews' = (reviews \ {v}) \cup {[v EXCEPT !.undone = TRUE]}
  /\ UNCHANGED <<lines, entries, matches, req>>

-----------------------------------------------------------------------------
(* What an undo will do: unmake a match, with the entry's own reversal when
   the entry is the matched payment; unrecord a line; or just reverse. *)
ToUnmake(m, s, own) == [pc |-> "unmake", entry |-> s, match |-> m.id, own |-> own]
ToUnrecord(l, s)    == [pc |-> "unrecord", entry |-> s, line |-> l]
ToReverse(s)        == [pc |-> "reverse", entry |-> s]

(* What reconciliation ties an entry to decides. *)
ReconLinks(s) ==
  LET ties == {ToUnmake(m, s, TRUE) : m \in {x \in Standing : x.entry = s}}
                \cup {ToUnmake(m, s, FALSE) : m \in {x \in Standing : x.delta = s}}
                \cup {ToUnrecord(l, s) : l \in {x \in Lines : lines[x].rec = s}}
  IN  IF ties = {} THEN {ToReverse(s)} ELSE ties

(* Somebody undoes an entry on the tab's page. *)
Reverse(q) ==
  /\ req[q] = Idle
  /\ \E e \in Posted : \E todo \in ReconLinks(e.seq) : req' = [req EXCEPT ![q] = todo]
  /\ UNCHANGED <<lines, entries, matches, reviews>>

(* Somebody undoes a match on the Reconciliation page. *)
UndoMatch(q) ==
  /\ req[q] = Idle
  /\ \E m \in Standing : req' = [req EXCEPT ![q] = ToUnmake(m, 0, FALSE)]
  /\ UNCHANGED <<lines, entries, matches, reviews>>

(* Somebody undoes a recorded line there: the entry is read, then used. *)
UnrecordLine(q) ==
  /\ req[q] = Idle
  /\ \E l \in Lines :
       /\ lines[l].state = "recorded"
       /\ req' = [req EXCEPT ![q] = ToUnrecord(l, lines[l].rec)]
  /\ UNCHANGED <<lines, entries, matches, reviews>>

(* The unique index on reverses_seq refuses a second reversal, and the whole
   transaction with it. *)
Reversible(targets) == \A i \in DOMAIN targets : ~Reversed(targets[i])

PostReversals(targets) ==
  /\ Reversible(targets)
  /\ entries' = entries \cup Reversals(targets)

Done(q) == req' = [req EXCEPT ![q] = Idle]

(* An entry with no tie is reversed. *)
PostReversal(q) ==
  /\ req[q].pc = "reverse"
  /\ PostReversals(<<req[q].entry>>)
  /\ Done(q)
  /\ UNCHANGED <<lines, matches, reviews>>

(* Mutant of UndoTargets: the difference is left to stand. *)
UndoTargetsPayment(q, m) == IF req[q].own THEN <<m.entry>> ELSE <<>>

(* What unmaking reverses: the payment, if it is what is undone, and the
   difference the match posted. *)
UndoTargets(q, m) ==
  (IF req[q].own THEN <<m.entry>> ELSE <<>>) \o (IF m.delta # 0 THEN <<m.delta>> ELSE <<>>)

(* Mutant of UnmakeMatch: the line is left matched. *)
UnmakeMatchKeepingLine(q) ==
  /\ req[q].pc = "unmake"
  /\ \E m \in Standing :
       /\ m.id = req[q].match
       /\ PostReversals(UndoTargets(q, m))
       /\ matches' = (matches \ {m}) \cup {[m EXCEPT !.undone = TRUE]}
  /\ Done(q)
  /\ UNCHANGED <<lines, reviews>>

(* The match is marked undone, its line opened and the reversals posted,
   together. *)
UnmakeMatch(q) ==
  /\ req[q].pc = "unmake"
  /\ \E m \in Standing :
       /\ m.id = req[q].match
       /\ PostReversals(UndoTargets(q, m))
       /\ matches' = (matches \ {m}) \cup {[m EXCEPT !.undone = TRUE]}
       /\ lines' = [lines EXCEPT ![m.line] = Open]
  /\ Done(q)
  /\ UNCHANGED reviews

(* The match was undone since: its payment is an ordinary one now, and is
   reversed the ordinary way. *)
FallBack(q) ==
  /\ req[q].pc = "unmake"
  /\ req[q].own
  /\ \A m \in Standing : m.id # req[q].match
  /\ req' = [req EXCEPT ![q] = ToReverse(req[q].entry)]
  /\ UNCHANGED <<lines, entries, matches, reviews>>

(* Mutant of Unrecord: the line is opened without the reversal. *)
UnrecordUnposted(q) ==
  /\ req[q].pc = "unrecord"
  /\ lines[req[q].line] = Line("recorded", req[q].entry)
  /\ lines' = [lines EXCEPT ![req[q].line] = Open]
  /\ Done(q)
  /\ UNCHANGED <<entries, matches, reviews>>

(* The recorded payment is reversed and the line opened, together. *)
Unrecord(q) ==
  /\ req[q].pc = "unrecord"
  /\ lines[req[q].line] = Line("recorded", req[q].entry)
  /\ PostReversals(<<req[q].entry>>)
  /\ lines' = [lines EXCEPT ![req[q].line] = Open]
  /\ Done(q)
  /\ UNCHANGED <<matches, reviews>>

(* The transaction is refused, fails, is chosen as a deadlock's victim, or its
   process dies: it rolls back and the undo is given up. *)
GiveUp(q) ==
  /\ req[q] # Idle
  /\ Done(q)
  /\ UNCHANGED <<lines, entries, matches, reviews>>

Decide(l) == Confirm(l) \/ RecordLine(l) \/ IgnoreBankLine(l) \/ UnignoreBankLine(l)

Undo(q) ==
  \/ Reverse(q) \/ UndoMatch(q) \/ UnrecordLine(q)
  \/ PostReversal(q) \/ UnmakeMatch(q) \/ FallBack(q) \/ Unrecord(q) \/ GiveUp(q)

Next ==
  \/ Pay \/ SetPaymentNotInBank \/ UndoPaymentReview
  \/ \E l \in Lines : Decide(l)
  \/ \E q \in Requests : Undo(q)

Spec == Init /\ [][Next]_vars

-----------------------------------------------------------------------------
Seqs == Nat \ {0}

(* What the CHECK constraints of the tables demand of a row. *)
Payments    == [seq : Seqs, kind : {"payment"}, amount : Nat \ {0}, recon : BOOLEAN, reverses : {0}]
Adjustments == {e \in [seq : Seqs, kind : {"adjustment"}, amount : Int, recon : {TRUE},
                       reverses : {0}] : e.amount < 0}
ReversalRows == [seq : Seqs, kind : {"reversal"}, amount : Int, recon : {FALSE}, reverses : Seqs]

MatchRows == [id : Seqs, line : Lines, entry : Seqs, delta : Nat, undone : BOOLEAN]

(* Every variable holds a value of its type; a payment is worth something, and
   an adjustment takes something away. *)
TypeOK ==
  /\ lines \in [Lines -> [state : {"open", "matched", "recorded", "ignored"}, rec : Nat]]
  /\ entries \subseteq Payments \cup Adjustments \cup ReversalRows
  /\ matches \subseteq MatchRows
  /\ reviews \subseteq [id : Seqs, entry : Seqs, undone : BOOLEAN]
  /\ req \in [Requests ->
       {Idle}
       \cup [pc : {"unmake"}, entry : Nat, match : Seqs, own : BOOLEAN]
       \cup [pc : {"unrecord"}, entry : Seqs, line : Lines]
       \cup [pc : {"reverse"}, entry : Seqs]]

(* A payment is never both matched and set aside, nor matched or set aside
   twice, whichever requests decide on it at once. *)
OneDecision ==
  /\ \A m \in Standing, v \in reviews : v.undone \/ m.entry # v.entry
  /\ \A m, n \in Standing : m.entry = n.entry \/ m.line = n.line => m = n
  /\ \A v, w \in reviews : ~v.undone /\ ~w.undone /\ v.entry = w.entry => v = w

(* A line is matched exactly while a match of it stands, and recorded exactly
   as one payment of its amount that stands: money in the bank is never on a
   tab twice, and never lost from sight. *)
LineTellsTheTruth ==
  \A l \in Lines :
    /\ lines[l].state = "matched" <=> \E m \in Standing : m.line = l
    /\ lines[l].state = "recorded" <=> lines[l].rec # 0
    /\ lines[l].rec # 0 =>
         /\ \E e \in Posted : e.seq = lines[l].rec /\ e.amount = Bank[l]
         /\ ~Reversed(lines[l].rec)
         /\ \A k \in Lines : lines[k].rec = lines[l].rec => k = l

(* A difference stands exactly as long as its match. *)
DifferenceFollowsMatch ==
  \A m \in matches : m.delta # 0 => (m.undone <=> Reversed(m.delta))

(* The transaction of an undo would be refused now. *)
Refused(q) ==
  \/ req[q].pc = "reverse" /\ Reversed(req[q].entry)
  \/ /\ req[q].pc = "unmake"
     /\ \/ \E m \in Standing : m.id = req[q].match /\ ~Reversible(UndoTargets(q, m))
        \/ ~req[q].own /\ \A m \in Standing : m.id # req[q].match
  \/ req[q].pc = "unrecord" /\ lines[req[q].line] # Line("recorded", req[q].entry)

(* An undo is refused only when what it undoes is undone already: nobody is
   told so of an entry that stands, or of a match. *)
RefusedIsUndone ==
  \A q \in Requests : Refused(q) =>
    IF req[q].entry # 0 THEN Reversed(req[q].entry)
    ELSE \E m \in matches : m.id = req[q].match /\ m.undone

Sum(es) == SumFunction([e \in es |-> e.amount])

(* Every cent on the tab is explained: the payments nobody has matched or
   undone, the lines recorded, and for each standing match what the bank
   shows, less its payment should that have been reversed. *)
BalanceExplained ==
  LET unmatched == {e \in Posted : ~e.recon /\ ~Reversed(e.seq)
                                   /\ \A m \in Standing : m.entry # e.seq}
      recorded  == {l \in Lines : lines[l].state = "recorded"}
      shown(m)  == Bank[m.line] - (IF Reversed(m.entry) THEN AmountOf(m.entry) ELSE 0)
  IN  Sum(entries) = Sum(unmatched)
        + SumFunction([l \in recorded |-> Bank[l]]) + SumFunction([m \in Standing |-> shown(m)])
=============================================================================
