--------------------------- MODULE ReconcileProofs ---------------------------
(***************************************************************************)
(* Reconciliation keeps what it promises, for every set of requests and    *)
(* lines, all amounts and any number of entries, matches and reviews.      *)
(*                                                                         *)
(* The promises are not inductive by themselves. They need to know that    *)
(* entries and matches are numbered without gaps, so that a new one is     *)
(* nobody's yet; that what a match and a line name are entries of kinds    *)
(* that never meet; and what an undo has looked up and still counts on.    *)
(*                                                                         *)
(* The balance needs more: what the entries add up to is what the payments *)
(* made by hand, the lines and the standing matches add up to, entry by    *)
(* entry posted and match by match made and undone. That part is about     *)
(* sets of entries, matches and lines, whatever step changes them.         *)
(***************************************************************************)
EXTENDS Reconcile, FiniteSums, SequenceTheorems

(* Rows are numbered without gaps, and a reversal names an older row. *)
NumberedRows(E) ==
  /\ IsFiniteSet(E)
  /\ \A e \in E : e.seq \in 1..Cardinality(E) /\ e.reverses \in 0..Cardinality(E)
  /\ \A e, f \in E : e.seq = f.seq => e = f

NumberedIds(M) ==
  /\ IsFiniteSet(M)
  /\ \A m \in M : m.id \in 1..Cardinality(M)
  /\ \A m, n \in M : m.id = n.id => m = n

Numbered == NumberedRows(entries) /\ NumberedIds(matches) /\ IsFiniteSet(reviews)

Recorded(s) == \E e \in entries : e.seq = s /\ e.kind # "reversal"

ByHand(s) == \E e \in entries : e.seq = s /\ e.kind = "payment" /\ ~e.recon

ByRecon(s) == \E e \in entries : e.seq = s /\ e.kind # "reversal" /\ e.recon

NoDifference(s) == \A m \in matches : m.delta # s

(* A match names a payment made by hand and a difference of its own; a line
   names a payment that is no match's difference. *)
Tied ==
  /\ \A m \in matches : ByHand(m.entry)
  /\ \A m \in matches : m.delta # 0 => ByRecon(m.delta)
  /\ \A m, n \in matches : m.delta # 0 /\ m.delta = n.delta => m = n
  /\ \A l \in Lines : lines[l].rec # 0 => ByRecon(lines[l].rec) /\ NoDifference(lines[l].rec)

(* An entry that stands and that neither a line nor a match's difference ties
   down. *)
Untied(s) ==
  /\ \A m \in Standing : m.delta # s
  /\ \A l \in Lines : lines[l].rec # s

Found(r, m) ==
  m.id = r.match /\ (IF r.own THEN m.entry = r.entry ELSE r.entry \in {0, m.delta})

(* What an undo has looked up stays so, or the entry is undone by another. *)
Sound(r) ==
  /\ r.pc = "reverse" => Recorded(r.entry) /\ (Reversed(r.entry) \/ Untied(r.entry))
  /\ r.pc = "unmake" => (r.own => r.entry # 0) /\ \E m \in matches : Found(r, m)
  /\ r.pc = "unrecord" =>
       /\ ByRecon(r.entry) /\ NoDifference(r.entry)
       /\ lines[r.line].rec = r.entry \/ Reversed(r.entry)

Pending == \A q \in Requests : Sound(req[q])

Promises == OneDecision /\ LineTellsTheTruth /\ DifferenceFollowsMatch

IInv == TypeOK /\ Numbered /\ Tied /\ Pending /\ Promises

-----------------------------------------------------------------------------
(* A row with the next number keeps the numbering. *)
LEMMA AddRow ==
  ASSUME NEW E, NumberedRows(E), NEW r, r.seq = Cardinality(E) + 1,
         r.reverses \in 0..Cardinality(E)
  PROVE  /\ NumberedRows(E \cup {r})
         /\ Cardinality(E \cup {r}) = Cardinality(E) + 1
<1>1. IsFiniteSet(E) /\ Cardinality(E) \in Nat
  BY FS_CardinalityType DEF NumberedRows
<1>2. \A e \in E : e.seq \in 1..Cardinality(E) /\ e.reverses \in 0..Cardinality(E)
  BY DEF NumberedRows
<1>3. r \notin E
  BY <1>1, <1>2
<1>4. IsFiniteSet(E \cup {r}) /\ Cardinality(E \cup {r}) = Cardinality(E) + 1
  BY <1>1, <1>3, FS_AddElement
<1>5. \A e \in E \cup {r} : e.seq \in 1..(Cardinality(E) + 1) /\ e.reverses \in 0..(Cardinality(E) + 1)
  BY <1>1, <1>2
<1>6. \A e, f \in E \cup {r} : e.seq = f.seq => e = f
  BY <1>1, <1>2 DEF NumberedRows
<1> QED BY <1>4, <1>5, <1>6 DEF NumberedRows

LEMMA AddId ==
  ASSUME NEW M, NumberedIds(M), NEW m, m.id = Cardinality(M) + 1
  PROVE  NumberedIds(M \cup {m})
<1>1. IsFiniteSet(M) /\ Cardinality(M) \in Nat
  BY FS_CardinalityType DEF NumberedIds
<1>2. \A n \in M : n.id \in 1..Cardinality(M)
  BY DEF NumberedIds
<1>3. m \notin M
  BY <1>1, <1>2
<1>4. IsFiniteSet(M \cup {m}) /\ Cardinality(M \cup {m}) = Cardinality(M) + 1
  BY <1>1, <1>3, FS_AddElement
<1>5. \A n \in M \cup {m} : n.id \in 1..(Cardinality(M) + 1)
  BY <1>1, <1>2
<1>6. \A n, k \in M \cup {m} : n.id = k.id => n = k
  BY <1>1, <1>2 DEF NumberedIds
<1> QED BY <1>4, <1>5, <1>6 DEF NumberedIds

(* A row replaced by another with its number keeps the numbering. *)
LEMMA ReplaceId ==
  ASSUME NEW M, NumberedIds(M), NEW m \in M, NEW c, c.id = m.id
  PROVE  NumberedIds((M \ {m}) \cup {c})
<1> DEFINE R == M \ {m}
<1>1. IsFiniteSet(M) /\ Cardinality(M) \in Nat
  BY FS_CardinalityType DEF NumberedIds
<1>2. \A n \in R : n.id # m.id
  BY DEF NumberedIds
<1>3. c \notin R
  BY <1>2
<1>4. IsFiniteSet(R) /\ Cardinality(R) = Cardinality(M) - 1
  BY <1>1, FS_RemoveElement
<1>5. IsFiniteSet(R \cup {c}) /\ Cardinality(R \cup {c}) = Cardinality(R) + 1
  BY <1>3, <1>4, FS_AddElement
<1>6. Cardinality(R \cup {c}) = Cardinality(M)
  BY <1>1, <1>4, <1>5
<1>7. \A n \in R \cup {c} : n.id \in 1..Cardinality(M)
  BY DEF NumberedIds
<1>8. \A n, k \in R \cup {c} : n.id = k.id => n = k
  BY <1>2 DEF NumberedIds
<1> QED BY <1>5, <1>6, <1>7, <1>8 DEF NumberedIds

-----------------------------------------------------------------------------
(* What is there stays there: entries are only added. *)
LEMMA Kept ==
  ASSUME entries \subseteq entries', NEW s
  PROVE  /\ Recorded(s) => Recorded(s)'
         /\ ByHand(s) => ByHand(s)'
         /\ ByRecon(s) => ByRecon(s)'
         /\ Reversed(s) => Reversed(s)'
BY DEF Recorded, ByHand, ByRecon, Reversed

LEMMA Same ==
  ASSUME entries' = entries, NEW s
  PROVE  /\ Recorded(s)' = Recorded(s)
         /\ ByHand(s)' = ByHand(s)
         /\ ByRecon(s)' = ByRecon(s)
         /\ Reversed(s)' = Reversed(s)
BY DEF Recorded, ByHand, ByRecon, Reversed

(* The next number is nobody's, and nothing reverses it. *)
LEMMA Fresh ==
  ASSUME NumberedRows(entries)
  PROVE  /\ Cardinality(entries) \in Nat
         /\ NextSeq \in Seqs /\ NextSeq # 0
         /\ ~Recorded(NextSeq) /\ ~ByHand(NextSeq) /\ ~ByRecon(NextSeq)
         /\ ~Reversed(NextSeq)
<1>1. Cardinality(entries) \in Nat
  BY FS_CardinalityType DEF NumberedRows
<1>2. \A e \in entries : e.seq # NextSeq /\ e.reverses # NextSeq
  BY <1>1 DEF NumberedRows, NextSeq
<1> QED BY <1>1, <1>2 DEF NextSeq, Seqs, Recorded, ByHand, ByRecon, Reversed

LEMMA Numbers ==
  ASSUME NumberedRows(entries), NEW s
  PROVE  /\ Recorded(s) => s \in 1..Cardinality(entries)
         /\ ByHand(s) => Recorded(s)
         /\ ByRecon(s) => Recorded(s)
         /\ Recorded(s) => s \in Seqs /\ s # 0
         /\ ~(ByHand(s) /\ ByRecon(s))
<1>1. Cardinality(entries) \in Nat
  BY FS_CardinalityType DEF NumberedRows
<1>2. Recorded(s) => s \in 1..Cardinality(entries)
  BY DEF NumberedRows, Recorded
<1>3. (ByHand(s) => Recorded(s)) /\ (ByRecon(s) => Recorded(s))
  BY DEF Recorded, ByHand, ByRecon
<1>4. ~(ByHand(s) /\ ByRecon(s))
  BY DEF NumberedRows, ByHand, ByRecon
<1>5. Recorded(s) => s \in Seqs /\ s # 0
  BY <1>1, <1>2 DEF Seqs
<1> QED BY <1>2, <1>3, <1>4, <1>5

(* A new entry that reverses nothing. *)
LEMMA NewEntry ==
  ASSUME NumberedRows(entries), NEW k, NEW a, NEW c,
         entries' = entries \cup {Entry(NextSeq, k, a, c)}
  PROVE  /\ NumberedRows(entries')
         /\ entries \subseteq entries'
         /\ \A s : s # 0 => (Reversed(s)' <=> Reversed(s))
<1>1. Cardinality(entries) \in Nat /\ NextSeq # 0 /\ ~Reversed(NextSeq)
  BY Fresh
<1>2. /\ Entry(NextSeq, k, a, c).seq = Cardinality(entries) + 1
      /\ Entry(NextSeq, k, a, c).reverses = 0
  BY DEF Entry, NextSeq
<1>3. NumberedRows(entries')
  BY <1>1, <1>2, AddRow
<1>4. \A s : s # 0 => (Reversed(s)' <=> Reversed(s))
  BY <1>2 DEF Reversed
<1> QED BY <1>3, <1>4

-----------------------------------------------------------------------------
(* One reversal, or two, posted together. *)
LEMMA ReverseOne ==
  ASSUME NumberedRows(entries), NEW a, Recorded(a), PostReversals(<<a>>)
  PROVE  /\ ~Reversed(a)
         /\ entries' = entries \cup {Reversal(Cardinality(entries) + 1, a)}
         /\ NumberedRows(entries')
         /\ \A s : Reversed(s)' <=> Reversed(s) \/ s = a
<1>1. Cardinality(entries) \in Nat /\ a \in 0..Cardinality(entries)
  BY Fresh, Numbers
<1>2. ~Reversed(a)
  BY DEF PostReversals, Reversible
<1> DEFINE r == Reversal(Cardinality(entries) + 1, a)
<1>3. r.seq = Cardinality(entries) + 1 /\ r.reverses = a
  BY DEF Reversal
<1>4. Reversals(<<a>>) = {r}
  BY <1>1 DEF Reversals
<1>5. entries' = entries \cup {r}
  BY <1>4 DEF PostReversals
<1> HIDE DEF r
<1>6. NumberedRows(entries')
  BY <1>1, <1>3, <1>5, AddRow
<1>7. \A s : Reversed(s)' <=> Reversed(s) \/ s = a
  BY <1>3, <1>5 DEF Reversed
<1> QED BY <1>2, <1>5, <1>6, <1>7 DEF r

LEMMA ReverseTwo ==
  ASSUME NumberedRows(entries), NEW a, NEW b, Recorded(a), Recorded(b),
         PostReversals(<<a, b>>)
  PROVE  /\ ~Reversed(a) /\ ~Reversed(b)
         /\ entries' = entries \cup {Reversal(Cardinality(entries) + 1, a),
                                     Reversal(Cardinality(entries) + 2, b)}
         /\ NumberedRows(entries')
         /\ \A s : Reversed(s)' <=> Reversed(s) \/ s = a \/ s = b
<1>1. /\ Cardinality(entries) \in Nat
      /\ a \in 0..Cardinality(entries) /\ b \in 0..Cardinality(entries)
  BY Fresh, Numbers
<1>2. ~Reversed(a) /\ ~Reversed(b)
  BY DEF PostReversals, Reversible
<1> DEFINE r == Reversal(Cardinality(entries) + 1, a)
           t == Reversal(Cardinality(entries) + 2, b)
           E == entries \cup {r}
<1>3. /\ r.seq = Cardinality(entries) + 1 /\ r.reverses = a
      /\ t.seq = Cardinality(entries) + 2 /\ t.reverses = b
  BY DEF Reversal
<1>4. Reversals(<<a, b>>) = {r, t}
  BY <1>1 DEF Reversals
<1>5. entries' = entries \cup {r, t}
  BY <1>4 DEF PostReversals
<1> HIDE DEF r, t
<1>6. NumberedRows(E) /\ Cardinality(E) = Cardinality(entries) + 1
  BY <1>1, <1>3, AddRow
<1>7. NumberedRows(E \cup {t})
  <2>1. t.seq = Cardinality(E) + 1 /\ t.reverses \in 0..Cardinality(E)
    BY <1>1, <1>3, <1>6
  <2> HIDE DEF E
  <2> QED BY <1>6, <2>1, AddRow
<1>8. E \cup {t} = entries'
  BY <1>5
<1>9. \A s : Reversed(s)' <=> Reversed(s) \/ s = a \/ s = b
  BY <1>3, <1>5 DEF Reversed
<1> QED BY <1>2, <1>5, <1>7, <1>8, <1>9 DEF r, t

LEMMA ReverseNone ==
  ASSUME PostReversals(<<>>)
  PROVE  entries' = entries
BY DEF PostReversals, Reversals

LEMMA Pair ==
  ASSUME NEW a, NEW b
  PROVE  <<a>> \o <<b>> = <<a, b>>
<1> DEFINE S == {a, b}
<1>1. <<a>> \in Seq(S) /\ <<b>> \in Seq(S) /\ <<a, b>> \in Seq(S)
  OBVIOUS
<1>2. Len(<<a>>) = 1 /\ Len(<<b>>) = 1 /\ Len(<<a, b>>) = 2
  OBVIOUS
<1>3. <<a>> \o <<b>> \in Seq(S) /\ Len(<<a>> \o <<b>>) = 2
  BY <1>1, <1>2, ConcatProperties
<1>4. \A i \in 1..2 : (<<a>> \o <<b>>)[i] = <<a, b>>[i]
  <2>1. (<<a>> \o <<b>>)[1] = a /\ (<<a>> \o <<b>>)[2] = b
    BY <1>1, <1>2, ConcatProperties
  <2>2. \A i \in 1..2 : i = 1 \/ i = 2
    OBVIOUS
  <2> QED BY <2>1, <2>2
<1> HIDE DEF S
<1> QED BY <1>1, <1>2, <1>3, <1>4, SeqEqual

LEMMA TargetsOfUnmake ==
  ASSUME NEW q, NEW m
  PROVE  \/ ~req[q].own /\ m.delta = 0 /\ UndoTargets(q, m) = <<>>
         \/ ~req[q].own /\ m.delta # 0 /\ UndoTargets(q, m) = <<m.delta>>
         \/ req[q].own /\ m.delta = 0 /\ UndoTargets(q, m) = <<m.entry>>
         \/ req[q].own /\ m.delta # 0 /\ UndoTargets(q, m) = <<m.entry, m.delta>>
<1>1. CASE ~req[q].own /\ m.delta = 0
  BY <1>1 DEF UndoTargets
<1>2. CASE ~req[q].own /\ m.delta # 0
  BY <1>2 DEF UndoTargets
<1>3. CASE req[q].own /\ m.delta = 0
  BY <1>3 DEF UndoTargets
<1>4. CASE req[q].own /\ m.delta # 0
  BY <1>4, Pair DEF UndoTargets
<1> QED BY <1>1, <1>2, <1>3, <1>4

-----------------------------------------------------------------------------
Todos ==
  {Idle}
  \cup [pc : {"unmake"}, entry : Nat, match : Seqs, own : BOOLEAN]
  \cup [pc : {"unrecord"}, entry : Seqs, line : Lines]
  \cup [pc : {"reverse"}, entry : Seqs]

LEMMA TodoShape ==
  ASSUME TypeOK, NEW q \in Requests
  PROVE  /\ req[q] \in Todos
         /\ req[q].pc = "unmake" =>
              req[q].entry \in Nat /\ req[q].match \in Seqs /\ req[q].own \in BOOLEAN
         /\ req[q].pc = "unrecord" => req[q].entry \in Seqs /\ req[q].line \in Lines
         /\ req[q].pc = "reverse" => req[q].entry \in Seqs
<1>1. req[q] \in Todos
  BY DEF TypeOK, Todos
<1> QED BY <1>1 DEF Todos, Idle

LEMMA SoundIdle == Sound(Idle)
BY DEF Sound, Idle

(* A request that changes what it has to do, and nothing else. *)
LEMMA OnlyRequest ==
  ASSUME IInv, NEW q \in Requests, NEW r \in Todos, Sound(r),
         req' = [req EXCEPT ![q] = r], UNCHANGED <<lines, entries, matches, reviews>>
  PROVE  IInv'
<1>1. TypeOK'
  BY DEF IInv, TypeOK, Todos
<1>2. Numbered' /\ Tied' /\ Promises'
  BY DEF IInv, Numbered, NumberedRows, NumberedIds, Tied, ByHand, ByRecon, NoDifference,
         Promises, OneDecision, LineTellsTheTruth, DifferenceFollowsMatch, Standing,
         Posted, Reversed
<1>3. \A s : Sound(s)' <=> Sound(s)
  BY DEF Sound, Recorded, Reversed, Untied, Standing, Found, ByRecon, NoDifference
<1>4. Pending'
  <2> SUFFICES ASSUME NEW k \in Requests
               PROVE  Sound(req[k])'
    BY DEF Pending
  <2>1. req'[k] = req[k] \/ req'[k] = r
    BY DEF IInv, TypeOK
  <2>2. Sound(req[k])
    BY DEF IInv, Pending
  <2> QED BY <1>3, <2>1, <2>2
<1> QED BY <1>1, <1>2, <1>4 DEF IInv

LEMMA TieIsSound ==
  ASSUME IInv, NEW s, Recorded(s), NEW todo \in ReconLinks(s)
  PROVE  todo \in Todos /\ Sound(todo)
<1>1. s \in Seqs /\ s # 0 /\ s \in Nat
  BY Numbers DEF IInv, Numbered, Seqs
<1>2. \A m \in matches : m.id \in Seqs
  BY DEF IInv, TypeOK, MatchRows
<1>3. CASE \E m \in Standing : m.entry = s /\ todo = ToUnmake(m, s, TRUE)
  <2>1. PICK m \in Standing : m.entry = s /\ todo = ToUnmake(m, s, TRUE)
    BY <1>3
  <2>2. m \in matches /\ Found(todo, m)
    BY <2>1 DEF Standing, Found, ToUnmake
  <2>3. todo \in Todos
    BY <1>1, <1>2, <2>1, <2>2 DEF ToUnmake, Todos
  <2> QED BY <1>1, <2>1, <2>2, <2>3 DEF Sound, ToUnmake
<1>4. CASE \E m \in Standing : m.delta = s /\ todo = ToUnmake(m, s, FALSE)
  <2>1. PICK m \in Standing : m.delta = s /\ todo = ToUnmake(m, s, FALSE)
    BY <1>4
  <2>2. m \in matches /\ Found(todo, m)
    BY <2>1 DEF Standing, Found, ToUnmake
  <2>3. todo \in Todos
    BY <1>1, <1>2, <2>1, <2>2 DEF ToUnmake, Todos
  <2> QED BY <1>1, <2>1, <2>2, <2>3 DEF Sound, ToUnmake
<1>5. CASE \E l \in Lines : lines[l].rec = s /\ todo = ToUnrecord(l, s)
  <2>1. PICK l \in Lines : lines[l].rec = s /\ todo = ToUnrecord(l, s)
    BY <1>5
  <2>2. ByRecon(s) /\ NoDifference(s)
    BY <1>1, <2>1 DEF IInv, Tied
  <2> QED BY <1>1, <2>1, <2>2 DEF Sound, ToUnrecord, Todos
<1>6. CASE todo = ToReverse(s) /\ Untied(s)
  BY <1>1, <1>6 DEF Sound, ToReverse, Todos
<1> QED BY <1>3, <1>4, <1>5, <1>6 DEF ReconLinks, Untied

LEMMA ReverseStep ==
  ASSUME IInv, NEW q \in Requests, Reverse(q)
  PROVE  IInv'
<1>1. PICK e \in Posted :
        \E todo \in ReconLinks(e.seq) : req' = [req EXCEPT ![q] = todo]
  BY DEF Reverse
<1>2. PICK todo \in ReconLinks(e.seq) : req' = [req EXCEPT ![q] = todo]
  BY <1>1
<1>3. Recorded(e.seq)
  BY DEF Posted, Recorded
<1> QED BY <1>2, <1>3, TieIsSound, OnlyRequest DEF Reverse

LEMMA UndoMatchStep ==
  ASSUME IInv, NEW q \in Requests, UndoMatch(q)
  PROVE  IInv'
<1>1. PICK m \in Standing : req' = [req EXCEPT ![q] = ToUnmake(m, 0, FALSE)]
  BY DEF UndoMatch
<1> DEFINE r == ToUnmake(m, 0, FALSE)
<1>2. m \in matches /\ m.id \in Seqs
  BY DEF Standing, IInv, TypeOK, MatchRows
<1>3. r \in Todos
  BY <1>2 DEF ToUnmake, Todos
<1>4. Found(r, m)
  BY DEF Found, ToUnmake
<1>5. Sound(r)
  BY <1>2, <1>4 DEF Sound, ToUnmake
<1> QED BY <1>1, <1>3, <1>5, OnlyRequest DEF UndoMatch

LEMMA UnrecordLineStep ==
  ASSUME IInv, NEW q \in Requests, UnrecordLine(q)
  PROVE  IInv'
<1>1. PICK l \in Lines : /\ lines[l].state = "recorded"
                         /\ req' = [req EXCEPT ![q] = ToUnrecord(l, lines[l].rec)]
  BY DEF UnrecordLine
<1> DEFINE r == ToUnrecord(l, lines[l].rec)
<1>2. lines[l].rec # 0 /\ lines[l].rec \in Nat
  BY <1>1 DEF IInv, Promises, LineTellsTheTruth, TypeOK
<1>3. ByRecon(lines[l].rec) /\ NoDifference(lines[l].rec)
  BY <1>2 DEF IInv, Tied
<1>4. r \in Todos
  BY <1>2 DEF ToUnrecord, Todos, Seqs
<1>5. Sound(r)
  BY <1>3 DEF Sound, ToUnrecord
<1> QED BY <1>1, <1>4, <1>5, OnlyRequest DEF UnrecordLine

(* The payment of a match that was undone is an entry nothing ties down. *)
LEMMA FallBackStep ==
  ASSUME IInv, NEW q \in Requests, FallBack(q)
  PROVE  IInv'
<1> DEFINE s == req[q].entry
           r == ToReverse(s)
<1>1. req[q].pc = "unmake" /\ req[q].own /\ req' = [req EXCEPT ![q] = r]
  BY DEF FallBack
<1>2. s # 0 /\ \E m \in matches : Found(req[q], m)
  BY <1>1 DEF IInv, Pending, Sound
<1>3. ByHand(s)
  BY <1>1, <1>2 DEF Found, IInv, Tied
<1>4. s \in Seqs /\ Recorded(s) /\ ~ByRecon(s)
  BY <1>3, Numbers DEF IInv, Numbered
<1>5. Untied(s)
  BY <1>2, <1>4 DEF Untied, Standing, IInv, Tied
<1>6. r \in Todos
  BY <1>4 DEF ToReverse, Todos
<1>7. Sound(r)
  BY <1>4, <1>5 DEF Sound, ToReverse
<1> QED BY <1>1, <1>6, <1>7, OnlyRequest DEF FallBack

LEMMA GiveUpStep ==
  ASSUME IInv, NEW q \in Requests, GiveUp(q)
  PROVE  IInv'
<1>1. Idle \in Todos
  BY DEF Todos
<1> QED BY <1>1, SoundIdle, OnlyRequest DEF GiveUp, Done

-----------------------------------------------------------------------------
(* A line that is neither matched nor recorded names no entry. *)
LEMMA IgnoreStep ==
  ASSUME IInv, NEW l \in Lines, IgnoreBankLine(l) \/ UnignoreBankLine(l)
  PROVE  IInv'
<1>1. /\ lines[l].state \in {"open", "ignored"} /\ lines[l].rec = 0
      /\ \E s \in {"open", "ignored"} : lines' = [lines EXCEPT ![l] = Line(s, 0)]
      /\ UNCHANGED <<entries, matches, reviews, req>>
  BY DEF IgnoreBankLine, UnignoreBankLine, Open, IInv, Promises, LineTellsTheTruth
<1>2. /\ \A k \in Lines : lines'[k].rec = lines[k].rec
      /\ \A k \in Lines : lines'[k].state = "matched" <=> lines[k].state = "matched"
      /\ \A k \in Lines : lines'[k].state = "recorded" <=> lines[k].state = "recorded"
  BY <1>1 DEF IInv, TypeOK, Line
<1>3. TypeOK'
  BY <1>1 DEF IInv, TypeOK, Line
<1>4. Numbered' /\ Tied'
  BY <1>1, <1>2 DEF IInv, Numbered, NumberedRows, NumberedIds, Tied, ByHand, ByRecon,
                    NoDifference
<1>5. OneDecision' /\ DifferenceFollowsMatch'
  BY <1>1 DEF IInv, Promises, OneDecision, DifferenceFollowsMatch, Standing, Reversed
<1>6. LineTellsTheTruth'
  BY <1>1, <1>2 DEF IInv, Promises, LineTellsTheTruth, Standing, Posted, Reversed
<1>7. Pending'
  <2> SUFFICES ASSUME NEW q \in Requests
               PROVE  Sound(req[q])'
    BY DEF Pending
  <2>1. Sound(req[q])
    BY DEF IInv, Pending
  <2>2. req[q].pc = "unrecord" => req[q].line \in Lines
    BY TodoShape DEF IInv
  <2> QED BY <1>1, <1>2, <2>1, <2>2
          DEF Sound, Recorded, Reversed, Untied, Standing, Found, ByRecon, NoDifference
<1> QED BY <1>3, <1>4, <1>5, <1>6, <1>7 DEF IInv, Promises

(* Only what is decided of a payment changes when it is set aside or not. *)
LEMMA OnlyReviews ==
  ASSUME IInv, UNCHANGED <<lines, entries, matches, req>>, TypeOK', OneDecision',
         IsFiniteSet(reviews')
  PROVE  IInv'
<1>1. Numbered' /\ Tied' /\ LineTellsTheTruth' /\ DifferenceFollowsMatch'
  BY DEF IInv, Numbered, NumberedRows, NumberedIds, Tied, ByHand, ByRecon, NoDifference,
         Promises, LineTellsTheTruth, DifferenceFollowsMatch, Standing, Posted, Reversed
<1>2. Pending'
  BY DEF IInv, Pending, Sound, Recorded, Reversed, Untied, Standing, Found, ByRecon,
         NoDifference
<1> QED BY <1>1, <1>2 DEF IInv, Promises

LEMMA SetAsideStep ==
  ASSUME IInv, SetPaymentNotInBank
  PROVE  IInv'
<1>1. PICK e \in entries :
        /\ LockPayment(e)
        /\ reviews' = reviews \cup
             {[id |-> Cardinality(reviews) + 1, entry |-> e.seq, undone |-> FALSE]}
  BY DEF SetPaymentNotInBank
<1>2. UNCHANGED <<lines, entries, matches, req>>
  BY DEF SetPaymentNotInBank
<1> DEFINE v == [id |-> Cardinality(reviews) + 1, entry |-> e.seq, undone |-> FALSE]
<1>3. OneDecision'
  <2>1. Standing' = Standing
    BY <1>2 DEF Standing
  <2>2. \A m \in Standing : m.entry # v.entry
    BY <1>1 DEF LockPayment
  <2>3. \A w \in reviews : w.undone \/ w.entry # v.entry
    BY <1>1 DEF LockPayment
  <2> QED BY <1>1, <2>1, <2>2, <2>3 DEF IInv, Promises, OneDecision
<1>4. Cardinality(reviews) \in Nat /\ IsFiniteSet(reviews')
  BY <1>1, FS_CardinalityType, FS_AddElement DEF IInv, Numbered
<1>5. TypeOK'
  <2>1. e.seq \in Seqs
    BY DEF IInv, TypeOK, Payments, Adjustments, ReversalRows
  <2>2. Cardinality(reviews) + 1 \in Seqs
    BY <1>4 DEF Seqs
  <2>3. v \in [id : Seqs, entry : Seqs, undone : BOOLEAN]
    BY <2>1, <2>2
  <2>4. reviews' = reviews \cup {v}
    BY <1>1
  <2> HIDE DEF v
  <2> QED BY <1>2, <2>3, <2>4 DEF IInv, TypeOK
<1> QED BY <1>2, <1>3, <1>5, <1>4, OnlyReviews

LEMMA UndoReviewStep ==
  ASSUME IInv, UndoPaymentReview
  PROVE  IInv'
<1>1. PICK v \in reviews :
        /\ ~v.undone
        /\ reviews' = (reviews \ {v}) \cup {[v EXCEPT !.undone = TRUE]}
  BY DEF UndoPaymentReview
<1>2. UNCHANGED <<lines, entries, matches, req>>
  BY DEF UndoPaymentReview
<1> DEFINE w == [v EXCEPT !.undone = TRUE]
<1>3. w \in [id : Seqs, entry : Seqs, undone : BOOLEAN] /\ w.undone
  BY DEF IInv, TypeOK
<1>4. TypeOK'
  BY <1>1, <1>2, <1>3 DEF IInv, TypeOK
<1>5. OneDecision'
  BY <1>1, <1>2, <1>3 DEF IInv, Promises, OneDecision, Standing
<1>6. IsFiniteSet(reviews')
  BY <1>1, FS_AddElement, FS_RemoveElement DEF IInv, Numbered
<1> QED BY <1>2, <1>4, <1>5, <1>6, OnlyReviews

-----------------------------------------------------------------------------
(* What is added has a number no undo has looked up: nothing that is pending
   is disturbed. *)
LEMMA Grown ==
  ASSUME IInv, UNCHANGED req, entries \subseteq entries', matches \subseteq matches',
         \A s : s # 0 => (Reversed(s)' <=> Reversed(s)),
         \A m \in matches' : m \in matches \/ m.delta \in {0, NextSeq},
         \A l \in Lines : \/ lines'[l].rec = lines[l].rec
                          \/ lines[l].rec = 0 /\ lines'[l].rec \in {0, NextSeq}
  PROVE  Pending'
<1> SUFFICES ASSUME NEW q \in Requests
             PROVE  Sound(req[q])'
  BY DEF Pending
<1> DEFINE r == req[q]
           s == req[q].entry
<1>1. Sound(r) /\ NumberedRows(entries)
  BY DEF IInv, Pending, Numbered
<1>2. Recorded(s) => s # NextSeq /\ s # 0
  BY <1>1, Fresh, Numbers
<1>3. r.pc = "reverse" => Recorded(s)' /\ (Reversed(s)' \/ Untied(s)')
  BY <1>1, <1>2, Kept DEF Sound, Untied, Standing
<1>4. r.pc = "unmake" => (r.own => s # 0) /\ \E m \in matches' : Found(r, m)
  BY <1>1 DEF Sound
<1>5. ASSUME r.pc = "unrecord"
      PROVE  /\ ByRecon(s)' /\ NoDifference(s)'
             /\ lines'[r.line].rec = s \/ Reversed(s)'
  <2>1. r.line \in Lines /\ ByRecon(s) /\ Recorded(s)
    BY <1>1, <1>5, TodoShape, Numbers DEF Sound, IInv
  <2> QED BY <1>1, <1>2, <1>5, <2>1, Kept DEF Sound, NoDifference
<1> QED BY <1>3, <1>4, <1>5 DEF Sound, Found

(* An entry posted with the next number, well formed, and no one's yet. *)
LEMMA Posting ==
  ASSUME IInv, NEW k \in {"payment", "adjustment"}, NEW a \in Int, NEW c \in BOOLEAN,
         k = "payment" => a > 0,
         k = "adjustment" => a < 0 /\ c,
         entries' = entries \cup {Entry(NextSeq, k, a, c)}
  PROVE  /\ entries' \subseteq Payments \cup Adjustments \cup ReversalRows
         /\ NumberedRows(entries')
         /\ entries \subseteq entries'
         /\ \A s : s # 0 => (Reversed(s)' <=> Reversed(s))
         /\ \A s : c /\ s = NextSeq => ByRecon(s)'
<1> DEFINE e == Entry(NextSeq, k, a, c)
<1>1. NextSeq \in Seqs
  BY Fresh DEF IInv, Numbered
<1>2. k = "payment" => e \in Payments
  BY <1>1 DEF Entry, Payments
<1>3. k = "adjustment" => e \in Adjustments
  BY <1>1 DEF Entry, Adjustments
<1>4. e.seq = NextSeq /\ e.kind # "reversal" /\ e.recon = c
  BY DEF Entry
<1>5. \A s : c /\ s = NextSeq => ByRecon(s)'
  <2> HIDE DEF e
  <2> QED BY <1>4 DEF ByRecon, e
<1>6. entries' \subseteq Payments \cup Adjustments \cup ReversalRows
  BY <1>2, <1>3 DEF IInv, TypeOK
<1>7. /\ NumberedRows(entries')
      /\ entries \subseteq entries'
      /\ \A s : s # 0 => (Reversed(s)' <=> Reversed(s))
  BY NewEntry DEF IInv, Numbered
<1> QED BY <1>5, <1>6, <1>7

(* Matches and lines go on naming what they named. *)
LEMMA StillTied ==
  ASSUME IInv, UNCHANGED <<lines, matches>>, entries \subseteq entries',
         \A s : s # 0 => (Reversed(s)' <=> Reversed(s))
  PROVE  Tied' /\ LineTellsTheTruth' /\ DifferenceFollowsMatch'
<1>1. Tied'
  BY Kept DEF IInv, Tied, NoDifference
<1>2. \A e \in Posted : e \in Posted'
  BY DEF Posted
<1>3. LineTellsTheTruth'
  BY <1>2 DEF IInv, Promises, LineTellsTheTruth, Standing
<1>4. DifferenceFollowsMatch'
  BY DEF IInv, Promises, DifferenceFollowsMatch
<1> QED BY <1>1, <1>3, <1>4

LEMMA PayStep ==
  ASSUME IInv, Pay
  PROVE  IInv'
<1>1. PICK a \in Amounts : entries' = entries \cup {Entry(NextSeq, "payment", a, FALSE)}
  BY DEF Pay
<1>2. a \in Int /\ a > 0
  BY AmountsAssumption
<1>3. UNCHANGED <<lines, matches, reviews, req>>
  BY DEF Pay
<1>4. /\ entries' \subseteq Payments \cup Adjustments \cup ReversalRows
      /\ NumberedRows(entries')
      /\ entries \subseteq entries'
      /\ \A s : s # 0 => (Reversed(s)' <=> Reversed(s))
  BY <1>1, <1>2, Posting
<1>5. TypeOK' /\ Numbered'
  BY <1>3, <1>4 DEF IInv, TypeOK, Numbered, NumberedIds
<1>6. Tied' /\ LineTellsTheTruth' /\ DifferenceFollowsMatch'
  BY <1>3, <1>4, StillTied
<1>7. OneDecision'
  BY <1>3 DEF IInv, Promises, OneDecision, Standing
<1>8. Pending'
  BY <1>3, <1>4, Grown
<1> QED BY <1>5, <1>6, <1>7, <1>8 DEF IInv, Promises

(* What confirming posts: nothing, or one entry of reconciliation's own. *)
LEMMA ConfirmPosts ==
  ASSUME IInv, NEW l \in Lines, NEW e \in Payments, NEW d,
         d = IF Delta(NextSeq, Bank[l], e.amount) = {} THEN 0 ELSE NextSeq,
         entries' = entries \cup Delta(NextSeq, Bank[l], e.amount)
  PROVE  /\ entries' \subseteq Payments \cup Adjustments \cup ReversalRows
         /\ NumberedRows(entries')
         /\ entries \subseteq entries'
         /\ \A s : s # 0 => (Reversed(s)' <=> Reversed(s))
         /\ d = 0 \/ (d = NextSeq /\ ByRecon(d)')
<1>1. e.amount \in Int /\ Bank[l] \in Int
  BY AmountsAssumption DEF Payments
<1>2. CASE Bank[l] > e.amount
  <2>1. PICK x \in Int : x = Bank[l] - e.amount
    BY <1>1
  <2>2. x > 0 /\ Delta(NextSeq, Bank[l], e.amount) = {Entry(NextSeq, "payment", x, TRUE)}
    BY <1>1, <1>2, <2>1 DEF Delta
  <2>3. entries' = entries \cup {Entry(NextSeq, "payment", x, TRUE)} /\ d = NextSeq
    BY <2>2
  <2> QED BY <2>2, <2>3, Posting
<1>3. CASE Bank[l] < e.amount
  <2>1. PICK x \in Int : x = -(e.amount - Bank[l])
    BY <1>1
  <2>2. x < 0 /\ Delta(NextSeq, Bank[l], e.amount) = {Entry(NextSeq, "adjustment", x, TRUE)}
    <3>1. x < 0 /\ ~(Bank[l] > e.amount)
      BY <1>1, <1>3, <2>1
    <3> QED BY <1>3, <2>1, <3>1, Zenon DEF Delta
  <2>3. entries' = entries \cup {Entry(NextSeq, "adjustment", x, TRUE)} /\ d = NextSeq
    BY <2>2
  <2> QED BY <2>2, <2>3, Posting
<1>4. CASE Bank[l] = e.amount
  <2>1. ~(Bank[l] > e.amount) /\ ~(Bank[l] < e.amount)
    BY <1>1, <1>4
  <2>2. Delta(NextSeq, Bank[l], e.amount) = {}
    BY <2>1, Zenon DEF Delta
  <2>3. entries' = entries /\ d = 0
    BY <2>2
  <2>4. \A s : Reversed(s)' <=> Reversed(s)
    BY <2>3 DEF Reversed
  <2>5. NumberedRows(entries')
    BY <2>3 DEF IInv, Numbered
  <2>6. entries \subseteq Payments \cup Adjustments \cup ReversalRows
    BY DEF IInv, TypeOK
  <2> QED BY <2>3, <2>4, <2>5, <2>6
<1> QED BY <1>1, <1>2, <1>3, <1>4

LEMMA ConfirmStep ==
  ASSUME IInv, NEW l \in Lines, Confirm(l)
  PROVE  IInv'
<1>1. PICK e \in entries, d \in {0, NextSeq} :
        /\ LockPayment(e)
        /\ d = IF Delta(NextSeq, Bank[l], e.amount) = {} THEN 0 ELSE NextSeq
        /\ entries' = entries \cup Delta(NextSeq, Bank[l], e.amount)
        /\ matches' = matches \cup
             {[id |-> Cardinality(matches) + 1, line |-> l, entry |-> e.seq,
               delta |-> d, undone |-> FALSE]}
  BY DEF Confirm
<1>2. /\ lines[l].state = "open"
      /\ lines' = [lines EXCEPT ![l] = Line("matched", 0)]
      /\ UNCHANGED <<reviews, req>>
  BY DEF Confirm
<1> DEFINE n == [id |-> Cardinality(matches) + 1, line |-> l, entry |-> e.seq,
                 delta |-> d, undone |-> FALSE]
<1>3. e \in Payments
  BY <1>1 DEF LockPayment, IInv, TypeOK, Adjustments, ReversalRows
<1>4. /\ entries' \subseteq Payments \cup Adjustments \cup ReversalRows
      /\ NumberedRows(entries')
      /\ entries \subseteq entries'
      /\ \A s : s # 0 => (Reversed(s)' <=> Reversed(s))
      /\ d = 0 \/ (d = NextSeq /\ ByRecon(d)')
  BY <1>1, <1>3, ConfirmPosts
<1>5. matches' = matches \cup {n}
  BY <1>1
<1>6. /\ n.id = Cardinality(matches) + 1 /\ n.line = l /\ n.entry = e.seq
      /\ n.delta = d /\ ~n.undone
  OBVIOUS
<1>7. /\ NextSeq \in Seqs /\ NextSeq # 0 /\ ~Reversed(NextSeq)
      /\ \A s : ByRecon(s) => s # NextSeq
  BY Fresh DEF IInv, Numbered
<1>8. n \in MatchRows
  <2>1. e.seq \in Seqs /\ d \in Nat
    BY <1>3, <1>4, <1>7 DEF Payments, Seqs
  <2>2. Cardinality(matches) \in Nat
    BY FS_CardinalityType DEF IInv, Numbered, NumberedIds
  <2>3. Cardinality(matches) + 1 \in Seqs
    BY <2>2 DEF Seqs
  <2> QED BY <2>1, <2>3 DEF MatchRows
<1> HIDE DEF n
<1>9. lines[l].rec = 0 /\ (\A m \in Standing : m.line # l)
  BY <1>2 DEF IInv, Promises, LineTellsTheTruth
<1>10. /\ lines'[l].state = "matched"
       /\ \A k \in Lines : lines'[k].rec = lines[k].rec
       /\ \A k \in Lines : k # l => lines'[k] = lines[k]
  BY <1>2, <1>9 DEF IInv, TypeOK, Line
<1>11. Standing' = Standing \cup {n}
  BY <1>5, <1>6 DEF Standing
<1>12. TypeOK'
  BY <1>2, <1>4, <1>5, <1>8 DEF IInv, TypeOK, Line
<1>13. Numbered'
  BY <1>2, <1>4, <1>5, <1>6, AddId DEF IInv, Numbered
<1>14. Tied'
  <2>1. ByHand(e.seq)
    BY <1>1 DEF ByHand, LockPayment
  <2>2. \A m \in matches' : ByHand(m.entry)'
    BY <1>4, <1>5, <1>6, <2>1, Kept DEF IInv, Tied
  <2>3. \A m \in matches' : m.delta # 0 => ByRecon(m.delta)'
    BY <1>4, <1>5, <1>6, Kept DEF IInv, Tied
  <2>4. \A m \in matches : m.delta # 0 => m.delta # NextSeq
    BY <1>7 DEF IInv, Tied
  <2>5. \A m, k \in matches' : m.delta # 0 /\ m.delta = k.delta => m = k
    BY <1>4, <1>5, <1>6, <1>7, <2>4 DEF IInv, Tied
  <2>6. \A k \in Lines : lines'[k].rec # 0 => (ByRecon(lines[k].rec) /\ NoDifference(lines[k].rec))'
    <3> SUFFICES ASSUME NEW k \in Lines, NEW s, s = lines[k].rec, s # 0
                 PROVE  ByRecon(s)' /\ NoDifference(s)'
      BY <1>10 DEF NoDifference, ByRecon
    <3>1. ByRecon(s) /\ NoDifference(s) /\ s # NextSeq
      BY <1>7 DEF IInv, Tied
    <3> QED BY <1>4, <1>5, <1>6, <3>1, Kept DEF NoDifference
  <2> QED BY <2>2, <2>3, <2>5, <2>6 DEF Tied
<1>15. OneDecision'
  <2>1. \A m \in Standing : m.entry # e.seq
    BY <1>1 DEF LockPayment
  <2>2. \A v \in reviews : v.undone \/ v.entry # e.seq
    BY <1>1 DEF LockPayment
  <2> QED BY <1>2, <1>6, <1>9, <1>11, <2>1, <2>2 DEF IInv, Promises, OneDecision
<1>16. LineTellsTheTruth'
  <2> SUFFICES ASSUME NEW k \in Lines
               PROVE  /\ lines'[k].state = "matched" <=> \E m \in Standing' : m.line = k
                      /\ lines'[k].state = "recorded" <=> lines'[k].rec # 0
                      /\ lines'[k].rec # 0 =>
                           /\ \E f \in Posted' : f.seq = lines'[k].rec /\ f.amount = Bank[k]
                           /\ ~Reversed(lines[k].rec)'
                           /\ \A j \in Lines : lines'[j].rec = lines'[k].rec => j = k
    BY DEF LineTellsTheTruth, Reversed
  <2>1. \A f \in Posted : f \in Posted'
    BY <1>4 DEF Posted
  <2>2. \A s : s = lines[k].rec /\ s # 0 => ~Reversed(s)'
    BY <1>4 DEF IInv, Promises, LineTellsTheTruth
  <2>3. lines'[k].rec # 0 => ~Reversed(lines[k].rec)'
    BY <1>10, <2>2 DEF Reversed
  <2> QED BY <1>6, <1>9, <1>10, <1>11, <2>1, <2>3 DEF IInv, Promises, LineTellsTheTruth
<1>17. DifferenceFollowsMatch'
  BY <1>4, <1>5, <1>6, <1>7 DEF IInv, Promises, DifferenceFollowsMatch
<1>18. Pending'
  BY <1>2, <1>4, <1>5, <1>6, <1>10, Grown
<1> QED BY <1>12, <1>13, <1>14, <1>15, <1>16, <1>17, <1>18 DEF IInv, Promises

LEMMA RecordLineStep ==
  ASSUME IInv, NEW l \in Lines, RecordLine(l)
  PROVE  IInv'
<1>1. /\ lines[l].state = "open"
      /\ entries' = entries \cup {Entry(NextSeq, "payment", Bank[l], TRUE)}
      /\ lines' = [lines EXCEPT ![l] = Line("recorded", NextSeq)]
      /\ UNCHANGED <<matches, reviews, req>>
  BY DEF RecordLine
<1>2. Bank[l] \in Int /\ Bank[l] > 0
  BY AmountsAssumption
<1>3. /\ entries' \subseteq Payments \cup Adjustments \cup ReversalRows
      /\ NumberedRows(entries')
      /\ entries \subseteq entries'
      /\ \A s : s # 0 => (Reversed(s)' <=> Reversed(s))
      /\ \A s : s = NextSeq => ByRecon(s)'
  BY <1>1, <1>2, Posting
<1>4. /\ NextSeq \in Seqs /\ NextSeq # 0 /\ ~Reversed(NextSeq)
      /\ \A s : ByRecon(s) => s # NextSeq
  BY Fresh DEF IInv, Numbered
<1>5. PICK t \in {NextSeq} : TRUE
  OBVIOUS
<1>6. \E f \in Posted' : f.seq = t /\ f.amount = Bank[l]
  <2> DEFINE e == Entry(t, "payment", Bank[l], TRUE)
  <2>1. e \in entries' /\ e.kind # "reversal" /\ e.seq = t /\ e.amount = Bank[l]
    BY <1>1, <1>5 DEF Entry
  <2> QED BY <2>1 DEF Posted
<1>7. lines[l].rec = 0
  BY <1>1 DEF IInv, Promises, LineTellsTheTruth
<1>8. /\ lines'[l].state = "recorded" /\ lines'[l].rec = t
      /\ \A k \in Lines : k # l => lines'[k] = lines[k]
  BY <1>1 DEF IInv, TypeOK, Line
<1>9. \A k \in Lines : lines[k].rec # 0 => ByRecon(lines[k].rec) /\ NoDifference(lines[k].rec)
  BY DEF IInv, Tied
<1>10. TypeOK'
  BY <1>1, <1>3, <1>4 DEF IInv, TypeOK, Line, Seqs
<1>11. Numbered'
  BY <1>1, <1>3 DEF IInv, Numbered, NumberedIds
<1>12. Tied'
  <2>1. \A m \in matches : m.delta # 0 => m.delta # t
    BY <1>4 DEF IInv, Tied
  <2>2. \A s : NoDifference(s)' <=> NoDifference(s)
    BY <1>1 DEF NoDifference
  <2>3. NoDifference(t)
    BY <1>4, <2>1 DEF NoDifference
  <2>4. \A k \in Lines : \A s : s = lines'[k].rec /\ s # 0 => ByRecon(s)' /\ NoDifference(s)'
    BY <1>3, <1>8, <1>9, <2>2, <2>3, Kept
  <2>5. \A k \in Lines : lines'[k].rec # 0 => (ByRecon(lines[k].rec) /\ NoDifference(lines[k].rec))'
    BY <2>4 DEF ByRecon, NoDifference
  <2>6. \A m \in matches : ByHand(m.entry)' /\ (m.delta # 0 => ByRecon(m.delta)')
    BY <1>3, Kept DEF IInv, Tied
  <2> QED BY <1>1, <2>5, <2>6 DEF IInv, Tied
<1>13. OneDecision' /\ DifferenceFollowsMatch'
  BY <1>1, <1>3 DEF IInv, Promises, OneDecision, DifferenceFollowsMatch, Standing
<1>14. LineTellsTheTruth'
  <2> SUFFICES ASSUME NEW k \in Lines
               PROVE  /\ lines'[k].state = "matched" <=> \E m \in Standing' : m.line = k
                      /\ lines'[k].state = "recorded" <=> lines'[k].rec # 0
                      /\ lines'[k].rec # 0 =>
                           /\ \E f \in Posted' : f.seq = lines'[k].rec /\ f.amount = Bank[k]
                           /\ ~Reversed(lines[k].rec)'
                           /\ \A j \in Lines : lines'[j].rec = lines'[k].rec => j = k
    BY DEF LineTellsTheTruth, Reversed
  <2>1. \A f \in Posted : f \in Posted'
    BY <1>3 DEF Posted
  <2>2. \A s : s = lines'[k].rec /\ s # 0 => ~Reversed(s)'
    BY <1>3, <1>4, <1>8 DEF IInv, Promises, LineTellsTheTruth
  <2>3. lines'[k].rec # 0 => ~Reversed(lines[k].rec)'
    BY <2>2 DEF Reversed
  <2>4. Standing' = Standing
    BY <1>1 DEF Standing
  <2>5. \A j \in Lines : lines[j].rec # t
    BY <1>4, <1>9
  <2> QED BY <1>1, <1>4, <1>6, <1>8, <2>1, <2>3, <2>4, <2>5
          DEF IInv, Promises, LineTellsTheTruth
<1>15. Pending'
  BY <1>1, <1>3, <1>7, <1>8, Grown
<1> QED BY <1>10, <1>11, <1>12, <1>13, <1>14, <1>15 DEF IInv, Promises

-----------------------------------------------------------------------------
LEMMA ReversalTyped ==
  ASSUME IInv, NEW n \in Seqs, NEW a, Recorded(a)
  PROVE  Reversal(n, a) \in ReversalRows
<1> DEFINE f == CHOOSE e \in entries : e.seq = a
<1>1. \E e \in entries : e.seq = a
  BY DEF Recorded
<1>2. f \in entries /\ f.seq = a
  BY <1>1, Zenon
<1>3. f \in Payments \cup Adjustments \cup ReversalRows
  BY <1>2 DEF IInv, TypeOK
<1> HIDE DEF f
<1>4. f.amount \in Int
  <2>1. f \in Payments => f.amount \in Nat \ {0}
    BY DEF Payments
  <2>2. f \in Adjustments => f.amount \in Int
    BY DEF Adjustments
  <2>3. f \in ReversalRows => f.amount \in Int
    BY DEF ReversalRows
  <2> QED BY <1>3, <2>1, <2>2, <2>3
<1>5. AmountOf(a) \in Int
  BY <1>4 DEF AmountOf, f
<1>6. -AmountOf(a) \in Int
  BY <1>5
<1>7. a \in Seqs
  BY Numbers DEF IInv, Numbered
<1> QED BY <1>6, <1>7 DEF Reversal, ReversalRows

(* A row that lost nothing but its standing. *)
SameMatch(m, n) == m.id = n.id /\ m.entry = n.entry /\ m.delta = n.delta

(* When entries are reversed, matches unmade and lines opened, the ties that
   are left are old ones, and what is pending is done or can still be. *)
LEMMA Shrunk ==
  ASSUME IInv, NEW q \in Requests, Done(q), entries \subseteq entries',
         NumberedIds(matches'),
         \A m \in matches : \E n \in matches' : SameMatch(m, n),
         \A n \in matches' : \E m \in matches : SameMatch(m, n) /\ (~n.undone => ~m.undone),
         \A l \in Lines : lines'[l].rec \in {lines[l].rec, 0},
         \A l \in Lines : \A s : s = lines[l].rec /\ lines'[l].rec # s => Reversed(s)'
  PROVE  Tied' /\ Pending'
<1>1. \A s : NoDifference(s) => NoDifference(s)'
  BY DEF NoDifference, SameMatch
<1>2. Tied'
  <2>1. \A m \in matches' : ByHand(m.entry)' /\ (m.delta # 0 => ByRecon(m.delta)')
    BY Kept DEF IInv, Tied, SameMatch
  <2>2. \A m, n \in matches' : m.delta # 0 /\ m.delta = n.delta => m = n
    BY DEF IInv, Tied, SameMatch, NumberedIds
  <2>3. \A l \in Lines : \A s : s = lines'[l].rec /\ s # 0 => ByRecon(s)' /\ NoDifference(s)'
    BY <1>1, Kept DEF IInv, Tied
  <2> QED BY <2>1, <2>2, <2>3 DEF Tied
<1>3. Pending'
  <2> SUFFICES ASSUME NEW k \in Requests
               PROVE  Sound(req[k])'
    BY DEF Pending
  <2>1. req'[k] = req[k] \/ req'[k] = Idle
    BY DEF Done, IInv, TypeOK
  <2>2. CASE req'[k] = Idle
    BY <2>2 DEF Sound, Idle
  <2>3. CASE req'[k] = req[k]
    <3> DEFINE r == req[k]
               s == req[k].entry
    <3>1. Sound(r)
      BY DEF IInv, Pending
    <3>2. ASSUME r.pc = "reverse"
          PROVE  Recorded(s)' /\ (Reversed(s)' \/ Untied(s)')
      <4>1. PICK t \in {s} : TRUE
        OBVIOUS
      <4>2. Recorded(t) /\ (Reversed(t) \/ Untied(t)) /\ t # 0
        BY <3>1, <3>2, <4>1, Numbers DEF Sound, IInv, Numbered
      <4>3. Recorded(t)' /\ (Reversed(t) => Reversed(t)')
        BY <4>2, Kept
      <4>4. Untied(t) => Untied(t)'
        BY <4>2 DEF Untied, Standing, SameMatch
      <4> QED BY <2>3, <4>1, <4>2, <4>3, <4>4
    <3>3. r.pc = "unmake" => (r.own => s # 0) /\ \E m \in matches' : Found(r, m)
      BY <3>1 DEF Sound, Found, SameMatch
    <3>4. ASSUME r.pc = "unrecord"
          PROVE  /\ ByRecon(s)' /\ NoDifference(s)'
                 /\ lines'[r.line].rec = s \/ Reversed(s)'
      <4>1. PICK t \in {s} : TRUE
        OBVIOUS
      <4>2. r.line \in Lines
        BY <3>4, TodoShape DEF IInv
      <4>3. ByRecon(t) /\ NoDifference(t) /\ (lines[r.line].rec = t \/ Reversed(t))
        BY <3>1, <3>4, <4>1 DEF Sound
      <4>4. ByRecon(t)' /\ NoDifference(t)' /\ (Reversed(t) => Reversed(t)')
        BY <1>1, <4>3, Kept
      <4>5. lines'[r.line].rec = t \/ Reversed(t)'
        BY <4>2, <4>3, <4>4
      <4> QED BY <2>3, <4>1, <4>4, <4>5
    <3> QED BY <2>3, <3>2, <3>3, <3>4 DEF Sound, Found
  <2> QED BY <2>1, <2>2, <2>3
<1> QED BY <1>2, <1>3

LEMMA SameMatchSame == \A m : SameMatch(m, m)
BY DEF SameMatch

LEMMA PostReversalStep ==
  ASSUME IInv, NEW q \in Requests, PostReversal(q)
  PROVE  IInv'
<1>1. PICK a \in {req[q].entry} : TRUE
  OBVIOUS
<1>2. /\ req[q].pc = "reverse" /\ PostReversals(<<a>>) /\ Done(q)
      /\ UNCHANGED <<lines, matches, reviews>>
  BY <1>1 DEF PostReversal
<1>3. Recorded(a) /\ (Reversed(a) \/ Untied(a))
  BY <1>1, <1>2 DEF IInv, Pending, Sound
<1>4. /\ ~Reversed(a)
      /\ entries' = entries \cup {Reversal(Cardinality(entries) + 1, a)}
      /\ NumberedRows(entries')
      /\ \A s : Reversed(s)' <=> Reversed(s) \/ s = a
  BY <1>2, <1>3, ReverseOne DEF IInv, Numbered
<1>5. Untied(a)
  BY <1>3, <1>4
<1>6. Reversal(Cardinality(entries) + 1, a) \in ReversalRows
  BY <1>3, ReversalTyped, Fresh DEF NextSeq, IInv, Numbered
<1>7. TypeOK'
  BY <1>2, <1>4, <1>6 DEF IInv, TypeOK, Done
<1>8. Numbered'
  BY <1>2, <1>4 DEF IInv, Numbered, NumberedIds
<1>9. Tied' /\ Pending'
  BY <1>2, <1>4, SameMatchSame, Shrunk DEF IInv, Numbered, NumberedIds
<1>10. OneDecision'
  BY <1>2 DEF IInv, Promises, OneDecision, Standing
<1>11. LineTellsTheTruth'
  <2>1. \A e \in Posted : e \in Posted'
    BY <1>4 DEF Posted
  <2> QED BY <1>2, <1>4, <1>5, <2>1
          DEF IInv, Promises, LineTellsTheTruth, Standing, Untied
<1>12. DifferenceFollowsMatch'
  BY <1>2, <1>4, <1>5 DEF IInv, Promises, DifferenceFollowsMatch, Untied, Standing
<1> QED BY <1>7, <1>8, <1>9, <1>10, <1>11, <1>12 DEF IInv, Promises

LEMMA UnrecordStep ==
  ASSUME IInv, NEW q \in Requests, Unrecord(q)
  PROVE  IInv'
<1>1. PICK a \in {req[q].entry}, l \in {req[q].line} : TRUE
  OBVIOUS
<1>2. /\ req[q].pc = "unrecord" /\ lines[l] = Line("recorded", a)
      /\ PostReversals(<<a>>) /\ lines' = [lines EXCEPT ![l] = Open] /\ Done(q)
      /\ UNCHANGED <<matches, reviews>>
  BY <1>1 DEF Unrecord
<1>3. /\ l \in Lines /\ a \in Seqs /\ a # 0
      /\ lines[l].state = "recorded" /\ lines[l].rec = a
  BY <1>1, <1>2, TodoShape DEF IInv, Line, Seqs
<1>4. ByRecon(a) /\ NoDifference(a) /\ Recorded(a)
  BY <1>3, Numbers DEF IInv, Tied, Numbered
<1>5. /\ ~Reversed(a)
      /\ entries' = entries \cup {Reversal(Cardinality(entries) + 1, a)}
      /\ NumberedRows(entries')
      /\ \A s : Reversed(s)' <=> Reversed(s) \/ s = a
  BY <1>2, <1>4, ReverseOne DEF IInv, Numbered
<1>6. Reversal(Cardinality(entries) + 1, a) \in ReversalRows
  BY <1>4, ReversalTyped, Fresh DEF NextSeq, IInv, Numbered
<1>7. /\ lines'[l].state = "open" /\ lines'[l].rec = 0
      /\ \A k \in Lines : k # l => lines'[k] = lines[k]
  BY <1>2, <1>3 DEF IInv, TypeOK, Line, Open
<1>8. TypeOK'
  BY <1>2, <1>5, <1>6 DEF IInv, TypeOK, Done, Open, Line
<1>9. Numbered'
  BY <1>2, <1>5 DEF IInv, Numbered, NumberedIds
<1>10. Tied' /\ Pending'
  <2>1. \A k \in Lines : lines'[k].rec \in {lines[k].rec, 0}
    BY <1>7
  <2>2. \A k \in Lines : \A s : s = lines[k].rec /\ lines'[k].rec # s => Reversed(s)'
    BY <1>3, <1>5, <1>7
  <2> QED BY <1>2, <1>5, <1>9, <2>1, <2>2, SameMatchSame, Shrunk DEF Numbered
<1>11. OneDecision'
  BY <1>2 DEF IInv, Promises, OneDecision, Standing
<1>12. LineTellsTheTruth'
  <2>1. \A e \in Posted : e \in Posted'
    BY <1>5 DEF Posted
  <2>2. Standing' = Standing
    BY <1>2 DEF Standing
  <2>3. \A k \in Lines : \A s : k # l /\ s = lines[k].rec /\ s # 0 => ~Reversed(s)'
    BY <1>3, <1>5 DEF IInv, Promises, LineTellsTheTruth
  <2>4. \A k \in Lines : lines'[k].rec # 0 => ~Reversed(lines[k].rec)'
    BY <1>7, <2>3 DEF Reversed
  <2> QED BY <1>3, <1>7, <2>1, <2>2, <2>4 DEF IInv, Promises, LineTellsTheTruth
<1>13. DifferenceFollowsMatch'
  BY <1>2, <1>4, <1>5 DEF IInv, Promises, DifferenceFollowsMatch, NoDifference
<1> QED BY <1>8, <1>9, <1>10, <1>11, <1>12, <1>13 DEF IInv, Promises

(* What unmaking a match reverses: its difference, and its payment when that
   is what is undone. *)
LEMMA UnmakePosts ==
  ASSUME IInv, NEW q \in Requests, NEW m \in matches,
         PostReversals(UndoTargets(q, m))
  PROVE  /\ entries' \subseteq Payments \cup Adjustments \cup ReversalRows
         /\ entries \subseteq entries'
         /\ NumberedRows(entries')
         /\ \A s : Reversed(s)' <=>
              \/ Reversed(s)
              \/ s = m.delta /\ m.delta # 0
              \/ s = m.entry /\ req[q].own
<1>1. Recorded(m.entry) /\ (m.delta # 0 => Recorded(m.delta))
  BY Numbers DEF IInv, Tied, Numbered
<1>2. NumberedRows(entries) /\ entries \subseteq Payments \cup Adjustments \cup ReversalRows
  BY DEF IInv, Numbered, TypeOK
<1>3. Cardinality(entries) + 1 \in Seqs /\ Cardinality(entries) + 2 \in Seqs
  BY <1>2, Fresh DEF Seqs
<1>4. CASE ~req[q].own /\ m.delta = 0 /\ UndoTargets(q, m) = <<>>
  <2>1. entries' = entries
    BY <1>4, ReverseNone
  <2>2. \A s : Reversed(s)' <=> Reversed(s)
    BY <2>1 DEF Reversed
  <2> QED BY <1>2, <1>4, <2>1, <2>2
<1>5. CASE ~req[q].own /\ m.delta # 0 /\ UndoTargets(q, m) = <<m.delta>>
  <2>1. Reversal(Cardinality(entries) + 1, m.delta) \in ReversalRows
    BY <1>1, <1>3, <1>5, ReversalTyped
  <2> QED BY <1>1, <1>2, <1>5, <2>1, ReverseOne
<1>6. CASE req[q].own /\ m.delta = 0 /\ UndoTargets(q, m) = <<m.entry>>
  <2>1. Reversal(Cardinality(entries) + 1, m.entry) \in ReversalRows
    BY <1>1, <1>3, ReversalTyped
  <2> QED BY <1>1, <1>2, <1>6, <2>1, ReverseOne
<1>7. CASE req[q].own /\ m.delta # 0 /\ UndoTargets(q, m) = <<m.entry, m.delta>>
  <2>1. /\ Reversal(Cardinality(entries) + 1, m.entry) \in ReversalRows
        /\ Reversal(Cardinality(entries) + 2, m.delta) \in ReversalRows
    BY <1>1, <1>3, <1>7, ReversalTyped
  <2> QED BY <1>1, <1>2, <1>7, <2>1, ReverseTwo
<1> QED BY <1>4, <1>5, <1>6, <1>7, TargetsOfUnmake

LEMMA UnmakeMatchStep ==
  ASSUME IInv, NEW q \in Requests, UnmakeMatch(q)
  PROVE  IInv'
<1>1. PICK m \in Standing :
        /\ m.id = req[q].match
        /\ PostReversals(UndoTargets(q, m))
        /\ matches' = (matches \ {m}) \cup {[m EXCEPT !.undone = TRUE]}
        /\ lines' = [lines EXCEPT ![m.line] = Open]
  BY DEF UnmakeMatch
<1>2. Done(q) /\ UNCHANGED reviews
  BY DEF UnmakeMatch
<1> DEFINE c == [m EXCEPT !.undone = TRUE]
<1>3. m \in matches /\ ~m.undone /\ m \in MatchRows
  BY DEF Standing, IInv, TypeOK
<1>4. c \in MatchRows /\ c.undone /\ c.line = m.line /\ SameMatch(m, c) /\ c.id = m.id
  BY <1>3 DEF MatchRows, SameMatch
<1>5. matches' = (matches \ {m}) \cup {c}
  BY <1>1
<1> HIDE DEF c
<1>6. /\ entries' \subseteq Payments \cup Adjustments \cup ReversalRows
      /\ entries \subseteq entries'
      /\ NumberedRows(entries')
      /\ \A s : Reversed(s)' <=>
           \/ Reversed(s)
           \/ s = m.delta /\ m.delta # 0
           \/ s = m.entry /\ req[q].own
  BY <1>1, <1>3, UnmakePosts
<1>7. NumberedIds(matches')
  BY <1>3, <1>4, <1>5, ReplaceId DEF IInv, Numbered
<1>8. Standing' = Standing \ {m}
  BY <1>3, <1>4, <1>5 DEF Standing
<1>9. m.line \in Lines /\ lines[m.line].state = "matched" /\ lines[m.line].rec = 0
  BY <1>3 DEF MatchRows, IInv, Promises, LineTellsTheTruth
<1>10. /\ lines'[m.line].state = "open" /\ lines'[m.line].rec = 0
       /\ \A k \in Lines : k # m.line => lines'[k] = lines[k]
       /\ \A k \in Lines : lines'[k].rec = lines[k].rec
  BY <1>1, <1>9 DEF IInv, TypeOK, Line, Open
<1>11. TypeOK'
  BY <1>1, <1>2, <1>4, <1>5, <1>6 DEF IInv, TypeOK, Done, Open, Line
<1>12. Numbered'
  BY <1>2, <1>6, <1>7 DEF IInv, Numbered
<1>13. Tied' /\ Pending'
  <2>1. \A n \in matches : \E k \in matches' : SameMatch(n, k)
    BY <1>4, <1>5, SameMatchSame
  <2>2. \A k \in matches' : \E n \in matches : SameMatch(n, k) /\ (~k.undone => ~n.undone)
    BY <1>3, <1>4, <1>5, SameMatchSame
  <2> QED BY <1>2, <1>6, <1>7, <1>10, <2>1, <2>2, Shrunk
<1>14. OneDecision'
  BY <1>2, <1>8 DEF IInv, Promises, OneDecision
<1>15. LineTellsTheTruth'
  <2>1. \A e \in Posted : e \in Posted'
    BY <1>6 DEF Posted
  <2>2. \A k \in Lines : \A s : s = lines[k].rec /\ s # 0 => s # m.delta /\ s # m.entry
    BY <1>3, Numbers DEF IInv, Tied, NoDifference, Numbered
  <2>3. \A k \in Lines : \A s : s = lines[k].rec /\ s # 0 => ~Reversed(s)'
    BY <1>6, <2>2 DEF IInv, Promises, LineTellsTheTruth
  <2>4. \A k \in Lines : lines'[k].rec # 0 => ~Reversed(lines[k].rec)'
    BY <1>10, <2>3 DEF Reversed
  <2>5. \A n \in Standing' : n.line # m.line
    BY <1>8 DEF IInv, Promises, OneDecision
  <2>6. \A k \in Lines : lines'[k].state = "matched" <=> \E n \in Standing' : n.line = k
    BY <1>8, <1>10, <2>5 DEF IInv, Promises, LineTellsTheTruth
  <2>7. \A k \in Lines : lines'[k].state = "recorded" <=> lines'[k].rec # 0
    BY <1>9, <1>10 DEF IInv, Promises, LineTellsTheTruth
  <2>8. \A k \in Lines : lines'[k].rec # 0 =>
          /\ \E e \in Posted' : e.seq = lines'[k].rec /\ e.amount = Bank[k]
          /\ \A j \in Lines : lines'[j].rec = lines'[k].rec => j = k
    BY <1>10, <2>1 DEF IInv, Promises, LineTellsTheTruth
  <2> QED BY <2>4, <2>6, <2>7, <2>8 DEF LineTellsTheTruth
<1>16. DifferenceFollowsMatch'
  <2> SUFFICES ASSUME NEW n \in matches', NEW d, d = n.delta, d # 0
               PROVE  n.undone <=> Reversed(d)'
    BY DEF DifferenceFollowsMatch
  <2>1. CASE n = c
    BY <1>4, <1>6, <2>1 DEF SameMatch
  <2>2. CASE n # c
    <3>1. n \in matches /\ n # m
      BY <1>5, <2>2
    <3>2. d # m.delta /\ d # m.entry
      BY <1>3, <3>1, Numbers DEF IInv, Tied, Numbered
    <3> QED BY <1>6, <3>1, <3>2 DEF IInv, Promises, DifferenceFollowsMatch
  <2> QED BY <2>1, <2>2
<1> QED BY <1>11, <1>12, <1>13, <1>14, <1>15, <1>16 DEF IInv, Promises

-----------------------------------------------------------------------------
LEMMA InitIInv ==
  ASSUME Init
  PROVE  IInv
<1>1. entries = {} /\ matches = {} /\ reviews = {}
  BY DEF Init
<1>2. \A l \in Lines : lines[l] = Line("open", 0)
  BY DEF Init, Open
<1>3. \A q \in Requests : req[q] = Idle
  BY DEF Init
<1>4. TypeOK
  BY DEF Init, TypeOK, Open, Line
<1>5. Numbered
  BY <1>1, FS_EmptySet DEF Numbered, NumberedRows, NumberedIds
<1>6. Tied
  BY <1>1, <1>2 DEF Tied, Line
<1>7. Pending
  BY <1>3, SoundIdle DEF Pending
<1>8. OneDecision /\ DifferenceFollowsMatch
  BY <1>1 DEF OneDecision, DifferenceFollowsMatch, Standing
<1>9. LineTellsTheTruth
  BY <1>1, <1>2 DEF LineTellsTheTruth, Standing, Line
<1> QED BY <1>4, <1>5, <1>6, <1>7, <1>8, <1>9 DEF IInv, Promises

LEMMA StutterIInv ==
  ASSUME IInv, UNCHANGED vars
  PROVE  IInv'
<1>1. UNCHANGED <<lines, entries, matches, reviews, req>>
  BY DEF vars
<1>2. TypeOK' /\ Numbered' /\ Tied' /\ Promises'
  BY <1>1 DEF IInv, TypeOK, Numbered, NumberedRows, NumberedIds, Tied, ByHand, ByRecon,
              NoDifference, Promises, OneDecision, LineTellsTheTruth,
              DifferenceFollowsMatch, Standing, Posted, Reversed
<1>3. Pending'
  BY <1>1 DEF IInv, Pending, Sound, Recorded, Reversed, Untied, Standing, Found, ByRecon,
              NoDifference
<1> QED BY <1>2, <1>3 DEF IInv

LEMMA NextIInv ==
  ASSUME IInv, [Next]_vars
  PROVE  IInv'
<1>1. CASE Pay
  BY <1>1, PayStep
<1>2. CASE SetPaymentNotInBank
  BY <1>2, SetAsideStep
<1>3. CASE UndoPaymentReview
  BY <1>3, UndoReviewStep
<1>4. ASSUME NEW l \in Lines, Decide(l)
      PROVE  IInv'
  BY <1>4, ConfirmStep, RecordLineStep, IgnoreStep DEF Decide
<1>5. ASSUME NEW q \in Requests, Undo(q)
      PROVE  IInv'
  BY <1>5, ReverseStep, UndoMatchStep, UnrecordLineStep, PostReversalStep, UnmakeMatchStep,
     FallBackStep, UnrecordStep, GiveUpStep DEF Undo
<1>6. CASE UNCHANGED vars
  BY <1>6, StutterIInv
<1> QED BY <1>1, <1>2, <1>3, <1>4, <1>5, <1>6 DEF Next

LEMMA Inductive == Spec => []IInv
<1>1. Init => IInv
  BY InitIInv
<1>2. IInv /\ [Next]_vars => IInv'
  BY NextIInv
<1> QED BY <1>1, <1>2, PTL DEF Spec

(* The rows of every table satisfy its CHECK constraints, and an undo holds
   what ReconLinks can answer (sqldb/matches.go, ledger/reconcile.go). *)
THEOREM TypeCorrect == Spec => []TypeOK
<1>1. IInv => TypeOK
  BY DEF IInv
<1> QED BY <1>1, Inductive, PTL

(* A payment is decided on once: lockPayment's three checks, under its lock,
   suffice against every interleaving of confirmations, reviews and undos. *)
THEOREM DecidedOnce == Spec => []OneDecision
<1>1. IInv => OneDecision
  BY DEF IInv, Promises
<1> QED BY <1>1, Inductive, PTL

(* A line's state says exactly what the matches and the tab hold of it, as
   Confirm, RecordLine, UnmakeMatch and Unrecord write both in one
   transaction. *)
THEOREM LinesTellTheTruth == Spec => []LineTellsTheTruth
<1>1. IInv => LineTellsTheTruth
  BY DEF IInv, Promises
<1> QED BY <1>1, Inductive, PTL

(* The difference a confirmation posts is reversed with its match and never
   without it, whichever of the two is undone and from which page. *)
THEOREM DifferencesFollow == Spec => []DifferenceFollowsMatch
<1>1. IInv => DifferenceFollowsMatch
  BY DEF IInv, Promises
<1> QED BY <1>1, Inductive, PTL

-----------------------------------------------------------------------------
LEMMA RefusedUnmake ==
  ASSUME IInv, NEW q \in Requests, req[q].pc = "unmake", NEW m \in Standing,
         m.id = req[q].match, ~Reversible(UndoTargets(q, m))
  PROVE  req[q].entry # 0 /\ Reversed(req[q].entry)
<1>1. m \in matches /\ ~m.undone
  BY DEF Standing
<1>2. Found(req[q], m) /\ (req[q].own => req[q].entry # 0)
  BY <1>1 DEF IInv, Pending, Sound, Found, Numbered, NumberedIds
<1>3. m.delta # 0 => ~Reversed(m.delta)
  BY <1>1 DEF IInv, Promises, DifferenceFollowsMatch
<1>4. req[q].own /\ Reversed(m.entry)
  BY <1>3, TargetsOfUnmake DEF Reversible
<1> QED BY <1>2, <1>4 DEF Found

LEMMA IInvRefused == IInv => RefusedIsUndone
<1> SUFFICES ASSUME IInv, NEW q \in Requests, Refused(q)
             PROVE  IF req[q].entry # 0 THEN Reversed(req[q].entry)
                    ELSE \E m \in matches : m.id = req[q].match /\ m.undone
  BY DEF RefusedIsUndone
<1>1. Sound(req[q])
  BY DEF IInv, Pending
<1>2. CASE req[q].pc = "reverse" /\ Reversed(req[q].entry)
  BY <1>2, TodoShape DEF IInv, Seqs
<1>3. CASE req[q].pc = "unmake"
           /\ \E m \in Standing : m.id = req[q].match /\ ~Reversible(UndoTargets(q, m))
  BY <1>3, RefusedUnmake
<1>4. CASE req[q].pc = "unmake" /\ ~req[q].own /\ \A m \in Standing : m.id # req[q].match
  <2>1. PICK m \in matches : Found(req[q], m)
    BY <1>1, <1>4 DEF Sound
  <2>2. m.id = req[q].match /\ m.undone /\ req[q].entry \in {0, m.delta}
    BY <1>4, <2>1 DEF Found, Standing
  <2> QED BY <2>2 DEF IInv, Promises, DifferenceFollowsMatch
<1>5. CASE req[q].pc = "unrecord" /\ lines[req[q].line] # Line("recorded", req[q].entry)
  <2> DEFINE l == req[q].line
  <2>1. l \in Lines /\ req[q].entry # 0
    BY <1>5, TodoShape DEF IInv, Seqs
  <2>2. ASSUME lines[l].rec = req[q].entry
        PROVE  FALSE
    <3>1. lines[l].state = "recorded"
      BY <2>1, <2>2 DEF IInv, Promises, LineTellsTheTruth
    <3>2. lines[l] \in [state : {"open", "matched", "recorded", "ignored"}, rec : Nat]
      BY <2>1 DEF IInv, TypeOK
    <3> QED BY <1>5, <2>2, <3>1, <3>2 DEF Line
  <2> QED BY <1>1, <1>5, <2>1, <2>2 DEF Sound
<1> QED BY <1>2, <1>3, <1>4, <1>5 DEF Refused

(* Whoever is told that an entry or a match was undone already is told the
   truth: no interleaving makes the store refuse the undo of one that stands
   (ledger/reconcile.go). *)
THEOREM RefusalsAreTrue == Spec => []RefusedIsUndone
BY Inductive, IInvRefused, PTL

-----------------------------------------------------------------------------
(* The balance. What stands by hand and unmatched, and what the standing
   matches T show, is one side of it. *)
HandIn(E, s) == \E e \in E : e.seq = s /\ e.kind # "reversal" /\ ~e.recon

ReversedIn(E, s) == \E e \in E : e.reverses = s

AmountIn(E, s) == (CHOOSE e \in E : e.seq = s).amount

LooseIn(E, T) ==
  {e \in E : /\ e.kind # "reversal" /\ ~e.recon /\ ~ReversedIn(E, e.seq)
             /\ \A m \in T : m.entry # e.seq}

ShownIn(E, m) == Bank[m.line] - (IF ReversedIn(E, m.entry) THEN AmountIn(E, m.entry) ELSE 0)

Shows(E, T) == SumFunction([m \in T |-> ShownIn(E, m)])

Side(E, T) == Sum(LooseIn(E, T)) + Shows(E, T)

(* Numbered rows, and standing matches of payments made by hand. *)
Books(E, T) ==
  /\ NumberedRows(E) /\ \A e \in E : e.amount \in Int
  /\ IsFiniteSet(T) /\ \A m \in T : m.line \in Lines /\ HandIn(E, m.entry)
  /\ \A m, n \in T : m.entry = n.entry => m = n

LEMMA RowSums ==
  ASSUME NEW S, IsFiniteSet(S), \A e \in S : e.amount \in Int
  PROVE  /\ Sum(S) \in Int
         /\ \A x \in S : Sum(S) = x.amount + Sum(S \ {x})
<1> PICK f : f = [e \in S |-> e.amount]
  OBVIOUS
<1>1. f \in [S -> Int] /\ Sum(S) = SumFunction(f)
  BY DEF Sum
<1>2. Sum(S) \in Int
  <2>1. f = [e \in S |-> f[e]] /\ \A e \in S : f[e] \in Int
    BY <1>1
  <2> QED BY <1>1, <2>1, SumIsInt
<1>3. ASSUME NEW x \in S PROVE Sum(S) = x.amount + Sum(S \ {x})
  <2> PICK T : T = S \ {x}
    OBVIOUS
  <2> PICK g : g = [e \in T |-> f[e]]
    OBVIOUS
  <2>1. SumFunction(f) = f[x] + SumFunction(g)
    BY <1>1, SumWithout
  <2>2. g = [e \in T |-> e.amount]
    OBVIOUS
  <2> QED BY <1>1, <2>1, <2>2 DEF Sum
<1> QED BY <1>2, <1>3

(* A row more, and a row less. *)
LEMMA RowMore ==
  ASSUME NEW S, IsFiniteSet(S), \A e \in S : e.amount \in Int,
         NEW x, x.amount \in Int, x \notin S
  PROVE  Sum(S \cup {x}) = Sum(S) + x.amount /\ Sum(S) \in Int
<1> PICK T : T = S \cup {x}
  OBVIOUS
<1>1. IsFiniteSet(T) /\ (\A e \in T : e.amount \in Int) /\ x \in T /\ T \ {x} = S
  BY FS_AddElement
<1>2. Sum(T) = x.amount + Sum(T \ {x})
  BY <1>1, RowSums
<1>3. PICK n \in Int : n = Sum(S)
  BY RowSums
<1>4. PICK a \in Int : a = x.amount
  OBVIOUS
<1>5. Sum(T) = a + n
  BY <1>1, <1>2, <1>3, <1>4
<1> QED BY <1>3, <1>4, <1>5

(* What every match shows, and what they do without one of them. *)
LEMMA ShowsSums ==
  ASSUME NEW E, NEW T, IsFiniteSet(T), \A m \in T : ShownIn(E, m) \in Int
  PROVE  /\ Shows(E, T) \in Int
         /\ \A m \in T : Shows(E, T) = ShownIn(E, m) + Shows(E, T \ {m})
<1> PICK f : f = [m \in T |-> ShownIn(E, m)]
  OBVIOUS
<1>1. f \in [T -> Int] /\ Shows(E, T) = SumFunction(f)
  BY DEF Shows
<1>2. Shows(E, T) \in Int
  <2>1. f = [m \in T |-> f[m]] /\ \A m \in T : f[m] \in Int
    BY <1>1
  <2> QED BY <1>1, <2>1, SumIsInt
<1>3. ASSUME NEW m \in T PROVE Shows(E, T) = ShownIn(E, m) + Shows(E, T \ {m})
  <2> PICK U : U = T \ {m}
    OBVIOUS
  <2> PICK g : g = [k \in U |-> f[k]]
    OBVIOUS
  <2>1. SumFunction(f) = f[m] + SumFunction(g)
    BY <1>1, SumWithout
  <2>2. g = [k \in U |-> ShownIn(E, k)]
    OBVIOUS
  <2> QED BY <1>1, <2>1, <2>2 DEF Shows
<1> QED BY <1>2, <1>3

LEMMA ShowsSame ==
  ASSUME NEW E, NEW F, NEW T, \A m \in T : ShownIn(E, m) = ShownIn(F, m)
  PROVE  Shows(E, T) = Shows(F, T)
BY DEF Shows

(* What is looked up by its number. *)
LEMMA AmountIs ==
  ASSUME NEW E, NumberedRows(E), NEW e \in E
  PROVE  AmountIn(E, e.seq) = e.amount
<1> PICK f : f = CHOOSE x \in E : x.seq = e.seq
  OBVIOUS
<1>1. f \in E /\ f.seq = e.seq
  OBVIOUS
<1>2. f = e
  BY <1>1 DEF NumberedRows
<1> QED BY <1>2 DEF AmountIn

(* The books are sums of integers. *)
LEMMA SideTyped ==
  ASSUME NEW E, NEW T, Books(E, T)
  PROVE  /\ IsFiniteSet(E) /\ Cardinality(E) \in Nat
         /\ Sum(E) \in Int
         /\ IsFiniteSet(LooseIn(E, T)) /\ (\A e \in LooseIn(E, T) : e.amount \in Int)
         /\ Sum(LooseIn(E, T)) \in Int
         /\ \A m \in T : Bank[m.line] \in Int /\ ShownIn(E, m) \in Int
         /\ Shows(E, T) \in Int
<1>1. IsFiniteSet(E) /\ (\A e \in E : e.amount \in Int) /\ IsFiniteSet(T)
  BY DEF Books, NumberedRows
<1>2. LooseIn(E, T) \subseteq E
  BY DEF LooseIn
<1>3. IsFiniteSet(LooseIn(E, T)) /\ (\A e \in LooseIn(E, T) : e.amount \in Int)
  BY <1>1, <1>2, FS_Subset
<1>4. ASSUME NEW m \in T PROVE Bank[m.line] \in Int /\ ShownIn(E, m) \in Int
  <2>1. PICK e \in E : e.seq = m.entry
    BY DEF Books, HandIn
  <2>2. AmountIn(E, m.entry) \in Int
    BY <1>1, <2>1, AmountIs DEF Books
  <2>3. Bank[m.line] \in Int
    BY AmountsAssumption DEF Books
  <2> QED BY <2>2, <2>3 DEF ShownIn
<1>5. Sum(E) \in Int /\ Sum(LooseIn(E, T)) \in Int
  BY <1>1, <1>3, RowSums
<1>6. Shows(E, T) \in Int
  BY <1>1, <1>4, ShowsSums
<1> QED BY <1>1, <1>3, <1>4, <1>5, <1>6, FS_CardinalityType

LEMMA ShowsWithout ==
  ASSUME NEW E, NEW T, Books(E, T), NEW m \in T, NEW U, U = T \ {m}
  PROVE  Shows(E, T) = ShownIn(E, m) + Shows(E, U)
BY SideTyped, ShowsSums DEF Books

(* An entry posted: by hand it stands on both sides, and otherwise something
   else answers for it. *)
LEMMA SideAdd ==
  ASSUME NEW E, NEW T, Books(E, T),
         NEW x, x.seq = Cardinality(E) + 1, x.kind # "reversal", x.reverses = 0,
         x.amount \in Int, x.recon \in BOOLEAN, NEW F, F = E \cup {x}
  PROVE  /\ Books(F, T)
         /\ Sum(F) = Sum(E) + x.amount
         /\ x.recon => Side(F, T) = Side(E, T)
         /\ ~x.recon => Side(F, T) = Side(E, T) + x.amount
<1>1. /\ IsFiniteSet(E) /\ Cardinality(E) \in Nat /\ NumberedRows(E)
      /\ \A e \in E : e.amount \in Int
  BY SideTyped DEF Books
<1>2. \A e \in E : e.seq \in 1..Cardinality(E) /\ e.reverses \in 0..Cardinality(E)
  BY <1>1 DEF NumberedRows
<1>3. x \notin E /\ ~ReversedIn(E, x.seq) /\ ~ReversedIn(F, x.seq)
  BY <1>1, <1>2 DEF ReversedIn
<1>4. NumberedRows(F)
  BY <1>1, AddRow
<1>5. \A s : s # 0 => (ReversedIn(F, s) <=> ReversedIn(E, s))
  BY DEF ReversedIn
<1>6. \A e \in E : e.seq # 0
  BY <1>1, <1>2
<1>7. \A m \in T : HandIn(E, m.entry) /\ HandIn(F, m.entry) /\ m.entry # 0 /\ m.entry # x.seq
  BY <1>1, <1>2 DEF Books, HandIn
<1>8. Books(F, T)
  BY <1>4, <1>7 DEF Books
<1>9. Sum(F) = Sum(E) + x.amount
  BY <1>1, <1>3, RowMore
<1>10. Shows(F, T) = Shows(E, T)
  <2>1. ASSUME NEW m \in T PROVE ShownIn(F, m) = ShownIn(E, m)
    <3>1. PICK e \in E : e.seq = m.entry
      BY <1>7 DEF HandIn
    <3>2. AmountIn(E, m.entry) = e.amount /\ AmountIn(F, m.entry) = e.amount
      BY <1>1, <1>4, <3>1, AmountIs
    <3> QED BY <1>5, <1>7, <3>2 DEF ShownIn
  <2> QED BY <2>1, ShowsSame
<1>11. CASE x.recon
  <2>1. LooseIn(F, T) = LooseIn(E, T)
    BY <1>5, <1>6, <1>11 DEF LooseIn
  <2>2. Side(F, T) = Side(E, T) /\ Side(E, T) \in Int
    BY <1>10, <2>1, SideTyped DEF Side
  <2> QED BY <1>8, <1>9, <1>11, <2>2
<1>12. CASE ~x.recon
  <2>1. LooseIn(F, T) = LooseIn(E, T) \cup {x}
    BY <1>3, <1>5, <1>6, <1>7, <1>12 DEF LooseIn
  <2>2. x \notin LooseIn(E, T)
    BY <1>3 DEF LooseIn
  <2>3. Sum(LooseIn(F, T)) = Sum(LooseIn(E, T)) + x.amount
    BY <2>1, <2>2, SideTyped, RowMore
  <2>4. PICK n \in Int, k \in Int, a \in Int :
          n = Sum(LooseIn(E, T)) /\ k = Shows(E, T) /\ a = x.amount
    BY SideTyped
  <2>5. Side(F, T) = (n + a) + k /\ Side(E, T) = n + k
    BY <1>10, <2>3, <2>4 DEF Side
  <2>6. Side(F, T) = Side(E, T) + a
    BY <2>5
  <2> QED BY <1>8, <1>9, <1>12, <2>4, <2>6
<1> QED BY <1>11, <1>12

(* A standing match fewer: its payment stands by itself again, if it was not
   reversed. *)
LEMMA SideUnmatch ==
  ASSUME NEW E, NEW T, Books(E, T), NEW m \in T, NEW e \in E, e.seq = m.entry,
         NEW U, U = T \ {m}
  PROVE  /\ Books(E, U)
         /\ Side(E, T) = Side(E, U) + Bank[m.line] - e.amount
<1>1. NumberedRows(E) /\ e.kind # "reversal" /\ ~e.recon /\ e.amount \in Int
  BY DEF Books, HandIn, NumberedRows
<1>2. Books(E, U)
  BY FS_Subset DEF Books
<1>3. AmountIn(E, m.entry) = e.amount
  BY <1>1, AmountIs
<1>4. \A n \in U : n.entry # m.entry
  BY DEF Books
<1>5. \A f \in E : f.seq = e.seq => f = e
  BY <1>1 DEF NumberedRows
<1>6. Shows(E, T) = ShownIn(E, m) + Shows(E, U)
  BY ShowsWithout
<1>7. PICK b \in Int, a \in Int, n \in Int, k \in Int :
        b = Bank[m.line] /\ a = e.amount /\ n = Sum(LooseIn(E, T)) /\ k = Shows(E, U)
  BY <1>1, <1>2, SideTyped
<1>8. CASE ReversedIn(E, m.entry)
  <2>1. LooseIn(E, U) = LooseIn(E, T)
    BY <1>5, <1>8 DEF LooseIn
  <2>2. ShownIn(E, m) = b - a
    BY <1>3, <1>7, <1>8 DEF ShownIn
  <2>3. Side(E, T) = n + ((b - a) + k) /\ Side(E, U) = n + k
    BY <1>6, <1>7, <2>1, <2>2 DEF Side
  <2>4. Side(E, T) = Side(E, U) + b - a
    BY <2>3
  <2> QED BY <1>2, <1>7, <2>4
<1>9. CASE ~ReversedIn(E, m.entry)
  <2>1. LooseIn(E, U) = LooseIn(E, T) \cup {e}
    BY <1>1, <1>4, <1>5, <1>9 DEF LooseIn
  <2>2. e \notin LooseIn(E, T)
    BY DEF LooseIn
  <2>3. Sum(LooseIn(E, U)) = n + a
    BY <1>1, <1>7, <2>1, <2>2, SideTyped, RowMore
  <2>4. ShownIn(E, m) = b
    BY <1>7, <1>9 DEF ShownIn
  <2>5. Side(E, T) = n + (b + k) /\ Side(E, U) = (n + a) + k
    BY <1>6, <1>7, <2>3, <2>4 DEF Side
  <2>6. Side(E, T) = Side(E, U) + b - a
    BY <2>5
  <2> QED BY <1>2, <1>7, <2>6
<1> QED BY <1>8, <1>9

(* A match more, of a payment that stood by itself. *)
LEMMA SideMatch ==
  ASSUME NEW E, NEW T, Books(E, T), NEW e \in LooseIn(E, T),
         NEW m, m \notin T, m.line \in Lines, m.entry = e.seq, NEW U, U = T \cup {m}
  PROVE  /\ Books(E, U)
         /\ Side(E, U) = Side(E, T) + Bank[m.line] - e.amount
<1>1. e \in E /\ HandIn(E, e.seq) /\ \A n \in T : n.entry # e.seq
  BY DEF LooseIn, HandIn
<1>2. Books(E, U)
  BY <1>1, FS_AddElement DEF Books
<1>3. T = U \ {m} /\ m \in U
  OBVIOUS
<1> QED BY <1>1, <1>2, <1>3, SideUnmatch

(* A reversal posted: an entry made by hand goes from both sides, whether it
   stood by itself or a match showed it. *)
LEMMA SideReverse ==
  ASSUME NEW E, NEW T, Books(E, T),
         NEW e \in E, e.kind # "reversal", e.recon \in BOOLEAN, ~ReversedIn(E, e.seq),
         NEW x, x.seq = Cardinality(E) + 1, x.kind = "reversal", x.reverses = e.seq,
         x.amount = -AmountIn(E, e.seq), NEW F, F = E \cup {x}
  PROVE  /\ Books(F, T)
         /\ Sum(F) = Sum(E) - e.amount
         /\ e.recon => Side(F, T) = Side(E, T)
         /\ ~e.recon => Side(F, T) = Side(E, T) - e.amount
<1>1. /\ IsFiniteSet(E) /\ Cardinality(E) \in Nat /\ NumberedRows(E)
      /\ \A f \in E : f.amount \in Int
  BY SideTyped DEF Books
<1>2. \A f \in E : f.seq \in 1..Cardinality(E) /\ f.reverses \in 0..Cardinality(E)
  BY <1>1 DEF NumberedRows
<1>3. AmountIn(E, e.seq) = e.amount
  BY <1>1, AmountIs
<1>4. PICK a \in Int : a = e.amount /\ x.amount = -a
  BY <1>1, <1>3
<1>5. x \notin E /\ x.amount \in Int
  BY <1>1, <1>2, <1>4
<1>6. NumberedRows(F)
  <2>1. x.reverses \in 0..Cardinality(E)
    BY <1>1, <1>2
  <2> QED BY <1>1, <2>1, AddRow
<1>7. \A s : ReversedIn(F, s) <=> ReversedIn(E, s) \/ s = e.seq
  BY DEF ReversedIn
<1>8. \A f \in E : f.seq = e.seq => f = e
  BY <1>1 DEF NumberedRows
<1>9. \A m \in T : HandIn(E, m.entry) /\ HandIn(F, m.entry)
  BY DEF Books, HandIn
<1>10. Books(F, T)
  BY <1>5, <1>6, <1>9 DEF Books
<1>11. Sum(F) = Sum(E) - a
  <2>1. Sum(F) = Sum(E) + x.amount /\ Sum(E) \in Int
    BY <1>1, <1>5, RowMore
  <2> QED BY <1>4, <2>1
<1>12. \A m \in T : AmountIn(F, m.entry) = AmountIn(E, m.entry)
  <2> TAKE m \in T
  <2>1. PICK f \in E : f.seq = m.entry
    BY <1>9 DEF HandIn
  <2> QED BY <1>1, <1>6, <2>1, AmountIs
<1>13. \A m \in T : m.entry # e.seq => ShownIn(F, m) = ShownIn(E, m)
  BY <1>7, <1>12 DEF ShownIn
<1>14. PICK n \in Int, k \in Int : n = Sum(LooseIn(E, T)) /\ k = Shows(E, T)
  BY SideTyped
<1>15. CASE e.recon
  <2>1. \A m \in T : m.entry # e.seq
    BY <1>8, <1>9, <1>15 DEF HandIn
  <2>2. Shows(F, T) = Shows(E, T)
    BY <1>13, <2>1, ShowsSame
  <2>3. LooseIn(F, T) = LooseIn(E, T)
    BY <1>7, <1>8, <1>15 DEF LooseIn
  <2>4. Side(F, T) = n + k /\ Side(E, T) = n + k
    BY <1>14, <2>2, <2>3 DEF Side
  <2> QED BY <1>4, <1>10, <1>11, <1>15, <2>4
<1>16. CASE ~e.recon /\ \A m \in T : m.entry # e.seq
  <2>1. Shows(F, T) = Shows(E, T)
    BY <1>13, <1>16, ShowsSame
  <2>2. e \in LooseIn(E, T)
    BY <1>16 DEF LooseIn
  <2>3. LooseIn(F, T) = LooseIn(E, T) \ {e}
    BY <1>7, <1>8 DEF LooseIn
  <2>4. Sum(LooseIn(E, T)) = e.amount + Sum(LooseIn(E, T) \ {e})
    BY <2>2, SideTyped, RowSums
  <2>5. PICK l \in Int : l = Sum(LooseIn(F, T))
    BY <1>10, SideTyped
  <2>6. n = a + l
    BY <1>4, <1>14, <2>3, <2>4, <2>5
  <2>7. Side(F, T) = l + k /\ Side(E, T) = n + k
    BY <1>14, <2>1, <2>5 DEF Side
  <2>8. Side(F, T) = Side(E, T) - a
    BY <2>6, <2>7
  <2> QED BY <1>4, <1>10, <1>11, <1>16, <2>8
<1>17. ASSUME ~e.recon, NEW m \in T, m.entry = e.seq
       PROVE  /\ Sum(F) = Sum(E) - e.amount
              /\ Side(F, T) = Side(E, T) - e.amount
  <2> PICK U : U = T \ {m}
    OBVIOUS
  <2>1. Shows(F, T) = ShownIn(F, m) + Shows(F, U) /\ Shows(E, T) = ShownIn(E, m) + Shows(E, U)
    BY <1>10, ShowsWithout
  <2>2. Shows(F, U) = Shows(E, U)
    <3>1. \A o \in U : o.entry # e.seq
      BY <1>17 DEF Books
    <3> QED BY <1>13, <3>1, ShowsSame
  <2>3. LooseIn(F, T) = LooseIn(E, T)
    BY <1>7, <1>17 DEF LooseIn
  <2>4. PICK b \in Int : b = Bank[m.line]
    BY SideTyped
  <2>5. ShownIn(E, m) = b /\ ShownIn(F, m) = b - a
    <3>1. AmountIn(F, m.entry) = a
      BY <1>3, <1>4, <1>12, <1>17
    <3>2. ReversedIn(F, m.entry) /\ ~ReversedIn(E, m.entry)
      BY <1>7, <1>17
    <3>3. ShownIn(F, m) = b - a
      BY <2>4, <3>1, <3>2 DEF ShownIn
    <3>4. ShownIn(E, m) = b
      BY <2>4, <3>2 DEF ShownIn
    <3> QED BY <3>3, <3>4
  <2>6. PICK j \in Int : j = Shows(E, U)
    <3>1. Books(E, U)
      BY FS_Subset DEF Books
    <3> QED BY <3>1, SideTyped
  <2>7. Side(F, T) = n + ((b - a) + j) /\ Side(E, T) = n + (b + j)
    BY <1>14, <2>1, <2>2, <2>3, <2>5, <2>6 DEF Side
  <2>8. Side(F, T) = Side(E, T) - a
    BY <2>7
  <2> QED BY <1>4, <1>11, <2>8
<1> QED BY <1>10, <1>15, <1>16, <1>17

-----------------------------------------------------------------------------
OnRecord(L) == {l \in Lines : L[l].state = "recorded"}

Tally(R) == SumFunction([l \in R |-> Bank[l]])

(* Every entry that stands and that reconciliation posted is the difference of
   a standing match or is what a line is recorded as; and a match's payment
   and difference make up what the bank shows. *)
Covered(E, T, L) ==
  \A e \in E : e.kind # "reversal" /\ e.recon /\ ~ReversedIn(E, e.seq) =>
    (\E m \in T : m.delta = e.seq) \/ (\E l \in Lines : L[l].rec = e.seq)

Difference(E, m) == IF m.delta = 0 THEN 0 ELSE AmountIn(E, m.delta)

AddsUp(E, T) == \A m \in T : AmountIn(E, m.entry) + Difference(E, m) = Bank[m.line]

Explained(E, T, L) ==
  /\ IsFiniteSet(OnRecord(L)) /\ Covered(E, T, L) /\ AddsUp(E, T)
  /\ Sum(E) = Side(E, T) + Tally(OnRecord(L))

LEMMA BooksHold == IInv => Books(entries, Standing)
<1> SUFFICES ASSUME IInv PROVE Books(entries, Standing)
  OBVIOUS
<1>1. IsFiniteSet(Standing)
  <2>1. Standing \subseteq matches
    BY DEF Standing
  <2> QED BY <2>1, FS_Subset DEF IInv, Numbered, NumberedIds
<1>2. \A e \in entries : e.amount \in Int
  <2>1. entries \subseteq Payments \cup Adjustments \cup ReversalRows
    BY DEF IInv, TypeOK
  <2>2. \A e \in Payments : e.amount \in Int
    BY DEF Payments
  <2>3. \A e \in Adjustments : e.amount \in Int
    BY DEF Adjustments
  <2>4. \A e \in ReversalRows : e.amount \in Int
    BY DEF ReversalRows
  <2> QED BY <2>1, <2>2, <2>3, <2>4
<1>3. \A m \in Standing : m.line \in Lines /\ HandIn(entries, m.entry)
  BY DEF IInv, TypeOK, MatchRows, Tied, Standing, ByHand, HandIn
<1>4. \A m, n \in Standing : m.entry = n.entry => m = n
  BY DEF IInv, Promises, OneDecision
<1> QED BY <1>1, <1>2, <1>3, <1>4 DEF Books, IInv, Numbered

(* The lines recorded, one less, and one more. *)
LEMMA TallyLess ==
  ASSUME NEW Q, IsFiniteSet(Q), Q \subseteq Lines, NEW l \in Q, NEW R, R = Q \ {l}
  PROVE  /\ IsFiniteSet(R) /\ Tally(R) \in Int /\ Tally(Q) \in Int /\ Bank[l] \in Int
         /\ Tally(Q) = Bank[l] + Tally(R)
<1> PICK f : f = [k \in Q |-> Bank[k]]
  OBVIOUS
<1> PICK g : g = [k \in R |-> f[k]]
  OBVIOUS
<1>1. f \in [Q -> Int] /\ g = [k \in R |-> Bank[k]]
  BY AmountsAssumption
<1>2. /\ SumFunction(f) \in Int /\ SumFunction(g) \in Int
      /\ SumFunction(f) = f[l] + SumFunction(g)
  BY <1>1, SumWithout
<1>3. IsFiniteSet(R) /\ f[l] = Bank[l] /\ Bank[l] \in Int
  BY FS_Subset, AmountsAssumption
<1> QED BY <1>1, <1>2, <1>3 DEF Tally

LEMMA TallyMore ==
  ASSUME NEW R, IsFiniteSet(R), R \subseteq Lines, NEW l \in Lines \ R, NEW Q, Q = R \cup {l}
  PROVE  /\ IsFiniteSet(Q) /\ Tally(R) \in Int /\ Bank[l] \in Int
         /\ Tally(Q) = Bank[l] + Tally(R)
<1>1. IsFiniteSet(Q) /\ Q \subseteq Lines /\ l \in Q /\ R = Q \ {l}
  BY FS_AddElement
<1> QED BY <1>1, TallyLess

LEMMA TallyTyped ==
  ASSUME NEW R, IsFiniteSet(R), R \subseteq Lines
  PROVE  Tally(R) \in Int
<1> PICK f : f = [k \in R |-> Bank[k]]
  OBVIOUS
<1>1. f = [k \in R |-> f[k]] /\ \A k \in R : f[k] \in Int
  BY AmountsAssumption
<1>2. SumFunction(f) \in Int
  BY <1>1, SumIsInt
<1> QED BY <1>2 DEF Tally

(* What is explained is what the property says. *)
LEMMA ExplainedBalance == IInv /\ Explained(entries, Standing, lines) => BalanceExplained
<1> SUFFICES ASSUME IInv, Explained(entries, Standing, lines) PROVE BalanceExplained
  OBVIOUS
<1> PICK S : S = {e \in Posted : ~e.recon /\ ~Reversed(e.seq) /\ \A m \in Standing : m.entry # e.seq}
  OBVIOUS
<1> PICK R : R = {l \in Lines : lines[l].state = "recorded"}
  OBVIOUS
<1>1. S = LooseIn(entries, Standing)
  BY DEF LooseIn, Posted, Reversed, ReversedIn
<1>2. R = OnRecord(lines) /\ IsFiniteSet(R) /\ R \subseteq Lines
  BY DEF OnRecord, Explained
<1>3. SumFunction([m \in Standing |->
        Bank[m.line] - (IF Reversed(m.entry) THEN AmountOf(m.entry) ELSE 0)])
      = Shows(entries, Standing)
  BY DEF Shows, ShownIn, Reversed, ReversedIn, AmountOf, AmountIn
<1>4. PICK n \in Int, k \in Int, t \in Int :
        n = Sum(S) /\ k = Shows(entries, Standing) /\ t = Tally(R)
  BY <1>1, <1>2, BooksHold, SideTyped, TallyTyped
<1>5. Sum(entries) = (n + k) + t
  BY <1>1, <1>2, <1>4 DEF Explained, Side
<1>6. Sum(entries) = n + t + k
  BY <1>4, <1>5
<1> QED BY <1>3, <1>4, <1>6 DEF BalanceExplained, Tally

LEMMA ExplainedStart == Init => Explained(entries, Standing, lines)
<1> SUFFICES ASSUME Init PROVE Explained(entries, Standing, lines)
  OBVIOUS
<1>1. entries = {} /\ Standing = {} /\ OnRecord(lines) = {}
  BY DEF Init, Standing, OnRecord, Open, Line
<1>2. LooseIn({}, {}) = {}
  BY DEF LooseIn
<1>3. /\ [e \in {} |-> e.amount] = [x \in {} |-> x]
      /\ [m \in {} |-> ShownIn({}, m)] = [x \in {} |-> x]
      /\ [l \in {} |-> Bank[l]] = [x \in {} |-> x]
  OBVIOUS
<1>4. Sum({}) = 0 /\ Shows({}, {}) = 0 /\ Tally({}) = 0
  BY <1>3, SumOfNone DEF Sum, Shows, Tally
<1> QED BY <1>1, <1>2, <1>4, FS_EmptySet DEF Explained, Covered, AddsUp, Side

(* Where the matches of the books find what they add up. *)
Names(E, T) ==
  \A m \in T :
    /\ HandIn(E, m.entry)
    /\ m.delta # 0 => \E e \in E : e.seq = m.delta /\ e.kind # "reversal" /\ e.recon

LEMMA NamesHold == IInv => Names(entries, Standing)
BY DEF IInv, Tied, Standing, ByHand, ByRecon, Names, HandIn

LEMMA AddsUpKept ==
  ASSUME NEW E, NEW F, NumberedRows(E), NumberedRows(F), E \subseteq F,
         NEW T, NEW U \in SUBSET T, Names(E, T), AddsUp(E, T)
  PROVE  AddsUp(F, U)
<1> SUFFICES ASSUME NEW m \in U
             PROVE  AmountIn(F, m.entry) + Difference(F, m) = Bank[m.line]
  BY DEF AddsUp
<1>1. AmountIn(F, m.entry) = AmountIn(E, m.entry)
  <2>1. PICK e \in E : e.seq = m.entry
    BY DEF Names, HandIn
  <2> QED BY <2>1, AmountIs
<1>2. Difference(F, m) = Difference(E, m)
  <2>1. ASSUME m.delta # 0 PROVE AmountIn(F, m.delta) = AmountIn(E, m.delta)
    <3>1. PICK e \in E : e.seq = m.delta
      BY <2>1 DEF Names
    <3> QED BY <3>1, AmountIs
  <2> QED BY <2>1 DEF Difference
<1> QED BY <1>1, <1>2 DEF AddsUp

LEMMA SidesTyped ==
  ASSUME NEW E, NEW T, NEW L, Books(E, T), IsFiniteSet(OnRecord(L))
  PROVE  Side(E, T) \in Int /\ Tally(OnRecord(L)) \in Int /\ Sum(E) \in Int
<1>1. Sum(LooseIn(E, T)) \in Int /\ Shows(E, T) \in Int /\ Sum(E) \in Int
  BY SideTyped
<1>2. OnRecord(L) \subseteq Lines
  BY DEF OnRecord
<1> QED BY <1>1, <1>2, TallyTyped DEF Side

LEMMA NumbersUp ==
  ASSUME NEW E, NumberedRows(E), NEW e \in E
  PROVE  e.seq # 0 /\ e.seq # Cardinality(E) + 1
<1>1. Cardinality(E) \in Nat
  BY FS_CardinalityType DEF NumberedRows
<1>2. e.seq \in 1..Cardinality(E)
  BY DEF NumberedRows
<1> QED BY <1>1, <1>2

(* An entry posted by hand. *)
LEMMA PostedByHand ==
  ASSUME NEW E, NEW T, NEW L, Books(E, T), Names(E, T), Explained(E, T, L),
         NEW x, x.seq = Cardinality(E) + 1, x.kind # "reversal", x.reverses = 0,
         x.amount \in Int, x.recon \in BOOLEAN, ~x.recon, NEW F, F = E \cup {x}
  PROVE  Explained(F, T, L)
<1>1. /\ Books(F, T) /\ Sum(F) = Sum(E) + x.amount
      /\ Side(F, T) = Side(E, T) + x.amount
  BY SideAdd
<1>2. Covered(F, T, L)
  BY DEF Covered, Explained, ReversedIn
<1>3. AddsUp(F, T)
  BY <1>1, AddsUpKept DEF Books, Explained
<1>4. IsFiniteSet(OnRecord(L)) /\ Sum(E) = Side(E, T) + Tally(OnRecord(L))
  BY DEF Explained
<1>5. PICK s \in Int, t \in Int, n \in Int :
        s = Side(E, T) /\ t = Tally(OnRecord(L)) /\ n = x.amount
  BY <1>4, SidesTyped
<1>6. Sum(F) = (s + t) + n /\ Side(F, T) = s + n
  BY <1>1, <1>4, <1>5
<1>7. Sum(F) = Side(F, T) + t
  BY <1>5, <1>6
<1> QED BY <1>2, <1>3, <1>4, <1>5, <1>7 DEF Explained

(* From L to K a line l is recorded as entry s, and nothing else changes. *)
NowRecorded(L, K, l, s) ==
  /\ L[l].state # "recorded" /\ L[l].rec = 0
  /\ K[l].state = "recorded" /\ K[l].rec = s
  /\ \A k \in Lines \ {l} : K[k] = L[k]

(* A line recorded: the entry stands for it. *)
LEMMA PostedForLine ==
  ASSUME NEW E, NEW T, NEW L, Books(E, T), Names(E, T), Explained(E, T, L),
         NEW x, x.seq = Cardinality(E) + 1, x.kind # "reversal", x.reverses = 0,
         x.amount \in Int, x.recon \in BOOLEAN, NEW F, F = E \cup {x},
         NEW l \in Lines, NEW K, NowRecorded(L, K, l, x.seq)
  PROVE  x.recon /\ x.amount = Bank[l] => Explained(F, T, K)
<1>1. /\ Books(F, T) /\ Sum(F) = Sum(E) + x.amount
      /\ x.recon => Side(F, T) = Side(E, T)
  BY SideAdd
<1> HAVE x.recon /\ x.amount = Bank[l]
<1>2. /\ L[l].state # "recorded" /\ L[l].rec = 0
      /\ K[l].state = "recorded" /\ K[l].rec = x.seq
      /\ \A k \in Lines \ {l} : K[k] = L[k]
  BY DEF NowRecorded
<1>3. Covered(F, T, K)
  <2> SUFFICES ASSUME NEW e \in F, e.kind # "reversal", e.recon, ~ReversedIn(F, e.seq)
               PROVE  (\E m \in T : m.delta = e.seq) \/ (\E k \in Lines : K[k].rec = e.seq)
    BY DEF Covered
  <2>1. CASE e = x
    BY <1>2, <2>1
  <2>2. CASE e \in E
    <3>1. e.seq # 0
      BY <2>2, NumbersUp DEF Books
    <3>2. ~ReversedIn(E, e.seq)
      BY DEF ReversedIn
    <3>3. (\E m \in T : m.delta = e.seq) \/ (\E k \in Lines : L[k].rec = e.seq)
      BY <2>2, <3>2 DEF Covered, Explained
    <3> QED BY <1>2, <3>1, <3>3
  <2> QED BY <2>1, <2>2
<1>4. AddsUp(F, T)
  BY <1>1, AddsUpKept DEF Books, Explained
<1>5. /\ OnRecord(K) = OnRecord(L) \cup {l} /\ l \in Lines \ OnRecord(L)
      /\ OnRecord(L) \subseteq Lines /\ IsFiniteSet(OnRecord(L))
      /\ Sum(E) = Side(E, T) + Tally(OnRecord(L))
  BY <1>2 DEF OnRecord, Explained
<1>6. IsFiniteSet(OnRecord(K)) /\ Tally(OnRecord(K)) = Bank[l] + Tally(OnRecord(L))
  BY <1>5, TallyMore
<1>7. PICK s \in Int, t \in Int, n \in Int :
        s = Side(E, T) /\ t = Tally(OnRecord(L)) /\ n = Bank[l]
  BY <1>2, <1>5, SidesTyped
<1>8. Sum(F) = (s + t) + n /\ Side(F, T) = s /\ Tally(OnRecord(K)) = n + t
  BY <1>1, <1>2, <1>5, <1>6, <1>7
<1>9. Sum(F) = Side(F, T) + Tally(OnRecord(K))
  BY <1>7, <1>8
<1> QED BY <1>3, <1>4, <1>6, <1>9 DEF Explained


-----------------------------------------------------------------------------
(* The books show n more, or less, than what explains them. *)
Excess(E, T, L, n) ==
  /\ IsFiniteSet(OnRecord(L)) /\ AddsUp(E, T)
  /\ Sum(E) = Side(E, T) + Tally(OnRecord(L)) + n

LEMMA NoExcess ==
  ASSUME NEW E, NEW T, NEW L, Books(E, T)
  PROVE  Explained(E, T, L) <=> Covered(E, T, L) /\ Excess(E, T, L, 0)
<1>1. ASSUME IsFiniteSet(OnRecord(L))
      PROVE  Side(E, T) + Tally(OnRecord(L)) + 0 = Side(E, T) + Tally(OnRecord(L))
  <2>1. PICK s \in Int, t \in Int : s = Side(E, T) /\ t = Tally(OnRecord(L))
    BY <1>1, SidesTyped
  <2> QED BY <2>1
<1> QED BY <1>1 DEF Explained, Excess

(* A reversal of an entry made by hand changes nothing of that; one of an
   entry of reconciliation's own takes its amount away. *)
LEMMA ExcessReversed ==
  ASSUME NEW E, NEW T, NEW L, NEW n \in Int, Books(E, T), Names(E, T), Excess(E, T, L, n),
         NEW e \in E, e.kind # "reversal", e.recon \in BOOLEAN, ~ReversedIn(E, e.seq),
         NEW x, x.seq = Cardinality(E) + 1, x.kind = "reversal", x.reverses = e.seq,
         x.amount = -AmountIn(E, e.seq), NEW F, F = E \cup {x}
  PROVE  /\ Books(F, T)
         /\ ~e.recon => Excess(F, T, L, n)
         /\ e.recon => Excess(F, T, L, n - e.amount)
<1>1. /\ Books(F, T) /\ Sum(F) = Sum(E) - e.amount
      /\ e.recon => Side(F, T) = Side(E, T)
      /\ ~e.recon => Side(F, T) = Side(E, T) - e.amount
  BY SideReverse
<1>2. AddsUp(F, T)
  BY <1>1, AddsUpKept DEF Books, Excess
<1>3. IsFiniteSet(OnRecord(L)) /\ Sum(E) = Side(E, T) + Tally(OnRecord(L)) + n
  BY DEF Excess
<1>4. PICK s \in Int, t \in Int : s = Side(E, T) /\ t = Tally(OnRecord(L))
  BY <1>3, SidesTyped
<1>5. PICK a \in Int : a = e.amount
  BY DEF Books
<1>6. Sum(F) = s + t + n - a
  BY <1>1, <1>3, <1>4, <1>5
<1>7. ASSUME e.recon PROVE Excess(F, T, L, n - e.amount)
  <2>1. Side(F, T) = s
    BY <1>1, <1>4, <1>7
  <2>2. Sum(F) = Side(F, T) + t + (n - a)
    BY <1>6, <2>1
  <2> QED BY <1>2, <1>3, <1>4, <1>5, <2>2 DEF Excess
<1>8. ASSUME ~e.recon PROVE Excess(F, T, L, n)
  <2>1. Side(F, T) = s - a
    BY <1>1, <1>4, <1>5, <1>8
  <2>2. Sum(F) = Side(F, T) + t + n
    BY <1>6, <2>1
  <2> QED BY <1>2, <1>3, <1>4, <2>2 DEF Excess
<1> QED BY <1>1, <1>7, <1>8

(* A match undone leaves the difference it posted. *)
LEMMA ExcessUnmatched ==
  ASSUME NEW E, NEW T, NEW L, Books(E, T), Names(E, T), Explained(E, T, L),
         NEW m \in T, NEW U, U = T \ {m}
  PROVE  /\ Books(E, U) /\ Names(E, U)
         /\ Difference(E, m) \in Int
         /\ Excess(E, U, L, Difference(E, m))
<1>1. PICK e \in E : e.seq = m.entry
  BY DEF Books, HandIn
<1>2. NumberedRows(E) /\ \A f \in E : f.amount \in Int
  BY DEF Books
<1>3. Books(E, U) /\ Side(E, T) = Side(E, U) + Bank[m.line] - e.amount
  BY <1>1, SideUnmatch
<1>4. Names(E, U)
  BY DEF Names
<1>5. AddsUp(E, U)
  BY DEF AddsUp, Explained
<1>6. Difference(E, m) \in Int
  <2>1. ASSUME m.delta # 0 PROVE AmountIn(E, m.delta) \in Int
    <3>1. PICK f \in E : f.seq = m.delta
      BY <2>1 DEF Names
    <3> QED BY <1>2, <3>1, AmountIs
  <2> QED BY <2>1 DEF Difference
<1>7. e.amount + Difference(E, m) = Bank[m.line]
  <2>1. AmountIn(E, m.entry) = e.amount
    BY <1>1, <1>2, AmountIs
  <2> QED BY <2>1 DEF AddsUp, Explained
<1>8. IsFiniteSet(OnRecord(L)) /\ Sum(E) = Side(E, T) + Tally(OnRecord(L))
  BY DEF Explained
<1>9. PICK s \in Int, t \in Int, a \in Int, d \in Int, b \in Int :
        /\ s = Side(E, U) /\ t = Tally(OnRecord(L)) /\ a = e.amount
        /\ d = Difference(E, m) /\ b = Bank[m.line]
  <2>1. Side(E, U) \in Int /\ Tally(OnRecord(L)) \in Int
    BY <1>3, <1>8, SidesTyped
  <2>2. Bank[m.line] \in Int
    BY SideTyped
  <2> QED BY <1>2, <1>6, <2>1, <2>2
<1>10. Sum(E) = (s + b - a) + t /\ a + d = b
  BY <1>3, <1>7, <1>8, <1>9
<1>11. Sum(E) = s + t + d
  BY <1>10
<1> QED BY <1>3, <1>4, <1>5, <1>6, <1>8, <1>9, <1>11 DEF Excess

(* Reversals, and a match undone whose difference is reversed, leave no entry
   of reconciliation's own unanswered for. *)
LEMMA StillCovered ==
  ASSUME NEW E, NEW T, NEW L, NumberedRows(E), Covered(E, T, L),
         NEW F, E \subseteq F, \A f \in F \ E : f.kind = "reversal",
         NEW U, \A m \in T \ U : m.delta = 0 \/ ReversedIn(F, m.delta)
  PROVE  Covered(F, U, L)
<1> SUFFICES ASSUME NEW f \in F, f.kind # "reversal", f.recon, ~ReversedIn(F, f.seq)
             PROVE  (\E m \in U : m.delta = f.seq) \/ (\E l \in Lines : L[l].rec = f.seq)
  BY DEF Covered
<1>1. f \in E /\ ~ReversedIn(E, f.seq) /\ f.seq # 0
  BY NumbersUp DEF ReversedIn
<1>2. (\E m \in T : m.delta = f.seq) \/ (\E l \in Lines : L[l].rec = f.seq)
  BY <1>1 DEF Covered
<1> QED BY <1>1, <1>2

(* The lines that are recorded, and as what, are all that matters of them. *)
SameRecords(L, K) == OnRecord(K) = OnRecord(L) /\ \A l \in Lines : K[l].rec = L[l].rec

LEMMA Relined ==
  ASSUME NEW E, NEW T, NEW L, NEW K, SameRecords(L, K), Explained(E, T, L)
  PROVE  Explained(E, T, K)
BY DEF SameRecords, Explained, Covered

(* A match made with no difference, and one that posts a difference. *)
LEMMA MatchedEven ==
  ASSUME NEW E, NEW T, NEW L, Books(E, T), Explained(E, T, L),
         NEW e \in LooseIn(E, T), NEW m, m \notin T, m.line \in Lines, m.entry = e.seq,
         m.delta = 0, NEW U, U = T \cup {m}
  PROVE  e.amount = Bank[m.line] => Explained(E, U, L)
<1> HAVE e.amount = Bank[m.line]
<1>1. Books(E, U) /\ Side(E, U) = Side(E, T) + Bank[m.line] - e.amount
  BY SideMatch
<1>2. e \in E /\ NumberedRows(E) /\ Bank[m.line] \in Int
  BY AmountsAssumption DEF LooseIn, Books
<1>3. Covered(E, U, L)
  BY DEF Covered, Explained
<1>4. AddsUp(E, U)
  <2>1. AmountIn(E, m.entry) + Difference(E, m) = Bank[m.line]
    BY <1>2, AmountIs DEF Difference
  <2> QED BY <2>1 DEF AddsUp, Explained
<1>5. IsFiniteSet(OnRecord(L)) /\ Sum(E) = Side(E, T) + Tally(OnRecord(L))
  BY DEF Explained
<1>6. Side(E, U) = Side(E, T)
  <2>1. PICK s \in Int : s = Side(E, T)
    BY <1>5, SidesTyped
  <2>2. PICK b \in Int : b = Bank[m.line]
    BY <1>2
  <2> QED BY <1>1, <2>1, <2>2
<1> QED BY <1>3, <1>4, <1>5, <1>6 DEF Explained

LEMMA MatchedWithDelta ==
  ASSUME NEW E, NEW T, NEW L, Books(E, T), Names(E, T), Explained(E, T, L),
         NEW e \in LooseIn(E, T), NEW m, m \notin T, m.line \in Lines, m.entry = e.seq,
         m.delta = Cardinality(E) + 1, NEW U, U = T \cup {m},
         NEW x, x.seq = m.delta, x.kind # "reversal", x.reverses = 0,
         x.amount \in Int, x.recon \in BOOLEAN, NEW F, F = E \cup {x},
         NEW a \in Int, e.amount = a, NEW b \in Int, Bank[m.line] = b
  PROVE  x.recon /\ x.amount = b - a => Explained(F, U, L)
<1>1. Books(E, U) /\ Side(E, U) = Side(E, T) + Bank[m.line] - e.amount
  BY SideMatch
<1>2. /\ Books(F, U) /\ Sum(F) = Sum(E) + x.amount
      /\ x.recon => Side(F, U) = Side(E, U)
  BY <1>1, SideAdd
<1> HAVE x.recon /\ x.amount = b - a
<1>3. /\ e \in E /\ NumberedRows(E) /\ NumberedRows(F) /\ e \in F /\ x \in F
  BY <1>2 DEF LooseIn, Books
<1>4. Covered(F, U, L)
  <2> SUFFICES ASSUME NEW f \in F, f.kind # "reversal", f.recon, ~ReversedIn(F, f.seq)
               PROVE  (\E n \in U : n.delta = f.seq) \/ (\E l \in Lines : L[l].rec = f.seq)
    BY DEF Covered
  <2>1. CASE f \in E
    <3>1. ~ReversedIn(E, f.seq)
      BY DEF ReversedIn
    <3>2. (\E n \in T : n.delta = f.seq) \/ (\E l \in Lines : L[l].rec = f.seq)
      BY <2>1, <3>1 DEF Covered, Explained
    <3> QED BY <3>2
  <2>2. CASE f = x
    BY <2>2
  <2> QED BY <2>1, <2>2
<1>5. AddsUp(F, U)
  <2>1. AddsUp(F, T)
    BY <1>3, AddsUpKept DEF Explained
  <2>2. AmountIn(F, m.entry) = a /\ AmountIn(F, m.delta) = b - a
    BY <1>3, AmountIs
  <2>3. m.delta # 0
    BY <1>3, FS_CardinalityType DEF NumberedRows
  <2>4. Difference(F, m) = b - a
    BY <2>2, <2>3 DEF Difference
  <2>5. AmountIn(F, m.entry) + Difference(F, m) = Bank[m.line]
    BY <2>2, <2>4
  <2> QED BY <2>1, <2>5 DEF AddsUp
<1>6. IsFiniteSet(OnRecord(L)) /\ Sum(E) = Side(E, T) + Tally(OnRecord(L))
  BY DEF Explained
<1>7. PICK s \in Int, t \in Int : s = Side(E, T) /\ t = Tally(OnRecord(L))
  BY <1>6, SidesTyped
<1>8. Sum(F) = (s + t) + (b - a) /\ Side(F, U) = s + b - a
  BY <1>1, <1>2, <1>6, <1>7
<1>9. Sum(F) = Side(F, U) + t
  BY <1>8
<1> QED BY <1>4, <1>5, <1>6, <1>7, <1>9 DEF Explained

(* From L to K a line l recorded as s is not any more, and nothing else
   changes. *)
NoLongerRecorded(L, K, l, s) ==
  /\ L[l].state = "recorded" /\ L[l].rec = s
  /\ K[l].state # "recorded"
  /\ \A k \in Lines \ {l} : K[k] = L[k]

(* A recorded line's payment reversed, and the line no longer recorded. *)
LEMMA ReversedForLine ==
  ASSUME NEW E, NEW T, NEW L, Books(E, T), Names(E, T), Explained(E, T, L),
         NEW e \in E, e.kind # "reversal", e.recon \in BOOLEAN, ~ReversedIn(E, e.seq),
         NEW x, x.seq = Cardinality(E) + 1, x.kind = "reversal", x.reverses = e.seq,
         x.amount = -AmountIn(E, e.seq), NEW F, F = E \cup {x},
         NEW l \in Lines, NEW K, NoLongerRecorded(L, K, l, e.seq)
  PROVE  e.recon /\ e.amount = Bank[l] => Explained(F, T, K)
<1>1. Excess(E, T, L, 0) /\ Covered(E, T, L) /\ NumberedRows(E)
  BY NoExcess DEF Books
<1>2. Books(F, T) /\ (e.recon => Excess(F, T, L, 0 - e.amount))
  BY <1>1, ExcessReversed
<1> HAVE e.recon /\ e.amount = Bank[l]
<1>3. /\ L[l].state = "recorded" /\ L[l].rec = e.seq
      /\ K[l].state # "recorded"
      /\ \A k \in Lines \ {l} : K[k] = L[k]
  BY DEF NoLongerRecorded
<1>4. Covered(F, T, K)
  <2> SUFFICES ASSUME NEW f \in F, f.kind # "reversal", f.recon, ~ReversedIn(F, f.seq)
               PROVE  (\E m \in T : m.delta = f.seq) \/ (\E k \in Lines : K[k].rec = f.seq)
    BY DEF Covered
  <2>1. f \in E /\ ~ReversedIn(E, f.seq) /\ f.seq # e.seq
    BY DEF ReversedIn
  <2>2. (\E m \in T : m.delta = f.seq) \/ (\E k \in Lines : L[k].rec = f.seq)
    BY <1>1, <2>1 DEF Covered
  <2> QED BY <1>3, <2>1, <2>2
<1>5. /\ OnRecord(K) = OnRecord(L) \ {l} /\ l \in OnRecord(L)
      /\ OnRecord(L) \subseteq Lines /\ IsFiniteSet(OnRecord(L))
  BY <1>1, <1>3 DEF OnRecord, Excess
<1>6. /\ IsFiniteSet(OnRecord(K)) /\ Tally(OnRecord(K)) \in Int /\ Bank[l] \in Int
      /\ Tally(OnRecord(L)) = Bank[l] + Tally(OnRecord(K))
  BY <1>5, TallyLess
<1>7. PICK s \in Int, t \in Int, b \in Int :
        s = Side(F, T) /\ t = Tally(OnRecord(K)) /\ b = Bank[l]
  BY <1>2, <1>5, <1>6, SidesTyped
<1>8. Sum(F) = s + (b + t) + (0 - b)
  BY <1>2, <1>3, <1>6, <1>7 DEF Excess
<1>9. Sum(F) = Side(F, T) + Tally(OnRecord(K))
  BY <1>7, <1>8
<1>10. AddsUp(F, T)
  BY <1>2, <1>3 DEF Excess
<1> QED BY <1>4, <1>6, <1>9, <1>10 DEF Explained


-----------------------------------------------------------------------------
Balanced == Explained(entries, Standing, lines)

(* Steps that post nothing and leave the matches alone. *)
LEMMA BalancedStill ==
  ASSUME Balanced, UNCHANGED <<entries, matches>>, SameRecords(lines, lines')
  PROVE  Balanced'
<1>1. Standing' = Standing
  BY DEF Standing
<1> QED BY <1>1, Relined DEF Balanced

LEMMA SameLines ==
  ASSUME lines' = lines
  PROVE  SameRecords(lines, lines')
BY DEF SameRecords

LEMMA BalancedIgnore ==
  ASSUME IInv, Balanced, NEW l \in Lines, IgnoreBankLine(l) \/ UnignoreBankLine(l)
  PROVE  Balanced'
<1>1. /\ lines[l].state \in {"open", "ignored"}
      /\ \E s \in {"open", "ignored"} : lines' = [lines EXCEPT ![l] = Line(s, 0)]
      /\ UNCHANGED <<entries, matches>>
  BY DEF IgnoreBankLine, UnignoreBankLine, Open
<1>2. lines[l].rec = 0
  BY <1>1 DEF IInv, Promises, LineTellsTheTruth
<1>3. /\ lines'[l].state # "recorded" /\ lines'[l].rec = 0
      /\ \A k \in Lines \ {l} : lines'[k] = lines[k]
  BY <1>1 DEF IInv, TypeOK, Line
<1>4. SameRecords(lines, lines')
  BY <1>1, <1>2, <1>3 DEF SameRecords, OnRecord
<1> QED BY <1>1, <1>4, BalancedStill

LEMMA BalancedPay ==
  ASSUME IInv, Balanced, Pay
  PROVE  Balanced'
<1>1. PICK a \in Amounts : entries' = entries \cup {Entry(NextSeq, "payment", a, FALSE)}
  BY DEF Pay
<1>2. PICK x : x = Entry(NextSeq, "payment", a, FALSE)
  OBVIOUS
<1>3. /\ x.seq = Cardinality(entries) + 1 /\ x.kind # "reversal" /\ x.reverses = 0
      /\ x.amount \in Int /\ x.recon \in BOOLEAN /\ ~x.recon
  BY <1>2, AmountsAssumption DEF Entry, NextSeq
<1>4. Explained(entries', Standing, lines)
  BY <1>1, <1>2, <1>3, BooksHold, NamesHold, PostedByHand DEF Balanced
<1>5. Standing' = Standing /\ lines' = lines
  BY DEF Pay, Standing
<1> QED BY <1>4, <1>5 DEF Balanced

LEMMA BalancedRecord ==
  ASSUME IInv, Balanced, NEW l \in Lines, RecordLine(l)
  PROVE  Balanced'
<1>1. /\ lines[l].state = "open"
      /\ entries' = entries \cup {Entry(NextSeq, "payment", Bank[l], TRUE)}
      /\ lines' = [lines EXCEPT ![l] = Line("recorded", NextSeq)]
      /\ matches' = matches
  BY DEF RecordLine
<1>2. PICK x : x = Entry(NextSeq, "payment", Bank[l], TRUE)
  OBVIOUS
<1>3. /\ x.seq = Cardinality(entries) + 1 /\ x.kind # "reversal" /\ x.reverses = 0
      /\ x.amount \in Int /\ x.recon \in BOOLEAN
  BY <1>2, AmountsAssumption DEF Entry, NextSeq
<1>4. x.recon /\ x.amount = Bank[l] /\ x.seq = NextSeq
  BY <1>2 DEF Entry
<1>5. lines[l].state # "recorded" /\ lines[l].rec = 0
  BY <1>1 DEF IInv, Promises, LineTellsTheTruth
<1>6. /\ lines'[l].state = "recorded" /\ lines'[l].rec = NextSeq
      /\ \A k \in Lines \ {l} : lines'[k] = lines[k]
  BY <1>1 DEF IInv, TypeOK, Line
<1>7. NowRecorded(lines, lines', l, x.seq)
  BY <1>4, <1>5, <1>6 DEF NowRecorded
<1>8. Explained(entries', Standing, lines')
  <2> PICK E, T, L, F, K :
        E = entries /\ T = Standing /\ L = lines /\ F = entries' /\ K = lines'
    OBVIOUS
  <2>1. /\ Books(E, T) /\ Names(E, T) /\ Explained(E, T, L) /\ F = E \cup {x}
        /\ x.seq = Cardinality(E) + 1 /\ NowRecorded(L, K, l, x.seq)
    BY <1>1, <1>2, <1>3, <1>7, BooksHold, NamesHold DEF Balanced
  <2>2. x.recon /\ x.amount = Bank[l] => Explained(F, T, K)
    BY <1>3, <2>1, PostedForLine
  <2> QED BY <1>4, <2>2
<1>9. Standing' = Standing
  BY <1>1 DEF Standing
<1> QED BY <1>8, <1>9 DEF Balanced

(* What a reversal is, as the books see it. *)
LEMMA ReversalIs ==
  ASSUME NEW n, NEW s
  PROVE  /\ Reversal(n, s).seq = n /\ Reversal(n, s).kind = "reversal"
         /\ Reversal(n, s).reverses = s
         /\ Reversal(n, s).amount = -AmountIn(entries, s)
BY DEF Reversal, AmountOf, AmountIn

LEMMA BalancedReversal ==
  ASSUME IInv, Balanced, NEW q \in Requests, PostReversal(q)
  PROVE  Balanced'
<1> PICK s : s = req[q].entry
  OBVIOUS
<1>1. Recorded(s) /\ (Reversed(s) \/ Untied(s))
  BY DEF IInv, Pending, Sound, PostReversal
<1>2. NumberedRows(entries)
  BY DEF IInv, Numbered
<1>3. ~Reversed(s) /\ entries' = entries \cup {Reversal(Cardinality(entries) + 1, s)}
  BY <1>1, <1>2, ReverseOne DEF PostReversal
<1>4. PICK e \in entries : e.seq = s /\ e.kind # "reversal"
  BY <1>1 DEF Recorded
<1>5. ~ReversedIn(entries, e.seq)
  BY <1>3, <1>4 DEF Reversed, ReversedIn
<1>6. e.recon \in BOOLEAN
  <2>1. e \in Payments \cup Adjustments \cup ReversalRows
    BY DEF IInv, TypeOK
  <2> QED BY <2>1 DEF Payments, Adjustments, ReversalRows
<1>7. ~e.recon
  BY <1>1, <1>3, <1>4, <1>5 DEF Balanced, Explained, Covered, Untied
<1>8. PICK x : x = Reversal(Cardinality(entries) + 1, s)
  OBVIOUS
<1>9. /\ x.seq = Cardinality(entries) + 1 /\ x.kind = "reversal" /\ x.reverses = e.seq
      /\ x.amount = -AmountIn(entries, e.seq)
  BY <1>4, <1>8, ReversalIs
<1>10. Books(entries, Standing) /\ Names(entries, Standing)
  BY BooksHold, NamesHold
<1>11. Covered(entries, Standing, lines) /\ Excess(entries, Standing, lines, 0)
  BY <1>10, NoExcess DEF Balanced
<1>12. Books(entries', Standing) /\ Excess(entries', Standing, lines, 0)
  BY <1>3, <1>4, <1>5, <1>6, <1>7, <1>8, <1>9, <1>10, <1>11, ExcessReversed
<1>13. Covered(entries', Standing, lines)
  BY <1>2, <1>3, <1>8, <1>9, <1>11, StillCovered
<1>14. Standing' = Standing /\ lines' = lines
  BY DEF PostReversal, Standing
<1> QED BY <1>12, <1>13, <1>14, NoExcess DEF Balanced

LEMMA BalancedUnrecord ==
  ASSUME IInv, Balanced, NEW q \in Requests, Unrecord(q)
  PROVE  Balanced'
<1> PICK s, l : s = req[q].entry /\ l = req[q].line
  OBVIOUS
<1>1. /\ l \in Lines /\ lines[l] = Line("recorded", s)
      /\ PostReversals(<<s>>)
      /\ lines' = [lines EXCEPT ![l] = Open]
      /\ matches' = matches
  BY TodoShape DEF IInv, Unrecord
<1>2. lines[l].state = "recorded" /\ lines[l].rec = s
  BY <1>1 DEF Line
<1>3. NumberedRows(entries) /\ s # 0
  BY <1>1, <1>2 DEF IInv, Numbered, Promises, LineTellsTheTruth
<1>4. ByRecon(s) /\ Recorded(s)
  BY <1>1, <1>2, <1>3, Numbers DEF IInv, Tied
<1>5. ~Reversed(s) /\ entries' = entries \cup {Reversal(Cardinality(entries) + 1, s)}
  BY <1>1, <1>3, <1>4, ReverseOne
<1>6. PICK e \in entries : e.seq = s /\ e.kind # "reversal" /\ e.recon
  BY <1>4 DEF ByRecon
<1>7. e.amount = Bank[l]
  <2>1. \E f \in Posted : f.seq = s /\ f.amount = Bank[l]
    BY <1>1, <1>2, <1>3 DEF IInv, Promises, LineTellsTheTruth
  <2> QED BY <1>3, <1>6, <2>1 DEF Posted, NumberedRows
<1>8. ~ReversedIn(entries, e.seq) /\ e.recon \in BOOLEAN
  <2>1. e \in Payments \cup Adjustments \cup ReversalRows
    BY DEF IInv, TypeOK
  <2>2. e.recon \in BOOLEAN
    BY <2>1 DEF Payments, Adjustments, ReversalRows
  <2> QED BY <1>5, <1>6, <2>2 DEF Reversed, ReversedIn
<1>9. PICK x : x = Reversal(Cardinality(entries) + 1, s)
  OBVIOUS
<1>10. /\ x.seq = Cardinality(entries) + 1 /\ x.kind = "reversal" /\ x.reverses = e.seq
       /\ x.amount = -AmountIn(entries, e.seq)
  BY <1>6, <1>9, ReversalIs
<1>11. /\ lines'[l].state # "recorded"
       /\ \A k \in Lines \ {l} : lines'[k] = lines[k]
  BY <1>1 DEF IInv, TypeOK, Open, Line
<1>12. NoLongerRecorded(lines, lines', l, e.seq)
  BY <1>2, <1>6, <1>11 DEF NoLongerRecorded
<1>13. Explained(entries', Standing, lines')
  <2> PICK E, T, L, F, K :
        E = entries /\ T = Standing /\ L = lines /\ F = entries' /\ K = lines'
    OBVIOUS
  <2>1. /\ Books(E, T) /\ Names(E, T) /\ Explained(E, T, L) /\ F = E \cup {x}
        /\ NoLongerRecorded(L, K, l, e.seq)
    BY <1>5, <1>9, <1>12, BooksHold, NamesHold DEF Balanced
  <2>2. /\ e \in E /\ e.kind # "reversal" /\ ~ReversedIn(E, e.seq)
        /\ x.seq = Cardinality(E) + 1 /\ x.kind = "reversal" /\ x.reverses = e.seq
        /\ x.amount = -AmountIn(E, e.seq)
    BY <1>6, <1>8, <1>10
  <2>3. l \in Lines /\ e.recon \in BOOLEAN
    BY <1>1, <1>8
  <2>4. e.recon /\ e.amount = Bank[l] => Explained(F, T, K)
    BY <2>1, <2>2, <2>3, ReversedForLine
  <2> QED BY <1>6, <1>7, <2>4
<1>14. Standing' = Standing
  BY <1>1 DEF Standing
<1> QED BY <1>13, <1>14 DEF Balanced

(* What a confirmation posts is what the bank shows and the payment does not. *)
IsDelta(x, seq, n) ==
  /\ x.seq = seq /\ x.kind # "reversal" /\ x.reverses = 0
  /\ x.amount = n /\ x.recon = TRUE

LEMMA DeltaIs ==
  ASSUME NEW seq, NEW b \in Int, NEW a \in Int
  PROVE  \/ b = a /\ Delta(seq, b, a) = {}
         \/ \E x : Delta(seq, b, a) = {x} /\ IsDelta(x, seq, b - a)
<1>1. CASE b > a
  <2>1. PICK x : x = Entry(seq, "payment", b - a, TRUE)
    OBVIOUS
  <2>2. Delta(seq, b, a) = {x} /\ IsDelta(x, seq, b - a)
    BY <1>1, <2>1 DEF Delta, IsDelta, Entry
  <2> QED BY <2>2
<1>2. CASE b < a
  <2>1. PICK n \in Int : n = -(a - b) /\ n = b - a
    OBVIOUS
  <2>2. ~(b > a)
    BY <1>2
  <2>3. PICK x : x = Entry(seq, "adjustment", n, TRUE)
    OBVIOUS
  <2>4. Delta(seq, b, a) = {x}
    BY <1>2, <2>1, <2>2, <2>3, Zenon DEF Delta
  <2>5. IsDelta(x, seq, b - a)
    BY <2>1, <2>3 DEF IsDelta, Entry
  <2> QED BY <2>4, <2>5
<1>3. CASE b = a
  <2>1. ~(b > a) /\ ~(b < a)
    BY <1>3
  <2>2. Delta(seq, b, a) = {}
    BY <2>1, Zenon DEF Delta
  <2> QED BY <1>3, <2>2
<1>4. b > a \/ b < a \/ b = a
  OBVIOUS
<1> QED BY <1>1, <1>2, <1>3, <1>4, Zenon

LEMMA BalancedConfirm ==
  ASSUME IInv, Balanced, NEW l \in Lines, Confirm(l)
  PROVE  Balanced'
<1>1. PICK e \in entries, d \in {0, NextSeq} :
        /\ LockPayment(e)
        /\ d = IF Delta(NextSeq, Bank[l], e.amount) = {} THEN 0 ELSE NextSeq
        /\ entries' = entries \cup Delta(NextSeq, Bank[l], e.amount)
        /\ matches' = matches \cup
             {[id |-> Cardinality(matches) + 1, line |-> l, entry |-> e.seq,
               delta |-> d, undone |-> FALSE]}
  BY DEF Confirm
<1>2. lines[l].state = "open" /\ lines' = [lines EXCEPT ![l] = Line("matched", 0)]
  BY DEF Confirm
<1>3. PICK n : n = [id |-> Cardinality(matches) + 1, line |-> l, entry |-> e.seq,
                    delta |-> d, undone |-> FALSE]
  OBVIOUS
<1>4. /\ n.id = Cardinality(matches) + 1 /\ n.line = l /\ n.entry = e.seq
      /\ n.delta = d /\ ~n.undone
  BY <1>3
<1>5. Standing' = Standing \cup {n}
  BY <1>1, <1>4, <1>3 DEF Standing
<1>6. n \notin Standing
  <2>1. Cardinality(matches) \in Nat /\ \A m \in matches : m.id \in 1..Cardinality(matches)
    BY FS_CardinalityType DEF IInv, Numbered, NumberedIds
  <2> QED BY <1>4, <2>1 DEF Standing
<1>7. e \in LooseIn(entries, Standing)
  BY <1>1 DEF LockPayment, LooseIn, Reversed, ReversedIn
<1>8. SameRecords(lines, lines')
  <2>1. lines[l].rec = 0
    BY <1>2 DEF IInv, Promises, LineTellsTheTruth
  <2>2. /\ lines'[l].state = "matched" /\ lines'[l].rec = 0
        /\ \A k \in Lines \ {l} : lines'[k] = lines[k]
    BY <1>2 DEF IInv, TypeOK, Line
  <2> QED BY <1>2, <2>1, <2>2 DEF SameRecords, OnRecord
<1>9. Books(entries, Standing) /\ Names(entries, Standing)
  BY BooksHold, NamesHold
<1>10. PICK b \in Int, a \in Int : b = Bank[l] /\ a = e.amount
  BY <1>9, AmountsAssumption DEF Books
<1> PICK E, T, L, F, U :
      E = entries /\ T = Standing /\ L = lines /\ F = entries' /\ U = T \cup {n}
  OBVIOUS
<1>11. /\ Books(E, T) /\ Names(E, T) /\ Explained(E, T, L)
       /\ e \in LooseIn(E, T) /\ n \notin T /\ n.line \in Lines /\ n.entry = e.seq
  BY <1>4, <1>6, <1>7, <1>9 DEF Balanced
<1>12. Explained(F, U, L)
  <2>1. CASE b = a /\ Delta(NextSeq, b, a) = {}
    <3>1. n.delta = 0 /\ F = E
      BY <1>1, <1>4, <1>10, <2>1
    <3>2. e.amount = Bank[n.line] => Explained(E, U, L)
      BY <1>11, <3>1, MatchedEven
    <3> QED BY <1>4, <1>10, <2>1, <3>1, <3>2
  <2>2. ASSUME NEW x, Delta(NextSeq, b, a) = {x}, IsDelta(x, NextSeq, b - a)
        PROVE  Explained(F, U, L)
    <3>1. n.delta = Cardinality(E) + 1 /\ F = E \cup {x}
      BY <1>1, <1>4, <1>10, <2>2 DEF NextSeq
    <3>2. /\ x.seq = n.delta /\ x.kind # "reversal" /\ x.reverses = 0
          /\ x.amount \in Int /\ x.recon \in BOOLEAN
      <4>1. x.recon \in BOOLEAN
        BY <2>2 DEF IsDelta
      <4>2. PICK r \in Int : r = b - a
        OBVIOUS
      <4>3. x.amount \in Int
        BY <2>2, <4>2 DEF IsDelta
      <4>4. NextSeq = n.delta
        BY <3>1 DEF NextSeq
      <4>5. x.seq = n.delta /\ x.kind # "reversal" /\ x.reverses = 0
        BY <2>2, <4>4 DEF IsDelta
      <4> QED BY <4>1, <4>3, <4>5
    <3>3. x.recon /\ x.amount = b - a
      BY <2>2 DEF IsDelta
    <3>4. e.amount = a /\ Bank[n.line] = b
      BY <1>4, <1>10
    <3>5. x.recon /\ x.amount = b - a => Explained(F, U, L)
      BY <1>11, <3>1, <3>2, <3>4, MatchedWithDelta
    <3> QED BY <3>3, <3>5
  <2>3. \/ b = a /\ Delta(NextSeq, b, a) = {}
        \/ \E x : Delta(NextSeq, b, a) = {x} /\ IsDelta(x, NextSeq, b - a)
    BY DeltaIs
  <2> QED BY <2>1, <2>2, <2>3
<1>13. Explained(F, U, lines')
  BY <1>8, <1>12, Relined
<1> QED BY <1>5, <1>13 DEF Balanced

(* The difference a match posted is reversed, with the match undone. *)
LEMMA DifferenceGone ==
  ASSUME NEW E, NEW U, NEW L, Books(E, U), Names(E, U),
         NEW e \in E, e.kind # "reversal", e.recon \in BOOLEAN, ~ReversedIn(E, e.seq),
         NEW n, n = e.amount, Excess(E, U, L, n),
         NEW x, x.seq = Cardinality(E) + 1, x.kind = "reversal", x.reverses = e.seq,
         x.amount = -AmountIn(E, e.seq), NEW F, F = E \cup {x}
  PROVE  /\ Books(F, U)
         /\ e.recon => Excess(F, U, L, 0)
<1>1. n \in Int /\ n - n = 0
  <2>1. n \in Int
    BY DEF Books
  <2> QED BY <2>1
<1>2. Books(F, U) /\ (e.recon => Excess(F, U, L, n - e.amount))
  BY <1>1, ExcessReversed
<1> QED BY <1>1, <1>2

LEMMA BalancedUnmake ==
  ASSUME IInv, Balanced, NEW q \in Requests, UnmakeMatch(q)
  PROVE  Balanced'
<1>1. PICK m \in Standing :
        /\ PostReversals(UndoTargets(q, m))
        /\ matches' = (matches \ {m}) \cup {[m EXCEPT !.undone = TRUE]}
        /\ lines' = [lines EXCEPT ![m.line] = Open]
  BY DEF UnmakeMatch
<1>2. m \in matches /\ ~m.undone /\ m \in MatchRows /\ m.line \in Lines
  BY DEF Standing, IInv, TypeOK, MatchRows
<1>3. Standing' = Standing \ {m}
  <2>1. [m EXCEPT !.undone = TRUE].undone
    BY <1>2 DEF MatchRows
  <2> QED BY <1>1, <2>1 DEF Standing
<1>4. SameRecords(lines, lines')
  <2>1. lines[m.line].state = "matched" /\ lines[m.line].rec = 0
    BY <1>2 DEF IInv, Promises, LineTellsTheTruth
  <2>2. /\ lines'[m.line].state = "open" /\ lines'[m.line].rec = 0
        /\ \A k \in Lines \ {m.line} : lines'[k] = lines[k]
    BY <1>1, <1>2 DEF IInv, TypeOK, Open, Line
  <2> QED BY <2>1, <2>2 DEF SameRecords, OnRecord
<1> PICK E, T, L, F, U, c :
      /\ E = entries /\ T = Standing /\ L = lines /\ F = entries' /\ U = Standing \ {m}
      /\ c = Cardinality(entries)
  OBVIOUS
<1>5. Books(E, T) /\ Names(E, T) /\ Explained(E, T, L) /\ NumberedRows(E) /\ U = T \ {m}
  BY BooksHold, NamesHold DEF Balanced, Books
<1>6. Books(E, U) /\ Names(E, U) /\ Excess(E, U, L, Difference(E, m))
  BY <1>5, ExcessUnmatched
<1>7. PICK e \in E : e.seq = m.entry /\ e.kind # "reversal" /\ e.recon = FALSE
  <2>1. PICK f \in E : f.seq = m.entry /\ f.kind # "reversal" /\ ~f.recon
    BY <1>5 DEF Names, HandIn
  <2>2. f \in Payments \cup Adjustments \cup ReversalRows
    BY DEF IInv, TypeOK
  <2>3. f.recon \in BOOLEAN
    BY <2>2 DEF Payments, Adjustments, ReversalRows
  <2> QED BY <2>1, <2>3
<1>8. Recorded(m.entry) /\ (m.delta # 0 => Recorded(m.delta)) /\ NumberedRows(entries)
  BY <1>2, Numbers DEF IInv, Tied, Numbered
<1>9. /\ m.delta = 0 => Difference(E, m) = 0
      /\ m.delta # 0 => \E f \in E :
           /\ f.seq = m.delta /\ f.kind # "reversal" /\ f.recon = TRUE
           /\ Difference(E, m) = f.amount
  <2>1. ASSUME m.delta # 0
        PROVE  \E f \in E : /\ f.seq = m.delta /\ f.kind # "reversal" /\ f.recon = TRUE
                            /\ Difference(E, m) = f.amount
    <3>1. PICK f \in E : f.seq = m.delta /\ f.kind # "reversal" /\ f.recon
      BY <1>5, <2>1 DEF Names
    <3>2. f \in Payments \cup Adjustments \cup ReversalRows
      BY DEF IInv, TypeOK
    <3>3. f.recon = TRUE
      BY <3>1, <3>2 DEF Payments, Adjustments, ReversalRows
    <3>4. Difference(E, m) = f.amount
      BY <1>5, <2>1, <3>1, AmountIs DEF Difference
    <3> QED BY <3>1, <3>3, <3>4
  <2> QED BY <2>1 DEF Difference

<1>10. /\ E \subseteq F /\ \A f \in F \ E : f.kind = "reversal"
       /\ m.delta # 0 => ReversedIn(F, m.delta)
       /\ Books(F, U) /\ Excess(F, U, L, 0)
  <2>1. CASE m.delta = 0 /\ UndoTargets(q, m) = <<>>
    <3>1. F = E
      BY <1>1, <2>1, ReverseNone
    <3> QED BY <1>6, <1>9, <2>1, <3>1
  <2>2. CASE m.delta # 0 /\ UndoTargets(q, m) = <<m.delta>>
    <3>1. PICK x : x = Reversal(c + 1, m.delta)
      OBVIOUS
    <3>2. F = E \cup {x} /\ ~Reversed(m.delta)
      BY <1>1, <1>8, <2>2, <3>1, ReverseOne
    <3>3. PICK f \in E : /\ f.seq = m.delta /\ f.kind # "reversal" /\ f.recon = TRUE
                         /\ Difference(E, m) = f.amount
      BY <1>9, <2>2
    <3>4. /\ x.seq = Cardinality(E) + 1 /\ x.kind = "reversal" /\ x.reverses = f.seq
          /\ x.amount = -AmountIn(E, f.seq)
      BY <3>1, <3>3, ReversalIs
    <3>5. f.recon \in BOOLEAN /\ ~ReversedIn(E, f.seq)
      BY <3>2, <3>3 DEF Reversed, ReversedIn
    <3>6. PICK n : n = f.amount /\ Excess(E, U, L, n)
      BY <1>6, <3>3
    <3>7. f.kind # "reversal"
      BY <3>3
    <3>8. Books(F, U) /\ (f.recon => Excess(F, U, L, 0))
      BY <1>6, <3>2, <3>4, <3>5, <3>6, <3>7, DifferenceGone
    <3>9. ReversedIn(F, m.delta)
      BY <3>2, <3>3, <3>4 DEF ReversedIn
    <3> QED BY <3>2, <3>3, <3>4, <3>8, <3>9
  <2>3. CASE m.delta = 0 /\ UndoTargets(q, m) = <<m.entry>>
    <3>1. PICK x : x = Reversal(c + 1, m.entry)
      OBVIOUS
    <3>2. F = E \cup {x} /\ ~Reversed(m.entry)
      BY <1>1, <1>8, <2>3, <3>1, ReverseOne
    <3>3. /\ x.seq = Cardinality(E) + 1 /\ x.kind = "reversal" /\ x.reverses = e.seq
          /\ x.amount = -AmountIn(E, e.seq)
      BY <1>7, <3>1, ReversalIs
    <3>4. e.recon \in BOOLEAN /\ e.kind # "reversal" /\ ~ReversedIn(E, e.seq)
      BY <1>7, <3>2 DEF Reversed, ReversedIn
    <3>5. Excess(E, U, L, 0) /\ 0 \in Int
      BY <1>6, <1>9, <2>3
    <3>6. Books(F, U) /\ (~e.recon => Excess(F, U, L, 0))
      BY <1>6, <3>2, <3>3, <3>4, <3>5, ExcessReversed
    <3> QED BY <1>7, <2>3, <3>2, <3>3, <3>6
  <2>4. CASE m.delta # 0 /\ UndoTargets(q, m) = <<m.entry, m.delta>>
    <3>1. PICK x, y, D : /\ x = Reversal(c + 1, m.entry) /\ y = Reversal(c + 2, m.delta)
                         /\ D = E \cup {x}
      OBVIOUS
    <3>2. F = D \cup {y} /\ ~Reversed(m.entry) /\ ~Reversed(m.delta)
      <4>1. /\ ~Reversed(m.entry) /\ ~Reversed(m.delta)
            /\ entries' = entries \cup {Reversal(c + 1, m.entry), Reversal(c + 2, m.delta)}
        BY <1>1, <1>8, <2>4, ReverseTwo
      <4> QED BY <3>1, <4>1
    <3>3. PICK f \in E : /\ f.seq = m.delta /\ f.kind # "reversal" /\ f.recon = TRUE
                         /\ Difference(E, m) = f.amount
      BY <1>9, <2>4
    <3>4. /\ x.seq = Cardinality(E) + 1 /\ x.kind = "reversal" /\ x.reverses = e.seq
          /\ x.amount = -AmountIn(E, e.seq)
      BY <1>7, <3>1, ReversalIs
    <3>5. e.recon \in BOOLEAN /\ e.kind # "reversal" /\ ~ReversedIn(E, e.seq)
      BY <1>7, <3>2 DEF Reversed, ReversedIn
    <3>6. f.amount \in Int
      BY <1>5 DEF Books
    <3>7. PICK n \in Int : n = f.amount /\ Excess(E, U, L, n)
      BY <1>6, <3>3, <3>6
    <3>8. Books(D, U) /\ (~e.recon => Excess(D, U, L, n))
      <4>1. D = E \cup {x}
        BY <3>1
      <4> QED BY <1>6, <3>4, <3>5, <3>7, <4>1, ExcessReversed
    <3>9. /\ E \subseteq D /\ f \in D /\ Names(D, U) /\ NumberedRows(D)
          /\ Cardinality(D) = Cardinality(E) + 1
      <4>1. E \subseteq D
        BY <3>1
      <4>2. Names(D, U)
        BY <1>6, <4>1 DEF Names, HandIn
      <4>3. x \notin E /\ IsFiniteSet(E) /\ Cardinality(E) \in Nat
        BY <1>5, <3>4, NumbersUp, FS_CardinalityType DEF NumberedRows
      <4>4. Cardinality(D) = Cardinality(E) + 1
        BY <3>1, <4>3, FS_AddElement
      <4> QED BY <3>3, <3>8, <4>1, <4>2, <4>4 DEF Books
    <3>10. AmountIn(D, f.seq) = AmountIn(E, f.seq)
      BY <1>5, <3>9, AmountIs
    <3>11. /\ y.seq = Cardinality(D) + 1 /\ y.kind = "reversal" /\ y.reverses = f.seq
           /\ y.amount = -AmountIn(D, f.seq)
      <4>1. c = Cardinality(E) /\ c \in Nat
        BY <1>5, FS_CardinalityType DEF NumberedRows
      <4>2. y.seq = Cardinality(D) + 1
        BY <3>1, <3>9, <4>1, ReversalIs
      <4> QED BY <3>1, <3>3, <3>10, <4>2, ReversalIs
    <3>12. ~ReversedIn(D, f.seq) /\ f.recon \in BOOLEAN /\ f.kind # "reversal"
      <4>1. ~ReversedIn(E, f.seq)
        BY <3>2, <3>3 DEF Reversed, ReversedIn
      <4>2. e.seq # f.seq
        BY <1>5, <1>7, <3>3 DEF NumberedRows
      <4>3. ~ReversedIn(D, f.seq)
        BY <3>1, <3>4, <4>1, <4>2 DEF ReversedIn
      <4> QED BY <3>3, <4>3
    <3>13. Excess(D, U, L, n)
      BY <1>7, <3>8
    <3>14. Books(F, U) /\ (f.recon => Excess(F, U, L, 0))
      <4>1. n = f.amount
        BY <3>7
      <4> QED BY <3>2, <3>8, <3>9, <3>11, <3>12, <3>13, <4>1, DifferenceGone
    <3>15. ReversedIn(F, m.delta)
      BY <3>2, <3>3, <3>11 DEF ReversedIn
    <3>16. E \subseteq F /\ \A g \in F \ E : g.kind = "reversal"
      BY <3>1, <3>2, <3>4, <3>11
    <3> QED BY <3>3, <3>14, <3>15, <3>16
  <2> QED BY <2>1, <2>2, <2>3, <2>4, TargetsOfUnmake
<1>11. Covered(F, U, L)
  <2>1. \A k \in T \ U : k.delta = 0 \/ ReversedIn(F, k.delta)
    BY <1>5, <1>10
  <2>2. Covered(E, T, L)
    BY <1>5 DEF Explained
  <2> QED BY <1>5, <1>10, <2>1, <2>2, StillCovered
<1>12. Explained(F, U, L)
  BY <1>10, <1>11, NoExcess
<1>13. Explained(F, U, lines')
  BY <1>4, <1>12, Relined
<1> QED BY <1>3, <1>13 DEF Balanced


LEMMA BalancedOther ==
  ASSUME Balanced, UNCHANGED <<lines, entries, matches>>
  PROVE  Balanced'
<1>1. SameRecords(lines, lines')
  BY SameLines
<1> QED BY <1>1, BalancedStill

LEMMA BalancedNext ==
  ASSUME IInv, Balanced, [Next]_vars
  PROVE  Balanced'
<1>1. CASE UNCHANGED vars
  BY <1>1, BalancedOther DEF vars
<1>2. CASE Pay
  BY <1>2, BalancedPay
<1>3. CASE SetPaymentNotInBank \/ UndoPaymentReview
  BY <1>3, BalancedOther DEF SetPaymentNotInBank, UndoPaymentReview
<1>4. CASE \E l \in Lines : Decide(l)
  <2>1. PICK l \in Lines : Decide(l)
    BY <1>4
  <2> QED BY <2>1, BalancedConfirm, BalancedRecord, BalancedIgnore DEF Decide
<1>5. CASE \E q \in Requests : Undo(q)
  <2>1. PICK q \in Requests : Undo(q)
    BY <1>5
  <2>2. CASE Reverse(q) \/ UndoMatch(q) \/ UnrecordLine(q)
    BY <2>2, BalancedOther DEF Reverse, UndoMatch, UnrecordLine
  <2>3. CASE FallBack(q) \/ GiveUp(q)
    BY <2>3, BalancedOther DEF FallBack, GiveUp
  <2> QED BY <2>1, <2>2, <2>3, BalancedReversal, BalancedUnmake, BalancedUnrecord DEF Undo
<1> QED BY <1>1, <1>2, <1>3, <1>4, <1>5 DEF Next

(* Every cent on the tab is explained, whatever is confirmed, recorded and
   undone at once: the payments nobody has matched or undone, the lines
   recorded, and what the bank shows for each standing match (ledger/match.go
   and reconcile.go, with the methods of the store they call). *)
THEOREM BalanceIsExplained == Spec => []BalanceExplained
<1>1. Init => Balanced
  BY ExplainedStart DEF Balanced
<1>2. IInv /\ Balanced /\ [Next]_vars => Balanced'
  BY BalancedNext
<1>3. IInv /\ Balanced => BalanceExplained
  BY ExplainedBalance DEF Balanced
<1> QED BY <1>1, <1>2, <1>3, Inductive, PTL DEF Spec
=============================================================================
