--------------------------- MODULE BankImportProofs ---------------------------
(***************************************************************************)
(* What is proved of BankImport, for every set of files, formats, people   *)
(* and requests. First the arithmetic of a file: its rows are kept, not    *)
(* kept or refused, and the fingerprints of the lines that say the same    *)
(* are numbered one, two and so on. Then two invariants. UploadInv is      *)
(* about the uploads in memory and the screens of those who map them.      *)
(* ImportInv is about the imports: a request has stored what is new of     *)
(* what it has read, no two that store lines have one layout, and the      *)
(* stored lines that say the same are numbered without a gap, so that they *)
(* can be counted by the number of the last. From that follow the counts,  *)
(* the absence of deadlocks, the rules, and that BankImport implements     *)
(* Statements.                                                             *)
(***************************************************************************)
EXTENDS BankImport, FiniteSums, SequenceTheorems

(* Every row of a file has one of three fates. *)
LEMMA RowsOfFile ==
  ASSUME NEW file \in Files, NEW m
  PROVE  LET f == File[file] IN
         /\ Len(f.records) \in Nat /\ DOMAIN f.records = 1..Len(f.records)
         /\ \A fate : IsFiniteSet(Rows(f, m, fate)) /\ Cardinality(Rows(f, m, fate)) \in Nat
         /\ Cardinality(Rows(f, m, "in")) + Cardinality(Rows(f, m, "out"))
              + Cardinality(Rows(f, m, "refused")) = Len(f.records)
<1> DEFINE f == File[file]
           In == Rows(f, m, "in")
           Out == Rows(f, m, "out")
           Refused == Rows(f, m, "refused")
<1>1. f.records \in Seq(Range(f.records))
  BY FilesAssumption DEF IsFile
<1>2. Len(f.records) \in Nat /\ DOMAIN f.records = 1..Len(f.records)
  BY <1>1, LenProperties
<1>3. /\ IsFiniteSet(DOMAIN f.records)
      /\ Cardinality(DOMAIN f.records) = Len(f.records)
  BY <1>2, FS_Interval
<1>4. ASSUME NEW fate
      PROVE  IsFiniteSet(Rows(f, m, fate)) /\ Cardinality(Rows(f, m, fate)) \in Nat
  <2>1. Rows(f, m, fate) \in SUBSET DOMAIN f.records
    BY DEF Rows
  <2> QED BY <1>3, <2>1, FS_Subset, FS_CardinalityType
<1>5. /\ DOMAIN f.records = (In \cup Out) \cup Refused
      /\ In \cap Out = {} /\ (In \cup Out) \cap Refused = {}
  BY DEF Rows, Fate
<1>6. Cardinality(In) + Cardinality(Out) + Cardinality(Refused) = Len(f.records)
  <2>1. IsFiniteSet(In) /\ IsFiniteSet(Out) /\ IsFiniteSet(Refused)
    BY <1>4
  <2> HIDE DEF In, Out, Refused, f
  <2>2. /\ IsFiniteSet(In \cup Out)
        /\ Cardinality(In \cup Out) = Cardinality(In) + Cardinality(Out)
    BY <1>5, <2>1, DisjointParts
  <2>3. Cardinality((In \cup Out) \cup Refused) = Cardinality(In \cup Out) + Cardinality(Refused)
    BY <1>5, <2>1, <2>2, DisjointParts
  <2> QED BY <1>3, <1>5, <2>2, <2>3
<1> QED BY <1>2, <1>4, <1>6

(* The lines a file shows of money received form a sequence. *)
LEMMA IncomingShape ==
  ASSUME NEW file \in Files, NEW m \in AllMappings
  PROVE  LET res == Reading[file][m] IN
         /\ Len(res.incoming) \in Nat /\ DOMAIN res.incoming = 1..Len(res.incoming)
         /\ res.outgoing \in Nat /\ res.refused \in Nat
         /\ Len(res.incoming) + res.outgoing + res.refused = Len(File[file].records)
<1> DEFINE n == Cardinality(Rows(File[file], m, "in"))
           inc == [k \in 1..n |->
                     ReadLine(File[file].records[Nth(Rows(File[file], m, "in"), k)], m)]
<1>1. Reading[file][m] = Apply(File[file], m)
  BY DEF Reading
<1>2. /\ Reading[file][m].incoming = inc
      /\ Reading[file][m].outgoing = Cardinality(Rows(File[file], m, "out"))
      /\ Reading[file][m].refused = Cardinality(Rows(File[file], m, "refused"))
  BY <1>1 DEF Apply
<1>3. n \in Nat
  BY RowsOfFile
<1>4. DOMAIN inc = 1..n /\ inc \in [1..n -> {inc[k] : k \in 1..n}]
  OBVIOUS
<1>5. inc \in Seq({inc[k] : k \in 1..n})
  <2> HIDE DEF inc, n
  <2> QED BY <1>3, <1>4, SeqDef
<1>6. Len(inc) \in Nat /\ DOMAIN inc = 1..Len(inc)
  <2> HIDE DEF inc, n
  <2> QED BY <1>5, LenProperties
<1>7. Len(inc) = n
  <2> HIDE DEF inc, n
  <2> QED BY <1>3, <1>4, <1>6
<1> HIDE DEF inc, n
<1> QED BY <1>2, <1>6, <1>7, RowsOfFile DEF n

(* The places where x stands in a sequence, up to one of them. *)
UpTo(s, x, i) == {j \in 1..i : s[j] = x}

(* Counting what has been equal to x up to each place of a sequence where x
   stands gives one, two and so on, to the number of times x stands in it. *)
LEMMA Occurrences ==
  ASSUME NEW n \in Nat, NEW s, NEW x, NEW c,
         \A i \in 0..n : c[i] = Cardinality(UpTo(s, x, i))
  PROVE  c[n] \in Nat /\ {c[i] : i \in UpTo(s, x, n)} = 1..c[n]
<1> DEFINE At(i) == UpTo(s, x, i)
           P(k)  == {c[i] : i \in At(k)} = 1..c[k]
           Bad   == {k \in 0..n : ~P(k)}
<1>0. \A i \in 0..n : c[i] = Cardinality(At(i))
  OBVIOUS
<1>1. \A i \in 0..n : IsFiniteSet(At(i)) /\ c[i] \in Nat
  <2> TAKE i \in 0..n
  <2>1. At(i) \in SUBSET (1..i) /\ IsFiniteSet(1..i)
    BY FS_Interval DEF UpTo
  <2> HIDE DEF At
  <2> QED BY <1>0, <2>1, FS_Subset, FS_CardinalityType
<1>2. c[0] = 0
  <2>1. At(0) = {}
    BY DEF UpTo
  <2> HIDE DEF At
  <2> QED BY <1>0, <2>1, FS_EmptySet
<1>3. \A i \in 0..n-1 : c[i + 1] = IF s[i + 1] = x THEN c[i] + 1 ELSE c[i]
  <2> TAKE i \in 0..n-1
  <2>1. CASE s[i + 1] = x
    <3>1. At(i + 1) = At(i) \cup {i + 1} /\ i + 1 \notin At(i)
      BY <2>1 DEF UpTo
    <3> HIDE DEF At
    <3> QED BY <1>0, <1>1, <2>1, <3>1, FS_AddElement
  <2>2. CASE s[i + 1] # x
    <3>1. At(i + 1) = At(i)
      BY <2>2 DEF UpTo
    <3> HIDE DEF At
    <3> QED BY <1>0, <2>2, <3>1
  <2> QED BY <2>1, <2>2
<1>4. Bad = {}
  <2> SUFFICES ASSUME Bad # {} PROVE FALSE
    OBVIOUS
  <2>1. PICK k \in Bad : \A l \in Bad : k <= l
    <3>1. Bad \in SUBSET Nat
      OBVIOUS
    <3> HIDE DEF Bad
    <3> QED BY <3>1, Least
  <2>2. k \in 0..n /\ ~P(k)
    BY <2>1
  <2>3. k # 0
    <3>1. At(0) = {} /\ 1..0 = {}
      BY DEF UpTo
    <3>2. P(0)
      BY <1>2, <3>1
    <3> HIDE DEF P
    <3> QED BY <2>2, <3>2
  <2>4. PICK l \in 0..n-1 : k = l + 1
    BY <2>2, <2>3
  <2>5. P(l)
    BY <2>1, <2>4
  <2>6. c[k] = IF s[k] = x THEN c[l] + 1 ELSE c[l]
    BY <1>3, <2>4
  <2>7. At(k) = At(l) \cup (IF s[k] = x THEN {k} ELSE {})
    BY <2>4 DEF UpTo
  <2>8. CASE s[k] = x
    <3>1. {c[i] : i \in At(k)} = {c[i] : i \in At(l)} \cup {c[k]}
      BY <2>7, <2>8
    <3>2. 1..c[k] = (1..c[l]) \cup {c[k]}
      <4>0. l \in 0..n
        BY <2>4
      <4>1. PICK a \in Nat : a = c[l]
        BY <1>1, <4>0
      <4>2. c[k] = a + 1
        BY <2>6, <2>8, <4>1
      <4> QED BY <4>1, <4>2
    <3> QED BY <2>2, <2>5, <3>1, <3>2
  <2>9. CASE s[k] # x
    BY <2>2, <2>5, <2>6, <2>7, <2>9
  <2> QED BY <2>8, <2>9
<1>5. P(n)
  <2>1. n \in 0..n /\ n \notin Bad
    BY <1>4
  <2> HIDE DEF P
  <2> QED BY <2>1
<1> QED BY <1>1, <1>5

-----------------------------------------------------------------------------
AllPrints == UNION {Range(Prints[file][m]) : file \in Files, m \in AllMappings}

(* What each line of a file is known by. *)
LEMMA PrintsShape ==
  ASSUME NEW file \in Files, NEW m \in AllMappings
  PROVE  LET P   == Prints[file][m]
             inc == Reading[file][m].incoming
         IN  /\ Len(P) = Len(inc) /\ Len(P) \in Nat /\ DOMAIN P = 1..Len(P)
             /\ \A i \in 1..Len(P) :
                  /\ P[i] \in AllPrints
                  /\ P[i][1] = Signature(file) /\ P[i][2] = inc[i]
                  /\ P[i] = <<Signature(file), inc[i],
                              Cardinality(UpTo(inc, inc[i], i))>>
<1> DEFINE P   == Prints[file][m]
           inc == Reading[file][m].incoming
           e(i) == <<Signature(file), inc[i], Cardinality(UpTo(inc, inc[i], i))>>
<1>1. P = [i \in DOMAIN inc |-> e(i)]
  BY DEF Prints, Fingerprints, UpTo
<1>2. Len(inc) \in Nat /\ DOMAIN inc = 1..Len(inc)
  BY IncomingShape
<1>3. DOMAIN P = 1..Len(inc) /\ P \in [1..Len(inc) -> {e(i) : i \in 1..Len(inc)}]
  BY <1>1, <1>2
<1>4. P \in Seq({e(i) : i \in 1..Len(inc)})
  <2> HIDE DEF P, inc, e
  <2> QED BY <1>2, <1>3, SeqDef
<1>5. Len(P) \in Nat /\ DOMAIN P = 1..Len(P)
  <2> HIDE DEF P, inc, e
  <2> QED BY <1>4, LenProperties
<1>6. Len(P) = Len(inc)
  <2> HIDE DEF P, inc, e
  <2> QED BY <1>2, <1>3, <1>5
<1>7. ASSUME NEW i \in 1..Len(P)
      PROVE  /\ P[i] \in AllPrints
             /\ P[i] = e(i) /\ P[i][1] = Signature(file) /\ P[i][2] = inc[i]
  <2>1. P[i] = e(i)
    BY <1>1, <1>2, <1>6, <1>7
  <2>2. P[i] \in AllPrints
    <3>1. P[i] \in Range(P)
      BY <1>5, <1>7 DEF Range
    <3>2. Range(P) \in {Range(Prints[fl][mp]) : fl \in Files, mp \in AllMappings}
      OBVIOUS
    <3> QED BY <3>1, <3>2 DEF AllPrints
  <2> HIDE DEF P, inc
  <2> QED BY <2>1, <2>2
<1> QED BY <1>5, <1>6, <1>7

(* Of each line a file shows it has the fingerprints one, two and so on. *)
LEMMA PrintsOfLine ==
  ASSUME NEW file \in Files, NEW m \in AllMappings, NEW x
  PROVE  LET P  == Prints[file][m]
             at == UpTo(Reading[file][m].incoming, x, Len(P))
         IN  /\ Cardinality(at) \in Nat
             /\ {P[i] : i \in at} = {<<Signature(file), x, j>> : j \in 1..Cardinality(at)}
<1> DEFINE P   == Prints[file][m]
           inc == Reading[file][m].incoming
           len == Len(P)
           c   == [i \in 0..len |-> Cardinality(UpTo(inc, x, i))]
           at  == UpTo(inc, x, len)
<1>1. len \in Nat
  BY PrintsShape
<1>2. (\A i \in 0..len : c[i] = Cardinality(UpTo(inc, x, i))) /\ c[len] = Cardinality(at)
  BY <1>1
<1>3. c[len] \in Nat /\ {c[i] : i \in at} = 1..c[len]
  <2> HIDE DEF inc, len, c
  <2> QED BY <1>1, <1>2, Occurrences
<1>4. \A i \in at : P[i] = <<Signature(file), x, c[i]>>
  <2> TAKE i \in at
  <2>1. i \in 1..len /\ inc[i] = x
    BY DEF UpTo
  <2>2. P[i] = <<Signature(file), inc[i], Cardinality(UpTo(inc, inc[i], i))>>
    BY <2>1, PrintsShape
  <2> QED BY <1>1, <1>2, <2>1, <2>2
<1>5. {P[i] : i \in at} = {<<Signature(file), x, j>> : j \in {c[i] : i \in at}}
  <2> HIDE DEF P, at, c
  <2> QED BY <1>4
<1>6. {P[i] : i \in at} = {<<Signature(file), x, j>> : j \in 1..c[len]}
  <2> HIDE DEF P, at, c, len
  <2> QED BY <1>3, <1>5
<1> HIDE DEF c, P, inc, len, at
<1>7. Cardinality(at) \in Nat /\ {P[i] : i \in at} = {<<Signature(file), x, j>> : j \in 1..Cardinality(at)}
  BY <1>2, <1>3, <1>6
<1> QED BY <1>7 DEF P, at, inc, len

-----------------------------------------------------------------------------
-----------------------------------------------------------------------------
Formats  == [sig : Signatures, mapping : AllMappings]
Rules    == [sig : Signatures, text : Texts]
Uploads  == [token : Nat \ {0}, user : Users, file : Files]
Screens  == [token : Nat, gone : BOOLEAN, preview : SUBSET AllMappings]
Lines    == [fp : AllPrints, import : Nat, state : {"open", "ignored", "decided"},
             reopened : BOOLEAN]
Imports  == [file : Files, kept : Nat, ignored : Nat, duplicates : Int, outgoing : Nat,
             refused : Nat, missed : SUBSET Rules]
Counters == [tokens : Nat, imports : Nat, faults : Nat, changes : Nat]

(* The finite sets of fingerprints. *)
SomePrints == {T \in SUBSET AllPrints : IsFiniteSet(T)}

Creating == [pc : {"create"}, file : Files, token : Nat \ {0}, mapping : AllMappings]
Knowing  == [pc : {"rules"}, file : Files, sig : Signatures, mapping : AllMappings]
Storing  == [pc : {"begin", "insert"}, file : Files, sig : Signatures, mapping : AllMappings,
             rules : SUBSET Rules, attempt : Nat, done : Nat, new : SomePrints]
States   == {Idle} \cup Creating \cup Knowing \cup Storing

(* Every variable holds a value of its type. *)
TypeOK ==
  /\ formats \subseteq Formats
  /\ rules \subseteq Rules
  /\ imports \in Seq(Imports)
  /\ lines \subseteq Lines
  /\ pending \subseteq Uploads /\ IsFiniteSet(pending)
  /\ screen \in [Users -> Screens]
  /\ req \in [Requests -> States]
  /\ used \in Counters

LEMMA TypeInit == Init => TypeOK
<1>1. IsFiniteSet({})
  BY FS_EmptySet
<1> QED BY <1>1 DEF Init, TypeOK, NoScreen, Screens, States, Counters

LEMMA UseCounts ==
  ASSUME used \in Counters, NEW what \in {"tokens", "imports", "faults", "changes"},
         NEW bound, Use(what, bound)
  PROVE  /\ used' \in Counters
         /\ used'.tokens = IF what = "tokens" THEN used.tokens + 1 ELSE used.tokens
BY DEF Use, Counters

(* A request that stores lines is in its transaction. *)
LEMMA StoringState ==
  ASSUME TypeOK, NEW r \in Requests, req[r].pc \in {"begin", "insert"}
  PROVE  /\ req[r] \in Storing
         /\ req[r].file \in Files /\ req[r].mapping \in AllMappings
         /\ req[r].done \in Nat /\ req[r].new \in SomePrints
BY DEF TypeOK, States, Idle, Creating, Knowing, Storing

LEMMA StateSet ==
  ASSUME TypeOK, NEW r \in Requests, NEW q \in States, req' = [req EXCEPT ![r] = q]
  PROVE  req' \in [Requests -> States]
BY DEF TypeOK

(* The lines a commit stores. *)
LEMMA StoredLines ==
  ASSUME TypeOK, NEW r \in Requests, Inserting(r)
  PROVE  LET stored == {StoredLine(r, fp) : fp \in req[r].new} IN
         /\ stored \subseteq Lines
         /\ IsFiniteSet(stored) /\ Cardinality(stored) = Cardinality(req[r].new)
         /\ \A s : IsFiniteSet({l \in stored : l.state = s})
                   /\ Cardinality({l \in stored : l.state = s}) \in Nat
         /\ Cardinality({l \in stored : l.state = "open"})
              + Cardinality({l \in stored : l.state = "ignored"}) = Cardinality(req[r].new)
<1> DEFINE new == req[r].new
           f == [fp \in new |-> StoredLine(r, fp)]
           stored == {StoredLine(r, fp) : fp \in new}
           of(s) == {l \in stored : l.state = s}
<1>1. new \in SUBSET AllPrints /\ IsFiniteSet(new)
  BY StoringState DEF Inserting, SomePrints
<1>2. Len(imports) + 1 \in Nat
  <2>1. imports \in Seq(Imports)
    BY DEF TypeOK
  <2>2. Len(imports) \in Nat
    BY <2>1, LenProperties
  <2> QED BY <2>2
<1>3. stored \subseteq Lines
  <2>1. ASSUME NEW fp \in new PROVE StoredLine(r, fp) \in Lines
    <3>1. fp \in AllPrints /\ StateOf(req[r].rules, fp) \in {"open", "ignored", "decided"}
      BY <1>1 DEF StateOf
    <3> QED BY <1>2, <3>1 DEF StoredLine, Lines
  <2> QED BY <2>1
<1>4. stored = {f[fp] : fp \in new}
  OBVIOUS
<1>5. \A fp, gp \in new : f[fp] = f[gp] => fp = gp
  BY DEF StoredLine
<1>6. IsFiniteSet(stored) /\ Cardinality(stored) = Cardinality(new)
  <2> HIDE DEF f, new, stored
  <2> QED BY <1>1, <1>4, <1>5, ImageOf
<1>7. ASSUME NEW s PROVE IsFiniteSet(of(s)) /\ Cardinality(of(s)) \in Nat
  <2>1. of(s) \in SUBSET stored
    OBVIOUS
  <2> HIDE DEF of, stored
  <2> QED BY <1>6, <2>1, FS_Subset, FS_CardinalityType
<1>8. stored = of("open") \cup of("ignored") /\ of("open") \cap of("ignored") = {}
  BY DEF StoredLine, StateOf
<1>9. Cardinality(of("open")) + Cardinality(of("ignored")) = Cardinality(new)
  <2>1. IsFiniteSet(of("open")) /\ IsFiniteSet(of("ignored"))
    BY <1>7
  <2>2. PICK A, B : A = of("open") /\ B = of("ignored")
    OBVIOUS
  <2> HIDE DEF of, stored, new
  <2> QED BY <1>6, <1>8, <2>1, <2>2, DisjointParts
<1> QED BY <1>3, <1>6, <1>7, <1>9

(* The format a file is read by is its layout's, and of the type. *)
LEMMA FormatStands ==
  ASSUME formats \subseteq Formats, NEW sig \in Signatures, NEW m \in AllMappings
  PROVE  LET f == FormatOf(sig, m) IN
         /\ f \in Formats /\ f.sig = sig /\ f.mapping \in AllMappings
         /\ Known(sig) # {} => f \in Known(sig)
         /\ Known(sig) = {} => f = [sig |-> sig, mapping |-> m]
<1>1. CASE Known(sig) = {}
  <2>1. FormatOf(sig, m) = [sig |-> sig, mapping |-> m]
    BY <1>1 DEF FormatOf
  <2> QED BY <1>1, <2>1 DEF Formats
<1>2. CASE Known(sig) # {}
  <2>1. FormatOf(sig, m) \in Known(sig)
    BY <1>2 DEF FormatOf
  <2> QED BY <1>2, <2>1 DEF Known, Formats
<1> QED BY <1>1, <1>2

LEMMA GoneScreens ==
  ASSUME TypeOK, NEW tokens, Gone(tokens)
  PROVE  /\ screen' \in [Users -> Screens]
         /\ \A u \in Users : /\ screen'[u].token = screen[u].token
                             /\ screen'[u].preview = screen[u].preview
                             /\ screen'[u].gone = (screen[u].gone \/ screen[u].token \in tokens)
<1>1. \A u \in Users : screen[u] \in Screens
  BY DEF TypeOK
<1>2. ASSUME NEW u \in Users
      PROVE  /\ screen'[u] \in Screens
             /\ screen'[u].token = screen[u].token /\ screen'[u].preview = screen[u].preview
             /\ screen'[u].gone = (screen[u].gone \/ screen[u].token \in tokens)
  <2>1. CASE screen[u].token \in tokens
    <3>1. screen'[u] = [screen[u] EXCEPT !.gone = TRUE]
      BY <2>1 DEF Gone
    <3> QED BY <1>1, <2>1, <3>1 DEF Screens
  <2>2. CASE screen[u].token \notin tokens
    <3>1. screen'[u] = screen[u]
      BY <2>2 DEF Gone
    <3> QED BY <1>1, <2>2, <3>1 DEF Screens
  <2> QED BY <2>1, <2>2
<1>3. screen' = [u \in Users |-> screen'[u]]
  BY DEF Gone
<1> QED BY <1>2, <1>3

(* What a request keeps while it stores its lines. *)
Carries(q, p) == q.file = p.file /\ q.sig = p.sig /\ q.mapping = p.mapping /\ q.rules = p.rules

(* What a request is after each step of storing its lines. *)
LEMMA BeginState ==
  ASSUME TypeOK, NEW r \in Requests, Begin(r)
  PROVE  /\ req[r] \in Storing
         /\ \E q \in Storing : /\ req' = [req EXCEPT ![r] = q] /\ Carries(q, req[r])
                               /\ q.pc = "insert" /\ q.done = 0 /\ q.new = {}
<1>1. req[r] \in Storing
  BY StoringState DEF Begin
<1>2. req \in [Requests -> States]
  BY DEF TypeOK
<1>3. PICK q : q = [req[r] EXCEPT !.pc = "insert", !.done = 0, !.new = {}]
  OBVIOUS
<1>4. req' = [req EXCEPT ![r] = q]
  BY <1>2, <1>3 DEF Begin
<1>5. {} \in SomePrints
  BY FS_EmptySet DEF SomePrints
<1>6. q \in Storing /\ Carries(q, req[r]) /\ q.pc = "insert" /\ q.done = 0 /\ q.new = {}
  BY <1>1, <1>3, <1>5 DEF Storing, Carries
<1> QED BY <1>1, <1>4, <1>6

LEMMA InsertState ==
  ASSUME TypeOK, NEW r \in Requests, InsertLine(r)
  PROVE  /\ req[r] \in Storing /\ NextLine(r) \in AllPrints
         /\ req[r].done + 1 \in 1..Len(Incoming(r))
         /\ \E q \in Storing : /\ req' = [req EXCEPT ![r] = q] /\ Carries(q, req[r])
                               /\ q.pc = "insert" /\ q.done = req[r].done + 1
                               /\ q.new = req[r].new \cup ({NextLine(r)} \ {l.fp : l \in lines})
<1>1. req[r] \in Storing /\ req[r].pc = "insert"
  BY StoringState DEF InsertLine, HasNext, Inserting
<1>2. req \in [Requests -> States]
  BY DEF TypeOK
<1>3. req[r].done + 1 \in 1..Len(Incoming(r)) /\ NextLine(r) \in AllPrints
  <2>1. req[r].done < Len(Incoming(r)) /\ req[r].done \in Nat /\ Len(Incoming(r)) \in Nat
    BY StoringState, <1>1, PrintsShape DEF InsertLine, HasNext, Incoming
  <2>2. req[r].done + 1 \in 1..Len(Incoming(r))
    BY <2>1
  <2> QED BY StoringState, <1>1, <2>2, PrintsShape DEF NextLine, Incoming
<1>4. PICK new : new = req[r].new \cup ({NextLine(r)} \ {l.fp : l \in lines})
  OBVIOUS
<1>5. new \in SomePrints
  <2>1. req[r].new \in SUBSET AllPrints /\ IsFiniteSet(req[r].new)
    BY StoringState, <1>1 DEF SomePrints
  <2>2. new = req[r].new \/ new = req[r].new \cup {NextLine(r)}
    BY <1>4
  <2>3. IsFiniteSet(req[r].new \cup {NextLine(r)})
    BY <2>1, FS_AddElement
  <2> QED BY <1>3, <2>1, <2>2, <2>3 DEF SomePrints
<1>6. PICK done \in Nat : done = req[r].done + 1
  BY <1>1 DEF Storing
<1>7. PICK q : q = [req[r] EXCEPT !.done = done, !.new = new]
  OBVIOUS
<1>8. req' = [req EXCEPT ![r] = q]
  BY <1>1, <1>2, <1>4, <1>6, <1>7 DEF InsertLine, Storing
<1>9. q \in Storing /\ Carries(q, req[r]) /\ q.pc = "insert" /\ q.done = done /\ q.new = new
  BY <1>1, <1>5, <1>7 DEF Storing, Carries
<1> QED BY <1>1, <1>3, <1>4, <1>6, <1>8, <1>9

LEMMA DeadlockedState ==
  ASSUME TypeOK, NEW r \in Requests, Deadlocked(r)
  PROVE  /\ req[r] \in Storing
         /\ \/ req' = [req EXCEPT ![r] = Idle]
            \/ \E q \in Storing : /\ req' = [req EXCEPT ![r] = q] /\ Carries(q, req[r])
                                  /\ q.pc = "begin" /\ q.done = 0 /\ q.new = {}
<1>1. req[r] \in Storing
  BY StoringState DEF Deadlocked, Inserting
<1>2. CASE req[r].attempt < Attempts
  <2>0. PICK n \in Nat : n = req[r].attempt + 1
    BY <1>1 DEF Storing
  <2>1. PICK q : q = [req[r] EXCEPT !.pc = "begin", !.attempt = n, !.done = 0, !.new = {}]
    OBVIOUS
  <2>2. req' = [req EXCEPT ![r] = q]
    BY <1>1, <1>2, <2>0, <2>1 DEF Deadlocked, Storing
  <2>3. {} \in SomePrints
    BY FS_EmptySet DEF SomePrints
  <2>4. q \in Storing /\ Carries(q, req[r]) /\ q.pc = "begin" /\ q.done = 0 /\ q.new = {}
    BY <1>1, <2>1, <2>3 DEF Storing, Carries
  <2> QED BY <1>1, <2>2, <2>4
<1>3. CASE ~(req[r].attempt < Attempts)
  BY <1>1, <1>3 DEF Deadlocked
<1> QED BY <1>2, <1>3

LEMMA CreateState ==
  ASSUME TypeOK, NEW r \in Requests, Create(r)
  PROVE  LET file == req[r].file
             sig  == Signature(file) IN
         /\ req[r] \in Creating
         /\ \E f \in Formats :
              /\ f.sig = sig /\ f \in formats'
              /\ formats' = formats \/ (Known(sig) = {} /\ formats' = formats \cup {f})
              /\ req' = [req EXCEPT ![r] = ImportWith(file, f)]
              /\ ImportWith(file, f) \in Knowing
<1>1. req[r] \in Creating
  BY DEF Create, TypeOK, States, Idle, Creating, Knowing, Storing
<1>2. req[r].file \in Files /\ req[r].mapping \in AllMappings
  BY <1>1 DEF Creating
<1>3. Signature(req[r].file) \in Signatures
  BY <1>2 DEF Signatures
<1>4. PICK f : f = FormatOf(Signature(req[r].file), req[r].mapping)
  OBVIOUS
<1>5. /\ f \in Formats /\ f.sig = Signature(req[r].file)
      /\ Known(f.sig) # {} => f \in formats
  BY <1>2, <1>3, <1>4, FormatStands DEF TypeOK, Known
<1>6. /\ formats' = IF Known(f.sig) = {} THEN formats \cup {f} ELSE formats
      /\ req' = [req EXCEPT ![r] = ImportWith(req[r].file, f)]
  BY <1>4, <1>5 DEF Create
<1>7. ImportWith(req[r].file, f) \in Knowing
  BY <1>2, <1>5 DEF ImportWith, Knowing, Formats
<1> QED BY <1>1, <1>5, <1>6, <1>7

LEMMA UploadKnownState ==
  ASSUME TypeOK, NEW r \in Requests, NEW file \in Files, UploadKnown(r, file)
  PROVE  \E f \in formats : /\ f.sig = Signature(file)
                            /\ req' = [req EXCEPT ![r] = ImportWith(file, f)]
                            /\ ImportWith(file, f) \in Knowing
<1>1. PICK f \in Known(Signature(file)) : req' = [req EXCEPT ![r] = ImportWith(file, f)]
  BY DEF UploadKnown
<1>2. f \in formats /\ f \in Formats /\ f.sig = Signature(file)
  BY DEF Known, TypeOK
<1>3. ImportWith(file, f) \in Knowing
  BY <1>2 DEF ImportWith, Knowing, Formats
<1> QED BY <1>1, <1>2, <1>3

LEMMA RulesState ==
  ASSUME TypeOK, NEW r \in Requests, ListIgnoreRules(r)
  PROVE  /\ req[r] \in Knowing
         /\ \E q \in Storing :
              /\ req' = [req EXCEPT ![r] = q]
              /\ q.file = req[r].file /\ q.sig = req[r].sig /\ q.mapping = req[r].mapping
              /\ q.rules = RulesOf(req[r].sig) /\ q.pc = "begin" /\ q.done = 0 /\ q.new = {}
<1>1. req[r] \in Knowing
  BY DEF ListIgnoreRules, TypeOK, States, Idle, Creating, Knowing, Storing
<1>2. RulesOf(req[r].sig) \subseteq Rules
  BY DEF RulesOf, TypeOK
<1>3. {} \in SomePrints
  BY FS_EmptySet DEF SomePrints
<1>4. PICK q : q = [pc |-> "begin", file |-> req[r].file, sig |-> req[r].sig,
                    mapping |-> req[r].mapping, rules |-> RulesOf(req[r].sig), attempt |-> 1,
                    done |-> 0, new |-> {}]
  OBVIOUS
<1>5. req' = [req EXCEPT ![r] = q]
  BY <1>4 DEF ListIgnoreRules
<1>6. q \in Storing
  BY <1>1, <1>2, <1>3, <1>4 DEF Knowing, Storing
<1> QED BY <1>1, <1>4, <1>5, <1>6

LEMMA SaveState ==
  ASSUME TypeOK, NEW r \in Requests, NEW u \in Users, SaveMapping(r, u)
  PROVE  \E q \in Creating : req' = [req EXCEPT ![r] = q]
<1>1. PICK p \in Get(screen[u].token, u), m \in screen[u].preview :
        req' = [req EXCEPT ![r] = [pc |-> "create", file |-> p.file, token |-> p.token,
                                   mapping |-> m]]
  BY DEF SaveMapping
<1>2. p.file \in Files /\ p.token \in Nat \ {0}
  BY DEF Get, TypeOK, Uploads
<1>3. m \in AllMappings
  BY DEF TypeOK, Screens
<1>4. [pc |-> "create", file |-> p.file, token |-> p.token, mapping |-> m] \in Creating
  BY <1>2, <1>3 DEF Creating
<1> QED BY <1>1, <1>4

(* What a commit stores, and counts. *)
LEMMA CommitState ==
  ASSUME TypeOK, NEW r \in Requests, Commit(r)
  PROVE  LET stored == {StoredLine(r, fp) : fp \in req[r].new}
             res    == Reading[req[r].file][req[r].mapping]
         IN
         /\ req[r] \in Storing /\ req[r].pc = "insert"
         /\ stored \subseteq Lines /\ lines' = lines \cup stored
         /\ req' = [req EXCEPT ![r] = Idle]
         /\ \E imp \in Imports :
              /\ imports' = Append(imports, imp)
              /\ imp.file = req[r].file
              /\ imp.kept + imp.ignored = Cardinality(req[r].new)
              /\ imp.duplicates = req[r].done - Cardinality(req[r].new)
              /\ imp.outgoing = res.outgoing /\ imp.refused = res.refused
              /\ imp.missed = RulesOf(req[r].sig) \ req[r].rules
<1> DEFINE stored == {StoredLine(r, fp) : fp \in req[r].new}
           res == Reading[req[r].file][req[r].mapping]
           state(s) == Cardinality({l \in stored : l.state = s})
<1>1. req[r] \in Storing /\ req[r].pc = "insert" /\ Inserting(r)
  BY StoringState DEF Commit, Inserting
<1>2. /\ stored \subseteq Lines
      /\ state("open") \in Nat /\ state("ignored") \in Nat
      /\ state("open") + state("ignored") = Cardinality(req[r].new)
      /\ Cardinality(req[r].new) \in Nat
  <2>1. IsFiniteSet(req[r].new)
    BY <1>1 DEF Storing, SomePrints
  <2>2. Cardinality(req[r].new) \in Nat
    BY <2>1, FS_CardinalityType
  <2> QED BY <1>1, <2>2, StoredLines
<1>3. req[r].file \in Files /\ req[r].mapping \in AllMappings /\ req[r].done \in Nat
  BY <1>1 DEF Storing
<1>4. res.outgoing \in Nat /\ res.refused \in Nat
  BY <1>3, IncomingShape
<1>5. RulesOf(req[r].sig) \ req[r].rules \subseteq Rules
  BY DEF RulesOf, TypeOK
<1>6. PICK kept \in Nat, ignored \in Nat, duplicates \in Int :
        /\ kept = state("open") /\ ignored = state("ignored")
        /\ duplicates = req[r].done - Cardinality(req[r].new)
  <2> HIDE DEF state
  <2>1. req[r].done - Cardinality(req[r].new) \in Int
    BY <1>2, <1>3
  <2> QED BY <1>2, <2>1
<1>7. PICK imp : imp = [file |-> req[r].file, kept |-> kept, ignored |-> ignored,
        duplicates |-> duplicates, outgoing |-> res.outgoing, refused |-> res.refused,
        missed |-> RulesOf(req[r].sig) \ req[r].rules]
  OBVIOUS
<1>8. imports' = Append(imports, imp) /\ lines' = lines \cup stored
        /\ req' = [req EXCEPT ![r] = Idle]
  BY <1>6, <1>7 DEF Commit
<1>9. imp \in Imports
  BY <1>3, <1>4, <1>5, <1>7 DEF Imports
<1>10. /\ imp.file = req[r].file
       /\ imp.kept + imp.ignored = Cardinality(req[r].new)
       /\ imp.duplicates = req[r].done - Cardinality(req[r].new)
       /\ imp.outgoing = res.outgoing /\ imp.refused = res.refused
       /\ imp.missed = RulesOf(req[r].sig) \ req[r].rules
  <2> HIDE DEF state, res
  <2> QED BY <1>2, <1>6, <1>7
<1> QED BY <1>1, <1>2, <1>8, <1>9, <1>10

(* An upload takes the next token. *)
LEMMA PutState ==
  ASSUME TypeOK, NEW u \in Users, NEW file \in Files, UploadUnknown(u, file)
  PROVE  /\ used.tokens \in Nat /\ used'.tokens = used.tokens + 1 /\ used' \in Counters
         /\ pending' \subseteq pending \cup {[token |-> used.tokens + 1, user |-> u, file |-> file]}
         /\ pending' \subseteq Uploads /\ IsFiniteSet(pending')
         /\ \E s \in Screens : /\ screen' = [screen EXCEPT ![u] = s]
                               /\ s.token = used.tokens + 1 /\ ~s.gone
<1>1. used.tokens \in Nat /\ used'.tokens = used.tokens + 1 /\ used' \in Counters
  <2>1. used.tokens \in Nat /\ used \in Counters
    BY DEF TypeOK, Counters
  <2> QED BY <2>1, UseCounts DEF UploadUnknown
<1>2. PICK token \in Nat \ {0} : token = used.tokens + 1
  BY <1>1
<1>3. PICK p : p = [token |-> token, user |-> u, file |-> file]
  OBVIOUS
<1>4. pending' \subseteq pending \cup {p}
  BY <1>2, <1>3 DEF UploadUnknown, Put
<1>5. pending' \subseteq Uploads
  BY <1>3, <1>4 DEF TypeOK, Uploads
<1>6. IsFiniteSet(pending')
  <2>1. IsFiniteSet(pending \cup {p})
    BY FS_AddElement DEF TypeOK
  <2> QED BY <1>4, <2>1, FS_Subset
<1>7. PICK s : s = [token |-> token, gone |-> FALSE, preview |-> IfFits(file, Guess(File[file]))]
  OBVIOUS
<1>8. s \in Screens /\ s.token = token /\ ~s.gone
  BY <1>7 DEF Screens, IfFits, AllMappings
<1>9. screen' = [screen EXCEPT ![u] = s]
  BY <1>2, <1>7 DEF UploadUnknown
<1> QED BY <1>1, <1>2, <1>3, <1>4, <1>5, <1>6, <1>8, <1>9

LEMMA PreviewState ==
  ASSUME TypeOK, NEW u \in Users, PreviewMapping(u)
  PROVE  /\ screen' \in [Users -> Screens]
         /\ \A v \in Users : screen'[v].token = screen[v].token /\ screen'[v].gone = screen[v].gone
<1>1. PICK p \in Get(screen[u].token, u), m \in Mappings :
        screen' = [screen EXCEPT ![u].preview = IfFits(p.file, m)]
  BY DEF PreviewMapping
<1>2. PICK t : t = IfFits(p.file, m)
  OBVIOUS
<1>3. t \in SUBSET AllMappings
  BY <1>2 DEF IfFits, AllMappings
<1>4. screen \in [Users -> Screens] /\ screen[u] \in Screens
  BY DEF TypeOK
<1>5. PICK s : s = [screen[u] EXCEPT !.preview = t]
  OBVIOUS
<1>6. s \in Screens /\ s.token = screen[u].token /\ s.gone = screen[u].gone
  BY <1>3, <1>4, <1>5 DEF Screens
<1>7. screen' = [screen EXCEPT ![u] = s]
  BY <1>1, <1>2, <1>5
<1> QED BY <1>4, <1>6, <1>7

(* The state of a line, and nothing else of it, changes. *)
SameLine(k, l) == k.fp = l.fp /\ k.import = l.import

LEMMA RuleState ==
  ASSUME TypeOK, NEW sig \in Signatures, NEW text \in Texts, AddIgnoreRule(sig, text)
  PROVE  LET rule == [sig |-> sig, text |-> text] IN
         /\ rule \in Rules /\ rules' = rules \cup {rule}
         /\ \A k \in lines' : \E l \in lines :
              /\ k \in Lines /\ SameLine(k, l) /\ k.reopened = l.reopened
              /\ k.state = "open" => k = l /\ ~Matches(rule, l.fp)
         /\ \A l \in lines : \E k \in lines' : SameLine(k, l)
<1> DEFINE rule == [sig |-> sig, text |-> text]
           to(l) == IF l.state = "open" /\ Matches(rule, l.fp)
                    THEN [l EXCEPT !.state = "ignored"] ELSE l
<1>1. rule \in Rules /\ rules' = rules \cup {rule}
  BY DEF AddIgnoreRule, Rules
<1>2. lines' = {to(l) : l \in lines}
  BY DEF AddIgnoreRule
<1>3. ASSUME NEW l \in lines
      PROVE  /\ to(l) \in Lines /\ SameLine(to(l), l) /\ to(l).reopened = l.reopened
             /\ to(l).state = "open" => to(l) = l /\ ~Matches(rule, l.fp)
  <2>1. l \in Lines
    BY DEF TypeOK
  <2>2. CASE l.state = "open" /\ Matches(rule, l.fp)
    <3>1. to(l) = [l EXCEPT !.state = "ignored"]
      BY <2>2
    <3> HIDE DEF to, rule
    <3> QED BY <2>1, <3>1 DEF Lines, SameLine
  <2>3. CASE ~(l.state = "open" /\ Matches(rule, l.fp))
    <3>1. to(l) = l
      BY <2>3
    <3> HIDE DEF to, rule
    <3> QED BY <2>1, <2>3, <3>1 DEF SameLine
  <2> QED BY <2>2, <2>3
<1> HIDE DEF to
<1> QED BY <1>1, <1>2, <1>3

LEMMA SetState ==
  ASSUME TypeOK, NEW l \in lines, NEW state \in {"open", "ignored", "decided"},
         NEW reopened \in BOOLEAN, SetLine(l, state, reopened)
  PROVE  /\ \E k \in Lines : /\ lines' = (lines \ {l}) \cup {k} /\ SameLine(k, l)
                             /\ k.state = state /\ k.reopened = reopened
         /\ used' \in Counters /\ used'.tokens = used.tokens
<1>1. l \in Lines /\ used \in Counters
  BY DEF TypeOK
<1>2. PICK k : k = [l EXCEPT !.state = state, !.reopened = reopened]
  OBVIOUS
<1>3. k \in Lines /\ SameLine(k, l) /\ k.state = state /\ k.reopened = reopened
  BY <1>1, <1>2 DEF Lines, SameLine
<1>4. lines' = (lines \ {l}) \cup {k}
  BY <1>2 DEF SetLine
<1>5. used' \in Counters /\ used'.tokens = used.tokens
  BY <1>1, UseCounts DEF SetLine
<1> QED BY <1>3, <1>4, <1>5

(* The steps people take on stored lines. *)
LineStep == DecideLine \/ ReopenLine

LEMMA LineState ==
  ASSUME TypeOK, LineStep
  PROVE  /\ \E l \in lines, k \in Lines :
              /\ lines' = (lines \ {l}) \cup {k} /\ SameLine(k, l)
              /\ k.state = "open" => k.reopened
         /\ used' \in Counters /\ used'.tokens = used.tokens
         /\ UNCHANGED <<formats, rules, imports, pending, screen, req>>
<1>1. CASE DecideLine
  <2>1. PICK l \in lines : SetLine(l, "decided", l.reopened)
    BY <1>1 DEF DecideLine
  <2>2. l.reopened \in BOOLEAN
    BY DEF TypeOK, Lines
  <2>3. UNCHANGED <<formats, rules, imports, pending, screen, req>>
    BY <2>1 DEF SetLine
  <2> QED BY <2>1, <2>2, <2>3, SetState
<1>2. CASE ReopenLine
  <2>1. PICK l \in lines : SetLine(l, "open", TRUE)
    BY <1>2 DEF ReopenLine
  <2>2. UNCHANGED <<formats, rules, imports, pending, screen, req>>
    BY <2>1 DEF SetLine
  <2> QED BY <2>1, <2>2, SetState
<1> QED BY <1>1, <1>2 DEF LineStep

(* The least of the pending uploads goes, or all of them do. *)
LEMMA DropState ==
  ASSUME TypeOK, NEW tokens, pending' \in SUBSET pending, Gone(tokens)
  PROVE  /\ pending' \subseteq Uploads /\ IsFiniteSet(pending')
         /\ screen' \in [Users -> Screens]
BY FS_Subset, GoneScreens DEF TypeOK

LEMMA RequestTypes ==
  ASSUME TypeOK, NEW r \in Requests, Serve(r)
  PROVE  TypeOK'
<1>1. CASE Create(r)
  <2>1. PICK f \in Formats : /\ formats' = formats \/ formats' = formats \cup {f}
                             /\ req' = [req EXCEPT ![r] = ImportWith(req[r].file, f)]
                             /\ ImportWith(req[r].file, f) \in Knowing
    BY <1>1, CreateState
  <2>2. pending' \in SUBSET pending /\ Gone({req[r].token})
    BY <1>1 DEF Create, Drop
  <2>3. req' \in [Requests -> States]
    BY <2>1, StateSet DEF States
  <2> QED BY <1>1, <2>1, <2>2, <2>3, DropState DEF Create, TypeOK
<1>2. CASE ListIgnoreRules(r)
  <2>1. req' \in [Requests -> States]
    BY <1>2, RulesState, StateSet DEF States
  <2> QED BY <1>2, <2>1 DEF ListIgnoreRules, TypeOK
<1>3. CASE Begin(r)
  <2>1. req' \in [Requests -> States]
    BY <1>3, BeginState, StateSet DEF States
  <2> QED BY <1>3, <2>1 DEF Begin, TypeOK
<1>4. CASE InsertLine(r)
  <2>1. req' \in [Requests -> States]
    BY <1>4, InsertState, StateSet DEF States
  <2> QED BY <1>4, <2>1 DEF InsertLine, TypeOK
<1>5. CASE Commit(r)
  <2>1. req' \in [Requests -> States]
    BY <1>5, CommitState, StateSet DEF States
  <2>2. lines' \subseteq Lines /\ imports' \in Seq(Imports)
    <3>1. imports \in Seq(Imports)
      BY DEF TypeOK
    <3>2. \E imp \in Imports : imports' = Append(imports, imp)
      BY <1>5, CommitState
    <3>3. lines' \subseteq Lines
      BY <1>5, CommitState DEF TypeOK
    <3> QED BY <3>1, <3>2, <3>3, AppendProperties
  <2> QED BY <1>5, <2>1, <2>2 DEF Commit, TypeOK
<1>6. CASE Deadlocked(r)
  <2>1. req' \in [Requests -> States]
    BY <1>6, DeadlockedState, StateSet DEF States
  <2>2. used' \in Counters
    BY <1>6, UseCounts DEF Deadlocked, TypeOK
  <2> QED BY <1>6, <2>1, <2>2 DEF Deadlocked, TypeOK
<1>7. CASE Fail(r)
  <2>1. req' \in [Requests -> States]
    BY <1>7, StateSet DEF Fail, States
  <2>2. used' \in Counters
    BY <1>7, UseCounts DEF Fail, TypeOK
  <2> QED BY <1>7, <2>1, <2>2 DEF Fail, TypeOK
<1> QED BY <1>1, <1>2, <1>3, <1>4, <1>5, <1>6, <1>7 DEF Serve

LEMMA TypeStep == TypeOK /\ [Next]_vars => TypeOK'
<1> SUFFICES ASSUME TypeOK, [Next]_vars PROVE TypeOK'
  OBVIOUS
<1>1. CASE \E r \in Requests : Serve(r)
  BY <1>1, RequestTypes
<1>2. ASSUME NEW r \in Requests, NEW file \in Files, UploadKnown(r, file) PROVE TypeOK'
  <2>1. req' \in [Requests -> States]
    BY <1>2, UploadKnownState, StateSet DEF States
  <2>2. used' \in Counters
    BY <1>2, UseCounts DEF UploadKnown, TypeOK
  <2> QED BY <1>2, <2>1, <2>2 DEF UploadKnown, TypeOK
<1>3. ASSUME NEW u \in Users, NEW file \in Files, UploadUnknown(u, file) PROVE TypeOK'
  <2>1. screen' \in [Users -> Screens]
    BY <1>3, PutState DEF TypeOK
  <2> QED BY <1>3, <2>1, PutState DEF UploadUnknown, TypeOK
<1>4. ASSUME NEW u \in Users, PreviewMapping(u) PROVE TypeOK'
  BY <1>4, PreviewState DEF PreviewMapping, TypeOK
<1>5. ASSUME NEW r \in Requests, NEW u \in Users, SaveMapping(r, u) PROVE TypeOK'
  <2>1. req' \in [Requests -> States]
    BY <1>5, SaveState, StateSet DEF States
  <2>2. used' \in Counters
    BY <1>5, UseCounts DEF SaveMapping, TypeOK
  <2> QED BY <1>5, <2>1, <2>2 DEF SaveMapping, TypeOK
<1>6. CASE Restart
  <2>1. used' \in Counters
    BY <1>6, UseCounts DEF Restart, TypeOK
  <2>2. pending' \in SUBSET pending /\ Gone({p.token : p \in pending})
    BY <1>6 DEF Restart
  <2>3. req' \in [Requests -> States]
    BY <1>6 DEF Restart, States
  <2> QED BY <1>6, <2>1, <2>2, <2>3, DropState DEF Restart, TypeOK
<1>7. CASE Expire
  <2>1. used' \in Counters
    BY <1>7, UseCounts DEF Expire, TypeOK
  <2>2. PICK p \in pending : pending' = pending \ {p} /\ Gone({p.token})
    BY <1>7 DEF Expire
  <2> QED BY <1>7, <2>1, <2>2, DropState DEF Expire, TypeOK
<1>8. ASSUME NEW sig \in Signatures, NEW text \in Texts, AddIgnoreRule(sig, text) PROVE TypeOK'
  <2>1. used' \in Counters
    BY <1>8, UseCounts DEF AddIgnoreRule, TypeOK
  <2>2. rules' \subseteq Rules /\ lines' \subseteq Lines
    BY <1>8, RuleState DEF TypeOK
  <2> QED BY <1>8, <2>1, <2>2 DEF AddIgnoreRule, TypeOK
<1>9. CASE DeleteIgnoreRule
  <2>1. used' \in Counters
    BY <1>9, UseCounts DEF DeleteIgnoreRule, TypeOK
  <2> QED BY <1>9, <2>1 DEF DeleteIgnoreRule, TypeOK
<1>10. CASE LineStep
  BY <1>10, LineState DEF TypeOK
<1>11. CASE UNCHANGED vars
  BY <1>11 DEF vars, TypeOK
<1> QED BY <1>1, <1>2, <1>3, <1>4, <1>5, <1>6, <1>7, <1>8, <1>9, <1>10, <1>11 DEF Next, LineStep

-----------------------------------------------------------------------------
(* Those who have uploaded since. *)
After(t) == {v \in Users : screen[v].token > t}

Uploaders == {v \in Users : screen[v].token # 0}

(* Whoever has lost an upload to others lost it to as many as fit. *)
Evicted ==
  \A u \in Users :
    screen[u].token # 0 /\ ~screen[u].gone /\ Get(screen[u].token, u) = {}
      => Cardinality(After(screen[u].token)) >= MaxPending

(* What waits is on the screen of the one who uploaded it, tokens are given
   once, and those evicted made room for as many as fit. *)
UploadInv ==
  /\ \A p \in pending : screen[p.user].token = p.token /\ ~screen[p.user].gone
  /\ \A p, q \in pending : p.user = q.user => p = q
  /\ \A u \in Users : screen[u].token <= used.tokens
  /\ \A u, v \in Uploaders : screen[u].token = screen[v].token => u = v
  /\ \A u \in Users \ Uploaders : screen[u] = NoScreen
  /\ IsFiniteSet(Uploaders)
  /\ Evicted

LEMMA UploadInit == Init => UploadInv
<1> SUFFICES ASSUME Init PROVE UploadInv
  OBVIOUS
<1>1. \A u \in Users : screen[u] = NoScreen /\ screen[u].token = 0
  BY DEF Init, NoScreen
<1>2. Uploaders = {} /\ pending = {} /\ used.tokens = 0
  BY <1>1 DEF Uploaders, Init
<1> QED BY <1>1, <1>2, FS_EmptySet DEF UploadInv, Evicted

(* Nobody's token changes. *)
LEMMA SameTokens ==
  ASSUME TypeOK, TypeOK', UploadInv, pending' \in SUBSET pending, used'.tokens = used.tokens,
         \A u \in Users : /\ screen'[u].token = screen[u].token
                          /\ screen[u].token = 0 => screen'[u] = screen[u]
                          /\ screen'[u].gone => screen[u].gone \/ Get(screen[u].token, u)' = {}
                          /\ ~screen'[u].gone
                               => ~screen[u].gone /\ Get(screen[u].token, u)' = Get(screen[u].token, u)
  PROVE  UploadInv'
<1>1. Uploaders' = Uploaders
  BY DEF Uploaders
<1>2. \A t : After(t)' = After(t)
  BY DEF After
<1>3. ASSUME NEW p \in pending'
      PROVE  screen'[p.user].token = p.token /\ ~screen'[p.user].gone
  <2>1. p \in pending /\ p.user \in Users
    BY DEF TypeOK, Uploads
  <2>2. screen[p.user].token = p.token /\ ~screen[p.user].gone
    BY <2>1 DEF UploadInv
  <2>3. p \in Get(screen[p.user].token, p.user)'
    BY <1>3, <2>1, <2>2 DEF Get
  <2> QED BY <2>1, <2>2, <2>3
<1>4. Evicted'
  <2> SUFFICES ASSUME NEW u \in Users, screen'[u].token # 0, ~screen'[u].gone,
                      Get(screen[u].token, u)' = {}
               PROVE  Cardinality(After(screen[u].token)') >= MaxPending
    BY DEF Evicted
  <2>1. screen[u].token # 0 /\ ~screen[u].gone /\ Get(screen[u].token, u) = {}
    OBVIOUS
  <2> QED BY <1>2, <2>1 DEF UploadInv, Evicted
<1>5. /\ \A p, q \in pending' : p.user = q.user => p = q
      /\ \A u \in Users : screen'[u].token <= used'.tokens
      /\ \A u, v \in Uploaders : screen'[u].token = screen'[v].token => u = v
      /\ IsFiniteSet(Uploaders)
  BY DEF UploadInv, Uploaders
<1>6. \A u \in Users \ Uploaders : screen'[u] = NoScreen
  <2> TAKE u \in Users \ Uploaders
  <2>1. screen[u].token = 0 /\ screen[u] = NoScreen
    BY DEF Uploaders, UploadInv
  <2> QED BY <2>1
<1> QED BY <1>1, <1>3, <1>4, <1>5, <1>6 DEF UploadInv

(* Uploads that are no more leave their screens, and no other upload goes. *)
LEMMA GoneStep ==
  ASSUME TypeOK, TypeOK', UploadInv, NEW tokens, 0 \notin tokens, Gone(tokens),
         pending' = {p \in pending : p.token \notin tokens}, used'.tokens = used.tokens
  PROVE  UploadInv'
<1>1. \A u \in Users : /\ screen'[u].token = screen[u].token
                       /\ screen'[u].gone = (screen[u].gone \/ screen[u].token \in tokens)
  BY GoneScreens
<1>2. ASSUME NEW u \in Users, screen[u].token = 0
      PROVE  screen'[u] = screen[u]
  BY <1>2 DEF Gone
<1>3. ASSUME NEW u \in Users
      PROVE  /\ screen'[u].gone => screen[u].gone \/ Get(screen[u].token, u)' = {}
             /\ ~screen'[u].gone
                  => ~screen[u].gone /\ Get(screen[u].token, u)' = Get(screen[u].token, u)
  BY <1>1 DEF Get
<1>4. pending' \in SUBSET pending
  OBVIOUS
<1> QED BY <1>1, <1>2, <1>3, <1>4, SameTokens

(* An upload makes room by dropping none but those with as many newer ones. *)
LEMMA PutStep ==
  ASSUME TypeOK, TypeOK', UploadInv, NEW u \in Users, NEW file \in Files, UploadUnknown(u, file)
  PROVE  UploadInv'
<1> DEFINE others == {p \in pending : p.user # u}
           newer(p) == {q \in others : q.token > p.token}
           stay == {p \in others : Cardinality(newer(p)) < MaxPending - 1}
<1>1. PICK token \in Nat \ {0} : token = used.tokens + 1 /\ used'.tokens = token
  BY PutState
<1>2. PICK s \in Screens : screen' = [screen EXCEPT ![u] = s] /\ s.token = token /\ ~s.gone
  BY <1>1, PutState
<1>3. PICK new : new = [token |-> token, user |-> u, file |-> file]
  OBVIOUS
<1>4. pending' = stay \cup {new} /\ stay \subseteq others
  BY <1>1, <1>3 DEF UploadUnknown, Put
<1> HIDE DEF stay
<1>5. /\ screen \in [Users -> Screens]
      /\ \A v \in Users : screen[v].token \in Nat /\ screen[v].token < token
  <2>1. screen \in [Users -> Screens] /\ used.tokens \in Nat
    BY DEF TypeOK, Counters
  <2>2. \A v \in Users : screen[v].token \in Nat /\ screen[v].token <= used.tokens
    BY <2>1 DEF UploadInv, Screens
  <2> QED BY <1>1, <2>1, <2>2
<1>6. /\ screen'[u] = s
      /\ \A v \in Users \ {u} : screen'[v] = screen[v]
  BY <1>2, <1>5
<1>7. Uploaders' = Uploaders \cup {u} /\ IsFiniteSet(Uploaders')
  <2>1. Uploaders' = Uploaders \cup {u}
    BY <1>2, <1>6 DEF Uploaders
  <2> QED BY <2>1, FS_AddElement DEF UploadInv
<1>8. ASSUME NEW p \in pending' 
      PROVE  /\ screen'[p.user].token = p.token /\ ~screen'[p.user].gone
             /\ \A q \in pending' : p.user = q.user => p = q
  <2>1. \A q \in pending' : q = new \/ (q \in pending /\ q.user \in Users \ {u})
    <3>1. \A q \in others : q \in pending /\ q.user \in Users \ {u}
      BY DEF TypeOK, Uploads
    <3>2. pending' \subseteq others \cup {new}
      BY <1>4
    <3> QED BY <3>1, <3>2
  <2>2. new.user = u /\ new.token = token
    BY <1>3
  <2>3. CASE p = new
    BY <1>2, <1>6, <2>1, <2>2, <2>3
  <2>4. CASE p \in pending /\ p.user \in Users \ {u}
    BY <1>6, <2>1, <2>2, <2>4 DEF UploadInv
  <2> QED BY <2>1, <2>3, <2>4
<1>9. \A v \in Users : screen'[v].token <= used'.tokens
  BY <1>1, <1>2, <1>5, <1>6
<1>10. \A v, w \in Uploaders' : screen'[v].token = screen'[w].token => v = w
  BY <1>2, <1>5, <1>6, <1>7 DEF UploadInv, Uploaders
<1>11. \A v \in Users \ Uploaders' : screen'[v] = NoScreen
  BY <1>6, <1>7 DEF UploadInv
<1>12. ASSUME NEW v \in Users, NEW t, t = screen'[v].token, t # 0, ~screen'[v].gone,
              Get(t, v)' = {}
       PROVE  Cardinality(After(t)') >= MaxPending
  <2>1. v # u
    <3> SUFFICES ASSUME v = u PROVE FALSE
      OBVIOUS
    <3>1. new \in Get(t, v)'
      BY <1>2, <1>3, <1>4, <1>6, <1>12 DEF Get
    <3> QED BY <1>12, <3>1
  <2>2. t \in Nat /\ t = screen[v].token /\ t < token
    BY <1>5, <1>6, <1>12, <2>1
  <2>3. /\ After(t)' = After(t) \cup {u}
        /\ IsFiniteSet(After(t)')
    <3>1. After(t)' = After(t) \cup {u}
      BY <1>2, <1>5, <1>6, <2>2 DEF After
    <3>2. After(t)' \in SUBSET Uploaders'
      BY <1>6, <1>7, <1>5, <2>2, <3>1 DEF After, Uploaders
    <3> QED BY <1>7, <3>1, <3>2, FS_Subset
  <2>4. Cardinality(After(t)') \in Nat
    BY <2>3, FS_CardinalityType
  <2>5. CASE Get(t, v) = {}
    <3>1. Cardinality(After(t)) >= MaxPending
      BY <1>6, <1>12, <2>1, <2>2, <2>5 DEF UploadInv, Evicted
    <3>2. After(t) \in SUBSET After(t)'
      BY <2>3
    <3>3. IsFiniteSet(After(t)) /\ Cardinality(After(t)) <= Cardinality(After(t)')
      BY <2>3, <3>2, FS_Subset
    <3>4. Cardinality(After(t)) \in Nat
      BY <3>3, FS_CardinalityType
    <3> QED BY <2>2, <2>4, <3>1, <3>3, <3>4, BoundsAssumption
  <2>6. CASE Get(t, v) # {}
    <3>1. PICK p \in pending : p.token = t /\ p.user = v
      BY <2>6 DEF Get
    <3>2. p \in others /\ p \notin pending'
      <4>1. p \notin pending'
        BY <1>12, <3>1 DEF Get
      <4> QED BY <2>1, <3>1, <4>1
    <3> DEFINE N == newer(p)
               f == [q \in N |-> q.user]
               I == {f[q] : q \in N}
    <3>3. ~(Cardinality(N) < MaxPending - 1)
      BY <1>4, <3>2 DEF stay
    <3>4. IsFiniteSet(N) /\ Cardinality(N) \in Nat
      <4>1. N \in SUBSET pending /\ IsFiniteSet(pending)
        BY DEF TypeOK
      <4> HIDE DEF N
      <4> QED BY <4>1, FS_Subset, FS_CardinalityType
    <3>5. \A q \in N : /\ f[q] = q.user /\ q \in pending /\ q.user \in Users \ {u}
                       /\ screen[q.user].token > t
      <4> TAKE q \in N
      <4>1. q \in pending /\ q.user # u /\ q.token > t /\ f[q] = q.user
        BY <3>1
      <4> HIDE DEF N, f
      <4> QED BY <4>1 DEF UploadInv, TypeOK, Uploads
    <3>6. \A q, w \in N : f[q] = f[w] => q = w
      <4> HIDE DEF N, f
      <4> QED BY <3>5 DEF UploadInv
    <3>7. IsFiniteSet(I) /\ Cardinality(I) = Cardinality(N)
      <4> HIDE DEF N, f
      <4> QED BY <3>4, <3>6, ImageOf
    <3>8. u \notin I /\ I \cup {u} \in SUBSET After(t)'
      <4> HIDE DEF N, f
      <4> QED BY <2>3, <3>5 DEF After
    <3> HIDE DEF N, I
    <3>9. Cardinality(I \cup {u}) = Cardinality(I) + 1
      BY <3>7, <3>8, FS_AddElement
    <3>10. Cardinality(I \cup {u}) <= Cardinality(After(t)')
      BY <2>3, <3>8, FS_Subset
    <3> QED BY <2>2, <2>4, <3>3, <3>4, <3>7, <3>9, <3>10, BoundsAssumption
  <2> QED BY <2>5, <2>6
<1>13. Evicted'
  <2> SUFFICES ASSUME NEW v \in Users, screen'[v].token # 0, ~screen'[v].gone,
                      Get(screen[v].token, v)' = {}
               PROVE  Cardinality(After(screen[v].token)') >= MaxPending
    BY DEF Evicted
  <2>1. PICK t : t = screen'[v].token
    OBVIOUS
  <2>2. Get(t, v)' = {}
    BY <2>1
  <2>3. Cardinality(After(t)') >= MaxPending
    BY <1>12, <2>1, <2>2
  <2> QED BY <2>1, <2>3
<1> QED BY <1>7, <1>8, <1>9, <1>10, <1>11, <1>13 DEF UploadInv

LEMMA UploadSame ==
  ASSUME UploadInv, UNCHANGED <<pending, screen>>, used'.tokens = used.tokens
  PROVE  UploadInv'
<1>1. Uploaders' = Uploaders /\ (\A t : After(t)' = After(t)) /\ (Evicted' = Evicted)
  BY DEF Uploaders, After, Evicted, Get
<1> QED BY <1>1 DEF UploadInv

LEMMA UploadStep == TypeOK /\ TypeOK' /\ UploadInv /\ [Next]_vars => UploadInv'
<1> SUFFICES ASSUME TypeOK, TypeOK', UploadInv, [Next]_vars PROVE UploadInv'
  OBVIOUS
<1> USE DEF TypeOK
<1>1. ASSUME NEW r \in Requests, Create(r) PROVE UploadInv'
  <2>1. req[r].token # 0
    BY <1>1, CreateState DEF Creating
  <2>2. PICK token : token = req[r].token
    OBVIOUS
  <2>3. /\ Gone({token}) /\ pending' = {p \in pending : p.token \notin {token}}
        /\ used'.tokens = used.tokens
    BY <1>1, <2>2 DEF Create, Drop
  <2> QED BY <2>1, <2>2, <2>3, GoneStep
<1>2. ASSUME NEW r \in Requests, Serve(r), ~Create(r) PROVE UploadInv'
  <2>1. UNCHANGED <<pending, screen>>
    BY <1>2 DEF Serve, ListIgnoreRules, Begin, InsertLine, Commit, Deadlocked, Fail
  <2>2. UNCHANGED used \/ \E bound : Use("faults", bound)
    BY <1>2 DEF Serve, ListIgnoreRules, Begin, InsertLine, Commit, Deadlocked, Fail
  <2>3. used'.tokens = used.tokens
    BY <2>2, UseCounts
  <2> QED BY <2>1, <2>3, UploadSame
<1>3. ASSUME NEW r \in Requests, NEW file \in Files, UploadKnown(r, file) PROVE UploadInv'
  BY <1>3, UseCounts, UploadSame DEF UploadKnown
<1>4. ASSUME NEW u \in Users, NEW file \in Files, UploadUnknown(u, file) PROVE UploadInv'
  BY <1>4, PutStep
<1>5. ASSUME NEW u \in Users, PreviewMapping(u) PROVE UploadInv'
  <2>1. Get(screen[u].token, u) # {} /\ UNCHANGED <<pending, used>>
    BY <1>5 DEF PreviewMapping
  <2>2. screen[u].token # 0
    BY <2>1 DEF Get, Uploads
  <2>3. \A v \in Users : screen'[v].token = screen[v].token /\ screen'[v].gone = screen[v].gone
    BY <1>5, PreviewState
  <2>4. \A v \in Users \ {u} : screen'[v] = screen[v]
    BY <1>5 DEF PreviewMapping
  <2>5. \A v \in Users : Get(screen[v].token, v)' = Get(screen[v].token, v)
    BY <2>1, <2>3 DEF Get
  <2>6. pending' \in SUBSET pending /\ used'.tokens = used.tokens
    BY <2>1
  <2>7. \A v \in Users : screen[v].token = 0 => screen'[v] = screen[v]
    BY <2>2, <2>4
  <2> QED BY <2>3, <2>5, <2>6, <2>7, SameTokens
<1>6. ASSUME NEW r \in Requests, NEW u \in Users, SaveMapping(r, u) PROVE UploadInv'
  BY <1>6, UseCounts, UploadSame DEF SaveMapping
<1>7. CASE Restart
  <2>1. PICK tokens : tokens = {p.token : p \in pending}
    OBVIOUS
  <2>2. 0 \notin tokens
    BY <2>1 DEF Uploads
  <2>3. Gone(tokens) /\ pending' = {p \in pending : p.token \notin tokens}
    BY <1>7, <2>1 DEF Restart
  <2>4. used'.tokens = used.tokens
    BY <1>7, UseCounts DEF Restart
  <2> QED BY <2>2, <2>3, <2>4, GoneStep
<1>8. CASE Expire
  <2>1. PICK p \in pending : pending' = pending \ {p} /\ Gone({p.token})
    BY <1>8 DEF Expire
  <2>2. PICK token : token = p.token
    OBVIOUS
  <2>3. \A q \in pending : q.token = p.token => q = p
    <3> SUFFICES ASSUME NEW q \in pending, q.token = p.token PROVE q = p
      OBVIOUS
    <3>1. /\ q.user \in Users /\ p.user \in Users
          /\ screen[q.user].token = screen[p.user].token /\ screen[p.user].token # 0
      BY DEF UploadInv, Uploads
    <3>2. q.user = p.user
      BY <3>1 DEF UploadInv, Uploaders
    <3> QED BY <3>2 DEF UploadInv
  <2>4. 0 \notin {token} /\ Gone({token}) /\ pending' = {q \in pending : q.token \notin {token}}
    BY <2>1, <2>2, <2>3 DEF Uploads
  <2>5. used'.tokens = used.tokens
    BY <1>8, UseCounts DEF Expire
  <2> QED BY <2>4, <2>5, GoneStep
<1>9. ASSUME NEW sig \in Signatures, NEW text \in Texts, AddIgnoreRule(sig, text) PROVE UploadInv'
  BY <1>9, UseCounts, UploadSame DEF AddIgnoreRule
<1>10. CASE DeleteIgnoreRule
  BY <1>10, UseCounts, UploadSame DEF DeleteIgnoreRule
<1>11. CASE LineStep
  <2>1. used'.tokens = used.tokens /\ UNCHANGED <<pending, screen>>
    BY <1>11, LineState
  <2> QED BY <2>1, UploadSame
<1>12. CASE UNCHANGED vars
  BY <1>12, UploadSame DEF vars
<1> QED BY <1>1, <1>2, <1>3, <1>4, <1>5, <1>6, <1>7, <1>8, <1>9, <1>10, <1>11, <1>12
     DEF Next, LineStep

LEMMA TypeCorrect == Spec => []TypeOK
BY TypeInit, TypeStep, PTL DEF Spec

(* Somebody who is mapping an upload loses it to other people's only when as
   many others as there is room for have uploaded since: for any number of
   people, files and places, and whenever uploads are saved, expire or are
   lost when the process starts again (web/pendingupload.go 43-103). *)
THEOREM LosesToAsManyAsFit == Spec => []EvictedByMany
<1>1. TypeOK /\ UploadInv => EvictedByMany
  <2> SUFFICES ASSUME TypeOK, UploadInv, NEW u \in Users, screen[u] # NoScreen, ~screen[u].gone,
                      Get(screen[u].token, u) = {}
               PROVE  Cardinality(After(screen[u].token)) >= MaxPending
    BY DEF EvictedByMany, After
  <2>1. screen[u].token # 0
    BY DEF UploadInv, Uploaders
  <2> QED BY <2>1 DEF UploadInv, Evicted
<1>2. UploadInv /\ TypeOK /\ TypeOK' /\ [Next]_vars => UploadInv'
  BY UploadStep
<1> QED BY <1>1, <1>2, UploadInit, TypeCorrect, PTL DEF Spec

-----------------------------------------------------------------------------
StoredPrints == {l.fp : l \in lines}

(* The fingerprints an import has stored. *)
StoredBy(i) == {l.fp : l \in {k \in lines : k.import = i}}

(* The stored fingerprints of what a line says. *)
StoredOf(k) == {fp \in StoredPrints : fp[1] = k[1] /\ fp[2] = k[2]}

PrintsOf(q) == Prints[q.file][q.mapping]

(* A request reads its file by the format of the file's layout. *)
Formatted(q) ==
  \E f \in formats : f.sig = q.sig /\ f.sig = Signature(q.file) /\ f.mapping = q.mapping

(* What a request has stored is what is new of what it has read. *)
FilledTo(q) ==
  /\ q.done <= Len(PrintsOf(q))
  /\ q.new = {PrintsOf(q)[i] : i \in 1..q.done} \ StoredPrints

OneFormat == \A f, g \in formats : f.sig = g.sig => f = g

Reads(q) == q.pc \in {"rules", "begin", "insert"}

RequestInv ==
  /\ \A r \in Requests : Reads(req[r]) => Formatted(req[r])
  /\ \A r \in Requests : Inserting(r) => FilledTo(req[r])
  /\ \A r, s \in Requests : Inserting(r) /\ Inserting(s) /\ r # s => req[r].sig # req[s].sig

(* No fingerprint is stored twice. *)
OneLine == \A k, l \in lines : k.fp = l.fp => k = l

(* An import accounts for the rows of its file, as a format reads it, and for
   the fingerprints it stored. *)
AccountsFor(imp, f, own) ==
  LET P   == Prints[imp.file][f.mapping]
      res == Reading[imp.file][f.mapping]
  IN  /\ f.sig = Signature(imp.file)
      /\ imp.kept + imp.ignored + imp.duplicates = Len(P)
      /\ imp.outgoing = res.outgoing /\ imp.refused = res.refused
      /\ IsFiniteSet(own) /\ imp.kept + imp.ignored = Cardinality(own)
      /\ \A fp \in own : \E j \in 1..Len(P) : fp = P[j]

Accounted(i) == \E f \in formats : AccountsFor(imports[i], f, StoredBy(i))

(* The stored lines that say the same are numbered one, two and so on. *)
Numbered == \A k \in AllKeys : \E n \in Nat : StoredOf(k) = {<<k[1], k[2], j>> : j \in 1..n}

ImportInv ==
  /\ OneFormat
  /\ RequestInv
  /\ OneLine
  /\ \A l \in lines : l.import \in DOMAIN imports
  /\ \A i \in DOMAIN imports : Accounted(i)
  /\ Numbered
  /\ RuleCatches

LEMMA ImportInit == Init => ImportInv
<1> SUFFICES ASSUME Init PROVE ImportInv
  OBVIOUS
<1>1. lines = {} /\ formats = {} /\ imports = <<>> /\ \A r \in Requests : req[r].pc = "idle"
  BY DEF Init, Idle
<1>2. DOMAIN imports = {}
  BY <1>1
<1>3. Numbered
  <2> SUFFICES ASSUME NEW k \in AllKeys
               PROVE  StoredOf(k) = {<<k[1], k[2], j>> : j \in 1..0}
    BY DEF Numbered
  <2>1. StoredOf(k) = {}
    BY <1>1 DEF StoredOf, StoredPrints
  <2>2. 1..0 = {}
    OBVIOUS
  <2> QED BY <2>1, <2>2
<1> QED BY <1>1, <1>2, <1>3 DEF ImportInv, OneFormat, RequestInv, Reads, Inserting, OneLine, RuleCatches

(* What is stored stays, and of it what the invariant says. *)
LEMMA StoreSame ==
  ASSUME ImportInv, imports' = imports, formats \subseteq formats',
         \A k \in lines' : \E l \in lines : SameLine(k, l),
         \A l \in lines : \E k \in lines' : SameLine(k, l),
         OneFormat', RequestInv', OneLine', RuleCatches'
  PROVE  ImportInv'
<1>1. StoredPrints' = StoredPrints /\ \A k : StoredOf(k)' = StoredOf(k)
  BY DEF StoredPrints, StoredOf, SameLine
<1>2. \A i : StoredBy(i)' = StoredBy(i)
  BY DEF StoredBy, SameLine
<1>3. \A l \in lines' : l.import \in DOMAIN imports'
  BY DEF ImportInv, SameLine
<1>4. \A i \in DOMAIN imports' : Accounted(i)'
  <2> TAKE i \in DOMAIN imports'
  <2>1. PICK f \in formats : AccountsFor(imports[i], f, StoredBy(i))
    BY DEF ImportInv, Accounted
  <2>2. f \in formats' /\ imports'[i] = imports[i] /\ StoredBy(i)' = StoredBy(i)
    BY <1>2
  <2> QED BY <2>1, <2>2 DEF Accounted
<1>5. Numbered'
  BY <1>1 DEF ImportInv, Numbered
<1> QED BY <1>3, <1>4, <1>5 DEF ImportInv

(* Steps of requests that store no line. *)
LEMMA RequestStep ==
  ASSUME ImportInv, UNCHANGED <<lines, imports>>, rules' \subseteq rules,
         formats \subseteq formats', OneFormat', RequestInv'
  PROVE  ImportInv'
<1>1. OneLine' /\ RuleCatches'
  BY DEF ImportInv, OneLine, RuleCatches
<1> QED BY <1>1, StoreSame DEF SameLine

(* One request goes on. *)
LEMMA OneRequest ==
  ASSUME TypeOK, ImportInv, UNCHANGED <<rules, lines, imports>>,
         formats \subseteq formats', OneFormat', NEW r \in Requests, NEW q,
         req' = [req EXCEPT ![r] = q], Reads(q) => Formatted(q)',
         q.pc = "insert" => /\ FilledTo(q)
                            /\ \A s \in Requests \ {r} : Inserting(s) => req[s].sig # q.sig
  PROVE  ImportInv'
<1>1. req'[r] = q /\ \A s \in Requests \ {r} : req'[s] = req[s]
  BY DEF TypeOK
<1>2. \A s \in Requests : (Reads(req[s]) => Formatted(req[s]))'
  <2> TAKE s \in Requests
  <2>1. PICK p : p = req'[s]
    OBVIOUS
  <2>2. Reads(p) => Formatted(p)'
    <3>1. CASE s = r
      BY <1>1, <2>1, <3>1
    <3>2. CASE s # r
      <4>1. Reads(p) => Formatted(p)
        BY <1>1, <2>1, <3>2 DEF ImportInv, RequestInv
      <4> QED BY <4>1 DEF Formatted
    <3> QED BY <3>1, <3>2
  <2> QED BY <2>1, <2>2 DEF Reads
<1>3. \A s \in Requests : (Inserting(s) => FilledTo(req[s]))'
  <2> TAKE s \in Requests
  <2>1. PICK p : p = req'[s]
    OBVIOUS
  <2>2. p.pc = "insert" => FilledTo(p)'
    <3>1. p.pc = "insert" => FilledTo(p)
      <4>1. CASE s = r
        BY <1>1, <2>1, <4>1
      <4>2. CASE s # r
        BY <1>1, <2>1, <4>2 DEF ImportInv, RequestInv, Inserting
      <4> QED BY <4>1, <4>2
    <3> QED BY <3>1 DEF FilledTo, StoredPrints
  <2> QED BY <2>1, <2>2 DEF Inserting
<1>4. \A s, t \in Requests :
        Inserting(s)' /\ Inserting(t)' /\ s # t => req'[s].sig # req'[t].sig
  BY <1>1 DEF ImportInv, RequestInv, Inserting
<1>5. RequestInv'
  BY <1>2, <1>3, <1>4 DEF RequestInv
<1> QED BY <1>5, RequestStep

(* The steps of a request that store nothing. *)
LEMMA ServeStep ==
  ASSUME TypeOK, ImportInv, NEW r \in Requests, Serve(r), ~Commit(r)
  PROVE  ImportInv'
<1>0. OneFormat /\ (Reads(req[r]) => Formatted(req[r])) /\ (Inserting(r) => FilledTo(req[r]))
  BY DEF ImportInv, RequestInv
<1>1. CASE Create(r)
  <2>1. PICK f \in Formats :
          /\ f.sig = Signature(req[r].file) /\ f \in formats'
          /\ formats' = formats \/ (Known(f.sig) = {} /\ formats' = formats \cup {f})
          /\ req' = [req EXCEPT ![r] = ImportWith(req[r].file, f)]
    BY <1>1, CreateState
  <2>2. PICK q : q = ImportWith(req[r].file, f)
    OBVIOUS
  <2>3. q.pc = "rules" /\ q.file = req[r].file /\ q.sig = f.sig /\ q.mapping = f.mapping
    BY <2>2 DEF ImportWith
  <2>4. Formatted(q)'
    BY <2>1, <2>3 DEF Formatted
  <2>5. OneFormat' /\ formats \subseteq formats'
    BY <1>0, <2>1 DEF OneFormat, Known
  <2>6. UNCHANGED <<rules, lines, imports>> /\ req' = [req EXCEPT ![r] = q]
    BY <1>1, <2>1, <2>2 DEF Create
  <2> QED BY <2>3, <2>4, <2>5, <2>6, OneRequest
<1>2. CASE ListIgnoreRules(r)
  <2>1. PICK q \in Storing :
          /\ req' = [req EXCEPT ![r] = q]
          /\ q.file = req[r].file /\ q.sig = req[r].sig /\ q.mapping = req[r].mapping
          /\ q.pc = "begin"
    BY <1>2, RulesState
  <2>2. UNCHANGED <<formats, rules, lines, imports>> /\ Reads(req[r])
    BY <1>2 DEF ListIgnoreRules, Reads
  <2>3. Formatted(q)' /\ OneFormat'
    BY <1>0, <2>1, <2>2 DEF Formatted, OneFormat
  <2> QED BY <2>1, <2>2, <2>3, OneRequest
<1>3. CASE Begin(r)
  <2>1. PICK q \in Storing : /\ req' = [req EXCEPT ![r] = q] /\ Carries(q, req[r])
                             /\ q.pc = "insert" /\ q.done = 0 /\ q.new = {}
    BY <1>3, BeginState
  <2>2. UNCHANGED <<formats, rules, lines, imports>> /\ Reads(req[r]) /\ ~Locked(req[r].sig)
    BY <1>3 DEF Begin, Reads
  <2>3. Formatted(q)' /\ OneFormat'
    BY <1>0, <2>1, <2>2 DEF Formatted, OneFormat, Carries
  <2>4. FilledTo(q)
    <3>1. Len(PrintsOf(q)) \in Nat
      BY PrintsShape DEF PrintsOf, Storing
    <3>2. {PrintsOf(q)[i] : i \in 1..0} = {}
      OBVIOUS
    <3> QED BY <2>1, <3>1, <3>2 DEF FilledTo
  <2>5. \A s \in Requests \ {r} : Inserting(s) => req[s].sig # q.sig
    BY <2>1, <2>2 DEF Locked, Carries
  <2> QED BY <2>1, <2>2, <2>3, <2>4, <2>5, OneRequest
<1>4. CASE InsertLine(r)
  <2>1. PICK q \in Storing : /\ req' = [req EXCEPT ![r] = q] /\ Carries(q, req[r])
                             /\ q.pc = "insert" /\ q.done = req[r].done + 1
                             /\ q.new = req[r].new \cup ({NextLine(r)} \ StoredPrints)
    BY <1>4, InsertState DEF StoredPrints
  <2>2. UNCHANGED <<formats, rules, lines, imports>> /\ Reads(req[r]) /\ Inserting(r)
    BY <1>4 DEF InsertLine, HasNext, Inserting, Reads
  <2>3. Formatted(q)' /\ OneFormat'
    BY <1>0, <2>1, <2>2 DEF Formatted, OneFormat, Carries
  <2>4. FilledTo(q)
    <3>1. PICK P : P = PrintsOf(q) /\ P = Incoming(r) /\ P = PrintsOf(req[r])
      BY <2>1 DEF PrintsOf, Incoming, Carries
    <3>2. req[r].done + 1 \in 1..Len(P) /\ req[r].done \in Nat
      BY <1>4, <3>1, InsertState DEF Storing
    <3>3. PICK n \in Nat : n = req[r].done
      BY <3>2
    <3>4. 1..n+1 = (1..n) \cup {n+1}
      OBVIOUS
    <3>5. {P[i] : i \in 1..n+1} = {P[i] : i \in 1..n} \cup {P[n+1]}
      BY <3>4
    <3>6. req[r].new = {P[i] : i \in 1..n} \ StoredPrints /\ NextLine(r) = P[n+1]
      BY <1>0, <2>2, <3>1, <3>3 DEF FilledTo, NextLine
    <3>7. q.new = {P[i] : i \in 1..n+1} \ StoredPrints
      BY <2>1, <3>5, <3>6
    <3>8. n + 1 <= Len(P) /\ q.done = n + 1
      <4>1. Len(P) \in Nat
        BY <3>1, PrintsShape DEF PrintsOf, Storing
      <4> QED BY <2>1, <3>2, <3>3, <4>1
    <3> QED BY <3>1, <3>7, <3>8 DEF FilledTo
  <2>5. \A s \in Requests \ {r} : Inserting(s) => req[s].sig # q.sig
    BY <2>1, <2>2 DEF ImportInv, RequestInv, Carries
  <2> QED BY <2>1, <2>2, <2>3, <2>4, <2>5, OneRequest
<1>5. CASE Deadlocked(r) \/ Fail(r)
  <2>1. UNCHANGED <<formats, rules, lines, imports>>
    BY <1>5 DEF Deadlocked, Fail
  <2>2. OneFormat'
    BY <1>0, <2>1 DEF OneFormat
  <2>3. CASE req' = [req EXCEPT ![r] = Idle]
    <3>1. ~Reads(Idle) /\ Idle.pc # "insert"
      BY DEF Reads, Idle
    <3> QED BY <2>1, <2>2, <2>3, <3>1, OneRequest
  <2>4. ASSUME NEW q \in Storing, req' = [req EXCEPT ![r] = q], Carries(q, req[r]), q.pc = "begin",
               Inserting(r)
        PROVE  ImportInv'
    <3>1. Formatted(q)'
      BY <1>0, <2>1, <2>4 DEF Formatted, Carries, Reads, Inserting
    <3> QED BY <2>1, <2>2, <2>4, <3>1, OneRequest
  <2> QED BY <1>5, <2>3, <2>4, DeadlockedState DEF Fail, Deadlocked
<1> QED BY <1>1, <1>2, <1>3, <1>4, <1>5 DEF Serve

(* How many times a file shows a line. *)
Shown(file, m, k) == Cardinality({i \in DOMAIN Keys(file, m) : Keys(file, m)[i] = k})

Most(a, b) == IF a > b THEN a ELSE b

(* The fingerprints a file has of a line, the line being one of its layout. *)
LEMMA PrintsOfKey ==
  ASSUME NEW file \in Files, NEW m \in AllMappings, NEW k \in AllKeys
  PROVE  LET P == Prints[file][m] IN
         /\ Shown(file, m, k) \in Nat
         /\ {fp \in {P[i] : i \in 1..Len(P)} : fp[1] = k[1] /\ fp[2] = k[2]}
              = {<<k[1], k[2], j>> : j \in 1..Shown(file, m, k)}
<1> DEFINE P   == Prints[file][m]
           inc == Reading[file][m].incoming
           at  == UpTo(inc, k[2], Len(P))
           fps == {fp \in {P[i] : i \in 1..Len(P)} : fp[1] = k[1] /\ fp[2] = k[2]}
           places == {i \in DOMAIN Keys(file, m) : Keys(file, m)[i] = k}
<1>1. /\ Len(P) \in Nat /\ Len(P) = Len(inc) /\ DOMAIN inc = 1..Len(P)
      /\ \A i \in 1..Len(P) : P[i][1] = Signature(file) /\ P[i][2] = inc[i]
  BY PrintsShape, IncomingShape
<1>2. PICK x, y : k = <<x, y>>
  <2>1. PICK fl \in Files, mp \in AllMappings : k \in Range(Keys(fl, mp))
    BY DEF AllKeys
  <2>2. PICK i : k = <<Signature(fl), Reading[fl][mp].incoming[i]>>
    BY <2>1 DEF Range, Keys
  <2> QED BY <2>2
<1>3. /\ DOMAIN Keys(file, m) = 1..Len(P)
      /\ \A i \in 1..Len(P) : Keys(file, m)[i] = <<Signature(file), inc[i]>>
  BY <1>1 DEF Keys
<1>4. CASE x = Signature(file)
  <2>1. places = at
    BY <1>2, <1>3, <1>4 DEF UpTo
  <2>2. fps = {P[i] : i \in at}
    <3> HIDE DEF P, inc
    <3> QED BY <1>1, <1>2, <1>4 DEF UpTo
  <2>3. /\ Cardinality(at) \in Nat
        /\ {P[i] : i \in at} = {<<Signature(file), k[2], j>> : j \in 1..Cardinality(at)}
    BY PrintsOfLine
  <2>4. Shown(file, m, k) = Cardinality(at)
    BY <2>1 DEF Shown
  <2>5. k[1] = Signature(file)
    BY <1>2, <1>4
  <2> HIDE DEF at, fps, P, inc
  <2>6. fps = {<<k[1], k[2], j>> : j \in 1..Shown(file, m, k)}
    BY <2>2, <2>3, <2>4, <2>5
  <2> QED BY <2>3, <2>4, <2>6 DEF fps, P
<1>5. CASE x # Signature(file)
  <2>1. places = {} /\ fps = {}
    <3> HIDE DEF P, inc
    <3> QED BY <1>1, <1>2, <1>3, <1>5
  <2>2. Shown(file, m, k) = 0
    BY <2>1, FS_EmptySet DEF Shown
  <2>3. 1..0 = {}
    OBVIOUS
  <2> HIDE DEF fps, P, inc
  <2>4. fps = {<<k[1], k[2], j>> : j \in 1..Shown(file, m, k)}
    BY <2>1, <2>2, <2>3
  <2> QED BY <2>2, <2>4 DEF fps, P
<1> QED BY <1>4, <1>5

(* What a commit makes of the lines that are stored: all lines of its file
   are, and none twice. *)
LEMMA CommitStores ==
  ASSUME TypeOK, ImportInv, NEW r \in Requests, Commit(r)
  PROVE  LET P   == PrintsOf(req[r])
             all == {P[i] : i \in 1..Len(P)}
         IN
         /\ req[r].done = Len(P) /\ req[r].new = all \ StoredPrints
         /\ StoredPrints' = StoredPrints \cup all
         /\ \A i \in DOMAIN imports : imports'[i] = imports[i] /\ StoredBy(i)' = StoredBy(i)
         /\ \E n \in Nat : /\ n = Len(imports) + 1 /\ n \notin DOMAIN imports
                            /\ DOMAIN imports' = DOMAIN imports \cup {n}
                            /\ StoredBy(n)' = req[r].new
         /\ OneLine'
<1> DEFINE P   == PrintsOf(req[r])
           all == {P[i] : i \in 1..Len(P)}
           stored == {StoredLine(r, fp) : fp \in req[r].new}
<1>1. /\ req[r] \in Storing /\ req[r].pc = "insert" /\ Inserting(r)
      /\ lines' = lines \cup stored
      /\ \E imp \in Imports : imports' = Append(imports, imp)
  BY CommitState DEF Inserting
<1>2. Len(P) \in Nat /\ req[r].done \in Nat
  BY <1>1, PrintsShape DEF PrintsOf, Storing
<1>3. req[r].done = Len(P) /\ req[r].new = all \ StoredPrints
  <2>1. req[r].done <= Len(P) /\ req[r].new = {P[i] : i \in 1..req[r].done} \ StoredPrints
    BY <1>1 DEF ImportInv, RequestInv, FilledTo
  <2>2. ~(req[r].done < Len(P))
    BY <1>1 DEF Commit, HasNext, Incoming, PrintsOf
  <2>3. req[r].done = Len(P)
    BY <1>2, <2>1, <2>2
  <2> HIDE DEF P
  <2> QED BY <2>1, <2>3
<1>4. imports \in Seq(Imports) /\ Len(imports) \in Nat /\ DOMAIN imports = 1..Len(imports)
  <2>1. imports \in Seq(Imports)
    BY DEF TypeOK
  <2> QED BY <2>1, LenProperties
<1>0. PICK n \in Nat : n = Len(imports) + 1
  BY <1>4
<1>5. /\ n \notin DOMAIN imports /\ DOMAIN imports' = DOMAIN imports \cup {n}
      /\ \A i \in DOMAIN imports : imports'[i] = imports[i]
  <2>1. PICK imp \in Imports : imports' = Append(imports, imp)
    BY <1>1
  <2>2. /\ Append(imports, imp) \in Seq(Imports) /\ Len(imports') = n
        /\ \A i \in 1..Len(imports) : imports'[i] = imports[i]
    BY <1>0, <1>4, <2>1, AppendProperties
  <2>3. DOMAIN imports' = 1..n
    BY <2>1, <2>2, LenProperties
  <2> QED BY <1>0, <1>4, <2>2, <2>3
<1>6. \A l \in stored : \E fp \in req[r].new : l.fp = fp /\ l.import = n /\ l = StoredLine(r, fp)
  BY <1>0 DEF StoredLine
<1>7. \A fp \in req[r].new : \E l \in stored : l.fp = fp /\ l.import = n
  <2> TAKE fp \in req[r].new
  <2>1. StoredLine(r, fp) \in stored
    OBVIOUS
  <2>2. StoredLine(r, fp).fp = fp /\ StoredLine(r, fp).import = n
    BY <1>0 DEF StoredLine
  <2> QED BY <2>1, <2>2
<1>8. \A l \in lines : l.import \in DOMAIN imports
  BY DEF ImportInv
<1> HIDE DEF stored, all
<1>9. StoredPrints' = StoredPrints \cup all
  BY <1>1, <1>3, <1>6, <1>7 DEF StoredPrints
<1>10. ASSUME NEW i \in DOMAIN imports PROVE StoredBy(i)' = StoredBy(i)
  BY <1>1, <1>5, <1>6, <1>10 DEF StoredBy
<1>11. StoredBy(n)' = req[r].new
  <2>1. {k \in lines' : k.import = n} = {k \in stored : k.import = n}
    BY <1>1, <1>5, <1>8
  <2>2. {l.fp : l \in {k \in stored : k.import = n}} = req[r].new
    BY <1>6, <1>7
  <2> QED BY <2>1, <2>2 DEF StoredBy
<1>12. OneLine'
  <2> SUFFICES ASSUME NEW k \in lines', NEW l \in lines', k.fp = l.fp PROVE k = l
    BY DEF OneLine
  <2>1. CASE k \in lines /\ l \in lines
    BY <2>1 DEF ImportInv, OneLine
  <2>2. CASE k \in stored /\ l \in stored
    BY <1>6, <2>2
  <2>3. CASE (k \in stored /\ l \in lines) \/ (k \in lines /\ l \in stored)
    <3>1. k.fp \in StoredPrints /\ k.fp \in req[r].new
      BY <1>6, <2>3 DEF StoredPrints
    <3> QED BY <1>3, <3>1
  <2> QED BY <1>1, <2>1, <2>2, <2>3
<1> QED BY <1>0, <1>3, <1>5, <1>9, <1>10, <1>11, <1>12 DEF all

(* Of every line, as many are stored after a commit as before it or as the
   file shows, whichever is more. *)
LEMMA CommitNumbers ==
  ASSUME TypeOK, ImportInv, NEW r \in Requests, Commit(r), NEW k \in AllKeys, NEW n \in Nat,
         StoredOf(k) = {<<k[1], k[2], j>> : j \in 1..n}
  PROVE  LET c == Shown(req[r].file, req[r].mapping, k) IN
         /\ c \in Nat /\ Most(n, c) \in Nat
         /\ StoredOf(k)' = {<<k[1], k[2], j>> : j \in 1..Most(n, c)}
<1> DEFINE P   == PrintsOf(req[r])
           all == {P[i] : i \in 1..Len(P)}
<1>1. PICK c : c = Shown(req[r].file, req[r].mapping, k)
  OBVIOUS
<1>2. req[r].file \in Files /\ req[r].mapping \in AllMappings
  BY CommitState DEF Storing
<1>3. c \in Nat /\ {fp \in all : fp[1] = k[1] /\ fp[2] = k[2]} = {<<k[1], k[2], j>> : j \in 1..c}
  BY <1>1, <1>2, PrintsOfKey DEF PrintsOf
<1>4. StoredPrints' = StoredPrints \cup all
  BY CommitStores
<1> HIDE DEF all
<1>5. StoredOf(k)' = StoredOf(k) \cup {fp \in all : fp[1] = k[1] /\ fp[2] = k[2]}
  BY <1>4 DEF StoredOf
<1>6. StoredOf(k)' = {<<k[1], k[2], j>> : j \in (1..n) \cup (1..c)}
  BY <1>3, <1>5
<1>7. Most(n, c) \in Nat /\ (1..n) \cup (1..c) = 1..Most(n, c)
  BY <1>3 DEF Most
<1>8. StoredOf(k)' = {<<k[1], k[2], j>> : j \in 1..Most(n, c)}
  BY <1>6, <1>7
<1> QED BY <1>1, <1>3, <1>7, <1>8

LEMMA CommitStep ==
  ASSUME TypeOK, ImportInv, NEW r \in Requests, Commit(r)
  PROVE  ImportInv'
<1> DEFINE P   == PrintsOf(req[r])
           all == {P[i] : i \in 1..Len(P)}
<1>1. /\ req[r] \in Storing /\ req[r].pc = "insert" /\ Inserting(r) /\ Reads(req[r])
      /\ req' = [req EXCEPT ![r] = Idle]
      /\ UNCHANGED <<formats, rules>>
  <2>1. req[r] \in Storing /\ req[r].pc = "insert" /\ req' = [req EXCEPT ![r] = Idle]
    BY CommitState
  <2>2. UNCHANGED <<formats, rules>>
    BY DEF Commit
  <2> QED BY <2>1, <2>2 DEF Inserting, Reads
<1>2. /\ req[r].file \in Files /\ req[r].mapping \in AllMappings
      /\ Formatted(req[r])
  BY <1>1 DEF Storing, ImportInv, RequestInv
<1>3. /\ Len(P) \in Nat
      /\ \A fp \in all : fp[1] = req[r].sig
      /\ P = Prints[req[r].file][req[r].mapping]
  BY <1>2, PrintsShape DEF PrintsOf, Formatted
<1>4. /\ req[r].done = Len(P) /\ req[r].new = all \ StoredPrints
      /\ StoredPrints' = StoredPrints \cup all
      /\ \A i \in DOMAIN imports : imports'[i] = imports[i] /\ StoredBy(i)' = StoredBy(i)
      /\ OneLine'
  BY CommitStores
<1>5. PICK n \in Nat : /\ n = Len(imports) + 1 /\ n \notin DOMAIN imports
                       /\ DOMAIN imports' = DOMAIN imports \cup {n}
                       /\ StoredBy(n)' = req[r].new
  BY CommitStores
<1>6. PICK imp \in Imports :
        /\ imports' = Append(imports, imp)
        /\ imp.file = req[r].file
        /\ imp.kept + imp.ignored = Cardinality(req[r].new)
        /\ imp.duplicates = req[r].done - Cardinality(req[r].new)
        /\ imp.outgoing = Reading[req[r].file][req[r].mapping].outgoing
        /\ imp.refused = Reading[req[r].file][req[r].mapping].refused
        /\ imp.missed = RulesOf(req[r].sig) \ req[r].rules
  BY CommitState
<1>7. imports'[n] = imp
  <2>1. imports \in Seq(Imports)
    BY DEF TypeOK
  <2> QED BY <1>5, <1>6, <2>1, AppendProperties
<1>8. OneFormat'
  BY <1>1 DEF ImportInv, OneFormat
<1> HIDE DEF all
<1>9. RequestInv'
  <2>1. req'[r] = Idle /\ \A s \in Requests \ {r} : req'[s] = req[s]
    BY <1>1 DEF TypeOK
  <2>2. \A s \in Requests : (Reads(req[s]) => Formatted(req[s]))'
    <3> TAKE s \in Requests
    <3>1. PICK p : p = req'[s]
      OBVIOUS
    <3>2. Reads(p) => Formatted(p)
      BY <2>1, <3>1 DEF ImportInv, RequestInv, Idle, Reads
    <3>3. Reads(p) => Formatted(p)'
      BY <1>1, <3>2 DEF Formatted
    <3> QED BY <3>1, <3>3 DEF Reads
  <2>3. ASSUME NEW s \in Requests, NEW p, p = req'[s], p.pc = "insert" PROVE FilledTo(p)'
    <3>1. s # r /\ p = req[s]
      BY <2>1, <2>3 DEF Idle
    <3>2. Inserting(s) /\ p.sig # req[r].sig /\ FilledTo(p) /\ Formatted(p) /\ p \in Storing
      BY <1>1, <2>3, <3>1, StoringState DEF ImportInv, RequestInv, Inserting, Reads
    <3>3. p.done \in Nat /\ Len(PrintsOf(p)) \in Nat /\ p.done <= Len(PrintsOf(p))
      BY <3>2, PrintsShape DEF Storing, PrintsOf, FilledTo
    <3>4. \A i \in 1..p.done : PrintsOf(p)[i][1] = p.sig
      <4>1. \A i \in 1..Len(PrintsOf(p)) : PrintsOf(p)[i][1] = p.sig
        BY <3>2, PrintsShape DEF Storing, PrintsOf, Formatted
      <4> QED BY <3>3, <4>1
    <3>5. \A i \in 1..p.done : PrintsOf(p)[i] \notin all
      BY <1>3, <3>2, <3>4
    <3>6. {PrintsOf(p)[i] : i \in 1..p.done} \ StoredPrints'
            = {PrintsOf(p)[i] : i \in 1..p.done} \ StoredPrints
      BY <1>4, <3>5
    <3>7. p.done <= Len(PrintsOf(p)) /\ p.new = {PrintsOf(p)[i] : i \in 1..p.done} \ StoredPrints'
      BY <3>2, <3>6 DEF FilledTo
    <3> QED BY <3>7 DEF FilledTo, PrintsOf
  <2>4. \A s \in Requests : (Inserting(s) => FilledTo(req[s]))'
    <3> TAKE s \in Requests
    <3>1. PICK p : p = req'[s]
      OBVIOUS
    <3> QED BY <2>3, <3>1 DEF Inserting
  <2>5. \A s, t \in Requests :
          Inserting(s)' /\ Inserting(t)' /\ s # t => req'[s].sig # req'[t].sig
    BY <2>1 DEF ImportInv, RequestInv, Inserting, Idle
  <2> QED BY <2>2, <2>4, <2>5 DEF RequestInv
<1>10. \A l \in lines' : l.import \in DOMAIN imports'
  <2>1. \A l \in lines' : l \in lines \/ l.import = n
    BY <1>5, CommitState DEF StoredLine
  <2> QED BY <1>5, <2>1 DEF ImportInv
<1>11. \A i \in DOMAIN imports' : Accounted(i)'
  <2> TAKE i \in DOMAIN imports'
  <2>1. CASE i \in DOMAIN imports
    <3>1. PICK f \in formats : AccountsFor(imports[i], f, StoredBy(i))
      BY <2>1 DEF ImportInv, Accounted
    <3>2. f \in formats' /\ imports'[i] = imports[i] /\ StoredBy(i)' = StoredBy(i)
      BY <1>1, <1>4, <2>1
    <3> QED BY <3>1, <3>2 DEF Accounted
  <2>2. CASE i = n
    <3>1. PICK f \in formats : f.sig = Signature(req[r].file) /\ f.mapping = req[r].mapping
      BY <1>2 DEF Formatted
    <3>2. IsFiniteSet(req[r].new) /\ Cardinality(req[r].new) \in Nat
      BY <1>1, FS_CardinalityType DEF Storing, SomePrints
    <3>3. imp.kept + imp.ignored + imp.duplicates = Len(P)
      BY <1>3, <1>4, <1>6, <3>2
    <3>4. \A fp \in req[r].new : \E j \in 1..Len(P) : fp = P[j]
      BY <1>4 DEF all
    <3>5. StoredBy(i)' = req[r].new /\ imports'[i] = imp /\ f \in formats'
      BY <1>1, <1>5, <1>7, <2>2
    <3>6. AccountsFor(imp, f, req[r].new)
      <4>1. PICK Q, res, own : /\ Q = Prints[req[r].file][req[r].mapping]
                               /\ res = Reading[req[r].file][req[r].mapping]
                               /\ own = req[r].new
        OBVIOUS
      <4>2. Q = Prints[imp.file][f.mapping] /\ res = Reading[imp.file][f.mapping]
        BY <1>6, <3>1, <4>1
      <4>3. f.sig = Signature(imp.file)
        BY <1>6, <3>1
      <4>4. imp.kept + imp.ignored + imp.duplicates = Len(Q)
        BY <1>3, <3>3, <4>1
      <4>5. imp.outgoing = res.outgoing /\ imp.refused = res.refused
        BY <1>6, <4>1
      <4>6. imp.kept + imp.ignored = Cardinality(own)
        BY <1>6, <4>1
      <4>7. IsFiniteSet(own) /\ \A fp \in own : \E j \in 1..Len(Q) : fp = Q[j]
        BY <1>3, <3>2, <3>4, <4>1
      <4>8. AccountsFor(imp, f, own)
        BY <4>2, <4>3, <4>4, <4>5, <4>6, <4>7 DEF AccountsFor
      <4> QED BY <4>1, <4>8
    <3> QED BY <3>5, <3>6 DEF Accounted
  <2> QED BY <1>5, <2>1, <2>2
<1>12. Numbered'
  <2> SUFFICES ASSUME NEW k \in AllKeys
               PROVE  \E c \in Nat : StoredOf(k)' = {<<k[1], k[2], j>> : j \in 1..c}
    BY DEF Numbered
  <2>1. PICK c \in Nat : StoredOf(k) = {<<k[1], k[2], j>> : j \in 1..c}
    BY DEF ImportInv, Numbered
  <2> QED BY <2>1, CommitNumbers
<1>13. RuleCatches'
  <2> SUFFICES ASSUME NEW l \in lines', NEW x \in rules, l.state = "open", Matches(x, l.fp)
               PROVE  l.reopened \/ x \in imports'[l.import].missed
    BY <1>1 DEF RuleCatches, Matches
  <2>1. CASE l \in lines
    <3>1. l.import \in DOMAIN imports
      BY <2>1 DEF ImportInv
    <3>2. imports'[l.import] = imports[l.import]
      BY <1>4, <3>1
    <3> QED BY <2>1, <3>2 DEF ImportInv, RuleCatches
  <2>2. ASSUME NEW fp \in req[r].new, l = StoredLine(r, fp) PROVE x \in imports'[l.import].missed
    <3>1. l.fp = fp /\ l.import = n /\ l.state = StateOf(req[r].rules, fp)
      BY <1>5, <2>2 DEF StoredLine
    <3>2. x \notin req[r].rules
      BY <3>1 DEF StateOf
    <3>3. x.sig = req[r].sig
      BY <1>3, <1>4, <3>1 DEF Matches
    <3>4. x \in imp.missed
      BY <1>6, <3>2, <3>3 DEF RulesOf
    <3> QED BY <1>7, <3>1, <3>4
  <2>3. lines' = lines \cup {StoredLine(r, fp) : fp \in req[r].new}
    BY CommitState
  <2> QED BY <2>1, <2>2, <2>3
<1> QED BY <1>4, <1>8, <1>9, <1>10, <1>11, <1>12, <1>13 DEF ImportInv

(* Nothing of formats, requests or imports changes. *)
LEMMA SameRequests ==
  ASSUME ImportInv, UNCHANGED <<formats, imports, req>>, StoredPrints' = StoredPrints
  PROVE  OneFormat' /\ RequestInv'
<1>1. \A q : (Formatted(q)' = Formatted(q)) /\ (FilledTo(q)' = FilledTo(q))
  BY DEF Formatted, FilledTo, PrintsOf
<1>2. \A r \in Requests : /\ (Reads(req[r]) => Formatted(req[r]))'
                          /\ (Inserting(r) => FilledTo(req[r]))'
  <2> TAKE r \in Requests
  <2>1. PICK q : q = req[r] /\ q = req'[r]
    OBVIOUS
  <2>2. (Reads(q) => Formatted(q)) /\ (q.pc = "insert" => FilledTo(q))
    BY <2>1 DEF ImportInv, RequestInv, Inserting
  <2> QED BY <1>1, <2>1, <2>2 DEF Reads, Inserting
<1>3. \A r, s \in Requests : (Inserting(r) /\ Inserting(s) /\ r # s => req[r].sig # req[s].sig)'
  BY DEF ImportInv, RequestInv, Inserting
<1> QED BY <1>2, <1>3 DEF ImportInv, OneFormat, RequestInv

LEMMA NewRuleStep ==
  ASSUME TypeOK, ImportInv, NEW sig \in Signatures, NEW text \in Texts, AddIgnoreRule(sig, text)
  PROVE  ImportInv'
<1> DEFINE rule == [sig |-> sig, text |-> text]
           to(l) == IF l.state = "open" /\ Matches(rule, l.fp)
                    THEN [l EXCEPT !.state = "ignored"] ELSE l
<1>1. UNCHANGED <<formats, imports, req>> /\ rules' = rules \cup {rule} /\ lines' = {to(l) : l \in lines}
  BY DEF AddIgnoreRule
<1>2. /\ \A k \in lines' : \E l \in lines :
           /\ SameLine(k, l) /\ k.reopened = l.reopened
           /\ k.state = "open" => k = l /\ ~Matches(rule, l.fp)
      /\ \A l \in lines : \E k \in lines' : SameLine(k, l)
  BY RuleState
<1>3. \A l \in lines : to(l).fp = l.fp
  <2> TAKE l \in lines
  <2>1. l \in Lines
    BY DEF TypeOK
  <2> QED BY <2>1 DEF Lines
<1> HIDE DEF to
<1>4. OneLine'
  BY <1>1, <1>3 DEF ImportInv, OneLine
<1>5. RuleCatches'
  <2> SUFFICES ASSUME NEW k \in lines', NEW x \in rules', k.state = "open", Matches(x, k.fp)
               PROVE  k.reopened \/ x \in imports[k.import].missed
    BY <1>1 DEF RuleCatches, Matches
  <2>1. k \in lines /\ ~Matches(rule, k.fp)
    BY <1>2
  <2>2. x \in rules
    BY <1>1, <2>1
  <2> QED BY <2>1, <2>2 DEF ImportInv, RuleCatches
<1>6. StoredPrints' = StoredPrints
  BY <1>2 DEF StoredPrints, SameLine
<1>7. OneFormat' /\ RequestInv'
  BY <1>1, <1>6, SameRequests
<1> QED BY <1>1, <1>2, <1>4, <1>5, <1>7, StoreSame

LEMMA LineKept ==
  ASSUME TypeOK, ImportInv, LineStep
  PROVE  ImportInv'
<1>1. PICK l \in lines, k \in Lines :
        /\ lines' = (lines \ {l}) \cup {k} /\ SameLine(k, l)
        /\ k.state = "open" => k.reopened
  BY LineState
<1>2. UNCHANGED <<formats, rules, imports, req>>
  BY LineState
<1>3. /\ \A m \in lines' : \E o \in lines : SameLine(m, o)
      /\ \A m \in lines : \E o \in lines' : SameLine(o, m)
  BY <1>1 DEF SameLine
<1>4. OneLine' /\ RuleCatches'
  BY <1>1, <1>2 DEF ImportInv, OneLine, SameLine, RuleCatches, Matches
<1>5. StoredPrints' = StoredPrints
  BY <1>3 DEF StoredPrints, SameLine
<1>6. OneFormat' /\ RequestInv'
  BY <1>2, <1>5, SameRequests
<1> QED BY <1>2, <1>3, <1>4, <1>6, StoreSame

LEMMA ImportStep == TypeOK /\ ImportInv /\ [Next]_vars => ImportInv'
<1> SUFFICES ASSUME TypeOK, ImportInv, [Next]_vars PROVE ImportInv'
  OBVIOUS
<1>1. ASSUME NEW r \in Requests, Serve(r) PROVE ImportInv'
  <2>1. CASE Commit(r)
    BY <2>1, CommitStep
  <2>2. CASE ~Commit(r)
    BY <1>1, <2>2, ServeStep
  <2> QED BY <2>1, <2>2
<1>2. ASSUME NEW r \in Requests, NEW file \in Files, UploadKnown(r, file) PROVE ImportInv'
  <2>1. PICK f \in formats : f.sig = Signature(file) /\ req' = [req EXCEPT ![r] = ImportWith(file, f)]
    BY <1>2, UploadKnownState
  <2>2. PICK q : q = ImportWith(file, f)
    OBVIOUS
  <2>3. UNCHANGED <<formats, rules, lines, imports>>
    BY <1>2 DEF UploadKnown
  <2>4. q.pc = "rules" /\ Formatted(q)' /\ OneFormat'
    BY <2>1, <2>2, <2>3 DEF ImportWith, Formatted, ImportInv, OneFormat
  <2> QED BY <2>1, <2>2, <2>3, <2>4, OneRequest
<1>3. ASSUME NEW r \in Requests, NEW u \in Users, SaveMapping(r, u) PROVE ImportInv'
  <2>1. PICK q \in Creating : req' = [req EXCEPT ![r] = q]
    BY <1>3, SaveState
  <2>2. UNCHANGED <<formats, rules, lines, imports>>
    BY <1>3 DEF SaveMapping
  <2>3. q.pc # "insert" /\ ~Reads(q) /\ OneFormat'
    BY <2>1, <2>2 DEF Creating, Reads, ImportInv, OneFormat
  <2> QED BY <2>1, <2>2, <2>3, OneRequest
<1>4. CASE Restart
  <2>1. UNCHANGED <<formats, rules, lines, imports>> /\ \A r \in Requests : req'[r] = Idle
    BY <1>4 DEF Restart
  <2>2. RequestInv'
    BY <2>1 DEF RequestInv, Reads, Inserting, Idle
  <2>3. OneFormat'
    BY <2>1 DEF ImportInv, OneFormat
  <2> QED BY <2>1, <2>2, <2>3, RequestStep
<1>5. ASSUME NEW sig \in Signatures, NEW text \in Texts, AddIgnoreRule(sig, text) PROVE ImportInv'
  BY <1>5, NewRuleStep
<1>6. CASE LineStep
  BY <1>6, LineKept
<1>7. ASSUME UNCHANGED <<formats, imports, lines, req>>, rules' \subseteq rules PROVE ImportInv'
  BY <1>7, SameRequests, RequestStep DEF StoredPrints
<1>8. ASSUME NEW u \in Users, NEW file \in Files, UploadUnknown(u, file) PROVE ImportInv'
  BY <1>7, <1>8 DEF UploadUnknown
<1>9. ASSUME NEW u \in Users, PreviewMapping(u) PROVE ImportInv'
  BY <1>7, <1>9 DEF PreviewMapping
<1>10. CASE Expire \/ DeleteIgnoreRule
  BY <1>7, <1>10 DEF Expire, DeleteIgnoreRule
<1>11. CASE UNCHANGED vars
  BY <1>7, <1>11 DEF vars
<1> QED BY <1>1, <1>2, <1>3, <1>4, <1>5, <1>6, <1>8, <1>9, <1>10, <1>11 DEF Next, LineStep

LEMMA ImportsHold == Spec => [](TypeOK /\ ImportInv)
BY TypeInit, TypeStep, ImportInit, ImportStep, PTL DEF Spec

(* No two imports wait for a line of each other, whatever the files and the
   number of requests: the lock on the row of the layout keeps two imports
   whose fingerprints could meet from storing lines at the same time
   (store/sqldb/bank.go 95-201). *)
THEOREM ImportsNeverDeadlock == Spec => []NeverDeadlocked
<1>1. TypeOK /\ ImportInv => NeverDeadlocked
  <2> SUFFICES ASSUME TypeOK, ImportInv, NEW r \in Requests, NEW s \in Requests, Waits(r, s)
               PROVE  FALSE
    BY DEF NeverDeadlocked
  <2>1. /\ r # s /\ Inserting(r) /\ Inserting(s)
        /\ req[r].done < Len(PrintsOf(req[r]))
        /\ PrintsOf(req[r])[req[r].done + 1] \in req[s].new
    BY DEF Waits, HasNext, NextLine, Incoming, PrintsOf
  <2>2. \A t \in {r, s} : /\ Formatted(req[t]) /\ FilledTo(req[t])
                          /\ req[t] \in Storing
    BY <2>1, StoringState DEF ImportInv, RequestInv, Inserting, Reads
  <2>3. ASSUME NEW t \in {r, s}
        PROVE  /\ Len(PrintsOf(req[t])) \in Nat
               /\ \A i \in 1..Len(PrintsOf(req[t])) : PrintsOf(req[t])[i][1] = req[t].sig
    <3>1. PICK file \in Files, m \in AllMappings : file = req[t].file /\ m = req[t].mapping
      BY <2>2 DEF Storing
    <3>2. PrintsOf(req[t]) = Prints[file][m] /\ req[t].sig = Signature(file)
      BY <2>2, <3>1 DEF PrintsOf, Formatted
    <3>3. /\ Len(Prints[file][m]) \in Nat
          /\ \A i \in 1..Len(Prints[file][m]) : Prints[file][m][i][1] = Signature(file)
      BY PrintsShape
    <3> QED BY <3>2, <3>3
  <2>4. PrintsOf(req[r])[req[r].done + 1][1] = req[r].sig
    <3>1. req[r].done + 1 \in 1..Len(PrintsOf(req[r]))
      BY <2>1, <2>2, <2>3 DEF Storing
    <3> QED BY <2>3, <3>1
  <2>5. PrintsOf(req[r])[req[r].done + 1][1] = req[s].sig
    <3>1. PICK i \in 1..req[s].done : PrintsOf(req[r])[req[r].done + 1] = PrintsOf(req[s])[i]
      BY <2>1, <2>2 DEF FilledTo
    <3>2. i \in 1..Len(PrintsOf(req[s]))
      BY <2>2, <2>3 DEF Storing, FilledTo
    <3> QED BY <2>3, <3>1, <3>2
  <2>6. req[r].sig # req[s].sig
    BY <2>1 DEF ImportInv, RequestInv
  <2> QED BY <2>4, <2>5, <2>6
<1> QED BY <1>1, ImportsHold, PTL

(* A rule leaves no line it matches open, but for the lines of an import that
   read the rules before it was added, and those a person has opened since
   (store/sqldb/reconcile.go 97-159). *)
THEOREM RulesCatch == Spec => []RuleCatches
<1>1. ImportInv => RuleCatches
  BY DEF ImportInv
<1> QED BY <1>1, ImportsHold, PTL

-----------------------------------------------------------------------------
(* Lines of which no two have one fingerprint are as many as fingerprints. *)
LEMMA ByPrint ==
  ASSUME NEW L, \A k, l \in L : k.fp = l.fp => k = l, IsFiniteSet({l.fp : l \in L})
  PROVE  Cardinality(L) = Cardinality({l.fp : l \in L})
<1> DEFINE T == {l.fp : l \in L}
           of == [fp \in T |-> CHOOSE l \in L : l.fp = fp]
<1>1. \A fp \in T : of[fp] \in L /\ of[fp].fp = fp
  OBVIOUS
<1>2. {of[fp] : fp \in T} = L
  <2>1. \A l \in L : l.fp \in T /\ of[l.fp] = l
    BY <1>1
  <2> HIDE DEF T, of
  <2> QED BY <1>1, <2>1
<1>3. \A fp, gp \in T : of[fp] = of[gp] => fp = gp
  BY <1>1
<1> HIDE DEF T, of
<1>4. Cardinality({of[fp] : fp \in T}) = Cardinality(T)
  BY <1>3, ImageOf DEF T
<1> QED BY <1>2, <1>4 DEF T

(* An import accounts for every row of its file as the layout's one mapping
   reads it, and for every line it stored, whatever the files, the rules and
   the requests, also when it was run again, and also when somebody else saved
   the layout first (store/sqldb/bank.go 121-201). *)
THEOREM ImportsAccount == Spec => []CountsAddUp
<1>1. TypeOK /\ ImportInv => CountsAddUp
  <2> SUFFICES ASSUME TypeOK, ImportInv, NEW i \in DOMAIN imports
               PROVE  LET imp == imports[i]
                          m   == (CHOOSE f \in Known(Signature(imp.file)) : TRUE).mapping
                          res == Reading[imp.file][m]
                      IN  /\ imp.kept + imp.ignored + imp.duplicates = Len(res.incoming)
                          /\ Len(res.incoming) + imp.outgoing + imp.refused
                               = Len(File[imp.file].records)
                          /\ imp.outgoing = res.outgoing /\ imp.refused = res.refused
                          /\ imp.kept + imp.ignored = Cardinality({l \in lines : l.import = i})
                          /\ \A l \in lines : l.import = i =>
                               <<l.fp[1], l.fp[2]>> \in Range(Keys(imp.file, m))
    BY DEF CountsAddUp
  <2>1. PICK imp \in Imports : imp = imports[i]
    <3>1. imports \in Seq(Imports)
      BY DEF TypeOK
    <3> QED BY <3>1, ElementOfSeq, LenProperties
  <2>2. PICK f \in formats : AccountsFor(imp, f, StoredBy(i))
    BY <2>1 DEF ImportInv, Accounted
  <2>3. LET P   == Prints[imp.file][f.mapping]
            res == Reading[imp.file][f.mapping]
        IN  /\ f.sig = Signature(imp.file)
            /\ imp.kept + imp.ignored + imp.duplicates = Len(P)
            /\ imp.outgoing = res.outgoing /\ imp.refused = res.refused
            /\ IsFiniteSet(StoredBy(i)) /\ imp.kept + imp.ignored = Cardinality(StoredBy(i))
            /\ \A fp \in StoredBy(i) : \E j \in 1..Len(P) : fp = P[j]
    BY <2>2 DEF AccountsFor
  <2>4. imp.file \in Files /\ f.mapping \in AllMappings
    BY <2>1 DEF Imports, TypeOK, Formats
  <2>5. (CHOOSE g \in Known(Signature(imp.file)) : TRUE) = f
    <3>1. f \in Known(Signature(imp.file))
      BY <2>3 DEF Known
    <3>2. \A g \in Known(Signature(imp.file)) : g = f
      BY <2>3 DEF Known, ImportInv, OneFormat
    <3> QED BY <3>1, <3>2
  <2>6. PICK m \in AllMappings : m = f.mapping
    BY <2>4
  <2> DEFINE P   == Prints[imp.file][m]
             res == Reading[imp.file][m]
             own == {l \in lines : l.import = i}
  <2>7. /\ Len(P) = Len(res.incoming) /\ DOMAIN res.incoming = 1..Len(P)
        /\ Len(res.incoming) + res.outgoing + res.refused = Len(File[imp.file].records)
        /\ \A j \in 1..Len(P) : P[j][1] = Signature(imp.file) /\ P[j][2] = res.incoming[j]
    <3>1. /\ Len(P) = Len(res.incoming)
          /\ \A j \in 1..Len(P) : P[j][1] = Signature(imp.file) /\ P[j][2] = res.incoming[j]
      BY <2>4, PrintsShape
    <3>2. /\ DOMAIN res.incoming = 1..Len(res.incoming)
          /\ Len(res.incoming) + res.outgoing + res.refused = Len(File[imp.file].records)
      BY <2>4, IncomingShape
    <3> HIDE DEF P, res
    <3> QED BY <3>1, <3>2
  <2>8. Cardinality(own) = Cardinality(StoredBy(i))
    <3>1. \A k, l \in own : k.fp = l.fp => k = l
      BY DEF ImportInv, OneLine
    <3>2. StoredBy(i) = {l.fp : l \in own}
      BY DEF StoredBy
    <3>3. IsFiniteSet({l.fp : l \in own})
      BY <2>3, <3>2
    <3> HIDE DEF own
    <3> QED BY <3>1, <3>2, <3>3, ByPrint
  <2>9. ASSUME NEW l \in own PROVE <<l.fp[1], l.fp[2]>> \in Range(Keys(imp.file, m))
    <3>1. PICK j \in 1..Len(P) : l.fp = P[j]
      BY <2>3, <2>6 DEF StoredBy
    <3>2. j \in DOMAIN Keys(imp.file, m) /\ Keys(imp.file, m)[j] = <<P[j][1], P[j][2]>>
      BY <2>7 DEF Keys
    <3> HIDE DEF P, own
    <3> QED BY <3>1, <3>2 DEF Range
  <2> HIDE DEF P, res
  <2>10. /\ imp.kept + imp.ignored + imp.duplicates = Len(res.incoming)
         /\ Len(res.incoming) + imp.outgoing + imp.refused = Len(File[imp.file].records)
         /\ imp.outgoing = res.outgoing /\ imp.refused = res.refused
         /\ imp.kept + imp.ignored = Cardinality(own)
    BY <2>3, <2>6, <2>7, <2>8 DEF P, res
  <2> QED BY <2>1, <2>5, <2>6, <2>9, <2>10 DEF res
<1> QED BY <1>1, ImportsHold, PTL

(* Of a set of lines those that say the same, and the fingerprints of those. *)
Saying(L, k) == {l \in L : l.fp[1] = k[1] /\ l.fp[2] = k[2]}
PrintsSaying(L, k) == {fp \in {l.fp : l \in L} : fp[1] = k[1] /\ fp[2] = k[2]}

(* How many lines say the same: as many as their fingerprints are numbered. *)
LEMMA KeptCount ==
  ASSUME NEW L, \A k, l \in L : k.fp = l.fp => k = l, NEW k, NEW n \in Nat,
         PrintsSaying(L, k) = {<<k[1], k[2], j>> : j \in 1..n}
  PROVE  Cardinality(Saying(L, k)) = n
<1> DEFINE own == Saying(L, k)
           f == [j \in 1..n |-> <<k[1], k[2], j>>]
<1>1. {l.fp : l \in own} = {f[j] : j \in 1..n}
  <2>1. {l.fp : l \in own} = PrintsSaying(L, k)
    BY DEF Saying, PrintsSaying
  <2>2. {f[j] : j \in 1..n} = {<<k[1], k[2], j>> : j \in 1..n}
    OBVIOUS
  <2> QED BY <2>1, <2>2
<1>2. \A i, j \in 1..n : f[i] = f[j] => i = j
  OBVIOUS
<1>3. IsFiniteSet(1..n) /\ Cardinality(1..n) = n
  BY FS_Interval
<1>4. \A m, l \in own : m.fp = l.fp => m = l
  BY DEF Saying
<1> HIDE DEF own, f
<1>5. IsFiniteSet({f[j] : j \in 1..n}) /\ Cardinality({f[j] : j \in 1..n}) = n
  <2>1. PICK S : S = 1..n
    OBVIOUS
  <2>2. IsFiniteSet(S) /\ \A i, j \in S : f[i] = f[j] => i = j
    BY <1>2, <1>3, <2>1
  <2>3. IsFiniteSet({f[j] : j \in S}) /\ Cardinality({f[j] : j \in S}) = Cardinality(S)
    BY <2>2, ImageOf
  <2> QED BY <1>3, <2>1, <2>3
<1>6. Cardinality(own) = Cardinality({l.fp : l \in own})
  BY <1>1, <1>4, <1>5, ByPrint
<1>7. Cardinality(own) = n
  BY <1>1, <1>5, <1>6
<1> QED BY <1>7 DEF own

(* Only a commit stores lines. *)
LEMMA StoresAtCommit ==
  ASSUME TypeOK, ImportInv, [Next]_vars, \A r \in Requests : ~Commit(r)
  PROVE  StoredPrints' = StoredPrints
<1>1. CASE UNCHANGED lines
  BY <1>1 DEF StoredPrints
<1>2. ASSUME NEW sig \in Signatures, NEW text \in Texts, AddIgnoreRule(sig, text)
      PROVE  StoredPrints' = StoredPrints
  <2>1. /\ \A k \in lines' : \E l \in lines : SameLine(k, l)
        /\ \A l \in lines : \E k \in lines' : SameLine(k, l)
    BY <1>2, RuleState
  <2> QED BY <2>1 DEF StoredPrints, SameLine
<1>3. CASE LineStep
  <2>1. PICK l \in lines, k \in Lines : lines' = (lines \ {l}) \cup {k} /\ SameLine(k, l)
    BY <1>3, LineState
  <2> QED BY <2>1 DEF StoredPrints, SameLine
<1>4. \/ UNCHANGED lines \/ LineStep
      \/ \E sig \in Signatures, text \in Texts : AddIgnoreRule(sig, text)
  BY DEF Next, vars, LineStep, Serve, Create, ListIgnoreRules, Begin, InsertLine, Deadlocked, Fail,
         UploadKnown, UploadUnknown, PreviewMapping, SaveMapping, Restart, Expire, DeleteIgnoreRule
<1> QED BY <1>1, <1>2, <1>3, <1>4

LEMMA KeptNow ==
  ASSUME ImportInv, NEW k \in AllKeys
  PROVE  \E n \in Nat : /\ StoredOf(k) = {<<k[1], k[2], j>> : j \in 1..n}
                        /\ Kept[k] = n
<1>1. PICK n \in Nat : StoredOf(k) = {<<k[1], k[2], j>> : j \in 1..n}
  BY DEF ImportInv, Numbered
<1>2. \A m, l \in lines : m.fp = l.fp => m = l
  BY DEF ImportInv, OneLine
<1>3. Cardinality({l \in lines : l.fp[1] = k[1] /\ l.fp[2] = k[2]}) = n
  <2>1. PICK L : L = lines
    OBVIOUS
  <2>2. PrintsSaying(L, k) = {<<k[1], k[2], j>> : j \in 1..n}
    BY <1>1, <2>1 DEF StoredOf, StoredPrints, PrintsSaying
  <2>3. Cardinality(Saying(L, k)) = n
    BY <1>2, <2>1, <2>2, KeptCount
  <2> QED BY <2>1, <2>3 DEF Saying
<1> QED BY <1>1, <1>3 DEF Kept

(* What is kept of every line after a step, from what is stored of it. *)
LEMMA KeptNext ==
  ASSUME ImportInv', NEW k \in AllKeys, NEW n \in Nat,
         StoredOf(k)' = {<<k[1], k[2], j>> : j \in 1..n}
  PROVE  Kept'[k] = n
<1>1. \A m, l \in lines' : m.fp = l.fp => m = l
  BY DEF ImportInv, OneLine
<1>2. Cardinality({l \in lines' : l.fp[1] = k[1] /\ l.fp[2] = k[2]}) = n
  <2>1. PICK L : L = lines'
    OBVIOUS
  <2>2. PrintsSaying(L, k) = {<<k[1], k[2], j>> : j \in 1..n}
    BY <2>1 DEF StoredOf, StoredPrints, PrintsSaying
  <2>3. Cardinality(Saying(L, k)) = n
    BY <1>1, <2>1, <2>2, KeptCount
  <2> QED BY <2>1, <2>3 DEF Saying
<1> QED BY <1>2 DEF Kept

LEMMA AbstractInit == Init => Promised!Init
<1> SUFFICES ASSUME Init PROVE Promised!Init
  OBVIOUS
<1>1. ImportInv
  BY ImportInit
<1>2. ASSUME NEW k \in AllKeys PROVE Kept[k] = 0
  <2>1. lines = {}
    BY DEF Init
  <2>2. {l \in lines : l.fp[1] = k[1] /\ l.fp[2] = k[2]} = {}
    BY <2>1
  <2>3. Cardinality({l \in lines : l.fp[1] = k[1] /\ l.fp[2] = k[2]}) = 0
    BY <2>2, FS_EmptySet
  <2> QED BY <2>3 DEF Kept
<1>3. Kept = [k \in AllKeys |-> 0]
  BY <1>2 DEF Kept
<1> QED BY <1>3 DEF Promised!Init

LEMMA AbstractStep ==
  TypeOK /\ ImportInv /\ ImportInv' /\ [Next]_vars => [Promised!Next]_Kept
<1> SUFFICES ASSUME TypeOK, ImportInv, ImportInv', [Next]_vars PROVE [Promised!Next]_Kept
  OBVIOUS
<1>1. ASSUME NEW r \in Requests, Commit(r) PROVE Promised!Next
  <2>1. PICK file \in Files, m \in AllMappings : file = req[r].file /\ m = req[r].mapping
    BY <1>1, CommitState DEF Storing
  <2> DEFINE c == [k \in AllKeys |-> Cardinality({i \in DOMAIN Keys(file, m) : Keys(file, m)[i] = k})]
  <2>2. c \in Contents /\ \A k \in AllKeys : c[k] = Shown(file, m, k)
    BY DEF Contents, Shown
  <2>3. ASSUME NEW k \in AllKeys PROVE Kept'[k] = Promised!Larger(Kept[k], c[k])
    <3>1. PICK n \in Nat : StoredOf(k) = {<<k[1], k[2], j>> : j \in 1..n} /\ Kept[k] = n
      BY KeptNow
    <3>2. PICK s \in Nat : s = c[k] /\ s = Shown(req[r].file, req[r].mapping, k)
      BY <1>1, <2>1, <2>2, <3>1, CommitNumbers
    <3>3. Most(n, s) \in Nat /\ StoredOf(k)' = {<<k[1], k[2], j>> : j \in 1..Most(n, s)}
      BY <1>1, <3>1, <3>2, CommitNumbers
    <3>4. Kept'[k] = Most(n, s)
      BY <3>3, KeptNext
    <3> HIDE DEF c
    <3> QED BY <3>1, <3>2, <3>4 DEF Most, Promised!Larger
  <2> HIDE DEF c
  <2>4. Kept' = [k \in AllKeys |-> Kept'[k]]
    BY DEF Kept
  <2>5. Kept' = [k \in AllKeys |-> Promised!Larger(Kept[k], c[k])]
    BY <2>3, <2>4
  <2> QED BY <2>2, <2>5 DEF Promised!Next, Promised!Absorb
<1>2. ASSUME \A r \in Requests : ~Commit(r) PROVE Kept' = Kept
  <2>1. \A k : StoredOf(k)' = StoredOf(k)
    BY <1>2, StoresAtCommit DEF StoredOf
  <2>2. ASSUME NEW k \in AllKeys PROVE Kept'[k] = Kept[k]
    BY <2>1, KeptNow, KeptNext
  <2>3. Kept = [k \in AllKeys |-> Kept[k]] /\ Kept' = [k \in AllKeys |-> Kept'[k]]
    BY DEF Kept
  <2> QED BY <2>2, <2>3
<1> QED BY <1>1, <1>2

(* Two genuine identical lines of one file stay two, and a line that several
   files show is kept once, in whatever order and however often the files are
   imported, by whom, and whatever fails meanwhile: of every line as many are
   kept as the file that shows most of them shows (bankcsv/mapping.go 328-357,
   store/sqldb/bank.go 95-201). *)
THEOREM ImportsImplementStatements == Spec => ImplementsStatements
<1>1. ImportInv /\ TypeOK /\ [Next]_vars => ImportInv'
  BY ImportStep
<1> QED BY <1>1, AbstractInit, AbstractStep, ImportsHold, PTL
        DEF Spec, ImplementsStatements, Promised!Spec
=============================================================================
