---------------------------- MODULE InterestProofs ----------------------------
(***************************************************************************)
(* Theorems about the interest of a Payoff tab, for any readers, terms and *)
(* amounts, any ledger and any number of periods: what it is charged on,   *)
(* the days it falls due on for a schedule of months, what the page, the   *)
(* statements and the ledger have of the balance, that the suggested       *)
(* payment is the least in time, and that a forecast comes true.           *)
(***************************************************************************)
EXTENDS Interest, FiniteSums

(* A reader that is reading holds the entries, and whether it was disturbed;
   one that nobody disturbed holds the tab's entries. *)
AtClaims(T, F, D) == [pc : {"claims"}, tab : T, entries : F, disturbed : D]

AtPost(T, F, D, S) == [pc : {"post"}, tab : T, entries : F, disturbed : D, todo : S]

Holds(x) ==
  /\ x.pc = "claims" => \E T, F, D : x \in AtClaims(T, F, D)
  /\ x.pc = "post" => \E T, F, D, S : x \in AtPost(T, F, D, S)

UpToDate(x, es) ==
  Holds(x) /\ (x.pc \in {"claims", "post"} /\ x.disturbed = "no" => x.entries = es)

Informed ==
  /\ reader = [r \in Readers |-> reader[r]]
  /\ \A r \in Readers : UpToDate(reader[r], entries)

LEMMA InformedStart == Init => Informed
BY DEF Init, Informed, UpToDate, Holds, Resting

(* A reader that posts leaves the others knowing that they were disturbed. *)
LEMMA Disturbs ==
  ASSUME Informed, NEW by \in {"person", "reader"}, NEW others, NEW r \in Readers, NEW es,
         r \in others \/ es = entries
  PROVE  UpToDate(Disturbed(by, others)[r], es)
<1>1. UpToDate(reader[r], entries)
  BY DEF Informed
<1> PICK x, y : x = reader[r] /\ y = Disturbed(by, others)[r]
  OBVIOUS
<1>2. CASE r \in others /\ x.pc = "claims" /\ x.disturbed # "person"
  <2>1. PICK T, F, D : x \in AtClaims(T, F, D)
    BY <1>1, <1>2 DEF UpToDate, Holds
  <2>2. PICK G : G = D \cup {by}
    OBVIOUS
  <2>3. x \in [pc : {"claims"}, tab : T, entries : F, disturbed : G]
    BY <2>1, <2>2 DEF AtClaims
  <2>4. y \in AtClaims(T, F, G) /\ y.disturbed = by
    BY <1>2, <2>2, <2>3 DEF Disturbed, Reading, AtClaims
  <2> QED BY <2>4 DEF UpToDate, Holds, AtClaims
<1>3. CASE r \in others /\ x.pc = "post" /\ x.disturbed # "person"
  <2>1. PICK T, F, D, S : x \in AtPost(T, F, D, S)
    BY <1>1, <1>3 DEF UpToDate, Holds
  <2>2. PICK G : G = D \cup {by}
    OBVIOUS
  <2>3. x \in [pc : {"post"}, tab : T, entries : F, disturbed : G, todo : S]
    BY <2>1, <2>2 DEF AtPost
  <2>4. y \in AtPost(T, F, G, S) /\ y.disturbed = by
    BY <1>3, <2>2, <2>3 DEF Disturbed, Reading, AtPost
  <2> QED BY <2>4 DEF UpToDate, Holds, AtPost
<1>4. CASE r \notin others \/ x.pc \notin {"claims", "post"} \/ x.disturbed = "person"
  <2>1. y = x
    BY <1>4 DEF Disturbed, Reading
  <2> QED BY <1>1, <1>4, <2>1 DEF UpToDate
<1> QED BY <1>2, <1>3, <1>4

LEMMA PostInforms ==
  ASSUME Informed, NEW row, Post(row)
  PROVE  Informed'
<1>1. reader' = Disturbed("person", Readers)
  BY DEF Post
<1>2. reader' = [r \in Readers |-> reader'[r]]
  BY <1>1 DEF Disturbed
<1>3. \A r \in Readers : UpToDate(reader'[r], entries')
  BY <1>1, Disturbs
<1> QED BY <1>2, <1>3 DEF Informed

(* A reader that goes on by itself. *)
LEMMA AloneInforms ==
  ASSUME Informed, UNCHANGED entries, NEW r \in Readers, NEW x, UpToDate(x, entries),
         reader' = [reader EXCEPT ![r] = x]
  PROVE  Informed'
BY DEF Informed

LEMMA TodoInforms ==
  ASSUME Informed, UNCHANGED entries, NEW r \in Readers, reader[r].pc = "post", NEW todo,
         reader' = [reader EXCEPT ![r].todo = todo]
  PROVE  Informed'
<1>1. UpToDate(reader[r], entries)
  BY DEF Informed
<1> PICK x, y : x = reader[r] /\ y = reader'[r]
  OBVIOUS
<1>2. PICK T, F, D, S : x \in AtPost(T, F, D, S)
  BY <1>1 DEF UpToDate, Holds
<1>3. PICK G : G = S \cup {todo}
  OBVIOUS
<1>4. x \in [pc : {"post"}, tab : T, entries : F, disturbed : D, todo : G]
  BY <1>2, <1>3 DEF AtPost
<1>5. y \in AtPost(T, F, D, G) /\ y.entries = x.entries /\ y.disturbed = x.disturbed
  BY <1>3, <1>4 DEF Informed, AtPost
<1>6. UpToDate(y, entries)
  BY <1>1, <1>4, <1>5 DEF UpToDate, Holds, AtPost
<1>7. \A k \in Readers \ {r} : reader'[k] = reader[k]
  BY DEF Informed
<1>8. reader' = [k \in Readers |-> reader'[k]]
  BY DEF Informed
<1> QED BY <1>6, <1>7, <1>8 DEF Informed

LEMMA InterestInforms ==
  ASSUME Informed, NEW r \in Readers, NEW due, PostInterest(r, due)
  PROVE  Informed'
<1>1. PICK row : /\ entries' = Append(entries, row)
                 /\ reader' = [Disturbed("reader", Readers \ {r}) EXCEPT
                                  ![r].todo = @ \ {due}, ![r].entries = Append(@, row)]
  BY DEF PostInterest
<1>2. PICK P : P = Disturbed("reader", Readers \ {r})
  OBVIOUS
<1>3. P = [k \in Readers |-> P[k]] /\ P[r] = reader[r]
  BY <1>2 DEF Disturbed
<1>4. reader' = [P EXCEPT ![r].todo = @ \ {due}, ![r].entries = Append(@, row)]
  BY <1>1, <1>2, Zenon
<1>5. \A k \in Readers \ {r} : UpToDate(P[k], entries')
  BY <1>2, Disturbs
<1>6. \A k \in Readers \ {r} : reader'[k] = P[k]
  BY <1>3, <1>4
<1>7. reader' = [k \in Readers |-> reader'[k]]
  BY <1>3, <1>4
<1>8. UpToDate(reader'[r], entries')
  <2>1. UpToDate(reader[r], entries) /\ reader[r].pc = "post"
    BY DEF Informed, PostInterest, OldestOf
  <2> PICK x, y : x = reader[r] /\ y = reader'[r]
    OBVIOUS
  <2>2. PICK T, F, D, S : x \in AtPost(T, F, D, S)
    BY <2>1 DEF UpToDate, Holds
  <2>3. PICK es, todo : es = Append(x.entries, row) /\ todo = x.todo \ {due}
    OBVIOUS
  <2>4. PICK H, G : H = F \cup {es} /\ G = S \cup {todo}
    OBVIOUS
  <2>5. x \in [pc : {"post"}, tab : T, entries : H, disturbed : D, todo : G]
    BY <2>2, <2>4 DEF AtPost
  <2>6. P[r] = x
    BY <1>3
  <2>7. y = [[x EXCEPT !.todo = todo] EXCEPT !.entries = es]
    BY <1>3, <1>4, <2>3, <2>5, <2>6
  <2>8. y \in AtPost(T, H, D, G) /\ y.entries = es /\ y.disturbed = x.disturbed
    BY <2>4, <2>5, <2>7 DEF AtPost
  <2>9. x.disturbed = "no" => es = entries'
    BY <1>1, <2>1, <2>3 DEF UpToDate
  <2> QED BY <2>8, <2>9 DEF UpToDate, Holds, AtPost
<1> QED BY <1>5, <1>6, <1>7, <1>8 DEF Informed

LEMMA ReadsInform ==
  ASSUME Informed, NEW r \in Readers, ReadTab(r) \/ ReadEntries(r)
  PROVE  Informed'
<1>1. CASE ReadTab(r)
  <2>1. PICK x : x = [pc |-> "entries", tab |-> tab] /\ reader' = [reader EXCEPT ![r] = x]
    BY <1>1 DEF ReadTab
  <2>2. UpToDate(x, entries)
    BY <2>1 DEF UpToDate, Holds
  <2> QED BY <1>1, <2>1, <2>2, AloneInforms DEF ReadTab
<1>2. CASE ReadEntries(r)
  <2>1. PICK x : /\ x = [pc |-> "claims", tab |-> reader[r].tab, entries |-> entries,
                         disturbed |-> "no"]
                 /\ reader' = [reader EXCEPT ![r] = x]
    BY <1>2 DEF ReadEntries
  <2>2. x \in AtClaims({x.tab}, {entries}, {"no"}) /\ x.entries = entries
    BY <2>1 DEF AtClaims
  <2>3. UpToDate(x, entries)
    BY <2>2 DEF UpToDate, Holds, AtClaims
  <2> QED BY <1>2, <2>1, <2>3, AloneInforms DEF ReadEntries
<1> QED BY <1>1, <1>2

LEMMA ClaimsInform ==
  ASSUME Informed, NEW r \in Readers, ReadClaims(r)
  PROVE  Informed'
<1>1. UpToDate(reader[r], entries) /\ reader[r].pc = "claims"
  BY DEF Informed, ReadClaims
<1>2. PICK x, todo :
        /\ x = [pc |-> "post", tab |-> reader[r].tab, entries |-> reader[r].entries,
                disturbed |-> reader[r].disturbed, todo |-> todo]
        /\ reader' = [reader EXCEPT ![r] = x]
  BY DEF ReadClaims
<1>3. /\ x \in AtPost({x.tab}, {x.entries}, {x.disturbed}, {x.todo})
      /\ x.entries = reader[r].entries /\ x.disturbed = reader[r].disturbed
  BY <1>2 DEF AtPost
<1>4. UpToDate(x, entries)
  BY <1>1, <1>3 DEF UpToDate, Holds, AtPost
<1> QED BY <1>2, <1>4, AloneInforms DEF ReadClaims

LEMMA RestInforms ==
  ASSUME Informed, UNCHANGED entries, NEW r \in Readers,
         reader' = [reader EXCEPT ![r] = Resting]
  PROVE  Informed'
<1>1. UpToDate(Resting, entries)
  BY DEF UpToDate, Holds, Resting
<1> QED BY <1>1, AloneInforms

LEMMA NextInforms ==
  ASSUME Informed, [Next]_vars
  PROVE  Informed'
<1>1. CASE UNCHANGED vars
  BY <1>1 DEF vars, Informed
<1>2. CASE SetTerms \/ NextDay
  BY <1>2 DEF SetTerms, NextDay, Informed
<1>3. CASE \/ PostCharge \/ PostPayment \/ PostAdjustment
           \/ PostFee \/ RecordBankLine \/ ConfirmMatch \/ Undo
  <2>1. PICK row : Post(row)
    BY <1>3 DEF PostCharge, PostPayment, PostAdjustment,
                PostFee, RecordBankLine, ConfirmMatch, Undo
  <2> QED BY <2>1, PostInforms
<1>4. CASE \E r \in Readers : AccrueInterest(r)
  <2>1. PICK r \in Readers : AccrueInterest(r)
    BY <1>4
  <2>2. CASE Finish(r) \/ Fail(r)
    BY <2>2, RestInforms DEF Finish, Fail
  <2>3. CASE \E due \in reader[r].todo : PassOver(r, due) \/ Replayed(r, due)
    <3>1. PICK due : PassOver(r, due) \/ Replayed(r, due)
      BY <2>3
    <3>2. PICK todo : todo = reader[r].todo \ {due}
      OBVIOUS
    <3>3. /\ reader[r].pc = "post" /\ UNCHANGED entries
          /\ reader' = [reader EXCEPT ![r].todo = todo]
      BY <3>1, <3>2, Zenon DEF PassOver, Replayed, OldestOf
    <3> QED BY <3>3, TodoInforms
  <2>4. CASE \E due \in reader[r].todo : PostInterest(r, due)
    BY <2>4, InterestInforms
  <2> QED BY <2>1, <2>2, <2>3, <2>4, ReadsInform, ClaimsInform DEF AccrueInterest
<1> QED BY <1>1, <1>2, <1>3, <1>4 DEF Next

LEMMA StaysInformed == Spec => []Informed
BY InformedStart, NextInforms, PTL DEF Spec

(* Only the posting of a period's interest claims it. *)
LEMMA OnlyInterestClaims ==
  ASSUME [Next]_vars, NEW c \in claims' \ claims
  PROVE  \E r \in Readers : \E due \in reader[r].todo :
           /\ PostInterest(r, due)
           /\ c.due = due /\ c.base = Base(r, due)
<1>1. claims' # claims
  OBVIOUS
<1>2. PICK r \in Readers : \E due \in reader[r].todo : PostInterest(r, due)
  BY <1>1 DEF vars, Next, SetTerms, NextDay, Post,
    PostCharge, PostPayment, PostAdjustment, PostFee,
    RecordBankLine, ConfirmMatch, Undo, AccrueInterest, ReadTab,
    ReadEntries, ReadClaims, Finish, Fail,
    PassOver, Replayed
<1>3. PICK due \in reader[r].todo : PostInterest(r, due)
  BY <1>2
<1>4. PICK n : n = [due |-> due, base |-> Base(r, due), seq |-> c.seq] /\ c = n
  BY <1>3 DEF PostInterest, Row
<1> QED BY <1>3, <1>4

(* A reading that nobody disturbs charges interest on the principal that the
   tab has as of the due date, its own earlier charges included, however many
   other requests read, post, undo and edit beside it (ledger/interest.go). *)
THEOREM InterestIsOnPrincipal == Spec => ChargedOnPrincipal
<1> DEFINE Right == \A r \in Readers, c \in claims' \ claims :
                      Charged(r, c) /\ reader[r].disturbed = "no"
                        => c.base = AllocateLoan(entries, c.due).principal
<1>1. ASSUME Informed, [Next]_vars PROVE Right
  <2> SUFFICES ASSUME NEW r \in Readers, NEW c \in claims' \ claims,
                      Charged(r, c), reader[r].disturbed = "no"
               PROVE  c.base = AllocateLoan(entries, c.due).principal
    OBVIOUS
  <2> PICK q \in Readers : \E due \in reader[q].todo :
          /\ PostInterest(q, due)
          /\ c.due = due /\ c.base = Base(q, due)
    BY <1>1, OnlyInterestClaims
  <2>1. PICK due \in reader[q].todo :
          /\ PostInterest(q, due)
          /\ c.due = due /\ c.base = Base(q, due)
    OBVIOUS
  <2>2. reader[r].pc = "post" /\ due \in reader[r].todo /\ due \notin reader'[r].todo
    BY <2>1 DEF Charged, OldestOf
  <2>3. UpToDate(reader[r], entries)
    BY <1>1 DEF Informed
  <2>4. CASE q = r
    <3>1. reader[r].entries = entries
      BY <2>2, <2>3 DEF UpToDate
    <3> QED BY <2>1, <2>4, <3>1 DEF Base
  <2>5. CASE q # r
    <3>1. PICK P : P = Disturbed("reader", Readers \ {q})
      OBVIOUS
    <3>2. reader'[r] = P[r] /\ P = [k \in Readers |-> P[k]]
      BY <2>1, <2>5, <3>1 DEF PostInterest, Disturbed
    <3> PICK x : x = reader[r]
      OBVIOUS
    <3>3. PICK T, F, D, S : x \in AtPost(T, F, D, S)
      BY <2>2, <2>3 DEF UpToDate, Holds
    <3>4. PICK G : G = D \cup {"reader"}
      OBVIOUS
    <3>5. x \in [pc : {"post"}, tab : T, entries : F, disturbed : G, todo : S]
      BY <3>3, <3>4 DEF AtPost
    <3>6. P[r].todo = x.todo
      BY <3>1, <3>4, <3>5 DEF Disturbed
    <3> QED BY <2>2, <3>2, <3>6
  <2> QED BY <2>4, <2>5
<1>2. Informed /\ [Next]_vars => [Right]_vars
  BY <1>1
<1> QED BY <1>2, StaysInformed, PTL DEF Spec, ChargedOnPrincipal

-----------------------------------------------------------------------------
(* The days of a year before a month. *)
Before(y, m) == SumFunction([k \in 1 .. m - 1 |-> DaysIn(y, k)])

LEMMA MonthLength ==
  ASSUME NEW y, NEW m
  PROVE  DaysIn(y, m) \in 28 .. 31
<1>1. CASE m \in {4, 6, 9, 11}
  BY <1>1 DEF DaysIn
<1>2. CASE m = 2
  BY <1>2 DEF DaysIn
<1>3. CASE m \notin {2, 4, 6, 9, 11}
  BY <1>3 DEF DaysIn
<1> QED BY <1>1, <1>2, <1>3

(* A month adds its days. *)
LEMMA NextMonth ==
  ASSUME NEW y, NEW m \in Nat \ {0}
  PROVE  /\ Before(y, m) \in Int
         /\ Before(y, m + 1) = Before(y, m) + DaysIn(y, m)
<1>1. PICK S : S = 1 .. m
  OBVIOUS
<1>2. PICK T : T = S \ {m}
  OBVIOUS
<1>3. PICK f : f = [k \in S |-> DaysIn(y, k)]
  OBVIOUS
<1>4. PICK g : g = [k \in T |-> DaysIn(y, k)]
  OBVIOUS
<1>5. T = 1 .. m - 1
  <2>1. \A k : k \in T <=> k \in 1 .. m - 1
    BY <1>1, <1>2
  <2> QED BY <2>1
<1>6. m \in S
  BY <1>1
<1>7. IsFiniteSet(S)
  <2>1. m \in Int /\ 1 \in Int
    OBVIOUS
  <2> QED BY <1>1, <2>1, FS_Interval
<1>8. /\ SumFunction(f) \in Int /\ SumFunction(g) \in Int
      /\ SumFunction(f) = DaysIn(y, m) + SumFunction(g)
  <2>1. ASSUME NEW x \in S, T = S \ {x}
        PROVE  /\ SumFunction(f) \in Int /\ SumFunction(g) \in Int
               /\ SumFunction(f) = DaysIn(y, x) + SumFunction(g)
    <3>1. x \in S /\ T = S \ {x} /\ IsFiniteSet(S)
      BY <1>7, <2>1
    <3>2. f \in [S -> Int] /\ g = [k \in T |-> f[k]]
      BY <1>3, <1>4, <3>1, MonthLength
    <3>3. f[x] = DaysIn(y, x)
      BY <1>3, <3>1
    <3>4. SumFunction(f) \in Int
      BY <3>1, <3>2, SumWithout
    <3>5. SumFunction(g) \in Int
      BY <3>1, <3>2, SumWithout
    <3>6. SumFunction(f) = f[x] + SumFunction(g)
      BY <3>1, <3>2, SumWithout
    <3> QED BY <3>3, <3>4, <3>5, <3>6
  <2> QED BY <1>2, <1>6, <2>1
<1>9. Before(y, m) = SumFunction(g)
  BY <1>4, <1>5 DEF Before
<1>10. Before(y, m + 1) = SumFunction(f)
  <2>1. (m + 1) - 1 = m
    OBVIOUS
  <2> QED BY <1>1, <1>3, <2>1 DEF Before
<1>11. PICK a \in Int, b \in Int : a = SumFunction(g) /\ b = DaysIn(y, m)
  BY <1>8, MonthLength
<1>12. SumFunction(f) = b + a
  BY <1>8, <1>11
<1> QED BY <1>9, <1>10, <1>11, <1>12

(* The calendar's months, the leap day in February counted. *)
LEMMA YearTable ==
  ASSUME NEW y, NEW f, f = IF Leap(y) THEN 1 ELSE 0
  PROVE  /\ Before(y, 1) = 0 /\ Before(y, 2) = 31 /\ Before(y, 3) = 59 + f
         /\ Before(y, 4) = 90 + f /\ Before(y, 5) = 120 + f /\ Before(y, 6) = 151 + f
         /\ Before(y, 7) = 181 + f /\ Before(y, 8) = 212 + f /\ Before(y, 9) = 243 + f
         /\ Before(y, 10) = 273 + f /\ Before(y, 11) = 304 + f /\ Before(y, 12) = 334 + f
         /\ Before(y, 13) = 365 + f
         /\ f \in {0, 1}
<1>1. Before(y, 1) = 0
  <2>1. [k \in 1 .. 1 - 1 |-> DaysIn(y, k)] = [x \in {} |-> x]
    OBVIOUS
  <2> QED BY <2>1, SumOfNone DEF Before
<1>2. /\ DaysIn(y, 1) = 31 /\ DaysIn(y, 2) = 28 + f
      /\ DaysIn(y, 3) = 31 /\ DaysIn(y, 4) = 30
      /\ DaysIn(y, 5) = 31 /\ DaysIn(y, 6) = 30
      /\ DaysIn(y, 7) = 31 /\ DaysIn(y, 8) = 31
      /\ DaysIn(y, 9) = 30 /\ DaysIn(y, 10) = 31
      /\ DaysIn(y, 11) = 30 /\ DaysIn(y, 12) = 31
  BY DEF DaysIn
<1>3. \A m \in 1 .. 12 : Before(y, m + 1) = Before(y, m) + DaysIn(y, m)
  BY NextMonth
<1>4. f \in {0, 1}
  OBVIOUS
<1>5. Before(y, 2) = 31 /\ Before(y, 3) = 59 + f /\ Before(y, 4) = 90 + f
  BY <1>1, <1>2, <1>3, <1>4
<1>6. Before(y, 5) = 120 + f /\ Before(y, 6) = 151 + f /\ Before(y, 7) = 181 + f
  BY <1>2, <1>3, <1>4, <1>5
<1>7. Before(y, 8) = 212 + f /\ Before(y, 9) = 243 + f /\ Before(y, 10) = 273 + f
  BY <1>2, <1>3, <1>4, <1>6
<1>8. Before(y, 11) = 304 + f /\ Before(y, 12) = 334 + f /\ Before(y, 13) = 365 + f
  BY <1>2, <1>3, <1>4, <1>7
<1> QED BY <1>1, <1>4, <1>5, <1>6, <1>7, <1>8

(* The days before a year: the calendar's leap years are counted. *)
YearStart(y) == 365 * (y - 1) + (y - 1) \div 4 - (y - 1) \div 100 + (y - 1) \div 400

LEMMA YearsGrow ==
  ASSUME NEW y \in Nat \ {0}, NEW z \in Nat \ {0}, y < z
  PROVE  /\ YearStart(y) \in Int /\ YearStart(z) \in Int
         /\ YearStart(z) >= YearStart(y) + (IF Leap(y) THEN 366 ELSE 365)
<1>1. YearStart(y) \in Int /\ YearStart(z) \in Int
  BY DEF YearStart
<1>2. YearStart(y + 1) = YearStart(y) + (IF Leap(y) THEN 366 ELSE 365)
  BY DEF YearStart, Leap
<1>3. YearStart(z) >= YearStart(y + 1)
  BY DEF YearStart
<1>4. YearStart(y + 1) \in Int
  BY DEF YearStart
<1> QED BY <1>1, <1>2, <1>3, <1>4

(* The first day of a month is the number of days before it. *)
MonthStart(y, m) == YearStart(y) + Before(y, m)

LEMMA MonthsAreInts ==
  ASSUME NEW y \in Nat \ {0}, NEW m \in 1 .. 12
  PROVE  Before(y, m) \in Int /\ YearStart(y) \in Int /\ MonthStart(y, m) \in Int
<1>1. Before(y, m) \in Int
  BY NextMonth
<1>2. YearStart(y) \in Int
  BY DEF YearStart
<1> QED BY <1>1, <1>2 DEF MonthStart

(* A month's days are over before the next month, and the year. *)
LEMMA MonthFits ==
  ASSUME NEW y \in Nat \ {0}, NEW m \in 1 .. 12, NEW n \in 1 .. 12
  PROVE  /\ m < n => Before(y, m) + DaysIn(y, m) <= Before(y, n)
         /\ Before(y, m) + DaysIn(y, m) <= IF Leap(y) THEN 366 ELSE 365
         /\ Before(y, n) >= 0
<1> PICK f : f = IF Leap(y) THEN 1 ELSE 0
  OBVIOUS
<1>1. /\ f \in {0, 1}
      /\ Before(y, 1) = 0 /\ Before(y, 2) = 31 /\ Before(y, 3) = 59 + f
      /\ Before(y, 4) = 90 + f /\ Before(y, 5) = 120 + f /\ Before(y, 6) = 151 + f
      /\ Before(y, 7) = 181 + f /\ Before(y, 8) = 212 + f /\ Before(y, 9) = 243 + f
      /\ Before(y, 10) = 273 + f /\ Before(y, 11) = 304 + f /\ Before(y, 12) = 334 + f
      /\ Before(y, 13) = 365 + f
  BY YearTable
<1>2. /\ Before(y, m) \in Int /\ Before(y, n) \in Int
      /\ Before(y, m) + DaysIn(y, m) = Before(y, m + 1)
  BY NextMonth
<1>3. m < n => Before(y, m + 1) <= Before(y, n)
  BY <1>1
<1>4. Before(y, m + 1) <= 365 + f
  BY <1>1
<1>5. Before(y, n) >= 0
  BY <1>1
<1> QED BY <1>1, <1>2, <1>3, <1>4, <1>5

(* Days of an earlier month are earlier. *)
LEMMA MonthsGrow ==
  ASSUME NEW y \in Nat \ {0}, NEW m \in 1 .. 12, NEW z \in Nat \ {0}, NEW n \in 1 .. 12,
         y < z \/ (y = z /\ m < n)
  PROVE  MonthStart(y, m) + DaysIn(y, m) <= MonthStart(z, n)
<1>1. /\ Before(y, m) \in Int /\ YearStart(y) \in Int
      /\ Before(z, n) \in Int /\ YearStart(z) \in Int
      /\ DaysIn(y, m) \in Int
  BY MonthsAreInts, MonthLength
<1>2. CASE y = z /\ m < n
  <2>1. Before(y, m) + DaysIn(y, m) <= Before(y, n)
    BY <1>2, MonthFits
  <2> QED BY <1>1, <1>2, <2>1 DEF MonthStart
<1>3. CASE y < z
  <2>1. /\ Before(y, m) + DaysIn(y, m) <= IF Leap(y) THEN 366 ELSE 365
        /\ Before(z, n) >= 0
    BY MonthFits
  <2>2. YearStart(z) >= YearStart(y) + (IF Leap(y) THEN 366 ELSE 365)
    BY <1>3, YearsGrow
  <2>3. PICK l \in Int : l = IF Leap(y) THEN 366 ELSE 365
    OBVIOUS
  <2> QED BY <1>1, <2>1, <2>2, <2>3 DEF MonthStart
<1> QED BY <1>2, <1>3

(* A date's number, from its month's. *)
LEMMA NumberOf ==
  ASSUME NEW y \in Nat \ {0}, NEW m \in 1 .. 12, NEW d \in 1 .. DaysIn(y, m)
  PROVE  DayNumber(Date(y, m, d)) = MonthStart(y, m) + d
<1>1. PICK x : x = Date(y, m, d)
  OBVIOUS
<1>2. x.year = y /\ x.month = m /\ x.day = d
  BY <1>1 DEF Date
<1>3. DayNumber(x) = YearStart(y) + Before(y, m) + d
  BY <1>2 DEF DayNumber, YearStart, Before
<1> QED BY <1>1, <1>3 DEF MonthStart

(* A schedule of months. *)
Monthly == Schedule.kind \in {"monthly_day", "monthly_last"}

LEMMA EveryIsNat == Every \in Nat \ {0}
BY ScheduleAssumption DEF Every

(* A cycle starts in a month of some year. *)
LEMMA CycleMonths ==
  ASSUME Monthly, NEW i \in Nat, NEW y, NEW m, y = MonthOf(i)[1], m = MonthOf(i)[2]
  PROVE  y \in Nat \ {0} /\ m \in 1 .. 12 /\ Every \in Nat \ {0}
<1>1. /\ Schedule.anchor.year \in Nat \ {0} /\ Schedule.anchor.month \in 1 .. 12
      /\ Schedule.interval \in 0 .. 104
  BY ScheduleAssumption DEF Monthly, Valid, ValidDate
<1>2. PICK a \in Nat \ {0}, b \in 1 .. 12, e \in Nat \ {0} :
        a = Schedule.anchor.year /\ b = Schedule.anchor.month /\ e = Every
  BY <1>1, EveryIsNat
<1>3. PICK k \in Nat : k = e * i
  OBVIOUS
<1>4. PICK t \in Nat : t = a * 12 + (b - 1) + k /\ t >= 12
  OBVIOUS
<1>5. MonthOf(i) = <<t \div 12, (t % 12) + 1>>
  BY <1>2, <1>3, <1>4 DEF MonthOf, AddMonths
<1>6. t \div 12 \in Nat \ {0} /\ (t % 12) + 1 \in 1 .. 12
  BY <1>4
<1> QED BY <1>2, <1>5, <1>6

(* A later cycle is of a later month. *)
LEMMA CyclesGrow ==
  ASSUME Monthly, NEW i \in Nat, NEW j \in Nat, i < j
  PROVE  \/ MonthOf(i)[1] < MonthOf(j)[1]
         \/ /\ MonthOf(i)[1] = MonthOf(j)[1]
            /\ MonthOf(i)[2] < MonthOf(j)[2]
<1>1. /\ Schedule.anchor.year \in Nat \ {0} /\ Schedule.anchor.month \in 1 .. 12
      /\ Schedule.interval \in 0 .. 104
  BY ScheduleAssumption DEF Monthly, Valid, ValidDate
<1>2. PICK a \in Nat \ {0}, b \in 1 .. 12, e \in Nat \ {0} :
        a = Schedule.anchor.year /\ b = Schedule.anchor.month /\ e = Every
  BY <1>1, EveryIsNat
<1>3. PICK k \in Nat, l \in Nat : k = e * i /\ l = e * j
  OBVIOUS
<1>4. k < l
  <2>1. PICK d \in Nat \ {0} : j = i + d
    BY SMT
  <2>2. PICK g \in Nat \ {0} : g = e * d
    BY SMT
  <2>3. e * j = e * i + e * d
    BY <2>1, SMT
  <2> QED BY <1>3, <2>2, <2>3
<1>5. PICK t \in Nat, u \in Nat :
        t = a * 12 + (b - 1) + k /\ u = a * 12 + (b - 1) + l /\ t < u
  BY <1>4
<1>6. /\ MonthOf(i) = <<t \div 12, (t % 12) + 1>>
      /\ MonthOf(j) = <<u \div 12, (u % 12) + 1>>
  BY <1>2, <1>3, <1>5 DEF MonthOf, AddMonths
<1>7. t \div 12 < u \div 12 \/ (t \div 12 = u \div 12 /\ (t % 12) + 1 < (u % 12) + 1)
  BY <1>5
<1> QED BY <1>6, <1>7

(* The day of a cycle is one of its month's: the anchor's, or else the last. *)
LEMMA CycleDay ==
  ASSUME Monthly, NEW i \in Nat, NEW y, NEW m, y = MonthOf(i)[1], m = MonthOf(i)[2]
  PROVE  \E d \in 1 .. DaysIn(y, m) :
           /\ Nth(i) = Date(y, m, d)
           /\ d # Schedule.anchor.day =>
                /\ d = DaysIn(y, m)
                /\ d < Schedule.anchor.day \/ Schedule.kind = "monthly_last"
<1>1. PICK l \in 28 .. 31 : l = DaysIn(y, m)
  BY MonthLength
<1>2. PICK b \in 28 .. 31 : b = DaysIn(Schedule.anchor.year, Schedule.anchor.month)
  BY MonthLength
<1>3. PICK a \in Nat \ {0} : a = Schedule.anchor.day
  BY <1>2, ScheduleAssumption DEF Monthly, Valid, ValidDate
<1>4. CASE Schedule.kind = "monthly_last"
  <2>1. Nth(i) = Date(y, m, l)
    BY <1>1, <1>4 DEF Nth
  <2> QED BY <1>1, <1>4, <2>1
<1>5. CASE Schedule.kind = "monthly_day"
  <2>1. PICK d : d = Lesser(a, l)
    OBVIOUS
  <2>2. Nth(i) = Date(y, m, d)
    BY <1>1, <1>3, <1>5, <2>1 DEF Nth
  <2>3. d \in 1 .. l /\ (d # a => d = l /\ d < a)
    BY <2>1 DEF Lesser
  <2> QED BY <1>1, <1>3, <2>2, <2>3
<1> QED BY <1>4, <1>5 DEF Monthly

(* Later cycles start later. *)
LEMMA StartsGrow ==
  ASSUME Monthly, NEW i \in Nat, NEW j \in Nat, i < j
  PROVE  /\ DayNumber(Nth(i)) \in Int /\ DayNumber(Nth(j)) \in Int
         /\ DayNumber(Nth(i)) < DayNumber(Nth(j))
<1>1. PICK y, m, z, n :
        /\ y = MonthOf(i)[1] /\ m = MonthOf(i)[2]
        /\ z = MonthOf(j)[1] /\ n = MonthOf(j)[2]
  OBVIOUS
<1>2. /\ y \in Nat \ {0} /\ m \in 1 .. 12 /\ z \in Nat \ {0} /\ n \in 1 .. 12
  BY <1>1, CycleMonths
<1>3. y < z \/ (y = z /\ m < n)
  BY <1>1, CyclesGrow
<1>4. PICK c \in 1 .. DaysIn(y, m), d \in 1 .. DaysIn(z, n) :
        Nth(i) = Date(y, m, c) /\ Nth(j) = Date(z, n, d)
  <2>1. \E c \in 1 .. DaysIn(y, m) : Nth(i) = Date(y, m, c)
    BY <1>1, CycleDay
  <2>2. \E d \in 1 .. DaysIn(z, n) : Nth(j) = Date(z, n, d)
    BY <1>1, CycleDay
  <2> QED BY <2>1, <2>2
<1>5. MonthStart(y, m) + DaysIn(y, m) <= MonthStart(z, n)
  BY <1>2, <1>3, MonthsGrow
<1>6. /\ MonthStart(y, m) \in Int /\ MonthStart(z, n) \in Int
      /\ DaysIn(y, m) \in 28 .. 31 /\ DaysIn(z, n) \in 28 .. 31
  BY <1>2, MonthsAreInts, MonthLength
<1>7. /\ DayNumber(Date(y, m, c)) = MonthStart(y, m) + c
      /\ DayNumber(Date(z, n, d)) = MonthStart(z, n) + d
  BY <1>2, NumberOf
<1>8. c \in Int /\ d \in Int /\ c <= DaysIn(y, m) /\ 1 <= d
  BY <1>6
<1> QED BY <1>4, <1>5, <1>6, <1>7, <1>8

(* The cycle whose start is the due date of a period. *)
Begins(n) == IF Schedule.billing = "arrears" THEN n + 1 ELSE n

LEMMA DueDates ==
  ASSUME Monthly, NEW n \in DOMAIN Due
  PROVE  /\ Begins(n) \in Nat
         /\ Period(n).due = Nth(Begins(n))
         /\ Due[n] = DayNumber(Nth(Begins(n)))
<1>1. n \in 0 .. MaxPeriods - 1
  BY DEF Due
<1>2. n \in Nat
  BY <1>1
<1>3. Period(n).due = Nth(Begins(n))
  BY DEF Period, Begins
<1>4. Due[n] = DayNumber(Period(n).due)
  BY <1>1 DEF Due
<1> QED BY <1>2, <1>3, <1>4 DEF Begins

(* No two periods fall due on one day. *)
LEMMA DueOnce ==
  ASSUME Monthly, NEW n \in DOMAIN Due, NEW m \in DOMAIN Due,
         Due[n] = Due[m]
  PROVE  m = n
<1>1. /\ Begins(n) \in Nat /\ Begins(m) \in Nat
      /\ DayNumber(Nth(Begins(n))) = DayNumber(Nth(Begins(m)))
  BY DueDates
<1>2. n \in Int /\ m \in Int
  BY DEF Due
<1>3. PICK i \in Nat, j \in Nat : i = Begins(n) /\ j = Begins(m)
  BY <1>1
<1>4. ~(i < j) /\ ~(j < i)
  BY <1>1, <1>3, StartsGrow
<1>5. i = j
  BY <1>4
<1> QED BY <1>2, <1>3, <1>5 DEF Begins

(* The day of the month on which a period falls due. *)
LEMMA DueDay ==
  ASSUME Monthly, NEW n \in DOMAIN Due,
         NEW d, d = Period(n).due
  PROVE  \/ d.day = Schedule.anchor.day
         \/ /\ d.day = DaysIn(d.year, d.month)
            /\ d.day < Schedule.anchor.day \/ Schedule.kind = "monthly_last"
<1>1. PICK i \in Nat : i = Begins(n) /\ d = Nth(i)
  BY DueDates
<1>2. PICK y, m : y = MonthOf(i)[1] /\ m = MonthOf(i)[2]
  OBVIOUS
<1>3. PICK k \in 1 .. DaysIn(y, m) :
        /\ Nth(i) = Date(y, m, k)
        /\ k # Schedule.anchor.day =>
             /\ k = DaysIn(y, m)
             /\ k < Schedule.anchor.day \/ Schedule.kind = "monthly_last"
  BY <1>2, CycleDay
<1>4. d.year = y /\ d.month = m /\ d.day = k
  BY <1>1, <1>3 DEF Date
<1> QED BY <1>3, <1>4

(* Only periods are charged. *)
DueDateSet == {Due[n] : n \in DOMAIN Due}

Periodic ==
  /\ Informed
  /\ \A c \in claims : c.due \in DueDateSet
  /\ \A r \in Readers : reader[r].pc = "post" => reader[r].todo \subseteq DueDateSet

(* How a reader goes on from x to y: with what it has read, or what it reads
   now; it has ever less to charge, and its own charge is the tab's newest
   entry. *)
Moves(x, y) ==
  /\ y.pc = "entries" => (x.pc = "entries" /\ y.tab = x.tab) \/ y.tab = tab
  /\ y.pc = "claims" =>
       /\ x.pc \in {"entries", "claims"} /\ y.tab = x.tab
       /\ (x.pc = "claims" /\ y.entries = x.entries) \/ y.entries = entries
  /\ y.pc = "post" =>
       /\ x.pc \in {"claims", "post"} /\ y.tab = x.tab
       /\ \/ y.entries = x.entries
          \/ \E row : y.entries = Append(x.entries, row) /\ entries' = Append(entries, row)
       /\ \/ x.pc = "post" /\ y.todo \subseteq x.todo
          \/ x.pc = "claims" /\ y.todo \subseteq {Due[n] : n \in DueThrough(Day)}

(* Being disturbed changes nothing of what was read and is left to charge. *)
LEMMA DisturbedIsSame ==
  ASSUME Informed, NEW by \in {"person", "reader"}, NEW others, NEW r \in Readers
  PROVE  Moves(reader[r], Disturbed(by, others)[r])
<1>1. UpToDate(reader[r], entries)
  BY DEF Informed
<1> PICK x, y : x = reader[r] /\ y = Disturbed(by, others)[r]
  OBVIOUS
<1>2. CASE x.pc = "claims"
  <2>1. PICK T, F, D : x \in AtClaims(T, F, D)
    BY <1>1, <1>2 DEF UpToDate, Holds
  <2>2. PICK G : G = D \cup {by}
    OBVIOUS
  <2>3. x \in [pc : {"claims"}, tab : T, entries : F, disturbed : G]
    BY <2>1, <2>2 DEF AtClaims
  <2>4. y.pc = x.pc /\ y.tab = x.tab /\ y.entries = x.entries
    BY <1>2, <2>2, <2>3 DEF Disturbed
  <2> QED BY <1>2, <2>4 DEF Moves
<1>3. CASE x.pc = "post"
  <2>1. PICK T, F, D, S : x \in AtPost(T, F, D, S)
    BY <1>1, <1>3 DEF UpToDate, Holds
  <2>2. PICK G : G = D \cup {by}
    OBVIOUS
  <2>3. x \in [pc : {"post"}, tab : T, entries : F, disturbed : G, todo : S]
    BY <2>1, <2>2 DEF AtPost
  <2>4. y.pc = x.pc /\ y.tab = x.tab /\ y.entries = x.entries /\ y.todo = x.todo
    BY <1>3, <2>2, <2>3 DEF Disturbed
  <2> QED BY <1>3, <2>4 DEF Moves
<1>4. CASE x.pc \notin {"claims", "post"}
  BY <1>4 DEF Disturbed, Reading, Moves
<1> QED BY <1>2, <1>3, <1>4

LEMMA TodoLess ==
  ASSUME Informed, NEW r \in Readers, reader[r].pc = "post", NEW todo,
         todo \subseteq reader[r].todo, NEW y, y = [reader[r] EXCEPT !.todo = todo]
  PROVE  Moves(reader[r], y)
<1>1. UpToDate(reader[r], entries)
  BY DEF Informed
<1> PICK x : x = reader[r]
  OBVIOUS
<1>2. PICK T, F, D, S : x \in AtPost(T, F, D, S)
  BY <1>1 DEF UpToDate, Holds
<1>3. PICK G : G = S \cup {todo}
  OBVIOUS
<1>4. x \in [pc : {"post"}, tab : T, entries : F, disturbed : D, todo : G]
  BY <1>2, <1>3 DEF AtPost
<1>5. y.todo = todo /\ y.pc = x.pc /\ y.tab = x.tab /\ y.entries = x.entries
  BY <1>4
<1> QED BY <1>5 DEF Moves

LEMMA NextMoves ==
  ASSUME Informed, [Next]_vars, NEW k \in Readers
  PROVE  Moves(reader[k], reader'[k])
<1>1. CASE UNCHANGED reader
  BY <1>1 DEF Moves, Informed, UpToDate, Holds
<1>2. CASE \/ PostCharge \/ PostPayment \/ PostAdjustment
           \/ PostFee \/ RecordBankLine \/ ConfirmMatch \/ Undo
  <2>1. reader' = Disturbed("person", Readers)
    BY <1>2 DEF PostCharge, PostPayment, PostAdjustment,
                PostFee, RecordBankLine, ConfirmMatch, Undo, Post
  <2> QED BY <2>1, DisturbedIsSame
<1>3. CASE \E r \in Readers : AccrueInterest(r)
  <2>1. PICK r \in Readers : AccrueInterest(r)
    BY <1>3
  <2>2. CASE ReadTab(r)
    BY <2>2 DEF ReadTab, Informed, Moves
  <2>3. CASE ReadEntries(r)
    BY <2>3 DEF ReadEntries, Informed, Moves
  <2>4. CASE Finish(r) \/ Fail(r)
    BY <2>4 DEF Finish, Fail, Resting, Informed, Moves
  <2>5. CASE ReadClaims(r)
    <3>1. PICK todo : /\ todo \subseteq {Due[n] : n \in DueThrough(Day)}
                      /\ reader' = [reader EXCEPT ![r] =
                           [pc |-> "post", tab |-> reader[r].tab,
                            entries |-> reader[r].entries,
                            disturbed |-> reader[r].disturbed, todo |-> todo]]
      BY <2>5 DEF ReadClaims
    <3>2. CASE k = r
      <4>1. /\ reader'[k].todo = todo /\ reader'[k].tab = reader[k].tab
            /\ reader'[k].entries = reader[k].entries /\ reader'[k].pc = "post"
        BY <3>1, <3>2 DEF Informed
      <4> QED BY <2>5, <3>1, <3>2, <4>1 DEF Moves, ReadClaims
    <3>3. CASE k # r
      BY <3>1, <3>3 DEF Informed, Moves
    <3> QED BY <3>2, <3>3
  <2>6. CASE \E due \in reader[r].todo : PassOver(r, due) \/ Replayed(r, due)
    <3>1. PICK due : PassOver(r, due) \/ Replayed(r, due)
      BY <2>6
    <3>2. PICK todo : todo = reader[r].todo \ {due}
      OBVIOUS
    <3>3. /\ reader[r].pc = "post"
          /\ reader' = [reader EXCEPT ![r].todo = todo]
      BY <3>1, <3>2, Zenon DEF PassOver, Replayed, OldestOf
    <3>4. CASE k = r
      <4>1. reader'[r] = [reader[r] EXCEPT !.todo = todo]
        BY <3>3 DEF Informed
      <4>2. todo \subseteq reader[r].todo
        BY <3>2
      <4> QED BY <3>3, <3>4, <4>1, <4>2, TodoLess
    <3>5. CASE k # r
      BY <3>3, <3>5 DEF Informed, Moves
    <3> QED BY <3>4, <3>5
  <2>7. CASE \E due \in reader[r].todo : PostInterest(r, due)
    <3>1. PICK due : PostInterest(r, due)
      BY <2>7
    <3>2. PICK row : /\ entries' = Append(entries, row)
                     /\ reader' = [Disturbed("reader", Readers \ {r}) EXCEPT
                                      ![r].todo = @ \ {due}, ![r].entries = Append(@, row)]
      BY <3>1 DEF PostInterest
    <3>3. PICK P : P = Disturbed("reader", Readers \ {r})
      OBVIOUS
    <3>4. P = [q \in Readers |-> P[q]] /\ P[r] = reader[r]
      BY <3>3 DEF Disturbed
    <3>5. reader' = [P EXCEPT ![r].todo = @ \ {due}, ![r].entries = Append(@, row)]
      BY <3>2, <3>3, Zenon
    <3>6. CASE k # r
      <4>1. reader'[k] = P[k]
        BY <3>4, <3>5, <3>6
      <4> QED BY <3>3, <4>1, DisturbedIsSame
    <3>7. CASE k = r
      <4>1. UpToDate(reader[r], entries) /\ reader[r].pc = "post"
        BY <3>1 DEF Informed, PostInterest, OldestOf
      <4> PICK x, y : x = reader[r] /\ y = reader'[r]
        OBVIOUS
      <4>2. PICK T, F, D, S : x \in AtPost(T, F, D, S)
        BY <4>1 DEF UpToDate, Holds
      <4>3. PICK es, todo : es = Append(x.entries, row) /\ todo = x.todo \ {due}
        OBVIOUS
      <4>4. PICK H, G : H = F \cup {es} /\ G = S \cup {todo}
        OBVIOUS
      <4>5. x \in [pc : {"post"}, tab : T, entries : H, disturbed : D, todo : G]
        BY <4>2, <4>4 DEF AtPost
      <4>6. P[r] = x
        BY <3>4
      <4>7. y = [[x EXCEPT !.todo = todo] EXCEPT !.entries = es]
        BY <3>4, <3>5, <4>3, <4>5, <4>6
      <4>8. y.pc = "post" /\ y.tab = x.tab /\ y.todo = todo /\ y.entries = es
        BY <4>4, <4>5, <4>7
      <4> QED BY <3>2, <3>7, <4>1, <4>3, <4>8 DEF Moves
    <3> QED BY <3>6, <3>7
  <2> QED BY <2>1, <2>2, <2>3, <2>4, <2>5, <2>6, <2>7 DEF AccrueInterest
<1> QED BY <1>1, <1>2, <1>3 DEF Next, vars, SetTerms, NextDay

LEMMA PeriodicStart == Init => Periodic
BY InformedStart DEF Init, Resting, Periodic

LEMMA NextPeriodic ==
  ASSUME Periodic, [Next]_vars
  PROVE  Periodic'
<1>1. Informed'
  BY NextInforms DEF Periodic
<1>2. \A r \in Readers : Moves(reader[r], reader'[r])
  BY NextMoves DEF Periodic
<1>3. ASSUME NEW r \in Readers, reader'[r].pc = "post"
      PROVE  reader'[r].todo \subseteq DueDateSet
  <2>1. {Due[n] : n \in DueThrough(Day)} \subseteq DueDateSet
    BY DEF DueThrough, DueDateSet
  <2> QED BY <1>2, <1>3, <2>1 DEF Periodic, Moves
<1>4. ASSUME NEW c \in claims' PROVE c.due \in DueDateSet
  <2>1. CASE c \in claims
    BY <2>1 DEF Periodic
  <2>2. CASE c \notin claims
    <3>1. PICK r \in Readers : \E due \in reader[r].todo : PostInterest(r, due) /\ c.due = due
      BY <2>2, OnlyInterestClaims
    <3>2. reader[r].pc = "post" /\ c.due \in reader[r].todo
      BY <3>1 DEF PostInterest, OldestOf
    <3> QED BY <3>2 DEF Periodic
  <2> QED BY <2>1, <2>2
<1> QED BY <1>1, <1>3, <1>4 DEF Periodic

(* Interest on a schedule of months falls due once in each cycle, on the
   anchor's day of the month or on the last day of a month that has no such
   day, whatever months and leap years the schedule runs through: interest is
   claimed for the due dates only, and these are all different
   (schedule/schedule.go, ledger/interest.go). *)
THEOREM InterestDaysKeep ==
  ASSUME Monthly
  PROVE  Spec => []DueDaysKeep
<1>1. Init => Periodic
  BY PeriodicStart
<1>2. Periodic /\ [Next]_vars => Periodic'
  BY NextPeriodic
<1>3. Periodic => DueDaysKeep
  <2> SUFFICES ASSUME Periodic, NEW c \in claims
               PROVE  \E n \in DOMAIN Due :
                        /\ c.due = Due[n]
                        /\ \A m \in DOMAIN Due : Due[m] = c.due => m = n
                        /\ LET d == Period(n).due IN
                             \/ d.day = Schedule.anchor.day
                             \/ /\ d.day = DaysIn(d.year, d.month)
                                /\ d.day < Schedule.anchor.day \/ Schedule.kind = "monthly_last"
    BY DEF DueDaysKeep
  <2>1. PICK n \in DOMAIN Due : c.due = Due[n]
    BY DEF Periodic, DueDateSet
  <2>2. \A m \in DOMAIN Due : Due[m] = c.due => m = n
    BY <2>1, DueOnce
  <2>3. PICK d : d = Period(n).due
    OBVIOUS
  <2>4. \/ d.day = Schedule.anchor.day
        \/ /\ d.day = DaysIn(d.year, d.month)
           /\ d.day < Schedule.anchor.day \/ Schedule.kind = "monthly_last"
    BY <2>3, DueDay
  <2> QED BY <2>1, <2>2, <2>3, <2>4
<1> QED BY <1>1, <1>2, <1>3, PTL DEF Spec

-----------------------------------------------------------------------------
Kinds == {"charge", "payment", "adjustment", "fee", "interest", "reversal"}

Entry == [seq : Nat \ {0}, kind : Kinds, amount : Int, at : Int, reverses : Nat]

(* Some of a tab's entries: no two of them have the same number. *)
Entries(es) ==
  /\ IsFiniteSet(es) /\ es \subseteq Entry
  /\ \A e, f \in es : e.seq = f.seq => e = f

LEMMA SomeEntries ==
  ASSUME NEW S, Entries(S), NEW T \in SUBSET S
  PROVE  Entries(T)
BY FS_Subset DEF Entries

LEMMA LatestIsOne ==
  ASSUME NEW S, Entries(S), NEW T \in SUBSET S, T # {}
  PROVE  Latest(T) \in T
<1> DEFINE G == {U \in SUBSET S : U # {} => \E e \in U : \A f \in U \ {e} : Earlier(f, e)}
<1>1. ASSUME NEW U \in SUBSET S, NEW x \in U, U \ {x} \in G PROVE U \in G
  <2>1. CASE U \ {x} = {}
    BY <2>1
  <2>2. CASE U \ {x} # {}
    <3>1. PICK e \in U \ {x} : \A f \in (U \ {x}) \ {e} : Earlier(f, e)
      BY <1>1, <2>2
    <3>2. \A f \in S : f.seq \in Nat /\ f.at \in Int
      BY DEF Entries, Entry
    <3>3. e.seq # x.seq
      BY <3>1 DEF Entries
    <3>4. Earlier(x, e) \/ Earlier(e, x)
      BY <3>1, <3>2, <3>3 DEF Earlier
    <3>5. CASE Earlier(x, e)
      BY <3>1, <3>5
    <3>6. CASE Earlier(e, x)
      <4>1. ASSUME NEW f \in U \ {x}, f # e PROVE Earlier(f, x)
        <5>1. Earlier(f, e)
          BY <3>1, <4>1
        <5> QED BY <3>1, <3>2, <3>6, <5>1 DEF Earlier
      <4> QED BY <3>6, <4>1
    <3> QED BY <3>4, <3>5, <3>6
  <2> QED BY <2>1, <2>2
<1>2. \A U \in SUBSET S : U \in G
  <2>1. \A U \in SUBSET S : U # {} => \E x \in U : U \ {x} \in G => U \in G
    BY <1>1
  <2>2. {} \in G /\ IsFiniteSet(S)
    BY DEF Entries
  <2> HIDE DEF G
  <2> QED BY <2>1, <2>2, TakeAway
<1> QED BY <1>2 DEF Latest

LEMMA LastRecordedIsOne ==
  ASSUME NEW S, Entries(S), NEW T \in SUBSET S, T # {}
  PROVE  LastRecorded(T) \in T
<1> DEFINE G == {U \in SUBSET S : U # {} => \E e \in U : \A f \in U : f.seq <= e.seq}
<1>0. \A f \in S : f.seq \in Nat
  BY DEF Entries, Entry
<1>1. ASSUME NEW U \in SUBSET S, NEW x \in U, U \ {x} \in G PROVE U \in G
  <2>1. CASE U \ {x} = {}
    BY <1>0, <2>1
  <2>2. CASE U \ {x} # {}
    <3>1. PICK e \in U \ {x} : \A f \in U \ {x} : f.seq <= e.seq
      BY <1>1, <2>2
    <3>2. CASE x.seq <= e.seq
      BY <3>1, <3>2
    <3>3. CASE ~(x.seq <= e.seq)
      <4>1. \A f \in U : f.seq <= x.seq
        BY <1>0, <3>1, <3>3
      <4> QED BY <4>1
    <3> QED BY <3>2, <3>3
  <2> QED BY <2>1, <2>2
<1>2. \A U \in SUBSET S : U \in G
  <2>1. \A U \in SUBSET S : U # {} => \E x \in U : U \ {x} \in G => U \in G
    BY <1>1
  <2>2. {} \in G /\ IsFiniteSet(S)
    BY DEF Entries
  <2> HIDE DEF G
  <2> QED BY <2>1, <2>2, TakeAway
<1> QED BY <1>2 DEF LastRecorded

-----------------------------------------------------------------------------
LoanState ==
  [principal : Int, unpaid : Int, charged : Int, interest : Int, paid : Int, ahead : Int,
   credited : Int]

Billed(a) == a.paid + a.credited - a.charged - a.interest
Standing(a) == a.ahead - Owed(a)

(* What an entry changes of the loan. *)
Share(e) == IF e.kind = "fee" THEN 0 ELSE e.amount

(* What an amount that is spent leaves of a loan, s of it on interest and t on
   principal. *)
Shows(a, p, u, c, i, q, h, d) ==
  a = [principal |-> p, unpaid |-> u, charged |-> c, interest |-> i, paid |-> q, ahead |-> h, credited |-> d]

LEMMA Spending ==
  ASSUME NEW p, NEW u, NEW c, NEW i, NEW q, NEW h, NEW d, NEW n, NEW s, NEW t,
         NEW a, Shows(a, p, u, c, i, q, h, d)
  PROVE  \A b : b = [a EXCEPT !.unpaid = @ - s, !.principal = @ - t, !.ahead = @ + n - s - t]
               => Shows(b, p - t, u - s, c, i, q, h + n - s - t, d)
<1> TAKE b
<1>1. HAVE b = [a EXCEPT !.unpaid = @ - s, !.principal = @ - t, !.ahead = @ + n - s - t]
<1>2. /\ b.unpaid = u - s /\ b.principal = p - t /\ b.ahead = h + n - s - t /\ b.charged = c
      /\ b.interest = i /\ b.paid = q /\ b.credited = d
  BY <1>1 DEF Shows
<1>3. Shows(b, b.principal, b.unpaid, b.charged, b.interest, b.paid, b.ahead, b.credited)
  BY <1>1 DEF Shows
<1> QED BY <1>1, <1>2, <1>3 DEF Shows

LEMMA SpentOnInterest ==
  ASSUME NEW p, NEW u, NEW c, NEW i, NEW q, NEW h, NEW d, NEW n, NEW s, NEW t,
         NEW a, Shows(a, p, u, c, i, q, h, d),
         s = Lesser(n, u), t = Lesser(n - s, p)
  PROVE  Shows(Apply(a, n), p - t, u - s, c, i, q, h + n - s - t, d)
<1>1. s = Lesser(n, a.unpaid) /\ t = Lesser(n - s, a.principal)
  BY DEF Shows
<1>2. PICK b : b = Apply(a, n)
  OBVIOUS
<1>3. b = [a EXCEPT !.unpaid = @ - s, !.principal = @ - t, !.ahead = @ + n - s - t]
  BY <1>1, <1>2, Zenon DEF Apply
<1>4. Shows(b, p - t, u - s, c, i, q, h + n - s - t, d)
  BY <1>3, Spending
<1> QED BY <1>2, <1>4

LEMMA SpentOnPrincipal ==
  ASSUME NEW p, NEW u, NEW c, NEW i, NEW q, NEW h, NEW d, NEW n, NEW s, NEW t,
         NEW a, Shows(a, p, u, c, i, q, h, d),
         t = Lesser(n, p), s = Lesser(n - t, u)
  PROVE  Shows(ApplyPrincipalFirst(a, n), p - t, u - s, c, i, q, h + n - s - t, d)
<1>1. t = Lesser(n, a.principal) /\ s = Lesser(n - t, a.unpaid)
  BY DEF Shows
<1>2. PICK b : b = ApplyPrincipalFirst(a, n)
  OBVIOUS
<1>3. b = [a EXCEPT !.unpaid = @ - s, !.principal = @ - t, !.ahead = @ + n - s - t]
  BY <1>1, <1>2, Zenon DEF ApplyPrincipalFirst
<1>4. Shows(b, p - t, u - s, c, i, q, h + n - s - t, d)
  BY <1>3, Spending
<1> QED BY <1>2, <1>4

LEMMA ReplayKeeps ==
  ASSUME NEW a \in LoanState, NEW e \in Entry, e.kind # "reversal"
  PROVE  /\ Replay(a, e) \in LoanState
         /\ Billed(Replay(a, e)) = Billed(a) + Share(e)
         /\ Standing(Replay(a, e)) = Standing(a) + Share(e)
<1>1. PICK n \in Int : n = e.amount
  BY DEF Entry
<1>2. PICK p \in Int, u \in Int, c \in Int, i \in Int, q \in Int, h \in Int, d \in Int :
        a = [principal |-> p, unpaid |-> u, charged |-> c, interest |-> i, paid |-> q,
             ahead |-> h, credited |-> d]
  BY DEF LoanState
<1>3. Billed(a) = q + d - c - i /\ Standing(a) = h - (p + u)
  BY <1>2 DEF Billed, Standing, Owed
<1>4. \A x, y \in Int : Lesser(x, y) \in Int
  BY DEF Lesser
<1>5. CASE e.kind = "interest"
  <2>1. Replay(a, e) = [a EXCEPT !.interest = @ - n, !.unpaid = @ - n]
    BY <1>1, <1>5, Zenon DEF Replay
  <2>2. Replay(a, e) = [principal |-> p, unpaid |-> u - n, charged |-> c, interest |-> i - n,
                        paid |-> q, ahead |-> h, credited |-> d]
    BY <1>2, <2>1
  <2>3. u - n \in Int /\ i - n \in Int /\ Share(e) = n
    BY <1>1, <1>5 DEF Share
  <2> QED BY <1>3, <2>2, <2>3 DEF LoanState, Billed, Standing, Owed
<1>6. CASE e.kind = "charge" \/ (e.kind = "adjustment" /\ e.amount < 0)
  <2>1. e.amount < 0 => ~(e.amount >= 0)
    BY <1>1
  <2>2. Replay(a, e) = [a EXCEPT !.charged = @ - n, !.principal = @ - n]
    <3>1. CASE e.kind = "charge"
      BY <1>1, <3>1, Zenon DEF Replay
    <3>2. CASE e.kind = "adjustment" /\ e.amount < 0
      BY <1>1, <2>1, <3>2, Zenon DEF Replay
    <3> QED BY <1>6, <3>1, <3>2
  <2>3. Replay(a, e) = [principal |-> p - n, unpaid |-> u, charged |-> c - n, interest |-> i,
                        paid |-> q, ahead |-> h, credited |-> d]
    BY <1>2, <2>2
  <2>4. p - n \in Int /\ c - n \in Int /\ Share(e) = n
    BY <1>1, <1>6 DEF Share
  <2> QED BY <1>3, <2>3, <2>4 DEF LoanState, Billed, Standing, Owed
<1>7. CASE e.kind = "payment"
  <2>1. PICK s \in Int : s = Lesser(n, u)
    BY <1>4
  <2>2. PICK t \in Int : t = Lesser(n - s, p)
    BY <1>4
  <2>3. Replay(a, e) = Apply([a EXCEPT !.paid = @ + n], n)
    BY <1>1, <1>7, Zenon DEF Replay
  <2>4. Replay(a, e) = [principal |-> p - t, unpaid |-> u - s, charged |-> c, interest |-> i,
                        paid |-> q + n, ahead |-> h + n - s - t, credited |-> d]
    <3>1. PICK b : b = [principal |-> p, unpaid |-> u, charged |-> c, interest |-> i, paid |-> q + n,
                        ahead |-> h, credited |-> d]
      OBVIOUS
    <3>2. b = [a EXCEPT !.paid = @ + n] /\ q + n \in Int
      BY <1>1, <1>2, <3>1
    <3>3. Shows(b, p, u, c, i, q + n, h, d)
      BY <3>1 DEF Shows
    <3>4. Shows(Apply(b, n), p - t, u - s, c, i, q + n, h + n - s - t, d)
      BY <1>1, <1>2, <2>1, <2>2, <3>2, <3>3, SpentOnInterest, Zenon
    <3> QED BY <2>3, <3>2, <3>4, Zenon DEF Shows
  <2>5. p - t \in Int /\ u - s \in Int /\ q + n \in Int /\ h + n - s - t \in Int /\ Share(e) = n
    BY <1>1, <1>7 DEF Share
  <2>6. Billed(Replay(a, e)) = (q + n) + d - c - i
    BY <2>4, <2>5 DEF LoanState, Billed, Standing, Owed
  <2>7. Standing(Replay(a, e)) = h + n - s - t - ((p - t) + (u - s))
    BY <2>4, <2>5 DEF LoanState, Billed, Standing, Owed
  <2> QED BY <1>3, <2>4, <2>5, <2>6, <2>7 DEF LoanState, Billed, Standing, Owed
<1>8. CASE e.kind = "adjustment" /\ e.amount >= 0
  <2>1. PICK t \in Int : t = Lesser(n, p)
    BY <1>4
  <2>2. PICK s \in Int : s = Lesser(n - t, u)
    BY <1>4
  <2>3. ~(e.amount < 0)
    BY <1>1, <1>8
  <2>4. Replay(a, e) = ApplyPrincipalFirst([a EXCEPT !.credited = @ + n], n)
    BY <1>1, <1>8, <2>3, Zenon DEF Replay
  <2>5. Replay(a, e) = [principal |-> p - t, unpaid |-> u - s, charged |-> c, interest |-> i,
                        paid |-> q, ahead |-> h + n - s - t, credited |-> d + n]
    <3>1. PICK b : b = [principal |-> p, unpaid |-> u, charged |-> c, interest |-> i, paid |-> q,
                        ahead |-> h, credited |-> d + n]
      OBVIOUS
    <3>2. b = [a EXCEPT !.credited = @ + n] /\ d + n \in Int
      BY <1>1, <1>2, <3>1
    <3>3. s \in Int /\ t \in Int
      BY <2>1, <2>2
    <3>4. Shows(b, p, u, c, i, q, h, d + n)
      BY <3>1 DEF Shows
    <3>5. Shows(ApplyPrincipalFirst(b, n), p - t, u - s, c, i, q, h + n - s - t, d + n)
      <4>1. p \in Int /\ u \in Int /\ c \in Int /\ i \in Int /\ q \in Int /\ h \in Int /\ d + n \in Int
        BY <1>2, <3>2
      <4> QED BY <1>1, <2>1, <2>2, <3>3, <3>4, <4>1, SpentOnPrincipal, Zenon
    <3> QED BY <2>4, <3>2, <3>5, Zenon DEF Shows
  <2>6. p - t \in Int /\ u - s \in Int /\ d + n \in Int /\ h + n - s - t \in Int /\ Share(e) = n
    BY <1>1, <1>8 DEF Share
  <2>7. Billed(Replay(a, e)) = q + (d + n) - c - i
    BY <2>5, <2>6 DEF LoanState, Billed, Standing, Owed
  <2>8. Standing(Replay(a, e)) = h + n - s - t - ((p - t) + (u - s))
    BY <2>5, <2>6 DEF LoanState, Billed, Standing, Owed
  <2> QED BY <1>3, <2>5, <2>6, <2>7, <2>8 DEF LoanState, Billed, Standing, Owed
<1>9. CASE e.kind = "fee"
  <2>1. Replay(a, e) = a /\ Share(e) = 0
    BY <1>9, Zenon DEF Replay, Share
  <2> QED BY <1>3, <2>1
<1>10. e.kind \in {"charge", "payment", "adjustment", "fee", "interest"} /\ (e.amount < 0 \/ e.amount >= 0)
  BY <1>1 DEF Entry, Kinds
<1> QED BY <1>5, <1>6, <1>7, <1>8, <1>9, <1>10

-----------------------------------------------------------------------------
LEMMA SumOfEntries ==
  ASSUME NEW S, Entries(S)
  PROVE  /\ SumOf(S) \in Int /\ SumOf({}) = 0
         /\ \A x \in S : SumOf(S) = x.amount + SumOf(S \ {x})
         /\ \A T \in SUBSET S : SumOf(S) = SumOf(T) + SumOf(S \ T)
<1>1. PICK w : w = [e \in S |-> e.amount]
  OBVIOUS
<1>2. \A e \in S : w[e] \in Int
  BY <1>1 DEF Entries, Entry
<1>3. \A T \in SUBSET S : SumOf(T) = SumFunction([e \in T |-> w[e]])
  <2> TAKE T \in SUBSET S
  <2>1. [e \in T |-> e.amount] = [e \in T |-> w[e]]
    BY <1>1
  <2> QED BY <2>1 DEF SumOf
<1>4. IsFiniteSet(S) /\ S \in SUBSET S /\ {} \in SUBSET S
  BY DEF Entries
<1>5. SumOf(S) \in Int
  <2>1. SumFunction([x \in S |-> w[x]]) \in Int
    BY <1>2, <1>4, SumIsInt
  <2> QED BY <1>3, <1>4, <2>1
<1>6. SumOf({}) = 0
  <2>1. [e \in {} |-> w[e]] = [e \in {} |-> e]
    OBVIOUS
  <2> QED BY <1>3, <1>4, <2>1, SumOfNone
<1>7. ASSUME NEW x \in S PROVE SumOf(S) = x.amount + SumOf(S \ {x})
  <2>1. S \ {x} \in SUBSET S /\ w[x] = x.amount
    BY <1>1
  <2>2. SumFunction([y \in S |-> w[y]]) = w[x] + SumFunction([y \in S \ {x} |-> w[y]])
    BY <1>2, <1>4, SumGrows
  <2> QED BY <1>3, <1>4, <2>1, <2>2
<1>8. ASSUME NEW T \in SUBSET S PROVE SumOf(S) = SumOf(T) + SumOf(S \ T)
  <2>1. S \ T \in SUBSET S
    OBVIOUS
  <2>2. SumFunction([x \in S |-> w[x]])
          = SumFunction([x \in T |-> w[x]]) + SumFunction([x \in S \ T |-> w[x]])
    BY <1>2, <1>4, SumSplits
  <2> QED BY <1>3, <1>4, <2>1, <2>2
<1> QED BY <1>5, <1>6, <1>7, <1>8

FeesIn(es) == {e \in es : e.kind = "fee"}

LEMMA FeesOfPart ==
  ASSUME NEW S, Entries(S), NEW x \in S, NEW T, T = S \ {x}
  PROVE  SumOf(S) - SumOf(FeesIn(S)) = (SumOf(T) - SumOf(FeesIn(T))) + Share(x)
<1>1. Entries(T) /\ Entries(FeesIn(S)) /\ Entries(FeesIn(T))
  BY SomeEntries DEF FeesIn
<1>2. PICK a \in Int, b \in Int, c \in Int, n \in Int :
        a = SumOf(T) /\ b = SumOf(FeesIn(T)) /\ c = SumOf(FeesIn(S)) /\ n = x.amount
  BY <1>1, SumOfEntries DEF Entries, Entry
<1>3. SumOf(S) = n + a
  BY <1>2, SumOfEntries
<1>4. CASE x.kind = "fee"
  <2>1. x \in FeesIn(S) /\ FeesIn(S) \ {x} = FeesIn(T)
    BY <1>4 DEF FeesIn
  <2>2. SumOf(FeesIn(S)) = x.amount + SumOf(FeesIn(S) \ {x})
    BY <1>1, <2>1, SumOfEntries
  <2>3. c = n + b
    BY <1>2, <2>1, <2>2
  <2> QED BY <1>2, <1>3, <1>4, <2>3 DEF Share
<1>5. CASE x.kind # "fee"
  <2>1. FeesIn(S) = FeesIn(T)
    BY <1>5 DEF FeesIn
  <2> QED BY <1>2, <1>3, <1>5, <2>1 DEF Share
<1> QED BY <1>4, <1>5

(* The recursion by which the entries are replayed. *)
ReplaysBy(f, S) ==
  /\ f[{}] = Untouched
  /\ \A T \in SUBSET S : T # {} => f[T] = Replay(f[T \ {Latest(T)}], Latest(T))

LEMMA Replays ==
  ASSUME NEW es, NEW asOf, NEW S, S = AsOf(Live(es), asOf), Entries(S),
         \A e \in S : e.kind # "reversal"
  PROVE  \E f : ReplaysBy(f, S) /\ AllocateLoan(es, asOf) = f[S]
<1> DEFINE Step(g) == [T \in SUBSET S |->
             IF T = {} THEN Untouched
             ELSE LET last == Latest(T) IN Replay(g[T \ {last}], last)]
           iter == CHOOSE g : g = Step(g)
<1>1. AllocateLoan(es, asOf) = iter[S]
  BY DEF AllocateLoan
<1>2. \E g : g = Step(g)
  <2>1. PICK pick : pick = [T \in SUBSET S |-> Latest(T)]
    OBVIOUS
  <2>2. Picks(pick, S)
    BY <2>1, LatestIsOne DEF Picks
  <2>3. PICK step : step = [p \in LoanState \X S |-> Replay(p[1], p[2])]
    OBVIOUS
  <2>4. \A v \in LoanState : \A x \in S : step[<<v, x>>] = Replay(v, x) /\ step[<<v, x>>] \in LoanState
    BY <2>3, ReplayKeeps DEF Entries
  <2>5. Untouched \in LoanState /\ Steps(step, S, LoanState) /\ IsFiniteSet(S)
    BY <2>4 DEF Untouched, LoanState, Steps, Entries
  <2>6. PICK f : f \in Recursions(S, pick, LoanState, Untouched, step)
    BY <2>2, <2>5, Recursion
  <2>7. ASSUME NEW T \in SUBSET S
        PROVE  f[T] = IF T = {} THEN Untouched
                      ELSE LET last == Latest(T) IN Replay(f[T \ {last}], last)
    <3>1. CASE T # {}
      <4>1. Latest(T) \in S /\ T \ {Latest(T)} \in SUBSET S
        BY <3>1, LatestIsOne
      <4>2. f[T] = step[<<f[T \ {Latest(T)}], Latest(T)>>]
        BY <2>1, <2>6, <3>1 DEF Recursions
      <4>3. f[T \ {Latest(T)}] \in LoanState
        BY <2>6, <4>1 DEF Recursions
      <4> QED BY <2>4, <3>1, <4>1, <4>2, <4>3
    <3> QED BY <2>6, <3>1 DEF Recursions
  <2>8. f = Step(f)
    BY <2>6, <2>7 DEF Recursions
  <2> QED BY <2>8
<1>3. iter = Step(iter)
  BY <1>2
<1>4. iter[{}] = Untouched
  BY <1>3
<1>5. ASSUME NEW T \in SUBSET S, T # {} PROVE iter[T] = Replay(iter[T \ {Latest(T)}], Latest(T))
  BY <1>3, <1>5
<1> HIDE DEF iter
<1> QED BY <1>1, <1>4, <1>5 DEF ReplaysBy

(* The replay is of numbers, and it loses and invents nothing: what was billed
   and paid, and what stands of it, is the sum of the entries but the fees. *)
LEMMA ReplayIsSum ==
  ASSUME NEW es, NEW asOf, NEW S, S = AsOf(Live(es), asOf), Entries(S),
         \A e \in S : e.kind # "reversal", NEW a, a = AllocateLoan(es, asOf)
  PROVE  /\ a \in LoanState
         /\ Billed(a) = SumOf(S) - SumOf(FeesIn(S))
         /\ Standing(a) = SumOf(S) - SumOf(FeesIn(S))
<1>1. PICK f : ReplaysBy(f, S) /\ a = f[S]
  BY Replays
<1> DEFINE Right(T) == /\ f[T] \in LoanState
                       /\ Billed(f[T]) = SumOf(T) - SumOf(FeesIn(T))
                       /\ Standing(f[T]) = SumOf(T) - SumOf(FeesIn(T))
           G == {T \in SUBSET S : Right(T)}
<1>2. {} \in G
  <2>1. FeesIn({}) = {} /\ SumOf({}) = 0
    BY SumOfEntries DEF FeesIn
  <2>2. Untouched \in LoanState /\ Billed(Untouched) = 0 /\ Standing(Untouched) = 0
    BY DEF Untouched, LoanState, Billed, Standing, Owed
  <2>3. f[{}] = Untouched
    BY <1>1 DEF ReplaysBy
  <2> QED BY <2>1, <2>2, <2>3
<1>3. ASSUME NEW T \in SUBSET S, T # {}, T \ {Latest(T)} \in G PROVE T \in G
  <2>1. PICK x, U : x = Latest(T) /\ U = T \ {x}
    OBVIOUS
  <2>2. x \in T /\ x \in Entry /\ x.kind # "reversal"
    BY <1>3, <2>1, LatestIsOne DEF Entries
  <2>3. f[T] = Replay(f[U], x) /\ Right(U)
    BY <1>1, <1>3, <2>1 DEF ReplaysBy
  <2>4. PICK n \in Int : n = Share(x)
    BY <2>2 DEF Share, Entry
  <2>5. /\ f[T] \in LoanState /\ Billed(f[T]) = Billed(f[U]) + n
        /\ Standing(f[T]) = Standing(f[U]) + n
    BY <2>2, <2>3, <2>4, ReplayKeeps
  <2>6. Entries(T) /\ Entries(U)
    BY <2>1, SomeEntries
  <2>7. SumOf(T) - SumOf(FeesIn(T)) = (SumOf(U) - SumOf(FeesIn(U))) + n
    BY <2>1, <2>2, <2>4, <2>6, FeesOfPart
  <2> QED BY <2>3, <2>5, <2>7
<1>4. \A T \in SUBSET S : T \in G
  <2>1. ASSUME NEW T \in SUBSET S, T # {} PROVE \E x \in T : T \ {x} \in G => T \in G
    BY <1>3, <2>1, LatestIsOne
  <2>2. IsFiniteSet(S)
    BY DEF Entries
  <2> HIDE DEF G
  <2> QED BY <1>2, <2>1, <2>2, TakeAway
<1> QED BY <1>1, <1>4

-----------------------------------------------------------------------------
(* What is left of the credits, and open of the debits, in whole cents. *)
PoolState == [pool : Int, open : Int]

Cover(s, e) ==
  LET take == Lesser(-e.amount, s.pool)
  IN [pool |-> s.pool - take, open |-> s.open - e.amount - take]

LEMMA CoverKeeps ==
  ASSUME NEW s \in PoolState, NEW e \in Entry
  PROVE  /\ Cover(s, e) \in PoolState
         /\ Cover(s, e).pool - Cover(s, e).open = (s.pool - s.open) + e.amount
<1>1. PICK p \in Int, o \in Int, n \in Int : p = s.pool /\ o = s.open /\ n = e.amount
  BY DEF PoolState, Entry
<1>2. PICK k \in Int : k = Lesser(-n, p)
  BY DEF Lesser
<1>3. Cover(s, e) = [pool |-> p - k, open |-> o - n - k]
  BY <1>1, <1>2 DEF Cover
<1> QED BY <1>1, <1>3 DEF PoolState

CoversBy(f, S, pool) ==
  /\ f[{}] = [pool |-> pool, open |-> 0]
  /\ \A T \in SUBSET S : T # {} => f[T] = Cover(f[T \ {LastRecorded(T)}], LastRecorded(T))

LEMMA Covers ==
  ASSUME NEW es, NEW S, S = {e \in Live(es) : e.amount < 0}, Entries(S),
         NEW pool \in Int, pool = SumOf({e \in Live(es) : e.amount > 0})
  PROVE  \E f : CoversBy(f, S, pool) /\ Allocate(es) = f[S]
<1> DEFINE first == [pool |-> pool, open |-> 0]
           Step(g) == [T \in SUBSET S |->
             IF T = {} THEN first
             ELSE LET last == LastRecorded(T)
                      s    == g[T \ {last}]
                      take == Lesser(-last.amount, s.pool)
                  IN [pool |-> s.pool - take, open |-> s.open - last.amount - take]]
           iter == CHOOSE g : g = Step(g)
<1>1. Allocate(es) = iter[S]
  BY DEF Allocate
<1>2. \E g : g = Step(g)
  <2>1. PICK pick : pick = [T \in SUBSET S |-> LastRecorded(T)]
    OBVIOUS
  <2>2. Picks(pick, S)
    BY <2>1, LastRecordedIsOne DEF Picks
  <2>3. PICK step : step = [p \in PoolState \X S |-> Cover(p[1], p[2])]
    OBVIOUS
  <2>4. \A v \in PoolState : \A x \in S : step[<<v, x>>] = Cover(v, x) /\ step[<<v, x>>] \in PoolState
    BY <2>3, CoverKeeps DEF Entries
  <2>5. first \in PoolState /\ Steps(step, S, PoolState) /\ IsFiniteSet(S)
    BY <2>4 DEF PoolState, Steps, Entries
  <2> HIDE DEF first
  <2>6. PICK f : f \in Recursions(S, pick, PoolState, first, step)
    BY <2>2, <2>5, Recursion
  <2>7. ASSUME NEW T \in SUBSET S, T # {} PROVE f[T] = Cover(f[T \ {LastRecorded(T)}], LastRecorded(T))
    <3>1. LastRecorded(T) \in S /\ T \ {LastRecorded(T)} \in SUBSET S
      BY <2>7, LastRecordedIsOne
    <3>2. f[T] = step[<<f[T \ {LastRecorded(T)}], LastRecorded(T)>>]
      BY <2>1, <2>6, <2>7 DEF Recursions
    <3>3. f[T \ {LastRecorded(T)}] \in PoolState
      BY <2>6, <3>1 DEF Recursions
    <3> QED BY <2>4, <3>1, <3>2, <3>3
  <2>8. f = Step(f)
    BY <2>6, <2>7 DEF Recursions, Cover
  <2> QED BY <2>8
<1>3. iter = Step(iter)
  BY <1>2
<1>4. iter[{}] = first
  BY <1>3
<1>5. ASSUME NEW T \in SUBSET S, T # {}
      PROVE  iter[T] = Cover(iter[T \ {LastRecorded(T)}], LastRecorded(T))
  BY <1>3, <1>5 DEF Cover
<1> HIDE DEF iter
<1> QED BY <1>1, <1>4, <1>5 DEF CoversBy

(* Entries of nothing add nothing. *)
LEMMA NothingAdds ==
  ASSUME NEW S, Entries(S), \A e \in S : e.amount = 0
  PROVE  SumOf(S) = 0
<1> DEFINE G == {T \in SUBSET S : SumOf(T) = 0}
<1>1. {} \in G
  BY SumOfEntries
<1>2. ASSUME NEW T \in SUBSET S, NEW x \in T, T \ {x} \in G PROVE T \in G
  <2>1. SumOf(T) = x.amount + SumOf(T \ {x})
    BY SomeEntries, SumOfEntries
  <2> QED BY <1>2, <2>1
<1>3. \A T \in SUBSET S : T \in G
  <2>1. \A T \in SUBSET S : T # {} => \E x \in T : T \ {x} \in G => T \in G
    BY <1>2
  <2>2. IsFiniteSet(S)
    BY DEF Entries
  <2> HIDE DEF G
  <2> QED BY <1>1, <2>1, <2>2, TakeAway
<1> QED BY <1>3

(* Covering the debits one by one leaves the sum of the entries as it was. *)
LEMMA CoverIsSum ==
  ASSUME NEW es, Entries(Live(es)), NEW s, s = Allocate(es)
  PROVE  s.pool - s.open = SumOf(Live(es))
<1> DEFINE credits == {e \in Live(es) : e.amount > 0}
           S == {e \in Live(es) : e.amount < 0}
           rest == Live(es) \ credits
           none == rest \ S
<1>1. /\ Entries(credits) /\ Entries(S) /\ Entries(rest) /\ Entries(none)
      /\ credits \in SUBSET Live(es) /\ S \in SUBSET rest /\ \A e \in none : e.amount = 0
  <2>1. \A e \in Live(es) : e.amount \in Int
    BY DEF Entries, Entry
  <2>2. S \in SUBSET rest /\ \A e \in none : e.amount = 0
    BY <2>1
  <2> QED BY <2>2, SomeEntries
<1>2. PICK pool \in Int : pool = SumOf(credits)
  BY <1>1, SumOfEntries
<1>3. SumOf(Live(es)) = pool + SumOf(S)
  <2>1. SumOf(Live(es)) = SumOf(credits) + SumOf(rest)
    BY <1>1, SumOfEntries
  <2>2. SumOf(rest) = SumOf(S) + SumOf(none)
    BY <1>1, SumOfEntries
  <2>3. SumOf(none) = 0 /\ SumOf(S) \in Int
    BY <1>1, NothingAdds, SumOfEntries
  <2> QED BY <1>2, <2>1, <2>2, <2>3
<1>4. PICK f : CoversBy(f, S, pool) /\ s = f[S]
  BY <1>1, <1>2, Covers
<1> HIDE DEF S, credits, rest, none
<1> DEFINE Right(T) == f[T] \in PoolState /\ f[T].pool - f[T].open = pool + SumOf(T)
           G == {T \in SUBSET S : Right(T)}
<1>5. {} \in G
  <2>1. SumOf({}) = 0
    BY <1>1, SumOfEntries
  <2> QED BY <1>4, <2>1 DEF PoolState, CoversBy
<1>6. ASSUME NEW T \in SUBSET S, T # {}, T \ {LastRecorded(T)} \in G PROVE T \in G
  <2>1. PICK x, U : x = LastRecorded(T) /\ U = T \ {x}
    OBVIOUS
  <2>2. x \in T /\ x \in Entry
    BY <1>1, <1>6, <2>1, LastRecordedIsOne DEF Entries
  <2>3. f[T] = Cover(f[U], x) /\ Right(U)
    BY <1>4, <1>6, <2>1 DEF CoversBy
  <2>4. PICK n \in Int : n = x.amount
    BY <2>2 DEF Entry
  <2>5. f[T] \in PoolState /\ f[T].pool - f[T].open = (f[U].pool - f[U].open) + n
    BY <2>2, <2>3, <2>4, CoverKeeps
  <2>6. Entries(T) /\ Entries(U)
    BY <1>1, <2>1, SomeEntries
  <2>7. SumOf(T) = n + SumOf(U) /\ SumOf(U) \in Int
    BY <2>1, <2>2, <2>4, <2>6, SumOfEntries
  <2> QED BY <2>3, <2>5, <2>7
<1>7. \A T \in SUBSET S : T \in G
  <2>1. ASSUME NEW T \in SUBSET S, T # {} PROVE \E x \in T : T \ {x} \in G => T \in G
    <3>1. LastRecorded(T) \in T
      BY <1>1, <2>1, LastRecordedIsOne
    <3> HIDE DEF G
    <3> QED BY <1>6, <2>1, <3>1
  <2>2. IsFiniteSet(S)
    BY <1>1 DEF Entries
  <2> HIDE DEF G
  <2> QED BY <1>5, <2>1, <2>2, TakeAway
<1> QED BY <1>3, <1>4, <1>7

-----------------------------------------------------------------------------
Dates == {d \in [year : Nat \ {0}, month : 1 .. 12, day : 1 .. 31] : d.day <= DaysIn(d.year, d.month)}

LEMMA TomorrowIsDate ==
  ASSUME NEW d \in Dates
  PROVE  Tomorrow(d) \in Dates
<1>1. PICK y \in Nat \ {0}, m \in 1 .. 12, k \in 1 .. 31 :
        d = [year |-> y, month |-> m, day |-> k] /\ k <= DaysIn(y, m)
  BY DEF Dates
<1>2. PICK l \in 28 .. 31 : l = DaysIn(y, m)
  BY MonthLength
<1>3. CASE k < l
  <2>1. Tomorrow(d) = [d EXCEPT !.day = @ + 1]
    <3>1. d.day < DaysIn(d.year, d.month) /\ d.day # DaysIn(d.year, d.month)
      BY <1>1, <1>2, <1>3
    <3> QED BY <3>1, Zenon DEF Tomorrow
  <2>2. Tomorrow(d) = [year |-> y, month |-> m, day |-> k + 1]
    BY <1>1, <2>1
  <2> QED BY <1>2, <1>3, <2>2 DEF Dates
<1>4. CASE k = l /\ m < 12
  <2>1. ~(k < l)
    BY <1>4
  <2>2. Tomorrow(d) = Date(y, m + 1, 1)
    BY <1>1, <1>2, <1>4, <2>1 DEF Tomorrow
  <2>3. DaysIn(y, m + 1) \in 28 .. 31
    BY MonthLength
  <2> QED BY <1>4, <2>2, <2>3 DEF Dates, Date
<1>5. CASE k = l /\ m = 12
  <2>1. ~(k < l) /\ ~(m < 12)
    BY <1>5
  <2>2. Tomorrow(d) = Date(y + 1, 1, 1)
    BY <1>1, <1>2, <1>5, <2>1 DEF Tomorrow
  <2>3. DaysIn(y + 1, 1) \in 28 .. 31
    BY MonthLength
  <2> QED BY <2>2, <2>3 DEF Dates, Date
<1> QED BY <1>1, <1>2, <1>3, <1>4, <1>5

LEMMA DaysOn ==
  ASSUME NEW d \in Dates, NEW n \in Nat
  PROVE  AddDays(d, n) \in Dates
<1> DEFINE Step(g) == [i \in 0 .. n |-> IF i = 0 THEN d ELSE Tomorrow(g[i - 1])]
           iter == CHOOSE g : g = Step(g)
<1>1. AddDays(d, n) = iter[n]
  BY DEF AddDays
<1>2. \E g : g = Step(g)
  <2>1. PICK step : step = [e \in Dates |-> Tomorrow(e)]
    OBVIOUS
  <2>2. \A e \in Dates : step[e] = Tomorrow(e) /\ step[e] \in Dates
    BY <2>1, TomorrowIsDate
  <2>3. PICK f : f \in Chains(n, Dates, d, step)
    BY <2>2, Iteration
  <2>4. f = Step(f)
    <3>1. f \in [0 .. n -> Dates] /\ f[0] = d /\ \A i \in 1 .. n : f[i] = step[f[i - 1]]
      BY <2>3 DEF Chains
    <3>2. ASSUME NEW i \in 0 .. n PROVE f[i] = IF i = 0 THEN d ELSE Tomorrow(f[i - 1])
      <4>1. CASE i # 0
        <5>1. i \in 1 .. n /\ i - 1 \in 0 .. n
          BY <4>1
        <5> QED BY <2>2, <3>1, <4>1, <5>1
      <4> QED BY <3>1, <4>1
    <3> QED BY <3>1, <3>2
  <2> QED BY <2>4
<1>3. iter = Step(iter)
  BY <1>2
<1> DEFINE G == {i \in Nat : i <= n => iter[i] \in Dates}
<1>4. 0 \in G
  <2>1. 0 \in 0 .. n
    OBVIOUS
  <2>2. iter[0] = d
    BY <1>3, <2>1
  <2> QED BY <2>2
<1>5. ASSUME NEW i \in Nat, i \in G PROVE i + 1 \in G
  <2>1. ASSUME i + 1 <= n PROVE iter[i + 1] \in Dates
    <3>1. i + 1 \in 0 .. n /\ i + 1 # 0 /\ (i + 1) - 1 = i /\ i <= n
      BY <2>1
    <3>2. iter[i + 1] = Tomorrow(iter[i])
      BY <1>3, <3>1
    <3> QED BY <1>5, <3>1, <3>2, TomorrowIsDate
  <2> QED BY <2>1
<1>6. n \in G
  <2>1. \A i \in Nat : i \in G => i + 1 \in G
    BY <1>5
  <2> HIDE DEF G
  <2> QED BY <1>4, <2>1, CountUp
<1> HIDE DEF iter
<1> QED BY <1>1, <1>6

LEMMA DayNumberIsInt ==
  ASSUME NEW d, d.year \in Nat \ {0}, d.month \in 1 .. 12, d.day \in Int
  PROVE  DayNumber(d) \in Int
<1>1. PICK y \in Nat \ {0}, m \in 1 .. 12, k \in Int : y = d.year /\ m = d.month /\ k = d.day
  OBVIOUS
<1>2. YearStart(y) \in Int /\ Before(y, m) \in Int
  BY MonthsAreInts
<1>3. DayNumber(d) = YearStart(y) + Before(y, m) + k
  BY <1>1 DEF DayNumber, YearStart, Before
<1> QED BY <1>2, <1>3

(* A schedule of weeks, where it is not one of months. *)
LEMMA WeeklyElse == Monthly \/ Schedule.kind = "weekly"
<1>1. Schedule.kind \in {"weekly", "biweekly", "monthly_day", "monthly_last"}
  BY ScheduleAssumption DEF Valid
<1>2. ASSUME Schedule.kind = "biweekly" PROVE FALSE
  <2>1. PICK s : s = Schedule
    OBVIOUS
  <2>2. "kind" \in DOMAIN s /\ "billing" \in DOMAIN s /\ "interval" \in DOMAIN s /\ s.kind = "biweekly"
    BY <1>2, <2>1, ScheduleAssumption
  <2>3. s.billing # ""
    BY <2>1, ScheduleAssumption DEF Valid
  <2>4. Normalize(s) = [s EXCEPT !.kind = "weekly", !.interval = 2]
    BY <2>2, <2>3, Zenon DEF Normalize
  <2>5. Normalize(s).kind = "weekly"
    BY <2>2, <2>4
  <2> QED BY <2>1, <2>2, <2>5, ScheduleAssumption
<1> QED BY <1>1, <1>2 DEF Monthly

LEMMA DuesAreInts ==
  ASSUME NEW n \in DOMAIN Due
  PROVE  Due[n] \in Int
<1>1. n \in 0 .. MaxPeriods - 1 /\ Due[n] = DayNumber(Period(n).due)
  BY DEF Due
<1>2. PICK i \in Nat : i = Begins(n) /\ Period(n).due = Nth(i)
  BY <1>1 DEF Period, Begins
<1>3. CASE Monthly
  BY <1>1, <1>2, <1>3, StartsGrow
<1>4. CASE Schedule.kind = "weekly"
  <2>1. PICK e \in Nat \ {0} : e = Every
    BY ScheduleAssumption DEF Every
  <2>2. PICK k \in Nat : k = 7 * e * i
    BY SMT
  <2>3. Schedule.anchor \in Dates
    BY ScheduleAssumption DEF Valid, ValidDate, Dates
  <2>4. Nth(i) = AddDays(Schedule.anchor, k)
    BY <1>4, <2>1, <2>2, Zenon DEF Nth
  <2>5. Nth(i) \in Dates
    BY <2>3, <2>4, DaysOn
  <2> QED BY <1>1, <1>2, <2>5, DayNumberIsInt DEF Dates
<1> QED BY <1>3, <1>4, WeeklyElse

-----------------------------------------------------------------------------
(* A ledger: its entries are numbered as they come, and what was undone cancels
   out. *)
Ledger(es) ==
  /\ es \in Seq(Entry)
  /\ \A i \in 1 .. Len(es) : es[i].seq = i /\ es[i].reverses <= Len(es)
  /\ SumOf(ToSet(es)) = SumOf(Live(es))

(* One in which nothing that stands is of a later day. *)
LedgerOf(es, day) == Ledger(es) /\ \A e \in Live(es) : DayOf(e) <= day

LEMMA ToSetOf ==
  ASSUME NEW T, NEW es \in Seq(T)
  PROVE  /\ ToSet(es) \subseteq T
         /\ \A e \in ToSet(es) : \E i \in 1 .. Len(es) : e = es[i]
         /\ \A i \in 1 .. Len(es) : es[i] \in ToSet(es)
         /\ \A row \in T : ToSet(Append(es, row)) = ToSet(es) \cup {row}
<1>1. DOMAIN es = 1 .. Len(es)
  OBVIOUS
<1>2. ASSUME NEW row \in T PROVE ToSet(Append(es, row)) = ToSet(es) \cup {row}
  <2>1. PICK f : f = Append(es, row)
    OBVIOUS
  <2>2. DOMAIN f = 1 .. Len(es) + 1 /\ f[Len(es) + 1] = row /\ \A i \in 1 .. Len(es) : f[i] = es[i]
    BY <2>1
  <2>3. ASSUME NEW x PROVE x \in ToSet(f) <=> x \in ToSet(es) \cup {row}
    <3>1. ASSUME NEW i \in 1 .. Len(es) + 1, x = f[i] PROVE x \in ToSet(es) \cup {row}
      <4>1. i \in 1 .. Len(es) \/ i = Len(es) + 1
        OBVIOUS
      <4> QED BY <1>1, <2>2, <3>1, <4>1 DEF ToSet
    <3>2. ASSUME NEW i \in 1 .. Len(es), x = es[i] PROVE x \in ToSet(f)
      <4>1. i \in 1 .. Len(es) + 1
        OBVIOUS
      <4> QED BY <2>2, <3>2, <4>1 DEF ToSet
    <3>3. x = row => x \in ToSet(f)
      <4>1. Len(es) + 1 \in 1 .. Len(es) + 1
        OBVIOUS
      <4> QED BY <2>2, <4>1 DEF ToSet
    <3> QED BY <1>1, <2>2, <3>1, <3>2, <3>3 DEF ToSet
  <2> QED BY <2>1, <2>3
<1>3. \A i \in 1 .. Len(es) : es[i] \in ToSet(es) /\ es[i] \in T
  BY <1>1 DEF ToSet
<1>4. \A e \in ToSet(es) : \E i \in 1 .. Len(es) : e = es[i]
  BY <1>1 DEF ToSet
<1>5. ToSet(es) \subseteq T
  BY <1>3, <1>4
<1> QED BY <1>2, <1>3, <1>4, <1>5

LEMMA LedgerEntries ==
  ASSUME NEW es, Ledger(es)
  PROVE  /\ Entries(ToSet(es)) /\ Live(es) \in SUBSET ToSet(es)
         /\ \A e \in ToSet(es) : e.seq \in 1 .. Len(es) /\ e.reverses \in 0 .. Len(es)
<1>1. es \in Seq(Entry)
  BY DEF Ledger
<1>2. IsFiniteSet(ToSet(es))
  <2>1. PICK S : S = 1 .. Len(es)
    OBVIOUS
  <2>2. IsFiniteSet(S)
    BY <1>1, <2>1, FS_Interval
  <2>3. ToSet(es) = {es[i] : i \in S}
    BY <1>1, <2>1 DEF ToSet
  <2> QED BY <2>2, <2>3, ImageOf
<1>3. \A e \in ToSet(es) : \E i \in 1 .. Len(es) : e = es[i] /\ e.seq = i
  BY <1>1, ToSetOf DEF Ledger
<1>4. ToSet(es) \subseteq Entry
  BY <1>1, ToSetOf
<1>5. \A e \in ToSet(es) : e.seq \in 1 .. Len(es) /\ e.reverses \in 0 .. Len(es)
  <2> TAKE e \in ToSet(es)
  <2>1. PICK i \in 1 .. Len(es) : e = es[i] /\ e.seq = i
    BY <1>3
  <2>2. e.reverses \in Nat /\ es[i].reverses <= Len(es)
    BY <1>4 DEF Ledger, Entry
  <2> QED BY <2>1, <2>2
<1> QED BY <1>2, <1>3, <1>4, <1>5 DEF Entries, Live

(* An entry that undoes nothing adds its amount to both sums. *)
LEMMA PlainEntry ==
  ASSUME NEW es, Ledger(es), NEW row \in Entry,
         row.seq = Len(es) + 1, row.reverses = 0, row.kind # "reversal"
  PROVE  Ledger(Append(es, row)) /\ Live(Append(es, row)) = Live(es) \cup {row}
<1>1. PICK f : f = Append(es, row)
  OBVIOUS
<1>2. es \in Seq(Entry) /\ f \in Seq(Entry) /\ Len(f) = Len(es) + 1 /\ Len(es) \in Nat
  BY <1>1 DEF Ledger
<1>3. ToSet(f) = ToSet(es) \cup {row}
  BY <1>1, <1>2, ToSetOf
<1>4. row \notin ToSet(es) /\ row.seq \notin ReversedSeqs(es)
  <2>1. \A e \in ToSet(es) : e.seq # row.seq /\ e.reverses # row.seq
    BY <1>2, LedgerEntries
  <2> QED BY <2>1 DEF ReversedSeqs
<1>5. ReversedSeqs(f) = ReversedSeqs(es)
  BY <1>3 DEF ReversedSeqs
<1>6. Live(f) = Live(es) \cup {row}
  BY <1>3, <1>4, <1>5 DEF Live
<1>7. ASSUME NEW i \in 1 .. Len(f)
      PROVE  f[i].seq = i /\ f[i].reverses <= Len(f)
  <2>1. CASE i = Len(es) + 1
    <3>1. f[i] = row
      BY <1>1, <1>2, <2>1
    <3> QED BY <1>2, <2>1, <3>1
  <2>2. CASE i # Len(es) + 1
    <3>1. i \in 1 .. Len(es) /\ f[i] = es[i] /\ f[i] \in Entry
      BY <1>1, <1>2, <2>2
    <3>2. es[i].seq = i /\ es[i].reverses <= Len(es)
      BY <3>1 DEF Ledger
    <3>3. PICK n \in Nat : n = f[i].reverses
      BY <3>1 DEF Entry
    <3>4. n <= Len(es) => n <= Len(f)
      BY <1>2
    <3> QED BY <3>1, <3>2, <3>3, <3>4
  <2> QED BY <2>1, <2>2
<1>8. Entries(ToSet(f)) /\ Entries(Live(f))
  <2>1. IsFiniteSet(ToSet(f)) /\ ToSet(f) \subseteq Entry
    BY <1>3, LedgerEntries, FS_AddElement DEF Entries
  <2>2. \A e \in ToSet(es) : e.seq # row.seq
    BY <1>2, LedgerEntries
  <2>3. \A e, g \in ToSet(f) : e.seq = g.seq => e = g
    BY <1>3, <2>2, LedgerEntries DEF Entries
  <2>4. Entries(ToSet(f))
    BY <2>1, <2>3 DEF Entries
  <2> QED BY <2>4, SomeEntries DEF Live
<1>9. SumOf(ToSet(f)) = row.amount + SumOf(ToSet(es))
  <2>1. ToSet(f) \ {row} = ToSet(es) /\ row \in ToSet(f)
    BY <1>3, <1>4
  <2>2. SumOf(ToSet(f)) = row.amount + SumOf(ToSet(f) \ {row})
    BY <1>8, <2>1, SumOfEntries
  <2> QED BY <2>1, <2>2
<1>10. SumOf(Live(f)) = row.amount + SumOf(Live(es))
  <2>1. Live(f) \ {row} = Live(es) /\ row \in Live(f)
    BY <1>4, <1>6, LedgerEntries
  <2>2. SumOf(Live(f)) = row.amount + SumOf(Live(f) \ {row})
    BY <1>8, <2>1, SumOfEntries
  <2> QED BY <2>1, <2>2
<1> QED BY <1>1, <1>2, <1>6, <1>7, <1>9, <1>10 DEF Ledger

(* An undo takes the entry it undoes out of the one sum, and adds the opposite
   of it to the other. *)
LEMMA UndoEntry ==
  ASSUME NEW es, Ledger(es), NEW row \in Entry,
         row.seq = Len(es) + 1, row.kind = "reversal",
         NEW e \in Live(es), row.reverses = e.seq, row.amount = -e.amount
  PROVE  Ledger(Append(es, row)) /\ Live(Append(es, row)) = Live(es) \ {e}
<1>1. PICK f : f = Append(es, row)
  OBVIOUS
<1>2. es \in Seq(Entry) /\ f \in Seq(Entry) /\ Len(f) = Len(es) + 1 /\ Len(es) \in Nat
  BY <1>1 DEF Ledger
<1>3. ToSet(f) = ToSet(es) \cup {row}
  BY <1>1, <1>2, ToSetOf
<1>4. row \notin ToSet(es) /\ e \in ToSet(es) /\ e.seq \in 1 .. Len(es)
  <2>1. \A d \in ToSet(es) : d.seq # row.seq
    BY <1>2, LedgerEntries
  <2> QED BY <2>1, LedgerEntries
<1>5. ReversedSeqs(f) = ReversedSeqs(es) \cup {e.seq}
  BY <1>3, <1>4 DEF ReversedSeqs
<1>6. Live(f) = Live(es) \ {e}
  <2>1. \A d \in Live(es) : d.seq = e.seq => d = e
    BY <1>4, LedgerEntries DEF Entries
  <2> QED BY <1>3, <1>5, <2>1 DEF Live
<1>7. ASSUME NEW i \in 1 .. Len(f)
      PROVE  f[i].seq = i /\ f[i].reverses <= Len(f)
  <2>1. CASE i = Len(es) + 1
    <3>1. f[i] = row
      BY <1>1, <1>2, <2>1
    <3> QED BY <1>2, <1>4, <2>1, <3>1
  <2>2. CASE i # Len(es) + 1
    <3>1. i \in 1 .. Len(es) /\ f[i] = es[i] /\ f[i] \in Entry
      BY <1>1, <1>2, <2>2
    <3>2. es[i].seq = i /\ es[i].reverses <= Len(es)
      BY <3>1 DEF Ledger
    <3>3. PICK n \in Nat : n = f[i].reverses
      BY <3>1 DEF Entry
    <3>4. n <= Len(es) => n <= Len(f)
      BY <1>2
    <3> QED BY <3>1, <3>2, <3>3, <3>4
  <2> QED BY <2>1, <2>2
<1>8. Entries(ToSet(f))
  <2>1. IsFiniteSet(ToSet(f)) /\ ToSet(f) \subseteq Entry
    BY <1>3, LedgerEntries, FS_AddElement DEF Entries
  <2>2. \A d \in ToSet(es) : d.seq # row.seq
    BY <1>2, LedgerEntries
  <2>3. \A d, g \in ToSet(f) : d.seq = g.seq => d = g
    BY <1>3, <2>2, LedgerEntries DEF Entries
  <2> QED BY <2>1, <2>3 DEF Entries
<1>9. SumOf(ToSet(f)) = row.amount + SumOf(ToSet(es))
  <2>1. ToSet(f) \ {row} = ToSet(es) /\ row \in ToSet(f)
    BY <1>3, <1>4
  <2>2. SumOf(ToSet(f)) = row.amount + SumOf(ToSet(f) \ {row})
    BY <1>8, <2>1, SumOfEntries
  <2> QED BY <2>1, <2>2
<1>10. SumOf(Live(es)) = e.amount + SumOf(Live(f))
  <2>1. Entries(Live(es))
    BY LedgerEntries, SomeEntries
  <2> QED BY <1>6, <2>1, SumOfEntries
<1>11. SumOf(ToSet(f)) = SumOf(Live(f))
  <2>1. Entries(Live(es)) /\ Entries(Live(f))
    BY <1>6, LedgerEntries, SomeEntries
  <2>2. PICK a \in Int, b \in Int, c \in Int :
          a = e.amount /\ b = SumOf(Live(es)) /\ c = SumOf(Live(f))
    BY <2>1, SumOfEntries DEF Entries, Entry
  <2>3. SumOf(ToSet(es)) = b
    BY <2>2 DEF Ledger
  <2> QED BY <1>9, <1>10, <2>2, <2>3
<1> QED BY <1>1, <1>2, <1>6, <1>7, <1>11 DEF Ledger

LEMMA LaterDay ==
  ASSUME NEW es, NEW day \in Int, NEW later \in Int, day <= later, LedgerOf(es, day)
  PROVE  LedgerOf(es, later)
<1>1. ASSUME NEW e \in Live(es) PROVE DayOf(e) <= later
  <2>1. e \in Entry /\ DayOf(e) <= day
    BY LedgerEntries DEF LedgerOf, Entries
  <2>2. DayOf(e) \in Int
    BY <2>1 DEF DayOf, Entry
  <2> QED BY <2>1, <2>2
<1> QED BY <1>1 DEF LedgerOf

-----------------------------------------------------------------------------
(* What the page, the statements and the sum make of a ledger. *)
(* Fees are posted as of the day. *)
FeesBy(es, day) == \A e \in Live(es) : e.kind = "fee" => DayOf(e) <= day

LEMMA LoanOfLedger ==
  ASSUME NEW es, NEW day \in Int, Ledger(es), FeesBy(es, day),
         NEW a, a = AllocateLoan(es, day),
         NEW ahead, ahead = {e \in Live(es) : DayOf(e) > day}
  PROVE  /\ a \in LoanState
         /\ Billed(a) - FeesOf(es) + SumOf(ahead) = SumOf(ToSet(es))
         /\ Standing(a) - FeesOf(es) + SumOf(ahead) = SumOf(ToSet(es))
         /\ FeesOf(es) \in Int /\ SumOf(ToSet(es)) \in Int /\ SumOf(ahead) \in Int
<1>1. PICK S : S = AsOf(Live(es), day)
  OBVIOUS
<1>2. /\ Entries(ToSet(es)) /\ Entries(Live(es)) /\ Entries(S) /\ Entries(ahead)
      /\ Entries(FeesIn(S)) /\ Live(es) \subseteq ToSet(es) /\ S \in SUBSET Live(es)
  <2>1. Entries(ToSet(es)) /\ Live(es) \in SUBSET ToSet(es)
    BY LedgerEntries
  <2>2. S \in SUBSET ToSet(es) /\ ahead \in SUBSET ToSet(es) /\ S \in SUBSET Live(es)
    BY <1>1, <2>1 DEF AsOf
  <2>3. FeesIn(S) \in SUBSET ToSet(es)
    BY <2>2 DEF FeesIn
  <2> QED BY <2>1, <2>2, <2>3, SomeEntries
<1>3. \A e \in S : e.kind # "reversal"
  BY <1>1 DEF AsOf, Live
<1>4. PICK s \in Int, f \in Int, l \in Int, h \in Int :
        s = SumOf(S) /\ f = SumOf(FeesIn(S)) /\ l = SumOf(Live(es)) /\ h = SumOf(ahead)
  BY <1>2, SumOfEntries
<1>5. a \in LoanState /\ Billed(a) = s - f /\ Standing(a) = s - f
  BY <1>1, <1>2, <1>3, <1>4, ReplayIsSum
<1>6. l = s + h
  <2>1. Live(es) \ S = ahead
    <3>1. \A e \in Live(es) : DayOf(e) \in Int
      BY <1>2 DEF Entries, Entry, DayOf
    <3> QED BY <1>1, <3>1 DEF AsOf
  <2>2. SumOf(Live(es)) = SumOf(S) + SumOf(Live(es) \ S)
    BY <1>2, SumOfEntries
  <2> QED BY <1>4, <2>1, <2>2
<1>7. FeesOf(es) = -f
  <2>1. FeesIn(Live(es)) = FeesIn(S)
    BY <1>1, <1>2 DEF FeesIn, FeesBy, AsOf
  <2> QED BY <1>4, <2>1 DEF FeesOf, FeesIn
<1>8. SumOf(ToSet(es)) = l
  BY <1>4 DEF Ledger
<1> QED BY <1>4, <1>5, <1>6, <1>7, <1>8

LEMMA LedgerIsSum ==
  ASSUME NEW es, NEW day \in Int, Ledger(es), FeesBy(es, day), NEW t,
         NEW a, a = AllocateLoan(es, day), NEW s, s = Allocate(es),
         NEW p, p = ComputePayoff(t, es, day),
         NEW ahead, ahead = {e \in Live(es) : DayOf(e) > day}
  PROVE  /\ p.balance + SumOf(ahead) = SumOf(ToSet(es))
         /\ a.ahead - Owed(a) - FeesOf(es) + SumOf(ahead) = SumOf(ToSet(es))
         /\ s.pool - s.open = SumOf(ToSet(es))
<1>1. /\ Billed(a) - FeesOf(es) + SumOf(ahead) = SumOf(ToSet(es))
      /\ Standing(a) - FeesOf(es) + SumOf(ahead) = SumOf(ToSet(es))
  BY LoanOfLedger
<1>2. s.pool - s.open = SumOf(ToSet(es))
  <2>1. Entries(Live(es))
    BY LedgerEntries, SomeEntries
  <2> QED BY <2>1, CoverIsSum DEF Ledger
<1>3. p.balance = Billed(a) - FeesOf(es)
  <2>1. a \in LoanState
    BY LoanOfLedger
  <2>2. PICK f \in Int : f = FeesOf(es)
    BY LoanOfLedger
  <2>3. PICK q \in Int, c \in Int, d \in Int, i \in Int :
          q = a.paid /\ c = a.credited /\ d = a.charged /\ i = a.interest
    BY <2>1 DEF LoanState
  <2>4. p.balance = q + c - d - i - f
    BY <2>2, <2>3 DEF ComputePayoff
  <2>5. Billed(a) = q + c - d - i
    BY <2>3 DEF Billed
  <2> QED BY <2>2, <2>4, <2>5
<1> QED BY <1>1, <1>2, <1>3 DEF Standing

-----------------------------------------------------------------------------
Tabs == [rate : Nat, term : Nat, payment : Nat]

(* What a reader has read of the tab: some of its entries, and periods that
   are due. *)
Kept(x, es, day) ==
  /\ x.pc \in {"entries", "claims", "post"} => x.tab \in Tabs
  /\ x.pc \in {"claims", "post"} => x.entries \in Seq(Entry) /\ ToSet(x.entries) \subseteq ToSet(es)
  /\ x.pc = "post" => \A due \in x.todo : due \in Int /\ due <= day

Books(es, day) == Ledger(es) /\ FeesBy(es, day)

Booked ==
  /\ Informed
  /\ today \in 1 .. Len(Days) /\ tab \in Tabs
  /\ Books(entries, Day)
  /\ \A r \in Readers : Kept(reader[r], entries, Day)

LEMMA DateIsInt ==
  ASSUME NEW d, ValidDate(d)
  PROVE  DayNumber(d) \in Int
<1>1. DaysIn(d.year, d.month) \in 28 .. 31
  BY MonthLength
<1> QED BY <1>1, DayNumberIsInt DEF ValidDate

LEMMA DayIsInt ==
  ASSUME NEW i \in 1 .. Len(Days)
  PROVE  DayNumber(Days[i]) \in Int
BY DateIsInt, DaysAssumption

LEMMA InterestIsInt ==
  ASSUME NEW balance \in Int, NEW bp \in Nat
  PROVE  InterestFor(balance, bp, RateBasis) \in Int
<1>1. PICK e \in Nat \ {0} : e = Every
  BY ScheduleAssumption DEF Every
<1>2. PICK a \in Nat, b \in Nat \ {0} : RateBasis = <<a, b>>
  BY <1>1 DEF RateBasis
<1>3. PICK d \in Nat \ {0} : d = 10000 * b
  BY <1>2
<1>4. PICK n \in Int : n = balance * bp * a
  <2>1. balance * bp \in Int
    BY SMT
  <2> QED BY <2>1, SMT
<1>5. InterestFor(balance, bp, RateBasis) = (n + d \div 2) \div d
  BY <1>2, <1>3, <1>4 DEF InterestFor
<1> QED BY <1>3, <1>4, <1>5

LEMMA AmountIsInt ==
  ASSUME NEW r, NEW due \in Int, NEW day \in Int, Ledger(entries),
         Kept(reader[r], entries, day), reader[r].pc = "post"
  PROVE  Amount(r, due) \in Int
<1>1. PICK es : es = reader[r].entries /\ es \in Seq(Entry) /\ ToSet(es) \subseteq ToSet(entries)
  BY DEF Kept
<1>2. PICK S : S = AsOf(Live(es), due)
  OBVIOUS
<1>3. Entries(S) /\ \A e \in S : e.kind # "reversal"
  <2>1. S \subseteq ToSet(entries)
    BY <1>1, <1>2 DEF AsOf, Live
  <2>2. Entries(S)
    BY <2>1, LedgerEntries, SomeEntries
  <2> QED BY <1>2, <2>2 DEF AsOf, Live
<1>4. AllocateLoan(es, due) \in LoanState
  BY <1>2, <1>3, ReplayIsSum
<1>5. Base(r, due) \in Int
  BY <1>1, <1>4 DEF Base, LoanState
<1>6. reader[r].tab.rate \in Nat
  BY DEF Kept, Tabs
<1> QED BY <1>5, <1>6, InterestIsInt DEF Amount

LEMMA BookedStart == Init => Booked
<1> SUFFICES ASSUME Init PROVE Booked
  OBVIOUS
<1>1. Informed
  BY InformedStart
<1>2. today \in 1 .. Len(Days) /\ tab \in Tabs /\ Len(Days) \in Nat
  BY DaysAssumption, TermsAssumption DEF Init, Tabs
<1>3. PICK day \in Int : day = Day
  BY <1>2, DayIsInt DEF Day
<1>4. PICK row : /\ row = [seq |-> 1, kind |-> "charge", amount |-> -Opening, at |-> 4 * day + 1,
                           reverses |-> 0]
                 /\ entries = <<row>>
  BY <1>3 DEF Init, Midnight
<1>5. row \in Entry
  BY <1>4, AmountsAssumption DEF Entry, Kinds
<1>6. <<>> \in Seq(Entry) /\ Len(<<>>) = 0 /\ 1 .. 0 = {} /\ ToSet(<<>>) = {}
  BY DEF ToSet
<1>7. Ledger(<<>>) /\ Live(<<>>) = {}
  <2>1. Live(<<>>) = {}
    BY <1>6 DEF Live
  <2> QED BY <1>6, <2>1 DEF Ledger
<1>8. entries = Append(<<>>, row)
  BY <1>4
<1>9. Books(entries, Day)
  <2>1. row.seq = Len(<<>>) + 1 /\ row.reverses = 0 /\ row.kind = "charge"
    BY <1>4, <1>6
  <2>2. /\ Ledger(Append(<<>>, row))
        /\ Live(Append(<<>>, row)) = Live(<<>>) \cup {row}
    BY <1>5, <1>7, <2>1, PlainEntry, Zenon
  <2> QED BY <1>7, <1>8, <2>1, <2>2 DEF Books, FeesBy
<1>10. \A r \in Readers : Kept(reader[r], entries, Day)
  BY DEF Init, Resting, Kept
<1> QED BY <1>1, <1>2, <1>9, <1>10 DEF Booked

(* A day does not come before the one it follows. *)
LEMMA DaysPass ==
  ASSUME Booked, [Next]_vars
  PROVE  today' \in 1 .. Len(Days) /\ Day \in Int /\ Day' \in Int /\ Day <= Day'
<1>1. today \in 1 .. Len(Days) /\ Len(Days) \in Nat
  BY DaysAssumption DEF Booked
<1>2. CASE NextDay
  <2>1. PICK i \in 1 .. Len(Days), j \in 1 .. Len(Days) : i = today /\ j = today' /\ i <= j
    BY <1>1, <1>2 DEF NextDay
  <2>2. Day = DayNumber(Days[i]) /\ Day' = DayNumber(Days[j])
    BY <2>1 DEF Day
  <2> QED BY <2>1, <2>2, DayIsInt, DaysAssumption
<1>3. CASE UNCHANGED today
  BY <1>1, <1>3, DayIsInt DEF Day
<1>4. NextDay \/ UNCHANGED today
  BY DEF vars, Next, SetTerms, Post, PostCharge, PostPayment, PostAdjustment, PostFee,
    RecordBankLine, ConfirmMatch, Undo, AccrueInterest, ReadTab, ReadEntries, ReadClaims,
    Finish, Fail, PassOver, PostInterest, Replayed
<1> QED BY <1>2, <1>3, <1>4

LEMMA TermsStay ==
  ASSUME Booked, [Next]_vars
  PROVE  tab' \in Tabs
<1>1. CASE SetTerms
  BY <1>1, TermsAssumption DEF SetTerms, Booked, Tabs
<1>2. CASE UNCHANGED tab
  BY <1>2 DEF Booked
<1>3. SetTerms \/ UNCHANGED tab
  BY DEF vars, Next, NextDay, Post, PostCharge, PostPayment, PostAdjustment, PostFee,
    RecordBankLine, ConfirmMatch, Undo, AccrueInterest, ReadTab, ReadEntries, ReadClaims,
    Finish, Fail, PassOver, PostInterest, Replayed
<1> QED BY <1>1, <1>2, <1>3

(* What is posted, dated as it may be. *)
LEMMA PostedPlain ==
  ASSUME Booked, NEW kind \in Kinds \ {"reversal"}, NEW amount \in Int \ {0}, NEW at \in Int,
         kind = "fee" => at = Midnight(Day), NEW row, row = Row(kind, amount, at, 0)
  PROVE  Books(Append(entries, row), Day)
<1>1. PICK day \in Int : day = Day
  BY DayIsInt DEF Booked, Day
<1>2. Ledger(entries) /\ FeesBy(entries, day) /\ Len(entries) \in Nat
  BY <1>1 DEF Booked, Books, Ledger
<1>3. row = [seq |-> Len(entries) + 1, kind |-> kind, amount |-> amount, at |-> at, reverses |-> 0]
  BY DEF Row
<1>4. row \in Entry
  BY <1>2, <1>3 DEF Entry
<1>5. row.kind = "fee" => DayOf(row) <= day
  <2>1. ASSUME kind = "fee" PROVE at \div 4 <= day
    <3>1. at = 4 * day
      BY <1>1, <2>1 DEF Midnight
    <3> QED BY <3>1
  <2> QED BY <1>3, <2>1 DEF DayOf
<1>6. Ledger(Append(entries, row)) /\ Live(Append(entries, row)) = Live(entries) \cup {row}
  BY <1>2, <1>3, <1>4, PlainEntry
<1> QED BY <1>1, <1>2, <1>5, <1>6 DEF Books, FeesBy

(* The times of a day. *)
LEMMA NowIsInt ==
  ASSUME Booked
  PROVE  /\ \A now \in Now : now \in Int
         /\ \A d \in BankDates : Noon(DayNumber(d)) \in Int
<1>1. PICK day \in Int : day = Day
  BY DayIsInt DEF Booked, Day
<1>2. \A h \in Hours : h \in Int
  BY DaysAssumption
<1>3. \A now \in Now : now \in Int
  BY <1>1, <1>2 DEF Now, Midnight
<1>4. \A d \in BankDates : DayNumber(d) \in Int
  BY BankAssumption, DateIsInt
<1> QED BY <1>3, <1>4 DEF Noon, Midnight

LEMMA LedgerGoesOn ==
  ASSUME Booked, [Next]_vars
  PROVE  Books(entries', Day)
<1>1. /\ Books(entries, Day) /\ Ledger(entries)
      /\ Day \in Int /\ Midnight(Day) \in Int
  BY DayIsInt DEF Booked, Books, Day, Midnight
<1>2. CASE UNCHANGED entries
  BY <1>1, <1>2
<1>3. CASE PostCharge
  <2>1. PICK a \in Charges, now \in Now : entries' = Append(entries, Row("charge", -a, now, 0))
    BY <1>3 DEF PostCharge, Post
  <2>2. -a \in Int \ {0}
    BY AmountsAssumption
  <2>3. now \in Int
    BY NowIsInt
  <2> QED BY <2>1, <2>2, <2>3, PostedPlain DEF Kinds
<1>4. CASE PostPayment
  <2>1. PICK a \in Payments, now \in Now : entries' = Append(entries, Row("payment", a, now, 0))
    BY <1>4 DEF PostPayment, Post
  <2>2. a \in Int \ {0}
    BY AmountsAssumption
  <2>3. now \in Int
    BY NowIsInt
  <2> QED BY <2>1, <2>2, <2>3, PostedPlain DEF Kinds
<1>5. CASE PostAdjustment
  <2>1. PICK a \in Adjustments, now \in Now :
          entries' = Append(entries, Row("adjustment", a, now, 0))
    BY <1>5 DEF PostAdjustment, Post
  <2>2. a \in Int \ {0}
    BY AmountsAssumption
  <2>3. now \in Int
    BY NowIsInt
  <2> QED BY <2>1, <2>2, <2>3, PostedPlain DEF Kinds
<1>6. CASE PostFee
  <2>1. PICK a \in Fees : entries' = Append(entries, Row("fee", -a, Midnight(Day), 0))
    BY <1>6 DEF PostFee, Post
  <2>2. -a \in Int \ {0}
    BY AmountsAssumption
  <2> QED BY <1>1, <2>1, <2>2, PostedPlain DEF Kinds
<1>7. CASE RecordBankLine
  <2>1. PICK a \in Payments, d \in BankDates :
          entries' = Append(entries, Row("payment", a, Noon(DayNumber(d)), 0))
    BY <1>7 DEF RecordBankLine, Post
  <2>2. a \in Int \ {0}
    BY AmountsAssumption
  <2>3. Noon(DayNumber(d)) \in Int
    BY NowIsInt
  <2> QED BY <2>1, <2>2, <2>3, PostedPlain DEF Kinds
<1>8. CASE ConfirmMatch
  <2>1. PICK a \in Differences, d \in BankDates :
          entries' = Append(entries, Row(IF a > 0 THEN "payment" ELSE "adjustment", a,
                                         Noon(DayNumber(d)), 0))
    BY <1>8 DEF ConfirmMatch, Post
  <2>2. a \in Int \ {0}
    BY AmountsAssumption
  <2>3. Noon(DayNumber(d)) \in Int
    BY NowIsInt
  <2>4. PICK kind \in {"payment", "adjustment"} : kind = IF a > 0 THEN "payment" ELSE "adjustment"
    OBVIOUS
  <2>5. entries' = Append(entries, Row(kind, a, Noon(DayNumber(d)), 0))
    BY <2>1, <2>4
  <2> QED BY <2>2, <2>3, <2>5, PostedPlain DEF Kinds
<1>9. CASE Undo
  <2>1. PICK e \in Live(entries), now \in Now :
          entries' = Append(entries, Row("reversal", -e.amount, now, e.seq))
    BY <1>9 DEF Undo, Post
  <2>2. e \in Entry
    BY <1>1, LedgerEntries DEF Entries
  <2>3. PICK n \in Int, q \in Nat \ {0} : n = e.amount /\ q = e.seq
    BY <2>2 DEF Entry
  <2>4. PICK row : row = [seq |-> Len(entries) + 1, kind |-> "reversal", amount |-> -n,
                          at |-> now, reverses |-> q]
    OBVIOUS
  <2>5. entries' = Append(entries, row)
    BY <2>1, <2>3, <2>4 DEF Row
  <2>6. Len(entries) \in Nat /\ now \in Int
    BY <1>1, NowIsInt DEF Ledger
  <2>7. row \in Entry
    BY <2>4, <2>6 DEF Entry, Kinds
  <2>8. Ledger(entries') /\ Live(entries') = Live(entries) \ {e}
    BY <1>1, <2>3, <2>4, <2>5, <2>7, UndoEntry
  <2> QED BY <1>1, <2>8 DEF Books, FeesBy
<1>10. CASE \E r \in Readers : \E due \in reader[r].todo : PostInterest(r, due)
  <2>1. PICK r \in Readers : \E due \in reader[r].todo : PostInterest(r, due)
    BY <1>10
  <2>2. PICK due \in reader[r].todo : PostInterest(r, due)
    BY <2>1
  <2>3. /\ reader[r].pc = "post" /\ Amount(r, due) > 0
        /\ entries' = Append(entries, Row("interest", -Amount(r, due), Midnight(due), 0))
    BY <2>2 DEF PostInterest, OldestOf
  <2>4. Kept(reader[r], entries, Day)
    BY DEF Booked
  <2>5. due \in Int
    BY <2>3, <2>4 DEF Kept
  <2>6. Amount(r, due) \in Int
    BY <1>1, <2>3, <2>4, <2>5, AmountIsInt
  <2>7. -Amount(r, due) \in Int \ {0} /\ Midnight(due) \in Int
    BY <2>3, <2>5, <2>6 DEF Midnight
  <2> QED BY <2>3, <2>7, PostedPlain DEF Kinds
<1>11. \/ PostCharge \/ PostPayment \/ PostAdjustment \/ PostFee
       \/ RecordBankLine \/ ConfirmMatch \/ Undo
       \/ UNCHANGED entries
       \/ \E r \in Readers : \E due \in reader[r].todo : PostInterest(r, due)
  BY DEF vars, Next, SetTerms, NextDay, AccrueInterest, ReadTab, ReadEntries, ReadClaims,
    Finish, Fail, PassOver, Replayed
<1> QED BY <1>2, <1>3, <1>4, <1>5, <1>6, <1>7, <1>8, <1>9, <1>10, <1>11

(* An entry is only ever added. *)
LEMMA EntriesStay ==
  ASSUME Booked, [Next]_vars
  PROVE  entries' = entries \/ \E row : entries' = Append(entries, row)
BY DEF vars, Next, SetTerms, NextDay, AccrueInterest, ReadTab, ReadEntries, ReadClaims,
  Finish, Fail, PassOver, Replayed, PostCharge, PostPayment, PostAdjustment, PostFee,
  RecordBankLine, ConfirmMatch, Undo, Post, PostInterest

LEMMA ReadersGoOn ==
  ASSUME Booked, [Next]_vars, NEW r \in Readers
  PROVE  Kept(reader'[r], entries', Day')
<1>1. PICK x, y, day, later :
        /\ x = reader[r] /\ y = reader'[r] /\ day = Day /\ later = Day'
        /\ day \in Int /\ later \in Int /\ day <= later
  <2>1. Day \in Int /\ Day' \in Int /\ Day <= Day'
    BY DaysPass
  <2> HIDE DEF Day
  <2> QED BY <2>1
<1>2. Moves(x, y) /\ Kept(x, entries, day)
  BY <1>1, NextMoves DEF Booked
<1>3. /\ entries \in Seq(Entry) /\ entries' \in Seq(Entry)
      /\ entries' = entries \/ \E row : entries' = Append(entries, row)
  BY LedgerGoesOn, EntriesStay DEF Booked, Books, Ledger
<1>4. \A row : entries' = Append(entries, row) => row \in Entry
  <2> SUFFICES ASSUME NEW row, entries' = Append(entries, row) PROVE row \in Entry
    OBVIOUS
  <2>1. entries'[Len(entries) + 1] = row /\ Len(entries') = Len(entries) + 1
    BY <1>3
  <2>2. Len(entries) + 1 \in 1 .. Len(entries')
    BY <1>3, <2>1
  <2>3. entries'[Len(entries) + 1] \in Entry
    BY <1>3, <2>2
  <2> QED BY <2>1, <2>3
<1>5. ToSet(entries) \subseteq ToSet(entries')
  BY <1>3, <1>4, ToSetOf
<1>6. y.pc \in {"entries", "claims", "post"} => y.tab \in Tabs
  BY <1>2 DEF Moves, Kept, Booked
<1>7. ASSUME y.pc \in {"claims", "post"}
      PROVE  y.entries \in Seq(Entry) /\ ToSet(y.entries) \subseteq ToSet(entries')
  <2>1. CASE y.entries = x.entries /\ x.pc \in {"claims", "post"}
    BY <1>2, <1>5, <2>1 DEF Kept
  <2>2. CASE y.entries = entries
    BY <1>3, <1>5, <2>2
  <2>3. CASE y.pc = "post" /\ \E row : y.entries = Append(x.entries, row) /\ entries' = Append(entries, row)
    <3>1. PICK row : y.entries = Append(x.entries, row) /\ entries' = Append(entries, row)
      BY <2>3
    <3>2. row \in Entry
      BY <1>4, <3>1
    <3>3. x.entries \in Seq(Entry) /\ ToSet(x.entries) \subseteq ToSet(entries)
      BY <1>2, <2>3 DEF Kept, Moves
    <3>4. /\ ToSet(y.entries) = ToSet(x.entries) \cup {row}
          /\ ToSet(entries') = ToSet(entries) \cup {row}
      BY <1>3, <3>1, <3>2, <3>3, ToSetOf
    <3> QED BY <3>1, <3>2, <3>3, <3>4
  <2> QED BY <1>2, <1>7, <2>1, <2>2, <2>3 DEF Moves
<1>8. ASSUME y.pc = "post", NEW due \in y.todo PROVE due \in Int /\ due <= later
  <2>1. CASE x.pc = "post" /\ y.todo \subseteq x.todo
    <3>1. due \in Int /\ due <= day
      BY <1>2, <1>8, <2>1 DEF Kept
    <3> QED BY <1>1, <3>1
  <2>2. CASE y.todo \subseteq {Due[n] : n \in DueThrough(Day)}
    <3>1. PICK n \in DueThrough(Day) : due = Due[n]
      BY <1>8, <2>2
    <3>2. n \in DOMAIN Due /\ \A i \in 0 .. n : Due[i] <= day
      BY <1>1 DEF DueThrough
    <3>3. n \in 0 .. n
      BY <3>2 DEF Due
    <3>4. due \in Int /\ due <= day
      BY <3>1, <3>2, <3>3, DuesAreInts
    <3> QED BY <1>1, <3>4
  <2> QED BY <1>2, <1>8, <2>1, <2>2 DEF Moves
<1>9. Kept(y, entries', later)
  BY <1>6, <1>7, <1>8 DEF Kept
<1> QED BY <1>1, <1>9

LEMMA NextBooked ==
  ASSUME Booked, [Next]_vars
  PROVE  Booked'
<1>1. Informed'
  BY NextInforms DEF Booked
<1>2. Books(entries', Day')
  <2>1. PICK day \in Int, later \in Int : day = Day /\ later = Day' /\ day <= later
    BY DaysPass
  <2>2. Ledger(entries') /\ FeesBy(entries', day)
    BY <2>1, LedgerGoesOn DEF Books
  <2>3. \A e \in Live(entries') : DayOf(e) \in Int
    BY <2>2, LedgerEntries DEF Entries, Entry, DayOf
  <2>4. FeesBy(entries', later)
    BY <2>1, <2>2, <2>3 DEF FeesBy
  <2> QED BY <2>1, <2>2, <2>4 DEF Books
<1>3. \A r \in Readers : Kept(reader'[r], entries', Day')
  BY ReadersGoOn
<1> QED BY <1>1, <1>2, <1>3, DaysPass, TermsStay DEF Booked

LEMMA StaysBooked == Spec => []Booked
BY BookedStart, NextBooked, PTL DEF Spec

(* However a loan is charged, paid, credited and undone, whatever dates the bank
   gives its lines, by whatever order of requests, and with interest charged by
   readers of stale entries, the balance on its page and the allocation behind
   it are the plain sum of the ledger less the lines dated ahead of today, and
   the allocation behind its statements is the plain sum (ledger/payoff.go,
   ledger/allocate.go, ledger/statement.go). *)
THEOREM BalancesAgree == Spec => []BalanceAddsUp
<1>1. Booked => BalanceAddsUp
  <2> SUFFICES ASSUME Booked PROVE BalanceAddsUp
    OBVIOUS
  <2>1. Day \in Int /\ Ledger(entries) /\ FeesBy(entries, Day)
    BY DayIsInt DEF Booked, Books, Day
  <2> QED BY <2>1, LedgerIsSum DEF BalanceAddsUp, Ahead
<1> QED BY <1>1, StaysBooked, PTL

-----------------------------------------------------------------------------
LEMMA InterestGrows ==
  ASSUME NEW b \in Nat, NEW c \in Nat, b <= c, NEW bp \in Nat
  PROVE  /\ InterestFor(b, bp, RateBasis) \in Nat
         /\ InterestFor(c, bp, RateBasis) \in Nat
         /\ InterestFor(b, bp, RateBasis) <= InterestFor(c, bp, RateBasis)
<1>1. PICK e \in Nat \ {0} : e = Every
  BY ScheduleAssumption DEF Every
<1>2. PICK k \in Nat, w \in {12, 365} : RateBasis = <<k, w>>
  BY <1>1 DEF RateBasis
<1>3. PICK m \in Nat, n \in Nat : m = b * bp * k /\ n = c * bp * k /\ m <= n
  <2>1. PICK d \in Nat : c = b + d
    BY SMT
  <2>2. PICK x \in Nat, y \in Nat, z \in Nat : x = b * bp /\ y = c * bp /\ z = d * bp
    BY SMT
  <2>3. y = x + z
    BY <2>1, <2>2, SMT
  <2>4. PICK q \in Nat, r \in Nat, s \in Nat : q = x * k /\ r = y * k /\ s = z * k
    BY SMT
  <2>5. r = q + s
    BY <2>3, <2>4, SMT
  <2> QED BY <2>2, <2>4, <2>5
<1>4. PICK d \in {120000, 3650000} : d = 10000 * w
  BY <1>2
<1>5. /\ InterestFor(b, bp, RateBasis) = (m + d \div 2) \div d
      /\ InterestFor(c, bp, RateBasis) = (n + d \div 2) \div d
  BY <1>2, <1>3, <1>4 DEF InterestFor
<1>6. CASE d = 120000
  BY <1>3, <1>5, <1>6
<1>7. CASE d = 3650000
  BY <1>3, <1>5, <1>7
<1> QED BY <1>6, <1>7

-----------------------------------------------------------------------------
PaymentRow == [payment : Int, balance : Int]

(* A loan while it is paid: there is something to pay as long as it goes on. *)
Paying ==
  {s \in [principal : Int, unpaid : Int, rows : Seq(PaymentRow), state : {"paying", "retired", "never"}] :
     /\ s.state = "paying" => s.principal > 0 /\ s.unpaid >= 0
     /\ s.state = "retired" => Len(s.rows) > 0}

(* The terms of a loan that can be paid. *)
Borrowed(t) ==
  /\ t.principal \in Nat \ {0} /\ t.unpaid \in Nat /\ t.bp \in Nat /\ t.basis = RateBasis

(* What one payment makes of a loan of which n payments have been made, due is
   the interest of the period and unpaid all that is unpaid: y. *)
Paid(payment, due, principal, unpaid, n, y) ==
  \/ principal + unpaid <= payment /\ y.state = "retired" /\ Len(y.rows) = n + 1
  \/ /\ principal + unpaid > payment /\ payment >= unpaid
     /\ y.state = "paying" /\ Len(y.rows) = n + 1
     /\ y.principal = principal - (payment - unpaid) /\ y.unpaid = 0
  \/ /\ payment < unpaid /\ payment > due
     /\ y.state = "paying" /\ Len(y.rows) = n + 1
     /\ y.principal = principal /\ y.unpaid = unpaid - payment
  \/ payment <= due /\ payment < unpaid /\ y.state = "never"

LEMMA PeriodPays ==
  ASSUME NEW t, Borrowed(t), NEW payment \in Int, NEW s \in Paying, s.state = "paying",
         NEW y, y = PayPeriod(t, payment, s),
         NEW due, due = InterestFor(s.principal, t.bp, t.basis)
  PROVE  /\ due \in Nat /\ y \in Paying
         /\ Paid(payment, due, s.principal, s.unpaid + due, Len(s.rows), y)
<1>1. PICK p \in Nat \ {0}, u \in Nat, rows \in Seq(PaymentRow) :
        s = [principal |-> p, unpaid |-> u, rows |-> rows, state |-> "paying"]
  BY DEF Paying
<1>2. PICK d \in Nat : d = due
  <2>1. p <= p /\ p \in Nat /\ t.bp \in Nat /\ t.basis = RateBasis /\ s.principal = p
    BY <1>1 DEF Borrowed
  <2>2. InterestFor(p, t.bp, RateBasis) \in Nat
    BY <2>1, InterestGrows
  <2> QED BY <2>1, <2>2
<1>3. PICK v \in Nat, o \in Nat : v = u + d /\ o = p + v
  OBVIOUS
<1> DEFINE i == InterestFor(s.principal, t.bp, t.basis)
           v0 == s.unpaid + i
           o0 == s.principal + v0
           paid(q, r) == [s EXCEPT !.principal = q, !.unpaid = r,
                            !.rows = Append(@, [payment |-> payment, balance |-> q + r])]
<1>4. i = d /\ v0 = v /\ o0 = o
  BY <1>1, <1>2, <1>3
<1>9. s.principal = p /\ s.unpaid + due = v /\ s.rows = rows
  BY <1>1, <1>2, <1>3
<1> SUFFICES y \in Paying /\ Paid(payment, d, p, v, Len(rows), y)
  BY <1>2, <1>9
<1>5. CASE o <= payment
  <2>1. o0 <= payment /\ ~(o0 > payment) /\ ~(payment < v0)
    BY <1>3, <1>4, <1>5
  <2>2. y = [s EXCEPT !.state = "retired", !.rows = Append(@, [payment |-> o0, balance |-> 0])]
    BY <2>1, Zenon DEF PayPeriod
  <2>3. PICK row \in PaymentRow : row = [payment |-> o, balance |-> 0]
    <3>1. [payment |-> o, balance |-> 0] \in PaymentRow
      BY DEF PaymentRow
    <3> QED BY <3>1
  <2>4. y = [principal |-> p, unpaid |-> u, rows |-> Append(rows, row), state |-> "retired"]
    BY <1>1, <1>4, <2>2, <2>3
  <2>5. Append(rows, row) \in Seq(PaymentRow) /\ Len(Append(rows, row)) = Len(rows) + 1
    OBVIOUS
  <2>6. y \in Paying
    BY <2>4, <2>5 DEF Paying
  <2>7. y.state = "retired" /\ Len(y.rows) = Len(rows) + 1 /\ p + v <= payment
    BY <1>3, <1>5, <2>4, <2>5
  <2> QED BY <2>6, <2>7 DEF Paid
<1>6. CASE o > payment /\ payment >= v
  <2>1. ~(o0 <= payment) /\ o0 > payment /\ payment >= v0 /\ ~(payment < v0)
    BY <1>3, <1>4, <1>6
  <2>2. y = paid(s.principal - (payment - v0), 0)
    BY <2>1, Zenon DEF PayPeriod
  <2>3. PICK q \in Nat \ {0} : q = p - (payment - v)
    BY <1>3, <1>6
  <2>4. PICK row \in PaymentRow : row = [payment |-> payment, balance |-> q + 0]
    <3>1. [payment |-> payment, balance |-> q + 0] \in PaymentRow
      BY DEF PaymentRow
    <3> QED BY <3>1
  <2>5. y = [principal |-> q, unpaid |-> 0, rows |-> Append(rows, row), state |-> "paying"]
    BY <1>1, <1>4, <2>2, <2>3, <2>4
  <2>6. Append(rows, row) \in Seq(PaymentRow) /\ Len(Append(rows, row)) = Len(rows) + 1
    OBVIOUS
  <2>7. y \in Paying
    BY <2>5, <2>6 DEF Paying
  <2>8. /\ y.state = "paying" /\ Len(y.rows) = Len(rows) + 1
        /\ y.principal = p - (payment - v) /\ y.unpaid = 0
        /\ p + v > payment /\ payment >= v
    BY <1>3, <1>6, <2>3, <2>5, <2>6
  <2> QED BY <2>7, <2>8 DEF Paid
<1>7. CASE payment < v /\ payment > d
  <2>1. ~(o0 <= payment) /\ ~(payment >= v0) /\ payment < v0 /\ payment > i
    BY <1>3, <1>4, <1>7
  <2>2. y = paid(s.principal, v0 - payment)
    BY <2>1, Zenon DEF PayPeriod
  <2>3. PICK q \in Nat : q = v - payment
    BY <1>3, <1>7
  <2>4. PICK row \in PaymentRow : row = [payment |-> payment, balance |-> p + q]
    <3>1. [payment |-> payment, balance |-> p + q] \in PaymentRow
      BY DEF PaymentRow
    <3> QED BY <3>1
  <2>5. y = [principal |-> p, unpaid |-> q, rows |-> Append(rows, row), state |-> "paying"]
    BY <1>1, <1>4, <2>2, <2>3, <2>4
  <2>6. Append(rows, row) \in Seq(PaymentRow) /\ Len(Append(rows, row)) = Len(rows) + 1
    OBVIOUS
  <2>7. y \in Paying
    BY <2>5, <2>6 DEF Paying
  <2>8. /\ y.state = "paying" /\ Len(y.rows) = Len(rows) + 1
        /\ y.principal = p /\ y.unpaid = v - payment
    BY <2>3, <2>5, <2>6
  <2> QED BY <1>7, <2>7, <2>8 DEF Paid
<1>8. CASE payment < v /\ payment <= d
  <2>1. ~(o0 <= payment) /\ ~(payment >= v0) /\ ~(payment > i)
    BY <1>3, <1>4, <1>8
  <2>2. y = [s EXCEPT !.state = "never"]
    BY <2>1, Zenon DEF PayPeriod
  <2>3. y = [principal |-> p, unpaid |-> u, rows |-> rows, state |-> "never"]
    BY <1>1, <2>2
  <2>4. y \in Paying /\ y.state = "never"
    BY <2>3 DEF Paying
  <2> QED BY <1>8, <2>4 DEF Paid
<1> QED BY <1>3, <1>5, <1>6, <1>7, <1>8

Begin(t) == [principal |-> t.principal, unpaid |-> t.unpaid, rows |-> <<>>, state |-> "paying"]

PayStep(t, payment) ==
  [s \in Paying |-> IF s.state = "paying" THEN PayPeriod(t, payment, s) ELSE s]

(* A loan is paid period by period. *)
LEMMA Courses ==
  ASSUME NEW t, Borrowed(t), NEW payment \in Int
  PROVE  \E a : /\ a \in Chains(MaxPayments, Paying, Begin(t), PayStep(t, payment))
                /\ Course(t, payment) = a[MaxPayments]
<1> DEFINE Step(g) == [n \in 0 .. MaxPayments |->
             IF n = 0 THEN Begin(t)
             ELSE LET s == g[n - 1]
                  IN IF s.state = "paying" THEN PayPeriod(t, payment, s) ELSE s]
           iter == CHOOSE g : g = Step(g)
<1>1. Course(t, payment) = iter[MaxPayments]
  BY DEF Course, Begin
<1>2. PICK step : step = PayStep(t, payment)
  OBVIOUS
<1>3. \A s \in Paying : /\ step[s] = IF s.state = "paying" THEN PayPeriod(t, payment, s) ELSE s
                        /\ step[s] \in Paying
  <2> TAKE s \in Paying
  <2>1. step[s] = IF s.state = "paying" THEN PayPeriod(t, payment, s) ELSE s
    BY <1>2 DEF PayStep
  <2>2. s.state = "paying" => PayPeriod(t, payment, s) \in Paying
    BY PeriodPays
  <2> QED BY <2>1, <2>2
<1>4. Begin(t) \in Paying
  <2>1. <<>> \in Seq(PaymentRow)
    OBVIOUS
  <2> QED BY <2>1 DEF Begin, Paying, Borrowed
<1>5. MaxPayments \in Nat
  BY PaymentsAssumption
<1>6. \E g : g = Step(g)
  <2>1. PICK f : f \in Chains(MaxPayments, Paying, Begin(t), step)
    <3>1. \A s \in Paying : step[s] \in Paying
      BY <1>3
    <3> QED BY <1>4, <1>5, <3>1, Iteration
  <2>2. /\ f \in [0 .. MaxPayments -> Paying] /\ f[0] = Begin(t)
        /\ \A i \in 1 .. MaxPayments : f[i] = step[f[i - 1]]
    BY <2>1 DEF Chains
  <2>3. ASSUME NEW i \in 0 .. MaxPayments, i # 0
        PROVE  f[i] = IF f[i - 1].state = "paying" THEN PayPeriod(t, payment, f[i - 1]) ELSE f[i - 1]
    <3>1. i \in 1 .. MaxPayments /\ i - 1 \in 0 .. MaxPayments
      BY <1>5, <2>3
    <3>2. f[i - 1] \in Paying
      BY <2>2, <3>1
    <3> QED BY <1>3, <2>2, <3>1, <3>2
  <2>4. f = Step(f)
    BY <2>2, <2>3
  <2> QED BY <2>4
<1>7. iter = Step(iter)
  BY <1>6
<1>8. ASSUME NEW i \in 0 .. MaxPayments
      PROVE  iter[i] = IF i = 0 THEN Begin(t)
                       ELSE IF iter[i - 1].state = "paying" THEN PayPeriod(t, payment, iter[i - 1])
                            ELSE iter[i - 1]
  BY <1>7
<1>9. iter = [n \in 0 .. MaxPayments |-> iter[n]]
  BY <1>7
<1> HIDE DEF iter
<1>10. ASSUME NEW i \in 1 .. MaxPayments, iter[i - 1] \in Paying
       PROVE  iter[i] = step[iter[i - 1]] /\ iter[i] \in Paying
  <2>1. i \in 0 .. MaxPayments /\ i # 0
    BY <1>5
  <2>2. iter[i] = IF iter[i - 1].state = "paying" THEN PayPeriod(t, payment, iter[i - 1])
                  ELSE iter[i - 1]
    BY <1>8, <2>1
  <2> QED BY <1>3, <1>10, <2>2
<1>11. iter[0] = Begin(t)
  <2>1. 0 \in 0 .. MaxPayments
    BY <1>5
  <2> QED BY <1>8, <2>1
<1> DEFINE G == {i \in Nat : i <= MaxPayments => iter[i] \in Paying}
<1>12. \A i \in Nat : i \in G
  <2>1. 0 \in G
    BY <1>4, <1>11
  <2>2. ASSUME NEW i \in Nat, i \in G PROVE i + 1 \in G
    <3>1. ASSUME i + 1 <= MaxPayments PROVE iter[i + 1] \in Paying
      <4>1. i + 1 \in 1 .. MaxPayments /\ (i + 1) - 1 = i /\ iter[i] \in Paying
        BY <1>5, <2>2, <3>1
      <4> QED BY <1>10, <4>1
    <3> QED BY <3>1
  <2>3. \A i \in Nat : i \in G => i + 1 \in G
    BY <2>2
  <2> HIDE DEF G
  <2> QED BY <2>1, <2>3, CountUp
<1>13. \A i \in 0 .. MaxPayments : iter[i] \in Paying
  BY <1>5, <1>12
<1>14. \A i \in 1 .. MaxPayments : iter[i] = step[iter[i - 1]]
  <2> TAKE i \in 1 .. MaxPayments
  <2>1. i - 1 \in 0 .. MaxPayments
    BY <1>5
  <2> QED BY <1>10, <1>13, <2>1
<1>15. iter \in Chains(MaxPayments, Paying, Begin(t), step)
  BY <1>9, <1>11, <1>13, <1>14 DEF Chains
<1> QED BY <1>1, <1>2, <1>15

-----------------------------------------------------------------------------
(* A loan b that is paid with more than a is never behind it. *)
NoWorse(n, a, b) ==
  /\ a.state = "paying" =>
       /\ Len(a.rows) = n
       /\ \/ /\ b.state = "paying" /\ Len(b.rows) = n
             /\ b.principal <= a.principal /\ b.unpaid <= a.unpaid
          \/ b.state = "retired" /\ Len(b.rows) <= n
  /\ a.state = "retired" => b.state = "retired" /\ Len(b.rows) <= Len(a.rows)

LEMMA StepNoWorse ==
  ASSUME NEW t, Borrowed(t), NEW less \in Int, NEW more \in Int, less <= more, NEW n \in Nat,
         NEW a \in Paying, NEW b \in Paying, NoWorse(n, a, b)
  PROVE  NoWorse(n + 1, PayStep(t, less)[a], PayStep(t, more)[b])
<1>1. PICK y, z : y = PayStep(t, less)[a] /\ z = PayStep(t, more)[b]
  OBVIOUS
<1>2. /\ y = IF a.state = "paying" THEN PayPeriod(t, less, a) ELSE a
      /\ z = IF b.state = "paying" THEN PayPeriod(t, more, b) ELSE b
  BY <1>1 DEF PayStep
<1>3. CASE a.state = "paying" /\ b.state = "paying"
  <2>1. PICK c, d : c = InterestFor(a.principal, t.bp, t.basis) /\ d = InterestFor(b.principal, t.bp, t.basis)
    OBVIOUS
  <2>2. /\ c \in Nat /\ y \in Paying /\ Paid(less, c, a.principal, a.unpaid + c, Len(a.rows), y)
        /\ d \in Nat /\ z \in Paying /\ Paid(more, d, b.principal, b.unpaid + d, Len(b.rows), z)
    BY <1>2, <1>3, <2>1, PeriodPays
  <2>3. PICK p \in Nat, u \in Nat, q \in Nat, v \in Nat :
          p = a.principal /\ u = a.unpaid /\ q = b.principal /\ v = b.unpaid
    BY <1>3 DEF Paying
  <2>4. q <= p /\ v <= u /\ q > 0 /\ p > 0 /\ Len(a.rows) = n /\ Len(b.rows) = n
    BY <1>3, <2>3 DEF NoWorse, Paying
  <2>5. d <= c
    BY <2>1, <2>3, <2>4, InterestGrows DEF Borrowed
  <2>6. PICK e \in Nat, f \in Nat : e = u + c /\ f = v + d /\ f <= e
    BY <2>2, <2>4, <2>5
  <2>7. \/ p + e <= less /\ y.state = "retired" /\ Len(y.rows) = n + 1
        \/ /\ p + e > less /\ less >= e /\ y.state = "paying" /\ Len(y.rows) = n + 1
           /\ y.principal = p - (less - e) /\ y.unpaid = 0
        \/ /\ less < e /\ less > c /\ y.state = "paying" /\ Len(y.rows) = n + 1
           /\ y.principal = p /\ y.unpaid = e - less
        \/ less <= c /\ less < e /\ y.state = "never"
    <3>1. Paid(less, c, p, e, n, y)
      BY <2>2, <2>3, <2>4, <2>6
    <3> QED BY <3>1 DEF Paid
  <2>8. \/ q + f <= more /\ z.state = "retired" /\ Len(z.rows) = n + 1
        \/ /\ q + f > more /\ more >= f /\ z.state = "paying" /\ Len(z.rows) = n + 1
           /\ z.principal = q - (more - f) /\ z.unpaid = 0
        \/ /\ more < f /\ more > d /\ z.state = "paying" /\ Len(z.rows) = n + 1
           /\ z.principal = q /\ z.unpaid = f - more
        \/ more <= d /\ more < f /\ z.state = "never"
    <3>1. Paid(more, d, q, f, n, z)
      BY <2>2, <2>3, <2>4, <2>6
    <3> QED BY <3>1 DEF Paid
  <2>9. CASE p + e <= less
    <3>1. y.state = "retired" /\ Len(y.rows) = n + 1
      BY <2>4, <2>6, <2>9, <2>7, <2>8
    <3>2. z.state = "retired" /\ Len(z.rows) = n + 1
      BY <2>4, <2>6, <2>9, <2>7, <2>8
    <3> QED BY <1>1, <3>1, <3>2 DEF NoWorse
  <2>10. CASE p + e > less /\ less >= e
    <3>1. /\ y.state = "paying" /\ Len(y.rows) = n + 1
          /\ y.principal = p - (less - e) /\ y.unpaid = 0
      BY <2>4, <2>6, <2>10, <2>7, <2>8
    <3>2. \/ z.state = "retired" /\ Len(z.rows) = n + 1
          \/ /\ z.state = "paying" /\ Len(z.rows) = n + 1
             /\ z.principal = q - (more - f) /\ z.unpaid = 0
      BY <2>4, <2>6, <2>10, <2>7, <2>8
    <3>3. q - (more - f) <= p - (less - e)
      BY <2>4, <2>6
    <3> QED BY <1>1, <3>1, <3>2, <3>3 DEF NoWorse
  <2>11. CASE less < e /\ less > c
    <3>1. /\ y.state = "paying" /\ Len(y.rows) = n + 1
          /\ y.principal = p /\ y.unpaid = e - less
      BY <2>2, <2>4, <2>6, <2>11, <2>7, <2>8
    <3>2. \/ z.state = "retired" /\ Len(z.rows) = n + 1
          \/ /\ z.state = "paying" /\ Len(z.rows) = n + 1
             /\ z.principal = q - (more - f) /\ z.unpaid = 0 /\ more >= f
          \/ /\ z.state = "paying" /\ Len(z.rows) = n + 1
             /\ z.principal = q /\ z.unpaid = f - more
      BY <2>2, <2>4, <2>5, <2>6, <2>11, <2>7, <2>8
    <3>3. q <= p /\ f - more <= e - less /\ 0 <= e - less /\ (more >= f => q - (more - f) <= p)
      BY <2>4, <2>6, <2>11
    <3> QED BY <1>1, <3>1, <3>2, <3>3 DEF NoWorse
  <2>12. CASE less < e /\ less <= c
    <3>1. y.state = "never"
      BY <2>2, <2>4, <2>6, <2>12, <2>7
    <3> QED BY <1>1, <3>1 DEF NoWorse
  <2> QED BY <2>2, <2>6, <2>9, <2>10, <2>11, <2>12
<1>4. CASE a.state = "paying" /\ b.state # "paying"
  <2>1. z = b /\ b.state = "retired" /\ Len(b.rows) <= n /\ Len(b.rows) \in Nat
    BY <1>2, <1>4 DEF NoWorse, Paying
  <2>2. y \in Paying /\ \E c \in Nat : Paid(less, c, a.principal, a.unpaid + c, Len(a.rows), y)
    BY <1>2, <1>4, PeriodPays
  <2>3. Len(a.rows) = n
    BY <1>4 DEF NoWorse
  <2>4. y.state \in {"paying", "retired"} => Len(y.rows) = n + 1
    BY <2>2, <2>3 DEF Paid
  <2> QED BY <1>1, <2>1, <2>4 DEF NoWorse
<1>5. CASE a.state = "retired"
  BY <1>1, <1>2, <1>5 DEF NoWorse
<1>6. CASE a.state = "never"
  BY <1>1, <1>2, <1>6 DEF NoWorse
<1> QED BY <1>3, <1>4, <1>5, <1>6 DEF Paying
(* What it means that a payment retires a loan in time. *)
LEMMA WithinIs ==
  ASSUME NEW t, Borrowed(t), NEW payment \in Int, NEW term
  PROVE  /\ Course(t, payment) \in Paying
         /\ Within(t, payment, term) <=>
              /\ payment > 0 /\ Course(t, payment).state = "retired"
              /\ Len(Course(t, payment).rows) <= term
<1>1. Course(t, payment) \in Paying
  <2>1. PICK a : /\ a \in Chains(MaxPayments, Paying, Begin(t), PayStep(t, payment))
                 /\ Course(t, payment) = a[MaxPayments]
    BY Courses
  <2>2. MaxPayments \in 0 .. MaxPayments
    BY PaymentsAssumption
  <2> QED BY <2>1, <2>2 DEF Chains
<1>2. PICK end \in Paying : end = Course(t, payment)
  BY <1>1
<1>3. Payable(t)
  BY DEF Payable, Borrowed
<1>4. PICK rows : rows = Project(t, payment)
  OBVIOUS
<1>5. rows = IF payment > 0 /\ end.state = "retired" THEN end.rows ELSE <<>>
  BY <1>2, <1>3, <1>4 DEF Project
<1>6. Within(t, payment, term) <=> rows # <<>> /\ Len(rows) <= term
  BY <1>4 DEF Within, Simulate
<1>7. end.rows \in Seq(PaymentRow) /\ (end.state = "retired" => Len(end.rows) > 0)
  BY DEF Paying
<1>8. end.state = "retired" => end.rows # <<>>
  BY <1>7
<1> QED BY <1>2, <1>5, <1>6, <1>8

(* A larger payment retires a loan no later. *)
LEMMA MoreIsWithin ==
  ASSUME NEW t, Borrowed(t), NEW less \in Int, NEW more \in Int, less <= more,
         NEW term \in Int, Within(t, less, term)
  PROVE  Within(t, more, term)
<1>1. PICK a : /\ a \in Chains(MaxPayments, Paying, Begin(t), PayStep(t, less))
               /\ Course(t, less) = a[MaxPayments]
  BY Courses
<1>2. PICK b : /\ b \in Chains(MaxPayments, Paying, Begin(t), PayStep(t, more))
               /\ Course(t, more) = b[MaxPayments]
  BY Courses
<1>3. MaxPayments \in Nat
  BY PaymentsAssumption
<1> DEFINE G == {i \in Nat : i <= MaxPayments => NoWorse(i, a[i], b[i])}
<1>4. \A i \in Nat : i \in G
  <2>1. 0 \in G
    <3>1. a[0] = Begin(t) /\ b[0] = Begin(t)
      BY <1>1, <1>2 DEF Chains
    <3>2. NoWorse(0, Begin(t), Begin(t))
      BY DEF NoWorse, Begin, Borrowed
    <3> QED BY <3>1, <3>2
  <2>2. ASSUME NEW i \in Nat, i \in G PROVE i + 1 \in G
    <3>1. ASSUME i + 1 <= MaxPayments PROVE NoWorse(i + 1, a[i + 1], b[i + 1])
      <4>1. i + 1 \in 1 .. MaxPayments /\ (i + 1) - 1 = i /\ i \in 0 .. MaxPayments
        BY <1>3, <3>1
      <4>2. a[i] \in Paying /\ b[i] \in Paying /\ NoWorse(i, a[i], b[i])
        BY <1>1, <1>2, <2>2, <3>1, <4>1 DEF Chains
      <4>3. a[i + 1] = PayStep(t, less)[a[i]] /\ b[i + 1] = PayStep(t, more)[b[i]]
        <5>1. a[i + 1] = PayStep(t, less)[a[(i + 1) - 1]] /\ b[i + 1] = PayStep(t, more)[b[(i + 1) - 1]]
          BY <1>1, <1>2, <4>1 DEF Chains
        <5> QED BY <4>1, <5>1
      <4> QED BY <4>2, <4>3, StepNoWorse
    <3> QED BY <3>1
  <2>3. \A i \in Nat : i \in G => i + 1 \in G
    BY <2>2
  <2> HIDE DEF G
  <2> QED BY <2>1, <2>3, CountUp
<1>5. NoWorse(MaxPayments, Course(t, less), Course(t, more))
  BY <1>1, <1>2, <1>3, <1>4
<1>6. PICK c, d : c = Course(t, less) /\ d = Course(t, more)
  OBVIOUS
<1>7. c \in Paying /\ d \in Paying
  BY <1>6, WithinIs
<1>8. less > 0 /\ c.state = "retired" /\ Len(c.rows) <= term
  BY <1>6, WithinIs
<1>9. d.state = "retired" /\ Len(d.rows) <= Len(c.rows)
  BY <1>5, <1>6, <1>8 DEF NoWorse
<1>10. PICK m \in Nat, k \in Nat : m = Len(c.rows) /\ k = Len(d.rows)
  BY <1>7 DEF Paying
<1>11. more > 0 /\ d.state = "retired" /\ Len(d.rows) <= term
  BY <1>8, <1>9, <1>10
<1> QED BY <1>6, <1>11, WithinIs

-----------------------------------------------------------------------------
(* The least of W between lo and hi, or hi if there is none below it. *)
Lowest(x, lo, hi, W) ==
  x \in lo .. hi /\ (x = hi \/ x \in W) /\ \A y \in lo .. x - 1 : y \notin W

LEMMA LowestIsOne ==
  ASSUME NEW lo \in Int, NEW hi \in Int, NEW W, NEW x, NEW y,
         Lowest(x, lo, hi, W), Lowest(y, lo, hi, W)
  PROVE  x = y
BY DEF Lowest

(* From lo to hi, W has whatever is above a member. *)
Upward(lo, hi, W) ==
  \A y \in lo .. hi : \A z \in lo .. hi : y <= z /\ y \in W => z \in W

(* It is in the half that the middle says. *)
LEMMA LowestOfHalf ==
  ASSUME NEW lo \in Nat, NEW hi \in Nat, lo < hi, NEW W,
         NEW mid \in Nat, lo <= mid, mid < hi,
         Upward(lo, hi, W)
  PROVE  /\ \A x : mid \in W /\ Lowest(x, lo, mid, W) => Lowest(x, lo, hi, W)
         /\ \A x : mid \notin W /\ Lowest(x, mid + 1, hi, W) => Lowest(x, lo, hi, W)
<1>1. ASSUME NEW x, mid \in W, Lowest(x, lo, mid, W)
      PROVE  Lowest(x, lo, hi, W)
  BY <1>1 DEF Lowest
<1>2. ASSUME NEW x, mid \notin W, Lowest(x, mid + 1, hi, W)
      PROVE  Lowest(x, lo, hi, W)
  <2>1. x \in mid + 1 .. hi /\ x \in lo .. hi /\ (x = hi \/ x \in W)
    BY <1>2 DEF Lowest
  <2>2. ASSUME NEW y \in lo .. x - 1 PROVE y \notin W
    <3>1. CASE y <= mid
      BY <1>2, <2>1, <3>1 DEF Upward
    <3>2. CASE y > mid
      <4>1. y \in mid + 1 .. x - 1
        BY <2>1, <3>2
      <4> QED BY <1>2, <4>1 DEF Lowest
    <3> QED BY <2>1, <3>1, <3>2
  <2> QED BY <2>1, <2>2 DEF Lowest
<1> QED BY <1>1, <1>2

(* What halving makes of the bounds r, f being what it makes of others. *)
Halve(f, r, W) ==
  LET mid == r[1] + (r[2] - r[1]) \div 2
  IN CASE r[1] >= r[2]                -> r[1]
       [] r[1] < r[2] /\ mid \in W    -> f[<<r[1], mid>>]
       [] r[1] < r[2] /\ mid \notin W -> f[<<mid + 1, r[2]>>]

Bounds(most) == (0 .. most) \X (0 .. most)

(* Whatever lies in narrower bounds than these is found. *)
Inside(f, lo, hi, W) ==
  \A l \in lo .. hi : \A h \in lo .. hi :
    l <= h /\ h - l < hi - lo => Lowest(f[<<l, h>>], l, h, W)

LEMMA HalveIsLowest ==
  ASSUME NEW most \in Nat, NEW W, Upward(0, most, W), NEW f,
         NEW lo \in 0 .. most, NEW hi \in 0 .. most, lo <= hi,
         Inside(f, lo, hi, W)
  PROVE  Lowest(Halve(f, <<lo, hi>>, W), lo, hi, W)
<1>1. CASE lo = hi
  <2>1. Halve(f, <<lo, hi>>, W) = lo
    BY <1>1 DEF Halve
  <2> QED BY <1>1, <2>1 DEF Lowest
<1>2. CASE lo < hi
  <2>1. PICK mid \in Nat : mid = lo + (hi - lo) \div 2 /\ lo <= mid /\ mid < hi
    BY <1>2
  <2>2. Upward(lo, hi, W)
    BY DEF Upward
  <2>5. /\ \A x : mid \in W /\ Lowest(x, lo, mid, W) => Lowest(x, lo, hi, W)
        /\ \A x : mid \notin W /\ Lowest(x, mid + 1, hi, W) => Lowest(x, lo, hi, W)
    BY <1>2, <2>1, <2>2, LowestOfHalf
  <2>3. CASE mid \in W
    <3>1. Halve(f, <<lo, hi>>, W) = f[<<lo, mid>>]
      BY <1>2, <2>1, <2>3 DEF Halve
    <3>2. lo \in lo .. hi /\ mid \in lo .. hi /\ mid - lo < hi - lo
      BY <1>2, <2>1
    <3>3. Lowest(f[<<lo, mid>>], lo, mid, W)
      BY <2>1, <3>2 DEF Inside
    <3> QED BY <2>3, <2>5, <3>1, <3>3
  <2>4. CASE mid \notin W
    <3>1. Halve(f, <<lo, hi>>, W) = f[<<mid + 1, hi>>]
      BY <1>2, <2>1, <2>4 DEF Halve
    <3>2. mid + 1 \in lo .. hi /\ hi \in lo .. hi /\ hi - (mid + 1) < hi - lo /\ mid + 1 <= hi
      BY <1>2, <2>1
    <3>3. Lowest(f[<<mid + 1, hi>>], mid + 1, hi, W)
      BY <3>2 DEF Inside
    <3> QED BY <2>4, <2>5, <3>1, <3>3
  <2> QED BY <2>3, <2>4
<1> QED BY <1>1, <1>2

LowestOf(lo, hi, W) == CHOOSE x : Lowest(x, lo, hi, W)

(* There is a function that is computed by halving, and whatever is computed so
   finds the lowest. *)
Halved(f, most, W) ==
  /\ f = [r \in Bounds(most) |-> f[r]]
  /\ \A r \in Bounds(most) : f[r] = Halve(f, r, W)

LEMMA HalvedExists ==
  ASSUME NEW most \in Nat, NEW W, Upward(0, most, W)
  PROVE  \E f : Halved(f, most, W)
<1> DEFINE f == [r \in Bounds(most) |->
                  IF r[1] >= r[2] THEN r[1] ELSE LowestOf(r[1], r[2], W)]
<1> DEFINE G == {n \in Nat : \A lo, hi \in 0 .. most :
                   lo <= hi /\ hi - lo <= n => Lowest(f[<<lo, hi>>], lo, hi, W)}
<1>1. ASSUME NEW lo \in 0 .. most, NEW hi \in 0 .. most
      PROVE  f[<<lo, hi>>] = IF lo >= hi THEN lo ELSE LowestOf(lo, hi, W)
  <2>1. <<lo, hi>> \in Bounds(most)
    BY DEF Bounds
  <2> QED BY <2>1
<1>5. f = [r \in Bounds(most) |-> f[r]]
  OBVIOUS
<1> HIDE DEF f
<1>2. \A n \in Nat : n \in G
  <2>1. ASSUME NEW lo \in 0 .. most, NEW hi \in 0 .. most, lo = hi
        PROVE  Lowest(f[<<lo, hi>>], lo, hi, W)
    <3>1. f[<<lo, hi>>] = lo
      BY <1>1, <2>1
    <3> QED BY <2>1, <3>1 DEF Lowest
  <2>2. 0 \in G
    BY <2>1
  <2>3. ASSUME NEW n \in Nat, n \in G PROVE n + 1 \in G
    <3> SUFFICES ASSUME NEW lo \in 0 .. most, NEW hi \in 0 .. most, lo <= hi, hi - lo <= n + 1
                 PROVE  Lowest(f[<<lo, hi>>], lo, hi, W)
      BY <2>3
    <3>1. CASE lo = hi
      BY <2>1, <3>1
    <3>2. CASE lo < hi
      <4>1. Inside(f, lo, hi, W)
        BY <2>3 DEF Inside
      <4>2. Lowest(Halve(f, <<lo, hi>>, W), lo, hi, W)
        BY <4>1, HalveIsLowest
      <4>3. f[<<lo, hi>>] = LowestOf(lo, hi, W)
        BY <1>1, <3>2
      <4> QED BY <4>2, <4>3 DEF LowestOf
    <3> QED BY <3>1, <3>2
  <2>4. \A n \in Nat : n \in G => n + 1 \in G
    BY <2>3
  <2> HIDE DEF G
  <2> QED BY <2>2, <2>4, CountUp
<1>3. ASSUME NEW lo \in 0 .. most, NEW hi \in 0 .. most, lo <= hi
      PROVE  Lowest(f[<<lo, hi>>], lo, hi, W)
  <2>1. hi - lo \in Nat /\ hi - lo \in G
    BY <1>2, <1>3
  <2> QED BY <1>3, <2>1
<1>4. ASSUME NEW r \in Bounds(most)
      PROVE  f[r] = Halve(f, r, W)
  <2>1. PICK lo \in 0 .. most, hi \in 0 .. most : r = <<lo, hi>>
    BY DEF Bounds
  <2>2. CASE lo >= hi
    <3>1. f[r] = lo
      BY <1>1, <2>1, <2>2
    <3>2. Halve(f, r, W) = lo
      BY <2>1, <2>2 DEF Halve
    <3> QED BY <3>1, <3>2
  <2>3. CASE lo < hi
    <3>1. Lowest(f[<<lo, hi>>], lo, hi, W)
      BY <1>3, <2>3
    <3>2. Inside(f, lo, hi, W)
      BY <1>3 DEF Inside
    <3>3. Lowest(Halve(f, <<lo, hi>>, W), lo, hi, W)
      BY <2>3, <3>2, HalveIsLowest
    <3> QED BY <2>1, <3>1, <3>3, LowestIsOne
  <2> QED BY <2>2, <2>3
<1> QED BY <1>4, <1>5 DEF Halved

LEMMA HalvedIsLowest ==
  ASSUME NEW most \in Nat, NEW W, Upward(0, most, W), NEW f, Halved(f, most, W),
         NEW lo \in 0 .. most, NEW hi \in 0 .. most, lo <= hi
  PROVE  Lowest(f[<<lo, hi>>], lo, hi, W)
<1> DEFINE G == {n \in Nat : \A l, h \in 0 .. most :
                   l <= h /\ h - l < n => Lowest(f[<<l, h>>], l, h, W)}
<1>1. \A n \in Nat : n \in G
  <2>1. 0 \in G
    OBVIOUS
  <2>2. ASSUME NEW n \in Nat, n \in G PROVE n + 1 \in G
    <3> SUFFICES ASSUME NEW l \in 0 .. most, NEW h \in 0 .. most, l <= h, h - l < n + 1
                 PROVE  Lowest(f[<<l, h>>], l, h, W)
      BY <2>2
    <3>1. Inside(f, l, h, W)
      BY <2>2 DEF Inside
    <3>2. Lowest(Halve(f, <<l, h>>, W), l, h, W)
      BY <3>1, HalveIsLowest
    <3>3. f[<<l, h>>] = Halve(f, <<l, h>>, W)
      <4>1. <<l, h>> \in Bounds(most)
        BY DEF Bounds
      <4> QED BY <4>1 DEF Halved
    <3> QED BY <3>2, <3>3
  <2>3. \A n \in Nat : n \in G => n + 1 \in G
    BY <2>2
  <2> HIDE DEF G
  <2> QED BY <2>1, <2>3, CountUp
<1>2. hi - lo + 1 \in Nat /\ hi - lo + 1 \in G
  BY <1>1
<1> QED BY <1>2

-----------------------------------------------------------------------------
(* A payment that retires the loan in time, and no smaller one does. *)
LeastPayment(t, payment, term) ==
  Within(t, payment, term) /\ \A smaller \in 1 .. payment - 1 : ~Within(t, smaller, term)

LEMMA SuggestsLeast ==
  ASSUME NEW t, t.principal \in Int, t.unpaid \in Int, t.bp \in Nat, t.basis = RateBasis,
         NEW term, SuggestPayment(t, term) > 0
  PROVE  LeastPayment(t, SuggestPayment(t, term), term)
<1> DEFINE most == t.principal + t.unpaid + InterestFor(t.principal, t.bp, t.basis)
           Step(g) == [r \in (0 .. most) \X (0 .. most) |->
             IF r[1] >= r[2] THEN r[1] ELSE g[Half(t, term, r)]]
           iter == CHOOSE g : g = Step(g)
<1>1. SuggestPayment(t, term) = IF Payable(t) /\ term \in 1 .. MaxPayments /\ Within(t, most, term)
                                THEN iter[<<1, most>>] ELSE 0
  BY DEF SuggestPayment
<1>2. Payable(t) /\ term \in 1 .. MaxPayments /\ Within(t, most, term)
  BY <1>1
<1>3. SuggestPayment(t, term) = iter[<<1, most>>]
  BY <1>1, <1>2
<1>4. Borrowed(t)
  BY <1>2 DEF Borrowed, Payable
<1>5. PICK m \in Nat : m = most /\ m >= 1
  <2>1. PICK p \in Nat \ {0}, u \in Nat, bp \in Nat : p = t.principal /\ u = t.unpaid /\ bp = t.bp
    BY <1>4 DEF Borrowed
  <2>4. p <= p /\ p \in Nat
    BY <2>1
  <2>2. InterestFor(p, bp, RateBasis) \in Nat
    BY <2>1, <2>4, InterestGrows
  <2>3. PICK i \in Nat : i = InterestFor(t.principal, t.bp, t.basis)
    BY <2>1, <2>2
  <2> QED BY <2>1, <2>3
<1> DEFINE W == {x \in 0 .. m : Within(t, x, term)}
<1>6. Upward(0, m, W)
  <2>1. ASSUME NEW y \in 0 .. m, NEW z \in 0 .. m, y <= z, Within(t, y, term)
        PROVE  Within(t, z, term)
    BY <1>2, <1>4, <2>1, MoreIsWithin
  <2> QED BY <2>1 DEF Upward
<1>7. ASSUME NEW g PROVE g = Step(g) <=> Halved(g, m, W)
  <2>1. ASSUME NEW r \in Bounds(m)
        PROVE  Step(g)[r] = Halve(g, r, W)
    <3>1. PICK lo \in 0 .. m, hi \in 0 .. m : r = <<lo, hi>>
      BY DEF Bounds
    <3>2. CASE lo >= hi
      <4>1. Step(g)[r] = lo
        BY <1>5, <3>1, <3>2
      <4>2. Halve(g, r, W) = lo
        BY <3>1, <3>2 DEF Halve
      <4> QED BY <4>1, <4>2
    <3>3. CASE lo < hi
      <4>1. PICK mid \in 0 .. m : mid = lo + (hi - lo) \div 2
        BY <3>3
      <4>2. Within(t, mid, term) <=> mid \in W
        OBVIOUS
      <4>3. CASE mid \in W
        <5>1. Step(g)[r] = g[<<lo, mid>>]
          BY <1>5, <3>1, <3>3, <4>1, <4>2, <4>3 DEF Half
        <5>2. Halve(g, r, W) = g[<<lo, mid>>]
          <6> HIDE DEF W
          <6> QED BY <3>1, <3>3, <4>1, <4>3 DEF Halve
        <5> QED BY <5>1, <5>2
      <4>4. CASE mid \notin W
        <5>1. Step(g)[r] = g[<<mid + 1, hi>>]
          BY <1>5, <3>1, <3>3, <4>1, <4>2, <4>4 DEF Half
        <5>2. Halve(g, r, W) = g[<<mid + 1, hi>>]
          <6> HIDE DEF W
          <6> QED BY <3>1, <3>3, <4>1, <4>4 DEF Halve
        <5> QED BY <5>1, <5>2
      <4> QED BY <4>3, <4>4
    <3> HIDE DEF Step, W
    <3> QED BY <3>2, <3>3
  <2>2. Step(g) = [r \in Bounds(m) |-> Step(g)[r]]
    BY <1>5 DEF Bounds
  <2> HIDE DEF Step, W
  <2> QED BY <2>1, <2>2 DEF Halved
<1>8. Halved(iter, m, W)
  <2>1. \E g : g = Step(g)
    <3>1. \E g : Halved(g, m, W)
      <4> HIDE DEF W
      <4> QED BY <1>6, HalvedExists
    <3> HIDE DEF Step, W
    <3> QED BY <1>7, <3>1
  <2>2. iter = Step(iter)
    <3> HIDE DEF Step
    <3> QED BY <2>1
  <2> HIDE DEF Step, W, iter
  <2> QED BY <1>7, <2>2
<1> HIDE DEF iter
<1>9. Lowest(iter[<<1, m>>], 1, m, W)
  <2>1. 1 \in 0 .. m /\ m \in 0 .. m /\ 1 <= m
    BY <1>5
  <2> HIDE DEF W
  <2> QED BY <1>6, <1>8, <2>1, HalvedIsLowest
<1>10. PICK x : x = iter[<<1, m>>]
  OBVIOUS
<1>11. /\ x \in 1 .. m /\ (x = m \/ Within(t, x, term))
       /\ \A y \in 1 .. x - 1 : ~Within(t, y, term)
  BY <1>9, <1>10 DEF Lowest
<1>12. LeastPayment(t, x, term)
  BY <1>2, <1>5, <1>11 DEF LeastPayment
<1> QED BY <1>3, <1>5, <1>10, <1>12

(* The payment suggested for a loan ends it in time, and no smaller one does:
   ComputePlan and SuggestPayment. *)
THEOREM SuggestsTheLeast == Spec => []SuggestionIsLeast
<1>1. Booked => SuggestionIsLeast
  <2> SUFFICES ASSUME Booked PROVE SuggestionIsLeast
    OBVIOUS
  <2>1. Day \in Int /\ Ledger(entries) /\ FeesBy(entries, Day) /\ tab \in Tabs
    BY DayIsInt DEF Booked, Books, Day
  <2>2. PICK a : a = AllocateLoan(entries, Day) /\ a \in LoanState
    BY <2>1, LoanOfLedger
  <2>3. PICK p : p = ComputePayoff(tab, entries, Day)
    OBVIOUS
  <2>4. /\ p.charged = a.charged /\ p.principal = a.principal /\ p.unpaid = a.unpaid
    BY <2>2, <2>3 DEF ComputePayoff
  <2>5. PICK rate \in Nat : rate = tab.rate
    BY <2>1 DEF Tabs
  <2>6. ASSUME NEW principal \in Int, NEW unpaid \in Int, NEW term,
               SuggestPayment(Terms(tab, principal, unpaid), term) > 0
        PROVE  LeastPayment(Terms(tab, principal, unpaid),
                            SuggestPayment(Terms(tab, principal, unpaid), term), term)
    <3>1. PICK t : t = Terms(tab, principal, unpaid)
      OBVIOUS
    <3>2. t.principal \in Int /\ t.unpaid \in Int /\ t.bp \in Nat /\ t.basis = RateBasis
      BY <2>5, <3>1 DEF Terms
    <3> QED BY <2>6, <3>1, <3>2, SuggestsLeast
  <2>7. p.charged \in Int /\ p.principal \in Int /\ p.unpaid \in Int
    BY <2>2, <2>4 DEF LoanState
  <2>8. PICK plan : plan = ComputePlan(tab, p)
    OBVIOUS
  <2>9. plan.suggested > 0 => LeastPayment(Terms(tab, p.charged, 0), plan.suggested, tab.term)
    <3>1. plan.suggested = SuggestPayment(Terms(tab, p.charged, 0), tab.term)
      BY <2>8 DEF ComputePlan
    <3> QED BY <2>6, <2>7, <3>1
  <2>10. plan.trueUp > 0 =>
           LeastPayment(Terms(tab, p.principal, p.unpaid), plan.trueUp, RemainingPeriods(tab, p))
    <3>1. plan.trueUp = IF RemainingPeriods(tab, p) > 0 /\ p.principal > 0
                        THEN SuggestPayment(Terms(tab, p.principal, p.unpaid), RemainingPeriods(tab, p))
                        ELSE 0
      BY <2>8 DEF ComputePlan
    <3> QED BY <2>6, <2>7, <3>1
  <2> QED BY <2>3, <2>8, <2>9, <2>10 DEF SuggestionIsLeast, LeastPayment
<1> QED BY <1>1, StaysBooked, PTL

-----------------------------------------------------------------------------
(* A year begins after the last month of the one before. *)
LEMMA NewYear ==
  ASSUME NEW y \in Nat \ {0}
  PROVE  MonthStart(y + 1, 1) = MonthStart(y, 12) + DaysIn(y, 12)
<1>1. PICK f : f = IF Leap(y) THEN 1 ELSE 0
  OBVIOUS
<1>2. Before(y, 12) = 334 + f /\ f \in {0, 1}
  BY <1>1, YearTable
<1>3. Before(y + 1, 1) = 0
  <2>1. PICK g : g = IF Leap(y + 1) THEN 1 ELSE 0
    OBVIOUS
  <2> QED BY <2>1, YearTable
<1>4. DaysIn(y, 12) = 31
  BY DEF DaysIn
<1>5. YearStart(y + 1) = YearStart(y) + 365 + f /\ YearStart(y) \in Int
  <2>1. YearStart(y + 1) = YearStart(y) + (IF Leap(y) THEN 366 ELSE 365)
    BY DEF YearStart, Leap
  <2>2. YearStart(y) \in Int
    BY DEF YearStart
  <2> QED BY <1>1, <2>1, <2>2
<1> QED BY <1>2, <1>3, <1>4, <1>5 DEF MonthStart

(* The day after a day has the next number. *)
LEMMA TomorrowIsNext ==
  ASSUME NEW d \in Dates
  PROVE  DayNumber(Tomorrow(d)) = DayNumber(d) + 1 /\ DayNumber(d) \in Int
<1>1. PICK y \in Nat \ {0}, m \in 1 .. 12, k \in 1 .. 31 :
        d = [year |-> y, month |-> m, day |-> k] /\ k <= DaysIn(y, m)
  BY DEF Dates
<1>2. PICK l \in 28 .. 31 : l = DaysIn(y, m)
  BY MonthLength
<1>3. PICK s \in Int : s = MonthStart(y, m)
  BY MonthsAreInts
<1>4. DayNumber(d) = s + k
  <2>1. d = Date(y, m, k) /\ k \in 1 .. DaysIn(y, m)
    BY <1>1, <1>2 DEF Date
  <2> QED BY <1>3, <2>1, NumberOf
<1>5. CASE k < l
  <2>1. d.day < DaysIn(d.year, d.month) /\ d.day # DaysIn(d.year, d.month)
    BY <1>1, <1>2, <1>5
  <2>2. Tomorrow(d) = [d EXCEPT !.day = @ + 1]
    BY <2>1, Zenon DEF Tomorrow
  <2>3. Tomorrow(d) = Date(y, m, k + 1) /\ k + 1 \in 1 .. DaysIn(y, m)
    BY <1>1, <1>2, <1>5, <2>2 DEF Date
  <2>4. DayNumber(Date(y, m, k + 1)) = MonthStart(y, m) + (k + 1)
    BY <2>3, NumberOf
  <2> QED BY <1>3, <1>4, <2>3, <2>4
<1>6. CASE k = l /\ m < 12
  <2>1. ~(k < l)
    BY <1>6
  <2>2. Tomorrow(d) = Date(y, m + 1, 1)
    BY <1>1, <1>2, <1>6, <2>1 DEF Tomorrow
  <2>3. m + 1 \in 1 .. 12 /\ 1 \in 1 .. DaysIn(y, m + 1)
    <3>1. DaysIn(y, m + 1) \in 28 .. 31
      BY MonthLength
    <3> QED BY <1>6, <3>1
  <2>4. DayNumber(Date(y, m + 1, 1)) = MonthStart(y, m + 1) + 1
    BY <2>3, NumberOf
  <2>5. MonthStart(y, m + 1) = s + l
    <3>1. Before(y, m + 1) = Before(y, m) + DaysIn(y, m) /\ Before(y, m) \in Int
      BY NextMonth
    <3>2. YearStart(y) \in Int
      BY MonthsAreInts
    <3> QED BY <1>2, <1>3, <3>1, <3>2 DEF MonthStart
  <2> QED BY <1>4, <1>6, <2>2, <2>4, <2>5
<1>7. CASE k = l /\ m = 12
  <2>1. ~(k < l) /\ ~(m < 12)
    BY <1>7
  <2>2. Tomorrow(d) = Date(y + 1, 1, 1)
    BY <1>1, <1>2, <1>7, <2>1 DEF Tomorrow
  <2>3. y + 1 \in Nat \ {0} /\ 1 \in 1 .. 12 /\ 1 \in 1 .. DaysIn(y + 1, 1)
    <3>1. DaysIn(y + 1, 1) \in 28 .. 31
      BY MonthLength
    <3> QED BY <3>1
  <2>4. DayNumber(Date(y + 1, 1, 1)) = MonthStart(y + 1, 1) + 1
    BY <2>3, NumberOf
  <2>5. MonthStart(y + 1, 1) = s + l
    BY <1>2, <1>3, <1>7, NewYear
  <2> QED BY <1>4, <1>7, <2>2, <2>4, <2>5
<1> QED BY <1>1, <1>2, <1>4, <1>5, <1>6, <1>7

(* And so do the days after. *)
LEMMA DaysLater ==
  ASSUME NEW d \in Dates, NEW n \in Nat
  PROVE  AddDays(d, n) \in Dates /\ DayNumber(AddDays(d, n)) = DayNumber(d) + n
<1> DEFINE Step(g) == [i \in 0 .. n |-> IF i = 0 THEN d ELSE Tomorrow(g[i - 1])]
           iter == CHOOSE g : g = Step(g)
<1>1. AddDays(d, n) = iter[n]
  BY DEF AddDays
<1>2. \E g : g = Step(g)
  <2>1. PICK step : step = [e \in Dates |-> Tomorrow(e)]
    OBVIOUS
  <2>2. \A e \in Dates : step[e] = Tomorrow(e) /\ step[e] \in Dates
    BY <2>1, TomorrowIsDate
  <2>3. PICK f : f \in Chains(n, Dates, d, step)
    BY <2>2, Iteration
  <2>4. f = Step(f)
    <3>1. f \in [0 .. n -> Dates] /\ f[0] = d /\ \A i \in 1 .. n : f[i] = step[f[i - 1]]
      BY <2>3 DEF Chains
    <3>2. ASSUME NEW i \in 0 .. n PROVE f[i] = IF i = 0 THEN d ELSE Tomorrow(f[i - 1])
      <4>1. CASE i # 0
        <5>1. i \in 1 .. n /\ i - 1 \in 0 .. n
          BY <4>1
        <5> QED BY <2>2, <3>1, <4>1, <5>1
      <4> QED BY <3>1, <4>1
    <3> QED BY <3>1, <3>2
  <2> QED BY <2>4
<1>3. iter = Step(iter)
  BY <1>2
<1>4. PICK k \in Int : k = DayNumber(d)
  BY TomorrowIsNext
<1> DEFINE G == {i \in Nat : i <= n => iter[i] \in Dates /\ DayNumber(iter[i]) = k + i}
<1>5. 0 \in G
  <2>1. 0 \in 0 .. n
    OBVIOUS
  <2>2. iter[0] = d
    BY <1>3, <2>1
  <2> QED BY <1>4, <2>2
<1>6. ASSUME NEW i \in Nat, i \in G PROVE i + 1 \in G
  <2>1. ASSUME i + 1 <= n PROVE iter[i + 1] \in Dates /\ DayNumber(iter[i + 1]) = k + (i + 1)
    <3>1. i + 1 \in 0 .. n /\ i + 1 # 0 /\ (i + 1) - 1 = i /\ i <= n
      BY <2>1
    <3>2. iter[i + 1] = Tomorrow(iter[i])
      BY <1>3, <3>1
    <3>3. iter[i] \in Dates /\ DayNumber(iter[i]) = k + i
      BY <1>6, <3>1
    <3> HIDE DEF iter
    <3>4. iter[i + 1] \in Dates /\ DayNumber(iter[i + 1]) = DayNumber(iter[i]) + 1
      BY <3>2, <3>3, TomorrowIsDate, TomorrowIsNext
    <3> QED BY <3>3, <3>4
  <2> QED BY <2>1
<1>7. n \in G
  <2>1. \A i \in Nat : i \in G => i + 1 \in G
    BY <1>6
  <2> HIDE DEF G
  <2> QED BY <1>5, <2>1, CountUp
<1> HIDE DEF iter
<1> QED BY <1>1, <1>4, <1>7

(* Later periods fall due later, whatever the schedule. *)
LEMMA DuesGrow ==
  ASSUME NEW n \in DOMAIN Due, NEW m \in DOMAIN Due, n < m
  PROVE  Due[n] < Due[m]
<1>1. PICK i \in Nat, j \in Nat :
        i = Begins(n) /\ Due[n] = DayNumber(Nth(i)) /\ j = Begins(m) /\ Due[m] = DayNumber(Nth(j)) /\ i < j
  <2>1. /\ n \in Nat /\ m \in Nat
        /\ Due[n] = DayNumber(Period(n).due) /\ Due[m] = DayNumber(Period(m).due)
    BY DEF Due
  <2>2. Begins(n) \in Nat /\ Begins(m) \in Nat /\ Begins(n) < Begins(m)
    BY <2>1 DEF Begins
  <2>3. Period(n).due = Nth(Begins(n)) /\ Period(m).due = Nth(Begins(m))
    BY DEF Period, Begins
  <2> QED BY <2>1, <2>2, <2>3
<1>2. CASE Monthly
  BY <1>1, <1>2, StartsGrow
<1>3. CASE Schedule.kind = "weekly"
  <2>1. PICK e \in Nat \ {0} : e = Every
    BY EveryIsNat
  <2>2. PICK k \in Nat, l \in Nat : k = 7 * e * i /\ l = 7 * e * j /\ k < l
    <3>1. PICK d \in Nat \ {0} : j = i + d
      <4>1. j - i \in Nat \ {0} /\ j = i + (j - i)
        BY <1>1
      <4> QED BY <4>1
    <3>2. PICK x \in Nat, y \in Nat, z \in Nat \ {0} : x = e * i /\ y = e * j /\ z = e * d
      BY SMT
    <3>3. y = x + z
      BY <3>1, <3>2, SMT
    <3>4. 7 * e * i = 7 * x /\ 7 * e * j = 7 * y
      BY <3>2, SMT
    <3> QED BY <3>2, <3>3, <3>4
  <2>3. PICK a \in Dates : a = Schedule.anchor
    BY ScheduleAssumption DEF Valid, ValidDate, Dates
  <2>4. Nth(i) = AddDays(a, k) /\ Nth(j) = AddDays(a, l)
    <3>1. \A x \in Nat : Nth(x) = AddDays(Schedule.anchor, 7 * Every * x)
      BY <1>3, Zenon DEF Nth
    <3> QED BY <2>1, <2>2, <2>3, <3>1
  <2>5. PICK s \in Int : s = DayNumber(a)
    BY TomorrowIsNext
  <2>6. DayNumber(Nth(i)) = s + k /\ DayNumber(Nth(j)) = s + l
    BY <2>4, <2>5, DaysLater
  <2> QED BY <1>1, <2>2, <2>6
<1> QED BY <1>2, <1>3, WeeklyElse

(* The periods due by a day are those before the next. *)
LEMMA DueBefore ==
  ASSUME NEW day \in Int, \A n \in DOMAIN Due : Due[n] # day, NEW first, first = NextDueIndex(day),
         NEW k \in Nat, first + k <= MaxPeriods
  PROVE  /\ first \in Nat
         /\ \A n \in DOMAIN Due : n >= first => day < Due[n]
         /\ Cardinality(DueThrough(day)) = first
         /\ k > 0 => Cardinality(DueThrough(Due[first + k - 1])) = first + k
<1>0. MaxPeriods \in Nat /\ DOMAIN Due = 0 .. MaxPeriods - 1
  BY ScheduleAssumption DEF Due
<1>1. /\ first \in 0 .. MaxPeriods
      /\ \A n \in 0 .. MaxPeriods - 1 : (n >= first => day < Due[n]) /\ (n < first => Due[n] <= day)
  <2>1. PICK ahead : ahead = {n \in DOMAIN Due : Due[n] >= day}
    OBVIOUS
  <2>2. CASE ahead = {}
    <3>1. first = MaxPeriods
      BY <2>1, <2>2 DEF NextDueIndex
    <3>2. \A n \in 0 .. MaxPeriods - 1 : Due[n] <= day /\ ~(n >= first)
      BY <1>0, <2>1, <2>2, <3>1, DuesAreInts
    <3> QED BY <1>0, <3>1, <3>2
  <2>3. CASE ahead # {}
    <3>1. PICK n \in ahead : \A m \in ahead : n <= m
      BY <1>0, <2>1, <2>3, Least
    <3>2. first = CHOOSE x \in ahead : \A m \in ahead : x <= m
      BY <2>1, <2>3 DEF NextDueIndex
    <3>3. first \in ahead /\ \A m \in ahead : first <= m
      BY <3>1, <3>2
    <3>4. first \in 0 .. MaxPeriods - 1 /\ Due[first] > day
      BY <1>0, <2>1, <3>3, DuesAreInts
    <3>5. ASSUME NEW m \in 0 .. MaxPeriods - 1, m >= first PROVE day < Due[m]
      <4>1. m = first \/ Due[first] < Due[m]
        BY <1>0, <3>4, <3>5, DuesGrow
      <4>2. Due[m] \in Int /\ Due[first] \in Int
        BY <1>0, <3>4, DuesAreInts
      <4> QED BY <3>4, <4>1, <4>2
    <3>6. ASSUME NEW m \in 0 .. MaxPeriods - 1, m < first PROVE Due[m] <= day
      <4>1. m \notin ahead /\ Due[m] \in Int
        BY <1>0, <3>3, <3>4, <3>6, DuesAreInts
      <4> QED BY <1>0, <2>1, <4>1
    <3> QED BY <1>0, <3>4, <3>5, <3>6
  <2> QED BY <2>2, <2>3
<1>2. ASSUME NEW m \in 0 .. MaxPeriods, NEW to \in Int,
             \A n \in 0 .. MaxPeriods - 1 : (n >= m => to < Due[n]) /\ (n < m => Due[n] <= to)
      PROVE  Cardinality(DueThrough(to)) = m
  <2>1. ASSUME NEW n PROVE n \in DueThrough(to) <=> n \in 0 .. m - 1
    <3>1. n \in DueThrough(to) <=> n \in 0 .. MaxPeriods - 1 /\ \A i \in 0 .. n : Due[i] <= to
      BY <1>0 DEF DueThrough
    <3>2. ASSUME n \in 0 .. m - 1 PROVE n \in DueThrough(to)
      <4>1. n \in 0 .. MaxPeriods - 1
        BY <1>0, <3>2
      <4>2. ASSUME NEW i \in 0 .. n PROVE Due[i] <= to
        <5>1. i \in 0 .. MaxPeriods - 1 /\ i < m
          BY <1>0, <3>2
        <5> QED BY <1>2, <5>1
      <4> QED BY <3>1, <4>1, <4>2
    <3>3. ASSUME n \in DueThrough(to) PROVE n \in 0 .. m - 1
      <4>1. n \in 0 .. MaxPeriods - 1 /\ Due[n] <= to
        <5>1. n \in 0 .. MaxPeriods - 1 => n \in 0 .. n
          BY <1>0
        <5> QED BY <3>1, <3>3, <5>1
      <4>2. Due[n] \in Int
        BY <1>0, <4>1, DuesAreInts
      <4>3. ~(n >= m)
        BY <1>2, <4>1, <4>2
      <4> QED BY <1>0, <4>1, <4>3
    <3> QED BY <3>2, <3>3
  <2>2. DueThrough(to) = 0 .. m - 1
    BY <2>1
  <2>3. PICK S : S = 0 .. m - 1
    OBVIOUS
  <2>4. Cardinality(S) = m
    <3>1. 0 \in Int /\ m - 1 \in Int /\ m \in Nat
      BY <1>0
    <3>2. Cardinality(0 .. m - 1) = IF 0 > m - 1 THEN 0 ELSE (m - 1) - 0 + 1
      BY <3>1, FS_Interval
    <3> QED BY <2>3, <3>1, <3>2
  <2> QED BY <2>2, <2>3, <2>4
<1>3. Cardinality(DueThrough(day)) = first
  BY <1>1, <1>2
<1>4. ASSUME k > 0 PROVE Cardinality(DueThrough(Due[first + k - 1])) = first + k
  <2>1. PICK l : l = first + k - 1 /\ l \in 0 .. MaxPeriods - 1 /\ first + k = l + 1
    BY <1>0, <1>1, <1>4
  <2>2. Due[l] \in Int
    BY <1>0, <2>1, DuesAreInts
  <2>3. ASSUME NEW n \in 0 .. MaxPeriods - 1
        PROVE  (n >= l + 1 => Due[l] < Due[n]) /\ (n < l + 1 => Due[n] <= Due[l])
    <3>1. Due[n] \in Int
      BY <1>0, DuesAreInts
    <3>2. n < l => Due[n] < Due[l]
      BY <1>0, <2>1, DuesGrow
    <3>3. n > l => Due[l] < Due[n]
      BY <1>0, <2>1, DuesGrow
    <3>4. n < l \/ n = l \/ n > l
      BY <1>0, <2>1
    <3> QED BY <1>0, <2>1, <2>2, <3>1, <3>2, <3>3, <3>4
  <2>4. l + 1 \in 0 .. MaxPeriods
    BY <1>0, <2>1
  <2>5. Cardinality(DueThrough(Due[l])) = l + 1
    BY <1>2, <2>2, <2>3, <2>4
  <2> QED BY <2>1, <2>5
<1> QED BY <1>0, <1>1, <1>3, <1>4

-----------------------------------------------------------------------------
(* What is charged is owed, and what is paid is not. *)
OfSign(e) ==
  /\ e.kind \in {"charge", "interest"} => e.amount <= 0
  /\ e.kind = "payment" => e.amount >= 0

Signed(es) == \A i \in 1 .. Len(es) : OfSign(es[i])

(* A row of the right sign keeps the signs of a ledger right. *)
LEMMA SignsGoOn ==
  ASSUME NEW es \in Seq(Entry), Signed(es), NEW row, OfSign(row)
  PROVE  Signed(Append(es, row))
<1>1. ASSUME NEW i \in 1 .. Len(es) + 1 PROVE OfSign(Append(es, row)[i])
  <2>1. CASE i = Len(es) + 1
    <3>1. Append(es, row)[i] = row
      BY <2>1
    <3> QED BY <3>1
  <2>2. CASE i # Len(es) + 1
    <3>1. i \in 1 .. Len(es) /\ Append(es, row)[i] = es[i]
      BY <2>2
    <3> QED BY <3>1 DEF Signed
  <2> QED BY <2>1, <2>2
<1>2. Len(Append(es, row)) = Len(es) + 1
  OBVIOUS
<1> QED BY <1>1, <1>2 DEF Signed

(* Every posting has the sign of its kind. *)
LEMMA NextSigned ==
  ASSUME Booked, Signed(entries), [Next]_vars
  PROVE  Signed(entries')
<1>1. entries \in Seq(Entry)
  BY DEF Booked, Books, Ledger
<1>2. CASE UNCHANGED entries
  BY <1>2 DEF Signed
<1>3. CASE \E row : entries' = Append(entries, row) /\ OfSign(row)
  BY <1>1, <1>3, SignsGoOn
<1>4. ASSUME NEW kind, NEW amount, NEW at, NEW reverses, Post(Row(kind, amount, at, reverses)),
             kind = "charge" => amount <= 0, kind = "payment" => amount >= 0, kind # "interest"
      PROVE  \E row : entries' = Append(entries, row) /\ OfSign(row)
  <2>1. PICK row : row = Row(kind, amount, at, reverses)
    OBVIOUS
  <2>2. row.kind = kind /\ row.amount = amount
    BY <2>1 DEF Row
  <2> QED BY <1>4, <2>1, <2>2 DEF Post, OfSign
<1>5. CASE PostCharge
  <2>1. PICK a \in Charges, now \in Now : Post(Row("charge", -a, now, 0))
    BY <1>5 DEF PostCharge
  <2>2. -a <= 0
    BY AmountsAssumption
  <2> QED BY <1>3, <1>4, <2>1, <2>2
<1>6. CASE PostPayment
  <2>1. PICK a \in Payments, now \in Now : Post(Row("payment", a, now, 0))
    BY <1>6 DEF PostPayment
  <2>2. a >= 0
    BY AmountsAssumption
  <2> QED BY <1>3, <1>4, <2>1, <2>2
<1>7. CASE PostAdjustment
  <2>1. PICK a \in Adjustments, now \in Now : Post(Row("adjustment", a, now, 0))
    BY <1>7 DEF PostAdjustment
  <2> QED BY <1>3, <1>4, <2>1
<1>8. CASE PostFee
  <2>1. PICK a \in Fees : Post(Row("fee", -a, Midnight(Day), 0))
    BY <1>8 DEF PostFee
  <2> QED BY <1>3, <1>4, <2>1
<1>9. CASE RecordBankLine
  <2>1. PICK a \in Payments, d \in BankDates :
          Post(Row("payment", a, Noon(DayNumber(d)), 0))
    BY <1>9 DEF RecordBankLine
  <2>2. a >= 0
    BY AmountsAssumption
  <2> QED BY <1>3, <1>4, <2>1, <2>2
<1>10. CASE ConfirmMatch
  <2>1. PICK a \in Differences, d \in BankDates :
          Post(Row(IF a > 0 THEN "payment" ELSE "adjustment", a, Noon(DayNumber(d)), 0))
    BY <1>10 DEF ConfirmMatch
  <2>2. PICK kind \in {"payment", "adjustment"} : kind = IF a > 0 THEN "payment" ELSE "adjustment"
    OBVIOUS
  <2>3. a \in Int
    BY AmountsAssumption
  <2>4. kind = "payment" => a >= 0
    BY <2>2, <2>3
  <2>5. Post(Row(kind, a, Noon(DayNumber(d)), 0))
    BY <2>1, <2>2
  <2> QED BY <1>3, <1>4, <2>4, <2>5
<1>11. CASE Undo
  <2>1. PICK e \in Live(entries), now \in Now : Post(Row("reversal", -e.amount, now, e.seq))
    BY <1>11 DEF Undo
  <2> QED BY <1>3, <1>4, <2>1
<1>12. ASSUME NEW r \in Readers, NEW due \in reader[r].todo, reader[r].pc = "post", PostInterest(r, due)
       PROVE  Signed(entries')
  <2>1. PICK row : row = Row("interest", -Amount(r, due), Midnight(due), 0)
    OBVIOUS
  <2>2. entries' = Append(entries, row) /\ Amount(r, due) > 0
    BY <1>12, <2>1 DEF PostInterest
  <2>3. PICK n \in Int : n = Amount(r, due)
    <3>1. due \in Int /\ Kept(reader[r], entries, Day) /\ Ledger(entries) /\ Day \in Int
      BY <1>12, DayIsInt DEF Booked, Books, Kept, Day
    <3> QED BY <1>12, <3>1, AmountIsInt
  <2>4. row.kind = "interest" /\ row.amount = -n
    BY <2>1, <2>3 DEF Row
  <2>5. OfSign(row)
    BY <2>2, <2>3, <2>4 DEF OfSign
  <2> QED BY <1>3, <2>2, <2>5
<1>13. \/ UNCHANGED entries
       \/ PostCharge \/ PostPayment \/ PostAdjustment \/ PostFee
       \/ RecordBankLine \/ ConfirmMatch \/ Undo
       \/ \E r \in Readers : reader[r].pc = "post" /\ \E due \in reader[r].todo : PostInterest(r, due)
  BY DEF vars, Next, SetTerms, NextDay, AccrueInterest, ReadTab, ReadEntries, ReadClaims, Finish,
    Fail, PassOver, Replayed
<1> QED BY <1>2, <1>5, <1>6, <1>7, <1>8, <1>9, <1>10, <1>11, <1>12, <1>13

SignedBook == Booked /\ Signed(entries)

LEMMA StaysSigned == Spec => []SignedBook
<1>1. Init => Signed(entries)
  <2> SUFFICES ASSUME Init PROVE Signed(entries)
    OBVIOUS
  <2>1. PICK row : row = [seq |-> 1, kind |-> "charge", amount |-> -Opening, at |-> Midnight(Day) + 1,
                          reverses |-> 0]
    OBVIOUS
  <2>2. entries = <<row>>
    BY <2>1 DEF Init
  <2>3. -Opening <= 0
    BY AmountsAssumption
  <2>4. OfSign(row)
    BY <2>1, <2>3 DEF OfSign
  <2> QED BY <2>2, <2>4 DEF Signed
<1>2. Init => SignedBook
  BY <1>1, BookedStart DEF SignedBook
<1>3. SignedBook /\ [Next]_vars => SignedBook'
  BY NextBooked, NextSigned DEF SignedBook
<1> QED BY <1>2, <1>3, PTL DEF Spec

-----------------------------------------------------------------------------
(* A loan on which nothing is negative that is owed, paid or ahead. *)
SoundLoan ==
  [principal : Nat, unpaid : Nat, charged : Int, interest : Int, paid : Nat, ahead : Nat,
   credited : Int]

(* Interest is owed. *)
LEMMA InterestOwed ==
  ASSUME NEW a \in SoundLoan, NEW e, e.kind = "interest", NEW n \in Int, n = e.amount
  PROVE  Replay(a, e) = [principal |-> a.principal, unpaid |-> a.unpaid - n, charged |-> a.charged,
                         interest |-> a.interest - n, paid |-> a.paid, ahead |-> a.ahead,
                         credited |-> a.credited]
<1>1. Replay(a, e) = [a EXCEPT !.interest = @ - n, !.unpaid = @ - n]
  BY Zenon DEF Replay
<1>2. PICK p \in Nat, u \in Nat, c \in Int, i \in Int, q \in Nat, h \in Nat, d \in Int :
        a = [principal |-> p, unpaid |-> u, charged |-> c, interest |-> i, paid |-> q,
             ahead |-> h, credited |-> d]
  BY DEF SoundLoan
<1> QED BY <1>1, <1>2

(* A payment goes to the interest, then to the principal, and what is left of
   it is ahead. *)
LEMMA PaymentSpent ==
  ASSUME NEW a \in SoundLoan, NEW e, e.kind = "payment", NEW n \in Nat, n = e.amount,
         NEW s, s = Lesser(n, a.unpaid), NEW t, t = Lesser(n - s, a.principal)
  PROVE  /\ Replay(a, e) = [principal |-> a.principal - t, unpaid |-> a.unpaid - s, charged |-> a.charged,
                            interest |-> a.interest, paid |-> a.paid + n, ahead |-> a.ahead + n - s - t,
                            credited |-> a.credited]
         /\ s \in Nat /\ t \in Nat /\ s <= a.unpaid /\ t <= a.principal /\ s + t <= n
<1>1. Replay(a, e) = Apply([a EXCEPT !.paid = @ + n], n)
  BY Zenon DEF Replay
<1>2. PICK p \in Nat, u \in Nat, c \in Int, i \in Int, q \in Nat, h \in Nat, d \in Int :
        a = [principal |-> p, unpaid |-> u, charged |-> c, interest |-> i, paid |-> q,
             ahead |-> h, credited |-> d]
  BY DEF SoundLoan
<1>3. s \in Nat /\ s <= u /\ s <= n
  BY <1>2 DEF Lesser
<1>4. t \in Nat /\ t <= p /\ t <= n - s
  BY <1>2, <1>3 DEF Lesser
<1>5. Replay(a, e) = [principal |-> p - t, unpaid |-> u - s, charged |-> c, interest |-> i,
                      paid |-> q + n, ahead |-> h + n - s - t, credited |-> d]
  <2>1. PICK b : b = [principal |-> p, unpaid |-> u, charged |-> c, interest |-> i, paid |-> q + n,
                      ahead |-> h, credited |-> d]
    OBVIOUS
  <2>2. b = [a EXCEPT !.paid = @ + n] /\ q + n \in Int
    BY <1>2, <2>1
  <2>3. s = Lesser(n, u) /\ t = Lesser(n - s, p)
    BY <1>2
  <2>4. Shows(b, p, u, c, i, q + n, h, d)
    BY <2>1 DEF Shows
  <2>5. Shows(Apply(b, n), p - t, u - s, c, i, q + n, h + n - s - t, d)
    <3>1. /\ p \in Int /\ u \in Int /\ c \in Int /\ i \in Int /\ q + n \in Int /\ h \in Int /\ d \in Int
          /\ s \in Int /\ t \in Int /\ n \in Int
      BY <1>2, <1>3, <1>4, <2>2
    <3> QED BY <2>3, <2>4, <3>1, SpentOnInterest, Zenon
  <2> QED BY <1>1, <2>2, <2>5, Zenon DEF Shows
<1> QED BY <1>2, <1>3, <1>4, <1>5

(* No entry makes a figure of a sound loan negative. *)
LEMMA ReplaySound ==
  ASSUME NEW a \in SoundLoan, NEW e \in Entry, e.kind # "reversal", OfSign(e)
  PROVE  Replay(a, e) \in SoundLoan
<1>1. PICK n \in Int : n = e.amount
  BY DEF Entry
<1>2. PICK p \in Nat, u \in Nat, c \in Int, i \in Int, q \in Nat, h \in Nat, d \in Int :
        a = [principal |-> p, unpaid |-> u, charged |-> c, interest |-> i, paid |-> q,
             ahead |-> h, credited |-> d]
  BY DEF SoundLoan
<1>3. CASE e.kind = "interest"
  <2>1. Replay(a, e) = [principal |-> p, unpaid |-> u - n, charged |-> c, interest |-> i - n,
                        paid |-> q, ahead |-> h, credited |-> d]
    BY <1>1, <1>2, <1>3, InterestOwed
  <2>2. u - n \in Nat /\ i - n \in Int
    BY <1>1, <1>3 DEF OfSign
  <2> QED BY <2>1, <2>2 DEF SoundLoan
<1>4. CASE e.kind = "charge" \/ (e.kind = "adjustment" /\ e.amount < 0)
  <2>1. Replay(a, e) = [a EXCEPT !.charged = @ - n, !.principal = @ - n]
    <3>1. e.amount < 0 => ~(e.amount >= 0)
      BY <1>1
    <3>2. CASE e.kind = "charge"
      BY <1>1, <3>2, Zenon DEF Replay
    <3>3. CASE e.kind = "adjustment" /\ e.amount < 0
      BY <1>1, <3>1, <3>3, Zenon DEF Replay
    <3> QED BY <1>4, <3>2, <3>3
  <2>2. Replay(a, e) = [principal |-> p - n, unpaid |-> u, charged |-> c - n, interest |-> i,
                        paid |-> q, ahead |-> h, credited |-> d]
    BY <1>2, <2>1
  <2>3. p - n \in Nat /\ c - n \in Int
    BY <1>1, <1>4 DEF OfSign
  <2> QED BY <2>2, <2>3 DEF SoundLoan
<1>5. CASE e.kind = "payment"
  <2>1. n \in Nat
    BY <1>1, <1>5 DEF OfSign
  <2>2. PICK s, t : s = Lesser(n, a.unpaid) /\ t = Lesser(n - s, a.principal)
    OBVIOUS
  <2>3. /\ Replay(a, e) = [principal |-> p - t, unpaid |-> u - s, charged |-> c,
                           interest |-> i, paid |-> q + n, ahead |-> h + n - s - t, credited |-> d]
        /\ s \in Nat /\ t \in Nat /\ s <= u /\ t <= p /\ s + t <= n
    BY <1>1, <1>2, <1>5, <2>1, <2>2, PaymentSpent
  <2>4. p - t \in Nat /\ u - s \in Nat /\ q + n \in Nat /\ h + n - s - t \in Nat
    BY <2>1, <2>3
  <2> QED BY <2>3, <2>4 DEF SoundLoan
<1>6. CASE e.kind = "adjustment" /\ e.amount >= 0
  <2>1. PICK t \in Nat : t = Lesser(n, p) /\ t <= p /\ t <= n
    BY <1>1, <1>6 DEF Lesser
  <2>2. PICK s \in Nat : s = Lesser(n - t, u) /\ s <= u /\ s <= n - t
    BY <1>1, <1>6, <2>1 DEF Lesser
  <2>3. ~(e.amount < 0)
    BY <1>1, <1>6
  <2>4. Replay(a, e) = ApplyPrincipalFirst([a EXCEPT !.credited = @ + n], n)
    BY <1>1, <1>6, <2>3, Zenon DEF Replay
  <2>5. Replay(a, e) = [principal |-> p - t, unpaid |-> u - s, charged |-> c, interest |-> i,
                        paid |-> q, ahead |-> h + n - s - t, credited |-> d + n]
    <3>1. PICK b : b = [principal |-> p, unpaid |-> u, charged |-> c, interest |-> i, paid |-> q,
                        ahead |-> h, credited |-> d + n]
      OBVIOUS
    <3>2. b = [a EXCEPT !.credited = @ + n] /\ d + n \in Int
      BY <1>1, <1>2, <3>1
    <3>3. s \in Int /\ t \in Int
      BY <2>1, <2>2
    <3>4. Shows(b, p, u, c, i, q, h, d + n)
      BY <3>1 DEF Shows
    <3>5. Shows(ApplyPrincipalFirst(b, n), p - t, u - s, c, i, q, h + n - s - t, d + n)
      <4>1. p \in Int /\ u \in Int /\ c \in Int /\ i \in Int /\ q \in Int /\ h \in Int /\ d + n \in Int
        BY <1>2, <3>2
      <4> QED BY <1>1, <2>1, <2>2, <3>3, <3>4, <4>1, SpentOnPrincipal, Zenon
    <3> QED BY <2>4, <3>2, <3>5, Zenon DEF Shows
  <2>6. p - t \in Nat /\ u - s \in Nat /\ d + n \in Int /\ h + n - s - t \in Nat
    BY <1>1, <2>1, <2>2
  <2> QED BY <2>5, <2>6 DEF SoundLoan
<1>7. CASE e.kind = "fee"
  BY <1>7, Zenon DEF Replay
<1>8. e.kind \in {"charge", "payment", "adjustment", "fee", "interest"} /\ (e.amount < 0 \/ e.amount >= 0)
  BY <1>1 DEF Entry, Kinds
<1> QED BY <1>3, <1>4, <1>5, <1>6, <1>7, <1>8

(* So it is with the loan of a ledger. *)
LEMMA LoanIsSound ==
  ASSUME NEW es, NEW day \in Int, Ledger(es), Signed(es)
  PROVE  AllocateLoan(es, day) \in SoundLoan
<1>1. PICK S : S = AsOf(Live(es), day)
  OBVIOUS
<1>2. Entries(S) /\ S \subseteq ToSet(es) /\ \A e \in S : e.kind # "reversal"
  <2>1. S \subseteq ToSet(es)
    BY <1>1 DEF AsOf, Live
  <2>2. Entries(S)
    BY <2>1, LedgerEntries, SomeEntries
  <2> QED BY <1>1, <2>1, <2>2 DEF AsOf, Live
<1>3. \A e \in S : e \in Entry /\ OfSign(e)
  <2>1. \A e \in ToSet(es) : \E i \in 1 .. Len(es) : e = es[i]
    BY ToSetOf DEF Ledger
  <2> QED BY <1>2, <2>1 DEF Signed, Entries
<1>4. PICK f : ReplaysBy(f, S) /\ AllocateLoan(es, day) = f[S]
  BY <1>1, <1>2, Replays
<1> DEFINE G == {T \in SUBSET S : f[T] \in SoundLoan}
<1>5. {} \in G
  <2>1. Untouched \in SoundLoan
    BY DEF Untouched, SoundLoan
  <2> QED BY <1>4, <2>1 DEF ReplaysBy
<1>6. ASSUME NEW T \in SUBSET S, T # {} PROVE \E x \in T : T \ {x} \in G => T \in G
  <2>1. PICK x \in T : x = Latest(T)
    BY <1>2, <1>6, LatestIsOne
  <2>2. ASSUME T \ {x} \in G PROVE T \in G
    <3>1. f[T] = Replay(f[T \ {x}], x)
      BY <1>4, <1>6, <2>1 DEF ReplaysBy
    <3> QED BY <1>2, <1>3, <2>2, <3>1, ReplaySound
  <2> QED BY <2>2
<1>7. IsFiniteSet(S)
  BY <1>2 DEF Entries
<1>8. S \in G
  <2>1. \A T \in SUBSET S : T # {} => \E x \in T : T \ {x} \in G => T \in G
    BY <1>6
  <2> HIDE DEF G
  <2>2. \A T \in SUBSET S : T \in G
    BY <1>5, <1>7, <2>1, TakeAway
  <2> QED BY <2>2
<1> QED BY <1>4, <1>8

-----------------------------------------------------------------------------
(* On a day after its last entry, and on any other such day, a ledger's loan is
   the same: all of its live entries count. *)
LEMMA AllCount ==
  ASSUME NEW es, NEW day \in Int, LedgerOf(es, day)
  PROVE  /\ AsOf(Live(es), day) = Live(es)
         /\ Entries(Live(es)) /\ \A e \in Live(es) : e.kind # "reversal" /\ e \in Entry
<1>1. Entries(Live(es)) /\ Live(es) \subseteq ToSet(es) /\ ToSet(es) \subseteq Entry
  BY LedgerEntries, SomeEntries DEF LedgerOf, Entries
<1>2. AsOf(Live(es), day) = Live(es)
  BY DEF LedgerOf, AsOf
<1> QED BY <1>1, <1>2 DEF Live

(* The same replays, of the same entries, make the same loans. *)
LEMMA ReplaysAgree ==
  ASSUME NEW S, Entries(S), NEW R \in SUBSET S, NEW f, ReplaysBy(f, R), NEW g, ReplaysBy(g, S)
  PROVE  f[R] = g[R]
<1> DEFINE G == {T \in SUBSET R : f[T] = g[T]}
<1>1. {} \in G
  BY DEF ReplaysBy
<1>2. ASSUME NEW T \in SUBSET R, T # {} PROVE \E x \in T : T \ {x} \in G => T \in G
  <2>1. PICK x \in T : x = Latest(T)
    BY <1>2, LatestIsOne
  <2>2. f[T] = Replay(f[T \ {x}], x) /\ g[T] = Replay(g[T \ {x}], x)
    BY <1>2, <2>1 DEF ReplaysBy
  <2> QED BY <2>2
<1>3. IsFiniteSet(R)
  BY SomeEntries DEF Entries
<1>4. R \in G
  <2>1. \A T \in SUBSET R : T # {} => \E x \in T : T \ {x} \in G => T \in G
    BY <1>2
  <2> HIDE DEF G
  <2>2. \A T \in SUBSET R : T \in G
    BY <1>1, <1>3, <2>1, TakeAway
  <2> QED BY <2>2
<1> QED BY <1>4

(* So the loan of a ledger is the same on any day after its last entry. *)
LEMMA SameLoanLater ==
  ASSUME NEW es, NEW day \in Int, LedgerOf(es, day), NEW later \in Int, day <= later
  PROVE  LedgerOf(es, later) /\ AllocateLoan(es, later) = AllocateLoan(es, day)
<1>1. LedgerOf(es, later)
  BY LaterDay
<1>2. PICK S : S = Live(es)
  OBVIOUS
<1>3. Entries(S) /\ \A e \in S : e.kind # "reversal"
  BY <1>2, AllCount
<1>4. S = AsOf(Live(es), day) /\ S = AsOf(Live(es), later)
  BY <1>1, <1>2, AllCount
<1>5. PICK f : ReplaysBy(f, S) /\ AllocateLoan(es, day) = f[S]
  <2>1. S = AsOf(Live(es), day)
    BY <1>4
  <2> QED BY <1>3, <2>1, Replays
<1>6. PICK g : ReplaysBy(g, S) /\ AllocateLoan(es, later) = g[S]
  <2>1. S = AsOf(Live(es), later)
    BY <1>4
  <2> QED BY <1>3, <2>1, Replays
<1>7. f[S] = g[S]
  BY <1>3, <1>5, <1>6, ReplaysAgree
<1> QED BY <1>1, <1>5, <1>6, <1>7

(* An entry that comes after those of a ledger, and undoes none. *)
Newest(row, es, day) ==
  /\ row \in Entry /\ row.seq = Len(es) + 1 /\ DayOf(row) <= day
  /\ row.reverses = 0 /\ row.kind # "reversal"
  /\ \A e \in Live(es) : e.at <= row.at

(* It is replayed last. *)
Adds(fs, row, es, day) ==
  /\ LedgerOf(fs, day) /\ Live(fs) = Live(es) \cup {row}
  /\ AllocateLoan(fs, day) = Replay(AllocateLoan(es, day), row)

LEMMA LastReplayed ==
  ASSUME NEW es, NEW day \in Int, LedgerOf(es, day), NEW row, Newest(row, es, day),
         NEW fs, fs = Append(es, row)
  PROVE  Adds(fs, row, es, day)
<1>0. /\ row \in Entry /\ row.seq = Len(es) + 1 /\ DayOf(row) <= day
      /\ row.reverses = 0 /\ row.kind # "reversal"
      /\ \A e \in Live(es) : e.at <= row.at
  BY DEF Newest
<1>1. LedgerOf(fs, day) /\ Ledger(es)
  <2>1. Ledger(fs) /\ Live(fs) = Live(es) \cup {row}
    BY <1>0, PlainEntry DEF LedgerOf
  <2> QED BY <1>0, <2>1 DEF LedgerOf
<1>2. es \in Seq(Entry) /\ Len(es) \in Nat
  BY DEF LedgerOf, Ledger
<1>3. row \notin ToSet(es) /\ row.seq \notin ReversedSeqs(es)
  <2>1. \A e \in ToSet(es) : e.seq # row.seq /\ e.reverses # row.seq
    BY <1>0, <1>1, <1>2, LedgerEntries
  <2> QED BY <2>1 DEF ReversedSeqs
<1>4. ToSet(fs) = ToSet(es) \cup {row}
  BY <1>0, <1>2, ToSetOf
<1>5. ReversedSeqs(fs) = ReversedSeqs(es)
  BY <1>0, <1>4 DEF ReversedSeqs
<1>6. Live(fs) = Live(es) \cup {row}
  BY <1>0, <1>3, <1>4, <1>5 DEF Live
<1>7. PICK R, S : R = Live(es) /\ S = Live(fs)
  OBVIOUS
<1>8. /\ Entries(R) /\ Entries(S) /\ R = AsOf(Live(es), day) /\ S = AsOf(Live(fs), day)
      /\ \A e \in R : e.kind # "reversal"
      /\ \A e \in S : e.kind # "reversal"
  BY <1>1, <1>7, AllCount
<1>9. PICK f : ReplaysBy(f, R) /\ AllocateLoan(es, day) = f[R]
  BY <1>8, Replays
<1>10. PICK g : ReplaysBy(g, S) /\ AllocateLoan(fs, day) = g[S]
  BY <1>8, Replays
<1>11. Latest(S) = row
  <2>1. row \in S /\ S \ {row} = R
    <3>1. R \subseteq ToSet(es)
      BY <1>1, <1>7, LedgerEntries
    <3> QED BY <1>3, <1>6, <1>7, <3>1
  <2>2. \A e \in R : Earlier(e, row)
    <3> TAKE e \in R
    <3>1. e.at <= row.at /\ e.seq < row.seq /\ e.at \in Int /\ row.at \in Int
      <4>1. e \in ToSet(es) /\ e.at <= row.at
        BY <1>0, <1>7, <1>1, LedgerEntries
      <4>2. e \in Entry /\ e.seq \in 1 .. Len(es)
        BY <4>1, <1>1, LedgerEntries DEF Entries
      <4> QED BY <1>0, <1>2, <4>1, <4>2 DEF Entry
    <3> QED BY <3>1 DEF Earlier
  <2>3. ASSUME NEW x \in S, \A e \in S \ {x} : Earlier(e, x) PROVE x = row
    <3>1. SUFFICES ASSUME x # row PROVE FALSE
      OBVIOUS
    <3>2. Earlier(row, x) /\ Earlier(x, row)
      BY <2>1, <2>2, <2>3, <3>1
    <3>3. x \in Entry
      BY <1>8 DEF Entries
    <3> QED BY <1>0, <3>2, <3>3 DEF Earlier, Entry
  <2>4. \E x \in S : \A e \in S \ {x} : Earlier(e, x)
    BY <2>1, <2>2
  <2> QED BY <2>3, <2>4 DEF Latest
<1>12. g[S] = Replay(g[R], row)
  <2>1. S # {} /\ S \ {row} = R
    <3>1. R \subseteq ToSet(es)
      BY <1>1, <1>7, LedgerEntries
    <3> QED BY <1>3, <1>6, <1>7, <3>1
  <2> QED BY <1>10, <1>11, <2>1 DEF ReplaysBy
<1>13. f[R] = g[R]
  <2>1. R \in SUBSET S /\ Entries(S) /\ ReplaysBy(f, R) /\ ReplaysBy(g, S)
    BY <1>6, <1>7, <1>8, <1>9, <1>10
  <2> QED BY <2>1, ReplaysAgree, Zenon
<1> QED BY <1>1, <1>6, <1>9, <1>10, <1>12, <1>13 DEF Adds

(* Entries that are no fees leave the fees as they are. *)
LEMMA FeesStay ==
  ASSUME NEW es, NEW fs, NEW row, Live(fs) = Live(es) \cup {row}, row.kind # "fee"
  PROVE  FeesOf(fs) = FeesOf(es)
<1>1. {e \in Live(fs) : e.kind = "fee"} = {e \in Live(es) : e.kind = "fee"}
  OBVIOUS
<1> QED BY <1>1 DEF FeesOf

(* What following a row makes of a loan: the interest d is charged on the
   principal, and the amount goes to what is unpaid, then to the principal. *)
Repaid(a, d, amount) ==
  LET s == Lesser(amount, a.unpaid + d)
      t == Lesser(amount - s, a.principal)
  IN [principal |-> a.principal - t, unpaid |-> a.unpaid + d - s, charged |-> a.charged,
      interest |-> a.interest + d, paid |-> a.paid + amount, ahead |-> a.ahead + amount - s - t,
      credited |-> a.credited]

(* By a day a ledger has become another, with the same fees and the loan c. *)
Leaves(fs, due, es, c) ==
  LedgerOf(fs, due) /\ FeesOf(fs) = FeesOf(es) /\ AllocateLoan(fs, due) = c /\ c \in SoundLoan

LEMMA RowFollowed ==
  ASSUME NEW es, NEW day \in Int, LedgerOf(es, day), NEW row, row.due \in Int, day < row.due,
         row.amount \in Nat, NEW a, a = AllocateLoan(es, day), a \in SoundLoan,
         NEW d \in Nat, d = InterestFor(a.principal, tab.rate, RateBasis),
         NEW fs, fs = FollowRow(es, row)
  PROVE  Leaves(fs, row.due, es, Repaid(a, d, row.amount))
<1>1. PICK due \in Int, n \in Nat : due = row.due /\ n = row.amount /\ day < due
  OBVIOUS
<1>2. LedgerOf(es, due) /\ AllocateLoan(es, due) = a
  BY <1>1, SameLoanLater
<1>3. es \in Seq(Entry) /\ Len(es) \in Nat
  BY DEF LedgerOf, Ledger
<1>4. PICK k \in Nat : k = Len(es)
  BY <1>3
<1>5. PICK x, y : /\ x = [seq |-> k + 1, kind |-> "interest", amount |-> -d, at |-> 4 * due, reverses |-> 0]
                  /\ y = [seq |-> k + 2, kind |-> "payment", amount |-> n, at |-> 4 * due + 1, reverses |-> 0]
  OBVIOUS
<1>6. x \in Entry /\ y \in Entry
  BY <1>5 DEF Entry, Kinds
<1>7. DayOf(x) = due /\ DayOf(y) = due
  BY <1>5 DEF DayOf
<1>8. PICK gs : gs = Append(es, x)
  OBVIOUS
<1>9. fs = Append(gs, y) /\ Len(gs) = k + 1
  <2>1. fs = es \o <<x, y>>
    BY <1>1, <1>2, <1>4, <1>5 DEF FollowRow, Midnight
  <2>2. es \o <<x, y>> = Append(Append(es, x), y)
    BY <1>3, <1>6
  <2> QED BY <1>3, <1>4, <1>8, <2>1, <2>2
<1>10. \A e \in Live(es) : e.at < 4 * due
  <2> TAKE e \in Live(es)
  <2>1. e \in Entry /\ DayOf(e) <= day
    BY LedgerEntries DEF LedgerOf, Entries
  <2>2. e.at \in Int /\ e.at \div 4 <= day
    BY <2>1 DEF Entry, DayOf
  <2> QED BY <1>1, <2>2
<1>11. /\ LedgerOf(gs, due) /\ Live(gs) = Live(es) \cup {x}
       /\ AllocateLoan(gs, due) = Replay(a, x)
  <2>1. x.seq = Len(es) + 1 /\ DayOf(x) <= due /\ x.reverses = 0 /\ x.kind # "reversal" /\ x.at = 4 * due
    BY <1>4, <1>5, <1>7
  <2>2. \A e \in Live(es) : e.at <= x.at
    <3> TAKE e \in Live(es)
    <3>1. e.at \in Int
      BY LedgerEntries DEF LedgerOf, Entries, Entry
    <3> QED BY <1>10, <2>1, <3>1
  <2>3. Newest(x, es, due)
    BY <1>6, <2>1, <2>2 DEF Newest
  <2>4. Adds(gs, x, es, due)
    BY <1>1, <1>2, <1>8, <2>3, LastReplayed, Zenon
  <2> QED BY <1>2, <2>4 DEF Adds
<1>12. /\ LedgerOf(fs, due) /\ Live(fs) = Live(gs) \cup {y}
       /\ AllocateLoan(fs, due) = Replay(Replay(a, x), y)
  <2>1. y.seq = Len(gs) + 1 /\ DayOf(y) <= due /\ y.reverses = 0 /\ y.kind # "reversal" /\ y.at = 4 * due + 1
    BY <1>5, <1>7, <1>9
  <2>2. \A e \in Live(gs) : e.at <= y.at
    <3> TAKE e \in Live(gs)
    <3>1. CASE e \in Live(es)
      <4>1. e.at \in Int
        BY <3>1, LedgerEntries DEF LedgerOf, Entries, Entry
      <4> QED BY <1>10, <2>1, <3>1, <4>1
    <3>2. CASE e = x
      BY <1>5, <2>1, <3>2
    <3> QED BY <1>11, <3>1, <3>2
  <2>3. Newest(y, gs, due)
    BY <1>6, <2>1, <2>2 DEF Newest
  <2>4. Adds(fs, y, gs, due)
    BY <1>1, <1>9, <1>11, <2>3, LastReplayed, Zenon
  <2> QED BY <1>11, <2>4 DEF Adds
<1>13. FeesOf(fs) = FeesOf(es)
  <2>1. FeesOf(gs) = FeesOf(es)
    BY <1>5, <1>11, FeesStay
  <2>2. FeesOf(fs) = FeesOf(gs)
    BY <1>5, <1>12, FeesStay
  <2> QED BY <2>1, <2>2
<1>14. Replay(Replay(a, x), y) = Repaid(a, d, n) /\ Replay(Replay(a, x), y) \in SoundLoan
  <2>1. PICK b : b = Replay(a, x)
    OBVIOUS
  <2>2. OfSign(x) /\ OfSign(y) /\ x.kind = "interest" /\ y.kind = "payment" /\ x.amount = -d /\ y.amount = n
    BY <1>5 DEF OfSign
  <2>3. b \in SoundLoan /\ Replay(b, y) \in SoundLoan
    BY <1>6, <2>1, <2>2, ReplaySound
  <2>4. PICK p \in Nat, u \in Nat, c \in Int, i \in Int, q \in Nat, h \in Nat, e \in Int :
          a = [principal |-> p, unpaid |-> u, charged |-> c, interest |-> i, paid |-> q,
               ahead |-> h, credited |-> e]
    BY DEF SoundLoan
  <2>5. b = [principal |-> p, unpaid |-> u + d, charged |-> c, interest |-> i + d, paid |-> q,
             ahead |-> h, credited |-> e]
    <3>1. -d \in Int /\ u - (-d) = u + d /\ i - (-d) = i + d
      BY <2>4
    <3> QED BY <2>1, <2>2, <2>4, <3>1, InterestOwed
  <2>6. PICK s \in Int, t \in Int : s = Lesser(n, u + d) /\ t = Lesser(n - s, p)
    BY <1>1, <2>4 DEF Lesser
  <2>7. Replay(b, y) = [principal |-> p - t, unpaid |-> u + d - s, charged |-> c,
                        interest |-> i + d, paid |-> q + n, ahead |-> h + n - s - t,
                        credited |-> e]
    BY <2>2, <2>3, <2>5, <2>6, PaymentSpent
  <2>8. Repaid(a, d, n) = [principal |-> p - t, unpaid |-> u + d - s, charged |-> c,
                           interest |-> i + d, paid |-> q + n, ahead |-> h + n - s - t,
                           credited |-> e]
    <3>1. /\ a.principal = p /\ a.unpaid = u /\ a.charged = c /\ a.interest = i /\ a.paid = q
          /\ a.ahead = h /\ a.credited = e
      BY <2>4
    <3>2. s = Lesser(n, a.unpaid + d) /\ t = Lesser(n - s, a.principal)
      BY <2>6, <3>1
    <3>3. Repaid(a, d, n) =
            [principal |-> a.principal - t, unpaid |-> a.unpaid + d - s, charged |-> a.charged,
             interest |-> a.interest + d, paid |-> a.paid + n, ahead |-> a.ahead + n - s - t,
             credited |-> a.credited]
      BY <3>2, Zenon DEF Repaid
    <3> QED BY <3>1, <3>3
  <2> QED BY <2>1, <2>3, <2>7, <2>8
<1> QED BY <1>1, <1>12, <1>13, <1>14 DEF Leaves

-----------------------------------------------------------------------------
(* A row of the payments to come, from principal p and unpaid interest u to q
   and v: it covers at least the interest of its period. *)
PaysRow(row, rate, p, u, q, v) ==
  LET d == InterestFor(p, rate, RateBasis)
      s == Lesser(row.payment, u + d)
  IN /\ d \in Nat /\ row.payment \in Nat /\ d <= row.payment
     /\ q = p - Lesser(row.payment - s, p) /\ v = u + d - s
     /\ row.balance = q + v

PaysDown(rows, n, rate, P, U) ==
  /\ P \in [0 .. n -> Nat] /\ U \in [0 .. n -> Nat]
  /\ \A i \in 1 .. n : PaysRow(rows[i], rate, P[i - 1], U[i - 1], P[i], U[i])

(* The rows repay a loan, all but the last at the payment. *)
Repays(rows, payment, rate, p, u) ==
  /\ rows \in Seq(PaymentRow)
  /\ \E P, U : /\ PaysDown(rows, Len(rows), rate, P, U)
               /\ P[0] = p /\ U[0] = u /\ P[Len(rows)] + U[Len(rows)] = 0
  /\ \A i \in 1 .. Len(rows) - 1 : rows[i].payment = payment

(* A row more pays a loan down further. *)
LEMMA OneMoreRow ==
  ASSUME NEW rows \in Seq(PaymentRow), NEW n \in Nat, n = Len(rows), NEW rate, NEW P, NEW U,
         PaysDown(rows, n, rate, P, U),
         NEW row \in PaymentRow, NEW q \in Nat, NEW v \in Nat, PaysRow(row, rate, P[n], U[n], q, v)
  PROVE  \E Q, V : /\ PaysDown(Append(rows, row), n + 1, rate, Q, V)
                   /\ Q[0] = P[0] /\ V[0] = U[0] /\ Q[n + 1] = q /\ V[n + 1] = v
<1>1. P \in [0 .. n -> Nat] /\ U \in [0 .. n -> Nat]
  BY DEF PaysDown
<1>2. PICK Q, V : /\ Q = [i \in 0 .. n + 1 |-> IF i <= n THEN P[i] ELSE q]
                  /\ V = [i \in 0 .. n + 1 |-> IF i <= n THEN U[i] ELSE v]
  OBVIOUS
<1>3. Q \in [0 .. n + 1 -> Nat] /\ V \in [0 .. n + 1 -> Nat]
  BY <1>1, <1>2
<1>4. /\ \A i \in 0 .. n : Q[i] = P[i] /\ V[i] = U[i]
      /\ Q[n + 1] = q /\ V[n + 1] = v
  BY <1>2
<1>5. PICK more : more = Append(rows, row)
  OBVIOUS
<1>6. more[n + 1] = row /\ \A i \in 1 .. n : more[i] = rows[i]
  BY <1>5
<1>7. ASSUME NEW i \in 1 .. n + 1 PROVE PaysRow(more[i], rate, Q[i - 1], V[i - 1], Q[i], V[i])
  <2>1. CASE i = n + 1
    <3>1. more[i] = row /\ Q[i] = q /\ V[i] = v
      BY <1>4, <1>6, <2>1
    <3>2. i - 1 = n /\ n \in 0 .. n
      BY <2>1
    <3>3. Q[i - 1] = P[n] /\ V[i - 1] = U[n]
      BY <1>4, <3>2
    <3> QED BY <3>1, <3>3
  <2>2. CASE i # n + 1
    <3>1. i \in 1 .. n /\ i \in 0 .. n /\ i - 1 \in 0 .. n
      BY <2>2
    <3>2. more[i] = rows[i] /\ Q[i] = P[i] /\ V[i] = U[i] /\ Q[i - 1] = P[i - 1] /\ V[i - 1] = U[i - 1]
      BY <1>4, <1>6, <3>1
    <3>3. PaysRow(rows[i], rate, P[i - 1], U[i - 1], P[i], U[i])
      BY <3>1 DEF PaysDown
    <3> QED BY <3>2, <3>3
  <2> QED BY <2>1, <2>2
<1>8. PaysDown(more, n + 1, rate, Q, V)
  BY <1>3, <1>7 DEF PaysDown
<1>9. Q[0] = P[0] /\ V[0] = U[0]
  BY <1>4
<1> QED BY <1>4, <1>5, <1>8, <1>9

-----------------------------------------------------------------------------
(* The row that a period adds, unless the payment never repays the loan. *)
RowAdded(row, payment, rate, s, y) ==
  /\ row \in PaymentRow /\ y.rows = Append(s.rows, row)
  /\ \E q \in Nat, v \in Nat :
       /\ PaysRow(row, rate, s.principal, s.unpaid, q, v)
       /\ y.state = "paying" => row.payment = payment /\ q = y.principal /\ v = y.unpaid
       /\ y.state = "retired" => q + v = 0

(* A period that the loan survives, or that ends it, adds such a row. *)
LEMMA PeriodRow ==
  ASSUME NEW t, Borrowed(t), NEW payment \in Nat \ {0}, NEW s \in Paying, s.state = "paying",
         NEW y, y = PayPeriod(t, payment, s), y.state # "never"
  PROVE  \E row : RowAdded(row, payment, t.bp, s, y)
<1>1. PICK p \in Nat \ {0}, u \in Nat, rows \in Seq(PaymentRow) :
        s = [principal |-> p, unpaid |-> u, rows |-> rows, state |-> "paying"]
  BY DEF Paying
<1>2. PICK d \in Nat : d = InterestFor(s.principal, t.bp, t.basis)
  BY PeriodPays
<1>3. PICK v \in Nat, o \in Nat : v = u + d /\ o = p + v
  OBVIOUS
<1> DEFINE i == InterestFor(s.principal, t.bp, t.basis)
           v0 == s.unpaid + i
           o0 == s.principal + v0
           paid(q, r) == [s EXCEPT !.principal = q, !.unpaid = r,
                            !.rows = Append(@, [payment |-> payment, balance |-> q + r])]
<1>4. i = d /\ v0 = v /\ o0 = o
  BY <1>1, <1>2, <1>3
<1>5. InterestFor(p, t.bp, RateBasis) = d
  BY <1>1, <1>2 DEF Borrowed
<1>6. CASE o <= payment
  <2>1. o0 <= payment /\ ~(o0 > payment) /\ ~(payment < v0)
    BY <1>3, <1>4, <1>6
  <2>2. y = [s EXCEPT !.state = "retired", !.rows = Append(@, [payment |-> o0, balance |-> 0])]
    BY <2>1, Zenon DEF PayPeriod
  <2>3. PICK row \in PaymentRow : row = [payment |-> o, balance |-> 0]
    <3>1. [payment |-> o, balance |-> 0] \in PaymentRow
      BY DEF PaymentRow
    <3> QED BY <3>1
  <2>4. y.rows = Append(rows, row) /\ y.state = "retired" /\ s.rows = rows
    BY <1>1, <1>4, <2>2, <2>3
  <2>5. PaysRow(row, t.bp, p, u, 0, 0)
    <3>1. row.payment = o /\ row.balance = 0
      BY <2>3
    <3>2. Lesser(o, u + d) = v /\ Lesser(o - v, p) = p
      BY <1>3 DEF Lesser
    <3>3. 0 = p - p /\ 0 = u + d - v /\ 0 = 0 + 0 /\ d <= o
      BY <1>3
    <3> QED BY <1>5, <3>1, <3>2, <3>3 DEF PaysRow
  <2> QED BY <1>1, <2>3, <2>4, <2>5 DEF RowAdded
<1>7. CASE o > payment /\ payment >= v
  <2>1. ~(o0 <= payment) /\ o0 > payment /\ payment >= v0 /\ ~(payment < v0)
    BY <1>3, <1>4, <1>7
  <2>2. y = paid(s.principal - (payment - v0), 0)
    BY <2>1, Zenon DEF PayPeriod
  <2>3. PICK q \in Nat \ {0} : q = p - (payment - v)
    BY <1>3, <1>7
  <2>4. PICK row \in PaymentRow : row = [payment |-> payment, balance |-> q + 0]
    <3>1. [payment |-> payment, balance |-> q + 0] \in PaymentRow
      BY DEF PaymentRow
    <3> QED BY <3>1
  <2>5. /\ y.rows = Append(rows, row) /\ y.state = "paying" /\ s.rows = rows
        /\ y.principal = q /\ y.unpaid = 0
    BY <1>1, <1>4, <2>2, <2>3, <2>4
  <2>6. PaysRow(row, t.bp, p, u, q, 0)
    <3>1. row.payment = payment /\ row.balance = q + 0
      BY <2>4
    <3>2. Lesser(payment, u + d) = v /\ Lesser(payment - v, p) = payment - v
      BY <1>3, <1>7 DEF Lesser
    <3>3. 0 = u + d - v /\ d <= payment
      BY <1>3, <1>7
    <3> QED BY <1>5, <2>3, <3>1, <3>2, <3>3 DEF PaysRow
  <2>7. row.payment = payment
    BY <2>4
  <2> QED BY <1>1, <2>4, <2>5, <2>6, <2>7 DEF RowAdded
<1>8. CASE payment < v /\ payment > d
  <2>1. ~(o0 <= payment) /\ ~(payment >= v0) /\ payment < v0 /\ payment > i
    BY <1>3, <1>4, <1>8
  <2>2. y = paid(s.principal, v0 - payment)
    BY <2>1, Zenon DEF PayPeriod
  <2>3. PICK q \in Nat : q = v - payment
    BY <1>3, <1>8
  <2>4. PICK row \in PaymentRow : row = [payment |-> payment, balance |-> p + q]
    <3>1. [payment |-> payment, balance |-> p + q] \in PaymentRow
      BY DEF PaymentRow
    <3> QED BY <3>1
  <2>5. /\ y.rows = Append(rows, row) /\ y.state = "paying" /\ s.rows = rows
        /\ y.principal = p /\ y.unpaid = q
    BY <1>1, <1>4, <2>2, <2>3, <2>4
  <2>6. PaysRow(row, t.bp, p, u, p, q)
    <3>1. row.payment = payment /\ row.balance = p + q
      BY <2>4
    <3>2. Lesser(payment, u + d) = payment /\ Lesser(payment - payment, p) = 0
      BY <1>3, <1>8 DEF Lesser
    <3>3. p = p - 0 /\ q = u + d - payment /\ d <= payment
      BY <1>3, <1>8, <2>3
    <3> QED BY <1>5, <3>1, <3>2, <3>3 DEF PaysRow
  <2>7. row.payment = payment
    BY <2>4
  <2> QED BY <1>1, <2>4, <2>5, <2>6, <2>7 DEF RowAdded
<1>9. CASE payment < v /\ payment <= d
  <2>1. ~(o0 <= payment) /\ ~(payment >= v0) /\ ~(payment > i)
    BY <1>3, <1>4, <1>9
  <2>2. y = [s EXCEPT !.state = "never"]
    BY <2>1, Zenon DEF PayPeriod
  <2> QED BY <1>1, <2>2
<1> QED BY <1>3, <1>6, <1>7, <1>8, <1>9

-----------------------------------------------------------------------------
(* A loan after n periods: its rows pay it down to where it is. *)
Under(s, n, t, payment) ==
  /\ s.state = "paying" =>
       /\ Len(s.rows) = n
       /\ \E P, U : /\ PaysDown(s.rows, n, t.bp, P, U)
                    /\ P[0] = t.principal /\ U[0] = t.unpaid
                    /\ P[n] = s.principal /\ U[n] = s.unpaid
       /\ \A i \in 1 .. n : s.rows[i].payment = payment
  /\ s.state = "retired" => Repays(s.rows, payment, t.bp, t.principal, t.unpaid)

(* So the rows of a course always account for where it is. *)
LEMMA StepUnder ==
  ASSUME NEW t, Borrowed(t), NEW payment \in Nat \ {0}, NEW n \in Nat,
         NEW s \in Paying, Under(s, n, t, payment)
  PROVE  Under(PayStep(t, payment)[s], n + 1, t, payment)
<1>1. PICK y : y = PayStep(t, payment)[s]
  OBVIOUS
<1>2. y = IF s.state = "paying" THEN PayPeriod(t, payment, s) ELSE s
  BY <1>1 DEF PayStep
<1>3. CASE s.state # "paying"
  BY <1>1, <1>2, <1>3 DEF Under
<1>4. CASE s.state = "paying" /\ y.state = "never"
  BY <1>1, <1>4 DEF Under
<1>5. CASE s.state = "paying" /\ y.state # "never"
  <2>1. y = PayPeriod(t, payment, s)
    BY <1>2, <1>5
  <2>2. PICK row : RowAdded(row, payment, t.bp, s, y)
    BY <1>5, <2>1, PeriodRow
  <2>3. PICK rows \in Seq(PaymentRow) : rows = s.rows
    BY DEF Paying
  <2>4. row \in PaymentRow /\ y.rows = Append(rows, row)
    BY <2>2, <2>3 DEF RowAdded
  <2>5. PICK q \in Nat, v \in Nat :
          /\ PaysRow(row, t.bp, s.principal, s.unpaid, q, v)
          /\ y.state = "paying" => row.payment = payment /\ q = y.principal /\ v = y.unpaid
          /\ y.state = "retired" => q + v = 0
    BY <2>2 DEF RowAdded
  <2>6. Len(rows) = n /\ \A i \in 1 .. n : rows[i].payment = payment
    BY <1>5, <2>3 DEF Under
  <2>7. PICK P, U : /\ PaysDown(rows, n, t.bp, P, U)
                    /\ P[0] = t.principal /\ U[0] = t.unpaid
                    /\ P[n] = s.principal /\ U[n] = s.unpaid
    BY <1>5, <2>3 DEF Under
  <2>8. PaysRow(row, t.bp, P[n], U[n], q, v)
    BY <2>5, <2>7
  <2>9. PICK Q, V : /\ PaysDown(Append(rows, row), n + 1, t.bp, Q, V)
                    /\ Q[0] = P[0] /\ V[0] = U[0] /\ Q[n + 1] = q /\ V[n + 1] = v
    BY <2>3, <2>4, <2>5, <2>6, <2>7, <2>8, OneMoreRow
  <2>10. Len(y.rows) = n + 1 /\ y.rows \in Seq(PaymentRow) /\ \A i \in 1 .. n : y.rows[i] = rows[i]
    BY <2>3, <2>4, <2>6
  <2>11. y.rows[n + 1] = row
    BY <2>3, <2>4, <2>6
  <2>12. \A i \in 1 .. n : y.rows[i].payment = payment
    BY <2>6, <2>10
  <2>13. CASE y.state = "paying"
    <3>1. \A i \in 1 .. n + 1 : y.rows[i].payment = payment
      <4> TAKE i \in 1 .. n + 1
      <4>1. i \in 1 .. n \/ i = n + 1
        OBVIOUS
      <4> QED BY <2>5, <2>11, <2>12, <2>13, <4>1
    <3>2. Q[n + 1] = y.principal /\ V[n + 1] = y.unpaid
      BY <2>5, <2>9, <2>13
    <3>3. Under(y, n + 1, t, payment)
      BY <2>4, <2>7, <2>9, <2>10, <2>13, <3>1, <3>2 DEF Under
    <3> QED BY <1>1, <3>3
  <2>14. CASE y.state = "retired"
    <3>1. Q[n + 1] + V[n + 1] = 0
      BY <2>5, <2>9, <2>14
    <3>2. Len(y.rows) - 1 = n
      BY <2>10
    <3>3. Repays(y.rows, payment, t.bp, t.principal, t.unpaid)
      BY <2>4, <2>7, <2>9, <2>10, <2>12, <3>1, <3>2 DEF Repays
    <3>4. Under(y, n + 1, t, payment)
      BY <2>14, <3>3 DEF Under
    <3> QED BY <1>1, <3>4
  <2>15. y \in Paying
    BY <1>5, <2>1, PeriodPays
  <2> QED BY <1>5, <2>13, <2>14, <2>15 DEF Paying
<1> QED BY <1>3, <1>4, <1>5

(* The payments that a course comes to repay the loan. *)
LEMMA ProjectRepays ==
  ASSUME NEW t, Borrowed(t), NEW payment \in Nat \ {0}, NEW rows, rows = Project(t, payment),
         rows # <<>>
  PROVE  Repays(rows, payment, t.bp, t.principal, t.unpaid)
<1>1. PICK a : /\ a \in Chains(MaxPayments, Paying, Begin(t), PayStep(t, payment))
               /\ Course(t, payment) = a[MaxPayments]
  BY Courses
<1>2. /\ a \in [0 .. MaxPayments -> Paying] /\ a[0] = Begin(t)
      /\ \A i \in 1 .. MaxPayments : a[i] = PayStep(t, payment)[a[i - 1]]
  BY <1>1 DEF Chains
<1>3. MaxPayments \in Nat
  BY PaymentsAssumption
<1> DEFINE G == {i \in Nat : i <= MaxPayments => Under(a[i], i, t, payment)}
<1>4. 0 \in G
  <2>1. PICK P, U : P = [i \in 0 .. 0 |-> t.principal] /\ U = [i \in 0 .. 0 |-> t.unpaid]
    OBVIOUS
  <2>2. P \in [0 .. 0 -> Nat] /\ U \in [0 .. 0 -> Nat]
    BY <2>1 DEF Borrowed
  <2>3. P[0] = t.principal /\ U[0] = t.unpaid
    BY <2>1
  <2>4. a[0].rows = <<>> /\ a[0].state = "paying" /\ a[0].principal = t.principal /\ a[0].unpaid = t.unpaid
    BY <1>2 DEF Begin
  <2>5. PaysDown(a[0].rows, 0, t.bp, P, U)
    BY <2>2 DEF PaysDown
  <2>6. Len(a[0].rows) = 0
    BY <2>4
  <2>7. Under(a[0], 0, t, payment)
    BY <2>3, <2>4, <2>5, <2>6 DEF Under
  <2> QED BY <2>7
<1>5. ASSUME NEW i \in Nat, i \in G PROVE i + 1 \in G
  <2>1. ASSUME i + 1 <= MaxPayments PROVE Under(a[i + 1], i + 1, t, payment)
    <3>1. i + 1 \in 1 .. MaxPayments /\ (i + 1) - 1 = i /\ i \in 0 .. MaxPayments /\ i <= MaxPayments
      BY <1>3, <2>1
    <3>2. a[i + 1] = PayStep(t, payment)[a[i]]
      BY <1>2, <3>1
    <3>3. a[i] \in Paying /\ Under(a[i], i, t, payment)
      BY <1>2, <1>5, <3>1
    <3> QED BY <3>2, <3>3, StepUnder
  <2> QED BY <2>1
<1>6. Under(a[MaxPayments], MaxPayments, t, payment)
  <2>1. \A i \in Nat : i \in G => i + 1 \in G
    BY <1>5
  <2>2. MaxPayments \in G
    <3> HIDE DEF G
    <3> QED BY <1>3, <1>4, <2>1, CountUp
  <2> QED BY <1>3, <2>2
<1>7. PICK end : end = Course(t, payment)
  OBVIOUS
<1>8. rows = IF Payable(t) /\ payment > 0 /\ end.state = "retired" THEN end.rows ELSE <<>>
  BY <1>7 DEF Project
<1>9. end.state = "retired" /\ rows = end.rows
  BY <1>8
<1> QED BY <1>1, <1>6, <1>7, <1>9 DEF Under

-----------------------------------------------------------------------------
(* No principal, no interest. *)
LEMMA NothingBearsNothing ==
  ASSUME NEW bp \in Nat
  PROVE  InterestFor(0, bp, RateBasis) = 0
<1>1. PICK e \in Nat \ {0} : e = Every
  BY ScheduleAssumption DEF Every
<1>2. PICK k \in Nat, w \in {12, 365} : RateBasis = <<k, w>>
  BY <1>1 DEF RateBasis
<1>3. PICK d \in {120000, 3650000} : d = 10000 * w
  BY <1>2
<1>4. 0 * bp * k = 0
  BY <1>2, SMT
<1>5. InterestFor(0, bp, RateBasis) = (0 + d \div 2) \div d
  BY <1>2, <1>3, <1>4 DEF InterestFor
<1> QED BY <1>3, <1>5

(* How many payments an amount takes. *)
LEMMA Roundings ==
  ASSUME NEW owed \in Nat \ {0}, NEW payment \in Nat \ {0},
         NEW n, n = (owed + payment - 1) \div payment
  PROVE  /\ n \in Nat \ {0}
         /\ \A i \in Nat : i * payment \in Nat /\ (i + 1) * payment = i * payment + payment
         /\ \A i \in 0 .. n - 1 : i * payment < owed
         /\ owed <= n * payment
<1>1. PICK m \in Nat : m = owed + payment - 1 /\ m >= payment
  OBVIOUS
<1>2. n \in Int /\ n * payment <= m /\ m < n * payment + payment
  BY <1>1, SMT
<1>3. \A i \in Int : i * payment \in Int /\ (i + 1) * payment = i * payment + payment
  BY SMT
<1>4. \A i, j \in Int : i <= j => i * payment <= j * payment
  BY SMT
<1>5. n \in Nat \ {0}
  <2>1. SUFFICES ASSUME n <= 0 PROVE FALSE
    BY <1>2
  <2>2. n * payment <= 0 * payment
    BY <1>2, <1>4, <2>1
  <2>3. 0 * payment = 0
    OBVIOUS
  <2>4. n * payment \in Int
    BY <1>2, <1>3
  <2> QED BY <1>1, <1>2, <2>2, <2>3, <2>4
<1>6. \A i \in Nat : i * payment \in Nat
  BY SMT
<1>7. (n - 1) * payment + payment = n * payment /\ (n - 1) * payment \in Int /\ n * payment \in Int
  BY <1>3, <1>5
<1>8. (n - 1) * payment < owed /\ owed <= n * payment
  BY <1>1, <1>2, <1>7
<1>9. ASSUME NEW i \in 0 .. n - 1 PROVE i * payment < owed
  <2>1. i \in Int /\ n - 1 \in Int /\ i <= n - 1
    BY <1>5
  <2>2. i * payment <= (n - 1) * payment /\ i * payment \in Int
    BY <1>3, <1>4, <2>1
  <2> QED BY <1>7, <1>8, <2>2
<1> QED BY <1>3, <1>5, <1>6, <1>8, <1>9

(* Interest without principal is paid down, too. *)
LEMMA FlatRepays ==
  ASSUME NEW owed \in Nat \ {0}, NEW payment \in Nat \ {0}, NEW rate \in Nat,
         NEW rows, rows = FlatPayments(owed, payment)
  PROVE  Repays(rows, payment, rate, 0, owed)
<1>1. PICK n : n = (owed + payment - 1) \div payment
  OBVIOUS
<1>2. /\ n \in Nat \ {0}
      /\ \A i \in Nat : i * payment \in Nat /\ (i + 1) * payment = i * payment + payment
      /\ \A i \in 0 .. n - 1 : i * payment < owed
      /\ owed <= n * payment
  BY <1>1, Roundings
<1>3. PICK X : X = [i \in 0 .. n |-> i * payment]
  OBVIOUS
<1>4. /\ X \in [0 .. n -> Nat] /\ X[0] = 0
      /\ \A i \in 1 .. n : X[i] = X[i - 1] + payment /\ X[i - 1] < owed
      /\ owed <= X[n]
  <2>1. \A i \in 0 .. n : X[i] = i * payment /\ X[i] \in Nat
    BY <1>2, <1>3
  <2>2. X[0] = 0
    BY <1>2, <2>1, SMT
  <2>3. ASSUME NEW i \in 1 .. n PROVE X[i] = X[i - 1] + payment /\ X[i - 1] < owed
    <3>1. PICK j \in Nat : j = i - 1 /\ i = j + 1 /\ j \in 0 .. n - 1 /\ j \in 0 .. n /\ i \in 0 .. n
      BY <1>2
    <3>2. X[i] = (j + 1) * payment /\ X[j] = j * payment
      BY <2>1, <3>1
    <3>3. (j + 1) * payment = j * payment + payment /\ j * payment < owed
      BY <1>2, <3>1
    <3> QED BY <3>1, <3>2, <3>3
  <2>4. X \in [0 .. n -> Nat]
    BY <1>3, <2>1
  <2>5. X[n] = n * payment
    BY <1>2, <2>1
  <2> QED BY <1>2, <2>2, <2>3, <2>4, <2>5
<1>5. rows = [i \in 1 .. n |-> [payment |-> Lesser(payment, owed - X[i - 1]),
                                balance |-> owed - Lesser(X[i], owed)]]
  <2>1. \A i \in 1 .. n : X[i - 1] = (i - 1) * payment /\ X[i] = i * payment
    BY <1>2, <1>3
  <2> QED BY <1>1, <2>1 DEF FlatPayments
<1>6. PICK P, U : P = [i \in 0 .. n |-> 0] /\ U = [i \in 0 .. n |-> owed - Lesser(X[i], owed)]
  OBVIOUS
<1>7. P \in [0 .. n -> Nat] /\ U \in [0 .. n -> Nat] /\ U[0] = owed /\ U[n] = 0 /\ P[0] = 0 /\ P[n] = 0
  <2>1. \A i \in 0 .. n : owed - Lesser(X[i], owed) \in Nat
    BY <1>4 DEF Lesser
  <2>2. 0 \in 0 .. n /\ n \in 0 .. n
    BY <1>2
  <2>3. owed - Lesser(X[0], owed) = owed /\ owed - Lesser(X[n], owed) = 0
    BY <1>4, <2>2 DEF Lesser
  <2> QED BY <1>6, <2>1, <2>2, <2>3
<1>8. ASSUME NEW i \in 1 .. n
      PROVE  /\ PaysRow(rows[i], rate, P[i - 1], U[i - 1], P[i], U[i]) /\ rows[i] \in PaymentRow
             /\ i < n => rows[i].payment = payment
  <2>1. PICK j \in 0 .. n : j = i - 1 /\ i \in 0 .. n /\ (i < n => i + 1 \in 1 .. n /\ (i + 1) - 1 = i)
    BY <1>2
  <2>2. PICK x \in Nat : x = X[j] /\ X[i] = x + payment /\ x < owed
    BY <1>4, <2>1
  <2>3. PICK m \in Nat, v \in Nat : m = Lesser(payment, owed - x) /\ v = owed - Lesser(x + payment, owed)
    BY <2>2 DEF Lesser
  <2>4. U[j] = owed - x /\ U[i] = v /\ P[j] = 0 /\ P[i] = 0
    <3>1. Lesser(x, owed) = x
      BY <2>2 DEF Lesser
    <3> QED BY <1>6, <2>1, <2>2, <2>3, <3>1
  <2>5. rows[i] = [payment |-> m, balance |-> v]
    BY <1>5, <2>1, <2>2, <2>3
  <2>6. PICK d : d = InterestFor(0, rate, RateBasis) /\ d = 0
    BY NothingBearsNothing
  <2>7. PICK u \in Nat : u = owed - x
    BY <2>2
  <2>8. Lesser(m, u + 0) = m /\ Lesser(m - m, 0) = 0 /\ v = u + 0 - m
    BY <2>2, <2>3, <2>7 DEF Lesser
  <2>9. rows[i].payment = m /\ rows[i].balance = v
    BY <2>5
  <2>10. PaysRow(rows[i], rate, 0, u, 0, v)
    BY <2>3, <2>6, <2>8, <2>9 DEF PaysRow
  <2>11. ASSUME i < n PROVE m = payment
    <3>1. x + payment < owed
      BY <1>4, <2>1, <2>2, <2>11
    <3> QED BY <2>2, <2>3, <3>1 DEF Lesser
  <2>12. rows[i] \in PaymentRow
    BY <2>3, <2>5 DEF PaymentRow
  <2> QED BY <2>1, <2>4, <2>7, <2>9, <2>10, <2>11, <2>12
<1>9. rows \in Seq(PaymentRow) /\ Len(rows) = n
  <2>1. rows \in [1 .. n -> PaymentRow]
    <3>1. rows = [i \in 1 .. n |-> rows[i]]
      BY <1>5
    <3> QED BY <1>8, <3>1
  <2> QED BY <1>2, <2>1
<1>10. PaysDown(rows, n, rate, P, U)
  BY <1>7, <1>8 DEF PaysDown
<1>11. \A i \in 1 .. n - 1 : rows[i].payment = payment
  BY <1>2, <1>8
<1>12. P[n] + U[n] = 0
  BY <1>7
<1> QED BY <1>7, <1>9, <1>10, <1>11, <1>12 DEF Repays

-----------------------------------------------------------------------------
(* The rows come to an amount. *)
LEMMA TotalIsInt ==
  ASSUME NEW rows \in Seq(PaymentRow)
  PROVE  TotalOf(rows) \in Int
<1>1. PICK S : S = 1 .. Len(rows)
  OBVIOUS
<1>2. IsFiniteSet(S) /\ DOMAIN rows = S
  BY <1>1, FS_Interval
<1>3. PICK w : w = [i \in S |-> rows[i].payment]
  OBVIOUS
<1>4. \A i \in S : w[i] \in Int
  <2>1. \A i \in S : rows[i] \in PaymentRow
    BY <1>1
  <2> QED BY <1>3, <2>1 DEF PaymentRow
<1>5. TotalOf(rows) = SumFunction([i \in S |-> w[i]])
  <2>1. [i \in S |-> w[i]] = [i \in DOMAIN rows |-> rows[i].payment]
    BY <1>2, <1>3
  <2> QED BY <2>1 DEF TotalOf
<1> QED BY <1>2, <1>4, <1>5, SumIsInt

(* What the loan is expected to cost depends on what was charged, unless
   nothing says when it ends. *)
LEMMA ScheduledIsInt ==
  ASSUME NEW t \in Tabs, NEW a \in SoundLoan
  PROVE  /\ ScheduledTotal(t, a) \in Int
         /\ t.term = 0 => ScheduledTotal(t, a) = a.charged + a.interest
         /\ \A b \in SoundLoan :
              t.term > 0 /\ a.charged > 0 /\ b.charged = a.charged
                => ScheduledTotal(t, b) = ScheduledTotal(t, a)
<1>1. PICK rate \in Nat, term \in Nat, payment \in Nat :
        rate = t.rate /\ term = t.term /\ payment = t.payment
  BY DEF Tabs
<1>2. PICK c \in Int, i \in Int : c = a.charged /\ i = a.interest
  BY DEF SoundLoan
<1>3. PICK out : out = Simulate(Terms(t, a.charged, 0), t.payment)
  OBVIOUS
<1>4. term = 0 \/ c <= 0 => ScheduledTotal(t, a) = c + i
  <2>1. SUFFICES ASSUME term = 0 \/ c <= 0 PROVE ScheduledTotal(t, a) = c + i
    OBVIOUS
  <2>2. (t.term = 0 \/ a.charged <= 0) /\ ~(t.term > 0 /\ a.charged > 0)
    BY <1>1, <1>2, <2>1
  <2>3. ScheduledTotal(t, a) = a.charged + a.interest
    BY <2>2, Zenon DEF ScheduledTotal
  <2> QED BY <1>2, <2>3
<1>5. ASSUME term > 0, c > 0, NEW b \in SoundLoan, b.charged = c
      PROVE  ScheduledTotal(t, b) = IF out.retires THEN out.total ELSE t.payment * t.term
  <2>1. ~(t.term = 0 \/ b.charged <= 0) /\ t.term > 0 /\ b.charged > 0
    BY <1>1, <1>2, <1>5
  <2>2. out = Simulate(Terms(t, b.charged, 0), t.payment)
    BY <1>2, <1>3, <1>5
  <2>3. CASE out.retires
    BY <2>1, <2>2, <2>3, Zenon DEF ScheduledTotal
  <2>4. CASE ~out.retires
    BY <2>1, <2>2, <2>4, Zenon DEF ScheduledTotal
  <2> QED BY <2>3, <2>4
<1>6. ASSUME term > 0, c > 0 PROVE out.total \in Int /\ t.payment * t.term \in Int
  <2>1. PICK l : l = Terms(t, a.charged, 0)
    OBVIOUS
  <2>2. Borrowed(l)
    BY <1>1, <1>2, <1>6, <2>1 DEF Borrowed, Terms
  <2>3. PICK end \in Paying : end = Course(l, payment)
    BY <2>2, WithinIs
  <2>4. PICK rows : rows = Project(l, payment)
    OBVIOUS
  <2>5. rows = IF Payable(l) /\ payment > 0 /\ end.state = "retired" THEN end.rows ELSE <<>>
    BY <2>3, <2>4 DEF Project
  <2>6. end.rows \in Seq(PaymentRow) /\ <<>> \in Seq(PaymentRow)
    BY DEF Paying
  <2>7. TotalOf(rows) \in Int
    BY <2>5, <2>6, TotalIsInt
  <2>8. out.total = TotalOf(rows)
    BY <1>1, <1>3, <2>1, <2>4 DEF Simulate
  <2>9. t.payment * t.term \in Int
    BY <1>1, SMT
  <2> QED BY <2>7, <2>8, <2>9
<1>7. ScheduledTotal(t, a) \in Int
  <2>1. CASE term = 0 \/ c <= 0
    BY <1>2, <1>4, <2>1
  <2>2. CASE term > 0 /\ c > 0
    BY <1>2, <1>5, <1>6, <2>2
  <2> QED BY <1>1, <1>2, <2>1, <2>2
<1>8. ASSUME NEW b \in SoundLoan, t.term > 0, a.charged > 0, b.charged = a.charged
      PROVE  ScheduledTotal(t, b) = ScheduledTotal(t, a)
  BY <1>1, <1>2, <1>5, <1>8
<1> QED BY <1>1, <1>2, <1>4, <1>7, <1>8

(* When a payee is behind. *)
Settled(a) == a.charged > 0 /\ Billed(a) >= 0

Tracks(p, a, e) ==
  /\ p.status # "behind" <=> Settled(a) \/ a.paid + a.credited >= e
  /\ p.satisfied = p.paid <=> a.credited = 0

LEMMA BehindIs ==
  ASSUME NEW t \in Tabs, NEW es, NEW day \in Int, NEW a, a = AllocateLoan(es, day), a \in SoundLoan,
         FeesOf(es) = 0, NEW e \in Int, e = ExpectedByNow(t, a, day),
         NEW p, p = ComputePayoff(t, es, day)
  PROVE  Tracks(p, a, e)
<1>1. PICK r : r = [charged   |-> a.charged, paid |-> a.paid,
            principal |-> a.principal, unpaid |-> a.unpaid, remaining |-> Owed(a),
            balance   |-> a.paid + a.credited - a.charged - a.interest - FeesOf(es),
            satisfied |-> a.paid + a.credited,
            expected  |-> ExpectedByNow(t, a, day), status |-> "on track"]
  OBVIOUS
<1>2. p = [r EXCEPT !.status = PayoffStatus(t, r)]
  BY <1>1, Zenon DEF ComputePayoff
<1>3. p.status = PayoffStatus(t, r) /\ p.satisfied = a.paid + a.credited /\ p.paid = a.paid
  BY <1>1, <1>2
<1>4. PICK q \in Nat, c \in Int, h \in Int, i \in Int :
        q = a.paid /\ c = a.credited /\ h = a.charged /\ i = a.interest
  BY DEF SoundLoan
<1>5. r.charged = h /\ r.balance = q + c - h - i /\ r.satisfied = q + c /\ r.expected = e
  <2>1. q + c - h - i - 0 = q + c - h - i
    BY <1>4
  <2> QED BY <1>1, <1>4, <2>1
<1>6. Settled(a) <=> r.charged > 0 /\ r.balance >= 0
  BY <1>4, <1>5 DEF Settled, Billed
<1>7. r.satisfied < r.expected <=> ~(r.satisfied >= r.expected)
  BY <1>4, <1>5
<1>8. CASE Settled(a)
  <2>1. PayoffStatus(t, r) = "settled"
    BY <1>6, <1>8, Zenon DEF PayoffStatus
  <2> QED BY <1>3, <1>4, <1>8, <2>1 DEF Tracks
<1>9. CASE ~Settled(a) /\ r.satisfied >= r.expected
  <2>1. ~(r.charged > 0 /\ r.balance >= 0) /\ ~(r.satisfied < r.expected)
    BY <1>6, <1>7, <1>9
  <2>2. PayoffStatus(t, r) # "behind"
    <3>1. CASE t.payment > 0 /\ r.satisfied >= r.expected + t.payment
      <4>1. PayoffStatus(t, r) = "ahead"
        BY <1>9, <2>1, <3>1, Zenon DEF PayoffStatus
      <4> QED BY <4>1
    <3>2. CASE ~(t.payment > 0 /\ r.satisfied >= r.expected + t.payment)
      <4>1. PayoffStatus(t, r) = "on track"
        BY <1>9, <2>1, <3>2, Zenon DEF PayoffStatus
      <4> QED BY <4>1
    <3> QED BY <3>1, <3>2
  <2> QED BY <1>3, <1>4, <1>5, <1>9, <2>2 DEF Tracks
<1>10. CASE ~Settled(a) /\ r.satisfied < r.expected
  <2>1. PayoffStatus(t, r) = "behind"
    BY <1>6, <1>7, <1>10, Zenon DEF PayoffStatus
  <2> QED BY <1>3, <1>4, <1>5, <1>7, <1>10, <2>1 DEF Tracks
<1> QED BY <1>7, <1>8, <1>9, <1>10 DEF Tracks

(* A payee who is not behind is not behind k payments and k periods later. *)
LEMMA StaysOnTrack ==
  ASSUME NEW t \in Tabs, t.payment > 0,
         NEW es, NEW day \in Int, NEW a, a = AllocateLoan(es, day), a \in SoundLoan, FeesOf(es) = 0,
         NEW fs, NEW due \in Int, NEW b, b = AllocateLoan(fs, due), b \in SoundLoan, FeesOf(fs) = 0,
         b.charged = a.charged, b.credited = a.credited, Billed(b) >= Billed(a),
         NEW k \in Nat, NEW m \in Nat,
         m = Cardinality(DueThrough(day)), m + k = Cardinality(DueThrough(due)),
         Billed(b) >= 0 \/ b.paid >= a.paid + k * t.payment,
         ComputePayoff(t, es, day).status # "behind",
         ComputePayoff(t, es, day).satisfied = ComputePayoff(t, es, day).paid
  PROVE  ComputePayoff(t, fs, due).status # "behind"
<1>1. PICK term \in Nat, y \in Nat \ {0} : term = t.term /\ y = t.payment
  BY DEF Tabs
<1>2. PICK before \in Nat, after \in Nat :
        /\ before = PeriodsElapsed(t, day) /\ after = PeriodsElapsed(t, due)
        /\ after <= before + k
  <2>1. PeriodsElapsed(t, day) = IF term > 0 THEN Lesser(m, term) ELSE m
    BY <1>1 DEF PeriodsElapsed
  <2>2. PeriodsElapsed(t, due) = IF term > 0 THEN Lesser(m + k, term) ELSE m + k
    BY <1>1 DEF PeriodsElapsed
  <2>3. CASE term > 0
    BY <2>1, <2>2, <2>3 DEF Lesser
  <2>4. CASE ~(term > 0)
    BY <2>1, <2>2, <2>4
  <2> QED BY <2>3, <2>4
<1>3. PICK u \in Int, v \in Int, w \in Int :
        u = y * before /\ v = y * after /\ w = k * y /\ v <= u + w /\ w >= 0
  <2>1. y * before \in Int /\ y * after \in Int /\ k * y \in Int /\ k * y >= 0
    BY SMT
  <2>2. y * after <= y * before + k * y
    <3>1. PICK d \in Nat : before + k = after + d
      <4>1. before + k - after \in Nat /\ before + k = after + (before + k - after)
        BY <1>2
      <4> QED BY <4>1
    <3>2. y * before + k * y = y * (before + k)
      BY <1>2, SMT
    <3>3. y * (after + d) = y * after + y * d /\ y * d >= 0 /\ y * d \in Int
      BY <1>2, <3>1, SMT
    <3> QED BY <2>1, <3>1, <3>2, <3>3
  <2> QED BY <2>1, <2>2
<1>4. PICK s \in Int, r \in Int : s = ScheduledTotal(t, a) /\ r = ScheduledTotal(t, b)
  BY ScheduledIsInt
<1>5. PICK q \in Nat, z \in Nat, c \in Int, h \in Int, i \in Int, j \in Int :
        /\ q = a.paid /\ z = b.paid /\ c = a.credited /\ c = b.credited /\ h = a.charged
        /\ h = b.charged /\ i = a.interest /\ j = b.interest
  BY DEF SoundLoan
<1>6. Billed(a) = q + c - h - i /\ Billed(b) = z + c - h - j /\ z + c - h - j >= q + c - h - i
  <2>1. Billed(a) = q + c - h - i /\ Billed(b) = z + c - h - j
    BY <1>5 DEF Billed
  <2> QED BY <2>1
<1>7. PICK e \in Int, f \in Int :
        /\ e = ExpectedByNow(t, a, day) /\ f = ExpectedByNow(t, b, due)
        /\ e = IF h > 0 THEN Lesser(u, s) ELSE 0
        /\ f = IF h > 0 THEN Lesser(v, r) ELSE 0
  <2>1. ExpectedByNow(t, a, day) = IF h > 0 THEN Lesser(u, s) ELSE 0
    BY <1>1, <1>2, <1>3, <1>4, <1>5 DEF ExpectedByNow
  <2>2. ExpectedByNow(t, b, due) = IF h > 0 THEN Lesser(v, r) ELSE 0
    BY <1>1, <1>2, <1>3, <1>4, <1>5 DEF ExpectedByNow
  <2>3. (IF h > 0 THEN Lesser(u, s) ELSE 0) \in Int /\ (IF h > 0 THEN Lesser(v, r) ELSE 0) \in Int
    BY DEF Lesser
  <2> QED BY <2>1, <2>2, <2>3
<1>8. c = 0 /\ (Settled(a) \/ q + c >= e)
  <2>1. PICK p : p = ComputePayoff(t, es, day)
    OBVIOUS
  <2>2. Tracks(p, a, e)
    BY <1>7, <2>1, BehindIs, Zenon
  <2> QED BY <1>5, <2>1, <2>2 DEF Tracks
<1>9. ComputePayoff(t, fs, due).status # "behind" <=> Settled(b) \/ z + c >= f
  <2>1. PICK p : p = ComputePayoff(t, fs, due)
    OBVIOUS
  <2>2. Tracks(p, b, f)
    BY <1>7, <2>1, BehindIs, Zenon
  <2> QED BY <1>5, <2>1, <2>2 DEF Tracks
<1>10. /\ Settled(a) <=> h > 0 /\ q - h - i >= 0
       /\ Settled(b) <=> h > 0 /\ z - h - j >= 0
  BY <1>5, <1>6, <1>8 DEF Settled
<1>11. CASE h <= 0
  BY <1>7, <1>8, <1>9, <1>11
<1>12. CASE h > 0 /\ z - h - j >= 0
  BY <1>9, <1>10, <1>12
<1>13. CASE h > 0 /\ z - h - j < 0
  <2>1. q - h - i < 0 /\ q >= e
    BY <1>6, <1>8, <1>10, <1>13
  <2>2. z >= q + w
    BY <1>1, <1>3, <1>5, <1>6, <1>8, <1>13
  <2>3. e = Lesser(u, s) /\ f = Lesser(v, r)
    BY <1>7, <1>13
  <2>4. CASE u <= s
    <3>1. q >= u
      BY <2>1, <2>3, <2>4 DEF Lesser
    <3>2. z >= v
      BY <1>3, <2>2, <3>1
    <3>3. f <= v
      BY <2>3 DEF Lesser
    <3> QED BY <1>8, <1>9, <3>2, <3>3
  <2>5. CASE u > s
    <3>1. q >= s
      BY <2>1, <2>3, <2>5 DEF Lesser
    <3>2. term # 0
      <4>1. SUFFICES ASSUME term = 0 PROVE FALSE
        OBVIOUS
      <4>2. s = h + i
        BY <1>1, <1>4, <1>5, <4>1, ScheduledIsInt
      <4> QED BY <2>1, <3>1, <4>2
    <3>3. r = s
      <4>1. t.term > 0 /\ a.charged > 0
        BY <1>1, <1>5, <1>13, <3>2
      <4> QED BY <1>4, <4>1, ScheduledIsInt
    <3>4. f <= s
      BY <2>3, <3>3 DEF Lesser
    <3>5. z >= s
      BY <1>3, <2>2, <3>1
    <3> QED BY <1>8, <1>9, <3>4, <3>5
  <2> QED BY <2>4, <2>5
<1> QED BY <1>11, <1>12, <1>13

-----------------------------------------------------------------------------
(* The rows of a forecast are followed one by one. *)
Follow(f, n, g) ==
  [i \in 0 .. n |-> IF i = 0 THEN entries ELSE FollowRow(g[i - 1], f[i])]

LEMMA FollowedIs ==
  ASSUME NEW f, NEW k \in Nat
  PROVE  \E g : /\ Followed(f, k) = g[k] /\ g[0] = entries
                /\ \A i \in 1 .. k : g[i] = FollowRow(g[i - 1], f[i])
<1> DEFINE G == {n \in Nat : \E g : g = Follow(f, n, g)}
           Step(g) == [i \in 0 .. k |-> IF i = 0 THEN entries ELSE FollowRow(g[i - 1], f[i])]
           iter == CHOOSE g : g = Step(g)
<1>1. 0 \in G
  <2>1. PICK g : g = [i \in 0 .. 0 |-> entries]
    OBVIOUS
  <2>2. g = Follow(f, 0, g)
    BY <2>1 DEF Follow
  <2> QED BY <2>2
<1>2. ASSUME NEW n \in Nat, n \in G PROVE n + 1 \in G
  <2>1. PICK g : g = Follow(f, n, g)
    BY <1>2
  <2>2. PICK h : h = [i \in 0 .. n + 1 |-> IF i = n + 1 THEN FollowRow(g[n], f[n + 1]) ELSE g[i]]
    OBVIOUS
  <2>3. ASSUME NEW i \in 0 .. n + 1
        PROVE  h[i] = IF i = 0 THEN entries ELSE FollowRow(h[i - 1], f[i])
    <3>1. CASE i = n + 1
      <4>1. i # 0 /\ i - 1 = n /\ n \in 0 .. n + 1 /\ n # n + 1
        BY <3>1
      <4>2. h[i - 1] = g[n] /\ h[i] = FollowRow(g[n], f[n + 1])
        BY <2>2, <3>1, <4>1
      <4> QED BY <3>1, <4>1, <4>2
    <3>2. CASE i # n + 1
      <4>1. i \in 0 .. n /\ h[i] = g[i]
        BY <2>2, <3>2
      <4>2. g[i] = IF i = 0 THEN entries ELSE FollowRow(g[i - 1], f[i])
        BY <2>1, <4>1 DEF Follow
      <4>3. i # 0 => i - 1 \in 0 .. n + 1 /\ i - 1 # n + 1 /\ h[i - 1] = g[i - 1]
        BY <2>2, <4>1
      <4> QED BY <4>1, <4>2, <4>3
    <3> QED BY <3>1, <3>2
  <2>4. h = Follow(f, n + 1, h)
    BY <2>2, <2>3 DEF Follow
  <2> QED BY <2>4
<1>3. k \in G
  <2>1. \A n \in Nat : n \in G => n + 1 \in G
    BY <1>2
  <2> HIDE DEF G
  <2> QED BY <1>1, <2>1, CountUp
<1>4. iter = Step(iter)
  <2>1. \E g : g = Step(g)
    BY <1>3 DEF Follow
  <2> QED BY <2>1
<1>5. Followed(f, k) = iter[k]
  BY DEF Followed
<1>6. iter[0] = entries
  <2>1. 0 \in 0 .. k
    OBVIOUS
  <2> HIDE DEF iter
  <2> QED BY <1>4, <2>1
<1>7. ASSUME NEW i \in 1 .. k PROVE iter[i] = FollowRow(iter[i - 1], f[i])
  <2>1. i \in 0 .. k /\ i # 0
    OBVIOUS
  <2> HIDE DEF iter
  <2>2. iter[i] = IF i = 0 THEN entries ELSE FollowRow(iter[i - 1], f[i])
    BY <1>4, <2>1
  <2> QED BY <2>1, <2>2
<1> QED BY <1>5, <1>6, <1>7

-----------------------------------------------------------------------------
(* A forecast is of rows that repay the loan, each on the next due date. *)
Foretells(f, rows, first) ==
  /\ Len(f) = Len(rows) /\ first + Len(rows) <= MaxPeriods
  /\ \A i \in 1 .. Len(rows) :
       f[i] = [due |-> Due[first + i - 1], amount |-> rows[i].payment, balance |-> rows[i].balance]

LEMMA ForecastRepays ==
  ASSUME NEW t \in Tabs, NEW p, NEW day, NEW principal \in Nat, principal = p.principal,
         NEW unpaid \in Nat, unpaid = p.unpaid, p.remaining = principal + unpaid,
         NEW f, f = ComputeForecast(t, p, day), NEW k \in 1 .. Len(f)
  PROVE  /\ t.payment > 0
         /\ \E rows : /\ Repays(rows, t.payment, t.rate, principal, unpaid)
                      /\ Foretells(f, rows, NextDueIndex(day))
<1>1. PICK rows : rows = ProjectPayments(t, p)
  OBVIOUS
<1>2. PICK first : first = NextDueIndex(day)
  OBVIOUS
<1>3. PICK payment \in Nat, rate \in Nat : payment = t.payment /\ rate = t.rate
  BY DEF Tabs
<1>4. f = IF payment <= 0 \/ p.remaining <= 0 \/ first + Len(rows) > MaxPeriods
          THEN <<>>
          ELSE [i \in 1 .. Len(rows) |->
                  [due |-> Due[first + i - 1],
                   amount |-> rows[i].payment, balance |-> rows[i].balance]]
  BY <1>1, <1>2, <1>3, Zenon DEF ComputeForecast
<1>5. ~(payment <= 0 \/ p.remaining <= 0 \/ first + Len(rows) > MaxPeriods)
  <2>1. SUFFICES ASSUME payment <= 0 \/ p.remaining <= 0 \/ first + Len(rows) > MaxPeriods PROVE FALSE
    OBVIOUS
  <2>2. f = <<>>
    BY <1>4, <2>1
  <2> QED BY <2>2
<1>6. payment \in Nat \ {0} /\ principal + unpaid > 0
  BY <1>3, <1>5
<1>7. first \in Int /\ MaxPeriods \in Int
  <2>1. MaxPeriods \in Nat /\ DOMAIN Due = 0 .. MaxPeriods - 1
    BY ScheduleAssumption DEF Due
  <2>2. PICK ahead : ahead = {n \in DOMAIN Due : Due[n] >= day}
    OBVIOUS
  <2>3. ahead \subseteq Nat
    BY <2>1, <2>2
  <2>4. CASE ahead = {}
    <3>1. first = MaxPeriods
      BY <1>2, <2>2, <2>4 DEF NextDueIndex
    <3> QED BY <2>1, <3>1
  <2>5. CASE ahead # {}
    <3>1. first = CHOOSE n \in ahead : \A m \in ahead : n <= m
      BY <1>2, <2>2, <2>5 DEF NextDueIndex
    <3>2. \E n \in ahead : \A m \in ahead : n <= m
      BY <2>3, <2>5, Least
    <3>3. first \in ahead
      BY <3>1, <3>2
    <3> QED BY <2>1, <2>3, <3>3
  <2> QED BY <2>4, <2>5
<1>8. Repays(rows, payment, rate, principal, unpaid)
  <2>1. CASE principal = 0
    <3>1. rows = FlatPayments(unpaid, payment)
      BY <1>1, <1>3, <2>1 DEF ProjectPayments
    <3>2. unpaid \in Nat \ {0}
      BY <1>6, <2>1
    <3> QED BY <1>3, <1>6, <2>1, <3>1, <3>2, FlatRepays
  <2>2. CASE principal # 0
    <3>1. PICK l : l = Terms(t, principal, unpaid)
      OBVIOUS
    <3>2. l = [principal |-> principal, unpaid |-> unpaid, bp |-> rate, basis |-> RateBasis]
      BY <1>3, <3>1 DEF Terms
    <3>3. Borrowed(l) /\ l.bp = rate /\ l.principal = principal /\ l.unpaid = unpaid
      BY <2>2, <3>2 DEF Borrowed
    <3>4. rows = Project(l, payment)
      BY <1>1, <1>3, <2>2, <3>1 DEF ProjectPayments
    <3>5. rows # <<>>
      <4>1. SUFFICES ASSUME rows = <<>> PROVE FALSE
        OBVIOUS
      <4>2. Len(rows) = 0
        BY <4>1
      <4>3. f = [i \in 1 .. 0 |-> [due |-> Due[first + i - 1],
                   amount |-> rows[i].payment, balance |-> rows[i].balance]]
        BY <1>4, <1>5, <4>2
      <4>4. f = <<>>
        BY <4>3
      <4> QED BY <4>4
    <3> QED BY <1>6, <3>3, <3>4, <3>5, ProjectRepays
  <2> QED BY <2>1, <2>2
<1>9. Foretells(f, rows, first)
  <2>1. Len(rows) \in Nat
    BY <1>8 DEF Repays
  <2>2. f = [i \in 1 .. Len(rows) |->
               [due |-> Due[first + i - 1],
                amount |-> rows[i].payment, balance |-> rows[i].balance]]
    BY <1>4, <1>5
  <2>3. Len(f) = Len(rows)
    BY <2>1, <2>2
  <2>4. first + Len(rows) <= MaxPeriods
    BY <1>5, <1>7, <2>1
  <2> QED BY <2>2, <2>3, <2>4 DEF Foretells
<1> QED BY <1>2, <1>3, <1>6, <1>8, <1>9

-----------------------------------------------------------------------------
(* Where a ledger is after the first j of the n rows of a forecast of the loan
   a: q of principal is left, and v of interest. *)
Reached(es, day, a, payment, j, n, q, v) ==
  /\ LedgerOf(es, day) /\ FeesOf(es) = FeesOf(entries)
  /\ \E b \in SoundLoan :
       /\ b = AllocateLoan(es, day) /\ b.principal = q /\ b.unpaid = v
       /\ b.charged = a.charged /\ b.credited = a.credited
       /\ b.paid - b.interest >= a.paid - a.interest
       /\ j < n => b.paid >= a.paid + j * payment

LEMMA RowReached ==
  ASSUME NEW es, NEW day \in Int, NEW a \in SoundLoan, NEW payment \in Nat,
         NEW j \in Nat, NEW n \in Nat, j < n, NEW q \in Nat, NEW v \in Nat,
         Reached(es, day, a, payment, j, n, q, v),
         NEW row, NEW y \in Nat, NEW z \in Nat, PaysRow(row, tab.rate, q, v, y, z),
         j + 1 < n => row.payment = payment,
         NEW next, NEW due \in Int, next.due = due, next.amount = row.payment, day < due
  PROVE  Reached(FollowRow(es, next), due, a, payment, j + 1, n, y, z)
<1>1. LedgerOf(es, day) /\ FeesOf(es) = FeesOf(entries)
  BY DEF Reached
<1>2. PICK b \in SoundLoan :
        /\ b = AllocateLoan(es, day) /\ b.principal = q /\ b.unpaid = v
        /\ b.charged = a.charged /\ b.credited = a.credited
        /\ b.paid - b.interest >= a.paid - a.interest
        /\ j < n => b.paid >= a.paid + j * payment
  BY DEF Reached
<1>3. PICK d \in Nat, m \in Nat : d = InterestFor(q, tab.rate, RateBasis) /\ m = row.payment /\ d <= m
  BY DEF PaysRow
<1>4. PICK s : s = Lesser(m, v + d) /\ y = q - Lesser(m - s, q) /\ z = v + d - s
  BY <1>3 DEF PaysRow
<1>5. PICK fs : fs = FollowRow(es, next)
  OBVIOUS
<1>6. d = InterestFor(b.principal, tab.rate, RateBasis) /\ next.amount \in Nat /\ next.due \in Int /\ day < next.due
  BY <1>2, <1>3
<1>7. Leaves(fs, next.due, es, Repaid(b, d, next.amount))
  BY <1>1, <1>2, <1>3, <1>5, <1>6, RowFollowed, Zenon
<1>8. PICK c \in SoundLoan : c = AllocateLoan(fs, due) /\ c = Repaid(b, d, m)
  BY <1>3, <1>7 DEF Leaves
<1>9. /\ c.principal = y /\ c.unpaid = z /\ c.charged = b.charged /\ c.credited = b.credited
      /\ c.paid = b.paid + m /\ c.interest = b.interest + d
  BY <1>2, <1>4, <1>8 DEF Repaid
<1>10. PICK bp \in Nat, bi \in Int, ap \in Nat, ai \in Int :
         bp = b.paid /\ bi = b.interest /\ ap = a.paid /\ ai = a.interest
  BY DEF SoundLoan
<1>11. c.paid - c.interest >= a.paid - a.interest
  BY <1>2, <1>3, <1>9, <1>10
<1>12. ASSUME j + 1 < n PROVE c.paid >= a.paid + (j + 1) * payment
  <2>1. (j + 1) * payment = j * payment + payment /\ j * payment \in Int
    BY SMT
  <2> QED BY <1>2, <1>3, <1>9, <1>10, <1>12, <2>1
<1>13. LedgerOf(fs, due) /\ FeesOf(fs) = FeesOf(entries)
  BY <1>1, <1>7 DEF Leaves
<1> QED BY <1>2, <1>5, <1>8, <1>9, <1>11, <1>12, <1>13 DEF Reached

-----------------------------------------------------------------------------
(* Followed k rows, the ledger owes what the k-th says. *)
LEMMA RowsReached ==
  ASSUME SignedBook, Ahead = {}, \A n \in DOMAIN Due : Due[n] # Day,
         NEW a, a = AllocateLoan(entries, Day), NEW rows, NEW payment \in Nat,
         NEW P, NEW U, PaysDown(rows, Len(rows), tab.rate, P, U), P[0] = a.principal, U[0] = a.unpaid,
         \A i \in 1 .. Len(rows) - 1 : rows[i].payment = payment, Len(rows) \in Nat,
         NEW f, NEW first, first = NextDueIndex(Day), Foretells(f, rows, first),
         NEW k \in 1 .. Len(rows)
  PROVE  Reached(Followed(f, k), Due[first + k - 1], a, payment, k, Len(rows), P[k], U[k])
<1>1. PICK n \in Nat : n = Len(rows)
  OBVIOUS
<1>2. PICK day \in Int : day = Day
  BY DayIsInt DEF SignedBook, Booked, Day
<1>3. LedgerOf(entries, day) /\ a = AllocateLoan(entries, day) /\ a \in SoundLoan
  <2>1. Ledger(entries) /\ Signed(entries)
    BY DEF SignedBook, Booked, Books
  <2>2. \A e \in Live(entries) : DayOf(e) \in Int
    BY <2>1, LedgerEntries DEF Entries, Entry, DayOf
  <2>3. LedgerOf(entries, day)
    BY <1>2, <2>1, <2>2 DEF Ahead, LedgerOf
  <2>4. AllocateLoan(entries, day) \in SoundLoan
    BY <2>1, LoanIsSound
  <2> QED BY <1>2, <2>3, <2>4
<1>4. PICK g : /\ Followed(f, k) = g[k] /\ g[0] = entries
               /\ \A i \in 1 .. k : g[i] = FollowRow(g[i - 1], f[i])
  <2>1. k \in Nat
    BY <1>1
  <2> QED BY <2>1, FollowedIs, Zenon
<1>5. /\ P \in [0 .. n -> Nat] /\ U \in [0 .. n -> Nat]
      /\ \A i \in 1 .. n : PaysRow(rows[i], tab.rate, P[i - 1], U[i - 1], P[i], U[i])
  BY <1>1 DEF PaysDown
<1>6. /\ first + n <= MaxPeriods
      /\ \A i \in 1 .. n :
           f[i] = [due |-> Due[first + i - 1], amount |-> rows[i].payment, balance |-> rows[i].balance]
  BY <1>1 DEF Foretells
<1>7. first \in Nat /\ \A i \in DOMAIN Due : i >= first => day < Due[i]
  BY <1>1, <1>2, <1>6, DueBefore
<1>8. DOMAIN Due = 0 .. MaxPeriods - 1 /\ MaxPeriods \in Nat
  BY ScheduleAssumption DEF Due
<1>9. \A i \in DOMAIN Due : Due[i] \in Int
  BY DuesAreInts
<1> DEFINE On(i) == IF i = 0 THEN day ELSE Due[first + i - 1]
           G == {i \in Nat : i <= k => Reached(g[i], On(i), a, payment, i, n, P[i], U[i])}
<1>10. ASSUME NEW i \in Nat, i <= k PROVE On(i) \in Int /\ (i < k => On(i) < On(i + 1))
  <2>1. ASSUME i < k PROVE first + i \in DOMAIN Due /\ On(i + 1) = Due[first + i]
    <3>1. first + (i + 1) - 1 = first + i /\ i + 1 # 0
      BY <1>7
    <3> QED BY <1>1, <1>6, <1>7, <1>8, <2>1, <3>1
  <2>2. CASE i = 0
    <3>1. On(i) = day
      BY <2>2
    <3>2. first + i >= first
      BY <1>7, <2>2
    <3> QED BY <1>7, <2>1, <3>1, <3>2
  <2>3. CASE i # 0
    <3>1. On(i) = Due[first + i - 1] /\ first + i - 1 \in DOMAIN Due /\ first + i - 1 < first + i
      BY <1>1, <1>6, <1>7, <1>8, <1>10, <2>3
    <3> QED BY <1>9, <2>1, <3>1, DuesGrow
  <2> QED BY <2>2, <2>3
<1>11. 0 \in G
  <2>1. /\ a.paid - a.interest >= a.paid - a.interest
        /\ a.paid >= a.paid + 0 * payment
    <3>1. PICK ap \in Nat, ai \in Int : ap = a.paid /\ ai = a.interest
      BY <1>3 DEF SoundLoan
    <3>2. 0 * payment = 0
      BY SMT
    <3> QED BY <3>1, <3>2
  <2>2. Reached(entries, day, a, payment, 0, n, P[0], U[0])
    BY <1>3, <2>1 DEF Reached
  <2> QED BY <1>4, <2>2
<1>12. ASSUME NEW i \in Nat, i \in G PROVE i + 1 \in G
  <2> SUFFICES ASSUME i + 1 <= k PROVE Reached(g[i + 1], On(i + 1), a, payment, i + 1, n, P[i + 1], U[i + 1])
    OBVIOUS
  <2>1. i + 1 \in 1 .. k /\ i + 1 \in 1 .. n /\ (i + 1) - 1 = i /\ i <= k /\ i < k /\ i < n /\ i \in 0 .. n /\ i + 1 \in 0 .. n
    BY <1>1
  <2>2. g[i + 1] = FollowRow(g[i], f[i + 1])
    BY <1>4, <2>1
  <2>3. PICK today1 \in Int, due \in Int : today1 = On(i) /\ due = On(i + 1) /\ today1 < due
    <3>1. i + 1 <= k /\ i + 1 \in Nat
      BY <2>1
    <3> HIDE DEF On
    <3> QED BY <1>10, <2>1, <3>1
  <2>4. Reached(g[i], today1, a, payment, i, n, P[i], U[i])
    BY <1>12, <2>1, <2>3
  <2>5. PICK row, next : row = rows[i + 1] /\ next = f[i + 1]
    OBVIOUS
  <2>6. /\ PaysRow(row, tab.rate, P[i], U[i], P[i + 1], U[i + 1])
        /\ P[i] \in Nat /\ U[i] \in Nat /\ P[i + 1] \in Nat /\ U[i + 1] \in Nat
    BY <1>5, <2>1, <2>5
  <2>7. next.due = due /\ next.amount = row.payment
    <3>1. next = [due |-> Due[first + (i + 1) - 1], amount |-> row.payment, balance |-> row.balance]
      BY <1>6, <2>1, <2>5
    <3>2. On(i + 1) = Due[first + (i + 1) - 1]
      OBVIOUS
    <3> QED BY <2>3, <3>1, <3>2
  <2>8. i + 1 < n => row.payment = payment
    <3>1. i + 1 < n => i + 1 \in 1 .. Len(rows) - 1
      BY <1>1
    <3> QED BY <2>5, <3>1
  <2>9. Reached(FollowRow(g[i], next), due, a, payment, i + 1, n, P[i + 1], U[i + 1])
    <3> HIDE DEF G, On
    <3> QED BY <1>3, <2>1, <2>3, <2>4, <2>6, <2>7, <2>8, RowReached
  <2> QED BY <2>2, <2>3, <2>5, <2>9
<1>13. k \in G
  <2>1. \A i \in Nat : i \in G => i + 1 \in G
    BY <1>12
  <2>2. k \in Nat
    OBVIOUS
  <2> HIDE DEF G
  <2> QED BY <1>11, <2>1, <2>2, CountUp
<1>14. On(k) = Due[first + k - 1] /\ k \in Nat
  OBVIOUS
<1> QED BY <1>1, <1>4, <1>13, <1>14

-----------------------------------------------------------------------------
(* What a forecast comes to, followed to row k. *)
ComesTrue(k) ==
  \A p \in {ComputePayoff(tab, entries, Day)} :
  \A f \in {ComputeForecast(tab, p, Day)} :
    k \in 1 .. Len(f) =>
      /\ Owed(AllocateLoan(Followed(f, k), f[k].due)) = f[k].balance
      /\ p.status # "behind" /\ p.satisfied = p.paid /\ FeesOf(entries) = 0 =>
           ComputePayoff(tab, Followed(f, k), f[k].due).status # "behind"

(* What is paid beyond the interest improves the balance. *)
LEMMA PaidOff ==
  ASSUME NEW a \in SoundLoan, NEW b \in SoundLoan, b.charged = a.charged, b.credited = a.credited,
         b.paid - b.interest >= a.paid - a.interest
  PROVE  Billed(b) >= Billed(a)
<1>1. PICK bp \in Nat, bi \in Int : bp = b.paid /\ bi = b.interest
  BY DEF SoundLoan
<1>2. PICK ap \in Nat, ai \in Int : ap = a.paid /\ ai = a.interest
  BY DEF SoundLoan
<1>3. PICK c \in Int, h \in Int : c = a.credited /\ h = a.charged
  BY DEF SoundLoan
<1>4. Billed(b) = bp + c - h - bi /\ Billed(a) = ap + c - h - ai
  BY <1>1, <1>2, <1>3 DEF Billed
<1>5. bp - bi >= ap - ai
  BY <1>1, <1>2
<1>6. bp + c - h - bi >= ap + c - h - ai
  BY <1>1, <1>2, <1>3, <1>5
<1> QED BY <1>4, <1>6

(* Row by row, a forecast comes true. *)
LEMMA RowComesTrue ==
  ASSUME SignedBook, Ahead = {}, \A n \in DOMAIN Due : Due[n] # Day, NEW k
  PROVE  ComesTrue(k)
<1> SUFFICES ASSUME NEW p, p = ComputePayoff(tab, entries, Day),
                    NEW f, f = ComputeForecast(tab, p, Day), k \in 1 .. Len(f)
             PROVE  /\ Owed(AllocateLoan(Followed(f, k), f[k].due)) = f[k].balance
                    /\ p.status # "behind" /\ p.satisfied = p.paid /\ FeesOf(entries) = 0 =>
                         ComputePayoff(tab, Followed(f, k), f[k].due).status # "behind"
  BY DEF ComesTrue
<1>1. PICK day \in Int : day = Day
  BY DayIsInt DEF SignedBook, Booked, Day
<1>2. PICK a \in SoundLoan : a = AllocateLoan(entries, day)
  BY <1>1, LoanIsSound DEF SignedBook, Booked, Books
<1>3. PICK u \in Nat, v \in Nat : u = a.principal /\ v = a.unpaid
  BY <1>2 DEF SoundLoan
<1>4. p.principal = u /\ p.unpaid = v /\ p.remaining = u + v
  BY <1>1, <1>2, <1>3 DEF ComputePayoff, Owed
<1>5. PICK first : first = NextDueIndex(Day)
  OBVIOUS
<1>6. tab \in Tabs
  BY DEF SignedBook, Booked
<1>7. /\ tab.payment > 0
      /\ \E rows : Repays(rows, tab.payment, tab.rate, u, v) /\ Foretells(f, rows, first)
  BY <1>3, <1>4, <1>5, <1>6, ForecastRepays
<1>8. PICK payment \in Nat : payment = tab.payment
  BY <1>6 DEF Tabs
<1>9. PICK rows : Repays(rows, payment, tab.rate, u, v) /\ Foretells(f, rows, first)
  BY <1>7, <1>8
<1>10. PICK n \in Nat : n = Len(rows) /\ Len(f) = n /\ first + n <= MaxPeriods /\ k \in 1 .. n
  <2>1. Len(rows) \in Nat
    BY <1>9 DEF Repays
  <2> QED BY <1>9, <2>1 DEF Foretells
<1>11. f[k] = [due |-> Due[first + k - 1], amount |-> rows[k].payment, balance |-> rows[k].balance]
  BY <1>9, <1>10 DEF Foretells
<1>12. PICK P, U : /\ PaysDown(rows, Len(rows), tab.rate, P, U)
                   /\ P[0] = u /\ U[0] = v /\ P[n] + U[n] = 0
  BY <1>9, <1>10 DEF Repays
<1>13. \A i \in 1 .. Len(rows) - 1 : rows[i].payment = payment
  BY <1>9 DEF Repays
<1>14. PICK fs, due : fs = Followed(f, k) /\ due = Due[first + k - 1]
  OBVIOUS
<1>15. f[k].due = due /\ f[k].balance = rows[k].balance
  BY <1>11, <1>14
<1>16. Reached(fs, due, a, payment, k, n, P[k], U[k])
  BY <1>1, <1>2, <1>3, <1>5, <1>9, <1>10, <1>12, <1>13, <1>14, RowsReached
<1>17. PICK b \in SoundLoan :
         /\ b = AllocateLoan(fs, due) /\ b.principal = P[k] /\ b.unpaid = U[k]
         /\ b.charged = a.charged /\ b.credited = a.credited
         /\ b.paid - b.interest >= a.paid - a.interest
         /\ k < n => b.paid >= a.paid + k * payment
  BY <1>16 DEF Reached
<1>18. rows[k].balance = P[k] + U[k]
  BY <1>10, <1>12 DEF PaysDown, PaysRow
<1>19. Owed(AllocateLoan(fs, due)) = f[k].balance
  BY <1>15, <1>17, <1>18 DEF Owed
<1>20. /\ first \in Nat /\ Cardinality(DueThrough(day)) = first
       /\ Cardinality(DueThrough(due)) = first + k /\ due \in Int
  <2>1. first + k <= MaxPeriods /\ k \in Nat /\ k > 0 /\ first \in Nat /\ MaxPeriods \in Nat
    <3>1. MaxPeriods \in Nat
      BY ScheduleAssumption
    <3>2. first \in Nat
      <4>1. (\A i \in DOMAIN Due : Due[i] # day) /\ first = NextDueIndex(day)
        BY <1>1, <1>5
      <4> QED BY <1>10, <4>1, DueBefore
    <3> QED BY <1>10, <3>1, <3>2
  <2>2. Cardinality(DueThrough(day)) = first /\ Cardinality(DueThrough(due)) = first + k
    BY <1>1, <1>5, <1>14, <2>1, DueBefore
  <2>3. first + k - 1 \in DOMAIN Due
    BY <2>1 DEF Due
  <2> QED BY <1>14, <2>1, <2>2, <2>3, DuesAreInts
<1>21. Billed(b) >= Billed(a)
  <2>1. b.charged = a.charged /\ b.credited = a.credited /\ b.paid - b.interest >= a.paid - a.interest
    BY <1>17
  <2> QED BY <1>2, <1>17, <2>1, PaidOff
<1>22. ASSUME FeesOf(entries) = 0 PROVE FeesOf(fs) = 0 /\ (Billed(b) >= 0 \/ b.paid >= a.paid + k * payment)
  <2>1. FeesOf(fs) = 0 /\ LedgerOf(fs, due)
    BY <1>16, <1>22 DEF Reached
  <2>2. CASE k < n
    BY <1>17, <2>1, <2>2
  <2>3. CASE k = n
    <3>1. Billed(b) - FeesOf(fs) = Standing(b) - FeesOf(fs)
      <4>1. {e \in Live(fs) : DayOf(e) > due} = {}
        <5>1. \A e \in Live(fs) : DayOf(e) \in Int /\ DayOf(e) <= due
          BY <2>1, LedgerEntries DEF LedgerOf, Entries, Entry, DayOf
        <5> QED BY <1>20, <5>1
      <4>2. SumOf({}) = 0
        BY <2>1, LedgerEntries, SumOfEntries DEF LedgerOf
      <4>3. Ledger(fs) /\ FeesBy(fs, due)
        BY <2>1 DEF LedgerOf, FeesBy
      <4>4. /\ Billed(b) - FeesOf(fs) + SumOf({}) = SumOf(ToSet(fs))
            /\ Standing(b) - FeesOf(fs) + SumOf({}) = SumOf(ToSet(fs))
            /\ SumOf(ToSet(fs)) \in Int
        BY <1>17, <1>20, <4>1, <4>3, LoanOfLedger
      <4>5. PICK x \in Int, h \in Int : x = Billed(b) /\ h = Standing(b)
        <5>1. PICK m \in Nat, i \in Int, c \in Int, g \in Int :
                m = b.paid /\ i = b.interest /\ c = b.credited /\ g = b.charged
          BY DEF SoundLoan
        <5>2. PICK q \in Nat, w \in Nat, h \in Nat : q = b.principal /\ w = b.unpaid /\ h = b.ahead
          BY DEF SoundLoan
        <5>3. Billed(b) = m + c - g - i /\ Standing(b) = h - (q + w)
          BY <5>1, <5>2 DEF Billed, Standing, Owed
        <5> QED BY <5>3
      <4> QED BY <2>1, <4>2, <4>4, <4>5
    <3>2. Owed(b) = 0
      BY <1>12, <1>17, <2>3 DEF Owed
    <3>3. PICK h \in Nat : h = b.ahead
      BY DEF SoundLoan
    <3>4. Standing(b) = h
      BY <3>2, <3>3 DEF Standing
    <3>5. PICK x \in Int : x = Billed(b)
      <4>1. PICK bp \in Nat, bi \in Int, c \in Int, g \in Int :
              bp = b.paid /\ bi = b.interest /\ c = b.credited /\ g = b.charged
        BY DEF SoundLoan
      <4>2. Billed(b) = bp + c - g - bi
        BY <4>1 DEF Billed
      <4> QED BY <4>2
    <3>6. x - 0 = h - 0
      BY <2>1, <3>1, <3>4, <3>5
    <3> QED BY <2>1, <3>3, <3>5, <3>6
  <2> QED BY <1>10, <2>2, <2>3
<1>23. ASSUME p.status # "behind", p.satisfied = p.paid, FeesOf(entries) = 0
       PROVE  ComputePayoff(tab, fs, due).status # "behind"
  <2>1. FeesOf(fs) = 0 /\ (Billed(b) >= 0 \/ b.paid >= a.paid + k * tab.payment)
    BY <1>8, <1>22, <1>23
  <2>2. /\ ComputePayoff(tab, entries, day).status # "behind"
        /\ ComputePayoff(tab, entries, day).satisfied = ComputePayoff(tab, entries, day).paid
    BY <1>1, <1>23
  <2>3. k \in Nat
    BY <1>10
  <2> QED BY <1>2, <1>6, <1>7, <1>17, <1>20, <1>21, <1>23, <2>1, <2>2, <2>3, StaysOnTrack
<1> QED BY <1>14, <1>15, <1>19, <1>23

(* A forecast comes true (ComputeForecast): whatever was posted, undone or
   backdated before, whatever the loan, its terms and its schedule, and if no
   bank line is dated ahead of today, a ledger that is charged and paid as the
   forecast says owes after each payment what it said, and the payee who was
   not behind is not. *)
THEOREM ForecastsComeTrue == Spec => []ForecastHolds
<1>1. SignedBook => ForecastHolds
  <2>1. SUFFICES ASSUME SignedBook, Ahead = {}, \A n \in DOMAIN Due : Due[n] # Day
                  PROVE  \A k : ComesTrue(k)
    BY DEF ForecastHolds, ComesTrue
  <2> QED BY <2>1, RowComesTrue
<1> QED BY <1>1, StaysSigned, PTL
=============================================================================
