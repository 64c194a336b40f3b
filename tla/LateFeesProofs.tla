--------------------------- MODULE LateFeesProofs ---------------------------
(***************************************************************************)
(* A due date is fined once in the life of the tab, for any number of      *)
(* readers, days and payments, and for every policy. The claim on the date *)
(* is what shows it: PostFee posts in the step that looks for the claim,   *)
(* and a claim is never taken back, not even when its fee is waived; that  *)
(* the fees read before are stale does not matter.                         *)
(*                                                                         *)
(* It matters to the cap: each reader fills what it found left under it, so *)
(* that the fees that stand and what the readers may still post come to no *)
(* more than one cap for each of them. It does not to the dates missed,    *)
(* all of which a completed reading has fined; nor to those paid, none of  *)
(* which is, as far as their payments were recorded by the day before.     *)
(***************************************************************************)
EXTENDS LateFees, FiniteSums

(* Fees of one date are one fee. Nothing but the entries is needed. *)
LEMMA FeesStart == Init => FinedOncePerDate
  BY DEF Init, FinedOncePerDate, Of

(* Entries of another kind do not count. *)
LEMMA OtherKinds ==
  ASSUME NEW kind, kind # "fee", NEW n, NEW on, NEW amount, NEW asOf,
         entries' = entries \cup {Entry(kind, n, on, amount, asOf)}
  PROVE  Of("fee", entries') = Of("fee", entries)
  BY DEF Of, Entry

(* A fee for a date nobody has claimed. *)
LEMMA NewFee ==
  ASSUME FinedOncePerDate, NEW n, NEW on, NEW amount, NEW asOf, n \notin Assessed,
         entries' = entries \cup {Entry("fee", n, on, amount, asOf)}
  PROVE  FinedOncePerDate'
<1> DEFINE new == Entry("fee", n, on, amount, asOf)
<1>1. new.no = n
  BY DEF Entry
<1>2. Of("fee", entries') \subseteq Of("fee", entries) \cup {new}
  <2> HIDE DEF new
  <2> QED BY DEF Of, new
<1>3. \A f \in Of("fee", entries) : f.no # n
  BY DEF Assessed
<1> HIDE DEF new
<1> QED BY <1>1, <1>2, <1>3 DEF FinedOncePerDate

LEMMA FeesStep == FinedOncePerDate /\ [Next]_vars => FinedOncePerDate'
<1> SUFFICES ASSUME FinedOncePerDate, [Next]_vars PROVE FinedOncePerDate'
  OBVIOUS
<1>1. ASSUME entries' = entries PROVE FinedOncePerDate'
  BY <1>1 DEF FinedOncePerDate
<1>2. CASE Charge
  <2>1. PICK n : entries' = entries \cup {Entry("charge", n, DueOn(n), Base, DueOn(n))}
    BY <1>2 DEF Charge
  <2> QED BY <2>1, OtherKinds DEF FinedOncePerDate
<1>3. CASE Pay \/ PostOnBankDate
  <2>1. PICK on, amount : PostPayment(on, amount)
    BY <1>3 DEF Pay, PostOnBankDate
  <2>2. entries' = entries \cup
          {Entry("payment", Cardinality(Of("payment", entries)) + 1, on, amount, day)}
    BY <2>1 DEF PostPayment
  <2> QED BY <2>2, OtherKinds DEF FinedOncePerDate
<1>4. ASSUME NEW r \in Readers, PostFee(r) PROVE FinedOncePerDate'
  <2>1. \/ entries' = entries
        \/ \E pt \in reader[r].todo :
             /\ pt.on \notin Assessed
             /\ entries' = entries \cup
                  {Entry("fee", pt.on, Deadline(pt.on), Assess(reader[r].accrued), reader[r].asOf)}
    BY <1>4 DEF PostFee
  <2> QED BY <2>1, <1>1, NewFee
<1>5. CASE Undo \/ SwitchBilling \/ NextDay \/ Quiet \/ UNCHANGED vars
  BY <1>5, <1>1 DEF Undo, SwitchBilling, NextDay, Quiet, vars
<1>6. ASSUME NEW r \in Readers, ReadEntries(r) \/ ReadClaims(r) \/ Finish(r) \/ Fail(r)
      PROVE FinedOncePerDate'
  BY <1>6, <1>1 DEF ReadEntries, ReadClaims, Finish, Fail
<1> QED BY <1>2, <1>3, <1>4, <1>5, <1>6 DEF Next, AssessFees

(* Whatever the readers interleave with, no date is fined twice: waiving a fee
   (posted_fees keeps its row) does not make room for another. *)
THEOREM DatesAreFinedOnce == Spec => []FinedOncePerDate
  BY FeesStart, FeesStep, PTL DEF Spec

-----------------------------------------------------------------------------
(* What the variables hold. A posting reader works down a part of what stood
   in the book it read. *)
Rows == [seq : Nat, kind : {"charge", "payment", "fee"}, no : Nat, on : Nat, amount : Nat \ {0},
         asOf : Nat]

IsReader(rd, book, gone) ==
  \/ rd = Resting
  \/ rd \in [pc : {"claims"}, book : SUBSET book, gone : SUBSET gone]
  \/ /\ rd \in [pc : {"post"}, book : SUBSET book, gone : SUBSET gone, asOf : Nat,
                todo : SUBSET book, accrued : Nat]
     /\ rd.todo \subseteq Points(rd.book, rd.gone)

TypeOK ==
  /\ day \in Nat
  /\ billing \in {"advance", "arrears"}
  /\ IsFiniteSet(entries) /\ entries \subseteq Rows
  /\ undone \subseteq entries
  /\ reader = [r \in Readers |-> reader[r]]
  /\ \A r \in Readers : IsReader(reader[r], entries, undone)

-----------------------------------------------------------------------------
(* What Total makes of finite sets of rows. *)
LEMMA Totals ==
  ASSUME NEW S, IsFiniteSet(S), S \subseteq Rows
  PROVE  /\ Total(S) \in Nat
         /\ \A T \in SUBSET S : Total(T) \in Nat /\ Total(T) <= Total(S)
         /\ \A x \in S : Total(S) = x.amount + Total(S \ {x})
<1> PICK w : w = [x \in S |-> x.amount]
  OBVIOUS
<1>1. \A x \in S : w[x] \in Nat /\ w[x] = x.amount
  BY DEF Rows
<1>2. \A T \in SUBSET S : Total(T) = SumFunction([x \in T |-> w[x]])
  <2> TAKE T \in SUBSET S
  <2>1. [x \in T |-> w[x]] = [x \in T |-> x.amount]
    BY <1>1
  <2> QED BY <2>1 DEF Total
<1>3. S \in SUBSET S /\ Total(S) = SumFunction([x \in S |-> w[x]])
  BY <1>2
<1>4. ASSUME NEW T \in SUBSET S
      PROVE  Total(S) \in Nat /\ Total(T) \in Nat /\ Total(T) <= Total(S)
  <2>1. /\ SumFunction([x \in S |-> w[x]]) \in Nat
        /\ SumFunction([x \in T |-> w[x]]) \in Nat
        /\ SumFunction([x \in T |-> w[x]]) <= SumFunction([x \in S |-> w[x]])
    <3>1. \A x \in S : w[x] \in Nat
      BY <1>1
    <3> QED BY <3>1, SumOfNaturals
  <2> QED BY <1>2, <1>3, <2>1
<1>5. \A x \in S : Total(S) = x.amount + Total(S \ {x})
  <2> TAKE x \in S
  <2> PICK T \in SUBSET S : T = S \ {x}
    OBVIOUS
  <2>1. \A y \in S : w[y] \in Int
    BY <1>1
  <2>2. SumFunction([y \in S |-> w[y]]) = w[x] + SumFunction([y \in T |-> w[y]])
    BY <2>1, SumGrows
  <2>3. Total(T) = SumFunction([y \in T |-> w[y]])
    BY <1>2
  <2> QED BY <1>1, <1>3, <2>2, <2>3
<1> QED BY <1>3, <1>4, <1>5

LEMMA TotalOfNone == Total({}) = 0
<1>1. [x \in {} |-> x.amount] = [x \in {} |-> x]
  OBVIOUS
<1> QED BY <1>1, SumOfNone DEF Total

LEMMA TotalOfOne ==
  ASSUME NEW x \in Rows
  PROVE  Total({x}) = x.amount
<1>1. IsFiniteSet({x}) /\ {x} \subseteq Rows /\ {x} \ {x} = {}
  BY FS_Singleton
<1>2. Total({x}) = x.amount + Total({x} \ {x})
  BY <1>1, Totals
<1> QED BY <1>1, <1>2, TotalOfNone DEF Rows

(* One row more adds no more than it weighs. *)
LEMMA TotalGrows ==
  ASSUME NEW S, IsFiniteSet(S), S \subseteq Rows, NEW x \in Rows
  PROVE  Total(S \cup {x}) <= Total(S) + x.amount
<1> PICK T : T = S \cup {x}
  OBVIOUS
<1>1. IsFiniteSet(T) /\ T \subseteq Rows /\ T \ {x} \subseteq S
  BY FS_AddElement
<1>2. Total(T) = x.amount + Total(T \ {x})
  BY <1>1, Totals
<1>3. Total(T \ {x}) <= Total(S) /\ Total(T \ {x}) \in Nat /\ Total(S) \in Nat
  BY <1>1, Totals
<1> QED BY <1>2, <1>3 DEF Rows

-----------------------------------------------------------------------------
LEMMA TypeStart == Init => TypeOK
  BY FS_EmptySet DEF Init, TypeOK, IsReader

LEMMA NumberOf ==
  ASSUME TypeOK, NEW kind
  PROVE  Cardinality(Of(kind, entries)) \in Nat
<1>1. Of(kind, entries) \in SUBSET entries
  BY DEF Of
<1> QED BY <1>1, FS_Subset, FS_CardinalityType DEF TypeOK

(* A row more. *)
LEMMA Posts ==
  ASSUME TypeOK, NEW kind \in {"charge", "payment", "fee"}, NEW n \in Nat, NEW on \in Nat,
         NEW amount \in Nat \ {0}, NEW asOf \in Nat
  PROVE  /\ Entry(kind, n, on, amount, asOf) \in Rows
         /\ IsFiniteSet(entries \cup {Entry(kind, n, on, amount, asOf)})
<1>1. PICK k \in Nat : k = Cardinality(Of(kind, entries)) + 1
  BY NumberOf
<1>2. Entry(kind, n, on, amount, asOf)
        = [seq |-> k, kind |-> kind, no |-> n, on |-> on, amount |-> amount, asOf |-> asOf]
  BY <1>1 DEF Entry
<1>3. Entry(kind, n, on, amount, asOf) \in Rows
  BY <1>1, <1>2 DEF Rows
<1> QED BY <1>3, FS_AddElement DEF TypeOK

(* What a reader has read stays true of a book that grows. *)
LEMMA ReadersKeep ==
  ASSUME NEW rd, NEW book, NEW gone, NEW more, NEW waived,
         book \subseteq more, gone \subseteq waived, IsReader(rd, book, gone)
  PROVE  IsReader(rd, more, waived)
<1>1. SUBSET book \subseteq SUBSET more /\ SUBSET gone \subseteq SUBSET waived
  OBVIOUS
<1> QED BY <1>1 DEF IsReader

(* The fee is a fee, and is nothing only when the cap is reached. *)
LEMMA Assesses ==
  ASSUME NEW accrued \in Nat
  PROVE  /\ Assess(accrued) \in Nat
         /\ Assess(accrued) = 0 => Cap > 0 /\ accrued >= Cap
         /\ Cap > 0 /\ Assess(accrued) > 0 => accrued + Assess(accrued) <= Cap
  BY PolicyAssumption DEF Assess

(* A reader that posts. *)
IsPosting(rd, book, gone) ==
  /\ rd \in [pc : {"post"}, book : SUBSET book, gone : SUBSET gone, asOf : Nat,
             todo : SUBSET book, accrued : Nat]
  /\ rd.todo \subseteq Points(rd.book, rd.gone)

LEMMA Posting ==
  ASSUME TypeOK, NEW r \in Readers, reader[r].pc = "post"
  PROVE  IsPosting(reader[r], entries, undone)
  BY DEF TypeOK, IsReader, IsPosting, Resting

(* What posting a fee does: a point is dealt with, by a fee, by one there is,
   or by none because the cap is reached. *)
LEMMA PostFeeDoes ==
  ASSUME TypeOK, NEW r \in Readers, PostFee(r)
  PROVE  \E pt, amount, rd :
           /\ pt \in reader[r].todo /\ amount \in Nat
           /\ amount = Assess(reader[r].accrued)
           /\ pt \in entries /\ pt \in Rows
           /\ reader' = [reader EXCEPT ![r] = rd]
           /\ IsPosting(rd, entries, undone)
           /\ rd.book = reader[r].book /\ rd.gone = reader[r].gone
           /\ rd.asOf = reader[r].asOf /\ rd.todo = reader[r].todo \ {pt}
           /\ \/ /\ amount > 0 /\ pt.on \notin Assessed
                 /\ entries' = entries \cup
                        {Entry("fee", pt.on, Deadline(pt.on), amount, reader[r].asOf)}
                 /\ rd.accrued = reader[r].accrued + amount
              \/ /\ amount = 0 \/ pt.on \in Assessed
                 /\ entries' = entries
                 /\ rd.accrued = reader[r].accrued
           /\ UNCHANGED <<day, billing, undone>>
<1>1. PICK pt \in reader[r].todo :
        LET amount == Assess(reader[r].accrued) IN
        \/ amount > 0 /\ pt.on \notin Assessed
             /\ entries' = entries \cup
                    {Entry("fee", pt.on, Deadline(pt.on), amount, reader[r].asOf)}
             /\ Onward(r, pt, reader[r].accrued + amount)
        \/ (amount = 0 \/ pt.on \in Assessed)
             /\ Onward(r, pt, reader[r].accrued)
             /\ UNCHANGED entries
  BY DEF PostFee
<1>2. UNCHANGED <<day, billing, undone>> /\ reader[r].pc = "post"
  BY DEF PostFee
<1>3. IsPosting(reader[r], entries, undone)
  BY <1>2, Posting
<1>4. PICK rd : rd = reader[r]
  OBVIOUS
<1>5. rd.accrued \in Nat /\ pt \in entries /\ rd.todo \subseteq Points(rd.book, rd.gone)
  BY <1>3, <1>4 DEF IsPosting
<1>6. pt \in Rows
  BY <1>5 DEF TypeOK
<1>7. PICK amount \in Nat : amount = Assess(rd.accrued)
  BY <1>5, Assesses
<1>8. ASSUME NEW accrued \in Nat, Onward(r, pt, accrued)
      PROVE  \E to : /\ reader' = [reader EXCEPT ![r] = to]
                     /\ IsPosting(to, entries, undone)
                     /\ to.book = rd.book /\ to.gone = rd.gone /\ to.asOf = rd.asOf
                     /\ to.todo = rd.todo \ {pt} /\ to.accrued = accrued
  <2>1. PICK to : to = [pc |-> "post", book |-> rd.book, gone |-> rd.gone, asOf |-> rd.asOf,
                        todo |-> rd.todo \ {pt}, accrued |-> accrued]
    OBVIOUS
  <2>2. IsPosting(to, entries, undone)
    BY <1>3, <1>4, <2>1 DEF IsPosting
  <2>3. reader' = [reader EXCEPT ![r] = to]
    BY <1>4, <1>8, <2>1 DEF Onward
  <2>4. /\ to.book = rd.book /\ to.gone = rd.gone /\ to.asOf = rd.asOf
        /\ to.todo = rd.todo \ {pt} /\ to.accrued = accrued
    BY <2>1
  <2> QED BY <2>2, <2>3, <2>4
<1>9. CASE /\ amount > 0 /\ pt.on \notin Assessed
           /\ entries' = entries \cup {Entry("fee", pt.on, Deadline(pt.on), amount, reader[r].asOf)}
           /\ Onward(r, pt, rd.accrued + amount)
  <2>1. PICK n \in Nat : n = rd.accrued + amount
    BY <1>5
  <2>2. Onward(r, pt, n)
    BY <1>9, <2>1
  <2> QED BY <1>2, <1>4, <1>5, <1>6, <1>7, <1>8, <1>9, <2>1, <2>2
<1>10. CASE /\ amount = 0 \/ pt.on \in Assessed
            /\ Onward(r, pt, rd.accrued)
            /\ UNCHANGED entries
  <2>1. PICK n \in Nat : n = rd.accrued
    BY <1>5
  <2>2. Onward(r, pt, n)
    BY <1>10, <2>1
  <2> QED BY <1>2, <1>4, <1>5, <1>6, <1>7, <1>8, <1>10, <2>1, <2>2
<1> QED BY <1>1, <1>4, <1>7, <1>9, <1>10

LEMMA TypeStep == TypeOK /\ [Next]_vars => TypeOK'
<1> SUFFICES ASSUME TypeOK, [Next]_vars PROVE TypeOK'
  OBVIOUS
<1> USE PolicyAssumption
(* The readers as they are, over more. *)
<1>1. ASSUME reader' = reader, entries \subseteq entries', undone \subseteq undone'
      PROVE  /\ reader' = [r \in Readers |-> reader'[r]]
             /\ \A r \in Readers : IsReader(reader'[r], entries', undone')
  BY <1>1, ReadersKeep DEF TypeOK
(* One of them moved on. *)
<1>2. ASSUME NEW r \in Readers, NEW rd, reader' = [reader EXCEPT ![r] = rd],
             IsReader(rd, entries', undone'), entries \subseteq entries',
             undone \subseteq undone'
      PROVE  /\ reader' = [q \in Readers |-> reader'[q]]
             /\ \A q \in Readers : IsReader(reader'[q], entries', undone')
  BY <1>2, ReadersKeep DEF TypeOK
<1>3. CASE Charge
  <2>1. PICK n \in 0 .. MaxDay : entries' = entries \cup
                                     {Entry("charge", n, DueOn(n), Base, DueOn(n))}
    BY <1>3 DEF Charge, Unbilled
  <2>2. DueOn(n) \in Nat
    BY DEF DueOn
  <2>3. IsFiniteSet(entries') /\ entries' \subseteq Rows
    BY <2>1, <2>2, Posts DEF TypeOK
  <2>4. entries \subseteq entries' /\ UNCHANGED <<day, billing, undone, reader>>
    BY <1>3, <2>1 DEF Charge
  <2> QED BY <1>1, <2>3, <2>4 DEF TypeOK
<1>4. CASE Pay \/ PostOnBankDate
  <2>1. PICK on \in Nat, amount \in Nat \ {0} : PostPayment(on, amount)
    BY <1>4 DEF Pay, PostOnBankDate, TypeOK
  <2>2. PICK n \in Nat : n = Cardinality(Of("payment", entries)) + 1
    BY NumberOf
  <2>3. entries' = entries \cup {Entry("payment", n, on, amount, day)}
    BY <2>1, <2>2 DEF PostPayment
  <2>4. IsFiniteSet(entries') /\ entries' \subseteq Rows
    <3>1. day \in Nat
      BY DEF TypeOK
    <3>2. /\ Entry("payment", n, on, amount, day) \in Rows
          /\ IsFiniteSet(entries \cup {Entry("payment", n, on, amount, day)})
      BY <2>1, <2>2, <3>1, Posts
    <3> QED BY <2>3, <3>2 DEF TypeOK
  <2>5. entries \subseteq entries' /\ UNCHANGED <<day, billing, undone, reader>>
    BY <2>1, <2>3 DEF PostPayment
  <2> QED BY <1>1, <2>4, <2>5 DEF TypeOK
<1>5. CASE Undo
  <2>1. undone' \subseteq entries /\ undone \subseteq undone'
    BY <1>5 DEF Undo, TypeOK
  <2>2. UNCHANGED <<day, billing, entries, reader>>
    BY <1>5 DEF Undo
  <2> QED BY <1>1, <2>1, <2>2 DEF TypeOK
<1>6. CASE SwitchBilling \/ NextDay \/ Quiet \/ UNCHANGED vars
  <2>1. UNCHANGED <<entries, undone, reader>>
    BY <1>6 DEF SwitchBilling, NextDay, Quiet, vars
  <2>2. day' \in Nat /\ billing' \in {"advance", "arrears"}
    BY <1>6 DEF SwitchBilling, NextDay, Quiet, vars, TypeOK
  <2> QED BY <1>1, <2>1, <2>2 DEF TypeOK
<1>7. ASSUME NEW r \in Readers, ReadEntries(r) PROVE TypeOK'
  <2>1. UNCHANGED <<day, billing, entries, undone>>
    BY <1>7 DEF ReadEntries
  <2>2. PICK rd : rd = [pc |-> "claims", book |-> entries, gone |-> undone]
    OBVIOUS
  <2>3. IsReader(rd, entries', undone')
    BY <2>1, <2>2 DEF IsReader
  <2>4. reader' = [reader EXCEPT ![r] = rd]
    BY <1>7, <2>2 DEF ReadEntries
  <2> QED BY <1>2, <2>1, <2>3, <2>4 DEF TypeOK
<1>8. ASSUME NEW r \in Readers, ReadClaims(r) PROVE TypeOK'
  <2>1. UNCHANGED <<day, billing, entries, undone>>
    BY <1>8 DEF ReadClaims
  <2>2. PICK book \in SUBSET entries, gone \in SUBSET undone :
          book = reader[r].book /\ gone = reader[r].gone
    BY <1>8 DEF ReadClaims, TypeOK, IsReader, Resting
  <2>3. PICK todo : todo = {pt \in Short(book, gone, day) : pt.on \notin Assessed}
    OBVIOUS
  <2>4. todo \subseteq Points(book, gone) /\ todo \subseteq book
    BY <2>3 DEF Short, Points, Of
  <2>5. PICK accrued \in Nat : accrued = Total(Of("fee", book) \ gone)
    <3>1. IsFiniteSet(book) /\ book \subseteq Rows
      BY FS_Subset DEF TypeOK
    <3>2. Of("fee", book) \ gone \in SUBSET book
      BY DEF Of
    <3> QED BY <3>1, <3>2, Totals
  <2>6. PICK rd : rd = [pc |-> "post", book |-> book, gone |-> gone, asOf |-> day,
                        todo |-> todo, accrued |-> accrued]
    OBVIOUS
  <2>7. IsReader(rd, entries', undone')
    BY <2>1, <2>4, <2>6 DEF IsReader, TypeOK
  <2>8. reader' = [reader EXCEPT ![r] = rd]
    BY <1>8, <2>2, <2>3, <2>5, <2>6 DEF ReadClaims
  <2> QED BY <1>2, <2>1, <2>7, <2>8 DEF TypeOK
<1>9. ASSUME NEW r \in Readers, PostFee(r) PROVE TypeOK'
  <2>1. PICK pt, amount, rd :
          /\ pt \in reader[r].todo /\ amount \in Nat
          /\ pt \in Rows
          /\ reader' = [reader EXCEPT ![r] = rd]
          /\ IsPosting(rd, entries, undone)
          /\ \/ /\ amount > 0
                /\ entries' = entries \cup
                       {Entry("fee", pt.on, Deadline(pt.on), amount, reader[r].asOf)}
             \/ entries' = entries
          /\ UNCHANGED <<day, billing, undone>>
    BY <1>9, PostFeeDoes
  <2>2. pt.on \in Nat /\ Deadline(pt.on) \in Nat
    BY <2>1 DEF Rows, Deadline
  <2>3. CASE amount > 0 /\ entries' = entries \cup
                               {Entry("fee", pt.on, Deadline(pt.on), amount, reader[r].asOf)}
    <3>1. amount \in Nat \ {0}
      BY <2>1, <2>3
    <3>2. PICK n \in Nat, on \in Nat : n = pt.on /\ on = Deadline(pt.on)
      BY <2>2
    <3>3. PICK asOf \in Nat : asOf = reader[r].asOf
      BY <1>9, Posting DEF PostFee, IsPosting
    <3>4. /\ Entry("fee", n, on, amount, asOf) \in Rows
          /\ IsFiniteSet(entries \cup {Entry("fee", n, on, amount, asOf)})
          /\ entries' = entries \cup {Entry("fee", n, on, amount, asOf)}
      BY <2>3, <3>1, <3>2, <3>3, Posts
    <3>5. IsFiniteSet(entries') /\ entries' \subseteq Rows /\ entries \subseteq entries'
      BY <3>4 DEF TypeOK
    <3>6. IsReader(rd, entries, undone)
      BY <2>1 DEF IsReader, IsPosting
    <3>7. IsReader(rd, entries', undone')
      BY <2>1, <3>5, <3>6, ReadersKeep
    <3> QED BY <1>2, <2>1, <3>5, <3>7 DEF TypeOK
  <2>4. CASE entries' = entries
    <3>1. IsReader(rd, entries', undone')
      BY <2>1, <2>4 DEF IsReader, IsPosting
    <3> QED BY <1>2, <2>1, <2>4, <3>1 DEF TypeOK
  <2> QED BY <2>1, <2>3, <2>4
<1>10. ASSUME NEW r \in Readers, Finish(r) \/ Fail(r) PROVE TypeOK'
  <2>1. /\ UNCHANGED <<day, billing, entries, undone>>
        /\ reader' = [reader EXCEPT ![r] = Resting]
    BY <1>10 DEF Finish, Fail
  <2>2. IsReader(Resting, entries', undone')
    BY DEF IsReader
  <2> QED BY <1>2, <2>1, <2>2 DEF TypeOK
<1> QED BY <1>3, <1>4, <1>5, <1>6, <1>7, <1>8, <1>9, <1>10 DEF Next, AssessFees

LEMMA TypeHolds == Spec => []TypeOK
  BY TypeStart, TypeStep, PTL DEF Spec

-----------------------------------------------------------------------------
(* What a reader found left under the cap and has not posted yet. *)
Left(accrued) == IF accrued < Cap THEN Cap - accrued ELSE 0

RoomOf(rd) ==
  IF rd.pc = "claims" THEN Left(Total(Of("fee", rd.book) \ rd.gone))
  ELSE IF rd.pc = "post" THEN Left(rd.accrued) ELSE 0

Rooms == SumFunction([r \in Readers |-> RoomOf(reader[r])])

(* The fees that stand and those the readers may still post. *)
RoomIsBounded == Cap > 0 => Standing + Rooms <= Cap * Cardinality(Readers)

LEMMA FeesWeigh ==
  ASSUME NEW book, IsFiniteSet(book), book \subseteq Rows, NEW gone
  PROVE  Total(Of("fee", book) \ gone) \in Nat
<1>1. Of("fee", book) \ gone \in SUBSET book
  BY DEF Of
<1> QED BY <1>1, Totals

LEMMA StandingIsNat == TypeOK => Standing \in Nat
  BY FeesWeigh DEF TypeOK, Standing

(* Nobody has more room than the cap. *)
LEMMA RoomFits ==
  ASSUME TypeOK, NEW r \in Readers
  PROVE  RoomOf(reader[r]) \in 0 .. Cap
<1> USE PolicyAssumption
<1>1. \A accrued \in Nat : Left(accrued) \in 0 .. Cap
  BY DEF Left
<1>2. CASE reader[r] = Resting
  BY <1>2 DEF RoomOf, Resting
<1>3. CASE reader[r] \in [pc : {"claims"}, book : SUBSET entries, gone : SUBSET undone]
  <2>1. PICK book \in SUBSET entries : book = reader[r].book
    BY <1>3
  <2>2. IsFiniteSet(book) /\ book \subseteq Rows
    BY FS_Subset DEF TypeOK
  <2>3. PICK n \in Nat : n = Total(Of("fee", book) \ reader[r].gone)
    BY <2>2, FeesWeigh
  <2>4. RoomOf(reader[r]) = Left(n)
    BY <1>3, <2>1, <2>3 DEF RoomOf
  <2> QED BY <1>1, <2>4
<1>4. CASE IsPosting(reader[r], entries, undone)
  BY <1>1, <1>4 DEF RoomOf, IsPosting
<1> QED BY <1>2, <1>3, <1>4 DEF TypeOK, IsReader, IsPosting

(* So the rooms of some come to at most the cap for each of them. *)
LEMMA SumAtMost ==
  ASSUME NEW S, IsFiniteSet(S), NEW c \in Nat, NEW w, \A x \in S : w[x] \in 0 .. c
  PROVE  SumFunction([x \in S |-> w[x]]) <= c * Cardinality(S)
<1>1. PICK h \in Sums(S, w) : \A T \in SUBSET S : SumFunction([x \in T |-> w[x]]) = h[T]
  <2>1. \A x \in S : w[x] \in Int
    OBVIOUS
  <2> QED BY <2>1, SumOfParts
<1> DEFINE G == {T \in SUBSET S : h[T] <= c * Cardinality(T)}
<1>2. {} \in G
  BY FS_EmptySet DEF Sums
<1>3. ASSUME NEW T \in SUBSET S, NEW x \in T, T \ {x} \in G
      PROVE  T \in G
  <2>1. IsFiniteSet(T)
    BY FS_Subset
  <2>2. /\ Cardinality(T) = Cardinality(T \ {x}) + 1
        /\ Cardinality(T \ {x}) \in Nat
    <3>1. /\ Cardinality(T \ {x}) = Cardinality(T) - 1
          /\ IsFiniteSet(T \ {x})
      BY <2>1, FS_RemoveElement
    <3>2. Cardinality(T \ {x}) \in Nat /\ Cardinality(T) \in Nat
      BY <2>1, <3>1, FS_CardinalityType
    <3> QED BY <3>1, <3>2
  <2>3. h[T] = w[x] + h[T \ {x}]
    BY DEF Sums
  <2>4. PICK a \in 0 .. c, b \in Int, n \in Nat :
          a = w[x] /\ b = h[T \ {x}] /\ n = Cardinality(T \ {x})
    <3>1. h[T \ {x}] \in Int
      BY DEF Sums
    <3> QED BY <2>2, <3>1
  <2>5. b <= c * n
    BY <1>3, <2>4
  <2>6. c * (n + 1) = c * n + c /\ c * n \in Int
    OBVIOUS
  <2>7. a + b <= c * (n + 1)
    BY <2>5, <2>6
  <2> QED BY <2>2, <2>3, <2>4, <2>7
<1>4. \A T \in SUBSET S : T # {} => \E x \in T : T \ {x} \in G => T \in G
  <2> HIDE DEF G
  <2> QED BY <1>3
<1>5. S \in G
  <2> HIDE DEF G
  <2> QED BY <1>2, <1>4, TakeAway
<1> QED BY <1>1, <1>5

(* The room of one reader, next to that of the others. *)
LEMMA RoomsOfOthers ==
  ASSUME TypeOK, NEW r \in Readers
  PROVE  \E others \in Nat :
           /\ Rooms = RoomOf(reader[r]) + others
           /\ others + Cap <= Cap * Cardinality(Readers)
           /\ \A rd : RoomOf(rd) \in Int /\ reader' = [reader EXCEPT ![r] = rd] =>
                      Rooms' = RoomOf(rd) + others
<1> USE PolicyAssumption, ReadersAssumption
<1>1. PICK f : f = [q \in Readers |-> RoomOf(reader[q])]
  OBVIOUS
<1>2. PICK T : T = Readers \ {r}
  OBVIOUS
<1>3. f \in [Readers -> Int] /\ \A q \in Readers : f[q] \in 0 .. Cap
  BY <1>1, RoomFits
<1>4. IsFiniteSet(T) /\ Cardinality(T) = Cardinality(Readers) - 1
  BY <1>2, FS_RemoveElement
<1>5. PICK g : g = [q \in T |-> f[q]]
  OBVIOUS
<1>6. PICK others \in Int : others = SumFunction(g)
  BY <1>2, <1>3, <1>5, SumWithout
<1>7. Rooms = RoomOf(reader[r]) + others
  <2>1. SumFunction(f) = f[r] + SumFunction(g)
    BY <1>2, <1>3, <1>5, SumWithout
  <2> QED BY <1>1, <1>6, <2>1 DEF Rooms
<1>8. others \in Nat
  <2>1. \A q \in T : f[q] \in Nat
    BY <1>2, <1>3
  <2>2. SumFunction([q \in T |-> f[q]]) \in Nat
    BY <1>4, <2>1, SumOfNaturals
  <2> QED BY <1>5, <1>6, <2>2
<1>9. others + Cap <= Cap * Cardinality(Readers)
  <2>1. \A q \in T : f[q] \in 0 .. Cap
    BY <1>2, <1>3
  <2>2. SumFunction([q \in T |-> f[q]]) <= Cap * Cardinality(T)
    BY <1>4, <2>1, SumAtMost
  <2>3. PICK n \in Nat : n = Cardinality(T)
    BY <1>4, FS_CardinalityType
  <2>4. Cardinality(Readers) = n + 1
    <3>1. Cardinality(Readers) \in Nat
      BY FS_CardinalityType
    <3> QED BY <1>4, <2>3, <3>1
  <2>5. Cap * (n + 1) = Cap * n + Cap /\ Cap * n \in Int
    OBVIOUS
  <2>6. others <= Cap * n
    BY <1>5, <1>6, <2>2, <2>3
  <2> QED BY <2>4, <2>5, <2>6
<1>10. ASSUME NEW rd, RoomOf(rd) \in Int, reader' = [reader EXCEPT ![r] = rd]
       PROVE  Rooms' = RoomOf(rd) + others
  <2>1. PICK after : after = [q \in Readers |-> RoomOf(reader'[q])]
    OBVIOUS
  <2>2. \A q \in Readers : reader'[q] = IF q = r THEN rd ELSE reader[q]
    BY <1>10 DEF TypeOK
  <2>3. after[r] = RoomOf(rd) /\ \A q \in T : after[q] = f[q]
    BY <1>1, <1>2, <2>1, <2>2
  <2>4. after \in [Readers -> Int]
    BY <1>2, <1>3, <1>10, <2>1, <2>3
  <2>5. g = [q \in T |-> after[q]]
    BY <1>5, <2>3
  <2>6. SumFunction(after) = after[r] + SumFunction(g)
    <3>1. /\ SumFunction(after) \in Int /\ SumFunction(g) \in Int
          /\ SumFunction(after) = after[r] + SumFunction(g)
      BY <1>2, <2>4, <2>5, SumWithout
    <3> QED BY <3>1
  <2> QED BY <1>6, <2>1, <2>3, <2>6 DEF Rooms
<1> QED BY <1>7, <1>8, <1>9, <1>10

(* The fees that stand weigh no more, after a fee, than before by its amount;
   and no more without one that is undone. *)
LEMMA StandingGrows ==
  ASSUME TypeOK, NEW x \in Rows, entries' \subseteq entries \cup {x}, undone \subseteq undone'
  PROVE  Standing' \in Nat /\ Standing' <= Standing + x.amount
<1> PICK S : S = Of("fee", entries) \ undone
  OBVIOUS
<1> PICK U : U = Of("fee", entries') \ undone'
  OBVIOUS
<1>1. S \subseteq entries /\ U \subseteq S \cup {x}
  BY DEF Of
<1>2. IsFiniteSet(S) /\ S \subseteq Rows
  BY <1>1, FS_Subset DEF TypeOK
<1>3. IsFiniteSet(S \cup {x}) /\ S \cup {x} \subseteq Rows
  BY <1>2, FS_AddElement
<1>4. /\ Total(S) \in Nat /\ Total(U) \in Nat /\ Total(S \cup {x}) \in Nat
      /\ Total(U) <= Total(S \cup {x})
  BY <1>1, <1>2, <1>3, Totals
<1>5. Total(S \cup {x}) <= Total(S) + x.amount
  BY <1>2, TotalGrows
<1>6. Standing = Total(S) /\ Standing' = Total(U)
  BY DEF Standing
<1> QED BY <1>4, <1>5, <1>6 DEF Rows

LEMMA StandingShrinks ==
  ASSUME TypeOK, Of("fee", entries') = Of("fee", entries), undone \subseteq undone'
  PROVE  Standing' \in Nat /\ Standing' <= Standing
<1> PICK S : S = Of("fee", entries) \ undone
  OBVIOUS
<1> PICK U : U = Of("fee", entries) \ undone'
  OBVIOUS
<1>1. S \subseteq entries /\ U \subseteq S
  BY DEF Of
<1>2. IsFiniteSet(S) /\ S \subseteq Rows
  BY <1>1, FS_Subset DEF TypeOK
<1>3. Total(S) \in Nat /\ Total(U) \in Nat /\ Total(U) <= Total(S)
  BY <1>1, <1>2, Totals
<1>4. Standing = Total(S) /\ Standing' = Total(U)
  BY DEF Standing
<1> QED BY <1>3, <1>4

LEMMA RoomStart == Init => RoomIsBounded
<1> SUFFICES ASSUME Init PROVE Standing + Rooms <= Cap * Cardinality(Readers)
  BY DEF RoomIsBounded
<1>1. PICK w : w = [r \in Readers |-> 0]
  OBVIOUS
<1>2. \A r \in Readers : RoomOf(reader[r]) = 0
  BY DEF Init, Resting, RoomOf
<1>3. [r \in Readers |-> RoomOf(reader[r])] = [r \in Readers |-> w[r]]
  BY <1>1, <1>2
<1>4. \A r \in Readers : w[r] \in 0 .. 0
  BY <1>1
<1>5. SumFunction([r \in Readers |-> w[r]]) <= 0 * Cardinality(Readers)
  BY <1>4, SumAtMost, ReadersAssumption
<1>6. \A r \in Readers : w[r] \in Int
  BY <1>1
<1>7. SumFunction([r \in Readers |-> w[r]]) \in Int
  BY <1>6, SumIsInt, ReadersAssumption
<1>8. Cardinality(Readers) \in Nat
  BY FS_CardinalityType, ReadersAssumption
<1>9. Rooms \in Int /\ Rooms <= 0
  BY <1>3, <1>5, <1>7, <1>8 DEF Rooms
<1>10. Standing = 0
  <2>1. Of("fee", {}) \ {} = {}
    BY DEF Of
  <2> QED BY <2>1, TotalOfNone DEF Init, Standing
<1>11. Cap * Cardinality(Readers) >= 0
  <2>1. PICK n \in Nat : n = Cardinality(Readers)
    BY <1>8
  <2>2. Cap * n >= 0
    BY PolicyAssumption
  <2> QED BY <2>1, <2>2
<1>12. Cap * Cardinality(Readers) \in Int
  BY <1>8, PolicyAssumption
<1> QED BY <1>9, <1>10, <1>11, <1>12

LEMMA RoomStep == TypeOK /\ TypeOK' /\ RoomIsBounded /\ [Next]_vars => RoomIsBounded'
<1> SUFFICES ASSUME TypeOK, TypeOK', RoomIsBounded, Cap > 0, [Next]_vars
             PROVE  Standing' + Rooms' <= Cap * Cardinality(Readers)
  BY DEF RoomIsBounded
<1> USE PolicyAssumption
<1>1. PICK bound \in Int : bound = Cap * Cardinality(Readers)
  BY FS_CardinalityType, ReadersAssumption
<1>2. PICK standing \in Nat : standing = Standing
  BY StandingIsNat
<1>3. standing + Rooms <= bound
  BY <1>1, <1>2 DEF RoomIsBounded
(* What one reader moving on does to the rooms. *)
<1>4. ASSUME NEW r \in Readers, NEW rd, NEW room \in Nat, room = RoomOf(rd),
             reader' = [reader EXCEPT ![r] = rd],
             NEW before \in Nat, before = RoomOf(reader[r]), NEW after \in Nat, after = Standing',
             \/ after + room <= standing + before
             \/ after + room <= Cap
      PROVE  Standing' + Rooms' <= bound
  <2>1. PICK others \in Nat :
          /\ Rooms = RoomOf(reader[r]) + others
          /\ others + Cap <= Cap * Cardinality(Readers)
          /\ \A x : RoomOf(x) \in Int /\ reader' = [reader EXCEPT ![r] = x] =>
                    Rooms' = RoomOf(x) + others
    BY RoomsOfOthers
  <2>2. Rooms' = room + others
    <3>1. RoomOf(rd) \in Int
      BY <1>4
    <3>2. Rooms' = RoomOf(rd) + others
      BY <1>4, <2>1, <3>1, Zenon
    <3> QED BY <1>4, <3>2
  <2>3. standing + (before + others) <= bound /\ others + Cap <= bound
    BY <1>1, <1>3, <1>4, <2>1
  <2> QED BY <1>4, <2>2, <2>3
(* Nobody moves, and no fee is posted. *)
<1>5. ASSUME UNCHANGED reader, Of("fee", entries') = Of("fee", entries), undone \subseteq undone'
      PROVE  Standing' + Rooms' <= bound
  <2>1. PICK after \in Nat : after = Standing' /\ after <= standing
    BY <1>2, <1>5, StandingShrinks
  <2>2. Rooms' = Rooms
    BY <1>5 DEF Rooms
  <2>3. Rooms \in Int
    <3>1. \A r \in Readers : [q \in Readers |-> RoomOf(reader[q])][r] \in Int
      BY RoomFits
    <3>2. PICK w : w = [q \in Readers |-> RoomOf(reader[q])]
      OBVIOUS
    <3>3. SumFunction([q \in Readers |-> w[q]]) \in Int
      BY <3>1, <3>2, SumIsInt, ReadersAssumption
    <3>4. [q \in Readers |-> w[q]] = [q \in Readers |-> RoomOf(reader[q])]
      BY <3>2
    <3> QED BY <3>3, <3>4 DEF Rooms
  <2> QED BY <1>1, <1>2, <1>3, <2>1, <2>2, <2>3
<1>6. CASE Charge \/ Pay \/ PostOnBankDate
  <2>1. PICK kind, n, on, amount, asOf :
          kind # "fee" /\ entries' = entries \cup {Entry(kind, n, on, amount, asOf)}
    BY <1>6 DEF Charge, Pay, PostOnBankDate, PostPayment
  <2>2. UNCHANGED <<reader, undone>>
    BY <1>6 DEF Charge, Pay, PostOnBankDate, PostPayment
  <2> QED BY <1>1, <1>5, <2>1, <2>2, OtherKinds
<1>7. CASE Undo \/ SwitchBilling \/ NextDay \/ Quiet \/ UNCHANGED vars
  <2>1. UNCHANGED <<reader, entries>> /\ undone \subseteq undone'
    BY <1>7 DEF Undo, SwitchBilling, NextDay, Quiet, vars
  <2> QED BY <1>1, <1>5, <2>1
(* What the reader finds left under the cap is left under it now. *)
<1>8. ASSUME NEW r \in Readers, ReadEntries(r) PROVE Standing' + Rooms' <= bound
  <2>1. PICK rd : rd = [pc |-> "claims", book |-> entries, gone |-> undone]
    OBVIOUS
  <2>2. reader' = [reader EXCEPT ![r] = rd] /\ Standing' = standing
    BY <1>2, <1>8, <2>1 DEF ReadEntries, Standing
  <2>3. RoomOf(rd) = Left(standing)
    BY <1>2, <2>1 DEF RoomOf, Standing
  <2>4. PICK before \in Nat : before = RoomOf(reader[r])
    BY RoomFits
  <2>5. PICK room \in Nat : room = RoomOf(rd) /\ (standing + room <= Cap \/ room = 0)
    BY <2>3 DEF Left
  <2>6. standing + room <= standing + before \/ standing + room <= Cap
    BY <1>2, <2>4, <2>5
  <2> QED BY <1>2, <1>4, <2>2, <2>4, <2>5, <2>6, Zenon
<1>9. ASSUME NEW r \in Readers, ReadClaims(r) PROVE Standing' + Rooms' <= bound
  <2>1. PICK rd : /\ reader' = [reader EXCEPT ![r] = rd] /\ rd.pc = "post"
                  /\ rd.accrued = Total(Of("fee", reader[r].book) \ reader[r].gone)
    <3>1. PICK rd :
            rd = [pc |-> "post", book |-> reader[r].book, gone |-> reader[r].gone, asOf |-> day,
                  todo |-> {pt \in Short(reader[r].book, reader[r].gone, day) :
                              pt.on \notin Assessed},
                  accrued |-> Total(Of("fee", reader[r].book) \ reader[r].gone)]
      OBVIOUS
    <3>2. reader' = [reader EXCEPT ![r] = rd]
      BY <1>9, <3>1 DEF ReadClaims
    <3>3. rd.pc = "post" /\ rd.accrued = Total(Of("fee", reader[r].book) \ reader[r].gone)
      BY <3>1
    <3> QED BY <3>2, <3>3
  <2>2. RoomOf(rd) = RoomOf(reader[r])
    BY <1>9, <2>1 DEF ReadClaims, RoomOf
  <2>3. Standing' = standing
    BY <1>2, <1>9 DEF ReadClaims, Standing
  <2>4. PICK before \in Nat : before = RoomOf(reader[r])
    BY RoomFits
  <2>5. standing + before <= standing + before
    BY <1>2, <2>4
  <2> QED BY <1>2, <1>4, <2>1, <2>2, <2>3, <2>4, <2>5, Zenon
<1>10. ASSUME NEW r \in Readers, Finish(r) \/ Fail(r) PROVE Standing' + Rooms' <= bound
  <2>1. reader' = [reader EXCEPT ![r] = Resting] /\ Standing' = standing
    BY <1>2, <1>10 DEF Finish, Fail, Standing
  <2>2. RoomOf(Resting) = 0
    BY DEF RoomOf, Resting
  <2>3. PICK before \in Nat : before = RoomOf(reader[r])
    BY RoomFits
  <2>4. 0 \in Nat /\ standing + 0 <= standing + before
    BY <1>2, <2>3
  <2> QED BY <1>2, <1>4, <2>1, <2>2, <2>3, <2>4
(* What it posts it has no more room for. *)
<1>11. ASSUME NEW r \in Readers, PostFee(r) PROVE Standing' + Rooms' <= bound
  <2>1. PICK pt, amount, rd :
           /\ pt \in reader[r].todo /\ amount \in Nat
           /\ amount = Assess(reader[r].accrued)
           /\ pt \in Rows
           /\ reader' = [reader EXCEPT ![r] = rd]
           /\ IsPosting(rd, entries, undone)
           /\ \/ /\ amount > 0
                 /\ entries' = entries \cup
                        {Entry("fee", pt.on, Deadline(pt.on), amount, reader[r].asOf)}
                 /\ rd.accrued = reader[r].accrued + amount
              \/ /\ entries' = entries
                 /\ rd.accrued = reader[r].accrued
           /\ UNCHANGED undone
    BY <1>11, PostFeeDoes
  <2>2. PICK accrued \in Nat, asOf \in Nat : accrued = reader[r].accrued /\ asOf = reader[r].asOf
    BY <1>11, Posting DEF PostFee, IsPosting
  <2>3. PICK before \in Nat : before = Left(accrued) /\ before = RoomOf(reader[r])
    <3>1. RoomOf(reader[r]) = Left(accrued)
      BY <1>11, <2>2 DEF PostFee, RoomOf
    <3>2. RoomOf(reader[r]) \in Nat
      BY RoomFits
    <3> QED BY <3>1, <3>2
  <2>4. RoomOf(rd) = Left(rd.accrued)
    BY <2>1 DEF IsPosting, RoomOf
  <2>5. CASE entries' = entries /\ rd.accrued = reader[r].accrued
    <3>1. Standing' = standing /\ RoomOf(rd) = before
      BY <1>2, <2>1, <2>2, <2>3, <2>4, <2>5 DEF Standing
    <3>2. standing + before <= standing + before
      BY <1>2, <2>3
    <3> QED BY <1>2, <1>4, <2>1, <2>3, <3>1, <3>2, Zenon
  <2>6. CASE /\ amount > 0
             /\ entries' = entries \cup
                    {Entry("fee", pt.on, Deadline(pt.on), amount, reader[r].asOf)}
             /\ rd.accrued = reader[r].accrued + amount
    <3>1. PICK n \in Nat, on \in Nat : n = pt.on /\ on = Deadline(pt.on)
      BY <2>1 DEF Rows, Deadline
    <3>2. PICK x \in Rows : x = Entry("fee", n, on, amount, asOf)
      <4>1. amount \in Nat \ {0}
        BY <2>1, <2>6
      <4> QED BY <4>1, Posts
    <3>3. x.amount = amount /\ entries' = entries \cup {x}
      BY <2>1, <2>2, <2>6, <3>1, <3>2 DEF Entry
    <3>4. PICK after \in Nat : after = Standing' /\ after <= standing + amount
      BY <1>2, <2>1, <3>3, StandingGrows
    <3>5. accrued + amount <= Cap
      BY <2>1, <2>2, <2>6, Assesses
    <3>6. PICK room \in Nat : room = RoomOf(rd) /\ amount + room <= before
      BY <2>1, <2>2, <2>3, <2>4, <2>6, <3>5 DEF Left
    <3>7. after + room <= standing + before
      BY <2>1, <3>4, <3>6
    <3> QED BY <1>4, <2>1, <2>3, <3>4, <3>6, <3>7
  <2> QED BY <2>1, <2>5, <2>6
<1> QED BY <1>1, <1>6, <1>7, <1>8, <1>9, <1>10, <1>11 DEF Next, AssessFees

(* However readers overlap, with each other and with waivers, the fees that
   stand stay within one cap for each of them: for any policy and any number
   of readers. *)
THEOREM CapsBoundTheFees == Spec => []CapOverrunIsBounded
<1>1. TypeOK /\ RoomIsBounded => CapOverrunIsBounded
  <2> SUFFICES ASSUME TypeOK, RoomIsBounded, Cap > 0
               PROVE  Standing <= Cap * Cardinality(Readers)
    BY DEF CapOverrunIsBounded
  <2>1. PICK w : w = [r \in Readers |-> RoomOf(reader[r])]
    OBVIOUS
  <2>2. \A r \in Readers : w[r] \in Nat
    BY <2>1, RoomFits
  <2>3. SumFunction([r \in Readers |-> w[r]]) \in Nat
    BY <2>2, SumOfNaturals, ReadersAssumption
  <2>4. [r \in Readers |-> w[r]] = [r \in Readers |-> RoomOf(reader[r])]
    BY <2>1
  <2>5. Rooms \in Nat
    BY <2>3, <2>4 DEF Rooms
  <2>6. Cap * Cardinality(Readers) \in Int
    BY FS_CardinalityType, ReadersAssumption, PolicyAssumption
  <2> QED BY <2>5, <2>6, StandingIsNat DEF RoomIsBounded
<1>2. Spec => []RoomIsBounded
  BY RoomStart, RoomStep, TypeHolds, PTL DEF Spec
<1> QED BY <1>1, <1>2, TypeHolds, PTL

(* A request that has the tab to itself keeps the cap. *)
THEOREM AloneKeepsTheCap ==
  ASSUME Cardinality(Readers) = 1
  PROVE  Spec => [](Cap > 0 => Standing <= Cap)
<1>1. CapOverrunIsBounded => (Cap > 0 => Standing <= Cap)
  BY PolicyAssumption DEF CapOverrunIsBounded
<1> QED BY <1>1, CapsBoundTheFees, PTL

-----------------------------------------------------------------------------
(* Of the points a posting reader has read, each is still to do or is
   answered: not yet due when it looked, fined, passed over with the cap
   reached, or paid. *)
Answered(rd, book) ==
  \A c \in Points(rd.book, rd.gone) :
    \/ c \in rd.todo
    \/ c.on + Grace >= rd.asOf
    \/ \E f \in Of("fee", book) : f.no = c.on
    \/ Cap > 0 /\ rd.accrued >= Cap
    \/ PaidWindow(c, rd.book, rd.gone) >= c.amount

PostingAnswers == \A r \in Readers : reader[r].pc = "post" => Answered(reader[r], entries)

LEMMA AnswersStart == Init => PostingAnswers
  BY DEF Init, PostingAnswers, Resting

(* An answer keeps as the book grows. *)
LEMMA AnswersKeep ==
  ASSUME NEW rd, NEW book, NEW more, book \subseteq more, Answered(rd, book)
  PROVE  Answered(rd, more)
<1>1. Of("fee", book) \subseteq Of("fee", more)
  BY DEF Of
<1> QED BY <1>1 DEF Answered

LEMMA AnswersStep == TypeOK /\ PostingAnswers /\ [Next]_vars => PostingAnswers'
<1> SUFFICES ASSUME TypeOK, PostingAnswers, [Next]_vars PROVE PostingAnswers'
  OBVIOUS
<1> USE PolicyAssumption
<1>1. ASSUME UNCHANGED reader, entries \subseteq entries' PROVE PostingAnswers'
  <2> SUFFICES ASSUME NEW r \in Readers, reader'[r].pc = "post"
               PROVE  Answered(reader'[r], entries')
    BY DEF PostingAnswers
  <2> QED BY <1>1, AnswersKeep DEF PostingAnswers
<1>2. ASSUME NEW r \in Readers, NEW rd, reader' = [reader EXCEPT ![r] = rd],
             rd.pc = "post" => Answered(rd, entries'), entries \subseteq entries'
      PROVE  PostingAnswers'
  <2> SUFFICES ASSUME NEW q \in Readers, reader'[q].pc = "post"
               PROVE  Answered(reader'[q], entries')
    BY DEF PostingAnswers
  <2>1. CASE q = r
    BY <1>2, <2>1 DEF TypeOK
  <2>2. CASE q # r
    BY <1>2, <2>2, AnswersKeep DEF TypeOK, PostingAnswers
  <2> QED BY <2>1, <2>2
<1>3. CASE \/ Charge \/ Pay \/ PostOnBankDate
           \/ Undo \/ SwitchBilling \/ NextDay \/ Quiet \/ UNCHANGED vars
  <2>1. UNCHANGED reader /\ entries \subseteq entries'
    BY <1>3 DEF Charge, Pay, PostOnBankDate, PostPayment, Undo, SwitchBilling, NextDay, Quiet, vars
  <2> QED BY <1>1, <2>1
<1>4. ASSUME NEW r \in Readers, ReadEntries(r) \/ Finish(r) \/ Fail(r) PROVE PostingAnswers'
  <2>1. /\ UNCHANGED entries
        /\ \E rd : reader' = [reader EXCEPT ![r] = rd] /\ rd.pc # "post"
    BY <1>4 DEF ReadEntries, Finish, Fail, Resting
  <2> QED BY <1>2, <2>1
<1>5. ASSUME NEW r \in Readers, ReadClaims(r) PROVE PostingAnswers'
  <2>1. PICK book \in SUBSET entries, gone \in SUBSET undone :
          book = reader[r].book /\ gone = reader[r].gone
    BY <1>5 DEF ReadClaims, TypeOK, IsReader, Resting
  <2>2. PICK todo : todo = {pt \in Short(book, gone, day) : pt.on \notin Assessed}
    OBVIOUS
  <2>3. PICK accrued : accrued = Total(Of("fee", book) \ gone)
    OBVIOUS
  <2>4. PICK rd : rd = [pc |-> "post", book |-> book, gone |-> gone, asOf |-> day,
                        todo |-> todo, accrued |-> accrued]
    OBVIOUS
  <2>5. reader' = [reader EXCEPT ![r] = rd] /\ UNCHANGED entries
    BY <1>5, <2>1, <2>2, <2>3, <2>4 DEF ReadClaims
  <2>6. Answered(rd, entries)
    <3> SUFFICES ASSUME NEW c \in Points(book, gone), c \notin todo, ~(c.on + Grace >= day),
                        ~\E f \in Of("fee", entries) : f.no = c.on
                 PROVE  PaidWindow(c, book, gone) >= c.amount
      BY <2>4 DEF Answered
    <3>1. c.on \notin Assessed
      BY DEF Assessed
    <3>2. ~(c \in Short(book, gone, day))
      BY <2>2, <3>1
    <3>3. c \in Rows
      BY DEF Points, Of, TypeOK
    <3>4. Deadline(c.on) < day
      BY <3>3 DEF Rows, Deadline, TypeOK
    <3>5. ~(PaidWindow(c, book, gone) < c.amount)
      BY <3>2, <3>4 DEF Short
    <3>6. PaidWindow(c, book, gone) \in Nat
      <4>1. IsFiniteSet(book) /\ book \subseteq Rows
        BY FS_Subset DEF TypeOK
      <4> QED BY <4>1, Totals DEF PaidWindow, Of
    <3> QED BY <3>3, <3>5, <3>6 DEF Rows
  <2> QED BY <1>2, <2>5, <2>6
<1>6. ASSUME NEW r \in Readers, PostFee(r) PROVE PostingAnswers'
  <2>1. PICK pt, amount, rd :
           /\ pt \in reader[r].todo /\ amount \in Nat
           /\ amount = Assess(reader[r].accrued)
           /\ reader' = [reader EXCEPT ![r] = rd]
           /\ rd.book = reader[r].book /\ rd.gone = reader[r].gone
           /\ rd.asOf = reader[r].asOf /\ rd.todo = reader[r].todo \ {pt}
           /\ \/ /\ amount > 0 /\ pt.on \notin Assessed
                 /\ entries' = entries \cup
                        {Entry("fee", pt.on, Deadline(pt.on), amount, reader[r].asOf)}
                 /\ rd.accrued = reader[r].accrued + amount
              \/ /\ amount = 0 \/ pt.on \in Assessed
                 /\ entries' = entries
                 /\ rd.accrued = reader[r].accrued
    BY <1>6, PostFeeDoes
  <2>2. PICK accrued \in Nat : accrued = reader[r].accrued
    BY <1>6, Posting DEF PostFee, IsPosting
  <2>3. Answered(reader[r], entries)
    BY <1>6 DEF PostFee, PostingAnswers
  <2>4. \/ \E f \in Of("fee", entries') : f.no = pt.on
        \/ Cap > 0 /\ rd.accrued >= Cap
    <3>1. CASE entries' = entries \cup
                   {Entry("fee", pt.on, Deadline(pt.on), amount, reader[r].asOf)}
      <4>1. PICK f : f = Entry("fee", pt.on, Deadline(pt.on), amount, reader[r].asOf)
        OBVIOUS
      <4>2. f.kind = "fee" /\ f.no = pt.on
        BY <4>1 DEF Entry
      <4>3. f \in Of("fee", entries')
        BY <3>1, <4>1, <4>2 DEF Of
      <4> QED BY <4>2, <4>3
    <3>2. CASE amount = 0 /\ rd.accrued = reader[r].accrued
      BY <2>1, <2>2, <3>2, Assesses
    <3>3. CASE pt.on \in Assessed /\ entries' = entries
      BY <3>3 DEF Assessed
    <3> QED BY <2>1, <3>1, <3>2, <3>3
  <2>5. entries \subseteq entries'
    BY <2>1
  <2>6. rd.accrued \in Nat /\ rd.accrued >= accrued
    BY <2>1, <2>2
  <2>7. Cap > 0 /\ accrued >= Cap => Cap > 0 /\ rd.accrued >= Cap
    BY <2>2, <2>6
  <2>8. Answered(rd, entries')
    <3> SUFFICES ASSUME NEW c \in Points(rd.book, rd.gone), c \notin rd.todo
                 PROVE  \/ c.on + Grace >= rd.asOf
                        \/ \E f \in Of("fee", entries') : f.no = c.on
                        \/ Cap > 0 /\ rd.accrued >= Cap
                        \/ PaidWindow(c, rd.book, rd.gone) >= c.amount
      BY DEF Answered
    <3>1. CASE c = pt
      BY <2>4, <3>1
    <3>2. CASE c # pt
      <4>1. c \notin reader[r].todo
        BY <2>1, <3>2
      <4>2. \A f \in Of("fee", entries) : f \in Of("fee", entries')
        BY <2>5 DEF Of
      <4> QED BY <2>1, <2>2, <2>3, <2>7, <4>1, <4>2 DEF Answered
    <3> QED BY <3>1, <3>2
  <2> QED BY <1>2, <2>1, <2>5, <2>8
<1> QED BY <1>3, <1>4, <1>5, <1>6 DEF Next, AssessFees

(* What the payments of the window weigh, at most what those between the days
   the property names do: the window also closes at the points of the same
   day. *)
LEMMA WindowIsPaid ==
  ASSUME NEW book, IsFiniteSet(book), book \subseteq Rows, NEW gone,
         NEW c \in Points(book, gone), PaidWindow(c, book, gone) >= c.amount,
         NEW S, S = {p \in Of("payment", book) \ gone :
                       /\ p.on <= c.on + Grace
                       /\ \A d \in Of("charge", book) \ gone :
                            d.on < c.on => p.on > d.on + Grace}
  PROVE  Total(S) >= c.amount
<1> PICK W : W = {p \in Of("payment", book) \ gone :
                    /\ p.on <= Deadline(c.on)
                    /\ \A q \in Points(book, gone) : Precedes(q, c) => p.on > Deadline(q.on)}
  OBVIOUS
<1>1. W \subseteq S /\ S \subseteq book /\ c \in Rows
  BY DEF Deadline, Precedes, Points, Of
<1>2. IsFiniteSet(S) /\ S \subseteq Rows
  BY <1>1, FS_Subset
<1>3. Total(W) \in Nat /\ Total(S) \in Nat /\ Total(W) <= Total(S)
  BY <1>1, <1>2, Totals
<1>4. Total(W) >= c.amount
  BY DEF PaidWindow
<1> QED BY <1>1, <1>3, <1>4 DEF Rows

(* A read that completes has fined every date that was short in what it read,
   or passed it over with the cap reached: for any policy, and whatever else
   was posted meanwhile. *)
THEOREM CompletedReadsMissNone == Spec => MissedIsFined
<1>1. TypeOK /\ PostingAnswers /\ [Next]_vars =>
        [\A r \in Readers : Finish(r) =>
           LET book == reader[r].book
               gone == reader[r].gone IN
           \A c \in Of("charge", book) \ gone :
             \/ c.on + Grace >= reader[r].asOf
             \/ c.on \in {f.no : f \in {x \in Of("fee", entries) : x.amount > 0}}
             \/ Cap > 0 /\ reader[r].accrued >= Cap
             \/ Total({p \in Of("payment", book) \ gone :
                         /\ p.on <= c.on + Grace
                         /\ \A d \in Of("charge", book) \ gone :
                              d.on < c.on => p.on > d.on + Grace}) >= c.amount]_vars
  <2> SUFFICES ASSUME TypeOK, PostingAnswers, NEW r \in Readers, Finish(r),
                      NEW book, book = reader[r].book, NEW gone, gone = reader[r].gone,
                      NEW c \in Of("charge", book) \ gone
               PROVE  \/ c.on + Grace >= reader[r].asOf
                      \/ c.on \in {f.no : f \in {x \in Of("fee", entries) : x.amount > 0}}
                      \/ Cap > 0 /\ reader[r].accrued >= Cap
                      \/ Total({p \in Of("payment", book) \ gone :
                                  /\ p.on <= c.on + Grace
                                  /\ \A d \in Of("charge", book) \ gone :
                                       d.on < c.on => p.on > d.on + Grace}) >= c.amount
    OBVIOUS
  <2>1. Answered(reader[r], entries) /\ reader[r].todo = {}
    BY DEF Finish, PostingAnswers
  <2>2. c \in Points(book, gone) /\ c \notin reader[r].todo
    BY <2>1 DEF Points
  <2>3. \/ c.on + Grace >= reader[r].asOf
        \/ \E f \in Of("fee", entries) : f.no = c.on
        \/ Cap > 0 /\ reader[r].accrued >= Cap
        \/ PaidWindow(c, book, gone) >= c.amount
    BY <2>1, <2>2 DEF Answered
  <2>4. \A f \in Of("fee", entries) : f.amount > 0
    BY DEF TypeOK, Of, Rows
  <2>5. IsFiniteSet(book) /\ book \subseteq Rows
    <3>1. book \subseteq entries
      BY Posting DEF Finish, IsPosting
    <3> QED BY <3>1, FS_Subset DEF TypeOK
  <2> PICK S : S = {p \in Of("payment", book) \ gone :
                      /\ p.on <= c.on + Grace
                      /\ \A d \in Of("charge", book) \ gone :
                           d.on < c.on => p.on > d.on + Grace}
    OBVIOUS
  <2>6. PaidWindow(c, book, gone) >= c.amount => Total(S) >= c.amount
    BY <2>2, <2>5, WindowIsPaid
  <2> QED BY <2>3, <2>4, <2>6
<1>2. Spec => []PostingAnswers
  BY AnswersStart, AnswersStep, TypeHolds, PTL DEF Spec
<1> QED BY <1>1, <1>2, TypeHolds, PTL DEF Spec, MissedIsFined

-----------------------------------------------------------------------------
(* The payments that count for a date, and a date whose grace is over and that
   they left short, if one charge is due on it. *)
DueThen(book, date) == {c \in Of("charge", book) : c.on = date}

PaidFor(book, gone, asOf, date) ==
  {p \in Of("payment", book) \ gone :
     /\ p.asOf < asOf
     /\ p.on <= date + Grace
     /\ \A c \in Of("charge", book) : c.on < date => p.on > c.on + Grace}

LeftShort(book, gone, asOf, date) ==
  /\ DueThen(book, date) # {}
  /\ \A c \in book : DueThen(book, date) = {c} => Total(PaidFor(book, gone, asOf, date)) < c.amount

(* The dates fined and those about to be were left short by what was recorded
   before the day of their assessment, which is not to come; and what was
   recorded since a reader read the entries was recorded today, so that the
   clock it reads is right for the entries it has read. *)
FinedWereShort ==
  /\ \A f \in Of("fee", entries) :
       f.asOf <= day /\ LeftShort(entries, undone, f.asOf, f.no)
  /\ \A r \in Readers : reader[r].pc = "post" =>
       /\ reader[r].asOf <= day
       /\ \A pt \in reader[r].todo : LeftShort(entries, undone, reader[r].asOf, pt.on)
  /\ \A r \in Readers : reader[r].pc = "claims" =>
       \A p \in Of("payment", entries) \ reader[r].book : p.asOf >= day

(* A date left short stays so: what is recorded later does not count for it,
   whatever its date, and undoing takes payments away. *)
LEMMA ShortKeeps ==
  ASSUME NEW book, NEW more, IsFiniteSet(more), more \subseteq Rows, book \subseteq more,
         NEW gone, NEW waived, gone \subseteq waived, NEW asOf \in Nat, NEW date,
         \A p \in Of("payment", more) \ book : p.asOf >= asOf,
         LeftShort(book, gone, asOf, date)
  PROVE  LeftShort(more, waived, asOf, date)
<1>1. DueThen(book, date) # {} /\ DueThen(book, date) \subseteq DueThen(more, date)
  BY DEF LeftShort, DueThen, Of
<1>2. PaidFor(more, waived, asOf, date) \subseteq PaidFor(book, gone, asOf, date)
  <2> SUFFICES ASSUME NEW p \in PaidFor(more, waived, asOf, date)
               PROVE  p \in PaidFor(book, gone, asOf, date)
    OBVIOUS
  <2>1. /\ p \in Of("payment", more) /\ p.asOf \in Nat /\ p.asOf < asOf
        /\ p.on <= date + Grace /\ p \notin waived
    BY DEF PaidFor, Of, Rows
  <2>2. p \in book
    BY <2>1
  <2>3. Of("charge", book) \subseteq Of("charge", more)
    BY DEF Of
  <2>4. \A c \in Of("charge", book) : c.on < date => p.on > c.on + Grace
    BY <2>3 DEF PaidFor
  <2> QED BY <2>1, <2>2, <2>4 DEF PaidFor, Of
<1>3. ASSUME NEW c \in more, DueThen(more, date) = {c}
      PROVE  Total(PaidFor(more, waived, asOf, date)) < c.amount
  <2>1. DueThen(book, date) = {c} /\ c \in book
    BY <1>1, <1>3 DEF DueThen, Of
  <2>2. Total(PaidFor(book, gone, asOf, date)) < c.amount
    BY <2>1 DEF LeftShort
  <2> PICK S, T : S = PaidFor(book, gone, asOf, date) /\ T = PaidFor(more, waived, asOf, date)
    OBVIOUS
  <2>3. T \subseteq S /\ S \subseteq book
    BY <1>2 DEF PaidFor, Of
  <2>4. IsFiniteSet(S) /\ S \subseteq Rows
    BY <2>3, FS_Subset
  <2>5. Total(T) \in Nat /\ Total(S) \in Nat /\ Total(T) <= Total(S)
    BY <2>3, <2>4, Totals
  <2>6. c.amount \in Nat
    BY DEF Rows
  <2> QED BY <2>2, <2>5, <2>6
<1> QED BY <1>1, <1>3 DEF LeftShort

(* What a reader finds short is left short, if it read the entries today. *)
LEMMA FoundShort ==
  ASSUME NEW more, IsFiniteSet(more), more \subseteq Rows, NEW book \in SUBSET more,
         NEW waived, NEW gone \in SUBSET waived, NEW today \in Nat,
         \A p \in Of("payment", more) \ book : p.asOf >= today,
         NEW pt \in Short(book, gone, today)
  PROVE  LeftShort(more, waived, today, pt.on)
<1> USE PolicyAssumption
<1>1. /\ pt \in Points(book, gone)
      /\ PaidWindow(pt, book, gone) < pt.amount
  BY DEF Short
<1>2. pt \in more /\ pt \in Rows /\ pt.on \in Nat
  BY <1>1 DEF Points, Of, Rows
<1>3. pt \in DueThen(more, pt.on)
  BY <1>1 DEF DueThen, Points, Of
<1>4. ASSUME NEW c \in more, DueThen(more, pt.on) = {c}
      PROVE  Total(PaidFor(more, waived, today, pt.on)) < c.amount
  <2> PICK S : S = {p \in Of("payment", book) \ gone :
                      /\ p.on <= Deadline(pt.on)
                      /\ \A q \in Points(book, gone) : Precedes(q, pt) => p.on > Deadline(q.on)}
    OBVIOUS
  <2> PICK T : T = PaidFor(more, waived, today, pt.on)
    OBVIOUS
  <2>1. c = pt
    BY <1>3, <1>4
  <2>2. T \subseteq S
    <3> SUFFICES ASSUME NEW p \in T PROVE p \in S
      OBVIOUS
    <3>1. /\ p \in Of("payment", more) /\ p.asOf \in Nat /\ p.asOf < today
          /\ p.on \in Nat /\ p.on <= pt.on + Grace /\ p \notin waived
      BY DEF PaidFor, Of, Rows
    <3>2. p \in Of("payment", book) \ gone
      BY <3>1 DEF Of
    <3>3. ASSUME NEW q \in Points(book, gone), Precedes(q, pt) PROVE p.on > Deadline(q.on)
      <4>1. q \in Of("charge", more) /\ q.on \in Nat /\ q.no \in Nat /\ pt.no \in Nat
        BY <1>2 DEF Points, Of, Rows
      <4>2. q.on # pt.on
        <5>1. ASSUME q.on = pt.on PROVE FALSE
          <6>1. q \in DueThen(more, pt.on)
            BY <4>1, <5>1 DEF DueThen
          <6>2. q = pt
            BY <1>4, <2>1, <6>1
          <6> QED BY <1>2, <3>3, <4>1, <6>2 DEF Precedes
        <5> QED BY <5>1
      <4>3. q.on < pt.on
        BY <1>2, <3>3, <4>1, <4>2 DEF Precedes
      <4> QED BY <4>1, <4>3 DEF PaidFor, Deadline
    <3> QED BY <3>1, <3>2, <3>3 DEF Deadline
  <2>3. S \subseteq more
    BY DEF Of
  <2>4. IsFiniteSet(S) /\ S \subseteq Rows
    BY <2>3, FS_Subset
  <2>5. Total(T) \in Nat /\ Total(S) \in Nat /\ Total(T) <= Total(S)
    BY <2>2, <2>4, Totals
  <2>6. Total(S) < pt.amount
    BY <1>1 DEF PaidWindow
  <2> QED BY <1>2, <2>1, <2>5, <2>6 DEF Rows
<1> QED BY <1>2, <1>3, <1>4 DEF LeftShort

LEMMA ShortStart == Init => FinedWereShort
  BY DEF Init, FinedWereShort, Of, Resting

(* Days, entries and undos only grow, and what is recorded is recorded today. *)
LEMMA OnlyGrows ==
  ASSUME TypeOK, [Next]_vars
  PROVE  /\ entries \subseteq entries' /\ undone \subseteq undone'
         /\ day' \in Nat /\ day <= day'
         /\ \A p \in Of("payment", entries') \ entries : p.asOf >= day
<1>1. /\ entries \subseteq entries' /\ undone \subseteq undone'
      /\ \A p \in Of("payment", entries') \ entries : p.asOf = day
  <2>1. CASE Charge
    <3>1. PICK n : entries' = entries \cup {Entry("charge", n, DueOn(n), Base, DueOn(n))}
      BY <2>1 DEF Charge
    <3>2. undone' = undone
      BY <2>1 DEF Charge
    <3> QED BY <3>1, <3>2 DEF Of, Entry
  <2>2. CASE Pay \/ PostOnBankDate
    <3>1. PICK on, amount : PostPayment(on, amount)
      BY <2>2 DEF Pay, PostOnBankDate
    <3>2. PICK x : x = Entry("payment", Cardinality(Of("payment", entries)) + 1, on, amount, day)
      OBVIOUS
    <3>3. x.asOf = day
      BY <3>2 DEF Entry
    <3>4. entries' = entries \cup {x} /\ undone' = undone
      BY <3>1, <3>2 DEF PostPayment
    <3> QED BY <3>3, <3>4 DEF Of
  <2>3. ASSUME NEW r \in Readers, PostFee(r)
        PROVE  /\ entries \subseteq entries' /\ undone \subseteq undone'
               /\ \A p \in Of("payment", entries') \ entries : p.asOf = day
    <3>1. undone' = undone /\ \/ entries' = entries
                              \/ \E x : x.kind = "fee" /\ entries' = entries \cup {x}
      BY <2>3 DEF PostFee, Entry
    <3> QED BY <3>1 DEF Of
  <2>4. CASE Undo \/ SwitchBilling \/ NextDay \/ Quiet \/ UNCHANGED vars
    <3>1. entries' = entries /\ undone \subseteq undone'
      BY <2>4 DEF Undo, SwitchBilling, NextDay, Quiet, vars
    <3> QED BY <3>1 DEF Of
  <2>5. ASSUME NEW r \in Readers, ReadEntries(r) \/ ReadClaims(r) \/ Finish(r) \/ Fail(r)
        PROVE  entries' = entries /\ undone' = undone
    BY <2>5 DEF ReadEntries, ReadClaims, Finish, Fail
  <2> QED BY <2>1, <2>2, <2>3, <2>4, <2>5 DEF Next, AssessFees, Of
<1>2. day' = day \/ day' = day + 1
  BY DEF Next, AssessFees, Charge, Pay, PostOnBankDate, PostPayment, Undo, SwitchBilling,
         NextDay, Quiet, vars, ReadEntries, ReadClaims, PostFee, Finish, Fail
<1>3. \A p \in Of("payment", entries') \ entries : p.asOf >= day
  BY <1>1 DEF TypeOK
<1> QED BY <1>1, <1>2, <1>3 DEF TypeOK

LEMMA ShortStep ==
  ASSUME ~Straddle
  PROVE  TypeOK /\ TypeOK' /\ FinedWereShort /\ [Next]_vars => FinedWereShort'
<1> SUFFICES ASSUME TypeOK, TypeOK', FinedWereShort, [Next]_vars PROVE FinedWereShort'
  OBVIOUS
<1>1. /\ entries \subseteq entries' /\ undone \subseteq undone'
      /\ day' \in Nat /\ day <= day' /\ day \in Nat
      /\ \A p \in Of("payment", entries') \ entries : p.asOf >= day
      /\ IsFiniteSet(entries') /\ entries' \subseteq Rows
  BY OnlyGrows DEF TypeOK
<1>2. ASSUME NEW date, NEW asOf \in Nat, asOf <= day, LeftShort(entries, undone, asOf, date)
      PROVE  asOf <= day' /\ LeftShort(entries', undone', asOf, date)
  <2>1. \A p \in Of("payment", entries') \ entries : p.asOf >= asOf
    <3>1. \A p \in Of("payment", entries') : p.asOf \in Nat
      BY <1>1 DEF Of, Rows
    <3> QED BY <1>1, <1>2, <3>1
  <2> QED BY <1>1, <1>2, <2>1, ShortKeeps
<1>3. ASSUME NEW r \in Readers, reader[r].pc = "post"
      PROVE  /\ reader[r].asOf \in Nat /\ reader[r].asOf <= day'
             /\ \A pt \in reader[r].todo : LeftShort(entries', undone', reader[r].asOf, pt.on)
  <2>1. reader[r].asOf \in Nat /\ reader[r].asOf <= day
    BY <1>3, Posting DEF IsPosting, FinedWereShort
  <2>2. reader[r].asOf <= day'
    BY <1>1, <2>1
  <2> QED BY <1>2, <1>3, <2>1, <2>2 DEF FinedWereShort
(* The fees. *)
<1>4. \A f \in Of("fee", entries') :
        f.asOf <= day' /\ LeftShort(entries', undone', f.asOf, f.no)
  <2> SUFFICES ASSUME NEW f \in Of("fee", entries')
               PROVE  f.asOf <= day' /\ LeftShort(entries', undone', f.asOf, f.no)
    OBVIOUS
  <2>1. CASE f \in entries
    <3>1. f.asOf \in Nat /\ f \in Of("fee", entries)
      BY <2>1 DEF TypeOK, Rows, Of
    <3>2. f.asOf <= day /\ LeftShort(entries, undone, f.asOf, f.no)
      BY <3>1 DEF FinedWereShort
    <3> QED BY <1>2, <3>1, <3>2
  <2>2. CASE f \notin entries
    <3>1. PICK r \in Readers : PostFee(r)
      <4>1. CASE Charge
        <5>1. PICK n : entries' = entries \cup {Entry("charge", n, DueOn(n), Base, DueOn(n))}
          BY <4>1 DEF Charge
        <5> QED BY <2>2, <5>1 DEF Of, Entry
      <4>2. CASE Pay \/ PostOnBankDate
        BY <2>2, <4>2 DEF Pay, PostOnBankDate, PostPayment, Of, Entry
      <4>3. CASE Undo \/ SwitchBilling \/ NextDay \/ Quiet \/ UNCHANGED vars
        BY <2>2, <4>3 DEF Undo, SwitchBilling, NextDay, Quiet, vars, Of
      <4>4. ASSUME NEW r \in Readers, ReadEntries(r) \/ ReadClaims(r) \/ Finish(r) \/ Fail(r)
            PROVE FALSE
        BY <2>2, <4>4 DEF ReadEntries, ReadClaims, Finish, Fail, Of
      <4> QED BY <4>1, <4>2, <4>3, <4>4 DEF Next, AssessFees
    <3>2. PICK pt, amount :
            /\ pt \in reader[r].todo
            /\ \/ entries' = entries \cup
                      {Entry("fee", pt.on, Deadline(pt.on), amount, reader[r].asOf)}
               \/ entries' = entries
      BY <3>1, PostFeeDoes
    <3>3. f = Entry("fee", pt.on, Deadline(pt.on), amount, reader[r].asOf)
      BY <2>2, <3>2 DEF Of
    <3>4. f.no = pt.on /\ f.asOf = reader[r].asOf
      BY <3>3 DEF Entry
    <3>5. reader[r].pc = "post"
      BY <3>1 DEF PostFee
    <3> QED BY <1>3, <3>2, <3>4, <3>5
  <2> QED BY <2>1, <2>2
(* The readers that posted before post a part of what they did; the one that
   has just read the clock has found short what is. *)
<1>5. ASSUME NEW r \in Readers, reader'[r].pc = "post"
      PROVE  /\ reader'[r].asOf <= day'
             /\ \A pt \in reader'[r].todo : LeftShort(entries', undone', reader'[r].asOf, pt.on)
  <2> DEFINE Moves(from, to) ==
        /\ from.pc = "post" /\ to.asOf = from.asOf /\ to.todo \subseteq from.todo
  <2>1. CASE Moves(reader[r], reader'[r])
    BY <1>3, <2>1
  <2>2. CASE ~Moves(reader[r], reader'[r])
    <3>1. ReadClaims(r)
      <4>1. CASE UNCHANGED reader
        BY <1>5, <2>2, <4>1
      <4>2. ASSUME NEW q \in Readers, NEW rd, reader' = [reader EXCEPT ![q] = rd],
                   rd.pc = "post" => Moves(reader[q], rd)
            PROVE  FALSE
        BY <1>5, <2>2, <4>2 DEF TypeOK
      <4>3. CASE \/ Charge \/ Pay \/ PostOnBankDate
                 \/ Undo \/ SwitchBilling \/ NextDay \/ Quiet \/ UNCHANGED vars
        BY <4>1, <4>3 DEF Charge, Pay, PostOnBankDate, PostPayment, Undo, SwitchBilling,
                          NextDay, Quiet, vars
      <4>4. ASSUME NEW q \in Readers, ReadEntries(q) \/ Finish(q) \/ Fail(q) PROVE FALSE
        <5>1. \E rd : reader' = [reader EXCEPT ![q] = rd] /\ rd.pc # "post"
          BY <4>4 DEF ReadEntries, Finish, Fail, Resting
        <5> QED BY <4>2, <5>1
      <4>5. ASSUME NEW q \in Readers, PostFee(q) PROVE FALSE
        <5>1. PICK x, rd :
                /\ x \in reader[q].todo /\ reader' = [reader EXCEPT ![q] = rd]
                /\ rd.asOf = reader[q].asOf /\ rd.todo = reader[q].todo \ {x}
          BY <4>5, PostFeeDoes
        <5>2. reader[q].pc = "post"
          BY <4>5 DEF PostFee
        <5> QED BY <4>2, <5>1, <5>2
      <4>6. ASSUME NEW q \in Readers, ReadClaims(q), q # r PROVE FALSE
        <5>1. reader'[r] = reader[r]
          BY <4>6 DEF ReadClaims, TypeOK
        <5> QED BY <1>5, <2>2, <5>1
      <4> QED BY <4>3, <4>4, <4>5, <4>6 DEF Next, AssessFees
    <3>2. PICK book \in SUBSET entries, gone \in SUBSET undone :
            book = reader[r].book /\ gone = reader[r].gone
      BY <3>1 DEF ReadClaims, TypeOK, IsReader, Resting
    <3>3. reader'[r].asOf = day /\ reader'[r].todo \subseteq Short(book, gone, day)
      BY <3>1, <3>2 DEF ReadClaims, TypeOK
    <3>4. \A p \in Of("payment", entries) \ book : p.asOf >= day
      BY <3>1, <3>2 DEF ReadClaims, FinedWereShort
    <3>5. \A pt \in Short(book, gone, day) : LeftShort(entries, undone, day, pt.on)
      BY <3>2, <3>4, FoundShort DEF TypeOK
    <3>6. UNCHANGED <<entries, undone, day>>
      BY <3>1 DEF ReadClaims
    <3> QED BY <1>1, <3>3, <3>5, <3>6
  <2> QED BY <2>1, <2>2
(* Midnight does not pass between a reading of the entries and of the clock. *)
<1>6. ASSUME NEW r \in Readers, reader'[r].pc = "claims",
             NEW p \in Of("payment", entries') \ reader'[r].book
      PROVE  p.asOf >= day'
  <2>1. CASE ReadEntries(r)
    BY <1>6, <2>1 DEF ReadEntries, TypeOK, Of
  <2>2. CASE ~ReadEntries(r)
    <3>1. reader'[r] = reader[r]
      <4>1. ASSUME NEW q \in Readers, NEW rd, reader' = [reader EXCEPT ![q] = rd],
                   rd.pc # "claims"
            PROVE  reader'[r] = reader[r]
        BY <1>6, <4>1 DEF TypeOK
      <4>2. CASE \/ Charge \/ Pay \/ PostOnBankDate
                 \/ Undo \/ SwitchBilling \/ NextDay \/ Quiet \/ UNCHANGED vars
        BY <4>2 DEF Charge, Pay, PostOnBankDate, PostPayment, Undo, SwitchBilling,
                    NextDay, Quiet, vars
      <4>3. ASSUME NEW q \in Readers, Finish(q) \/ Fail(q) \/ ReadClaims(q)
            PROVE  reader'[r] = reader[r]
        <5>1. CASE Finish(q) \/ Fail(q)
          BY <4>1, <5>1 DEF Finish, Fail, Resting
        <5>2. CASE ReadClaims(q)
          <6>1. reader'[q].pc = "post" /\ \A o \in Readers \ {q} : reader'[o] = reader[o]
            BY <5>2 DEF ReadClaims, TypeOK
          <6> QED BY <1>6, <6>1
        <5> QED BY <4>3, <5>1, <5>2
      <4>4. ASSUME NEW q \in Readers, PostFee(q) PROVE reader'[r] = reader[r]
        <5>1. PICK rd : reader' = [reader EXCEPT ![q] = rd] /\ IsPosting(rd, entries, undone)
          BY <4>4, PostFeeDoes
        <5>2. rd.pc # "claims"
          BY <5>1 DEF IsPosting
        <5> QED BY <4>1, <5>1, <5>2
      <4>5. ASSUME NEW q \in Readers, ReadEntries(q) PROVE reader'[r] = reader[r]
        BY <2>2, <4>5 DEF ReadEntries, TypeOK
      <4> QED BY <4>2, <4>3, <4>4, <4>5 DEF Next, AssessFees
    <3>2. day' = day
      <4>1. ~NextDay
        BY <1>6, <3>1 DEF NextDay
      <4> QED BY <4>1 DEF Next, AssessFees, Charge, Pay, PostOnBankDate, PostPayment, Undo,
                          SwitchBilling, Quiet, vars, ReadEntries, ReadClaims, PostFee, Finish, Fail
    <3>3. CASE p \in entries
      BY <1>6, <3>1, <3>2, <3>3 DEF FinedWereShort, Of
    <3>4. CASE p \notin entries
      BY <1>1, <1>6, <3>2, <3>4
    <3> QED BY <3>3, <3>4
  <2> QED BY <2>1, <2>2
<1> QED BY <1>4, <1>5, <1>6 DEF FinedWereShort

(* A date that one charge falls due on is not fined if what was recorded by the
   day before paid it between the last deadline before it and its own: for any
   policy, any readers and any payments, entered or from the bank and dated as
   it likes, and any undos between their steps, as long as midnight does not
   fall inside a read. *)
THEOREM PaidIsNotFined ==
  ASSUME ~Straddle
  PROVE  Spec => []KnownPaidIsNotFined
<1>1. TypeOK /\ FinedWereShort => KnownPaidIsNotFined
  <2> SUFFICES ASSUME TypeOK, FinedWereShort, NEW f \in Of("fee", entries),
                      Cardinality({c \in Of("charge", entries) : c.on = f.no}) = 1
               PROVE  ~KnownPaid(f.no, f.asOf)
    BY DEF KnownPaidIsNotFined
  <2>1. PICK due : due = {c \in Of("charge", entries) : c.on = f.no}
    OBVIOUS
  <2>2. due = DueThen(entries, f.no) /\ due \subseteq entries
    BY <2>1 DEF DueThen, Of
  <2>3. PICK c : due = {c}
    BY <2>1, <2>2, FS_Subset, FS_Singleton DEF TypeOK
  <2>4. c \in entries /\ c \in Rows
    BY <2>2, <2>3 DEF TypeOK
  <2>5. Total(PaidFor(entries, undone, f.asOf, f.no)) < c.amount
    BY <2>2, <2>3, <2>4 DEF FinedWereShort, LeftShort
  <2>6. Total(due) = c.amount
    BY <2>3, <2>4, TotalOfOne
  <2>7. PICK paid : paid = {p \in Of("payment", entries) \ undone :
                              /\ p.asOf < f.asOf
                              /\ p.on <= f.no + Grace
                              /\ \A d \in {x.on : x \in {y \in Of("charge", entries) :
                                                               y.on < f.no}} :
                                   p.on > d + Grace}
    OBVIOUS
  <2>8. paid = PaidFor(entries, undone, f.asOf, f.no)
    BY <2>7 DEF PaidFor
  <2>9. Total(paid) \in Nat
    BY <2>7, Totals DEF TypeOK, Of
  <2>10. ~(Total(paid) >= Total(due))
    BY <2>4, <2>5, <2>6, <2>8, <2>9 DEF Rows
  <2> QED BY <2>1, <2>7, <2>10 DEF KnownPaid
<1>2. TypeOK /\ TypeOK' /\ FinedWereShort /\ [Next]_vars => FinedWereShort'
  BY ShortStep
<1> QED BY <1>1, <1>2, ShortStart, TypeHolds, PTL DEF Spec
=============================================================================
