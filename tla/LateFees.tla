------------------------------ MODULE LateFees ------------------------------
(***************************************************************************)
(* Late fees on a Services tab. Like billing, assessment runs in every     *)
(* request that reads the tab: assessFees reads the entries, then the      *)
(* dates already assessed and the clock, works out which due dates went    *)
(* unpaid through their grace, and posts a fee for each in date order.     *)
(* Readers interleave with each other, with payments, which the bank may   *)
(* date earlier or later than today, with undos (undoing a fee waives it), *)
(* with a change of the billing rule, and with midnight.                   *)
(*                                                                         *)
(* Charges are posted by Accrual; a step posts one cycle, as EntryStore    *)
(* justifies, and a step posts one fee. Cycles are one day long.           *)
(***************************************************************************)
EXTENDS Integers, FiniteSets, Functions

CONSTANTS
  Readers,      \* requests that read the tab
  MaxDay,       \* bound on the calendar
  MaxPayments,  \* bound on the payments made
  MaxUndos,     \* bound on the entries undone
  Base,         \* what a cycle charges, and the most a payment pays
  FixedFee,     \* the policy's fee
  Grace,        \* the policy's grace days
  Cap,          \* the policy's cap on the tab's fees, 0 for none
  Switches,     \* the provider may change the billing rule
  Straddle      \* midnight may fall inside a request

ASSUME PolicyAssumption ==
  /\ Base \in Nat \ {0} /\ FixedFee \in Nat \ {0} /\ Grace \in Nat /\ Cap \in Nat
  /\ MaxDay \in Nat /\ MaxPayments \in Nat /\ MaxUndos \in Nat
  /\ Switches \in BOOLEAN /\ Straddle \in BOOLEAN

ASSUME ReadersAssumption == IsFiniteSet(Readers)

VARIABLES
  day,      \* today, in the instance's timezone
  billing,  \* the tab's billing rule
  entries,  \* charges, payments and fees on the tab
  undone,   \* the entries a reversal points at
  reader    \* what each request is doing

vars == <<day, billing, entries, undone, reader>>

-----------------------------------------------------------------------------
Of(kind, book) == {e \in book : e.kind = kind}

Total(book) == SumFunction([e \in book |-> e.amount])

(* The number of a charge is its cycle, and a fee's the due date it answers
   to; `on' is the day an entry takes effect, and `seq' numbers those of its
   kind. For the properties, `asOf' keeps of a payment the day it is recorded
   and of a fee the day its reader took for today. *)
Entry(kind, n, on, amount, asOf) ==
  [seq |-> Cardinality(Of(kind, entries)) + 1, kind |-> kind, no |-> n, on |-> on,
   amount |-> amount, asOf |-> asOf]

Resting == [pc |-> "resting"]

Init ==
  /\ day = 0
  /\ billing \in {"advance", "arrears"}
  /\ entries = {}
  /\ undone = {}
  /\ reader = [r \in Readers |-> Resting]

DueOn(n) == IF billing = "arrears" THEN n + 1 ELSE n

(* Cycles that have come due and are not posted, whatever rule posted the
   others. *)
Unbilled ==
  {n \in 0 .. MaxDay : DueOn(n) <= day /\ \A c \in Of("charge", entries) : c.no # n}

(* Accrue posts the oldest cycle that has come due. *)
Charge ==
  /\ \E n \in Unbilled :
       /\ \A m \in Unbilled : n <= m
       /\ entries' = entries \cup {Entry("charge", n, DueOn(n), Base, DueOn(n))}
  /\ UNCHANGED <<day, billing, undone, reader>>

PostPayment(on, amount) ==
  /\ Cardinality(Of("payment", entries)) < MaxPayments
  /\ entries' = entries \cup
       {Entry("payment", Cardinality(Of("payment", entries)) + 1, on, amount, day)}
  /\ UNCHANGED <<day, billing, undone, reader>>

(* A payment somebody enters takes effect today. *)
Pay == PostPayment(day, Base)

(* One that reconciliation posts takes effect on the bank's day, whether past
   or to come: a line recorded as a payment, or what a line has on top of the
   payment it is matched to. What it has less is an adjustment, which no fee
   depends on. *)
PostOnBankDate ==
  \E on \in 0 .. MaxDay, amount \in 1 .. Base : PostPayment(on, amount)

(* Anything may be undone, once; undoing a fee waives it. *)
Undo ==
  /\ Cardinality(undone) < MaxUndos
  /\ \E e \in entries \ undone : undone' = undone \cup {e}
  /\ UNCHANGED <<day, billing, entries, reader>>

SwitchBilling ==
  /\ Switches
  /\ billing' = IF billing = "advance" THEN "arrears" ELSE "advance"
  /\ UNCHANGED <<day, entries, undone, reader>>

-----------------------------------------------------------------------------
Deadline(date) == date + Grace

(* What the tab expected to be paid, from the charges that stand. *)
Points(book, gone) == Of("charge", book) \ gone

Precedes(p, q) == p.on < q.on \/ (p.on = q.on /\ p.no < q.no)

(* Mutant of PaidWindow: everything paid so far counts. *)
PaidWindowOpen(pt, book, gone) ==
  Total({p \in Of("payment", book) \ gone : p.on <= Deadline(pt.on)})

(* Mutant of PaidWindow: a payment counts on the day it was recorded. *)
PaidWindowAsRecorded(pt, book, gone) ==
  Total({p \in Of("payment", book) \ gone :
           /\ p.asOf <= Deadline(pt.on)
           /\ \A q \in Points(book, gone) : Precedes(q, pt) => p.asOf > Deadline(q.on)})

(* The payments between the deadline of the point before and this one's. *)
PaidWindow(pt, book, gone) ==
  Total({p \in Of("payment", book) \ gone :
           /\ p.on <= Deadline(pt.on)
           /\ \A q \in Points(book, gone) : Precedes(q, pt) => p.on > Deadline(q.on)})

(* The points whose grace has passed and whose window was short. *)
Short(book, gone, today) ==
  {pt \in Points(book, gone) : /\ Deadline(pt.on) < today
                               /\ PaidWindow(pt, book, gone) < pt.amount}

(* Mutant of Assessed: waiving a fee frees its date. *)
AssessedStanding == {f.no : f \in Of("fee", entries) \ undone}

(* The claims in posted_fees: the dates a fee was ever posted for. *)
Assessed == {f.no : f \in Of("fee", entries)}

(* Mutant of Assess: the cap is checked, the fee is not clamped to it. *)
AssessUnclamped(accrued) == IF Cap > 0 /\ accrued >= Cap THEN 0 ELSE FixedFee

(* The fee, clamped so that the tab's fees stay within the cap. *)
Assess(accrued) ==
  IF Cap = 0 \/ accrued + FixedFee <= Cap THEN FixedFee
  ELSE IF accrued >= Cap THEN 0 ELSE Cap - accrued

(* assessFees runs after this request has billed what is due. *)
ReadEntries(r) ==
  /\ reader[r] = Resting
  /\ Unbilled = {}
  /\ reader' = [reader EXCEPT ![r] = [pc |-> "claims", book |-> entries, gone |-> undone]]
  /\ UNCHANGED <<day, billing, entries, undone>>

(* It reads the claims and the clock. The fees that stand are counted once,
   from the entries it has read. *)
ReadClaims(r) ==
  LET book == reader[r].book
      gone == reader[r].gone IN
  /\ reader[r].pc = "claims"
  /\ reader' = [reader EXCEPT ![r] =
       [pc |-> "post", book |-> book, gone |-> gone, asOf |-> day,
        todo |-> {pt \in Short(book, gone, day) : pt.on \notin Assessed},
        accrued |-> Total(Of("fee", book) \ gone)]]
  /\ UNCHANGED <<day, billing, entries, undone>>

Onward(r, pt, accrued) ==
  reader' = [reader EXCEPT ![r] =
    [pc |-> "post", book |-> reader[r].book, gone |-> reader[r].gone,
     asOf |-> reader[r].asOf, todo |-> reader[r].todo \ {pt}, accrued |-> accrued]]

(* The earliest point is fined. With no room under the cap its date is left
   unclaimed; if another reader has claimed it, that reader's fee is not added
   to what this one has counted. *)
PostFee(r) ==
  /\ reader[r].pc = "post"
  /\ \E pt \in reader[r].todo :
       LET amount == Assess(reader[r].accrued) IN
       /\ \A q \in reader[r].todo \ {pt} : Precedes(pt, q)
       /\ \/ amount > 0 /\ pt.on \notin Assessed
             /\ entries' = entries \cup
                  {Entry("fee", pt.on, Deadline(pt.on), amount, reader[r].asOf)}
             /\ Onward(r, pt, reader[r].accrued + amount)
          \/ (amount = 0 \/ pt.on \in Assessed)
             /\ Onward(r, pt, reader[r].accrued)
             /\ UNCHANGED entries
  /\ UNCHANGED <<day, billing, undone>>

Finish(r) ==
  /\ reader[r].pc = "post"
  /\ reader[r].todo = {}
  /\ reader' = [reader EXCEPT ![r] = Resting]
  /\ UNCHANGED <<day, billing, entries, undone>>

(* A read or a posting fails; the fees posted so far stand. *)
Fail(r) ==
  /\ reader[r].pc \in {"claims", "post"}
  /\ reader' = [reader EXCEPT ![r] = Resting]
  /\ UNCHANGED <<day, billing, entries, undone>>

(* Midnight passes. Without Straddle it does not fall between a request's
   reading of the entries and its reading of the clock. *)
NextDay ==
  /\ day < MaxDay
  /\ Straddle \/ \A r \in Readers : reader[r].pc # "claims"
  /\ day' = day + 1
  /\ UNCHANGED <<billing, entries, undone, reader>>

(* A tab at rest, with nothing left to bill. *)
Quiet ==
  /\ \A r \in Readers : reader[r] = Resting
  /\ UNCHANGED vars

AssessFees(r) ==
  ReadEntries(r) \/ ReadClaims(r) \/ PostFee(r) \/ Finish(r) \/ Fail(r)

Next ==
  \/ Charge \/ Pay \/ PostOnBankDate
  \/ Undo \/ SwitchBilling \/ NextDay \/ Quiet
  \/ \E r \in Readers : AssessFees(r)

Spec == Init /\ [][Next]_vars

-----------------------------------------------------------------------------
Standing == Total(Of("fee", entries) \ undone)

(* The fees are totalled once, before they are posted, so readers that overlap
   may each fill what is left under the cap. However they interleave, with
   each other and with waivers, the fees that stand stay within one cap for
   each request there can be at once; one alone keeps the cap itself. *)
CapOverrunIsBounded == Cap > 0 => Standing <= Cap * Cardinality(Readers)

(* A due date is fined once in the life of the tab. A waived fee does not come
   back on the next read. *)
FinedOncePerDate ==
  \A f, g \in Of("fee", entries) : f.no = g.no => f = g

(* Everything charged for the date was paid between the last deadline before
   it and its own, by payments that nobody has undone and that were on the
   books before the day `asOf', from whichever source and however dated. *)
KnownPaid(date, asOf) ==
  LET charges == Of("charge", entries)
      earlier == {c.on : c \in {x \in charges : x.on < date}}
      paid    == {p \in Of("payment", entries) \ undone :
                    /\ p.asOf < asOf
                    /\ p.on <= date + Grace
                    /\ \A d \in earlier : p.on > d + Grace}
  IN  Total(paid) >= Total({c \in charges : c.on = date})

(* A date that one charge falls due on is not fined if what was recorded by
   the day before its assessment paid it in time, be it entered then or a bank
   line recorded late; all the less if it was recorded by the deadline. A line
   recorded after the assessment is too late: its fee stands, although the
   ledger then shows the date as paid. *)
KnownPaidIsNotFined ==
  \A f \in Of("fee", entries) :
    Cardinality({c \in Of("charge", entries) : c.on = f.no}) = 1 => ~KnownPaid(f.no, f.asOf)

(* A read that completes has fined every date that was short in what it read,
   unless the fees it counted have reached the cap; in particular a waiver
   that makes room lets a date passed over before be fined. *)
MissedIsFined ==
  [][\A r \in Readers : Finish(r) =>
       LET book == reader[r].book
           gone == reader[r].gone IN
       \A c \in Of("charge", book) \ gone :
         \/ c.on + Grace >= reader[r].asOf
         \/ c.on \in {f.no : f \in {x \in Of("fee", entries) : x.amount > 0}}
         \/ Cap > 0 /\ reader[r].accrued >= Cap
         \/ Total({p \in Of("payment", book) \ gone :
                     /\ p.on <= c.on + Grace
                     /\ \A d \in Of("charge", book) \ gone :
                          d.on < c.on => p.on > d.on + Grace}) >= c.amount]_vars
=============================================================================
