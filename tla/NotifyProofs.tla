---------------------------- MODULE NotifyProofs ----------------------------
(***************************************************************************)
(* Theorems about the notification tick, for any number of ticks at once,  *)
(* any people and channels, any schedule, any ceiling and any number of    *)
(* crashes, lost answers and failed claims. A tick works from what it has  *)
(* read: Held says how far that may have drifted from the world, and       *)
(* Single what still holds of the whole when nothing has gone wrong.       *)
(***************************************************************************)
EXTENDS Notify, FiniteSetTheorems, WellFoundedInduction, TLAPS

Items == [kind : Scans, of : Nat, lead : Int, place : Places]

Running ==
  [pc : {"scan", "derive", "deliver", "claim"}, scan : Scans, day : Nat,
   todo : SUBSET Items, budget : Int, deferred : BOOLEAN, failed : BOOLEAN,
   always : SUBSET Items, never : SUBSET Items]

Typed ==
  /\ today \in Nat /\ owed \in BOOLEAN /\ archived \in BOOLEAN
  /\ IsFiniteSet(payments) /\ payments \subseteq [seq : Nat, day : Nat, undone : BOOLEAN]
  /\ tick \in [Ticks -> Running \cup {Idle}]
  /\ again \in BOOLEAN /\ mishaps \in Nat

(* The scans after this one. *)
Ahead(scan) ==
  CASE scan = "reminder" -> {"payment", "overdue"}
    [] scan = "payment"  -> {"overdue"}
    [] scan = "overdue"  -> {}

(* The item is still to come: its scan has not begun, or has yet to derive. *)
ToCome(rec, i) ==
  i.kind \in Ahead(rec.scan) \/ (rec.pc = "derive" /\ i.kind = rec.scan)

(* What was due ever since a tick began can have left the rules' days only
   together with the day that the scan has read. *)
Pinned(rec) ==
  /\ rec.todo = {} /\ rec.day <= today
  /\ \A i \in rec.always :
       /\ i.kind = "reminder" => i.lead = i.of - rec.day
       /\ i.kind = "overdue"  => i.lead = rec.day - i.of

(* What a running tick knows. *)
Held(q) ==
  tick[q] # Idle =>
    /\ tick[q].pc \in {"deliver", "claim"} => tick[q].todo # {}
    /\ tick[q].pc = "claim" => First(tick[q].todo) \in told
    /\ tick[q].pc = "derive" => Pinned(tick[q])
    /\ tick[q].never \subseteq DeadNow /\ tick[q].todo \cap tick[q].never = {}
    /\ tick[q].always \subseteq DueNow
    /\ ~tick[q].deferred /\ ~tick[q].failed =>
         \A i \in tick[q].always : Claimed(i) \/ i \in tick[q].todo \/ ToCome(tick[q], i)

(* Without mishaps one tick runs at a time, nothing was told twice, what was
   told is claimed or being claimed, and what is being told is not. *)
Single ==
  mishaps = 0 =>
    /\ ~again
    /\ \A q, r \in Ticks : tick[q] # Idle /\ tick[r] # Idle => q = r
    /\ \A i \in told : \/ Claimed(i)
                       \/ \E q \in Ticks : Busy(q, "claim") /\ First(tick[q].todo) = i
    /\ \A q \in Ticks : Busy(q, "deliver") => ~Claimed(First(tick[q].todo))

NotifyInv ==
  /\ Typed
  /\ \A q \in Ticks : Held(q)
  /\ ClaimedWasTold
  /\ Single

-----------------------------------------------------------------------------
(* Some member of a set has the least value of a measure in the naturals. *)
LEMMA LeastOf ==
  ASSUME NEW S, S # {}, NEW f, \A x \in S : f[x] \in Nat
  PROVE  \E x \in S : \A y \in S : f[x] <= f[y]
<1> DEFINE T == {f[x] : x \in S}
<1>1. T \subseteq Nat /\ T # {}
  OBVIOUS
<1>2. PICK n \in T : \A m \in T : ~(<<m, n>> \in OpToRel(<, Nat))
  <2> HIDE DEF T
  <2> QED BY <1>1, WFMin, NatLessThanWellFounded
<1>3. \A m \in T : n <= m
  <2> TAKE m \in T
  <2>1. m \in Nat /\ n \in Nat
    BY <1>1, <1>2
  <2>2. ~(m < n)
    BY <1>2, <2>1 DEF OpToRel
  <2> QED BY <2>1, <2>2
<1> QED BY <1>2, <1>3

(* A scan that has something to tell has something to tell first. *)
LEMMA FirstIsOne ==
  ASSUME NEW S \in SUBSET Items, S # {}
  PROVE  First(S) \in S
<1> DEFINE of == [i \in S |-> i.of]
           A  == {i \in S : \A j \in S : i.of <= j.of}
           u  == [i \in A |-> i.place[1]]
           B  == {i \in A : \A j \in A : i.place[1] <= j.place[1]}
           c  == [i \in B |-> i.place[2]]
<1>1. \A i \in S : i.of \in Nat /\ i.place[1] \in Nat /\ i.place[2] \in Nat
  BY PlacesAssumption DEF Items
<1>2. A # {}
  <2>1. \A i \in S : of[i] \in Nat
    BY <1>1
  <2>2. \E x \in S : \A y \in S : of[x] <= of[y]
    <3> HIDE DEF of
    <3> QED BY <2>1, LeastOf
  <2> QED BY <2>2
<1>3. B # {}
  <2>1. \A i \in A : u[i] \in Nat
    BY <1>1
  <2>2. \E x \in A : \A y \in A : u[x] <= u[y]
    <3> HIDE DEF u, A
    <3> QED BY <2>1, <1>2, LeastOf
  <2> QED BY <2>2
<1>4. PICK i \in B : \A j \in B : i.place[2] <= j.place[2]
  <2>1. \A x \in B : c[x] \in Nat
    BY <1>1
  <2>2. \E x \in B : \A y \in B : c[x] <= c[y]
    <3> HIDE DEF c, B
    <3> QED BY <2>1, <1>3, LeastOf
  <2> QED BY <2>2
<1>5. \A j \in S :
        \/ i.of < j.of
        \/ i.of = j.of /\ i.place[1] < j.place[1]
        \/ i.of = j.of /\ i.place[1] = j.place[1] /\ i.place[2] <= j.place[2]
  <2> TAKE j \in S
  <2>1. i.of <= j.of
    OBVIOUS
  <2>2. CASE i.of = j.of
    <3>1. j \in A
      BY <2>2
    <3>2. i.place[1] <= j.place[1]
      BY <3>1
    <3>3. i.place[1] = j.place[1] => j \in B
      BY <3>1
    <3> QED BY <1>1, <1>4, <2>2, <3>2, <3>3
  <2> QED BY <1>1, <2>1, <2>2
<1> QED BY <1>5 DEF First

(* What can be derived is typed, and live when it is derived. *)
LEMMA DerivedTyped ==
  ASSUME Typed, NEW scan \in Scans, NEW day \in Nat
  PROVE  Derived(scan, day) \subseteq {i \in Items : i.kind = scan}
<1>1. Reminders(day) \subseteq {i \in Items : i.kind = "reminder"}
  BY DaysAssumption DEF Reminders, Item, Items, Scans
<1>2. Overdue(day) \subseteq {i \in Items : i.kind = "overdue"}
  BY DaysAssumption DEF Overdue, Item, Items, Scans
<1>3. Announceable(day) \subseteq {i \in Items : i.kind = "payment"}
  BY DEF Typed, Announceable, Standing, Item, Items, Scans
<1> QED BY <1>1, <1>2, <1>3 DEF Derived, Scans

LEMMA DerivedLive ==
  ASSUME Typed, NEW scan \in Scans, NEW day \in Nat, NEW i \in Derived(scan, day)
  PROVE  IsLive(i)
<1>1. CASE scan = "payment"
  BY <1>1 DEF Derived, Announceable, Item, IsLive
<1>2. CASE scan # "payment"
  <2>1. i.kind = scan
    BY DerivedTyped
  <2>2. owed
    BY <1>2 DEF Derived, Scans
  <2> QED BY <1>2, <2>1, <2>2 DEF IsLive
<1> QED BY <1>1, <1>2

LEMMA DueTyped ==
  ASSUME Typed
  PROVE  /\ DueNow \subseteq Items
         /\ \A i \in DueNow : i \in Derived(i.kind, today) /\ i.place \in on
<1>1. \A s \in Scans : Derived(s, today) \subseteq {i \in Items : i.kind = s}
  BY DerivedTyped DEF Typed
<1> QED BY <1>1 DEF DueNow

LEMMA DeadTyped == DeadNow \subseteq Items
<1>1. \A d \in 0 .. LastDay : Reminders(d) \cup Overdue(d) \subseteq Items
  BY DaysAssumption DEF Reminders, Overdue, Item, Items, Scans
<1>2. {Item("payment", s, 0, p) : s \in 1 .. MaxPayments, p \in Places} \subseteq Items
  BY DEF Item, Items, Scans
<1> QED BY <1>1, <1>2 DEF DeadNow, AllItems

(* What is due, and was already pinned to the day the scan has read, is among
   what the scan derives: no payment grows younger, and a reminder is due on
   one day only. *)
LEMMA StillDerived ==
  ASSUME Typed, NEW q \in Ticks, tick[q] \in Running, Pinned(tick[q]),
         NEW i \in tick[q].always, i \in DueNow, i.kind = tick[q].scan
  PROVE  i \in Derived(tick[q].scan, tick[q].day)
<1> DEFINE d == tick[q].day
<1>1. d \in Nat /\ today \in Nat /\ d <= today
  BY DEF Typed, Running, Pinned
<1>2. i \in Derived(i.kind, today) /\ i \in Items
  BY DueTyped
<1>3. CASE i.kind = "payment"
  <2>1. \A e \in Standing : Recent(e, today) => Recent(e, d)
    BY <1>1, DaysAssumption DEF Standing, Typed, Recent
  <2> QED BY <1>2, <1>3, <2>1 DEF Derived, Announceable
<1>4. CASE i.kind = "reminder"
  <2>1. i.lead = i.of - today
    BY <1>2, <1>4 DEF Derived, Reminders, Item
  <2>2. i.lead = i.of - d
    BY <1>4 DEF Pinned
  <2>3. today = d
    BY <1>1, <1>2, <2>1, <2>2 DEF Items
  <2> QED BY <1>2, <2>3
<1>5. CASE i.kind = "overdue"
  <2>1. i.lead = today - i.of
    BY <1>2, <1>5 DEF Derived, Overdue, Item
  <2>2. i.lead = d - i.of
    BY <1>5 DEF Pinned
  <2>3. today = d
    BY <1>1, <1>2, <2>1, <2>2 DEF Items
  <2> QED BY <1>2, <2>3
<1> QED BY <1>2, <1>3, <1>4, <1>5 DEF Items, Scans

-----------------------------------------------------------------------------
(* The world moves while ticks run: people, the ledger and the calendar. *)
Outside == NextDay \/ Pay \/ UndoPayment \/ Charge \/ SetPrefs \/ SetArchived

LEMMA OutsideTyped ==
  ASSUME Typed, Outside
  PROVE  Typed' /\ today <= today'
<1>1. tick' \in [Ticks -> Running \cup {Idle}]
  <2>1. Observe
    BY DEF Outside, NextDay, Pay, UndoPayment, Charge, SetPrefs, SetArchived
  <2>2. ASSUME NEW q \in Ticks, tick[q] # Idle
        PROVE [tick[q] EXCEPT !.always = @ \cap DueNow', !.never = @ \cap DeadNow'] \in Running
    <3>1. tick[q] \in Running
      BY <2>2 DEF Typed
    <3> QED BY <3>1 DEF Running
  <2> QED BY <2>1, <2>2 DEF Observe, Typed
<1>2. IsFiniteSet(payments') /\ payments' \subseteq [seq : Nat, day : Nat, undone : BOOLEAN]
  <2>1. CASE Pay
    <3> DEFINE row == [seq |-> Cardinality(payments) + 1, day |-> today, undone |-> FALSE]
    <3>1. Cardinality(payments) \in Nat
      BY FS_CardinalityType DEF Typed
    <3>2. row \in [seq : Nat, day : Nat, undone : BOOLEAN]
      BY <3>1 DEF Typed
    <3>3. payments' = payments \cup {row}
      BY <2>1 DEF Pay
    <3> HIDE DEF row
    <3>4. IsFiniteSet(payments')
      BY <3>3, FS_AddElement DEF Typed
    <3> QED BY <3>2, <3>3, <3>4 DEF Typed
  <2>2. CASE UndoPayment
    <3>1. PICK e \in Standing :
            payments' = (payments \ {e}) \cup {[e EXCEPT !.undone = TRUE]}
      BY <2>2 DEF UndoPayment
    <3> DEFINE row == [e EXCEPT !.undone = TRUE]
    <3>2. row \in [seq : Nat, day : Nat, undone : BOOLEAN]
      <4>1. e \in [seq : Nat, day : Nat, undone : BOOLEAN]
        BY DEF Standing, Typed
      <4> QED BY <4>1
    <3>3. payments' = (payments \ {e}) \cup {row}
      BY <3>1
    <3> HIDE DEF row
    <3>4. IsFiniteSet(payments \ {e})
      BY FS_RemoveElement DEF Typed
    <3>5. IsFiniteSet(payments')
      BY <3>3, <3>4, FS_AddElement
    <3> QED BY <3>2, <3>3, <3>5 DEF Typed
  <2>3. CASE payments' = payments
    BY <2>3 DEF Typed
  <2> QED BY <2>1, <2>2, <2>3
          DEF Outside, NextDay, Charge, SetPrefs, SetArchived
<1>3. today' \in Nat /\ today <= today'
  <2>1. today' = today \/ today' = today + 1
    BY Zenon DEF Outside, NextDay, Pay, UndoPayment, Charge, SetPrefs, SetArchived
  <2> QED BY <2>1 DEF Typed
<1>4. owed' \in BOOLEAN /\ archived' \in BOOLEAN
  BY DEF Outside, NextDay, Pay, UndoPayment, Charge, SetPrefs, SetArchived, Typed
<1>5. again' = again /\ mishaps' = mishaps
  BY DEF Outside, NextDay, Pay, UndoPayment, Charge, SetPrefs, SetArchived, history
<1> QED BY <1>1, <1>2, <1>3, <1>4, <1>5 DEF Typed

LEMMA OutsideHeld ==
  ASSUME Typed, Outside, NEW q \in Ticks, Held(q)
  PROVE  Held(q)'
<1> SUFFICES ASSUME tick'[q] # Idle PROVE Held(q)'
  BY DEF Held
<1>1. Observe /\ UNCHANGED <<claims, history>>
  BY DEF Outside, NextDay, Pay, UndoPayment, Charge, SetPrefs, SetArchived
<1>2. tick[q] # Idle /\ tick[q] \in Running
  BY <1>1 DEF Observe, Typed
<1>3. tick'[q] = [tick[q] EXCEPT !.always = @ \cap DueNow', !.never = @ \cap DeadNow']
  BY <1>1, <1>2 DEF Observe
<1>4. /\ \A f \in {"pc", "scan", "day", "todo", "deferred", "failed"} :
           tick'[q][f] = tick[q][f]
      /\ tick'[q].always = tick[q].always \cap DueNow'
      /\ tick'[q].never = tick[q].never \cap DeadNow'
  BY <1>2, <1>3 DEF Running
<1>5. /\ tick'[q].pc = tick[q].pc /\ tick'[q].scan = tick[q].scan
      /\ tick'[q].day = tick[q].day /\ tick'[q].todo = tick[q].todo
      /\ tick'[q].deferred = tick[q].deferred /\ tick'[q].failed = tick[q].failed
  BY <1>2, <1>3 DEF Running
<1>6. Pinned(tick[q]) => Pinned(tick[q])'
  <2>1. today \in Nat /\ today' \in Nat /\ today <= today' /\ tick[q].day \in Nat
    BY <1>2, OutsideTyped DEF Typed, Running
  <2> QED BY <1>4, <1>5, <2>1 DEF Pinned
<1>7. \A i : Claimed(i)' = Claimed(i) /\ ToCome(tick[q], i)' = ToCome(tick[q], i)
  BY <1>1, <1>5 DEF Claimed, ToCome
<1> QED BY <1>1, <1>2, <1>4, <1>5, <1>6, <1>7 DEF Held, history

-----------------------------------------------------------------------------
(* A tick's own steps leave the world alone. *)
LEMMA SameWorld ==
  ASSUME UNCHANGED world
  PROVE  DueNow' = DueNow /\ DeadNow' = DeadNow /\ today' = today
<1>1. /\ today' = today /\ owed' = owed /\ payments' = payments
      /\ on' = on /\ archived' = archived
  BY DEF world
<1>2. Standing' = Standing
  BY <1>1 DEF Standing
<1>3. \A d : Announceable(d)' = Announceable(d)
  BY <1>2 DEF Announceable
<1>4. \A s, d : Derived(s, d)' = Derived(s, d)
  BY <1>1, <1>3 DEF Derived
<1>5. DueNow' = DueNow
  BY <1>1, <1>4 DEF DueNow
<1>6. DeadNow' = DeadNow
  BY <1>1, <1>2 DEF DeadNow, IsLive, AllItems
<1> QED BY <1>1, <1>5, <1>6

(* Nor do they disturb what another tick knows. *)
LEMMA OthersHeld ==
  ASSUME NEW r \in Ticks, Held(r), tick'[r] = tick[r], UNCHANGED world,
         claims \subseteq claims', told \subseteq told'
  PROVE  Held(r)'
<1>1. DueNow' = DueNow /\ DeadNow' = DeadNow /\ today' = today
  BY SameWorld
<1>2. \A i : Claimed(i) => Claimed(i)'
  BY DEF Claimed
<1>3. Pinned(tick[r]) => Pinned(tick[r])'
  BY <1>1 DEF Pinned
<1>4. \A i : ToCome(tick[r], i)' = ToCome(tick[r], i)
  BY DEF ToCome
<1> QED BY <1>1, <1>2, <1>3, <1>4 DEF Held

(* A tick is done with the item at hand, whatever became of it. *)
LEMMA RestHeld ==
  ASSUME Typed, NEW q \in Ticks, tick[q] # Idle, Held(q), ~Busy(q, "derive"),
         UNCHANGED world, claims \subseteq claims', told \subseteq told',
         NEW rec \in {Rest(q), [Rest(q) EXCEPT !.deferred = TRUE],
                      [Rest(q) EXCEPT !.failed = TRUE]},
         Proceed(q, rec),
         rec = Rest(q) /\ ~tick[q].deferred /\ ~tick[q].failed =>
           (First(tick[q].todo) \in tick[q].always => Key(First(tick[q].todo)) \in claims')
  PROVE  rec \in Running /\ Held(q)'
<1>0. PICK i1 : i1 = First(tick[q].todo)
  OBVIOUS
<1>1. tick[q] \in Running
  BY DEF Typed
<1>2. Rest(q) = [tick[q] EXCEPT !.pc = "scan", !.todo = tick[q].todo \ {i1}]
  BY <1>0 DEF Rest
<1>3. Rest(q) \in Running
  BY <1>1, <1>2 DEF Running
<1>4. /\ Rest(q).pc = "scan" /\ Rest(q).todo = tick[q].todo \ {i1}
      /\ Rest(q).scan = tick[q].scan
      /\ Rest(q).always = tick[q].always /\ Rest(q).never = tick[q].never
      /\ Rest(q).deferred = tick[q].deferred /\ Rest(q).failed = tick[q].failed
  BY <1>1, <1>2 DEF Running
<1>5. /\ rec \in Running /\ rec.pc = "scan" /\ rec.todo = tick[q].todo \ {i1}
      /\ rec.scan = tick[q].scan
      /\ rec.always = tick[q].always /\ rec.never = tick[q].never
      /\ \/ rec = Rest(q) /\ rec.deferred = tick[q].deferred /\ rec.failed = tick[q].failed
         \/ rec.deferred \/ rec.failed
  BY <1>3, <1>4 DEF Running
<1>6. tick'[q] = rec
  BY DEF Proceed, Typed
<1>7. DueNow' = DueNow /\ DeadNow' = DeadNow
  BY SameWorld
<1>8. \A i : Claimed(i) => Claimed(i)'
  BY DEF Claimed
<1>9. Claimed(i1)' \/ i1 \notin rec.always \/ rec.deferred \/ rec.failed
  <2>1. Key(i1) \in claims' => Claimed(i1)'
    BY DEF Claimed, Key
  <2> QED BY <1>0, <1>5, <2>1
<1>10. ASSUME ~rec.deferred, ~rec.failed, NEW i \in rec.always
       PROVE  Claimed(i)' \/ i \in rec.todo \/ ToCome(rec, i)
  <2>1. Claimed(i) \/ i \in tick[q].todo \/ ToCome(tick[q], i)
    BY <1>5, <1>10 DEF Held
  <2>2. ToCome(tick[q], i) => ToCome(rec, i)
    BY <1>5 DEF ToCome, Busy
  <2> QED BY <1>5, <1>8, <1>9, <1>10, <2>1, <2>2
<1> QED BY <1>5, <1>6, <1>7, <1>10 DEF Held, ToCome

(* A scan begins: what is to come, or claimed, is all there is. With the tab
   archived nothing is due. *)
LEMMA ListedHeld ==
  ASSUME Typed, NEW q \in Ticks, NEW base \in Running, base.pc = "scan",
         base.todo = {}, base.never \subseteq DeadNow, base.always \subseteq DueNow,
         NEW scan \in Scans,
         ~base.deferred /\ ~base.failed =>
           \A i \in base.always : Claimed(i) \/ i.kind = scan \/ i.kind \in Ahead(scan),
         UNCHANGED <<world, claims>>, Proceed(q, Listed(base, scan))
  PROVE  Listed(base, scan) \in Running /\ Held(q)'
<1>1. PICK rec : rec = Listed(base, scan)
  OBVIOUS
<1>2. /\ rec \in Running /\ rec.scan = scan /\ rec.todo = {}
      /\ rec.always = base.always /\ rec.never = base.never
      /\ rec.deferred = base.deferred /\ rec.failed = base.failed
      /\ \/ archived /\ rec.pc = "scan"
         \/ rec.pc = "derive" /\ rec.day = today
  <2>1. today \in Nat
    BY DEF Typed
  <2> QED BY <1>1, <2>1 DEF Listed, Running
<1>3. tick'[q] = rec
  BY <1>1 DEF Proceed, Typed
<1>4. DueNow' = DueNow /\ DeadNow' = DeadNow /\ today' = today
  BY SameWorld
<1>5. archived => DueNow = {}
  BY DEF DueNow
<1>6. rec.pc = "derive" => Pinned(rec)
  <2> SUFFICES ASSUME rec.pc = "derive" PROVE Pinned(rec)
    OBVIOUS
  <2>1. rec.todo = {} /\ rec.day = today /\ today \in Nat
    BY <1>2 DEF Typed
  <2>2. ASSUME NEW i \in rec.always
        PROVE /\ i.kind = "reminder" => i.lead = i.of - today
              /\ i.kind = "overdue" => i.lead = today - i.of
    <3>1. i \in Derived(i.kind, today)
      BY <1>2, DueTyped
    <3>2. CASE i.kind = "reminder"
      BY <3>1, <3>2 DEF Derived, Reminders, Item
    <3>3. CASE i.kind = "overdue"
      BY <3>1, <3>3 DEF Derived, Overdue, Item
    <3> QED BY <3>2, <3>3
  <2> QED BY <2>1, <2>2 DEF Pinned
<1>7. rec.pc = "derive" => Pinned(rec)'
  BY <1>4, <1>6 DEF Pinned
<1>8. \A i : Claimed(i)' = Claimed(i)
  BY DEF Claimed
<1>9. ASSUME ~rec.deferred, ~rec.failed, NEW i \in rec.always
      PROVE  Claimed(i)' \/ ToCome(rec, i)
  BY <1>2, <1>5, <1>8, <1>9 DEF ToCome
<1>10. tick'[q].pc = "derive" => Pinned(tick[q])'
  BY <1>3, <1>7 DEF Pinned
<1> QED BY <1>1, <1>2, <1>3, <1>4, <1>9, <1>10 DEF Held, ToCome

LEMMA BeginHeld ==
  ASSUME Typed, NEW q \in Ticks, Begin(q)
  PROVE  \E rec \in Running : Proceed(q, rec) /\ Held(q)'
<1>1. NewTick \in Running /\ NewTick.pc = "scan" /\ NewTick.todo = {}
      /\ NewTick.always = DueNow /\ NewTick.never = DeadNow
  BY DueTyped, DeadTyped, DaysAssumption DEF NewTick, Running, NewBudget, Scans
<1>2. \A i \in NewTick.always : i.kind = "reminder" \/ i.kind \in Ahead("reminder")
  BY <1>1, DueTyped DEF Items, Scans, Ahead
<1> QED BY <1>1, <1>2, ListedHeld DEF Begin, Scans

LEMMA BeginScanHeld ==
  ASSUME Typed, NEW q \in Ticks, Held(q), BeginScan(q)
  PROVE  \E rec \in Running : Proceed(q, rec) /\ Held(q)'
<1>1. tick[q] # Idle /\ tick[q] \in Running /\ tick[q].pc = "scan" /\ tick[q].todo = {}
  BY DEF BeginScan, Busy, Idle, Typed
<1>2. tick[q].scan \in {"reminder", "payment"}
  BY <1>1 DEF BeginScan, Running, Scans
<1>3. NextScan(tick[q].scan) \in Scans
  BY <1>2 DEF NextScan, Scans
<1>4. \A i : i.kind \in Ahead(tick[q].scan) =>
         i.kind = NextScan(tick[q].scan) \/ i.kind \in Ahead(NextScan(tick[q].scan))
  BY <1>2 DEF NextScan, Ahead
<1>5. /\ tick[q].never \subseteq DeadNow /\ tick[q].always \subseteq DueNow
      /\ ~tick[q].deferred /\ ~tick[q].failed =>
           \A i \in tick[q].always : Claimed(i) \/ i.kind \in Ahead(tick[q].scan)
  BY <1>1 DEF Held, ToCome
<1> QED BY <1>1, <1>3, <1>4, <1>5, ListedHeld DEF BeginScan

(* The scan derives: nothing it finds is dead, and it finds all that has been
   due. *)
LEMMA DeriveHeld ==
  ASSUME Typed, NEW q \in Ticks, Held(q), Derive(q)
  PROVE  \E rec \in Running : Proceed(q, rec) /\ Held(q)'
<1>1. tick[q] # Idle /\ tick[q] \in Running /\ tick[q].pc = "derive" /\ Pinned(tick[q])
  BY DEF Derive, Busy, Idle, Typed, Held
<1>2. PICK new : new = Derived(tick[q].scan, tick[q].day)
  OBVIOUS
<1>3. new \subseteq Items /\ \A i \in new : IsLive(i)
  BY <1>1, <1>2, DerivedTyped, DerivedLive DEF Running
<1>4. PICK rec : rec = [tick[q] EXCEPT !.pc = "scan", !.day = 0, !.todo = new]
  OBVIOUS
<1>5. /\ rec \in Running /\ rec.pc = "scan" /\ rec.todo = new /\ rec.scan = tick[q].scan
      /\ rec.always = tick[q].always /\ rec.never = tick[q].never
      /\ rec.deferred = tick[q].deferred /\ rec.failed = tick[q].failed
  BY <1>1, <1>3, <1>4 DEF Running
<1>6. Proceed(q, rec) /\ tick'[q] = rec
  BY <1>2, <1>4 DEF Derive, Proceed, Typed
<1>7. DueNow' = DueNow /\ DeadNow' = DeadNow /\ \A i : Claimed(i)' = Claimed(i)
  BY SameWorld DEF Derive, Claimed
<1>8. rec.todo \cap rec.never = {}
  BY <1>1, <1>3, <1>5 DEF Held, DeadNow
<1>9. ASSUME ~rec.deferred, ~rec.failed, NEW i \in rec.always
      PROVE  Claimed(i) \/ i \in rec.todo \/ ToCome(rec, i)
  <2>1. i \in tick[q].always /\ i \in DueNow
    BY <1>1, <1>5 DEF Held
  <2>2. Claimed(i) \/ i \in tick[q].todo \/ ToCome(tick[q], i)
    BY <1>1, <1>5, <1>9 DEF Held
  <2>3. i.kind = tick[q].scan => i \in new
    BY <1>1, <1>2, <2>1, StillDerived
  <2>4. ToCome(tick[q], i) => i \in new \/ ToCome(rec, i)
    BY <1>5, <2>3 DEF ToCome
  <2>5. tick[q].todo = {}
    BY <1>1 DEF Held, Pinned
  <2> QED BY <1>5, <2>2, <2>4, <2>5
<1> QED BY <1>1, <1>5, <1>6, <1>7, <1>8, <1>9 DEF Held, ToCome

(* An item is passed over, deferred, refused, lost or claimed. *)
Rests(q) ==
  \/ Skip(q) \/ Defer(q) \/ DeliverFails(q) \/ DeliverUnconfirmed(q)
  \/ ClaimSent(q) \/ ClaimFails(q)
  \/ ReadFails(q) /\ ~Busy(q, "derive")

LEMMA RestsHeld ==
  ASSUME Typed, NEW q \in Ticks, Held(q), Rests(q)
  PROVE  \E rec \in Running : Proceed(q, rec) /\ Held(q)'
<1>1. tick[q] # Idle /\ ~Busy(q, "derive")
  BY DEF Rests, Skip, Defer, DeliverFails, DeliverUnconfirmed, ClaimSent, ClaimFails,
         ReadFails, Busy, Idle
<1>2. UNCHANGED world /\ claims \subseteq claims' /\ told \subseteq told'
  BY DEF Rests, Skip, Defer, DeliverFails, DeliverUnconfirmed, ClaimSent, ClaimFails,
         ReadFails, Arrives, history
<1>3. CASE Skip(q)
  <2>1. First(tick[q].todo) \in tick[q].always => Key(First(tick[q].todo)) \in claims'
    <3> SUFFICES ASSUME First(tick[q].todo) \in tick[q].always
                 PROVE  Key(First(tick[q].todo)) \in claims'
      OBVIOUS
    <3>1. First(tick[q].todo).place \in on
      BY <1>1, DueTyped DEF Held
    <3>2. Key(First(tick[q].todo)) \in claims
      BY <1>3, <3>1 DEF Skip, Wanted, Claimed
    <3> QED BY <1>2, <3>2
  <2> QED BY <1>1, <1>2, <1>3, <2>1, RestHeld DEF Skip
<1>4. CASE ClaimSent(q)
  <2>1. Key(First(tick[q].todo)) \in claims'
    BY <1>4 DEF ClaimSent
  <2> QED BY <1>1, <1>2, <1>4, <2>1, RestHeld DEF ClaimSent
<1>5. CASE ~Skip(q) /\ ~ClaimSent(q)
  <2>1. PICK rec \in {[Rest(q) EXCEPT !.deferred = TRUE], [Rest(q) EXCEPT !.failed = TRUE]} :
          Proceed(q, rec)
    BY <1>5 DEF Rests, Defer, DeliverFails, DeliverUnconfirmed, ClaimFails, ReadFails
  <2>2. rec # Rest(q) \/ tick[q].deferred \/ tick[q].failed
    <3>1. tick[q] \in Running
      BY <1>1 DEF Typed
    <3>2. PICK left : left = tick[q].todo \ {First(tick[q].todo)}
      OBVIOUS
    <3>3. Rest(q) = [tick[q] EXCEPT !.pc = "scan", !.todo = left]
      BY <3>2 DEF Rest
    <3>4. Rest(q) \in Running
      BY <3>1, <3>2, <3>3 DEF Running
    <3>5. /\ Rest(q).deferred = tick[q].deferred /\ Rest(q).failed = tick[q].failed
          /\ rec.deferred \/ rec.failed
      BY <3>1, <3>3, <3>4 DEF Running
    <3> QED BY <3>5
  <2> QED BY <1>1, <1>2, <2>1, <2>2, RestHeld
<1> QED BY <1>3, <1>4, <1>5

(* A message is taken up or delivered. *)
LEMMA DeliveryHeld ==
  ASSUME Typed, NEW q \in Ticks, Held(q), Take(q) \/ Deliver(q)
  PROVE  \E rec \in Running : Proceed(q, rec) /\ Held(q)'
<1>1. tick[q] # Idle /\ tick[q] \in Running
  BY DEF Take, Deliver, Busy, Idle, Typed
<1>2. PICK b : b = IF tick[q].budget < 0 THEN tick[q].budget ELSE tick[q].budget - 1
  OBVIOUS
<1>3. PICK rec :
        /\ Proceed(q, rec)
        /\ rec \in Running /\ rec.pc \in {"claim", "deliver"} /\ rec.todo = tick[q].todo
        /\ rec.scan = tick[q].scan
        /\ rec.always = tick[q].always /\ rec.never = tick[q].never
        /\ rec.deferred = tick[q].deferred /\ rec.failed = tick[q].failed
        /\ Take(q) => rec.pc = "deliver"
  <2>1. tick[q].budget \in Int
    BY <1>1 DEF Running
  <2>2. b \in Int
    BY <1>2, <2>1
  <2> DEFINE c == [tick[q] EXCEPT !.pc = "claim"]
             d == [tick[q] EXCEPT !.pc = "deliver", !.budget = b]
  <2>3. /\ c \in Running /\ c.pc = "claim" /\ c.todo = tick[q].todo
        /\ c.scan = tick[q].scan /\ c.always = tick[q].always /\ c.never = tick[q].never
        /\ c.deferred = tick[q].deferred /\ c.failed = tick[q].failed
    BY <1>1 DEF Running
  <2>4. /\ d \in Running /\ d.pc = "deliver" /\ d.todo = tick[q].todo
        /\ d.scan = tick[q].scan /\ d.always = tick[q].always /\ d.never = tick[q].never
        /\ d.deferred = tick[q].deferred /\ d.failed = tick[q].failed
    BY <1>1, <2>2 DEF Running
  <2>5. Take(q) => Proceed(q, d)
    BY <1>2 DEF Take
  <2>6. Take(q) \/ Proceed(q, c)
    BY DEF Deliver
  <2> HIDE DEF c, d
  <2> QED BY <2>3, <2>4, <2>5, <2>6
<1>4. tick'[q] = rec
  BY <1>3 DEF Proceed, Typed
<1>5. UNCHANGED world /\ claims' = claims /\ told \subseteq told'
  BY DEF Take, Deliver, Arrives, history
<1>6. DueNow' = DueNow /\ DeadNow' = DeadNow /\ \A i : Claimed(i)' = Claimed(i)
  BY <1>5, SameWorld DEF Claimed
<1>7. rec.todo # {}
  BY <1>1, <1>3 DEF Take, Deliver, Held, Busy
<1>8. rec.pc = "claim" => First(rec.todo) \in told'
  BY <1>3 DEF Deliver, Arrives
<1>9. \A i : ToCome(tick[q], i) => ToCome(rec, i)
  BY <1>1, <1>3 DEF ToCome, Take, Deliver, Busy
<1> QED BY <1>1, <1>2, <1>3, <1>4, <1>6, <1>7, <1>8, <1>9 DEF Held, ToCome

(* All that a tick may do. *)
Mine(q) ==
  Start(q) \/ StartAnother(q) \/ Step(q) \/ ReadFails(q) \/ DeliverUnconfirmed(q)
    \/ ClaimFails(q) \/ Die(q)

LEMMA MineHeld ==
  ASSUME Typed, NEW q \in Ticks, Held(q), Mine(q)
  PROVE  /\ Held(q)'
         /\ \/ \E rec \in Running : Proceed(q, rec)
            \/ (Finish(q) \/ Die(q)) /\ Proceed(q, Idle)
<1>1. CASE Begin(q)
  BY <1>1, BeginHeld
<1>2. CASE BeginScan(q)
  BY <1>2, BeginScanHeld
<1>3. CASE Derive(q)
  BY <1>3, DeriveHeld
<1>4. CASE Rests(q)
  BY <1>4, RestsHeld
<1>5. CASE Take(q) \/ Deliver(q)
  BY <1>5, DeliveryHeld
<1>6. CASE Finish(q) \/ Die(q)
  <2>1. Proceed(q, Idle)
    BY <1>6 DEF Finish, Die
  <2>2. tick'[q] = Idle
    BY <2>1 DEF Proceed, Typed
  <2> QED BY <1>6, <2>1, <2>2 DEF Held
<1>7. CASE ReadFails(q) /\ Busy(q, "derive")
  <2>1. tick[q] # Idle /\ tick[q] \in Running
    BY <1>7 DEF Busy, Idle, Typed
  <2>2. PICK rec : rec = [tick[q] EXCEPT !.pc = "scan", !.day = 0, !.failed = TRUE]
    OBVIOUS
  <2>3. /\ rec \in Running /\ rec.pc = "scan" /\ rec.todo = tick[q].todo
        /\ rec.always = tick[q].always /\ rec.never = tick[q].never /\ rec.failed
    BY <2>1, <2>2 DEF Running
  <2>4. Proceed(q, rec) /\ tick'[q] = rec
    BY <1>7, <2>2 DEF ReadFails, Busy, Proceed, Typed
  <2>5. DueNow' = DueNow /\ DeadNow' = DeadNow
    BY <1>7, SameWorld DEF ReadFails
  <2> QED BY <2>1, <2>3, <2>4, <2>5 DEF Held
<1> QED BY <1>1, <1>2, <1>3, <1>4, <1>5, <1>6, <1>7
        DEF Mine, Step, Start, StartAnother, Rests

(* The books only grow, and only mishaps count. *)
LEMMA MineGrows ==
  ASSUME Typed, NEW q \in Ticks, Mine(q)
  PROVE  /\ UNCHANGED world /\ claims \subseteq claims' /\ told \subseteq told'
         /\ again' \in BOOLEAN
         /\ mishaps' = mishaps \/ mishaps' = mishaps + 1
<1>1. UNCHANGED world /\ claims \subseteq claims' /\ told \subseteq told'
  BY DEF Mine, Start, StartAnother, Begin, Step, BeginScan, Derive, Skip, Defer, Take,
         Deliver, DeliverFails, ClaimSent, Finish, ReadFails, DeliverUnconfirmed, ClaimFails,
         Die, Arrives, history
<1>2. again' = again \/ \E i : again' = (again \/ i \in told)
  BY DEF Mine, Start, StartAnother, Begin, Step, BeginScan, Derive, Skip, Defer, Take,
         Deliver, DeliverFails, ClaimSent, Finish, ReadFails, DeliverUnconfirmed, ClaimFails,
         Die, Arrives, history
<1>3. mishaps' = mishaps \/ mishaps' = mishaps + 1
  BY DEF Mine, Start, StartAnother, Begin, Step, BeginScan, Derive, Skip, Defer, Take,
         Deliver, DeliverFails, ClaimSent, Finish, ReadFails, DeliverUnconfirmed, ClaimFails,
         Die, Mishap, history
<1> QED BY <1>1, <1>2, <1>3 DEF Typed

LEMMA MineTyped ==
  ASSUME Typed, NEW q \in Ticks, Held(q), Mine(q)
  PROVE  Typed' /\ \A r \in Ticks \ {q} : tick'[r] = tick[r]
<1>1. PICK rec \in Running \cup {Idle} : Proceed(q, rec)
  BY MineHeld
<1>2. tick' \in [Ticks -> Running \cup {Idle}] /\ \A r \in Ticks \ {q} : tick'[r] = tick[r]
  BY <1>1 DEF Proceed, Typed
<1>3. UNCHANGED <<today, owed, payments, archived>> /\ again' \in BOOLEAN /\ mishaps' \in Nat
  BY MineGrows DEF world, Typed
<1> QED BY <1>2, <1>3 DEF Typed

-----------------------------------------------------------------------------
(* A claim is made for what was told. *)
LEMMA MineClaims ==
  ASSUME Typed, ClaimedWasTold, NEW q \in Ticks, Held(q), Mine(q)
  PROVE  ClaimedWasTold'
<1>1. told \subseteq told'
  BY MineGrows
<1>2. CASE ClaimSent(q)
  <2>1. First(tick[q].todo) \in told
    BY <1>2 DEF ClaimSent, Busy, Idle, Held
  <2>2. claims' = claims \cup {Key(First(tick[q].todo))}
    BY <1>2 DEF ClaimSent
  <2> QED BY <1>1, <2>1, <2>2 DEF ClaimedWasTold
<1>3. CASE claims' = claims
  BY <1>1, <1>3 DEF ClaimedWasTold
<1> QED BY <1>2, <1>3
        DEF Mine, Start, StartAnother, Begin, Step, BeginScan, Derive, Skip, Defer, Take,
            Deliver, DeliverFails, Finish, ReadFails, DeliverUnconfirmed, ClaimFails, Die

(* Without mishaps, what one tick leaves behind. *)
LEMMA SingleKept ==
  ASSUME Typed, Single, NEW q \in Ticks, mishaps = 0,
         tick[q] # Idle \/ Alone(q), NEW rec \in Running \cup {Idle}, Proceed(q, rec),
         ~again',
         \A i \in told' : \/ Key(i) \in claims'
                          \/ rec.pc = "claim" /\ First(rec.todo) = i,
         rec.pc = "deliver" => Key(First(rec.todo)) \notin claims'
  PROVE  Single'
<1>1. tick'[q] = rec /\ \A r \in Ticks \ {q} : tick'[r] = Idle
  BY DEF Single, Alone, Proceed, Typed
<1>2. \A i : Claimed(i)' = (Key(i) \in claims')
  BY DEF Claimed
<1>3. \A p, r \in Ticks : tick'[p] # Idle /\ tick'[r] # Idle => p = r
  BY <1>1
<1>4. \A i \in told' : \/ Key(i) \in claims'
                       \/ \E p \in Ticks : Busy(p, "claim")' /\ First(tick'[p].todo) = i
  BY <1>1 DEF Busy
<1>5. \A p \in Ticks : Busy(p, "deliver")' => Key(First(tick'[p].todo)) \notin claims'
  BY <1>1 DEF Busy, Idle
<1> QED BY <1>2, <1>3, <1>4, <1>5 DEF Single, Claimed

LEMMA MineSingle ==
  ASSUME Typed, Single, NEW q \in Ticks, Held(q), Mine(q)
  PROVE  Single'
<1> SUFFICES ASSUME mishaps' = 0 PROVE Single'
  BY DEF Single
<1>1. mishaps = 0
  BY MineGrows DEF Typed
<1>2. /\ ~again
      /\ \A r \in Ticks : tick[q] # Idle /\ tick[r] # Idle => q = r
      /\ \A i \in told : \/ Claimed(i)
                         \/ \E r \in Ticks : Busy(r, "claim") /\ First(tick[r].todo) = i
      /\ Busy(q, "deliver") => ~Claimed(First(tick[q].todo))
  BY <1>1 DEF Single
<1>3. ~Mishap
  BY <1>1 DEF Mishap
<1>4. /\ \A r \in Ticks : Busy(r, "claim") => tick[r] # Idle
      /\ Idle.pc = "idle"
  BY DEF Busy, Idle
<1>5. CASE Start(q)
  <2>1. PICK rec \in Running : Proceed(q, rec) /\ rec.pc \in {"scan", "derive"}
    <3>1. NewTick \in Running
      BY DueTyped, DeadTyped, DaysAssumption DEF NewTick, Running, NewBudget, Scans, Typed
    <3>2. Listed(NewTick, "reminder") \in Running
          /\ Listed(NewTick, "reminder").pc \in {"scan", "derive"}
      <4>1. PICK base : base = NewTick
        OBVIOUS
      <4>2. today \in Nat
        BY DEF Typed
      <4>3. Listed(base, "reminder") \in Running
            /\ Listed(base, "reminder").pc \in {"scan", "derive"}
        BY <3>1, <4>1, <4>2 DEF Listed, Running, Scans
      <4> QED BY <4>1, <4>3
    <3> QED BY <1>5, <3>2 DEF Start, Begin
  <2>2. Alone(q) /\ tick[q] = Idle /\ UNCHANGED <<claims, told, again>>
    BY <1>5 DEF Start, Begin
  <2>3. \A i \in told' : Key(i) \in claims'
    BY <1>2, <1>4, <2>2 DEF Alone, Claimed
  <2> QED BY <1>1, <1>2, <2>1, <2>2, <2>3, SingleKept DEF Running
<1>6. ASSUME tick[q] # Idle,
             NEW rec \in Running \cup {Idle}, Proceed(q, rec),
             rec.pc \notin {"deliver", "claim"}, UNCHANGED <<told, again>>,
             claims \subseteq claims',
             Busy(q, "claim") => Key(First(tick[q].todo)) \in claims'
      PROVE  Single'
  <2>1. \A i \in told' : Key(i) \in claims'
    BY <1>2, <1>4, <1>6 DEF Claimed
  <2> QED BY <1>1, <1>2, <1>6, <2>1, SingleKept
<1>7. ASSUME tick[q] # Idle, tick[q] \in Running
      PROVE  Rest(q).pc = "scan" /\ [Rest(q) EXCEPT !.failed = TRUE].pc = "scan"
             /\ [Rest(q) EXCEPT !.deferred = TRUE].pc = "scan"
  <2>1. PICK left : left = tick[q].todo \ {First(tick[q].todo)}
    OBVIOUS
  <2>2. PICK t, x : t = tick[q] /\ x = Rest(q)
    OBVIOUS
  <2>3. x = [t EXCEPT !.pc = "scan", !.todo = left]
    BY <2>1, <2>2 DEF Rest
  <2>4. x \in Running /\ x.pc = "scan"
    <3>1. t \in Running
      BY <1>7, <2>2
    <3>2. left \in SUBSET Items
      BY <2>1, <2>2, <3>1 DEF Running
    <3> QED BY <2>3, <3>1, <3>2 DEF Running
  <2>5. [x EXCEPT !.failed = TRUE].pc = "scan"
    BY <2>4 DEF Running
  <2>6. [x EXCEPT !.deferred = TRUE].pc = "scan"
    BY <2>4 DEF Running
  <2> QED BY <2>2, <2>4, <2>5, <2>6
<1>8. ASSUME Step(q) PROVE tick[q] # Idle /\ tick[q] \in Running
  BY <1>4, <1>8 DEF Step, BeginScan, Derive, Skip, Defer, Take, Deliver, DeliverFails,
                    ClaimSent, Finish, Busy, Typed
<1>9. PICK rec \in Running \cup {Idle} : Proceed(q, rec)
  BY MineHeld
<1>10. tick'[q] = rec
  BY <1>9 DEF Proceed, Typed
<1>11. CASE BeginScan(q) \/ Derive(q)
  <2>1. rec.pc \in {"scan", "derive"}
    <3>1. tick[q] \in Running
      BY <1>8, <1>11 DEF Step
    <3>2. CASE Derive(q)
      <4>1. PICK new : new = Derived(tick[q].scan, tick[q].day)
        OBVIOUS
      <4>2. tick'[q] = [tick[q] EXCEPT !.pc = "scan", !.day = 0, !.todo = new]
        BY <3>2, <4>1 DEF Derive, Proceed, Typed
      <4> QED BY <1>10, <3>1, <4>2 DEF Running
    <3>3. CASE BeginScan(q)
      <4>1. PICK base, scan : base = tick[q] /\ scan = NextScan(tick[q].scan)
        OBVIOUS
      <4>2. tick'[q] = Listed(base, scan)
        BY <3>3, <4>1 DEF BeginScan, Proceed, Typed
      <4> QED BY <1>10, <3>1, <4>1, <4>2 DEF Listed, Running
    <3> QED BY <1>11, <3>2, <3>3
  <2>2. UNCHANGED <<claims, told, again>> /\ ~Busy(q, "claim")
    BY <1>11 DEF BeginScan, Derive, Busy, history
  <2> QED BY <1>6, <1>8, <1>9, <1>11, <2>1, <2>2 DEF Step
<1>12. CASE Skip(q) \/ Defer(q) \/ DeliverFails(q) \/ ClaimSent(q)
  <2>1. rec.pc = "scan"
    <3>1. \/ Proceed(q, Rest(q)) \/ Proceed(q, [Rest(q) EXCEPT !.failed = TRUE])
          \/ Proceed(q, [Rest(q) EXCEPT !.deferred = TRUE])
      BY <1>12 DEF Skip, Defer, DeliverFails, ClaimSent
    <3>2. tick'[q] \in {Rest(q), [Rest(q) EXCEPT !.failed = TRUE],
                        [Rest(q) EXCEPT !.deferred = TRUE]}
      BY <3>1, Zenon DEF Proceed, Typed
    <3> QED BY <1>7, <1>8, <1>10, <1>12, <3>2 DEF Step
  <2>2. /\ UNCHANGED <<told, again>> /\ claims \subseteq claims'
        /\ Busy(q, "claim") => Key(First(tick[q].todo)) \in claims'
    BY <1>12 DEF Skip, Defer, DeliverFails, ClaimSent, Busy, history
  <2> QED BY <1>6, <1>8, <1>9, <1>12, <2>1, <2>2 DEF Step
<1>13. CASE Finish(q)
  <2>1. tick'[q] = Idle /\ UNCHANGED <<claims, told, again>> /\ ~Busy(q, "claim")
    BY <1>13 DEF Finish, Proceed, Typed, Busy, history
  <2> QED BY <1>4, <1>6, <1>8, <1>9, <1>10, <1>13, <2>1 DEF Step
<1>14. CASE Take(q)
  <2>1. PICK b : b = IF tick[q].budget < 0 THEN tick[q].budget ELSE tick[q].budget - 1
    OBVIOUS
  <2>2. tick'[q] = [tick[q] EXCEPT !.pc = "deliver", !.budget = b]
    BY <1>14, <2>1 DEF Take, Proceed, Typed
  <2>3. rec.pc = "deliver" /\ rec.todo = tick[q].todo
    BY <1>8, <1>10, <1>14, <2>2 DEF Step, Running
  <2>4. UNCHANGED <<claims, told, again>> /\ Key(First(tick[q].todo)) \notin claims'
    BY <1>14 DEF Take, Wanted, Claimed, history
  <2>5. \A i \in told' : Key(i) \in claims'
    BY <1>2, <1>4, <1>8, <1>14, <2>4 DEF Take, Step, Claimed, Busy
  <2> QED BY <1>1, <1>2, <1>8, <1>9, <1>14, <2>3, <2>4, <2>5, SingleKept DEF Step
<1>15. CASE Deliver(q)
  <2>1. tick'[q] = [tick[q] EXCEPT !.pc = "claim"]
    BY <1>15 DEF Deliver, Proceed, Typed
  <2>2. rec.pc = "claim" /\ rec.todo = tick[q].todo
    BY <1>8, <1>10, <1>15, <2>1 DEF Step, Running
  <2>3. \A i \in told : Claimed(i)
    BY <1>2, <1>4, <1>8, <1>15 DEF Deliver, Step, Busy
  <2>4. First(tick[q].todo) \notin told
    BY <1>2, <1>15, <2>3 DEF Deliver
  <2>5. ~again' /\ claims' = claims /\ told' = told \cup {First(tick[q].todo)}
    BY <1>2, <1>15, <2>4 DEF Deliver, Arrives, Typed
  <2>6. \A i \in told' : Key(i) \in claims' \/ First(rec.todo) = i
    BY <2>2, <2>3, <2>5 DEF Claimed
  <2> QED BY <1>1, <1>8, <1>9, <1>15, <2>2, <2>5, <2>6, SingleKept DEF Step
<1> QED BY <1>3, <1>5, <1>11, <1>12, <1>13, <1>14, <1>15
        DEF Mine, Step, StartAnother, ReadFails, DeliverUnconfirmed, ClaimFails, Die

-----------------------------------------------------------------------------
LEMMA NotifyStart == Init => NotifyInv
<1> SUFFICES ASSUME Init PROVE NotifyInv
  OBVIOUS
<1>1. \A q \in Ticks : tick[q] = Idle /\ tick[q].pc = "idle"
  BY DEF Init, Idle
<1>2. Typed
  BY FS_EmptySet DEF Init, Typed
<1> QED BY <1>1, <1>2 DEF Init, NotifyInv, Held, ClaimedWasTold, Single, Busy

LEMMA OutsideInv ==
  ASSUME NotifyInv, Outside
  PROVE  NotifyInv'
<1>1. Typed /\ ClaimedWasTold /\ Single /\ \A q \in Ticks : Held(q)
  BY DEF NotifyInv
<1>2. UNCHANGED <<claims, told, again, mishaps>> /\ Observe
  BY DEF Outside, NextDay, Pay, UndoPayment, Charge, SetPrefs, SetArchived, history
<1>3. \A q \in Ticks :
        /\ tick[q] = Idle => tick'[q] = Idle
        /\ tick[q] # Idle => /\ tick[q] \in Running
                             /\ tick'[q].pc = tick[q].pc /\ tick'[q].todo = tick[q].todo
  BY <1>1, <1>2 DEF Observe, Typed, Running
<1>4. \A q \in Ticks : tick[q] = Idle => ~Busy(q, "claim") /\ ~Busy(q, "deliver")
                                         /\ ~Busy(q, "claim")' /\ ~Busy(q, "deliver")'
  BY <1>3 DEF Busy, Idle
<1>5. \A q \in Ticks : /\ Busy(q, "claim")' = Busy(q, "claim")
                       /\ Busy(q, "deliver")' = Busy(q, "deliver")
  BY <1>3, <1>4 DEF Busy
<1>6. \A i : Claimed(i)' = Claimed(i)
  BY <1>2 DEF Claimed
<1>7. Single'
  <2> SUFFICES ASSUME mishaps = 0
      PROVE /\ ~again
            /\ \A q, r \in Ticks : tick'[q] # Idle /\ tick'[r] # Idle => q = r
            /\ \A i \in told : \/ Claimed(i)
                               \/ \E q \in Ticks : /\ Busy(q, "claim")'
                                                   /\ First(tick'[q].todo) = i
            /\ \A q \in Ticks : Busy(q, "deliver")' => Key(First(tick'[q].todo)) \notin claims
    BY <1>2, <1>6 DEF Single, Claimed
  <2>1. \A q, r \in Ticks : tick'[q] # Idle /\ tick'[r] # Idle => q = r
    BY <1>1, <1>3 DEF Single
  <2>2. \A i \in told : \/ Claimed(i)
                        \/ \E q \in Ticks : Busy(q, "claim")' /\ First(tick'[q].todo) = i
    BY <1>1, <1>3, <1>4, <1>5 DEF Single
  <2>3. \A q \in Ticks : Busy(q, "deliver")' => Key(First(tick'[q].todo)) \notin claims
    BY <1>1, <1>3, <1>4, <1>5 DEF Single, Claimed
  <2> QED BY <1>1, <2>1, <2>2, <2>3 DEF Single
<1>8. Typed' /\ \A q \in Ticks : Held(q)'
  BY <1>1, OutsideTyped, OutsideHeld
<1>9. ClaimedWasTold'
  BY <1>1, <1>2 DEF ClaimedWasTold
<1> QED BY <1>7, <1>8, <1>9 DEF NotifyInv

LEMMA MineInv ==
  ASSUME NotifyInv, NEW q \in Ticks, Mine(q)
  PROVE  NotifyInv'
<1>1. Typed /\ ClaimedWasTold /\ Single /\ \A r \in Ticks : Held(r)
  BY DEF NotifyInv
<1>2. Typed' /\ \A r \in Ticks \ {q} : tick'[r] = tick[r]
  BY <1>1, MineTyped
<1>3. \A r \in Ticks : Held(r)'
  <2> TAKE r \in Ticks
  <2>1. CASE r = q
    BY <1>1, <2>1, MineHeld
  <2>2. CASE r # q
    BY <1>1, <1>2, <2>2, MineGrows, OthersHeld
  <2> QED BY <2>1, <2>2
<1>4. ClaimedWasTold' /\ Single'
  BY <1>1, MineClaims, MineSingle
<1> QED BY <1>2, <1>3, <1>4 DEF NotifyInv

LEMMA NotifyStep == NotifyInv /\ [Next]_vars => NotifyInv'
<1> SUFFICES ASSUME NotifyInv, [Next]_vars PROVE NotifyInv'
  OBVIOUS
<1>1. CASE UNCHANGED vars
  <2>1. UNCHANGED <<today, owed, payments, on, archived, claims, tick, told, again, mishaps>>
    BY <1>1 DEF vars, world, history
  <2>2. Typed' /\ ClaimedWasTold'
    BY <2>1 DEF NotifyInv, Typed, ClaimedWasTold
  <2>3. \A q \in Ticks : Held(q)'
    <3>1. UNCHANGED world
      BY <1>1 DEF vars
    <3> QED BY <2>1, <3>1, OthersHeld DEF NotifyInv
  <2>4. Single'
    BY <2>1 DEF NotifyInv, Single, Busy, Claimed
  <2> QED BY <2>2, <2>3, <2>4 DEF NotifyInv
<1>2. CASE Outside
  BY <1>2, OutsideInv
<1>3. CASE \E q \in Ticks : Mine(q)
  BY <1>3, MineInv
<1> QED BY <1>1, <1>2, <1>3 DEF Next, Outside, Mine

LEMMA NotifyAlways == Spec => []NotifyInv
  BY NotifyStart, NotifyStep, PTL DEF Spec

(* What a tick is about to tell has not been dead ever since it began: what it
   derives is live when it derives it, and it derives after it began. *)
THEOREM NothingDeadIsTold == Spec => []RetractedIsNotTold
<1>1. NotifyInv => RetractedIsNotTold
  <2> SUFFICES ASSUME NotifyInv, NEW q \in Ticks, Busy(q, "deliver")
               PROVE  First(tick[q].todo) \notin tick[q].never
    BY DEF RetractedIsNotTold
  <2>1. tick[q] # Idle /\ tick[q] \in Running
    BY DEF Busy, Idle, NotifyInv, Typed
  <2>2. tick[q].todo # {} /\ tick[q].todo \in SUBSET Items
    BY <2>1 DEF NotifyInv, Held, Busy, Running
  <2>3. First(tick[q].todo) \in tick[q].todo
    BY <2>2, FirstIsOne
  <2> QED BY <2>1, <2>3 DEF NotifyInv, Held
<1> QED BY <1>1, NotifyAlways, PTL

(* A notice that is delivered before it is claimed is repeated only after a
   crash, a lost answer, a failed claim or a second tick (handlers_tick.go). *)
THEOREM ToldTwiceNeedsAMishap == Spec => []ToldOnce
<1>1. NotifyInv => ToldOnce
  BY DEF NotifyInv, Single, ToldOnce, Typed
<1> QED BY <1>1, NotifyAlways, PTL

(* And none is lost for it: a claim is always of something told. *)
THEOREM ToldBeforeClaimed == Spec => []ClaimedWasTold
<1>1. NotifyInv => ClaimedWasTold
  BY DEF NotifyInv, Typed
<1> QED BY <1>1, NotifyAlways, PTL

(* Only the end of a tick, or of its process, takes it off the stage. *)
LEMMA OnlyFinishEnds ==
  ASSUME NotifyInv, Next, NEW q \in Ticks, tick[q] # Idle, tick'[q] = Idle, mishaps' = mishaps
  PROVE  Finish(q)
<1>1. Typed /\ \A r \in Ticks : Held(r)
  BY DEF NotifyInv
<1>2. ~Outside
  <2> SUFFICES ASSUME Outside PROVE FALSE
    OBVIOUS
  <2>1. Observe
    BY DEF Outside, NextDay, Pay, UndoPayment, Charge, SetPrefs, SetArchived
  <2>2. tick[q] \in Running
    BY <1>1 DEF Typed
  <2>3. tick'[q] = [tick[q] EXCEPT !.always = @ \cap DueNow', !.never = @ \cap DeadNow']
    BY <2>1 DEF Observe
  <2>4. tick'[q].pc = tick[q].pc
    BY <2>2, <2>3 DEF Running
  <2> QED BY <2>2, <2>4 DEF Running, Idle
<1>3. PICK r \in Ticks : Mine(r)
  BY <1>2 DEF Next, Outside, Mine
<1>4. r = q
  BY <1>1, <1>3, MineTyped
<1>5. ~\E rec \in Running : Proceed(q, rec)
  BY <1>1 DEF Proceed, Typed, Running, Idle
<1>6. ~Die(q)
  BY <1>1 DEF Die, Mishap, Typed
<1> QED BY <1>1, <1>3, <1>4, <1>5, <1>6, MineHeld

(* A tick that reports nothing deferred and met no failure has left nothing of
   what was due all along: it derived it in its scan, on the day the item was
   due, and claimed it or found it claimed. *)
THEOREM QuietTicksAreDone == Spec => QuietMeansDone
<1>1. ASSUME NotifyInv, Next, NEW q \in Ticks, tick[q] # Idle, tick'[q] = Idle,
             mishaps' = mishaps, ~tick[q].deferred, ~tick[q].failed
      PROVE  \A i \in tick[q].always : Claimed(i)
  <2>1. Finish(q)
    BY <1>1, OnlyFinishEnds
  <2>2. tick[q].todo = {} /\ tick[q].pc = "scan" /\ tick[q].scan = "overdue"
    BY <2>1 DEF Finish, Busy
  <2>3. \A i : ~ToCome(tick[q], i)
    BY <2>2 DEF ToCome, Ahead
  <2> QED BY <1>1, <2>2, <2>3 DEF NotifyInv, Held
<1>2. NotifyInv /\ [Next]_vars =>
        [\A q \in Ticks :
           /\ tick[q] # Idle /\ tick'[q] = Idle /\ mishaps' = mishaps
           /\ ~tick[q].deferred /\ ~tick[q].failed
           => \A i \in tick[q].always : Claimed(i)]_vars
  BY <1>1
<1> QED BY <1>2, NotifyAlways, PTL DEF Spec, QuietMeansDone
=============================================================================
