------------------------------ MODULE Accrual ------------------------------
(***************************************************************************)
(* Billing a Services tab by reading it. There is no scheduler: accrueTab  *)
(* and Service.Accrue run in every request that shows the tab, compute the *)
(* cycles due from the schedule, and post the ones nobody has claimed.     *)
(* Readers interleave with each other, with edits of the items, with       *)
(* changes of the schedule, with archiving, and with midnight.             *)
(*                                                                         *)
(* Posting one cycle is a single step here; EntryStore shows that the      *)
(* transactions behind it implement one.                                   *)
(***************************************************************************)
EXTENDS TabItems

CONSTANTS
  Readers,     \* requests that show the tab
  Schedules,   \* the schedules the provider sets: anchor, step, billing
  NoSchedule,  \* the tab is billed by hand
  MaxPeriods   \* how many cycles DueThrough will return

ASSUME SchedulesAssumption ==
  /\ Schedules \subseteq
       [anchor : Nat, step : Nat \ {0}, billing : {"advance", "arrears"}]
  /\ NoSchedule \notin Schedules
  /\ MaxPeriods \in Nat

VARIABLES
  sched,     \* the tab's schedule
  archived,  \* the tab is archived
  posted,    \* posted_periods, each with the items its charge bills
  reader     \* what each request is doing

vars == <<day, items, edit, sched, archived, posted, reader>>

-----------------------------------------------------------------------------
(* Cycle n counts from the anchor, and ends on the day the next one starts. *)
Start(s, n) == s.anchor + n * s.step

DueOn(s, n) == IF s.billing = "arrears" THEN Start(s, n + 1) ELSE Start(s, n)

(* Mutant of Key: the date a cycle falls due identifies it. *)
KeyDueDate(s, n) == DueOn(s, n)

(* The first day of a cycle identifies it, whatever the billing rule. *)
Key(s, n) == Start(s, n)

(* The cycles that have come due, counted from the anchor every time. *)
DueThrough(s, d) == {n \in 0 .. MaxPeriods - 1 : DueOn(s, n) <= d}

(* Mutant of BilledAsOf: a cycle older than the tab is not clamped. *)
BilledAsOfUnclamped(d) == Midnight(d)

(* A cycle due before the tab existed bills the items it was created with. *)
BilledAsOf(d) == IF Midnight(d) < CreatedAt THEN CreatedAt ELSE Midnight(d)

Claimed == {c.key : c \in posted}

Resting == [pc |-> "resting"]

Init ==
  /\ InitItems
  /\ sched \in Schedules \cup {NoSchedule}
  /\ archived = FALSE
  /\ posted = {}
  /\ reader = [r \in Readers |-> Resting]

(* A request loads the tab. Without a schedule, or archived, it has nothing
   to post. *)
ReadTab(r) ==
  /\ Free
  /\ reader[r] = Resting
  /\ sched # NoSchedule
  /\ ~archived
  /\ reader' = [reader EXCEPT ![r] = [pc |-> "history", s |-> sched]]
  /\ UNCHANGED <<day, items, edit, sched, archived, posted>>

ReadHistory(r) ==
  /\ Free
  /\ reader[r].pc = "history"
  /\ reader' = [reader EXCEPT ![r] =
                  [pc |-> "claims", s |-> reader[r].s, history |-> items]]
  /\ UNCHANGED <<day, items, edit, sched, archived, posted>>

(* The clock is read, then the claims; only the claims are shared, so the two
   are one step. *)
ReadClaims(r) ==
  /\ Free
  /\ reader[r].pc = "claims"
  /\ reader' = [reader EXCEPT ![r] =
       [pc |-> "post", s |-> reader[r].s, history |-> reader[r].history, asOf |-> day,
        todo |-> {n \in DueThrough(reader[r].s, day) : Key(reader[r].s, n) \notin Claimed}]]
  /\ UNCHANGED <<day, items, edit, sched, archived, posted>>

Charge(r, n) ==
  LET s == reader[r].s IN
  [key |-> Key(s, n), first |-> Start(s, n), end |-> Start(s, n + 1), due |-> DueOn(s, n),
   bills |-> ItemsAsOf(reader[r].history, BilledAsOf(DueOn(s, n)))]

Rest(r, n) == reader[r].todo \ {n}

(* Mutant of PostPeriod: a cycle is claimed only if it charges something. *)
PostPeriodNonzero(r) ==
  /\ Free
  /\ reader[r].pc = "post"
  /\ \E n \in reader[r].todo :
       /\ \A m \in reader[r].todo : n <= m
       /\ posted' = posted \cup (IF Key(reader[r].s, n) \in Claimed
                                      \/ Charge(r, n).bills = {} THEN {} ELSE {Charge(r, n)})
       /\ reader' = [reader EXCEPT ![r] =
            [pc |-> "post", s |-> reader[r].s, history |-> reader[r].history,
             asOf |-> reader[r].asOf, todo |-> Rest(r, n)]]
  /\ UNCHANGED <<day, items, edit, sched, archived>>

(* The oldest cycle is posted, or was claimed by another reader since. *)
PostPeriod(r) ==
  /\ Free
  /\ reader[r].pc = "post"
  /\ \E n \in reader[r].todo :
       /\ \A m \in reader[r].todo : n <= m
       /\ posted' = posted \cup (IF Key(reader[r].s, n) \in Claimed THEN {} ELSE {Charge(r, n)})
       /\ reader' = [reader EXCEPT ![r] =
            [pc |-> "post", s |-> reader[r].s, history |-> reader[r].history,
             asOf |-> reader[r].asOf, todo |-> Rest(r, n)]]
  /\ UNCHANGED <<day, items, edit, sched, archived>>

Finish(r) ==
  /\ reader[r].pc = "post"
  /\ reader[r].todo = {}
  /\ reader' = [reader EXCEPT ![r] = Resting]
  /\ UNCHANGED <<day, items, edit, sched, archived, posted>>

(* A read or a posting fails, or the process dies: what is posted stays, and
   the rest waits for the next read. *)
Fail(r) ==
  /\ reader[r].pc \in {"history", "claims", "post"}
  /\ reader' = [reader EXCEPT ![r] = Resting]
  /\ UNCHANGED <<day, items, edit, sched, archived, posted>>

(* The provider sets or clears the schedule; posted_periods is not touched. *)
SetSchedule ==
  /\ Free
  /\ \E s \in Schedules \cup {NoSchedule} : s # sched /\ sched' = s
  /\ UNCHANGED <<day, items, edit, archived, posted, reader>>

(* The provider archives the tab, or brings it back. *)
SetTabArchived ==
  /\ Free
  /\ archived' = ~archived
  /\ UNCHANGED <<day, items, edit, sched, posted, reader>>

(* Midnight passes. Without Straddle it does not fall between the reading of
   the items and the reading of the clock. *)
Midnights ==
  /\ Straddle \/ \A r \in Readers : reader[r].pc # "claims"
  /\ NextDay
  /\ UNCHANGED <<sched, archived, posted, reader>>

Read(r) ==
  \/ ReadTab(r) \/ ReadHistory(r) \/ ReadClaims(r) \/ PostPeriod(r)
  \/ Finish(r) \/ Fail(r)

Next ==
  \/ \E r \in Readers : Read(r)
  \/ EditItems /\ UNCHANGED <<sched, archived, posted, reader>>
  \/ SetSchedule
  \/ SetTabArchived
  \/ Midnights

Spec == Init /\ [][Next]_vars

-----------------------------------------------------------------------------
(* A charge bills the items the tab carried when its cycle came due, however
   late it was posted and whatever was edited since; one due before the tab
   existed bills the items it was created with (CHG-02). *)
CarriedWhenDue(it, due) ==
  IF due <= Created THEN it.from = CreatedAt
  ELSE it.from <= Midnight(due) /\ it.until > Midnight(due)

BilledAsOfDue ==
  \A c \in posted : c.bills = {it.id : it \in {x \in items : CarriedWhenDue(x, c.due)}}

(* No day is covered by two charges, however many readers race and however
   the schedule is changed between them. *)
NoDayBilledTwice ==
  \A c, d \in posted : c # d => c.end <= d.first \/ d.end <= c.first

(* A read that completes has brought the tab up to date: every cycle that had
   come due by the clock it read is posted, whoever posted it, zero charges
   included. *)
CaughtUp ==
  [][\A r \in Readers : Finish(r) =>
       \A n \in 0 .. MaxDay : DueOn(reader[r].s, n) <= reader[r].asOf
                        => Key(reader[r].s, n) \in Claimed]_vars
=============================================================================
