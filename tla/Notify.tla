------------------------------- MODULE Notify -------------------------------
(***************************************************************************)
(* Notices by e-mail and ntfy. A cron posts to the tick endpoint; a tick   *)
(* scans the tab three times: for reminders of the next due date, for      *)
(* payments to announce, and for notices of the last date missed. What it  *)
(* has told a person over a channel it claims in sent_notifications, after *)
(* the delivery and apart from it, so that a failure or a crash in between *)
(* repeats a notice and never loses one. A ceiling bounds the deliveries   *)
(* of one tick over the three scans.                                       *)
(*                                                                         *)
(* Nothing keeps two ticks from running at once, or the ledger, the        *)
(* settings and the calendar from moving while they do: every call of the  *)
(* store or of a mail server is a step. One tab is modelled: more of them  *)
(* lengthen each scan, in the order of their numbers.                      *)
(***************************************************************************)
EXTENDS Integers, FiniteSets

CONSTANTS
  Ticks,       \* requests of the cron that may run at once, numbered
  Places,      \* where participants read: pairs of a user and a channel
  RoleOf,      \* the role of each user on the tab
  Reachable,   \* the places whose server takes a message in the end
  Dues,        \* the due dates of the schedule, days as numbers
  Leads,       \* the rules: days before a due date, negative when after it
  Lookback,    \* days a payment is announced for, 0 for ever
  MaxPerTick,  \* the ceiling, 0 for none
  LastDay,     \* bound on the calendar
  MaxPayments, \* bound on the payments posted
  MaxChanges,  \* bound on what else people change
  MaxMishaps   \* bound on crashes, lost answers, failed claims and ticks at once

ASSUME PlacesAssumption ==
  /\ Places \subseteq Nat \X Nat
  /\ Reachable \subseteq Places
  /\ \A p \in Places : RoleOf[p[1]] \in {"payee", "provider", "admin"}

ASSUME DaysAssumption ==
  /\ Dues \subseteq Nat /\ Leads \subseteq Int
  /\ Lookback \in Nat /\ LastDay \in Nat /\ MaxPerTick \in Nat

ASSUME BoundsAssumption ==
  Ticks \subseteq Nat /\ MaxPayments \in Nat /\ MaxChanges \in Nat /\ MaxMishaps \in Nat

VARIABLES
  today,     \* the day in the instance's time zone
  owed,      \* the balance is below zero
  payments,  \* the payments of the tab, and whether each was undone
  on,        \* places of active users who have the channel switched on
  archived,  \* the tab is archived
  changes,   \* how often people have changed something
  claims,    \* rows of sent_notifications
  tick,      \* what each running tick has read and has left to do
  told,      \* history: items delivered
  again,     \* history: an item was delivered more than once
  mishaps    \* history: crashes, lost answers, failed claims, ticks at once

world == <<today, owed, payments, on, archived, changes>>
history == <<told, again, mishaps>>
vars == <<world, claims, tick, history>>

-----------------------------------------------------------------------------
(* An item is an event to tell at a place. *)
Item(kind, of, lead, p) == [kind |-> kind, of |-> of, lead |-> lead, place |-> p]

(* The next due date, today included, on the days a rule names before it. *)
Reminders(day) ==
  {Item("reminder", d, d - day, p) :
     d \in {x \in Dues : x >= day /\ x - day \in Leads /\ \A y \in Dues : y >= day => x <= y},
     p \in {x \in Places : RoleOf[x[1]] = "payee"}}

(* The last due date before today, on the days a rule names after it. *)
Overdue(day) ==
  {Item("overdue", d, day - d, p) :
     d \in {x \in Dues : x < day /\ x - day \in Leads /\ \A y \in Dues : y < day => y <= x},
     p \in {x \in Places : RoleOf[x[1]] \in {"payee", "provider"}}}

Standing == {e \in payments : ~e.undone}

(* A payment has not grown too old to be news; with no look-back none does. *)
Recent(e, day) == Lookback = 0 \/ e.day > day - Lookback

(* Mutant of Announceable: a payment that was undone is announced. *)
AnnounceableUndone(day) ==
  {Item("payment", e.seq, 0, p) : e \in {x \in payments : Recent(x, day)}, p \in Places}

Announceable(day) ==
  {Item("payment", e.seq, 0, p) : e \in {x \in Standing : Recent(x, day)}, p \in Places}

(* Mutant of Key: the recipient is left out. *)
KeyOfTab(i) == [kind |-> i.kind, of |-> i.of, lead |-> i.lead, user |-> 0, channel |-> i.place[2]]

(* The primary key of a claim: the event names its recipient. *)
Key(i) ==
  [kind |-> i.kind, of |-> i.of, lead |-> i.lead, user |-> i.place[1], channel |-> i.place[2]]

Claimed(i) == Key(i) \in claims

(* What a scan finds to tell, given the day it has read. *)
Derived(scan, day) ==
  CASE scan = "reminder" -> IF owed THEN Reminders(day) ELSE {}
    [] scan = "payment"  -> Announceable(day)
    [] scan = "overdue"  -> IF owed THEN Overdue(day) ELSE {}

Scans == {"reminder", "payment", "overdue"}

NextScan(scan) ==
  CASE scan = "reminder" -> "payment"
    [] scan = "payment"  -> "overdue"

(* What should be told now, and what there is nothing to tell of. *)
DueNow == IF archived THEN {} ELSE {i \in UNION {Derived(s, today) : s \in Scans} : i.place \in on}

IsLive(i) == IF i.kind = "payment" THEN \E e \in Standing : e.seq = i.of ELSE owed

AllItems ==
  (UNION {Reminders(d) \cup Overdue(d) : d \in 0..LastDay})
    \cup {Item("payment", s, 0, p) : s \in 1..MaxPayments, p \in Places}

DeadNow == {i \in AllItems : ~IsLive(i)}

-----------------------------------------------------------------------------
Idle == [pc |-> "idle"]

NewBudget == IF MaxPerTick = 0 THEN -1 ELSE MaxPerTick

Init ==
  /\ today = 0
  /\ owed = TRUE
  /\ payments = {}
  /\ on = Places
  /\ archived = FALSE
  /\ changes = 0
  /\ claims = {}
  /\ tick = [q \in Ticks |-> Idle]
  /\ told = {} /\ again = FALSE /\ mishaps = 0

(* A running tick keeps, for the properties, what was due ever since it began
   and what there was nothing to tell of ever since. *)
Observe ==
  tick' = [q \in Ticks |->
             IF tick[q] = Idle THEN Idle
             ELSE [tick[q] EXCEPT !.always = @ \cap DueNow', !.never = @ \cap DeadNow']]

NextDay ==
  /\ today < LastDay
  /\ today' = today + 1
  /\ UNCHANGED <<owed, payments, on, archived, changes, claims, history>>
  /\ Observe

(* A payment may settle the tab. *)
Pay ==
  /\ Cardinality(payments) < MaxPayments
  /\ payments' = payments \cup
       {[seq |-> Cardinality(payments) + 1, day |-> today, undone |-> FALSE]}
  /\ owed' \in {owed, FALSE}
  /\ UNCHANGED <<today, on, archived, changes, claims, history>>
  /\ Observe

Change == changes < MaxChanges /\ changes' = changes + 1

UndoPayment ==
  /\ Change
  /\ \E e \in Standing : payments' = (payments \ {e}) \cup {[e EXCEPT !.undone = TRUE]}
  /\ owed' \in {owed, TRUE}
  /\ UNCHANGED <<today, on, archived, claims, history>>
  /\ Observe

Charge ==
  /\ Change
  /\ ~owed
  /\ owed' = TRUE
  /\ UNCHANGED <<today, payments, on, archived, claims, history>>
  /\ Observe

(* A person switches a channel on or off, or the account is deactivated. *)
SetPrefs ==
  /\ Change
  /\ \E p \in Places : on' = IF p \in on THEN on \ {p} ELSE on \cup {p}
  /\ UNCHANGED <<today, owed, payments, archived, claims, history>>
  /\ Observe

SetArchived ==
  /\ Change
  /\ archived' = ~archived
  /\ UNCHANGED <<today, owed, payments, on, claims, history>>
  /\ Observe

-----------------------------------------------------------------------------
(* The first item of a scan: payments in the order of the ledger, each told
   to the participants in their order. *)
First(items) ==
  CHOOSE i \in items : \A j \in items :
    \/ i.of < j.of
    \/ i.of = j.of /\ i.place[1] < j.place[1]
    \/ i.of = j.of /\ i.place[1] = j.place[1] /\ i.place[2] <= j.place[2]

Busy(q, pc) == tick[q].pc = pc

(* The tick goes on with what is left of the scan after the item at hand. *)
Proceed(q, rec) == tick' = [tick EXCEPT ![q] = rec]

Rest(q) == [tick[q] EXCEPT !.pc = "scan", !.todo = @ \ {First(@)}]

(* A scan lists the tabs and looks at the calendar. *)
Listed(rec, scan) ==
  IF archived THEN [rec EXCEPT !.pc = "scan", !.scan = scan]
  ELSE [rec EXCEPT !.pc = "derive", !.scan = scan, !.day = today]

NewTick ==
  [pc |-> "scan", scan |-> "reminder", day |-> 0, todo |-> {}, budget |-> NewBudget,
   deferred |-> FALSE, failed |-> FALSE, always |-> DueNow, never |-> DeadNow]

Mishap == mishaps < MaxMishaps /\ mishaps' = mishaps + 1

Alone(q) == \A r \in Ticks \ {q} : tick[r] = Idle

(* Requests are alike: the first number that is free is taken. *)
Begin(q) ==
  /\ tick[q] = Idle
  /\ \A r \in Ticks : tick[r] = Idle => q <= r
  /\ Proceed(q, Listed(NewTick, "reminder"))
  /\ UNCHANGED <<world, claims, told, again>>

Start(q) == Alone(q) /\ Begin(q) /\ UNCHANGED mishaps

(* The cron calls again before the last call is done. *)
StartAnother(q) == ~Alone(q) /\ Begin(q) /\ Mishap

(* The next of the three scans, under the same ceiling. *)
BeginScan(q) ==
  /\ Busy(q, "scan")
  /\ tick[q].todo = {}
  /\ tick[q].scan # "overdue"
  /\ Proceed(q, Listed(tick[q], NextScan(tick[q].scan)))
  /\ UNCHANGED <<world, claims, history>>

(* It reads the balance, or the entries, and the participants. *)
Derive(q) ==
  /\ Busy(q, "derive")
  /\ Proceed(q, [tick[q] EXCEPT !.pc = "scan", !.day = 0,
                           !.todo = Derived(tick[q].scan, tick[q].day)])
  /\ UNCHANGED <<world, claims, history>>

(* A read of the store fails: the tab, or the item at hand, is left to the next
   tick and not counted. *)
ReadFails(q) ==
  /\ Mishap
  /\ \/ /\ Busy(q, "derive")
        /\ Proceed(q, [tick[q] EXCEPT !.pc = "scan", !.day = 0, !.failed = TRUE])
     \/ /\ Busy(q, "scan") /\ tick[q].todo # {}
        /\ Proceed(q, [Rest(q) EXCEPT !.failed = TRUE])
  /\ UNCHANGED <<world, claims, told, again>>

(* Mutant of Wanted: the claim is not looked up. *)
WantedUnasked(i) == i.place \in on

Wanted(i) == i.place \in on /\ ~Claimed(i)

(* Mutant of Skip: an item told before is charged to the ceiling again. *)
SkipCharged(q) ==
  /\ Busy(q, "scan")
  /\ tick[q].todo # {}
  /\ ~Wanted(First(tick[q].todo))
  /\ Proceed(q, [Rest(q) EXCEPT !.budget = IF @ > 0 THEN @ - 1 ELSE @])
  /\ UNCHANGED <<world, claims, history>>

(* An item that is claimed, or whose place is switched off, is passed over and
   costs nothing. *)
Skip(q) ==
  /\ Busy(q, "scan")
  /\ tick[q].todo # {}
  /\ ~Wanted(First(tick[q].todo))
  /\ Proceed(q, Rest(q))
  /\ UNCHANGED <<world, claims, history>>

(* Mutant of Defer: what is left is not counted. *)
DeferSilently(q) ==
  /\ Busy(q, "scan")
  /\ tick[q].todo # {}
  /\ Wanted(First(tick[q].todo))
  /\ tick[q].budget = 0
  /\ Proceed(q, Rest(q))
  /\ UNCHANGED <<world, claims, history>>

(* The ceiling is reached: the item is counted and left to the next tick. *)
Defer(q) ==
  /\ Busy(q, "scan")
  /\ tick[q].todo # {}
  /\ Wanted(First(tick[q].todo))
  /\ tick[q].budget = 0
  /\ Proceed(q, [Rest(q) EXCEPT !.deferred = TRUE])
  /\ UNCHANGED <<world, claims, history>>

(* Mutant of Take: the claim is made first. *)
TakeClaiming(q) ==
  /\ Busy(q, "scan")
  /\ tick[q].todo # {}
  /\ Wanted(First(tick[q].todo))
  /\ tick[q].budget # 0
  /\ claims' = claims \cup {Key(First(tick[q].todo))}
  /\ Proceed(q, [tick[q] EXCEPT !.pc = "deliver", !.budget = IF @ < 0 THEN @ ELSE @ - 1])
  /\ UNCHANGED <<world, history>>

Take(q) ==
  /\ Busy(q, "scan")
  /\ tick[q].todo # {}
  /\ Wanted(First(tick[q].todo))
  /\ tick[q].budget # 0
  /\ Proceed(q, [tick[q] EXCEPT !.pc = "deliver", !.budget = IF @ < 0 THEN @ ELSE @ - 1])
  /\ UNCHANGED <<world, claims, history>>

Arrives(q) ==
  LET i == First(tick[q].todo) IN
  /\ told' = told \cup {i}
  /\ again' = (again \/ i \in told)

(* The server confirms that it took the message. *)
Deliver(q) ==
  /\ Busy(q, "deliver")
  /\ First(tick[q].todo).place \in Reachable
  /\ Arrives(q)
  /\ Proceed(q, [tick[q] EXCEPT !.pc = "claim"])
  /\ UNCHANGED <<world, claims, mishaps>>

(* It refuses it, or does not answer: the next tick tries again. *)
DeliverFails(q) ==
  /\ Busy(q, "deliver")
  /\ Proceed(q, [Rest(q) EXCEPT !.failed = TRUE])
  /\ UNCHANGED <<world, claims, history>>

(* It takes the message and its answer is lost. *)
DeliverUnconfirmed(q) ==
  /\ Busy(q, "deliver")
  /\ First(tick[q].todo).place \in Reachable
  /\ Mishap
  /\ Arrives(q)
  /\ Proceed(q, [Rest(q) EXCEPT !.failed = TRUE])
  /\ UNCHANGED <<world, claims>>

(* The claim is inserted, or was there already: another tick's. *)
ClaimSent(q) ==
  /\ Busy(q, "claim")
  /\ claims' = claims \cup {Key(First(tick[q].todo))}
  /\ Proceed(q, Rest(q))
  /\ UNCHANGED <<world, history>>

ClaimFails(q) ==
  /\ Busy(q, "claim")
  /\ Mishap
  /\ Proceed(q, [Rest(q) EXCEPT !.failed = TRUE])
  /\ UNCHANGED <<world, claims, told, again>>

(* The tick reports what it sent and what it deferred. *)
Finish(q) ==
  /\ Busy(q, "scan")
  /\ tick[q].todo = {}
  /\ tick[q].scan = "overdue"
  /\ Proceed(q, Idle)
  /\ UNCHANGED <<world, claims, history>>

(* The process stops, or the cron hangs up. *)
Die(q) ==
  /\ tick[q] # Idle
  /\ Mishap
  /\ Proceed(q, Idle)
  /\ UNCHANGED <<world, claims, told, again>>

Step(q) ==
  \/ BeginScan(q) \/ Derive(q) \/ Skip(q) \/ Defer(q) \/ Take(q)
  \/ Deliver(q) \/ DeliverFails(q) \/ ClaimSent(q) \/ Finish(q)

Next ==
  \/ NextDay \/ Pay \/ UndoPayment \/ Charge \/ SetPrefs \/ SetArchived
  \/ \E q \in Ticks : Start(q) \/ StartAnother(q) \/ Step(q)
                       \/ ReadFails(q) \/ DeliverUnconfirmed(q) \/ ClaimFails(q) \/ Die(q)

Spec == Init /\ [][Next]_vars

(* The cron keeps calling, a handler that runs goes on, and a server that is
   tried again and again takes the message in the end. *)
Fairness ==
  \A q \in Ticks : WF_vars(Start(q)) /\ WF_vars(Step(q)) /\ SF_vars(Deliver(q))

FairSpec == Spec /\ Fairness

-----------------------------------------------------------------------------
(* Nobody is told twice of anything at one place, unless two ticks ran at once
   or a crash, a lost answer or a failed claim came between a delivery and its
   claim. *)
ToldOnce == again => mishaps > 0

(* Whatever is claimed has been told: no crash, failure or order of two ticks
   turns a claim into a notice nobody got. *)
ClaimedWasTold == \A c \in claims : \E i \in told : Key(i) = c

(* A tick tells nothing that there was nothing to tell of ever since it began:
   no reminder of a tab settled before, no payment undone before. *)
RetractedIsNotTold ==
  \A q \in Ticks : Busy(q, "deliver") => First(tick[q].todo) \notin tick[q].never

(* A tick that reports nothing deferred and met no failure has left nothing:
   all that was due from its beginning to its end is claimed. *)
QuietMeansDone ==
  [][\A q \in Ticks :
       /\ tick[q] # Idle /\ tick'[q] = Idle /\ mishaps' = mishaps
       /\ ~tick[q].deferred /\ ~tick[q].failed
       => \A i \in tick[q].always : Claimed(i)]_vars

Announced(s, p) ==
  \/ \E i \in told : i.kind = "payment" /\ i.of = s /\ i.place = p
  \/ p \notin on \/ archived
  \/ \E e \in payments : e.seq = s /\ (e.undone \/ ~Recent(e, today))

(* A payment is announced to every participant in the end, over every channel
   they keep on, however low the ceiling: unless it is undone, grows too old or
   the tab is archived. *)
EveryoneIsTold ==
  \A s \in 1..MaxPayments : \A p \in Places :
    (\E e \in payments : e.seq = s) ~> Announced(s, p)
=============================================================================
