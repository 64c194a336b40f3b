------------------------------ MODULE Interest ------------------------------
(***************************************************************************)
(* Interest on a Payoff tab, charged by reading it: a request that shows   *)
(* the tab charges each period that has come due and is not claimed yet,   *)
(* on the principal as of its due date. Requests overlap with each other,  *)
(* with postings, which the bank may date earlier or later than today, and *)
(* undos, with changes of the loan's terms, and with the passing days.     *)
(*                                                                         *)
(* Posting the interest of one period is a single step here; EntryStore    *)
(* shows that the transactions behind it implement one. Who disturbed a    *)
(* reading is kept for the properties.                                     *)
(***************************************************************************)
EXTENDS Payoff

CONSTANTS
  Readers,     \* requests that show the tab
  Terms0,      \* the rate, term and payment the tab starts with
  Opening,     \* the amount of its first charge
  Rates,       \* the annual rates the provider sets
  Installments,\* the payments the provider enters
  Days,        \* the days on which something happens, oldest first
  Hours,       \* the times of day at which people post; noon is 2
  Charges, Payments, Adjustments, Fees,  \* amounts posted
  BankDates,   \* the dates of the bank's lines
  Differences, \* what a line has more, or less, than a payment it matches
  DateWindow,  \* the days that a line and its payment may be apart
  MaxEntries,  \* bound on the rows
  MaxEdits     \* bound on the changes of the terms

(* Forms take amounts in cents that are not nought; an adjustment has a sign.
   A rate, a term and a payment are nought when they are not set. *)
ASSUME AmountsAssumption ==
  /\ Opening \in Nat \ {0}
  /\ Charges \cup Payments \cup Fees \subseteq Nat \ {0}
  /\ Adjustments \cup Differences \subseteq Int \ {0}

ASSUME TermsAssumption ==
  /\ Terms0 \in [rate : Nat, term : Nat, payment : Nat]
  /\ Rates \cup Installments \subseteq Nat

ASSUME DaysAssumption ==
  /\ Days # <<>> /\ \A i \in 1 .. Len(Days) : ValidDate(Days[i])
  /\ Len(Days) \in Nat
  /\ \A i, j \in 1 .. Len(Days) : i <= j => DayNumber(Days[i]) <= DayNumber(Days[j])
  /\ Hours \subseteq 1 .. 3

(* A bank file is read for dates of 1990 to 2100, whatever today is. *)
ASSUME BankAssumption ==
  /\ \A d \in BankDates : ValidDate(d)
  /\ DateWindow \in Nat

VARIABLES
  tab,      \* the tab's rate and terms
  entries,  \* its ledger
  claims,   \* posted_interest
  today,    \* which of Days it is
  reader,   \* what each request is doing
  edits     \* how often the terms have changed

vars == <<tab, entries, claims, today, reader, edits>>

Day == DayNumber(Days[today])
Midnight(day) == 4 * day
Noon(day) == Midnight(day) + 2
Now == {Midnight(Day) + h : h \in Hours}

Resting == [pc |-> "resting"]

Init ==
  /\ today = 1
  /\ tab = Terms0
  /\ entries = <<[seq |-> 1, kind |-> "charge", amount |-> -Opening, at |-> Midnight(Day) + 1,
                  reverses |-> 0]>>
  /\ claims = {}
  /\ reader = [r \in Readers |-> Resting]
  /\ edits = 0

Row(kind, amount, at, reverses) ==
  [seq |-> Len(entries) + 1, kind |-> kind, amount |-> amount, at |-> at,
   reverses |-> reverses]

Room == Len(entries) < MaxEntries

(* Requests that are between their first read and their last posting. *)
Reading(r) == reader[r].pc \in {"claims", "post"}

Disturbed(by, others) ==
  [r \in Readers |->
     IF r \in others /\ Reading(r) /\ reader[r].disturbed # "person"
     THEN [reader[r] EXCEPT !.disturbed = by] ELSE reader[r]]

Post(row) ==
  /\ Room
  /\ entries' = Append(entries, row)
  /\ reader' = Disturbed("person", Readers)
  /\ UNCHANGED <<tab, claims, today, edits>>

PostCharge     == \E a \in Charges, now \in Now : Post(Row("charge", -a, now, 0))
PostPayment    == \E a \in Payments, now \in Now : Post(Row("payment", a, now, 0))
PostAdjustment == \E a \in Adjustments, now \in Now : Post(Row("adjustment", a, now, 0))
PostFee        == \E a \in Fees : Post(Row("fee", -a, Midnight(Day), 0))

(* A line of the bank's is recorded as a payment, at noon of the day the bank
   has it, whether that has passed, is today or is still to come. *)
RecordBankLine ==
  \E a \in Payments, d \in BankDates :
    Post(Row("payment", a, Noon(DayNumber(d)), 0))

(* A line is matched to a payment of about its date. What it has more is a
   payment, what it has less a debit adjustment, at noon of the line's day.
   Which payments are free to be matched, and that a match is undone with what
   it posted, is Reconcile's: here any may be, and each entry is undone alone. *)
ConfirmMatch ==
  \E p \in Live(entries), a \in Differences, d \in BankDates :
    /\ p.kind = "payment" /\ p.amount + a > 0
    /\ DayOf(p) - DayNumber(d) \in -DateWindow .. DateWindow
    /\ Post(Row(IF a > 0 THEN "payment" ELSE "adjustment", a, Noon(DayNumber(d)), 0))

Undo ==
  \E e \in Live(entries), now \in Now : Post(Row("reversal", -e.amount, now, e.seq))

SetTerms ==
  /\ edits < MaxEdits
  /\ edits' = edits + 1
  /\ \/ \E rate \in Rates : tab' = [tab EXCEPT !.rate = rate]
     \/ \E p \in Installments : tab' = [tab EXCEPT !.payment = p]
  /\ UNCHANGED <<entries, claims, today, reader>>

NextDay ==
  /\ today < Len(Days)
  /\ today' = today + 1
  /\ UNCHANGED <<tab, entries, claims, reader, edits>>

-----------------------------------------------------------------------------
(* The tab is loaded; without a rate it bears no interest. *)
ReadTab(r) ==
  /\ reader[r] = Resting
  /\ tab.rate > 0
  /\ reader' = [reader EXCEPT ![r] = [pc |-> "entries", tab |-> tab]]
  /\ UNCHANGED <<tab, entries, claims, today, edits>>

ReadEntries(r) ==
  /\ reader[r].pc = "entries"
  /\ reader' = [reader EXCEPT ![r] =
       [pc |-> "claims", tab |-> reader[r].tab, entries |-> entries, disturbed |-> "no"]]
  /\ UNCHANGED <<tab, entries, claims, today, edits>>

(* The claims are read, and the clock; only the claims are shared, so the two
   are one step. *)
ReadClaims(r) ==
  /\ reader[r].pc = "claims"
  /\ reader' = [reader EXCEPT ![r] =
       [pc |-> "post", tab |-> reader[r].tab, entries |-> reader[r].entries,
        disturbed |-> reader[r].disturbed,
        todo |-> {Due[n] : n \in DueThrough(Day)} \ {c.due : c \in claims}]]
  /\ UNCHANGED <<tab, entries, claims, today, edits>>

Base(r, due) == AllocateLoan(reader[r].entries, due).principal

Amount(r, due) == InterestFor(Base(r, due), reader[r].tab.rate, RateBasis)

OldestOf(r, due) ==
  /\ reader[r].pc = "post"
  /\ due \in reader[r].todo
  /\ \A d \in reader[r].todo : due <= d

(* A period without principal, or whose interest rounds to nothing, is passed
   over and not claimed. *)
PassOver(r, due) ==
  /\ OldestOf(r, due)
  /\ Amount(r, due) = 0
  /\ reader' = [reader EXCEPT ![r].todo = @ \ {due}]
  /\ UNCHANGED <<tab, entries, claims, today, edits>>

(* Mutant of PostInterest: the charge is not among the entries that the next
   period is computed from. *)
PostInterestUnseen(r, due) ==
  LET row == Row("interest", -Amount(r, due), Midnight(due), 0) IN
  /\ OldestOf(r, due)
  /\ Amount(r, due) > 0
  /\ Room
  /\ \A c \in claims : c.due # due
  /\ entries' = Append(entries, row)
  /\ claims' = claims \cup {[due |-> due, base |-> Base(r, due), seq |-> row.seq]}
  /\ reader' = [Disturbed("reader", Readers \ {r}) EXCEPT ![r].todo = @ \ {due}]
  /\ UNCHANGED <<tab, today, edits>>

(* The oldest period is charged and claimed, and the charge joins the entries
   that the periods after it are computed from. *)
PostInterest(r, due) ==
  LET row == Row("interest", -Amount(r, due), Midnight(due), 0) IN
  /\ OldestOf(r, due)
  /\ Amount(r, due) > 0
  /\ Room
  /\ \A c \in claims : c.due # due
  /\ entries' = Append(entries, row)
  /\ claims' = claims \cup {[due |-> due, base |-> Base(r, due), seq |-> row.seq]}
  /\ reader' = [Disturbed("reader", Readers \ {r}) EXCEPT ![r].todo = @ \ {due},
                                              ![r].entries = Append(@, row)]
  /\ UNCHANGED <<tab, today, edits>>

(* Another reader charged the period first: that is a success, and its charge
   does not join this reader's entries. *)
Replayed(r, due) ==
  /\ OldestOf(r, due)
  /\ Amount(r, due) > 0
  /\ \E c \in claims : c.due = due
  /\ reader' = [reader EXCEPT ![r].todo = @ \ {due}]
  /\ UNCHANGED <<tab, entries, claims, today, edits>>

Finish(r) ==
  /\ reader[r].pc = "post"
  /\ reader[r].todo = {}
  /\ reader' = [reader EXCEPT ![r] = Resting]
  /\ UNCHANGED <<tab, entries, claims, today, edits>>

(* A read or a posting fails, or the process dies. *)
Fail(r) ==
  /\ reader[r] # Resting
  /\ reader' = [reader EXCEPT ![r] = Resting]
  /\ UNCHANGED <<tab, entries, claims, today, edits>>

AccrueInterest(r) ==
  \/ ReadTab(r) \/ ReadEntries(r) \/ ReadClaims(r) \/ Finish(r) \/ Fail(r)
  \/ reader[r].pc = "post" /\ \E due \in reader[r].todo :
       PassOver(r, due) \/ PostInterest(r, due) \/ Replayed(r, due)

Next ==
  \/ \E r \in Readers : AccrueInterest(r)
  \/ PostCharge \/ PostPayment \/ PostAdjustment \/ PostFee
  \/ RecordBankLine \/ ConfirmMatch
  \/ Undo \/ SetTerms \/ NextDay

Spec == Init /\ [][Next]_vars

-----------------------------------------------------------------------------
(* No reading is under way; what follows depends on the ledger alone. *)
Quiet == \A r \in Readers : reader[r] = Resting

(* No due period is left that bears interest and is not claimed. *)
CaughtUp ==
  \A n \in DueThrough(Day) :
    LET due == Due[n] IN
      \/ \E c \in claims : c.due = due
      \/ InterestFor(AllocateLoan(entries, due).principal, tab.rate, RateBasis) = 0

(* The reader that charges claim c in this step. *)
Charged(r, c) == OldestOf(r, c.due) /\ reader'[r].pc = "post" /\ c.due \notin reader'[r].todo

(* A reading that nobody disturbs charges interest on the principal that the
   tab has as of the due date, its own earlier charges included. *)
ChargedOnPrincipal ==
  [][ \A r \in Readers, c \in claims' \ claims :
        Charged(r, c) /\ reader[r].disturbed = "no"
          => c.base = AllocateLoan(entries, c.due).principal ]_vars

(* The comment on accrueInterest: each period's interest is computed on the
   principal as of its date, also when another reading posts beside it. *)
ChargedOnPrincipalRaced ==
  [][ \A r \in Readers, c \in claims' \ claims :
        Charged(r, c) /\ reader[r].disturbed # "person"
          => c.base = AllocateLoan(entries, c.due).principal ]_vars

(* Interest on a monthly schedule falls due on the anchor's day of the month,
   or on the last day of a month that has no such day, or that is always to
   be billed on it; and once in each. *)
DueDaysKeep ==
  \A c \in claims :
    \E n \in DOMAIN Due :
      /\ c.due = Due[n]
      /\ \A m \in DOMAIN Due : Due[m] = c.due => m = n
      /\ LET d == Period(n).due IN
           \/ d.day = Schedule.anchor.day
           \/ /\ d.day = DaysIn(d.year, d.month)
              /\ d.day < Schedule.anchor.day \/ Schedule.kind = "monthly_last"

(* What stands but takes effect after today: only the bank's dates do. *)
Ahead == {e \in Live(entries) : DayOf(e) > Day}

(* The page of a loan adds up its ledger as of today, the statements all of it.
   However entries are undone, credited, matched and dated, the page's balance
   and the allocation behind it are the plain sum of the ledger less what lies
   ahead of today, and the statements' is the plain sum. So they agree, as the
   page promises, as long as no bank line is dated ahead, and else are apart
   by it until its day. *)
BalanceAddsUp ==
  LET a == AllocateLoan(entries, Day)
      s == Allocate(entries)
      p == ComputePayoff(tab, entries, Day)
  IN Quiet =>
     /\ p.balance + SumOf(Ahead) = SumOf(ToSet(entries))
     /\ a.ahead - Owed(a) - FeesOf(entries) + SumOf(Ahead) = SumOf(ToSet(entries))
     /\ s.pool - s.open = SumOf(ToSet(entries))

(* A row of a forecast, followed: the interest of its day is charged, and its
   payment is made. *)
FollowRow(es, row) ==
  LET interest == InterestFor(AllocateLoan(es, row.due).principal, tab.rate, RateBasis)
  IN es \o
       <<[seq |-> Len(es) + 1, kind |-> "interest", amount |-> -interest,
          at |-> Midnight(row.due), reverses |-> 0],
         [seq |-> Len(es) + 2, kind |-> "payment", amount |-> row.amount,
          at |-> Midnight(row.due) + 1, reverses |-> 0]>>

(* The ledger, once the first payments of a forecast are made on their days
   and the interest of those days is charged. *)
Followed(f, k) ==
  LET after[n \in 0 .. k] ==
        IF n = 0 THEN entries ELSE FollowRow(after[n - 1], f[n])
  IN after[k]

(* A forecast shown when all interest due is charged, on a day on which none
   falls due and with no bank line dated ahead, comes true if it is followed:
   after each payment the ledger owes what the forecast said, and nothing after
   the last. A payee who is not behind, with no credit and no fee on the tab,
   does not fall behind by it. *)
ForecastHolds ==
  Quiet /\ CaughtUp /\ Ahead = {} /\ (\A n \in DOMAIN Due : Due[n] # Day) =>
    \A p \in {ComputePayoff(tab, entries, Day)} :
    \A f \in {ComputeForecast(tab, p, Day)} :
    \A k \in 1 .. Len(f) :
      /\ Owed(AllocateLoan(Followed(f, k), f[k].due)) = f[k].balance
      /\ p.status # "behind" /\ p.satisfied = p.paid /\ FeesOf(entries) = 0 =>
           ComputePayoff(tab, Followed(f, k), f[k].due).status # "behind"

(* The payment that the page suggests, for the whole loan or from here, ends
   it in time, and no smaller one does. *)
SuggestionIsLeast ==
  LET least(t, term, payment) ==
        /\ Within(t, payment, term)
        /\ \A smaller \in 1 .. payment - 1 : ~Within(t, smaller, term)
  IN Quiet =>
       \A p \in {ComputePayoff(tab, entries, Day)} :
       \A plan \in {ComputePlan(tab, p)} :
         /\ plan.suggested > 0 => least(Terms(tab, p.charged, 0), tab.term, plan.suggested)
         /\ plan.trueUp > 0 =>
              least(Terms(tab, p.principal, p.unpaid), RemainingPeriods(tab, p), plan.trueUp)
=============================================================================
