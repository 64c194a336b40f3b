------------------------------- MODULE Payoff -------------------------------
(***************************************************************************)
(* What the page of a Payoff tab says of its loan: what is owed, whether   *)
(* the payee is behind, the payment the terms imply and how the entered    *)
(* one compares, and the payments still to come. Everything is derived     *)
(* from the entries, the terms and the day.                                *)
(*                                                                         *)
(* A tab is a record [rate, term, payment]: its annual rate in basis       *)
(* points, its term in periods and its payment, each zero if not set.      *)
(***************************************************************************)
EXTENDS Loan

Terms(tab, principal, unpaid) ==
  [principal |-> principal, unpaid |-> unpaid, bp |-> tab.rate, basis |-> RateBasis]

FeesOf(entries) == -SumOf({e \in Live(entries) : e.kind = "fee"})

(* How many payments have come due, and never more than the term. *)
PeriodsElapsed(tab, day) ==
  LET due == Cardinality(DueThrough(day))
  IN IF tab.term > 0 THEN Lesser(due, tab.term) ELSE due

(* Everything the loan is expected to cost: what its terms cost, or what has
   been charged if nothing says when it ends. *)
ScheduledTotal(tab, a) ==
  LET out == Simulate(Terms(tab, a.charged, 0), tab.payment)
  IN CASE tab.term = 0 \/ a.charged <= 0 -> a.charged + a.interest
       [] tab.term > 0 /\ a.charged > 0 /\ out.retires  -> out.total
       [] tab.term > 0 /\ a.charged > 0 /\ ~out.retires -> tab.payment * tab.term

ExpectedByNow(tab, a, day) ==
  IF tab.payment > 0 /\ a.charged > 0
  THEN Lesser(tab.payment * PeriodsElapsed(tab, day), ScheduledTotal(tab, a))
  ELSE 0

PayoffStatus(tab, p) ==
  LET settled == p.charged > 0 /\ p.balance >= 0
  IN CASE settled -> "settled"
       [] ~settled /\ p.satisfied < p.expected -> "behind"
       [] ~settled /\ p.satisfied >= p.expected ->
            IF tab.payment > 0 /\ p.satisfied >= p.expected + tab.payment
            THEN "ahead" ELSE "on track"

(* The loan as its page shows it. *)
ComputePayoff(tab, entries, day) ==
  LET a == AllocateLoan(entries, day)
      p == [charged   |-> a.charged, paid |-> a.paid,
            principal |-> a.principal, unpaid |-> a.unpaid, remaining |-> Owed(a),
            balance   |-> a.paid + a.credited - a.charged - a.interest - FeesOf(entries),
            satisfied |-> a.paid + a.credited,
            expected  |-> ExpectedByNow(tab, a, day), status |-> "on track"]
  IN [p EXCEPT !.status = PayoffStatus(tab, p)]

(* The payments not made yet, on which a true-up is computed. *)
RemainingPeriods(tab, p) ==
  IF tab.term = 0 \/ tab.payment = 0 THEN 0
  ELSE tab.term - Lesser(p.paid \div tab.payment, tab.term)

(* What the terms imply, and what is needed from here to end in time; zero is
   no suggestion. *)
ComputePlan(tab, p) ==
  [suggested |-> SuggestPayment(Terms(tab, p.charged, 0), tab.term),
   trueUp    |-> IF RemainingPeriods(tab, p) > 0 /\ p.principal > 0
                 THEN SuggestPayment(Terms(tab, p.principal, p.unpaid), RemainingPeriods(tab, p))
                 ELSE 0]

(* An arrears of interest with no principal, paid down at the installment. *)
FlatPayments(owed, payment) ==
  [n \in 1 .. (owed + payment - 1) \div payment |->
     [payment |-> Lesser(payment, owed - (n - 1) * payment),
      balance |-> owed - Lesser(n * payment, owed)]]

ProjectPayments(tab, p) ==
  IF p.principal <= 0 THEN FlatPayments(p.unpaid, tab.payment)
  ELSE Project(Terms(tab, p.principal, p.unpaid), tab.payment)

(* The payments still to come, each on its day; none if there is nothing to
   pay, it is never paid, or the schedule ends before. *)
ComputeForecast(tab, p, day) ==
  LET rows == ProjectPayments(tab, p)
      first == NextDueIndex(day)
  IN IF tab.payment <= 0 \/ p.remaining <= 0 \/ first + Len(rows) > MaxPeriods
     THEN <<>>
     ELSE [i \in 1 .. Len(rows) |->
             [due |-> Due[first + i - 1],
              amount |-> rows[i].payment, balance |-> rows[i].balance]]
=============================================================================
