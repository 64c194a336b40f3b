-------------------------------- MODULE Loan --------------------------------
(***************************************************************************)
(* What a loan costs. Interest is charged on the principal that is still   *)
(* owed and rounded once a period; a payment covers interest first and     *)
(* reduces principal with the rest (the U.S. Rule). Every figure a page    *)
(* shows is derived from the tab's entries. Amounts are cents; those too   *)
(* large for 64 bits, which the code refuses, are not considered.          *)
(*                                                                         *)
(* A tab's entries are a sequence of records [seq, kind, amount, at,       *)
(* reverses]: interest has a kind of its own here, reverses = 0 is NULL,   *)
(* and `at' is an instant, four times a day's number at its midnight and   *)
(* up to three more later that day.                                        *)
(***************************************************************************)
EXTENDS Calendar, Sequences, SequencesExt, TLC

CONSTANT MaxPayments  \* how many periods a simulation runs

ASSUME PaymentsAssumption == MaxPayments \in Nat

InterestFor(balance, bp, basis) ==
  LET denom == 10000 * basis[2]
  IN (balance * bp * basis[1] + denom \div 2) \div denom

-----------------------------------------------------------------------------
(* The loan as the entries have it. *)
DayOf(e) == e.at \div 4

ReversedSeqs(entries) == {e.reverses : e \in ToSet(entries)} \ {0}

(* Mutant of Live: an entry that was undone still counts. *)
LiveUndone(entries) == {e \in ToSet(entries) : e.kind # "reversal"}

(* An undone entry and its reversal both drop out. *)
Live(entries) ==
  LET reversed == ReversedSeqs(entries)
  IN {e \in ToSet(entries) : e.kind # "reversal" /\ e.seq \notin reversed}

AsOf(es, day) == {e \in es : DayOf(e) <= day}

SumOf(es) == SumFunction([e \in es |-> e.amount])

Earlier(a, b) == a.at < b.at \/ (a.at = b.at /\ a.seq < b.seq)

Latest(es) == CHOOSE e \in es : \A f \in es \ {e} : Earlier(f, e)

LastRecorded(es) == CHOOSE e \in es : \A f \in es : f.seq <= e.seq

Untouched ==
  [principal |-> 0, unpaid |-> 0, charged |-> 0, interest |-> 0,
   paid |-> 0, ahead |-> 0, credited |-> 0]

(* An amount spent on interest and then on principal. *)
Apply(a, amount) ==
  LET toInterest  == Lesser(amount, a.unpaid)
      toPrincipal == Lesser(amount - toInterest, a.principal)
  IN [a EXCEPT !.unpaid = @ - toInterest, !.principal = @ - toPrincipal,
               !.ahead = @ + amount - toInterest - toPrincipal]

(* An amount written off the principal and then the interest. *)
ApplyPrincipalFirst(a, amount) ==
  LET toPrincipal == Lesser(amount, a.principal)
      toInterest  == Lesser(amount - toPrincipal, a.unpaid)
  IN [a EXCEPT !.unpaid = @ - toInterest, !.principal = @ - toPrincipal,
               !.ahead = @ + amount - toInterest - toPrincipal]

(* What one entry does to the loan. A fee is owed, but it is not the loan. *)
Replay(a, e) ==
  CASE e.kind = "interest" ->
         [a EXCEPT !.interest = @ - e.amount, !.unpaid = @ - e.amount]
    [] e.kind = "charge" \/ (e.kind = "adjustment" /\ e.amount < 0) ->
         [a EXCEPT !.charged = @ - e.amount, !.principal = @ - e.amount]
    [] e.kind = "payment" ->
         Apply([a EXCEPT !.paid = @ + e.amount], e.amount)
    [] e.kind = "adjustment" /\ e.amount >= 0 ->
         ApplyPrincipalFirst([a EXCEPT !.credited = @ + e.amount], e.amount)
    [] OTHER -> a

(* The standing entries up to a day, each in its own place. *)
AllocateLoan(entries, asOf) ==
  LET counted == AsOf(Live(entries), asOf)
      after[es \in SUBSET counted] ==
        IF es = {} THEN Untouched
        ELSE LET last == Latest(es) IN Replay(after[es \ {last}], last)
  IN after[counted]

Owed(a) == a.principal + a.unpaid

(* The credits spent on the standing debits, in the order they were recorded:
   what remains of the credits, and what is open of the debits. *)
Allocate(entries) ==
  LET live   == Live(entries)
      pool   == SumOf({e \in live : e.amount > 0})
      debits == {e \in live : e.amount < 0}
      spent[es \in SUBSET debits] ==
        IF es = {} THEN [pool |-> pool, open |-> 0]
        ELSE LET last == LastRecorded(es)
                 s    == spent[es \ {last}]
                 take == Lesser(-last.amount, s.pool)
             IN [pool |-> s.pool - take, open |-> s.open - last.amount - take]
  IN spent[debits]

-----------------------------------------------------------------------------
(* The loan as it would be paid: terms [principal, unpaid, bp, basis]. *)
Payable(t) == t.principal > 0 /\ t.unpaid >= 0 /\ t.bp >= 0

(* Mutant of PayPeriod: unpaid interest bears interest. *)
PayPeriodCompounding(t, payment, s) ==
  LET due    == InterestFor(s.principal + s.unpaid, t.bp, t.basis)
      unpaid == s.unpaid + due
      owed   == s.principal + unpaid
      paid(p, u) == [s EXCEPT !.principal = p, !.unpaid = u,
                              !.rows = Append(@, [payment |-> payment, balance |-> p + u])]
  IN CASE owed <= payment ->
            [s EXCEPT !.state = "retired",
                      !.rows = Append(@, [payment |-> owed, balance |-> 0])]
       [] owed > payment /\ payment >= unpaid -> paid(s.principal - (payment - unpaid), 0)
       [] payment < unpaid /\ payment > due   -> paid(s.principal, unpaid - payment)
       [] OTHER -> [s EXCEPT !.state = "never"]

(* One period: interest accrues on the principal, and the payment covers what
   is unpaid of it, then principal. A payment that does not beat the interest
   of its own period never gets there; the last one is what is left. *)
PayPeriod(t, payment, s) ==
  LET due    == InterestFor(s.principal, t.bp, t.basis)
      unpaid == s.unpaid + due
      owed   == s.principal + unpaid
      paid(p, u) == [s EXCEPT !.principal = p, !.unpaid = u,
                              !.rows = Append(@, [payment |-> payment, balance |-> p + u])]
  IN CASE owed <= payment ->
            [s EXCEPT !.state = "retired",
                      !.rows = Append(@, [payment |-> owed, balance |-> 0])]
       [] owed > payment /\ payment >= unpaid -> paid(s.principal - (payment - unpaid), 0)
       [] payment < unpaid /\ payment > due   -> paid(s.principal, unpaid - payment)
       [] OTHER -> [s EXCEPT !.state = "never"]

Course(t, payment) ==
  LET start == [principal |-> t.principal, unpaid |-> t.unpaid, rows |-> <<>>,
                state |-> "paying"]
      after[n \in 0 .. MaxPayments] ==
        IF n = 0 THEN start
        ELSE LET s == after[n - 1]
             IN IF s.state = "paying" THEN PayPeriod(t, payment, s) ELSE s
  IN after[MaxPayments]

TotalOf(rows) == SumFunction([i \in DOMAIN rows |-> rows[i].payment])

(* The payments until the loan is repaid; none if it never is. *)
Project(t, payment) ==
  LET end == Course(t, payment)
  IN IF Payable(t) /\ payment > 0 /\ end.state = "retired" THEN end.rows ELSE <<>>

(* What a payment does to the loan. *)
Simulate(t, payment) ==
  LET rows == Project(t, payment)
  IN [retires |-> rows # <<>>, periods |-> Len(rows), total |-> TotalOf(rows)]

Within(t, payment, term) ==
  LET out == Simulate(t, payment) IN out.retires /\ out.periods <= term

(* Mutant of Half: the half that holds the answer is searched from below the
   middle. *)
HalfBelow(t, term, r) ==
  LET mid == r[1] + (r[2] - r[1]) \div 2
  IN IF Within(t, mid, term) THEN <<r[1], mid - 1>> ELSE <<mid + 1, r[2]>>

(* The half of the payments from r[1] to r[2] that holds the least in time. *)
Half(t, term, r) ==
  LET mid == r[1] + (r[2] - r[1]) \div 2
  IN IF Within(t, mid, term) THEN <<r[1], mid>> ELSE <<mid + 1, r[2]>>

(* The payment that retires the loan in time, by halving; none is zero. *)
SuggestPayment(t, term) ==
  LET most == t.principal + t.unpaid + InterestFor(t.principal, t.bp, t.basis)
      least[r \in (0 .. most) \X (0 .. most)] ==
        IF r[1] >= r[2] THEN r[1] ELSE least[Half(t, term, r)]
  IN IF Payable(t) /\ term \in 1 .. MaxPayments /\ Within(t, most, term)
     THEN least[<<1, most>>] ELSE 0
=============================================================================
