------------------------------- MODULE PageViews -------------------------------
(***************************************************************************)
(* The pages of one tab and of its reconciliation, each as the set of      *)
(* forms it holds for a viewer, a form being what Pages!Handle receives.   *)
(* A field people type into stands for every value of its set; a figure    *)
(* the page fills in and hides is the page's own.                          *)
(***************************************************************************)
EXTENDS Pages

CONSTANT RecentShown   \* how many matches and reviews the page lists

Form(do) == [do |-> do]

When(condition, forms) == IF condition THEN forms ELSE {}

Participants == {u \in Users : role[u] # "none"}

----------------------------------------------------------------------------
(* The dashboard's card and the payment page. *)

Owed == IF Balance < 0 THEN -Balance ELSE 0

ItemTotal == LET total[is \in SUBSET ItemIds] ==
                   IF is = {} THEN 0
                   ELSE LET i == CHOOSE i \in is : TRUE
                        IN  items[i] + total[is \ {i}]
             IN  total[ItemIds]

(* What one period is expected to bring, by the kind of tab. *)
PeriodBase == IF tab.kind = "payoff" THEN tab.installment ELSE ItemTotal

PeriodPayment == IF PeriodBase < Owed THEN PeriodBase ELSE Owed

PrimaryAmount == IF PeriodPayment > 0 THEN PeriodPayment ELSE Owed

Pay(do, amounts) == [do : {do}, amount : amounts, method : Methods]

(* The confirmation the card swaps in: the primary amount, fixed, when     *)
(* something is owed, and always one whose amount is typed.                *)
SettleConfirm(u) == When(Owed > 0, Pay("settle", {PrimaryAmount}))
                      \cup Pay("settle", Paid)

TabCardView(u) == When(Transacts(u), SettleConfirm(u))

TabPay(u) == When(Transacts(u) /\ Owed > 0, Pay("payment", Paid))

----------------------------------------------------------------------------
(* The tab page. *)

HeroPayment(u) == When(Transacts(u), Pay("payment", Paid))

(* Offered to the provider alone, though a tab administrator may post it. *)
DayToDay(u) ==
  When(role[u] = "provider",
       [do : {"charge"}, amount : Charged]
         \cup [do : {"adjustment"}, amount : Charged, direction : {"credit", "debit"}])

(* Mutant of AttachableUsers: an account no longer in use is offered too. *)
AttachableAnyone == {who \in Users : role[who] = "none"}

AttachableUsers == {who \in active : role[who] = "none"}

PeopleSection(u) ==
  When(CanManage(u),
       [do : {"remove"}, who : Participants]
         \cup [do : {"participants"}, who : AttachableUsers, as : {"payee", "admin"}])

(* The mark each entry carries: how reconciliation touched it. *)
BankMark(s) ==
  \/ MatchOf(s) \cup DeltaOf(s) \cup ReviewOf(s) # {}
  \/ \E l \in LineOf(s) : lines[l].state = "recorded"

CanUndo(s) == entries[s].kind # "reversal" /\ ~ Reversed(s)

HistoryRows(u) ==
  {[do |-> "undo", seq |-> s] :
     s \in {x \in Seqs : CanUndo(x) /\ (Bills(u) \/ entries[x].by = u)}}

(* The rows left by "Show only unreconciled payments". *)
Unreconciled ==
  {s \in Seqs : entries[s].kind = "payment" /\ ~ Reversed(s) /\ ~ BankMark(s)}

DetailsSection(u) == [do : {"details"}, kind : {"services", "payoff"}]
                       \cup {Form("archive")}

LoanSection(u) == When(tab.kind = "payoff", [do : {"loan"}, installment : Prices])

(* A loan has no items of its own to set up. *)
ItemsSection(u) ==
  When(tab.kind # "payoff",
       LET live == {i \in ItemIds : items[i] # 0}
       IN  [do : {"item-update"}, item : live, price : Prices]
             \cup [do : {"item-remove"}, item : live]
             \cup [do : {"items"}, item : ItemIds \ live, price : Prices])

TabDetail(u) ==
  When(Sees(u),
       HeroPayment(u) \cup DayToDay(u) \cup PeopleSection(u) \cup HistoryRows(u)
         \cup When(CanManage(u),
                   DetailsSection(u) \cup LoanSection(u) \cup ItemsSection(u)))

----------------------------------------------------------------------------
(* The accounts page. *)

LastAdmin(who) == Admins \cap active = {who}

ReconcileControl(who) ==
  {[do |-> "can-reconcile", who |-> who, on |-> who \notin reconcilers]}

UserRow(who) ==
  When(~ LastAdmin(who),
       {[do |-> "active", who |-> who, on |-> who \notin active]})
    \cup When(who \in Admins, ReconcileControl(who))

AdminUsers(u) == When(u \in Admins, UNION {UserRow(who) : who \in Users})

----------------------------------------------------------------------------
(* The reconciliation pages. *)

Confirm(l, s) == [do |-> "confirm", line |-> l, seq |-> s]

SuggestionsGrid(sg) ==
  {Confirm(p.line, p.seq) : p \in sg.suggestions}
    \cup When(\E p \in sg.suggestions : p.exact, {Form("confirm-exact")})

(* Every line of a tie against every payment of it. *)
TiesGrid(sg) == {Confirm(x[1], x[2]) :
                   x \in UNION {LinesOf(g) \X SeqsOf(g) : g \in sg.ties}}

InCoverage(s) == /\ \E l \in Imported : PostedOn[l] <= entries[s].day
                 /\ \E l \in Imported : entries[s].day <= PostedOn[l]

(* Payments the statements speak for and nobody has decided on: the count  *)
(* at the head of the page.                                                *)
UnaddressedPayments == {s \in Seqs : Undecided(s) /\ InCoverage(s)}

UnmatchedPayments(sg) == {s \in sg.unmatchedPayments : InCoverage(s)}

UnmatchedPaymentsGrid(sg) == [do : {"not-in-bank"}, seq : UnmatchedPayments(sg)]

Recent(list) == {i \in 1 .. Len(list) : i > Len(list) - RecentShown}

ReviewsGrid == [do : {"undo-review"}, id : {i \in Recent(reviews) : Standing(reviews[i])}]
MatchesGrid == [do : {"undo-match"}, id : {i \in Recent(matches) : Standing(matches[i])}]

SetupSection == [do : {"settings"}, values : {s \in Settings : Valid(s)}]

ReconcilePage(u) ==
  When(MayReconcile(u),
       LET sg == BuildSuggestions
       IN  SuggestionsGrid(sg) \cup TiesGrid(sg) \cup UnmatchedPaymentsGrid(sg)
             \cup ReviewsGrid \cup MatchesGrid \cup SetupSection)

RecordLineForm(l) ==
  When(~ tab.archived, [do : {"record"}, line : {l}, method : {"transfer", "other"}])

LineState(l) ==
  CASE lines[l].state = "open"     -> RecordLineForm(l) \cup [do : {"ignore"}, line : {l}]
    [] lines[l].state = "recorded" -> [do : {"unrecord"}, line : {l}]
    [] lines[l].state = "ignored"  -> [do : {"unignore"}, line : {l}]
    [] OTHER                       -> {}

LineHistory(l) ==
  [do : {"undo-match"},
   id : {i \in 1 .. Len(matches) : matches[i].line = l /\ Standing(matches[i])}]

(* The page of one line, which its file's page lists. *)
ReconcileLine(u, l) == When(MayReconcile(u), LineState(l) \cup LineHistory(l))

----------------------------------------------------------------------------

(* Every form on a page that this person can open. *)
Offers(u) ==
  When(u \in active,
       TabCardView(u) \cup TabPay(u) \cup TabDetail(u) \cup AdminUsers(u)
         \cup ReconcilePage(u) \cup UNION {ReconcileLine(u, l) : l \in Imported})

----------------------------------------------------------------------------
(* Properties *)

(* The four forms that pages hold though they are refused when nothing has *)
(* changed: removing the last provider; an administrator's undo of their   *)
(* own old entry on a tab they have left; deactivating oneself; and a pair *)
(* of a tie that is itself outside the limits.                             *)
KnownRefusal(u, f) ==
  \/ f.do = "remove" /\ {p \in Users : role[p] = "provider"} = {f.who}
  \/ f.do = "undo"   /\ AsAdmin(u)
  \/ f.do = "active" /\ f.who = u
  \/ f.do = "confirm" /\ f \in TiesGrid(BuildSuggestions)
       /\ ~ InLimits(LineRec(f.line), PayRec(f.seq), set)

(* What a page offers, the server does: every form shown to the person who *)
(* is looking is accepted when it is posted at once, the known refusals    *)
(* aside.                                                                  *)
OfferedIsAccepted ==
  \A u \in Users : \A f \in Offers(u) : Accepts(u, f) \/ KnownRefusal(u, f)

(* The two ways the program asks which payments nobody has decided on say  *)
(* the same: the tab page's filter, from the marks on its rows, and the    *)
(* reconciliation's own query.                                             *)
FilterAgrees == Unreconciled = {s \in Seqs : Undecided(s)}

(* The suggestions on the page never prefer one of two equals. *)
SuggestionsAreFair ==
  Fair({LineRec(l) : l \in Open}, {PayRec(s) : s \in Candidates}, set)

(* Whatever was decided of a line can be taken back from its page, and     *)
(* whoever may reconcile is given the way to do it.                        *)
DecisionIsReversible ==
  \A u \in Users : MayReconcile(u) =>
    \A l \in Imported : lines[l].state # "open" =>
      \E f \in ReconcileLine(u, l) :
        f.do \in {"unrecord", "unignore", "undo-match"} /\ Accepts(u, f)

(* Every payment the page counts as unaddressed is somewhere on it: in a   *)
(* suggestion, in a tie, or among the payments with no bank line.          *)
EveryPaymentListed ==
  LET sg == BuildSuggestions
  IN  UnaddressedPayments \subseteq SeqsOf(Placed(sg)) \cup UnmatchedPayments(sg)

(* Each pair a tie shows can be confirmed by hand. *)
TiePairsConfirmable == \A f \in TiesGrid(BuildSuggestions) : Confirmable(f.line, f.seq)
=============================================================================
