--------------------------------- MODULE Pages ---------------------------------
(***************************************************************************)
(* One tab, its people and the bank's lines, as the web server's handlers  *)
(* change them.  Each form a page can hold is a record [do, ...]; Handle   *)
(* is the routing of a posted form to its handler, and a handler is one    *)
(* action: its guard is what the handler and the store check, so a form is *)
(* accepted exactly when Handle is enabled for it.  Anyone may post any    *)
(* form at any time, whatever page they have open.                         *)
(*                                                                         *)
(* Charges that accrue by themselves, late fees and interest are left to   *)
(* Accrual, LateFees and Interest; the concurrency of the writes below is  *)
(* in Reconcile.  A handler here is one step.                              *)
(***************************************************************************)
EXTENDS Suggest, Sequences

CONSTANTS
  Users, Admins,       \* the accounts, and those made as administrators
  Trusted,             \* the administrators allowed to reconcile from the first
  Creator, Payee, Kind, \* who made the tab, for whom, and of which kind
  Lines,               \* ids of the bank's lines
  PostedOn, Received,  \* a line's date and amount
  Named,               \* the lines whose text names the tab
  Paid, Charged,       \* amounts people type for payments, and for charges
  Methods,             \* the payment methods they choose
  ItemIds, Prices,     \* items the tab may cover, and what they may cost
  Settings, Defaults,  \* what may be typed on the setup page; what it starts as
  LastDay, MaxRequests \* bounds

ASSUME PagesAssumption ==
  /\ Lines \subseteq Nat /\ Named \subseteq Lines
  /\ Creator \in Users /\ Payee \in Users /\ Creator # Payee
  /\ Trusted \subseteq Admins /\ Admins \subseteq Users /\ Admins # {}

(* A statement's lines are so many, and figures are whole.                 *)
ASSUME FiguresAssumption ==
  /\ IsFiniteSet(Lines)
  /\ PostedOn \in [Lines -> Int] /\ Received \in [Lines -> Int]
  /\ Paid \subseteq Int /\ Charged \subseteq Int
  /\ Settings \cup {Defaults} \subseteq SettingsRows

VARIABLES
  day,
  active, reconcilers,   \* accounts in use, and those allowed to reconcile
  role,                  \* each account's role on the tab, or "none"
  tab,                   \* [kind, archived, installment]
  items,                 \* the price of each item it covers, 0 for no item
  entries,               \* the ledger, a seq being a position in it
  lines,                 \* each line's [state, rec]
  matches, reviews,      \* every match and review ever made
  set,                   \* the saved settings
  requests               \* how many forms were handled, to bound the runs

people == <<active, reconcilers, role>>
terms  == <<tab, items, set>>
recon  == <<lines, matches, reviews>>
vars   == <<day, people, terms, entries, recon, requests>>

Init ==
  /\ day = 0
  /\ active = Users
  /\ reconcilers = Trusted
  /\ role = [u \in Users |-> IF u = Creator THEN "provider"
                             ELSE IF u = Payee THEN "payee" ELSE "none"]
  /\ tab = [kind |-> Kind, archived |-> FALSE, installment |-> 0]
  /\ items = [i \in ItemIds |-> 0]
  /\ entries = <<>>
  /\ lines = [l \in Lines |-> [state |-> "absent", rec |-> 0]]
  /\ matches = <<>> /\ reviews = <<>>
  /\ set = Defaults
  /\ requests = 0

----------------------------------------------------------------------------
(* Who may do what. *)

Bills(u)     == role[u] \in {"provider", "admin"}
Transacts(u) == role[u] # "none"

(* An administrator off the tab reaches it, to manage it; one who is on it *)
(* has the rights of their role there and no more.                         *)
AsAdmin(u)   == role[u] = "none" /\ u \in Admins
Sees(u)      == Transacts(u) \/ AsAdmin(u)
CanManage(u) == Bills(u) \/ AsAdmin(u)

MayReconcile(u) == u \in Admins \cap reconcilers \cap active

----------------------------------------------------------------------------
(* The ledger. *)

Seqs == 1 .. Len(entries)

Reversed(s) == \E r \in Seqs : entries[r].undoes = s
Balance     == LET total[n \in 0 .. Len(entries)] ==
                     IF n = 0 THEN 0 ELSE total[n - 1] + entries[n].amount
               IN  total[Len(entries)]

Entry(kind, amount, by, at, method, fromBank) ==
  [kind |-> kind, amount |-> amount, by |-> by, day |-> at, method |-> method,
   fromBank |-> fromBank, undoes |-> 0]

(* Who reversed an entry, and when, no page or check below tells apart.    *)
Reversal(s) ==
  [entries[s] EXCEPT !.kind = "reversal", !.amount = -@, !.undoes = s]

Post(e) == entries' = Append(entries, e)

(* What has been decided of a payment. *)
Standing(m) == ~ m.undone
MatchOf(s)  == {i \in 1 .. Len(matches) : matches[i].seq = s /\ Standing(matches[i])}
DeltaOf(s)  == {i \in 1 .. Len(matches) : matches[i].delta = s /\ Standing(matches[i])}
ReviewOf(s) == {i \in 1 .. Len(reviews) : reviews[i].seq = s /\ Standing(reviews[i])}
(* Mutant of LineOf: a payment recorded from a line is like any other. *)
LineOfNothing(s) == {}
LineOf(s)   == {l \in Lines : lines[l].rec = s}

(* A payment nobody has decided on: the one thing that may be matched or   *)
(* set aside.                                                              *)
Undecided(s) ==
  /\ s \in Seqs
  /\ entries[s].kind = "payment" /\ ~ entries[s].fromBank
  /\ ~ Reversed(s)
  /\ MatchOf(s) = {} /\ ReviewOf(s) = {}

----------------------------------------------------------------------------
(* Money.  recordPayment serves the tab page and the dashboard's card. *)

RecordPayment(u, amount, method) ==
  /\ Transacts(u)
  /\ amount > 0 /\ method \in Methods
  /\ Post(Entry("payment", amount, u, day, method, FALSE))
  /\ UNCHANGED <<day, people, terms, recon>>

PostCharge(u, amount) ==
  /\ Bills(u)
  /\ amount > 0
  /\ Post(Entry("charge", -amount, u, day, "none", FALSE))
  /\ UNCHANGED <<day, people, terms, recon>>

PostAdjustment(u, amount, direction) ==
  /\ Bills(u)
  /\ amount > 0
  /\ Post(Entry("adjustment", IF direction = "debit" THEN -amount ELSE amount,
                u, day, "none", FALSE))
  /\ UNCHANGED <<day, people, terms, recon>>

Reopened(l) == [lines EXCEPT ![l] = [state |-> "open", rec |-> 0]]

(* Mutant of Unmake: the difference the match posted stays. *)
UnmakeLeavingDelta(i, first) ==
  /\ Standing(matches[i])
  /\ entries' = entries \o first
  /\ matches' = [matches EXCEPT ![i].undone = TRUE]
  /\ lines' = Reopened(matches[i].line)

(* A match and its difference go together, with the payment's own reversal *)
(* first when that is what was undone.                                     *)
Unmake(i, first) ==
  /\ Standing(matches[i])
  /\ LET delta == matches[i].delta IN
       /\ delta # 0 => ~ Reversed(delta)
       /\ entries' = entries \o first
                     \o (IF delta = 0 THEN <<>> ELSE <<Reversal(delta)>>)
  /\ matches' = [matches EXCEPT ![i].undone = TRUE]
  /\ lines' = Reopened(matches[i].line)

(* Undoing an entry on the tab page undoes whatever reconciliation tied to *)
(* it as well.                                                             *)
PostUndo(u, s) ==
  /\ Transacts(u)
  /\ s \in Seqs
  /\ Bills(u) \/ entries[s].by = u
  /\ entries[s].kind # "reversal" /\ ~ Reversed(s)
  /\ \/ \E i \in MatchOf(s) : Unmake(i, <<Reversal(s)>>)
     \/ \E i \in DeltaOf(s) : Unmake(i, <<>>)
     \/ \E l \in LineOf(s) : /\ Post(Reversal(s))
                             /\ lines' = Reopened(l)
                             /\ UNCHANGED matches
     \/ /\ MatchOf(s) \cup DeltaOf(s) \cup LineOf(s) = {}
        /\ Post(Reversal(s))
        /\ UNCHANGED <<lines, matches>>
  /\ UNCHANGED <<day, people, terms, reviews>>

----------------------------------------------------------------------------
(* Who is on the tab, and what it is. *)

PostParticipant(u, who, as) ==
  /\ CanManage(u)
  /\ as \in {"payee", "admin"}
  /\ who \in active
  /\ role[who] = "none"
  /\ role' = [role EXCEPT ![who] = as]
  /\ UNCHANGED <<day, active, reconcilers, terms, entries, recon>>

PostParticipantRemove(u, who) ==
  /\ CanManage(u)
  /\ role[who] # "none"
  /\ role[who] = "provider" =>
       \E other \in Users \ {who} : role[other] = "provider"
  /\ role' = [role EXCEPT ![who] = "none"]
  /\ UNCHANGED <<day, active, reconcilers, terms, entries, recon>>

PostTabDetails(u, kind) ==
  /\ CanManage(u)
  /\ tab' = [tab EXCEPT !.kind = kind]
  /\ UNCHANGED <<day, people, items, set, entries, recon>>

(* The one button archives and brings back. *)
PostTabArchive(u) ==
  /\ CanManage(u)
  /\ tab' = [tab EXCEPT !.archived = ~ @]
  /\ UNCHANGED <<day, people, items, set, entries, recon>>

PostLoanTerms(u, installment) ==
  /\ CanManage(u)
  /\ tab.kind = "payoff"
  /\ tab' = [tab EXCEPT !.installment = installment]
  /\ UNCHANGED <<day, people, items, set, entries, recon>>

PostItem(u, i, price) ==
  /\ CanManage(u)
  /\ items[i] = 0
  /\ items' = [items EXCEPT ![i] = price]
  /\ UNCHANGED <<day, people, tab, set, entries, recon>>

PostItemUpdate(u, i, price) ==
  /\ CanManage(u)
  /\ items[i] # 0
  /\ items' = [items EXCEPT ![i] = price]
  /\ UNCHANGED <<day, people, tab, set, entries, recon>>

PostItemRemove(u, i) ==
  /\ CanManage(u)
  /\ items[i] # 0
  /\ items' = [items EXCEPT ![i] = 0]
  /\ UNCHANGED <<day, people, tab, set, entries, recon>>

----------------------------------------------------------------------------
(* Accounts. *)

PostAdminUserActive(u, who, on) ==
  /\ u \in Admins
  /\ ~ on => /\ who # u
             /\ who \in Admins \cap active => Admins \cap active # {who}
  /\ active' = IF on THEN active \cup {who} ELSE active \ {who}
  /\ UNCHANGED <<day, reconcilers, role, terms, entries, recon>>

PostAdminUserReconcile(u, who, on) ==
  /\ u \in Admins
  /\ who \in Admins
  /\ reconcilers' = IF on THEN reconcilers \cup {who} ELSE reconcilers \ {who}
  /\ UNCHANGED <<day, active, role, terms, entries, recon>>

----------------------------------------------------------------------------
(* Reconciliation. *)

LineRec(l) == [id |-> l, day |-> PostedOn[l], amount |-> Received[l],
               named |-> l \in Named]
PayRec(s)  == [seq |-> s, day |-> entries[s].day, amount |-> entries[s].amount,
               method |-> entries[s].method]

Imported == {l \in Lines : lines[l].state # "absent"}
Open     == {l \in Lines : lines[l].state = "open"}

(* A statement is uploaded: what the bank posted by today and is not there *)
(* yet.                                                                    *)
Import ==
  LET new == {l \in Lines : lines[l].state = "absent" /\ PostedOn[l] <= day}
  IN  /\ new # {}
      /\ lines' = [l \in Lines |-> IF l \in new THEN [lines[l] EXCEPT !.state = "open"]
                                    ELSE lines[l]]
      /\ UNCHANGED <<day, people, terms, entries, matches, reviews, requests>>

(* The difference of a match: another payment when the bank had more, a    *)
(* debit when it had less.                                                 *)
Difference(l, s, by) ==
  LET d == Received[l] - entries[s].amount
  IN  IF d = 0 THEN <<>>
      ELSE <<Entry(IF d > 0 THEN "payment" ELSE "adjustment", d, by,
                   PostedOn[l], "none", TRUE)>>

Confirmable(l, s) ==
  /\ lines[l].state = "open"
  /\ Undecided(s)
  /\ InLimits(LineRec(l), PayRec(s), set)

ConfirmPair(u, l, s) ==
  /\ Confirmable(l, s)
  /\ LET delta == Difference(l, s, u) IN
       /\ entries' = entries \o delta
       /\ matches' = Append(matches,
            [line |-> l, seq |-> s, undone |-> FALSE,
             delta |-> IF delta = <<>> THEN 0 ELSE Len(entries) + 1])
  /\ lines' = [lines EXCEPT ![l].state = "matched"]

PostReconcileConfirm(u, l, s) ==
  /\ MayReconcile(u)
  /\ ConfirmPair(u, l, s)
  /\ UNCHANGED <<day, people, terms, reviews>>

(* Undecided payments around the open lines: none when no line is open. *)
Candidates ==
  {s \in Seqs : /\ Undecided(s)
                /\ \E l \in Open : entries[s].day >= PostedOn[l] - set.window
                /\ \E l \in Open : entries[s].day <= PostedOn[l] + set.window}

BuildSuggestions ==
  Suggestions({LineRec(l) : l \in Open}, {PayRec(s) : s \in Candidates}, set)

ExactMatch(p) == [line |-> p.line, seq |-> p.seq, undone |-> FALSE, delta |-> 0]

(* Every suggestion of equal amounts, one after another, in their order.   *)
(* Each is of its own line and payment, so none gets in another's way.     *)
Confirmed(exact) ==
  LET made[ps \in SUBSET exact] ==
        IF ps = {} THEN matches
        ELSE Append(made[ps \ {Last(ps)}], ExactMatch(Last(ps)))
  IN  made[exact]

PostReconcileConfirmExact(u) ==
  /\ MayReconcile(u)
  /\ LET exact == {p \in BuildSuggestions.suggestions : p.exact}
     IN  /\ matches' = Confirmed(exact)
         /\ lines' = [l \in Lines |-> IF l \in LinesOf(exact)
                                      THEN [lines[l] EXCEPT !.state = "matched"]
                                      ELSE lines[l]]
  /\ UNCHANGED <<day, people, terms, entries, reviews>>

PostReconcileUndo(u, i) ==
  /\ MayReconcile(u)
  /\ i \in 1 .. Len(matches)
  /\ Unmake(i, <<>>)
  /\ UNCHANGED <<day, people, terms, reviews>>

PostRecordLine(u, l, method) ==
  /\ MayReconcile(u)
  /\ lines[l].state = "open"
  /\ ~ tab.archived
  /\ method \in {"transfer", "other"}
  /\ Post(Entry("payment", Received[l], u, PostedOn[l], method, TRUE))
  /\ lines' = [lines EXCEPT ![l] = [state |-> "recorded", rec |-> Len(entries) + 1]]
  /\ UNCHANGED <<day, people, terms, matches, reviews>>

PostUnrecordLine(u, l) ==
  /\ MayReconcile(u)
  /\ lines[l].state = "recorded"
  /\ ~ Reversed(lines[l].rec)
  /\ Post(Reversal(lines[l].rec))
  /\ lines' = Reopened(l)
  /\ UNCHANGED <<day, people, terms, matches, reviews>>

LineTransition(u, l, from, to) ==
  /\ MayReconcile(u)
  /\ lines[l].state = from
  /\ lines' = [lines EXCEPT ![l].state = to]
  /\ UNCHANGED <<day, people, terms, entries, matches, reviews>>

PostPaymentNotInBank(u, s) ==
  /\ MayReconcile(u)
  /\ Undecided(s)
  /\ reviews' = Append(reviews, [seq |-> s, undone |-> FALSE])
  /\ UNCHANGED <<day, people, terms, entries, lines, matches>>

PostUndoPaymentReview(u, i) ==
  /\ MayReconcile(u)
  /\ i \in 1 .. Len(reviews)
  /\ Standing(reviews[i])
  /\ reviews' = [reviews EXCEPT ![i].undone = TRUE]
  /\ UNCHANGED <<day, people, terms, entries, lines, matches>>

PostReconcileSettings(u, s) ==
  /\ MayReconcile(u)
  /\ Valid(s)
  /\ set' = s
  /\ UNCHANGED <<day, people, tab, items, entries, recon>>

----------------------------------------------------------------------------
(* The forms, and the handlers they reach. *)

(* A request adds two entries at most. *)
Numbers == 1 .. 2 * MaxRequests

Forms ==
  [do : {"payment", "settle"}, amount : Paid, method : Methods]
    \cup [do : {"charge"}, amount : Charged]
    \cup [do : {"adjustment"}, amount : Charged, direction : {"credit", "debit"}]
    \cup [do : {"undo", "not-in-bank"}, seq : Numbers]
    \cup [do : {"participants"}, who : Users, as : {"payee", "admin"}]
    \cup [do : {"remove"}, who : Users]
    \cup [do : {"details"}, kind : {"services", "payoff"}]
    \cup [do : {"archive", "confirm-exact"}]
    \cup [do : {"loan"}, installment : Prices]
    \cup [do : {"items", "item-update"}, item : ItemIds, price : Prices]
    \cup [do : {"item-remove"}, item : ItemIds]
    \cup [do : {"active", "can-reconcile"}, who : Users, on : BOOLEAN]
    \cup [do : {"confirm"}, line : Lines, seq : Numbers]
    \cup [do : {"record"}, line : Lines, method : {"transfer", "other"}]
    \cup [do : {"unrecord", "ignore", "unignore"}, line : Lines]
    \cup [do : {"undo-match", "undo-review"}, id : Numbers]
    \cup [do : {"settings"}, values : Settings]

Handle(u, f) ==
  /\ u \in active
  /\ \/ f.do \in {"payment", "settle"} /\ RecordPayment(u, f.amount, f.method)
     \/ f.do = "charge"        /\ PostCharge(u, f.amount)
     \/ f.do = "adjustment"    /\ PostAdjustment(u, f.amount, f.direction)
     \/ f.do = "undo"          /\ PostUndo(u, f.seq)
     \/ f.do = "participants"  /\ PostParticipant(u, f.who, f.as)
     \/ f.do = "remove"        /\ PostParticipantRemove(u, f.who)
     \/ f.do = "details"       /\ PostTabDetails(u, f.kind)
     \/ f.do = "archive"       /\ PostTabArchive(u)
     \/ f.do = "loan"          /\ PostLoanTerms(u, f.installment)
     \/ f.do = "items"         /\ PostItem(u, f.item, f.price)
     \/ f.do = "item-update"   /\ PostItemUpdate(u, f.item, f.price)
     \/ f.do = "item-remove"   /\ PostItemRemove(u, f.item)
     \/ f.do = "active"        /\ PostAdminUserActive(u, f.who, f.on)
     \/ f.do = "can-reconcile" /\ PostAdminUserReconcile(u, f.who, f.on)
     \/ f.do = "confirm"       /\ PostReconcileConfirm(u, f.line, f.seq)
     \/ f.do = "confirm-exact" /\ PostReconcileConfirmExact(u)
     \/ f.do = "undo-match"    /\ PostReconcileUndo(u, f.id)
     \/ f.do = "record"        /\ PostRecordLine(u, f.line, f.method)
     \/ f.do = "unrecord"      /\ PostUnrecordLine(u, f.line)
     \/ f.do = "ignore"        /\ LineTransition(u, f.line, "open", "ignored")
     \/ f.do = "unignore"      /\ LineTransition(u, f.line, "ignored", "open")
     \/ f.do = "not-in-bank"   /\ PostPaymentNotInBank(u, f.seq)
     \/ f.do = "undo-review"   /\ PostUndoPaymentReview(u, f.id)
     \/ f.do = "settings"      /\ PostReconcileSettings(u, f.values)

(* Whether a posted form does what it says.  Confirming every exact match  *)
(* is refused to no one who may reconcile, however few there are.          *)
Accepts(u, f) ==
  \/ f.do = "confirm-exact" /\ MayReconcile(u)
  \/ f.do # "confirm-exact" /\ ENABLED Handle(u, f)

NextDay ==
  /\ day < LastDay
  /\ day' = day + 1
  /\ UNCHANGED <<people, terms, entries, recon, requests>>

Next ==
  \/ NextDay
  \/ Import
  \/ \E u \in Users, f \in Forms :
       /\ requests < MaxRequests
       /\ Handle(u, f)
       /\ requests' = requests + 1

Spec == Init /\ [][Next]_vars
=============================================================================
