# A specification of BitTabby

BitTabby is a self-hosted web application that keeps money tabs between people:
what is charged every month, what was lent, what has been paid, what is overdue,
and what the bank saw of it. The whole state is in one database (SQLite, or
MariaDB), reached by request handlers that share nothing else. There is no
scheduler and no worker: billing, late fees and interest are posted *by whoever
looks at a tab*, and notices are sent when a cron job calls an endpoint. So the
program's correctness rests on idempotency keys, claims, unique indexes,
row locks and the order in which a handler reads and writes: what these modules
are about.

The modules are TLA+. TLC checks them on small instances (the `.cfg` files);
TLAPS proves the theorems of the `*Proofs` modules for every instance.

    tlc -config MCReconcile.cfg MCReconcile     # check one instance
    tlapm ReconcileProofs.tla                   # check the proofs of one module

`PROJECT.json` lists the runs, which property each answers for, the source lines
every definition stands for, the hazards and what was found.

## 1. The system

| Component | State it keeps | Operations | Hard because |
| --- | --- | --- | --- |
| **Entry store** `store/sqldb/entries.go` | `entries` (append-only: number, tab, kind, amount, idempotency key, what it reverses), claims in `posted_periods`, `posted_fees`, `posted_interest` | PostEntry, PostPeriodEntry, PostFeeEntry, PostInterestEntry | several statements to a transaction; unique indexes that wait; commits whose answer is lost; retries |
| **Ledger service** `ledger/ledger.go` | none | Charge, Payment, Adjustment, Reverse, Balance | a reversal is looked up, decided on, and posted in three steps |
| **Accrual** `ledger/accrual.go`, `web/server.go` accrueTab | none: derived from items, schedule and claims | Accrue, on every read of a tab | readers race; items, schedule and clock move between their reads; a tab opened after months bills the past |
| **Tab items** `store/sqldb/tabs.go` | `tab_items`, each row with the interval it was carried in | AddItem, UpdateItem, RemoveItem, ItemsAsOf | read and write in one transaction, without a lock |
| **Late fees** `ledger/fees.go`, `fee/fee.go` | `posted_fees` | assessFees, after accrual | windows between deadlines; a cap over fees that others post and waive |
| **Interest and loans** `ledger/{interest,allocate,payoff,plan,forecast}.go`, `loan/` | `posted_interest`, the loan's terms | accrueInterest, AllocateLoan, ComputePayoff, ComputePlan, ComputeForecast | each period's base depends on the entries before it, also on backdated and undone ones; a search over payments and periods |
| **Reconciliation** `ledger/reconcile.go`, `store/sqldb/{matches,lines,reviews}.go` | `bank_lines` (state, recorded entry), `bank_matches`, `payment_reviews` | confirm, record, ignore, set aside, and the undo of each from two pages | decisions are in three tables; an undo looks up what it must do in one transaction and does it in another |
| **Bank import** `store/sqldb/{bank,reconcile}.go`, `bankcsv/`, `web/handlers_reconcile_import.go` | `bank_formats`, `bank_imports`, `bank_lines`, ignore rules | upload, mapping, preview, SaveBankImport, AddIgnoreRule | overlapping files, two requests for one layout, deadlocks retried from the top, rules read before the lines they apply to |
| **Suggestions** `reconcile/reconcile.go` | none | Suggest | ties between equally good pairs |
| **Notification tick** `web/handlers_tick*.go`, `notify/` | `sent_notifications` | three scans under one ceiling | a claim follows its delivery; crashes, lost answers, overlapping ticks, starvation |
| **Accounts** `store/sqldb/accounts.go`, `auth/`, `web/handlers_{auth,admin,profile}.go` | users, sessions, setup latch | CompleteSetup, login, SetUserActive, SetCanReconcile, password changes | the last administrator; two set-ups at once; a request goes on after its account or session has ended |
| **Pending uploads** `web/pendingupload.go` | a bounded map in memory | put, get, drop | expiry and eviction |
| **Calendar, money, statements** `schedule/`, `money/`, `ledger/statement.go` | none | pure functions | month ends, rounding, overflow |
| **Tabs, roles and pages** `web/handlers_*.go`, `web/views`, `store/sqldb/{tabs,participants}.go` | people, roles, settings; the forms an open page holds | one handler per form, one view per page | each page recomputes in its own words what the handlers and the store will accept |
| **Configuration, start** `cmd/`, `config/` | none of their own | | |

They interact through calls and rows only. A page of a tab calls
`accrueTab`: it reads the item history (tab items) and the clock, posts the
cycles due (entry store), then assesses fees over the entries, then interest.
An undo on the tab's page is the ledger's Reverse, which asks reconciliation
whether a bank line, a match or a match's difference hangs on the entry, and
hands over to it if so. The tick reads balances and entries like a page does and
writes claims of its own. No lock is held between any two of these.

What makes each part correct:

- *Entry store*: one entry per key; a claim exactly with its entry; one exact
  reversal per entry; nothing removed; a reply that is true; every posting
  answered.
- *Accrual and items*: each day covered by one charge, for what the tab carried
  on its due date, not early; a completed read leaves nothing due behind; edits do
  not change the past.
- *Late fees*: a date fined once for good; nobody fined whose payment within the
  window was on the books; every missed date with room under the cap is fined; the
  cap holds, or is overrun by readers at once and by no more than each can.
- *Reconciliation*: one decision per payment and per line; the line says what the
  tab holds; a difference lives and dies with its match; a refusal means the
  thing is undone already; the balance is explained to the cent.
- *Interest*: each due period is charged once, on the principal of its date; the
  balance on every page is the sum of the ledger, up to what is dated ahead; a forecast that is followed comes
  true; a suggested payment is the least that ends the loan in time.
- *Import*: of every line as many are kept as the file that shows most of them
  shows; an import's counts add up; a rule catches the lines there and to come; no two
  imports wait for each other; an upload is lost to one's own next, to time, or to a
  crowd.
- *Accounts*: an administrator remains; setup makes one account; a changed password
  or a deactivation leaves no session of before.
- *Pages*: what is offered is accepted; two queries for one thing agree; no
  suggestion is a choice between equals; each decision can be taken back.
- *Tick*: nobody told twice without a mishap; nothing claimed that was not told;
  nothing retracted told; a quiet tick has left nothing; everyone told in the end.

## 2. The modules

| Module | What it is |
| --- | --- |
| `Postings` | What a posting is: forms, claims and undos, their keys, the row and the claim they leave, and when the unique indexes admit them. |
| `Book` | The abstract ledger: every posting is one atomic step. |
| `EntryStore` | The transactions that implement it, statement by statement. |
| `TabItems` | The items of a Services tab and the two-statement update. |
| `Accrual` | Billing a tab by reading it. Extends `TabItems`. |
| `LateFees` | Assessing fees by reading it. |
| `Reconcile` | Bank lines, matches, reviews, and undos in two steps. |
| `Notify` | The tick, its three scans, and the world around them. |
| `BankFile` | A statement file: guessing its columns, the readings of a date and an amount, the fingerprints of its lines. |
| `Statements` | The abstract import: how many of each line are kept. |
| `BankImport` | Uploads, mappings, imports and rules. Extends `BankFile`, implements `Statements`. |
| `Access` | Setup, accounts, sessions and passwords. |
| `Calendar`, `Loan`, `Payoff` | Pure: days and periods; allocation, interest and amortisation; what the loan's page derives from them. |
| `Interest` | Charging interest by reading a tab. Extends `Payoff`. |
| `Suggest` | Pure: scores, suggestions, ties and the rest. |
| `Pages` | Every form of a tab, of the accounts page and of reconciliation, each with its handler. Extends `Suggest`. |
| `PageViews` | The pages, each as the set of forms it holds for a viewer. Extends `Pages`. |
| `MC...` | The instances TLC runs: sets, functions and symmetry. |
| `LedgerProofs` | Lemmas and theorems of `Postings`, `Book` and `EntryStore`, `TabItems` and `Accrual`. |
| `LateFeesProofs`, `ReconcileProofs`, `NotifyProofs`, `BankImportProofs` | Those of the module of their name. |
| `InterestProofs` | Those of `Interest`, and of `Calendar`, `Loan` and `Payoff` below it. |
| `WebProofs` | Those of `Access`, and of `Suggest`, `Pages` and `PageViews`. |
| `FiniteSums` | Lemmas on finite sets, on sums over them, and on functions defined by recursion over a finite set's subsets or over a number of steps. |

Two refinements join them. `EntryStore` implements `Book` (`Abstract == INSTANCE Book`,
the committed rows and claims mapped to themselves): that is what lets `Accrual`,
`LateFees`, `Interest` and `Reconcile` treat the posting of one entry as one step.
`BankImport` implements `Statements`, its committed lines counted by what they say.
In the same way `Pages` takes each handler as one step because `Reconcile`, `Access` and
`BankImport` look inside the handlers that are not.

### Book, Postings, EntryStore

A posting (`Job`) is a form with the key in its page, an accrual with the key
derived from its claim, or an undo with a random key and a target. `Unused` is
the three unique indexes: number, key, `reverses_seq`. In `EntryStore` a handler
goes `insert -> claim -> commit`, or to `lookup` when an index refuses it:

| Action | Code |
| --- | --- |
| `SubmitForm`, `Accrue`, `SubmitUndo` | postPayment, Accrue's loop, Reverse up to the store |
| `InsertEntry` | insertEntry: draws a number, waits for an open transaction with its key or target (`Waits`), fails on a committed one |
| `InsertClaim` | the claim's INSERT in PostPeriodEntry and its two twins |
| `Commit` | both rows appear; the answer may be lost |
| `Lookup` | entryByIdempotencyKey, entryForPeriod: replay, or a conflict |
| `Abort` | an error, a deadlock's victim, a crash: rollback |

### TabItems and Accrual

A reader takes its steps in the order of the code: the tab (`ReadTab`), its item
history (`ReadHistory`), clock and claims (`ReadClaims`), then a posting for each
cycle (`PostPeriod`), oldest first; another reader's posting is passed over.
Days are numbers; an instant is a day's first moment, the tab's creation, or
"during the day". `Free` makes `UpdateItem`'s two statements exclusive on SQLite
(`Parallel = FALSE`) and not on MariaDB.

### LateFees

Entries are read first (`ReadEntries`), then claims and clock (`ReadClaims`), and
the fees are posted in date order (`PostFee`) with a running total that starts
from the entries read. `Points` and `PaidWindow` are servicesExpectations and
paidWindow, `Assess` is Policy.Assess with a flat fee. A payment takes effect today
when somebody enters it (`Pay`), and on any day of the calendar, past or to come, when
reconciliation posts it (`PostOnBankDate`: a recorded bank line, or the difference of a
match). Its row keeps the day it was recorded beside that (`asOf`), and a fee's the day
its reader took for today: `KnownPaidIsNotFined` is about these, no action reads them.

### Reconcile

Each store method is one transaction and one step: `Confirm`, `RecordLine`,
`IgnoreBankLine`, `UnignoreBankLine`, `SetPaymentNotInBank`, `UndoPaymentReview`,
`UnmakeMatch`, `Unrecord`, `PostReversal`. An undo is a request (`req`) that first
looks up what to do (`Reverse`, `UndoMatch`, `UnrecordLine`, using `ReconLinks`) and
then does it, finds it undone (`FallBack`), or gives up (`GiveUp`).

### Notify

A tick goes through three scans: it lists the tab and reads the day, derives its
items, and takes them in order: skipped when claimed or switched off (`Skip`),
deferred when the ceiling is reached (`Defer`), otherwise charged (`Take`),
delivered, claimed. `told`, `again`, `mishaps` and the fields `always` and `never` of a
tick are history: no guard of the code's actions reads them.

### BankFile and BankImport

`Guess` and `Apply` are GuessMapping and Apply over cells that are known only by how
they read (as which dates under which layout, as which amounts with which decimal
sign). `Fingerprints` counts repeated lines within a file, so that two equal
deposits on one day are two lines. An import is a request (`req`):

| Action | Code |
| --- | --- |
| `UploadKnown`, `UploadUnknown` | postBankUpload: a known layout is imported at once, another waits in `pending` |
| `Put`, `Get`, `Drop`, `Expire`, `Restart` | pendingUploads: own one replaced, then the oldest evicted at the limit; the ttl; memory is lost |
| `PreviewMapping`, `SaveMapping`, `Create` | postBankMapping: the screen's token is looked up, then the mapping is tried or checked, the layout saved and the upload dropped |
| `ListIgnoreRules` | the handler reads the layout's ignore rules before the transaction begins |
| `Begin`, `InsertLine`, `Commit` | SaveBankImport: the import's row locks its layout's; a line is stored unless its fingerprint is there, in the state the rules give it; the counts go with the commit |
| `Deadlocked`, `Fail` | retried from the top up to `Attempts` times; rolled back |
| `AddIgnoreRule`, `DeleteIgnoreRule`, `DecideLine`, `ReopenLine` | a new rule catches the open lines there are; people decide on lines meanwhile |

### Access

A request is resolved to its user when it begins (`Resolve`) and acts later. A
deactivation is two steps, `Deactivate` (the administrators are read FOR UPDATE) and
`Decide`; rows it holds make the writers of those rows wait (`LockedFrom`). Setup and
login likewise check first and write later (`PostSetup` / `CompleteSetup`, `PostLogin` /
`Issue`), and a password is changed in two transactions (`PostPassword`,
`RevokeOthers`), between which the process may die.

### Calendar, Loan, Payoff, Interest

`Period`, `Nth` and `DueThrough` are the schedule's; `Allocate`, `AllocateLoan` and
`InterestFor` the ledger's and the money package's; `ComputePayoff`, `ComputePlan` and
`ComputeForecast` the loan's page. `Interest` is the tab they are computed from: a
reader goes `ReadTab`, `ReadEntries`, `ReadClaims`, then charges the periods in order
(`PostInterest`), passes over those without principal (`PassOver`) and those somebody
charged first (`Replayed`), while people post, undo and change the terms, and while
reconciliation posts at noon of the bank's dates, which no code compares with today: a
line as a payment (`RecordBankLine`), and what a line has more or less than a
payment as a payment or a debit adjustment (`ConfirmMatch`). An instant is four times its
day's number at midnight, two more at noon.

### Suggest, Pages, PageViews

`Pages!Handle(u, f)` is the routing of a posted form: each form's handler is an action
whose guard is what the middleware, the handler and the store check. So a form is
accepted exactly when its action is enabled, and `Pages!Accepts` is that. The views
(`TabDetail`, `TabPay`, `TabCardView`, `AdminUsers`, `ReconcilePage` and `ReconcileLine`) are written from the templates and the data their handlers load, each as the
set of forms a viewer finds there. `OfferedIsAccepted` compares the two in every state.
Four known refusals are excepted by name (`KnownRefusal`), each described in section 5.

## 3. The runs

| Run | Bounds | Shows |
| --- | --- | --- |
| `entry_store` | two handlers, one tab, one form key, one cycle, four numbers | claims and entries appear together, true replies, the refinement of `Book`, and that no handler waits for ever |
| `accrual` | two readers, one editor, three days, two item rows, one schedule billed either way, SQLite | billing is once, right and complete, over edits, switches and archiving |
| `late_fees` | two readers, three days, one payment entered or of any bank date, one undo, a cap below the fee | a date fined once, the payer on the books not fined, the fees within a cap for each reader, the missed date fined |
| `reconcile` | two undos, two lines (2 and 3), two amounts, tolerance 1, three entries besides reversals, two matches, one review | the four promises and the balance |
| `notify` | two ticks, payee and provider, a ceiling of one, one payment, one change, one mishap, two days | at most once without a mishap, at least once in the end |
| `bank_import` | three people, two requests, two overlapping files, room for two uploads, two attempts, three tokens, two imports, one fault, two changes | the refinement of `Statements`, counts, rules, eviction, no deadlock |
| `access` | three people, two requests, two sessions, two password changes, four changes to accounts | an administrator remains; no session outlives its right |
| `interest` | two readers, a loan of the 31st over three days, four entries, one bank date (ahead of the first two days, before the last), differences of 4 and -8, 10 % a month, a term of three, one change of terms (to no interest or a larger payment) | interest on principal; due days; balance, forecast and plan agree with the ledger |
| `pages` | three people, two administrators of whom one may reconcile, lines of 100 and 90 on two days, payments of 95 and 100, four posted forms | pages, handlers and queries agree |
| `interest_race` | the same loan, two readers | *violated*: interest on principal computed without a charge |
| `payments_listed` | as `pages` | *violated*: a payment counted and not listed |
| `ties_confirmable` | two lines of one day, payments of 95 and 105 | *violated*: a button the server refuses |

Why these bounds are enough to be worth running: every interaction modelled is
between two parties (two transactions over one key, two readers over one date, an
undo and a decision, two ticks over one item), so two of each suffice for the
races; the third entry number, day or matched entry lets the loser of a race try
again *after* the winner's effect was itself undone. The fourth number in
`entry_store` is for a lost commit, its retry, an undo and the undo's rival. Two
lines with one difference above and one below zero reach both signs of `Delta` and
two payments that fit one line. A ceiling of one with two places makes every tick
defer. Three people and room for two uploads
make a crowd; two equal deposits in one file and one in the other tell counting
from matching; a loan of the 31st meets February and comes back in March, and a
rate of 10 % a month makes each amount differ visibly from its neighbours; the one bank
date, in February, is to come on the first two days and falls between two charged
periods on the third; people post after noon (`Hours`), so before and after what the bank
dates; a cap below the fee is filled by one fee, so two readers at once reach twice the cap; two
lines and two payments are the smallest tie and the smallest contest. Each
property has a mutant of the code that violates it inside these bounds (`PROJECT.json`, "mutants"; their definitions stand beside what they mutate).

Symmetry is used on readers, editors, requests and people in the runs that check
safety only. Deadlock is checked in `entry_store`, `accrual`, `late_fees`, `reconcile`
and `notify`: a model that comes to rest at one of its bounds has an explicit step for
that (`Quiet`, `QuietItems`), enabled only when nobody waits. The runs of `BankImport`,
`Access`, `Interest` and `Pages` do not check it (`CHECK_DEADLOCK FALSE`): their requests
simply stop when the bounds on what is asked for are used up. That two imports do not
wait for each other is a property there (`NeverDeadlocked`). Five runs reach between 300,000 and
600,000 distinct states; `late_fees` reaches 2.0 million, `reconcile` 2.6 million and
`interest` 3.8 million.

### Fairness

- `EntryStore`: weak fairness of the statements after the first; *strong* fairness of
  `InsertEntry`. An insert is disabled while another transaction holds the key and
  enabled again when that ends; the lock queues of both databases serve waiters in
  turn (SQLite by a single connection with a queue in `database/sql`), so an insert
  that becomes possible again and again happens. Nothing is assumed of `Abort` or of
  new postings.
- `Notify`: the cron keeps calling (weak fairness of `Start`), a handler that runs goes
  on (weak fairness of its next step, whichever it is), and a server that is
  asked again and again takes a message in the end (strong fairness of `Deliver`). The
  last is an assumption on mail servers; section 5 says what happens to the *others*
  when it fails for one of them.

The other modules claim safety only: nothing in the code promises that anybody
reads a tab.

## 4. What is proved

All theorems are about every set of handlers, readers, people, tabs, keys, requests and
lines, all amounts, any number of entries: no bound of a run is assumed. They use the
named assumptions on constants (`AmountsAssumption` and so on), which TLC evaluates.
Where a theorem needs a hypothesis of its own it states it (see Accrual, LateFees and Interest).
Together the theorems state all safety properties of the passing runs but two, which the end of this section names.

**Book** (`LedgerProofs`). `OncePerKey`, `ClaimedTogether` and `ReversedOnce` are inductive
together with the types of the fields they compute with. A step adds one row;
each conjunct compares the new row with an old one.

**EntryStore** (`LedgerProofs`). `TypeOK /\ StoreInv` is inductive, where `StoreInv` says
what an open transaction is entitled to: its number is behind the counter, its row
is alone under its number, key and target among rows committed *and open* (that is
what waiting buys, and what `Unused` at commit needs), no claim stands in its way,
and its job comes from a form, an accrual or a committed entry. With it each step
is a step of `Book` or leaves the rows alone (`StoreImplementsBook`), so the promises
of `Book` hold of the store (`StoreKeepsItsPromises`), and rows are never removed
(`StoreOnlyAppends`). `RepliesAreTrue` needs one thing more, `Founded`: a handler that has
rolled back met a committed entry with its key or its target, and that entry stays. So the
look-up that follows finds it, whatever happens in between.

**Reconcile** (`ReconcileProofs`). `OneDecision`, `LineTellsTheTruth`, `DifferenceFollowsMatch` and
`RefusedIsUndone` are not inductive. The invariant `IInv` adds three things.
`Numbered`: entries and matches are numbered without gaps, so a new one is nobody's
yet. `Tied`: a match names a payment made by hand and a difference of its own, a
recorded line names a payment of reconciliation's that is no difference; so
reversing one of the three never takes another down. `Pending`: what an undo has
looked up is still so, or was undone by somebody else; in particular an entry
that is to be plainly reversed never *becomes* a difference or a recorded payment,
although it may become matched, which is the finding below. `RefusedIsUndone` then
follows from `IInv` state by state.

`BalanceIsExplained` is about sums. `IInv` gives `Books` and `Names`: numbered rows, and
standing matches that name payments made by hand, each a payment of its own. `Explained` adds
that every entry of reconciliation's that stands is a match's difference or a line's payment
(`Covered`) and that a match's payment and difference make up what the bank shows (`AddsUp`).
An action changes two or three of entries, matches and lines together, and between those
changes the books are off by an amount: `Excess` says by which, and each action is a chain of
single changes (an entry posted, an entry reversed, a line recorded or released, a match made
or undone) that ends with an excess of nought.

**Access** (`WebProofs`). That an administrator remains is not inductive: the decision of
a deactivation rests on rows read one step earlier. `Held` says that the administrators
it counted are locked and still active, `Apart` that no two deactivations have
locked the same row, `Made` that nobody exists before setup, `Owned` that a session and the
request that goes on by it are of somebody. So two administrators cannot put each other
out: the second waits, and counts anew. `Recorded` says that the password a change has
stored is not ahead of its account's, which the sessions' properties
(`ChangeEndsOthers`, `DeactivationEndsSessions`) need, as a request can be between storing
the password and ending the sessions when anything else happens. `MadeByAdmins` is an
action property from the same invariant.

**Accrual** (`LedgerProofs`). Billing is right although a reader works from an item history it
read before. The invariant has the items' part (`ItemRows`: numbered without gaps, dated
between the tab's creation and now; `Alone`: a row that an update has read is still
carried) and, for each reader, that the history it holds agrees with the rows on all
that was before its day. A charge then bills what the tab carried when its cycle came due
(`ChargesBillWhatWasCarried`), and an edit moves nothing before today (`EditsKeepThePast`).
Both are for `OneConnection`: one connection, and a clock read beside its use; without either
TLC violates them (section 5). `DaysAreBilledOnce` is for schedules of one anchor and
interval (`OneGrid`), whatever the billing rule, and `ReadsCatchUp` for a batch that holds every cycle
of the calendar (`BatchSuffices`): two more of the findings below.

**LateFees** (`LateFeesProofs`). `FinedOncePerDate` is inductive as it stands: a fee is posted in the step
that looks for its date's claim, and waiving it does not take the claim away. It needs
nothing of what the readers have read, and so holds of stale ones. What a reader has read
matters to the other three, whose invariants are `TypeOK` (a posting reader works down a part
of what stood in the book it read), `PostingAnswers` (each charge of that book is in its list,
not past its deadline, fined, over the cap, or paid: `CompletedReadsMissNone`) and
`FinedWereShort` (a date fined, or about to be, was short of what was on the books on the day
it was read for; what is recorded afterwards, for whatever date, was not known then:
`PaidIsNotFined`). The last needs `~Straddle`: the clock is read on the day of the entries.

The cap is about all readers together. What a reader has counted says nothing of the others'
fees, so the invariant, `RoomIsBounded`, adds to the fees that stand the room that each
posting reader believes is left: the sum stays within a cap for each of `Readers`. A posting moves
its amount from one reader's room to the fees; a reader that begins takes at most one cap of
room, and at rest has none; a waiver lowers the sum. Hence `CapOverrunIsBounded`, and, for one
reader, the cap itself (`AloneKeepsTheCap`).

**BankImport** (`BankImportProofs`). The fingerprints of a file are first shown to number equal
lines one, two and so on (`Fingerprints`), and its rows to be kept, outgoing or refused. Then
`UploadInv` is about the map in memory: tokens are handed out once, one upload a person, and
an upload that is gone was followed by as many as fit (`LosesToAsManyAsFit`). `ImportInv` is
about the imports: layouts are unique, a request in its transaction has stored what is new
of what it has read, no two of them have one layout, the stored lines that say the
same are numbered without a gap, and each import accounts for its file. A fingerprint carries
its layout, so an import waits for nobody's lines (`ImportsNeverDeadlock`), its counts add up (`ImportsAccount`), and counting
stored lines that say the same gives the number of the last, which makes each commit a step
of `Statements` (`ImportsImplementStatements`). `RulesCatch` is inductive with it.

**Interest** (`InterestProofs`). `Informed`: a reading that is not marked
as disturbed holds the tab's very entries; a posting by anybody marks all the others, and
the reader's own charge joins what it holds. So what it charges next is computed from the tab as
it stands (`ChargedOnPrincipal`). `DueDaysKeep` is for schedules of months (`Monthly`; on a
weekly one interest has no day of the month): the days of the calendar are shown to
grow with the month, over year ends and leap years (`YearTable`, `YearsGrow`, `MonthsGrow`),
months with the cycle, and so no two periods fall due on one day; and what is claimed is
always one of them (`Periodic`).

`BalanceAddsUp` says that three ways to a balance (the loan's page, the replay of the ledger by
date, and the statement's allocation of credits to debits) end at the sum of the entries, the first
two of them less what is dated `Ahead` of today. The invariant is `Booked`: the entries are numbered
in the order they were posted, of known kinds, and a reversal takes back exactly one plain entry
that nothing else takes back, so that those that stand sum to all (`Ledger`); no fee is dated ahead
(`FeesBy`), as the page counts every fee but only part of the rest; and what a reader keeps is part of
that ledger (`Kept`). The replay takes these entries in the order of their dates and splits each
between interest, principal and what is paid ahead; the allocation takes them in the order they
were recorded. However an entry is split, it moves the balance by its amount (`Replays`,
`Covers`): so the order, which the bank's dates change, does not matter (`ReplayIsSum`, `CoverIsSum`).

`SuggestionIsLeast`: the payment suggested ends the loan within its term and a cent less does
not. A course of payments is a run of `PayStep` over the periods. Of two that start alike, the one
that pays more is after each period at no more principal and no more unpaid interest
(`NoWorse`, `StepNoWorse`; interest is rounded, and rounding grows with what is rounded:
`InterestGrows`), so it is done no later (`MoreIsWithin`). What suffices is thus an interval
without upper end, and halving finds its lowest (`Halved`, `HalvedIsLowest`): at each step the answer is
still between the two ends, and as many steps as the search allows shrink them to one.

`ForecastHolds`: a forecast, followed row by row, comes true. Followed, the ledger grows by a charge and
a payment at a time and is replayed from the start each time; a row newer than all others
is replayed last (`LastReplayed`, `SameLoanLater`), so that two replays of different ledgers differ by
just this row (`RowFollowed`). That nothing on the loan is negative that is owed, paid or ahead
(`SoundLoan`) rests on the signs that postings give their amounts (`SignedBook`). The forecast's rows
pay the loan down as such a ledger does (`PaysDown`), each at least by its own interest, whether a course
(`ProjectRepays`) or, without principal, equal parts (`FlatRepays`) produced them, and the last leaves nothing
(`Repays`); so after each row the ledger is where the forecast is (`RowsReached`). A payee who was
not behind stays so: each row is one period's payment and one due date more (`DuesGrow`,
`DueBefore`), and what is expected grows by no more than that (`StaysOnTrack`); after the last row nothing
is owed, and so the loan reads settled. That the reading is up to date (`Quiet`, `CaughtUp`) says when
the page shows the forecast; the proof does not need it. That no due date is today and that
nothing is dated ahead (`LedgerOf`), it does.

**Suggest and Pages** (`WebProofs`). `NoChoiceBetweenEquals` is about the greedy rounds of
`Suggest`, whatever the lines, payments and settings. A tie is what can be
reached from the best pair through shared ends among pairs of its score: with as many steps as there
are such pairs nothing is left to reach (`TieGroupIs`), so what is taken as a group is `Closed`.
`Settled` is the invariant of a round: what was placed, suggestion or tie, shares no line and no payment with
the rest of what was placed nor with the pairs left over; each pair used up was itself placed or
shares an end with one placed at no less a score; and a pair of the same score as a suggestion next to it had
lost before, to a higher one (`Beaten`). A round uses one pair at least, so after as many rounds as pairs none is left
(`PlaceSettles`), and `Settled` is then what `Fair` asks. Scores are numbers because nothing
divides by nought: a difference within a tolerance of nought is nought itself.

`FiltersAgree` compares the filter of a tab's history with reconciliation's own query. `Tied`:
a match names a line and a payment made by hand, and a difference of its own that is reconciliation's;
a recorded line names a payment from the bank. `Backed`: each standing entry of
reconciliation's is named by one of these, so that undoing it from either page finds what to
undo with it. The action that confirms all exact suggestions at once makes several matches in
one step; it keeps the invariant because suggestions are of lines and payments of their own
(from `PlaceSettles`). The assumption `FiguresAssumption` says that figures are whole and lines finitely
many.

**FiniteSums.** The library sums a function by taking the members of its domain away in some
order. That the order does not matter is what `SumGrows` and `SumWithout` say; it is proved by
showing that a function that gives each subset its sum exists, and that a least subset on
which the library's differs from it cannot exist. The sums of `LateFees`, `Reconcile` and
`Calendar` rest on it. A recursive function of the models is a CHOOSE: that there is one to choose
is `Recursion` for those over the subsets of a set, taking one member away in an order of
their own (replays, covers, the matches of a bulk confirmation), and `Iteration` for those over
a number of steps (courses of payments, halvings, rounds, ties). Both build it from the subsets, or
steps, on which it exists already, by `TakeAway`, `CountUp` and least elements; none uses an
induction theorem.

**Notify** (`NotifyProofs`). `Held` relates what a tick has read to the world: what it was given to tell was
live when it was derived and so is not among what was dead all along (`RetractedIsNotTold`);
and, unless it has deferred or failed, each item that was due all along is claimed, or
still on its list, or of a scan to come (`QuietMeansDone`). The day that a scan has read may
be yesterday: `Pinned` says that an item due then *and* now fixes the day, as a reminder is
due on one day only and no payment grows younger. `Single` holds as long as there was no
mishap: one tick runs, what was told is claimed or being claimed, and what is being told is
not (`ToldOnce`). That the first item of a list is one of the list (`FirstIsOne`) is a lemma
on least elements.

`TypeOK`, `OncePerKey`, `ReversedOnce` and the append-only property of the entry store,
and the types of `Reconcile`, are theorems only; no run repeats them.

What stays with TLC, and why:

- Liveness under fairness: `EveryPostingAnswered`, `EveryoneIsTold`.
- What speaks of ENABLED: `OfferedIsAccepted` (an offered form's handler is enabled) and
  `DecisionIsReversible` (an undo is).

## 5. What was found

Each of three runs checks one statement that a comment of the repository makes and
the code does not keep; TLC finds a shortest behaviour that breaks it.
`PROJECT.json` ("findings") quotes the statement and its place.

1. `interest_race`: accrueInterest reads the entries before the claims; a reader whose
   oldest period was charged meanwhile does not add that charge to its running
   entries (interest.go:89) and charges the next on another principal.
2. `payments_listed`: buildSuggestions loads payments around the *open* lines only
   (handlers_reconcile_setup.go:55), so a payment of the covered period is counted as
   having no bank transaction and listed nowhere.
3. `ties_confirmable`: a tie is connected through shared ends, so a button may pair two
   ends that confirmPair (handlers_reconcile_confirm.go:57) refuses.

Seen while modelling, with the model that shows it but no run of its own:

- *Items on MariaDB.* UpdateItem reads without a lock and writes by id alone
  (tabs.go:559). With `Parallel = TRUE` TLC violates `PastIsFixed`: two updates both
  succeed, both replacements bill, and a removal date may move.
- *A new anchor.* SetSchedule accepts another anchor or interval on a tab with posted
  cycles (tabs.go:368); the new grid has other keys and bills days again. The
  `accrual` run changes the billing rule only.
- *A full batch.* DueThrough counts its batch from the anchor each time
  (schedule.go:507); a tab that has had one full batch stops billing. The run's batch is
  larger than its days.
- *The cap on fees.* A comment says that "the cap bounds the tab's total" (fees.go:33).
  But the fees that count are totalled once, before a reader posts (fees.go:58), so two
  readers fill the same room and take the fees past it: TLC violates `Standing <= Cap` in
  the `late_fees` instance. `CapOverrunIsBounded` says how far it can go.
- *A line recorded late.* A comment says that the assessment is "deterministic regardless of
  when the tab is read" (fees.go:86), as only payments of the window count. But
  reconciliation dates a payment at noon of the bank's day
  (handlers_reconcile_lines.go:181, handlers_reconcile_confirm.go:66): a line of the window
  clears its date if it is recorded before the first reading after the deadline, and not
  if after; then the fee stands, until somebody waives it, on a date that the ledger
  shows as paid. `KnownPaidIsNotFined` therefore speaks of what was on the books; without
  `p.asOf < asOf` in `KnownPaid` TLC violates it.
- *A line dated ahead.* A comment says of the page's balance that it "must equal the plain
  sum of entries or the app's central promise is broken" (payoff.go:155). Bank dates are
  read from 1990 to 2100 (bankcsv/mapping.go:267) and never compared with today. A line of
  tomorrow, once recorded, is in the plain sum and on the statement, but not, until its day,
  in AllocateLoan as of today (allocate.go:92) and the page's balance: TLC violates the plain
  equality in the `interest` instance. `BalanceAddsUp` says that they are apart by exactly
  these lines, and `ForecastHolds` is for ledgers without.
- *An empty window.* Two charges may fall due on one date when the billing rule
  changes; the second has an empty window (fees.go:88) and is fined though paid; hence
  `KnownPaidIsNotFined` is about dates with one charge.
- *A match on an undone payment.* Reverse looks up the tie, then posts
  (ledger.go:174); a match confirmed in between stands on a payment that is undone.
- *Starvation.* A failed delivery keeps its share of the ceiling
  (handlers_tick.go:230) and the order of the scan is fixed, so an unreachable first
  recipient starves the rest. The run makes both reachable.
- *Midnight.* Between the reading of items (server.go:291) or entries (fees.go:35) and
  that of the clock, midnight may fall, and a reader then bills or fines the new day
  from older rows. `Straddle = FALSE` excludes this and nothing else; with `TRUE` TLC
  violates `PastIsFixed` and `KnownPaidIsNotFined`.
- *Reminders* fire on the one day their lead matches (handlers_tick.go:131); one
  deferred past that day is lost.
- *A login in flight* when the password changes or the account is deactivated still
  stores a session, with the new state's standing; hence the properties of `Access`
  speak of sessions issued before.
- *Forecasts.* On a due date the forecast charges that period's interest again; a loan
  with a credit and an unpaid fee reads "behind" after all is paid. Both are excluded
  by the hypotheses of `ForecastHolds`, and by nothing else.
- *Pages.* The refusals `KnownRefusal` names; and, outside the compared forms: an
  Archive button is a toggle, so a stale one un-archives; charge and adjust are
  offered to the provider only though a tab's administrator may post them; the balance,
  the history and the marks are three reads though a comment in handlers_tabs.go (412)
  says they describe one moment; the dashboard fails when its viewer is removed from a
  tab between the list and the role; the card after a settlement lacks the loan's part.

## 6. What is not modelled, and the plan

Left out for good: rendering, wording and colours, avatars, static files,
configuration, migrations (they run before the first request), the wire protocols of
mail and ntfy, password hashing, CSRF tokens, the limiter on uploads (it only refuses).

Abstracted:

- Amounts and days are small integers: TLC's are of 32 bits, so the overflow guards
  of the money package are out of reach. Late fees are flat, not percentages.
- `Pages` starts from a tab just made, with one administrator trusted to reconcile.
  Who reversed an entry and when, fees and waivers, and the forms for the schedule,
  the fee policy, the rate, reminders, notifications and the profile are not in it.
- `BankFile` takes cells by how they read; which texts read how is not modelled.
- `PageViews` lists all matches and reviews: the page's last twenty (`RecentShown`) are
  never reached in a run.
- The statement page's text, and the previews of reminders.

Next, in this order:

1. The forms still missing from `Pages`, and a session in which several pages are open.
2. A run of `Accrual` and `LateFees` together, the deadline of a fee being the due date
   of a cycle billed meanwhile.
