---------------------------- MODULE LedgerProofs ----------------------------
(***************************************************************************)
(* Theorems about the ledger and about what charges it when it is read.    *)
(*                                                                         *)
(* The transactions of EntryStore keep what they promise, for every set of *)
(* handlers, tabs, keys, cycles and amounts and any number of entries.     *)
(* TypeOK and StoreInv are inductive together. From them every step of     *)
(* EntryStore is a step of Book or leaves its rows alone, so the promises, *)
(* proved of Book, hold of the committed rows; and with the promises, what *)
(* a handler is told is so.                                                *)
(*                                                                         *)
(* Accrual and the items it bills, for any editors and readers, any        *)
(* calendar and any number of items. The theorems about items are for one  *)
(* connection and a clock read beside its use (OneConnection), as they     *)
(* fail without; the one about days is for schedules that share an anchor  *)
(* and an interval (OneGrid), and the one about catching up for a batch    *)
(* that holds every period up to the last day (BatchSuffices).             *)
(***************************************************************************)
EXTENDS EntryStore, Accrual, FiniteSums

Running == [pc : {"insert", "claim", "commit", "lookup"}, job : Jobs, seq : Nat]

-----------------------------------------------------------------------------
(* What every posting of a form, of an accrual and of an undo looks like. *)
LEMMA FormShape ==
  ASSUME NEW j \in FormPosts
  PROVE  /\ j = [tab |-> j.tab, kind |-> j.kind, amount |-> j.amount,
                 key |-> j.key, reverses |-> 0, claim |-> NoClaim]
         /\ j.tab \in Tabs
         /\ j.kind \in Kinds \ {"reversal"}
         /\ j.amount \in Int
         /\ \E f \in FormKeys : j.key = FormKey(f)
BY AmountsAssumption DEF FormPosts, Job, SignedAmounts, Negatives, Kinds

LEMMA ClaimShape ==
  ASSUME NEW j \in ClaimPosts
  PROVE  /\ j = [tab |-> j.tab, kind |-> j.kind, amount |-> j.amount,
                 key |-> DerivedKey(j.claim), reverses |-> 0, claim |-> j.claim]
         /\ j.claim \in ClaimIds
         /\ j.tab \in Tabs
         /\ j.kind \in Kinds \ {"reversal"}
         /\ j.amount \in Int
BY AmountsAssumption
   DEF ClaimPosts, Job, ClaimAmounts, Negatives, Kinds, ClaimIds

LEMMA UndoShape ==
  ASSUME NEW e, NEW s
  PROVE  Keyed(UndoPost(e), s) =
           [tab |-> e.tab, kind |-> "reversal", amount |-> -e.amount,
            key |-> RandomKey(s), reverses |-> e.seq, claim |-> NoClaim]
BY DEF Keyed, UndoPost, Job

(* A claim identifier is never NoClaim. *)
LEMMA ClaimIsSome ==
  ASSUME NEW id \in ClaimIds
  PROVE  id # NoClaim
BY DEF ClaimIds, NoClaim, Tables

(* The three sources of keys never meet, and a derived key names its cycle. *)
LEMMA KeysApart ==
  /\ \A f, id : FormKey(f) # DerivedKey(id)
  /\ \A s, id : RandomKey(s) # DerivedKey(id)
  /\ \A id, jd : DerivedKey(id) = DerivedKey(jd) => id = jd
BY DEF FormKey, DerivedKey, RandomKey

LEMMA FormJob ==
  ASSUME NEW j \in FormPosts
  PROVE  j \in Jobs /\ j.key # NoKey
<1>1. PICK f \in FormKeys : j.key = FormKey(f)
  BY FormShape
<1>2. j.key \in Keys /\ j.key # NoKey
  BY <1>1 DEF Keys, FormKey, NoKey
<1>3. j \in Jobs
  BY <1>2, FormShape DEF Jobs
<1> QED BY <1>2, <1>3

LEMMA ClaimJob ==
  ASSUME NEW j \in ClaimPosts
  PROVE  j \in Jobs /\ j.key # NoKey
<1>1. j.key \in Keys /\ j.key # NoKey
  BY ClaimShape DEF Keys, DerivedKey, NoKey
<1>2. /\ j.tab \in Tabs /\ j.kind \in Kinds /\ j.amount \in Int
      /\ j.claim \in ClaimIds
  BY ClaimShape
<1>3. j = [tab |-> j.tab, kind |-> j.kind, amount |-> j.amount, key |-> j.key,
           reverses |-> 0, claim |-> j.claim]
  BY ClaimShape
<1>4. j.reverses \in Nat /\ j.key \in Keys \cup {NoKey} /\ j.claim \in ClaimIds \cup {NoClaim}
  BY <1>1, <1>2, <1>3
<1>5. j = [tab |-> j.tab, kind |-> j.kind, amount |-> j.amount, key |-> j.key,
           reverses |-> j.reverses, claim |-> j.claim]
  BY <1>3
<1> QED BY <1>1, <1>2, <1>4, <1>5 DEF Jobs

LEMMA UndoJob ==
  ASSUME NEW e \in Rows, NEW s \in Nat
  PROVE  UndoPost(e) \in Jobs /\ Keyed(UndoPost(e), s) \in Jobs
<1>1. RandomKey(s) \in Keys
  BY DEF RandomKey, Keys
<1>2. e.tab \in Tabs /\ -e.amount \in Int /\ e.seq \in Nat
  BY DEF Rows
<1>3. "reversal" \in Kinds
  BY DEF Kinds
<1>4. UndoPost(e) \in Jobs
  BY <1>2, <1>3 DEF UndoPost, Job, Jobs
<1>5. Keyed(UndoPost(e), s) \in Jobs
  BY <1>1, <1>2, <1>3, UndoShape DEF Jobs
<1> QED BY <1>4, <1>5

(* Drawing a key keeps a posting well formed, and leaves it with a key. *)
LEMMA KeyedJob ==
  ASSUME NEW j \in Jobs, NEW s \in Nat
  PROVE  /\ Keyed(j, s) \in Jobs
         /\ Keyed(j, s).key \in Keys
         /\ Keyed(j, s).claim = j.claim /\ Keyed(j, s).reverses = j.reverses
<1>1. RandomKey(s) \in Keys
  BY DEF RandomKey, Keys
<1> QED BY <1>1 DEF Keyed, Job, Jobs

-----------------------------------------------------------------------------
(* The row and the claim a posting becomes are rows of their tables. *)
LEMMA RowsOfJob ==
  ASSUME NEW j \in Jobs, j.key # NoKey, NEW s \in Nat \ {0}
  PROVE  EntryOf(j, s) \in Rows /\ ClaimsOf(j, s) \subseteq [id : ClaimIds, seq : Nat \ {0}]
<1>1. j.key \in Keys
  BY DEF Jobs
<1>2. EntryOf(j, s) \in Rows
  BY <1>1 DEF EntryOf, Rows, Jobs
<1>3. ClaimsOf(j, s) \subseteq [id : ClaimIds, seq : Nat \ {0}]
  BY DEF ClaimsOf, Jobs
<1> QED BY <1>2, <1>3

LEMMA RunningState ==
  ASSUME TypeOK, NEW p \in Procs, tx[p] # Idle
  PROVE  tx[p] \in Running /\ tx[p].job \in Jobs /\ tx[p].seq \in Nat
BY DEF TypeOK, Running

LEMMA IdleOrRunning ==
  ASSUME TypeOK, NEW p \in Procs, tx[p].pc # "idle"
  PROVE  tx[p] # Idle
BY DEF Idle

(* A posting past its first statement has its key. *)
LEMMA HasKey ==
  ASSUME Origin, NEW p \in Procs, tx[p] # Idle, tx[p].pc # "insert"
  PROVE  tx[p].job.key # NoKey
<1>1. CASE tx[p].job \in FormPosts \cup ClaimPosts
  BY <1>1, FormJob, ClaimJob
<1>2. CASE \E e \in entries : tx[p].job = Keyed(UndoPost(e), tx[p].seq)
  <2>1. tx[p].job.key = RandomKey(tx[p].seq)
    BY <1>2, UndoShape
  <2> QED BY <2>1 DEF RandomKey, NoKey
<1> QED BY <1>1, <1>2 DEF Origin

LEMMA TypeInit == InitStore => TypeOK
BY DEF InitStore, TypeOK, Idle

(* StoreInv is needed for one thing: an open transaction has a number and a
   key to give its row. *)
LEMMA TypeStep == TypeOK /\ StoreInv /\ [NextStore]_storeVars => TypeOK'
<1> SUFFICES ASSUME TypeOK, StoreInv, [NextStore]_storeVars
             PROVE  TypeOK'
  OBVIOUS
<1> USE DEF TypeOK
<1> DEFINE Replies == [outcome : {"none", "posted", "replayed", "conflict", "failed"},
                       seq : Nat]
<1>1. ASSUME NEW p \in Procs, NEW j \in Jobs, Begin(p, j)
      PROVE  TypeOK'
  <2>1. [pc |-> "insert", job |-> j, seq |-> 0] \in Running
    BY DEF Running
  <2>2. [outcome |-> "none", seq |-> 0] \in Replies
    OBVIOUS
  <2> QED BY <1>1, <2>1, <2>2 DEF Begin, Running
<1>2. ASSUME NEW p \in Procs, SubmitForm(p) PROVE TypeOK'
  BY <1>1, <1>2, FormJob DEF SubmitForm
<1>3. ASSUME NEW p \in Procs, Accrue(p) PROVE TypeOK'
  BY <1>1, <1>3, ClaimJob DEF Accrue
<1>4. ASSUME NEW p \in Procs, SubmitUndo(p) PROVE TypeOK'
  BY <1>1, <1>4, UndoJob DEF SubmitUndo
<1>5. ASSUME NEW p \in Procs, InsertEntry(p) PROVE TypeOK'
  <2> DEFINE j == Keyed(tx[p].job, nextSeq)
  <2>1. tx[p] \in Running /\ tx[p].job \in Jobs
    BY <1>5, IdleOrRunning, RunningState DEF InsertEntry
  <2>2. j \in Jobs
    BY <2>1, KeyedJob
  <2>3. ASSUME NEW pc \in {"lookup", "commit", "claim"}
        PROVE  [pc |-> pc, job |-> j, seq |-> nextSeq] \in Running
    BY <2>2 DEF Running
  <2>4. PICK pc \in {"lookup", "commit", "claim"} :
           tx' = [tx EXCEPT ![p] = [pc |-> pc, job |-> j, seq |-> nextSeq]]
    BY <1>5 DEF InsertEntry
  <2> HIDE DEF j
  <2> QED BY <1>5, <2>3, <2>4 DEF InsertEntry, Running
<1>6. ASSUME NEW p \in Procs, InsertClaim(p) PROVE TypeOK'
  <2>1. tx[p] \in Running /\ tx[p].job \in Jobs /\ tx[p].seq \in Nat
    BY <1>6, IdleOrRunning, RunningState DEF InsertClaim
  <2>2. PICK pc \in {"lookup", "commit"} :
           tx' = [tx EXCEPT ![p] = [pc |-> pc, job |-> tx[p].job, seq |-> tx[p].seq]]
    BY <1>6 DEF InsertClaim
  <2>3. [pc |-> pc, job |-> tx[p].job, seq |-> tx[p].seq] \in Running
    BY <2>1 DEF Running
  <2> QED BY <1>6, <2>2, <2>3 DEF InsertClaim, Running
<1>7. ASSUME NEW p \in Procs, NEW s \in Nat,
             NEW o \in {"posted", "replayed", "conflict", "failed"}, Return(p, o, s)
      PROVE  /\ tx' \in [Procs -> {Idle} \cup Running]
             /\ reply' \in [Procs -> Replies]
  BY <1>7 DEF Return, Running
<1>8. ASSUME NEW p \in Procs, Commit(p) PROVE TypeOK'
  <2>1. tx[p].job \in Jobs /\ tx[p].seq \in Nat \ {0}
    BY <1>8, IdleOrRunning, RunningState DEF Commit, StoreInv, Numbered, Open
  <2>2. tx[p].job.key # NoKey
    BY <1>8, HasKey DEF Commit, StoreInv, Idle
  <2>3. /\ tx' \in [Procs -> {Idle} \cup Running]
        /\ reply' \in [Procs -> Replies]
    BY <1>7, <1>8, <2>1 DEF Commit
  <2>4. /\ entries' \subseteq Rows
        /\ claims' \subseteq [id : ClaimIds, seq : Nat \ {0}]
    BY <1>8, <2>1, <2>2, RowsOfJob DEF Commit
  <2> QED BY <1>8, <2>3, <2>4 DEF Commit, Running
<1>9. ASSUME NEW p \in Procs, Lookup(p) PROVE TypeOK'
  <2>1. \A e \in Holders(tx[p].job) : e.seq \in Nat
    BY DEF Holders, Rows
  <2>2. /\ tx' \in [Procs -> {Idle} \cup Running]
        /\ reply' \in [Procs -> Replies]
    BY <1>7, <1>9, <2>1 DEF Lookup
  <2> QED BY <1>9, <2>2 DEF Lookup, Running
<1>10. ASSUME NEW p \in Procs, Abort(p) PROVE TypeOK'
  <2>1. /\ tx' \in [Procs -> {Idle} \cup Running]
        /\ reply' \in [Procs -> Replies]
    BY <1>7, <1>10 DEF Abort
  <2>2. tx[p].seq \in Nat
    BY <1>10, IdleOrRunning, RunningState DEF Abort
  <2>3. nextSeq' \in Nat \ {0}
    BY <1>10, <2>2 DEF Abort, StoreInv, Numbered
  <2> QED BY <1>10, <2>1, <2>3 DEF Abort, Running
<1>11. CASE UNCHANGED storeVars
  BY <1>11 DEF storeVars
<1> QED
  BY <1>2, <1>3, <1>4, <1>5, <1>6, <1>8, <1>9, <1>10, <1>11
     DEF NextStore, Handle, Quiet

-----------------------------------------------------------------------------
LEMMA StoreInit == InitStore => StoreInv
BY DEF InitStore, StoreInv, Numbered, Exclusive, ClaimFree, Origin, Open, Idle

(* A posting that begins holds nothing yet. *)
LEMMA BeginStep ==
  ASSUME TypeOK, StoreInv, NEW p \in Procs, NEW j, Begin(p, j),
         \/ j \in FormPosts \cup ClaimPosts
         \/ \E e \in entries : e.kind # "reversal" /\ j = UndoPost(e)
  PROVE  StoreInv'
<1>1. /\ tx'[p] = [pc |-> "insert", job |-> j, seq |-> 0]
      /\ \A q \in Procs \ {p} : tx'[q] = tx[q]
  BY DEF Begin, TypeOK
<1>2. UNCHANGED <<entries, claims, nextSeq>>
  BY DEF Begin
<1>3. \A q \in Procs : Open(q)' => q # p /\ Open(q)
  BY <1>1 DEF Open
<1>4. Numbered'
  BY <1>1, <1>2, <1>3 DEF StoreInv, Numbered
<1>5. Exclusive'
  BY <1>1, <1>2, <1>3 DEF StoreInv, Exclusive, Unused
<1>6. ClaimFree'
  BY <1>1, <1>2 DEF StoreInv, ClaimFree
<1>7. Origin'
  BY <1>1, <1>2 DEF StoreInv, Origin
<1> QED BY <1>4, <1>5, <1>6, <1>7 DEF StoreInv

(* An insert that neither waits nor meets a duplicate gains a row nobody else
   has, under the next number. *)
LEMMA InsertEntryStep ==
  ASSUME TypeOK, StoreInv, NEW p \in Procs, InsertEntry(p)
  PROVE  StoreInv'
<1> DEFINE j == Keyed(tx[p].job, nextSeq)
<1>1. PICK pc \in {"lookup", "commit", "claim"} :
        /\ tx' = [tx EXCEPT ![p] = [pc |-> pc, job |-> j, seq |-> nextSeq]]
        /\ pc # "lookup" => Unused(j, nextSeq)
        /\ pc = "commit" => j.claim = NoClaim
  BY DEF InsertEntry
<1>2. /\ tx'[p] = [pc |-> pc, job |-> j, seq |-> nextSeq]
      /\ \A q \in Procs \ {p} : tx'[q] = tx[q]
  BY <1>1 DEF TypeOK
<1>3. /\ UNCHANGED <<entries, claims>>
      /\ nextSeq' = nextSeq + 1 /\ nextSeq \in Nat \ {0}
      /\ tx[p].pc = "insert" /\ ~Waits(p, j)
  BY DEF InsertEntry, TypeOK
<1>4. \A q \in Procs \ {p} : Open(q)' = Open(q)
  BY <1>2 DEF Open
<1>5. \A q \in Procs : Open(q) => tx[q].seq < nextSeq /\ tx[q].seq \in Nat /\ tx[q].seq # 0
  BY RunningState DEF StoreInv, Numbered, Open, Idle
<1>6. Numbered'
  <2>1. \A e \in entries : e.seq < nextSeq'
    BY <1>3 DEF StoreInv, Numbered, TypeOK, Rows
  <2>2. \A q \in Procs : Open(q)' => tx'[q].seq # 0 /\ tx'[q].seq < nextSeq'
    BY <1>2, <1>3, <1>4, <1>5
  <2> QED BY <1>3, <2>1, <2>2 DEF Numbered
<1>7. Exclusive'
  <2>1. ASSUME NEW q \in Procs \ {p}, Open(q), Open(p)'
        PROVE  /\ tx[q].seq # nextSeq
               /\ tx[q].job.key # j.key
               /\ j.reverses # 0 => tx[q].job.reverses # j.reverses
    BY <1>3, <1>5, <2>1 DEF Waits
  <2>2. \A q \in Procs : Open(q)' => Unused(tx[q].job, tx[q].seq)'
    <3>1. Open(p)' => Unused(j, nextSeq)
      BY <1>1, <1>2 DEF Open
    <3> QED BY <1>2, <1>3, <1>4, <3>1 DEF StoreInv, Exclusive, Unused
  <2>3. ASSUME NEW q \in Procs, NEW r \in Procs \ {q}, Open(q)', Open(r)'
        PROVE  /\ tx'[r].seq # tx'[q].seq
               /\ tx'[r].job.key # tx'[q].job.key
               /\ tx'[q].job.reverses # 0 => tx'[r].job.reverses # tx'[q].job.reverses
    <3> HIDE DEF j
    <3>1. CASE q = p
      BY <1>2, <1>4, <2>1, <2>3, <3>1
    <3>2. CASE r = p
      BY <1>2, <1>4, <2>1, <2>3, <3>2
    <3>3. CASE q # p /\ r # p
      BY <1>2, <1>4, <2>3, <3>3 DEF StoreInv, Exclusive
    <3> QED BY <3>1, <3>2, <3>3
  <2> QED BY <2>2, <2>3 DEF Exclusive
<1>8. ClaimFree'
  <2>1. \A c \in claims : c.id # NoClaim
    BY ClaimIsSome DEF TypeOK
  <2> QED BY <1>1, <1>2, <1>3, <2>1 DEF StoreInv, ClaimFree
<1>9. Origin'
  <2>1. \A q \in Procs \ {p} : tx'[q] # Idle =>
          \/ tx'[q].job \in FormPosts \cup ClaimPosts
          \/ \E e \in entries :
               /\ e.kind # "reversal"
               /\ IF tx'[q].pc = "insert"
                    THEN tx'[q].job = UndoPost(e)
                    ELSE e.seq < tx'[q].seq /\ tx'[q].job = Keyed(UndoPost(e), tx'[q].seq)
    BY <1>2 DEF StoreInv, Origin
  <2>2. \/ j \in FormPosts \cup ClaimPosts
        \/ \E e \in entries :
             e.kind # "reversal" /\ e.seq < nextSeq /\ j = Keyed(UndoPost(e), nextSeq)
    <3>1. CASE tx[p].job \in FormPosts \cup ClaimPosts
      BY <3>1, FormJob, ClaimJob DEF Keyed
    <3>2. CASE \E e \in entries : e.kind # "reversal" /\ tx[p].job = UndoPost(e)
      BY <3>2 DEF StoreInv, Numbered
    <3> QED BY <1>3, <3>1, <3>2 DEF StoreInv, Origin, Idle
  <2> QED BY <1>2, <1>3, <2>1, <2>2 DEF Origin
<1> QED BY <1>6, <1>7, <1>8, <1>9 DEF StoreInv

(* The claim check moves a transaction on without changing what it holds. *)
LEMMA InsertClaimStep ==
  ASSUME TypeOK, StoreInv, NEW p \in Procs, InsertClaim(p)
  PROVE  StoreInv'
<1>1. PICK pc \in {"lookup", "commit"} :
        /\ tx' = [tx EXCEPT ![p] = [pc |-> pc, job |-> tx[p].job, seq |-> tx[p].seq]]
        /\ pc = "commit" => \A c \in claims : c.id # tx[p].job.claim
  BY DEF InsertClaim
<1>2. /\ tx'[p] = [pc |-> pc, job |-> tx[p].job, seq |-> tx[p].seq]
      /\ \A q \in Procs \ {p} : tx'[q] = tx[q]
  BY <1>1 DEF TypeOK
<1>3. UNCHANGED <<entries, claims, nextSeq>> /\ tx[p].pc = "claim"
  BY DEF InsertClaim
<1>4. \A q \in Procs : /\ tx'[q].job = tx[q].job
                       /\ tx'[q].seq = tx[q].seq
                       /\ Open(q)' => Open(q)
  BY <1>2, <1>3 DEF Open
<1>5. Numbered'
  BY <1>3, <1>4 DEF StoreInv, Numbered
<1>6. Exclusive'
  BY <1>3, <1>4 DEF StoreInv, Exclusive, Unused
<1>7. ClaimFree'
  BY <1>1, <1>2, <1>3 DEF StoreInv, ClaimFree
<1>8. Origin'
  BY <1>2, <1>3 DEF StoreInv, Origin, Idle
<1> QED BY <1>5, <1>6, <1>7, <1>8 DEF StoreInv

(* Leaving without a row: a lookup that answers, or a rollback. *)
LEMMA LeaveStep ==
  ASSUME TypeOK, StoreInv, NEW p \in Procs, Lookup(p) \/ Abort(p)
  PROVE  StoreInv'
<1>1. /\ tx'[p] = Idle
      /\ \A q \in Procs \ {p} : tx'[q] = tx[q]
      /\ UNCHANGED <<entries, claims>>
  BY DEF Lookup, Abort, Return, TypeOK
<1>2. \A q \in Procs : Open(q)' => q # p /\ Open(q)
  BY <1>1 DEF Open, Idle
<1>3. \A q \in Procs : Open(q) => tx[q].seq < nextSeq /\ tx[q].seq \in Nat /\ tx[q].seq # 0
  BY RunningState DEF StoreInv, Numbered, Open, Idle
<1>4. Numbered'
  <2>1. CASE nextSeq' = nextSeq
    BY <1>1, <1>2, <2>1 DEF StoreInv, Numbered
  <2>2. CASE Open(p) /\ nextSeq = tx[p].seq + 1 /\ nextSeq' = tx[p].seq
    <3>1. ASSUME NEW e \in entries PROVE e.seq < tx[p].seq
      <4>1. e.seq # tx[p].seq /\ e.seq < nextSeq
        BY <2>2 DEF StoreInv, Exclusive, Unused, Numbered
      <4> QED BY <1>3, <2>2, <4>1 DEF TypeOK, Rows
    <3>2. ASSUME NEW q \in Procs \ {p}, Open(q) PROVE tx[q].seq # 0 /\ tx[q].seq < tx[p].seq
      <4>1. tx[q].seq # tx[p].seq
        BY <2>2, <3>2 DEF StoreInv, Exclusive
      <4> QED BY <1>3, <2>2, <3>2, <4>1
    <3> QED BY <1>1, <1>2, <2>2, <3>1, <3>2 DEF Numbered
  <2> QED BY <2>1, <2>2 DEF Lookup, Abort
<1>5. Exclusive'
  BY <1>1, <1>2 DEF StoreInv, Exclusive, Unused
<1>6. ClaimFree'
  BY <1>1 DEF StoreInv, ClaimFree, Idle
<1>7. Origin'
  BY <1>1 DEF StoreInv, Origin
<1> QED BY <1>4, <1>5, <1>6, <1>7 DEF StoreInv

(* A commit adds a row that every other open transaction differs from. *)
LEMMA CommitStep ==
  ASSUME TypeOK, StoreInv, NEW p \in Procs, Commit(p)
  PROVE  StoreInv'
<1> DEFINE new == EntryOf(tx[p].job, tx[p].seq)
<1>1. /\ tx'[p] = Idle
      /\ \A q \in Procs \ {p} : tx'[q] = tx[q]
      /\ entries' = entries \cup {new}
      /\ claims' = claims \cup ClaimsOf(tx[p].job, tx[p].seq)
      /\ nextSeq' = nextSeq
      /\ Open(p) /\ tx[p] # Idle
  BY DEF Commit, Return, TypeOK, Open, Idle
<1>2. /\ new.seq = tx[p].seq /\ new.key = tx[p].job.key
      /\ new.reverses = tx[p].job.reverses
  BY DEF EntryOf
<1>3. \A q \in Procs : Open(q)' => q # p /\ Open(q)
  BY <1>1 DEF Open, Idle
<1>4. Numbered'
  <2> HIDE DEF new
  <2> QED BY <1>1, <1>2, <1>3 DEF StoreInv, Numbered
<1>5. Exclusive'
  <2>1. ASSUME NEW q \in Procs \ {p}, Open(q)
        PROVE  \A e \in entries' : /\ e.seq # tx[q].seq
                                   /\ e.key # tx[q].job.key
                                   /\ tx[q].job.reverses # 0 => e.reverses # tx[q].job.reverses
    <3> HIDE DEF new
    <3> QED BY <1>1, <1>2, <2>1 DEF StoreInv, Exclusive, Unused
  <2> QED BY <1>1, <1>3, <2>1 DEF StoreInv, Exclusive, Unused
<1>6. ClaimFree'
  <2>1. SUFFICES ASSUME NEW q \in Procs \ {p}, tx[q].pc = "commit",
                        NEW c \in ClaimsOf(tx[p].job, tx[p].seq)
                 PROVE  c.id # tx[q].job.claim
    BY <1>1 DEF StoreInv, ClaimFree, Idle
  <2>2. c.id = tx[p].job.claim /\ c.id # NoClaim /\ c.id \in ClaimIds
    BY <1>1, RunningState DEF ClaimsOf, Jobs
  <2>3. ASSUME NEW r \in Procs, tx[r] # Idle, tx[r].pc # "insert", tx[r].job.claim # NoClaim
        PROVE  tx[r].job.key = DerivedKey(tx[r].job.claim)
    <3>1. tx[r].job \in ClaimPosts
      BY <2>3, FormShape, UndoShape DEF StoreInv, Origin
    <3> QED BY <3>1, ClaimShape
  <2>4. tx[q].job.key # tx[p].job.key
    BY <1>1, <2>1 DEF StoreInv, Exclusive, Open
  <2>5. tx[p].job.key = DerivedKey(c.id)
    BY <1>1, <2>2, <2>3 DEF Open
  <2> QED BY <2>1, <2>2, <2>3, <2>4, <2>5 DEF Idle
<1>7. Origin'
  <2> HIDE DEF new
  <2> QED BY <1>1 DEF StoreInv, Origin
<1> QED BY <1>4, <1>5, <1>6, <1>7 DEF StoreInv

LEMMA StoreStep == TypeOK /\ StoreInv /\ [NextStore]_storeVars => StoreInv'
<1> SUFFICES ASSUME TypeOK, StoreInv, [NextStore]_storeVars
             PROVE  StoreInv'
  OBVIOUS
<1>1. ASSUME NEW p \in Procs, SubmitForm(p) PROVE StoreInv'
  BY <1>1, BeginStep DEF SubmitForm
<1>2. ASSUME NEW p \in Procs, Accrue(p) PROVE StoreInv'
  BY <1>2, BeginStep DEF Accrue
<1>3. ASSUME NEW p \in Procs, SubmitUndo(p) PROVE StoreInv'
  BY <1>3, BeginStep DEF SubmitUndo
<1>4. CASE UNCHANGED storeVars
  BY <1>4 DEF storeVars, StoreInv, Numbered, Exclusive, ClaimFree, Origin, Open, Unused
<1> QED
  BY <1>1, <1>2, <1>3, <1>4, InsertEntryStep, InsertClaimStep, CommitStep, LeaveStep
     DEF NextStore, Handle, Quiet

(* In every behaviour every variable keeps its type, and an open transaction
   keeps what it holds: the invariant the results below rest on. *)
THEOREM StoreIsTypedAndExclusive == StoreSpec => [](TypeOK /\ StoreInv)
<1>1. InitStore => TypeOK /\ StoreInv
  BY TypeInit, StoreInit
<1>2. TypeOK /\ StoreInv /\ [NextStore]_storeVars => TypeOK' /\ StoreInv'
  BY TypeStep, StoreStep
<1> QED BY <1>1, <1>2, PTL DEF StoreSpec

-----------------------------------------------------------------------------
(* Book's postings are EntryStore's: both modules take them from Postings. *)
LEMMA SamePostings ==
  /\ Abstract!FormPosts = FormPosts
  /\ Abstract!ClaimPosts = ClaimPosts
  /\ \A e, s : Abstract!Keyed(Abstract!UndoPost(e), s) = Keyed(UndoPost(e), s)
<1>1. Abstract!FormPosts = FormPosts
  BY DEF FormPosts, Job, FormKey, SignedAmounts, Negatives, NoClaim,
         Abstract!FormPosts, Abstract!Job, Abstract!FormKey, Abstract!SignedAmounts,
         Abstract!Negatives, Abstract!NoClaim
<1>2. Abstract!ClaimPosts = ClaimPosts
  BY DEF ClaimPosts, Job, DerivedKey, ClaimAmounts, Negatives, ClaimIds, Tables,
         Abstract!ClaimPosts, Abstract!Job, Abstract!DerivedKey, Abstract!ClaimAmounts,
         Abstract!Negatives, Abstract!ClaimIds, Abstract!Tables
<1>3. \A e, s : Abstract!Keyed(Abstract!UndoPost(e), s) = Keyed(UndoPost(e), s)
  BY DEF Keyed, UndoPost, Job, NoKey, NoClaim, RandomKey,
         Abstract!Keyed, Abstract!UndoPost, Abstract!Job, Abstract!NoKey,
         Abstract!NoClaim, Abstract!RandomKey
<1> QED BY <1>1, <1>2, <1>3

(* Only a commit changes the rows, and a commit is a step of Book: a form, an
   accrual or an undo takes effect whole. *)
LEMMA RowsChangeByBook ==
  ASSUME TypeOK, StoreInv, [NextStore]_storeVars
  PROVE  [Abstract!Next]_(Abstract!bookVars)
<1>1. CASE \E p \in Procs : Commit(p)
  <2>1. PICK p \in Procs : Commit(p)
    BY <1>1
  <2> DEFINE j == tx[p].job
             s == tx[p].seq
  <2>2. /\ entries' = entries \cup {EntryOf(j, s)}
        /\ claims' = claims \cup ClaimsOf(j, s)
        /\ Open(p) /\ tx[p] # Idle /\ tx[p].pc = "commit"
    BY <2>1 DEF Commit, Open, Idle
  <2>3. s \in Nat \ {0}
    BY <2>2, RunningState DEF StoreInv, Numbered
  <2>4. Abstract!Append(j, s)
    BY <2>2 DEF Abstract!Append, Abstract!Unused, Abstract!EntryOf, Abstract!ClaimsOf,
       Abstract!NoClaim, Unused, EntryOf, ClaimsOf, NoClaim,
       StoreInv, Exclusive, ClaimFree
  <2>5. s \in {e.seq : e \in entries'} \cap (Nat \ {0})
    BY <2>2, <2>3 DEF EntryOf
  <2> HIDE DEF j, s
  <2>6. CASE j \in FormPosts
    <3>1. Abstract!PostForm(s)
      BY <2>4, <2>6, SamePostings DEF Abstract!PostForm
    <3> QED BY <2>5, <3>1 DEF Abstract!Next
  <2>7. CASE j \in ClaimPosts
    <3>1. Abstract!PostClaim(s)
      BY <2>4, <2>7, SamePostings DEF Abstract!PostClaim
    <3> QED BY <2>5, <3>1 DEF Abstract!Next
  <2>8. CASE \E e \in entries : e.kind # "reversal" /\ e.seq < s /\ j = Keyed(UndoPost(e), s)
    <3>1. Abstract!Undo(s)
      BY <2>4, <2>8, SamePostings DEF Abstract!Undo
    <3> QED BY <2>5, <3>1 DEF Abstract!Next
  <2>9. \/ j \in FormPosts \cup ClaimPosts
        \/ \E e \in entries : e.kind # "reversal" /\ e.seq < s /\ j = Keyed(UndoPost(e), s)
    BY <2>2 DEF StoreInv, Origin, j, s
  <2> QED BY <2>6, <2>7, <2>8, <2>9
<1>2. CASE UNCHANGED <<entries, claims>>
  BY <1>2 DEF Abstract!bookVars
<1>3. (\E p \in Procs : Commit(p)) \/ UNCHANGED <<entries, claims>>
  BY DEF NextStore, Handle, Quiet, storeVars, SubmitForm, Accrue, SubmitUndo, Begin, InsertEntry,
         InsertClaim, Lookup, Abort
<1> QED BY <1>1, <1>2, <1>3

(* The transactions of the store implement the atomic book: every behaviour
   of EntryStore, seen through its committed rows, is a behaviour of Book. *)
THEOREM StoreImplementsBook == StoreSpec => ImplementsBook
<1>1. InitStore => Abstract!Init
  BY DEF InitStore, Abstract!Init
<1>2. TypeOK /\ StoreInv /\ [NextStore]_storeVars => [Abstract!Next]_(Abstract!bookVars)
  BY RowsChangeByBook
<1> QED BY <1>1, <1>2, StoreIsTypedAndExclusive, PTL
        DEF StoreSpec, ImplementsBook, Abstract!Spec

(* Nothing is ever taken out of the ledger or its claims. *)
THEOREM StoreOnlyAppends == StoreSpec => AppendOnly
<1>1. [NextStore]_storeVars => [entries \subseteq entries' /\ claims \subseteq claims']_storeVars
  BY DEF NextStore, Handle, Quiet, storeVars, SubmitForm, Accrue, SubmitUndo, Begin, InsertEntry,
         InsertClaim, Commit, Lookup, Abort
<1> QED BY <1>1, PTL DEF StoreSpec, AppendOnly

-----------------------------------------------------------------------------
(***************************************************************************)
(* The promises of Book. They are inductive together with the types of the *)
(* fields they compute with; a step of Book adds one row, so the proofs    *)
(* compare the new row with an old one.                                    *)
(***************************************************************************)
Typed ==
  /\ \A e \in entries : e.seq \in Nat \ {0} /\ e.amount \in Int
  /\ \A c \in claims : c.id \in ClaimIds

BookInv == Typed /\ OncePerKey /\ ClaimedTogether /\ ReversedOnce

LEMMA SameClaims ==
  Abstract!ClaimIds = ClaimIds /\ \A id : Abstract!DerivedKey(id) = DerivedKey(id)
BY DEF Abstract!ClaimIds, Abstract!Tables, Abstract!DerivedKey, ClaimIds, Tables, DerivedKey

(* Book's append, in the words of this module. *)
Append(j, s) ==
  /\ Unused(j, s)
  /\ \A c \in claims : c.id # j.claim
  /\ entries' = entries \cup {EntryOf(j, s)}
  /\ claims' = claims \cup ClaimsOf(j, s)

LEMMA SameAppend ==
  ASSUME NEW j, NEW s, Abstract!Append(j, s)
  PROVE  Append(j, s)
BY DEF Abstract!Append, Abstract!Unused, Abstract!EntryOf, Abstract!ClaimsOf,
       Abstract!NoClaim, Append, Unused, EntryOf, ClaimsOf, NoClaim

(* What a posting must satisfy for the promises to survive it: a claim goes
   with the key derived from it and nothing else does, and a reversal cancels
   an earlier entry. *)
Sound(j, s) ==
  /\ j.amount \in Int
  /\ j.claim = NoClaim \/ (j.claim \in ClaimIds /\ j.key = DerivedKey(j.claim))
  /\ \A id \in ClaimIds : j.key = DerivedKey(id) => j.claim = id
  /\ j.kind = "reversal" =>
       \E e \in entries :
         /\ e.seq = j.reverses /\ e.seq < s /\ e.kind # "reversal"
         /\ e.tab = j.tab /\ e.amount + j.amount = 0

LEMMA StepIsSound ==
  ASSUME Typed, Abstract!Next
  PROVE  \E s \in Nat \ {0} : \E j : Sound(j, s) /\ Append(j, s)
<1>1. PICK s \in Nat \ {0} :
         Abstract!PostForm(s) \/ Abstract!PostClaim(s) \/ Abstract!Undo(s)
  BY DEF Abstract!Next
<1>2. CASE Abstract!PostForm(s)
  <2>1. PICK j \in FormPosts : Append(j, s)
    BY <1>2, SameAppend, SamePostings DEF Abstract!PostForm
  <2>2. Sound(j, s)
    BY FormShape, KeysApart DEF Sound, Kinds
  <2> QED BY <2>1, <2>2
<1>3. CASE Abstract!PostClaim(s)
  <2>1. PICK j \in ClaimPosts : Append(j, s)
    BY <1>3, SameAppend, SamePostings DEF Abstract!PostClaim
  <2>2. Sound(j, s)
    BY ClaimShape, KeysApart DEF Sound, Kinds
  <2> QED BY <2>1, <2>2
<1>4. CASE Abstract!Undo(s)
  <2>1. PICK e \in entries : /\ e.kind # "reversal"
                             /\ e.seq < s
                             /\ Append(Keyed(UndoPost(e), s), s)
    BY <1>4, SameAppend, SamePostings DEF Abstract!Undo
  <2> DEFINE j == Keyed(UndoPost(e), s)
  <2>2. e.amount \in Int
    BY DEF Typed
  <2>3. Sound(j, s)
    BY <2>1, <2>2, UndoShape, KeysApart DEF Sound
  <2> QED BY <2>1, <2>3
<1> QED BY <1>1, <1>2, <1>3, <1>4

-----------------------------------------------------------------------------
LEMMA BookInit == Abstract!Init => BookInv
BY SameClaims
   DEF Abstract!Init, BookInv, Typed, OncePerKey, Abstract!OncePerKey, ClaimedTogether,
       Abstract!ClaimedTogether, ReversedOnce, Abstract!ReversedOnce

LEMMA BookStep == BookInv /\ [Abstract!Next]_(Abstract!bookVars) => BookInv'
<1> SUFFICES ASSUME BookInv, [Abstract!Next]_(Abstract!bookVars)
             PROVE  BookInv'
  OBVIOUS
<1>1. CASE UNCHANGED Abstract!bookVars
  BY <1>1, SameClaims
     DEF BookInv, Typed, OncePerKey, Abstract!OncePerKey, ClaimedTogether,
         Abstract!ClaimedTogether, ReversedOnce, Abstract!ReversedOnce, Abstract!bookVars
<1>2. CASE Abstract!Next
  <2>0. PICK s \in Nat \ {0} : \E j : Sound(j, s) /\ Append(j, s)
    BY <1>2, StepIsSound DEF BookInv
  <2>1. PICK j : Sound(j, s) /\ Append(j, s)
    BY <2>0
  <2> DEFINE new == EntryOf(j, s)
  <2>2. /\ entries' = entries \cup {new}
        /\ claims' = claims \cup ClaimsOf(j, s)
        /\ Unused(j, s)
        /\ \A c \in claims : c.id # j.claim
    BY <2>1 DEF Append
  <2>3. new = [seq |-> s, tab |-> j.tab, kind |-> j.kind, amount |-> j.amount,
               key |-> j.key, reverses |-> j.reverses]
    BY DEF EntryOf
  <2>4. Typed'
    <3>1. \A c \in ClaimsOf(j, s) : c.id \in ClaimIds
      BY <2>1 DEF ClaimsOf, Sound
    <3> QED BY <2>1, <2>2, <2>3, <3>1 DEF BookInv, Typed, Sound
  <2>5. OncePerKey'
    BY <2>2, <2>3 DEF BookInv, OncePerKey, Abstract!OncePerKey, Unused
  <2>6. ClaimedTogether'
    <3>1. \A e \in entries : e.seq # s
      BY <2>2 DEF Unused
    <3>2. \A c \in claims : c.seq # s
      BY <3>1, SameClaims DEF BookInv, ClaimedTogether, Abstract!ClaimedTogether
    <3>3. CASE j.claim = NoClaim
      <4>1. claims' = claims
        BY <2>2, <3>3 DEF ClaimsOf
      <4>2. \A id \in ClaimIds : new.key # DerivedKey(id)
        BY <2>1, <2>3, <3>3, ClaimIsSome DEF Sound
      <4> QED BY <2>2, <4>1, <4>2, SameClaims
             DEF BookInv, ClaimedTogether, Abstract!ClaimedTogether
    <3>4. CASE j.claim # NoClaim
      <4> DEFINE row == [id |-> j.claim, seq |-> s]
      <4>1. claims' = claims \cup {row}
        BY <2>2, <3>4 DEF ClaimsOf
      <4>2. new.seq = s /\ new.key = DerivedKey(j.claim)
        BY <2>1, <2>3, <3>4 DEF Sound
      <4>3. row.id = j.claim /\ row.seq = s
        OBVIOUS
      <4>4. \A c \in claims' : \E e \in entries' :
              e.seq = c.seq /\ e.key = DerivedKey(c.id)
        BY <2>2, <4>1, <4>2, <4>3, SameClaims
           DEF BookInv, ClaimedTogether, Abstract!ClaimedTogether
      <4>5. \A e \in entries' : \A id \in ClaimIds :
              e.key = DerivedKey(id) => [id |-> id, seq |-> e.seq] \in claims'
        <5>1. SUFFICES ASSUME NEW e \in entries', NEW id \in ClaimIds,
                              e.key = DerivedKey(id)
                       PROVE  [id |-> id, seq |-> e.seq] \in claims'
          OBVIOUS
        <5>2. CASE e \in entries
          BY <4>1, <5>1, <5>2, SameClaims DEF BookInv, ClaimedTogether, Abstract!ClaimedTogether
        <5>3. CASE e = new
          BY <2>1, <2>3, <4>1, <4>2, <5>1, <5>3 DEF Sound
        <5> QED BY <2>2, <5>2, <5>3
      <4>6. \A c, d \in claims' : c.id = d.id \/ c.seq = d.seq => c = d
        BY <2>2, <3>2, <4>1, <4>3, SameClaims
           DEF BookInv, ClaimedTogether, Abstract!ClaimedTogether
      <4> HIDE DEF row, new
      <4> QED BY <4>4, <4>5, <4>6, SameClaims DEF ClaimedTogether, Abstract!ClaimedTogether
    <3> QED BY <3>3, <3>4
  <2>7. ReversedOnce'
    <3>1. \A r \in entries' :
            (r.kind = "reversal") =>
              \E e \in entries :
                /\ e.seq = r.reverses /\ e.seq < r.seq /\ e.kind # "reversal"
                /\ e.tab = r.tab /\ e.amount + r.amount = 0
      <4>1. SUFFICES ASSUME NEW r \in entries', r.kind = "reversal"
                     PROVE  \E e \in entries :
                              /\ e.seq = r.reverses /\ e.seq < r.seq
                              /\ e.kind # "reversal"
                              /\ e.tab = r.tab /\ e.amount + r.amount = 0
        OBVIOUS
      <4>2. CASE r \in entries
        BY <4>1, <4>2 DEF BookInv, ReversedOnce, Abstract!ReversedOnce
      <4>3. CASE r = new
        BY <2>1, <2>3, <4>1, <4>3 DEF Sound
      <4> QED BY <2>2, <4>2, <4>3
    <3>2. \A q, r \in entries' : q.reverses # 0 /\ q.reverses = r.reverses => q = r
      BY <2>2, <2>3 DEF BookInv, ReversedOnce, Abstract!ReversedOnce, Unused
    <3> QED BY <2>2, <3>1, <3>2 DEF ReversedOnce, Abstract!ReversedOnce
  <2> QED BY <2>4, <2>5, <2>6, <2>7 DEF BookInv
<1> QED BY <1>1, <1>2

(* The three promises hold throughout every behaviour of Book. *)
THEOREM BookKeepsItsPromises ==
  Abstract!Spec => [](OncePerKey /\ ClaimedTogether /\ ReversedOnce)
<1>1. BookInv => OncePerKey /\ ClaimedTogether /\ ReversedOnce
  BY DEF BookInv
<1> QED BY BookInit, BookStep, <1>1, PTL DEF Abstract!Spec

(* The committed rows keep the promises of Book: a key posts once, a claim and
   its entry stand or fall together, and an entry is reversed at most once, by
   its exact negative. *)
THEOREM StoreKeepsItsPromises ==
  StoreSpec => [](OncePerKey /\ ClaimedTogether /\ ReversedOnce)
BY StoreImplementsBook, BookKeepsItsPromises DEF ImplementsBook

-----------------------------------------------------------------------------
(* A posting that carries a claim is under the key derived from it. *)
LEMMA ClaimKey ==
  ASSUME Origin, NEW p \in Procs, tx[p] # Idle, tx[p].pc # "insert",
         tx[p].job.claim # NoClaim
  PROVE  tx[p].job.key = DerivedKey(tx[p].job.claim)
<1>1. tx[p].job \in ClaimPosts
  BY FormShape, UndoShape DEF Origin
<1> QED BY <1>1, ClaimShape

(* An entry that stands in the way of a posting. *)
Blocks(e, j) == e.key = j.key \/ (j.reverses # 0 /\ e.reverses = j.reverses)

(* A posting that was rolled back met an entry, and the entry stays. *)
Founded ==
  \A p \in Procs : tx[p].pc = "lookup" => \E e \in entries : Blocks(e, tx[p].job)

LEMMA FoundedStep ==
  ASSUME TypeOK, StoreInv, ClaimedTogether, Founded, [NextStore]_storeVars
  PROVE  Founded'
<1> DEFINE Kept(q) ==
      tx'[q].pc = "lookup" => \E e \in entries' : Blocks(e, tx'[q].job)
<1>1. ASSUME NEW q \in Procs, tx'[q] = tx[q], entries \subseteq entries'
      PROVE  Kept(q)
  BY <1>1 DEF Founded
<1>2. ASSUME NEW p \in Procs, InsertEntry(p)
      PROVE  \A q \in Procs : Kept(q)
  <2> DEFINE j == Keyed(tx[p].job, nextSeq)
  <2>1. /\ UNCHANGED entries
        /\ \A q \in Procs \ {p} : tx'[q] = tx[q]
        /\ tx'[p].job = j /\ (tx'[p].pc = "lookup" => ~Unused(j, nextSeq))
    BY <1>2 DEF InsertEntry, TypeOK
  <2>2. \A e \in entries : e.seq # nextSeq
    BY DEF StoreInv, Numbered, TypeOK, Rows
  <2>3. Kept(p)
    BY <2>1, <2>2 DEF Unused, Blocks
  <2> QED BY <1>1, <2>1, <2>3
<1>3. ASSUME NEW p \in Procs, InsertClaim(p)
      PROVE  \A q \in Procs : Kept(q)
  <2>1. /\ UNCHANGED entries
        /\ tx[p].pc = "claim" /\ tx[p] # Idle
        /\ \A q \in Procs \ {p} : tx'[q] = tx[q]
        /\ tx'[p].job = tx[p].job
        /\ tx'[p].pc = "lookup" => \E c \in claims : c.id = tx[p].job.claim
    BY <1>3 DEF InsertClaim, TypeOK, Idle
  <2>2. ASSUME NEW c \in claims, c.id = tx[p].job.claim
        PROVE  \E e \in entries : e.key = tx[p].job.key
    <3>1. c.id \in ClaimIds
      BY DEF TypeOK
    <3>2. tx[p].job.key = DerivedKey(c.id)
      BY <2>1, <2>2, <3>1, ClaimIsSome, ClaimKey DEF StoreInv
    <3> QED BY <3>2, SameClaims DEF ClaimedTogether, Abstract!ClaimedTogether
  <2>3. Kept(p)
    BY <2>1, <2>2 DEF Blocks
  <2> QED BY <1>1, <2>1, <2>3
<1>4. ASSUME NEW p \in Procs, tx'[p].pc # "lookup", entries \subseteq entries',
             \A q \in Procs \ {p} : tx'[q] = tx[q]
      PROVE  \A q \in Procs : Kept(q)
  BY <1>1, <1>4
<1>5. ASSUME NEW p \in Procs,
             SubmitForm(p) \/ Accrue(p) \/ SubmitUndo(p) \/ Commit(p) \/ Lookup(p) \/ Abort(p)
      PROVE  \A q \in Procs : Kept(q)
  <2>1. /\ tx'[p].pc # "lookup" /\ entries \subseteq entries'
        /\ \A q \in Procs \ {p} : tx'[q] = tx[q]
    <3>1. CASE \E j : Begin(p, j)
      BY <3>1 DEF Begin, TypeOK
    <3>2. CASE Commit(p) \/ Lookup(p) \/ Abort(p)
      BY <3>2 DEF Commit, Lookup, Abort, Return, Idle, TypeOK
    <3> QED BY <1>5, <3>1, <3>2 DEF SubmitForm, Accrue, SubmitUndo
  <2> QED BY <1>4, <2>1
<1>6. CASE UNCHANGED storeVars
  BY <1>6 DEF storeVars, Founded
<1> QED BY <1>2, <1>3, <1>5, <1>6 DEF NextStore, Handle, Quiet, Founded

(* An answer is true: what a handler is told of was posted, or was found, and
   a conflict has an entry to be in conflict with. *)
LEMMA AnswersStep ==
  ASSUME TypeOK, StoreInv, OncePerKey, ClaimedTogether, Founded, [NextStore]_storeVars,
         NEW p \in Procs, tx[p] # Idle, tx'[p] = Idle
  PROVE  Answers(tx[p].job, reply'[p])
<1>1. Commit(p) \/ Lookup(p) \/ Abort(p)
  <2>1. ASSUME NEW q \in Procs \ {p}, Handle(q)
        PROVE  tx'[p] = tx[p]
    <3>1. CASE \E j : Begin(q, j)
      BY <3>1 DEF Begin, TypeOK
    <3>2. CASE InsertEntry(q) \/ InsertClaim(q) \/ Commit(q) \/ Lookup(q) \/ Abort(q)
      BY <3>2 DEF InsertEntry, InsertClaim, Commit, Lookup, Abort, Return, TypeOK
    <3> QED BY <2>1, <3>1, <3>2 DEF Handle, SubmitForm, Accrue, SubmitUndo
  <2>2. ~SubmitForm(p) /\ ~Accrue(p) /\ ~SubmitUndo(p)
    BY DEF SubmitForm, Accrue, SubmitUndo, Begin
  <2>3. ~InsertEntry(p) /\ ~InsertClaim(p)
    BY DEF InsertEntry, InsertClaim, Idle, TypeOK
  <2>4. Handle(p)
    BY <2>1 DEF NextStore, Quiet, storeVars
  <2> QED BY <2>2, <2>3, <2>4 DEF Handle
<1>2. CASE Commit(p)
  <2>1. EntryOf(tx[p].job, tx[p].seq) \in entries'
    BY <1>2 DEF Commit
  <2>2. reply'[p] \in {[outcome |-> "posted", seq |-> tx[p].seq],
                       [outcome |-> "failed", seq |-> 0]}
    BY <1>2 DEF Commit, Return, TypeOK
  <2> QED BY <2>1, <2>2 DEF Answers, EntryOf
<1>3. CASE Abort(p)
  <2>1. reply'[p] = [outcome |-> "failed", seq |-> 0]
    BY <1>3 DEF Abort, Return, TypeOK
  <2> QED BY <2>1 DEF Answers
<1>4. CASE Lookup(p)
  <2>0. tx[p].pc = "lookup" /\ entries' = entries
    BY <1>4 DEF Lookup
  <2>1. CASE Return(p, "conflict", 0)
    <3>1. reply'[p] = [outcome |-> "conflict", seq |-> 0]
      BY <2>1 DEF Return, TypeOK
    <3> QED BY <2>0, <3>1 DEF Answers, Founded, Blocks
  <2>2. ASSUME NEW e \in Holders(tx[p].job), Return(p, "replayed", e.seq)
        PROVE  Answers(tx[p].job, reply'[p])
    <3>1. reply'[p] = [outcome |-> "replayed", seq |-> e.seq]
      BY <2>2 DEF Return, TypeOK
    <3>2. /\ e \in entries
          /\ e.key = tx[p].job.key \/ [id |-> tx[p].job.claim, seq |-> e.seq] \in claims
      BY <2>2 DEF Holders
    <3>3. ASSUME NEW c \in claims, c = [id |-> tx[p].job.claim, seq |-> e.seq]
          PROVE  e.key = tx[p].job.key
      <4>1. c.id \in ClaimIds /\ c.id = tx[p].job.claim /\ c.seq = e.seq
        BY <3>3 DEF TypeOK
      <4>2. tx[p].job.key = DerivedKey(c.id)
        BY <2>0, <4>1, ClaimIsSome, ClaimKey DEF StoreInv
      <4>3. PICK f \in entries : f.seq = c.seq /\ f.key = DerivedKey(c.id)
        BY SameClaims DEF ClaimedTogether, Abstract!ClaimedTogether
      <4>4. e = f
        BY <3>2, <4>1, <4>3 DEF OncePerKey, Abstract!OncePerKey
      <4> QED BY <4>2, <4>3, <4>4
    <3>4. e \in entries /\ e.key = tx[p].job.key
      BY <3>2, <3>3
    <3> QED BY <2>0, <3>1, <3>4 DEF Answers
  <2> QED BY <1>4, <2>1, <2>2 DEF Lookup
<1> QED BY <1>1, <1>2, <1>3, <1>4

(* What a handler is told is so, whatever the others did between its rollback
   and its lookup. *)
THEOREM RepliesAreTrue == StoreSpec => TruthfulReply
<1> DEFINE Promised == TypeOK /\ StoreInv /\ OncePerKey /\ ClaimedTogether
<1>1. StoreSpec => []Promised
  BY StoreIsTypedAndExclusive, StoreKeepsItsPromises, PTL
<1>2. InitStore => Founded
  BY DEF InitStore, Founded, Idle
<1>3. Promised /\ Founded /\ [NextStore]_storeVars => Founded'
  BY FoundedStep
<1>4. Promised /\ Founded /\ [NextStore]_storeVars =>
        [\A p \in Procs : tx[p] # Idle /\ tx'[p] = Idle => Answers(tx[p].job, reply'[p])]_storeVars
  BY AnswersStep
<1> HIDE DEF Promised
<1> QED BY <1>1, <1>2, <1>3, <1>4, PTL DEF StoreSpec, TruthfulReply

-----------------------------------------------------------------------------
(* Accrual: what a tab was charged for, and when. *)

OneConnection == ~Parallel /\ ~Straddle

OneGrid == \A s, t \in Schedules : s.anchor = t.anchor /\ s.step = t.step

BatchSuffices ==
  \A s \in Schedules, n \in 0 .. MaxDay : DueOn(s, n) <= MaxDay => n < MaxPeriods

-----------------------------------------------------------------------------
(* ItemRows are numbered without gaps, dated from the tab's creation on, and not
   removed before it. *)
RowSet(rows) ==
  /\ IsFiniteSet(rows)
  /\ \A it \in rows :
       /\ it \in [id : 1 .. Cardinality(rows), from : Nat, until : Nat]
       /\ CreatedAt <= it.from /\ CreatedAt < it.until
  /\ \A a, b \in rows : a.id = b.id => a = b

ItemRows ==
  /\ day \in Created .. MaxDay
  /\ edit \in [Editors -> Nat]
  /\ RowSet(items)

(* On one connection a row that an update has read is still carried, and
   nobody else is updating. *)
Alone ==
  \A p \in Editors : edit[p] # 0 =>
    /\ \A q \in Editors : edit[q] # 0 => q = p
    /\ \A it \in items : it.id = edit[p] => it.until = Never

ItemsInv == ItemRows /\ (OneConnection => Alone)

LEMMA Instants ==
  ASSUME ItemRows
  PROVE  /\ CreatedAt \in Nat /\ Never \in Nat /\ During(day) \in Nat /\ Midnight(day) \in Nat
         /\ CreatedAt < During(day) /\ During(day) < Never /\ Midnight(day) < During(day)
  BY DaysAssumption DEF ItemRows, CreatedAt, Never, During, Midnight

LEMMA StampsAre ==
  ASSUME ItemRows, NEW at \in Stamps
  PROVE  at \in Nat /\ CreatedAt < at /\ at < Never /\ (OneConnection => at = During(day))
  BY DaysAssumption DEF ItemRows, Stamps, CreatedAt, Never, During, Midnight, OneConnection

LEMMA ItemsInit == InitItems => ItemsInv
<1> SUFFICES ASSUME InitItems PROVE ItemsInv
  OBVIOUS
<1>1. IsFiniteSet(items) /\ Cardinality(items) = 1
  BY FS_Singleton DEF InitItems
<1>2. day = Created /\ edit \in [Editors -> Nat] /\ \A p \in Editors : edit[p] = 0
  BY DEF InitItems
<1>3. /\ CreatedAt \in Nat /\ Never \in Nat /\ CreatedAt < Never
  BY DaysAssumption DEF CreatedAt, Never, Midnight
<1>4. \A it \in items : it = [id |-> 1, from |-> CreatedAt, until |-> Never]
  BY DEF InitItems, Item
<1>5. QED
  BY <1>1, <1>2, <1>3, <1>4, DaysAssumption DEF ItemsInv, ItemRows, RowSet, Alone

(* A row is added. *)
LEMMA AddRow ==
  ASSUME NEW rows, RowSet(rows), NEW from \in Nat, CreatedAt <= from
  PROVE  RowSet(rows \cup {Item(Cardinality(rows) + 1, from)})
<1> DEFINE new == Item(Cardinality(rows) + 1, from)
           more == rows \cup {new}
<1>1. Cardinality(rows) \in Nat
  BY FS_CardinalityType DEF RowSet
<1>2. new = [id |-> Cardinality(rows) + 1, from |-> from, until |-> Never]
  BY DEF Item
<1>3. new \notin rows /\ \A it \in rows : it.id # new.id
  BY <1>1, <1>2 DEF RowSet
<1>4. IsFiniteSet(more) /\ Cardinality(more) = Cardinality(rows) + 1
  BY <1>3, FS_AddElement DEF RowSet
<1>5. Never \in Nat /\ CreatedAt < Never
  BY DaysAssumption DEF Never, CreatedAt, Midnight
<1>6. ASSUME NEW it \in more
      PROVE  /\ it \in [id : 1 .. Cardinality(more), from : Nat, until : Nat]
             /\ CreatedAt <= it.from /\ CreatedAt < it.until
  <2>1. CASE it \in rows
    BY <1>1, <1>4, <2>1 DEF RowSet
  <2>2. CASE it = new
    BY <1>1, <1>2, <1>4, <1>5, <2>2
  <2>3. QED BY <2>1, <2>2
<1>7. \A a, b \in more : a.id = b.id => a = b
  BY <1>3 DEF RowSet
<1>8. QED
  BY <1>4, <1>6, <1>7 DEF RowSet

(* A row is retired. *)
LEMMA RetireRow ==
  ASSUME NEW rows, RowSet(rows), NEW it \in rows, NEW at \in Nat, CreatedAt < at
  PROVE  /\ RowSet((rows \ {it}) \cup {Retired(it, at)})
         /\ Cardinality((rows \ {it}) \cup {Retired(it, at)}) = Cardinality(rows)
<1> DEFINE rest == rows \ {it}
           old == Retired(it, at)
           all == rest \cup {old}
<1>1. Cardinality(rows) \in Nat
  BY FS_CardinalityType DEF RowSet
<1>2. IsFiniteSet(rest) /\ Cardinality(rest) = Cardinality(rows) - 1
  BY FS_RemoveElement DEF RowSet
<1>3. old = [id |-> it.id, from |-> it.from, until |-> at]
  BY DEF RowSet, Retired
<1>4. old \notin rest
  BY <1>3 DEF RowSet
<1>5. IsFiniteSet(all) /\ Cardinality(all) = Cardinality(rows)
  BY <1>1, <1>2, <1>4, FS_AddElement
<1>6. ASSUME NEW x \in all
      PROVE  /\ x \in [id : 1 .. Cardinality(all), from : Nat, until : Nat]
             /\ CreatedAt <= x.from /\ CreatedAt < x.until
  BY <1>3, <1>5 DEF RowSet
<1>7. \A a, b \in all : a.id = b.id => a = b
  BY <1>3 DEF RowSet
<1>8. QED
  BY <1>5, <1>6, <1>7 DEF RowSet

(* The items are what they were, or a row is added, or one is retired and
   perhaps replaced. *)
LEMMA EditsAre ==
  ASSUME ItemRows, EditItems
  PROVE  /\ day' = day /\ edit' \in [Editors -> Nat]
         /\ \/ items' = items
            \/ Free /\ \E at \in Stamps : items' = items \cup {Item(Cardinality(items) + 1, at)}
            \/ Free /\ \E it \in Live, at \in Stamps :
                 items' = (items \ {it}) \cup {Retired(it, at)}
            \/ \E p \in Editors, it \in items, at \in Stamps :
                 /\ edit[p] # 0 /\ it.id = edit[p] /\ edit' = [edit EXCEPT ![p] = 0]
                 /\ items' = (items \ {it}) \cup
                               {Retired(it, at), Item(Cardinality(items) + 1, at)}
<1>1. CASE AddItem BY <1>1 DEF AddItem, ItemRows
<1>2. CASE RemoveItem BY <1>2 DEF RemoveItem, ItemRows
<1>3. CASE \E p \in Editors : UpdateRead(p)
  BY <1>3 DEF UpdateRead, ItemRows, RowSet, Live
<1>4. CASE \E p \in Editors : UpdateWrite(p)
  <2>1. PICK p \in Editors : UpdateWrite(p) BY <1>4
  <2>2. edit' = [edit EXCEPT ![p] = 0] /\ day' = day BY <2>1 DEF UpdateWrite
  <2>3. \E it \in items, at \in Stamps :
          /\ edit[p] # 0 /\ it.id = edit[p]
          /\ items' = (items \ {it}) \cup
                        {Retired(it, at), Item(Cardinality(items) + 1, at)}
    BY <2>1 DEF UpdateWrite
  <2>4. QED BY <2>2, <2>3 DEF ItemRows
<1>5. CASE \E p \in Editors : UpdateAbort(p)
  BY <1>5 DEF UpdateAbort, ItemRows
<1>6. QED BY <1>1, <1>2, <1>3, <1>4, <1>5 DEF EditItems

LEMMA RowsPreserved ==
  ASSUME ItemRows, EditItems
  PROVE  ItemRows'
<1>1. day' \in Created .. MaxDay /\ edit' \in [Editors -> Nat]
  BY EditsAre DEF ItemRows
<1>2. \A at \in Stamps : at \in Nat /\ CreatedAt < at
  BY StampsAre
<1>3. CreatedAt \in Nat
  BY Instants
<1>4. RowSet(items')
  <2>1. CASE items' = items
    BY <2>1 DEF ItemRows
  <2>2. CASE \E at \in Stamps : items' = items \cup {Item(Cardinality(items) + 1, at)}
    BY <1>2, <1>3, <2>2, AddRow DEF ItemRows
  <2>3. CASE \E it \in Live, at \in Stamps :
               items' = (items \ {it}) \cup {Retired(it, at)}
    BY <1>2, <2>3, RetireRow DEF ItemRows, Live
  <2>4. CASE \E it \in items, at \in Stamps :
               items' = (items \ {it}) \cup
                          {Retired(it, at), Item(Cardinality(items) + 1, at)}
    <3>1. PICK it \in items, at \in Stamps :
               items' = (items \ {it}) \cup
                          {Retired(it, at), Item(Cardinality(items) + 1, at)}
      BY <2>4
    <3> DEFINE retired == (items \ {it}) \cup {Retired(it, at)}
    <3>2. RowSet(retired) /\ Cardinality(retired) = Cardinality(items)
      BY <1>2, RetireRow DEF ItemRows
    <3>3. items' = retired \cup {Item(Cardinality(retired) + 1, at)}
      BY <3>1, <3>2
    <3>4. PICK rows : rows = retired
      OBVIOUS
    <3> HIDE DEF retired
    <3>5. RowSet(rows \cup {Item(Cardinality(rows) + 1, at)})
      BY <1>2, <1>3, <3>2, <3>4, AddRow
    <3>6. QED BY <3>3, <3>4, <3>5
  <2>5. QED BY <2>1, <2>2, <2>3, <2>4, EditsAre
<1>5. QED BY <1>1, <1>4 DEF ItemRows, RowSet, CreatedAt

LEMMA AlonePreserved ==
  ASSUME OneConnection, ItemRows, Alone, EditItems
  PROVE  Alone'
<1>1. CASE AddItem \/ RemoveItem
  <2>1. \A p \in Editors : edit'[p] = 0
    BY <1>1 DEF AddItem, RemoveItem, Free, OneConnection
  <2>2. QED BY <2>1 DEF Alone
<1>2. ASSUME NEW p \in Editors, UpdateRead(p)
      PROVE  Alone'
  <2>1. PICK it \in Live : edit' = [edit EXCEPT ![p] = it.id]
    BY <1>2 DEF UpdateRead
  <2>2. \A q \in Editors \ {p} : edit'[q] = 0
    BY <1>2, <2>1 DEF UpdateRead, Free, OneConnection
  <2>3. edit'[p] = it.id /\ items' = items
    BY <1>2, <2>1 DEF UpdateRead, ItemRows
  <2>4. \A x \in items : x.id = it.id => x.until = Never
    BY DEF Live, ItemRows, RowSet
  <2>5. QED BY <2>2, <2>3, <2>4 DEF Alone, Never, Midnight
<1>3. ASSUME NEW p \in Editors, UpdateWrite(p) \/ UpdateAbort(p)
      PROVE  Alone'
  <2>1. \A q \in Editors : edit'[q] = 0
    BY <1>3 DEF UpdateWrite, UpdateAbort, Alone, ItemRows
  <2>2. QED BY <2>1 DEF Alone
<1>4. QED BY <1>1, <1>2, <1>3 DEF EditItems

-----------------------------------------------------------------------------
(* What the tab carries at a moment before any edit of today. *)
LEMMA PastKept ==
  ASSUME OneConnection, ItemRows, Alone, EditItems, NEW t \in Int, t < During(day)
  PROVE  ItemsAsOf(items', t) = ItemsAsOf(items, t)
<1>1. \A at \in Stamps : at = During(day) /\ at \in Nat
  BY StampsAre
<1>2. During(day) \in Nat /\ Never \in Nat /\ t < Never
  BY Instants
<1>3. CASE items' = items
  BY <1>3
<1>4. ASSUME NEW at \in Stamps, items' = items \cup {Item(Cardinality(items) + 1, at)}
      PROVE  ItemsAsOf(items', t) = ItemsAsOf(items, t)
  BY <1>1, <1>4 DEF ItemsAsOf, Item
<1>5. ASSUME NEW it \in items, NEW at \in Stamps, NEW new,
             it.until = Never,
             new = {} \/ new = {Item(Cardinality(items) + 1, at)},
             items' = (items \ {it}) \cup {Retired(it, at)} \cup new
      PROVE  ItemsAsOf(items', t) = ItemsAsOf(items, t)
  <2>1. Retired(it, at) = [id |-> it.id, from |-> it.from, until |-> During(day)]
    BY <1>1 DEF Retired, ItemRows, RowSet
  <2>2. \A x \in new : ~(x.from <= t)
    BY <1>1, <1>2, <1>5 DEF Item
  <2>3. Retired(it, at).id = it.id /\
        ((Retired(it, at).from <= t /\ t < Retired(it, at).until)
           <=> (it.from <= t /\ t < it.until))
    BY <1>2, <1>5, <2>1
  <2>4. QED BY <1>5, <2>2, <2>3 DEF ItemsAsOf
<1>6. CASE \E it \in Live, at \in Stamps :
             items' = (items \ {it}) \cup {Retired(it, at)}
  <2>1. PICK it \in Live, at \in Stamps : items' = (items \ {it}) \cup {Retired(it, at)}
    BY <1>6
  <2>2. it \in items /\ it.until = Never BY DEF Live
  <2>3. items' = (items \ {it}) \cup {Retired(it, at)} \cup {} BY <2>1
  <2>4. QED BY <1>5, <2>2, <2>3
<1>7. CASE \E p \in Editors, it \in items, at \in Stamps :
             /\ edit[p] # 0 /\ it.id = edit[p]
             /\ items' = (items \ {it}) \cup
                           {Retired(it, at), Item(Cardinality(items) + 1, at)}
  <2>1. PICK p \in Editors, it \in items, at \in Stamps :
             /\ edit[p] # 0 /\ it.id = edit[p]
             /\ items' = (items \ {it}) \cup
                           {Retired(it, at), Item(Cardinality(items) + 1, at)}
    BY <1>7
  <2>2. it.until = Never BY <2>1 DEF Alone
  <2> DEFINE new == {Item(Cardinality(items) + 1, at)}
  <2>3. items' = (items \ {it}) \cup {Retired(it, at)} \cup new BY <2>1
  <2> HIDE DEF new
  <2>4. new = {Item(Cardinality(items) + 1, at)} BY DEF new
  <2>5. QED BY <1>5, <2>2, <2>3, <2>4
<1>8. QED BY <1>3, <1>4, <1>6, <1>7, EditsAre

-----------------------------------------------------------------------------
(* A history agrees with the rows on every moment before a day's edits. *)
Agrees(history, d) ==
  \A t \in Int : t < During(d) => ItemsAsOf(history, t) = ItemsAsOf(items, t)

(* The history a reader holds agrees with the rows up to the day it reads;
   the cycles it has left are due by then, and those it has dealt with are
   claimed. *)
ReaderOK(r) ==
  /\ reader[r].pc \in {"resting", "history", "claims", "post"}
  /\ reader[r].pc # "resting" => reader[r].s \in Schedules
  /\ reader[r].pc = "claims" /\ OneConnection => Agrees(reader[r].history, day)
  /\ reader[r].pc = "post" =>
       /\ reader[r].asOf \in Created .. day
       /\ reader[r].todo \subseteq DueThrough(reader[r].s, reader[r].asOf)
       /\ \A n \in DueThrough(reader[r].s, reader[r].asOf) :
            n \in reader[r].todo \/ Key(reader[r].s, n) \in Claimed
       /\ OneConnection => Agrees(reader[r].history, reader[r].asOf)

(* Each charge is of one cycle of some schedule, due by today, and bills what
   the rows say of its date. *)
ChargeOK(c) ==
  \E s \in Schedules, n \in Nat :
    /\ c.key = Key(s, n) /\ c.first = Start(s, n) /\ c.end = Start(s, n + 1)
    /\ c.due = DueOn(s, n) /\ c.due <= day
    /\ OneConnection => c.bills = ItemsAsOf(items, BilledAsOf(c.due))

IInv ==
  /\ ItemsInv
  /\ sched \in Schedules \cup {NoSchedule}
  /\ DOMAIN reader = Readers
  /\ \A r \in Readers : ReaderOK(r)
  /\ \A c \in posted : ChargeOK(c)
  /\ \A c, d \in posted : c.key = d.key => c = d

LEMMA StartType ==
  ASSUME NEW s \in Schedules, NEW n \in Nat
  PROVE  Start(s, n) \in Nat /\ Key(s, n) \in Nat /\ DueOn(s, n) \in Nat
<1>1. s.anchor \in Nat /\ s.step \in Nat /\ s.step > 0
  BY SchedulesAssumption
<1>2. \A m \in Nat : m * s.step \in Nat
  BY <1>1
<1>3. QED BY <1>1, <1>2 DEF Start, Key, DueOn

LEMMA MomentBefore ==
  ASSUME NEW due \in Nat, NEW d \in Nat, due <= d, Created <= d
  PROVE  BilledAsOf(due) \in Int /\ BilledAsOf(due) < During(d)
  BY DaysAssumption DEF BilledAsOf, Midnight, CreatedAt, During

(* ItemRows that agree on a day's past keep every reader and charge right. *)
LEMMA PastIsEnough ==
  ASSUME IInv, ItemsInv', day' \in Nat, day <= day', UNCHANGED <<sched, posted, reader>>,
         OneConnection => \A t \in Int : t < During(day) => ItemsAsOf(items', t) = ItemsAsOf(items, t),
         OneConnection => day' = day \/ \A r \in Readers : reader[r].pc # "claims"
  PROVE  IInv'
<1>1. day \in Nat /\ Created <= day
  BY DaysAssumption DEF IInv, ItemsInv, ItemRows
<1>2. ASSUME NEW r \in Readers
      PROVE  ReaderOK(r)'
  <2>1. ReaderOK(r) BY DEF IInv
  <2>2. Claimed' = Claimed BY DEF Claimed
  <2>3. ASSUME OneConnection, NEW d \in Nat, d <= day, NEW history, Agrees(history, d)
        PROVE  \A t \in Int : t < During(d) => ItemsAsOf(history, t) = ItemsAsOf(items', t)
    <3>1. \A t \in Int : t < During(d) => t < During(day)
      BY <1>1, <2>3 DEF During
    <3>2. QED BY <2>3, <3>1 DEF Agrees
  <2>4. ASSUME reader[r].pc = "post"
        PROVE  /\ reader[r].asOf \in Created .. day' /\ reader[r].asOf \in Nat
               /\ reader[r].asOf <= day
    BY <1>1, <2>1, <2>4, DaysAssumption DEF ReaderOK
  <2>5. ASSUME reader[r].pc = "claims", OneConnection
        PROVE  Agrees(reader[r].history, day)'
    BY <1>1, <2>1, <2>3, <2>5 DEF ReaderOK, Agrees, During
  <2>6. ASSUME reader[r].pc = "post", OneConnection
        PROVE  Agrees(reader[r].history, reader[r].asOf)'
    BY <2>1, <2>3, <2>4, <2>6 DEF ReaderOK, Agrees, During
  <2>7. QED BY <2>1, <2>2, <2>4, <2>5, <2>6 DEF ReaderOK
<1>3. ASSUME NEW c \in posted
      PROVE  ChargeOK(c)'
  <2>1. PICK s \in Schedules, n \in Nat :
          /\ c.key = Key(s, n) /\ c.first = Start(s, n) /\ c.end = Start(s, n + 1)
          /\ c.due = DueOn(s, n) /\ c.due <= day
          /\ OneConnection => c.bills = ItemsAsOf(items, BilledAsOf(c.due))
    BY DEF IInv, ChargeOK
  <2>2. c.due \in Nat BY <2>1, StartType
  <2>3. BilledAsOf(c.due) \in Int /\ BilledAsOf(c.due) < During(day)
    BY <1>1, <2>1, <2>2, MomentBefore
  <2>4. OneConnection => c.bills = ItemsAsOf(items', BilledAsOf(c.due))
    BY <2>1, <2>3
  <2>5. c.due <= day' BY <1>1, <2>1, <2>2
  <2>6. QED BY <2>1, <2>4, <2>5 DEF ChargeOK, BilledAsOf, Midnight, CreatedAt
<1>4. QED BY <1>2, <1>3 DEF IInv

(* A reader that posts nothing takes a step. *)
LEMMA ReaderMoves ==
  ASSUME IInv, NEW r \in Readers, NEW to, reader' = [reader EXCEPT ![r] = to],
         UNCHANGED <<day, items, edit, posted, sched>>, ReaderOK(r)'
  PROVE  IInv'
<1>1. DOMAIN reader' = Readers /\ \A q \in Readers \ {r} : reader'[q] = reader[q]
  BY DEF IInv
<1>2. \A q \in Readers \ {r} : ReaderOK(q)'
  BY <1>1 DEF IInv, ReaderOK, Agrees, Claimed, During
<1>3. ItemsInv'
  BY DEF IInv, ItemsInv, ItemRows, RowSet, Alone, CreatedAt, Never, Midnight
<1>4. \A c \in posted : ChargeOK(c)'
  BY DEF IInv, ChargeOK, BilledAsOf, Midnight, CreatedAt
<1>5. QED BY <1>1, <1>2, <1>3, <1>4 DEF IInv

LEMMA PostPeriodPreserves ==
  ASSUME IInv, NEW r \in Readers, PostPeriod(r)
  PROVE  IInv'
<1>1. reader[r].pc = "post" /\ ReaderOK(r)
  BY DEF PostPeriod, IInv
<1> DEFINE s == reader[r].s
           as == reader[r].asOf
<1>2. /\ s \in Schedules /\ as \in Created .. day /\ as \in Nat /\ day \in Nat
      /\ Created \in Nat
  BY <1>1, DaysAssumption DEF ReaderOK, IInv, ItemsInv, ItemRows
<1>3. PICK n \in reader[r].todo :
        /\ posted' = posted \cup (IF Key(s, n) \in Claimed THEN {} ELSE {Charge(r, n)})
        /\ reader' = [reader EXCEPT ![r] =
             [pc |-> "post", s |-> s, history |-> reader[r].history, asOf |-> as,
              todo |-> Rest(r, n)]]
  BY DEF PostPeriod
<1>4. n \in Nat /\ DueOn(s, n) <= as
  BY <1>1, <1>3 DEF ReaderOK, DueThrough
<1>5. DueOn(s, n) \in Nat
  BY <1>2, <1>4, StartType
<1>6. UNCHANGED <<day, items, edit, sched>>
  BY DEF PostPeriod
<1>7. Charge(r, n).key = Key(s, n) /\ Claimed' = Claimed \cup {Key(s, n)}
  <2>1. Charge(r, n).key = Key(s, n) BY DEF Charge
  <2>2. CASE Key(s, n) \in Claimed BY <1>3, <2>1, <2>2 DEF Claimed
  <2>3. CASE Key(s, n) \notin Claimed
    <3>1. posted' = posted \cup {Charge(r, n)} BY <1>3, <2>3
    <3>2. QED BY <2>1, <3>1 DEF Claimed
  <2>4. QED BY <2>1, <2>2, <2>3
<1>8. /\ DOMAIN reader' = Readers
      /\ \A q \in Readers \ {r} : reader'[q] = reader[q]
      /\ reader'[r] = [pc |-> "post", s |-> s, history |-> reader[r].history, asOf |-> as,
                       todo |-> reader[r].todo \ {n}]
  BY <1>3 DEF IInv, Rest
<1>9. ItemsInv'
  BY <1>6 DEF IInv, ItemsInv, ItemRows, RowSet, Alone, CreatedAt, Never, Midnight
<1>10. ASSUME NEW q \in Readers \ {r}
       PROVE  ReaderOK(q)'
  <2>1. ReaderOK(q) BY DEF IInv
  <2>2. QED BY <1>6, <1>7, <1>8, <2>1 DEF ReaderOK, Agrees, During
<1>11. ReaderOK(r)'
  <2>1. \A m \in DueThrough(s, as) :
          m \in reader[r].todo \/ Key(s, m) \in Claimed
    BY <1>1 DEF ReaderOK
  <2>2. \A m \in DueThrough(s, as) :
          m \in reader[r].todo \ {n} \/ Key(s, m) \in Claimed'
    BY <1>7, <2>1
  <2>3. reader[r].todo \ {n} \subseteq DueThrough(s, as)
    BY <1>1 DEF ReaderOK
  <2>4. OneConnection => Agrees(reader[r].history, reader[r].asOf)'
    BY <1>1, <1>6, <1>8 DEF ReaderOK, Agrees, During
  <2>5. QED BY <1>2, <1>6, <1>8, <2>2, <2>3, <2>4 DEF ReaderOK
<1>12. ASSUME NEW c \in posted'
       PROVE  ChargeOK(c)'
  <2>1. CASE c \in posted
    BY <1>6, <2>1 DEF IInv, ChargeOK, BilledAsOf, Midnight, CreatedAt
  <2>2. CASE c = Charge(r, n)
    <3>1. BilledAsOf(DueOn(s, n)) \in Int /\ BilledAsOf(DueOn(s, n)) < During(as)
      BY <1>2, <1>4, <1>5, MomentBefore
    <3>2. OneConnection => ItemsAsOf(reader[r].history, BilledAsOf(DueOn(s, n)))
                         = ItemsAsOf(items, BilledAsOf(DueOn(s, n)))
      BY <1>1, <3>1 DEF ReaderOK, Agrees
    <3>3. DueOn(s, n) <= day
      BY <1>2, <1>4, <1>5
    <3>4. /\ c.key = Key(s, n) /\ c.first = Start(s, n) /\ c.end = Start(s, n + 1)
          /\ c.due = DueOn(s, n)
          /\ c.bills = ItemsAsOf(reader[r].history, BilledAsOf(DueOn(s, n)))
      BY <2>2 DEF Charge
    <3>5. QED
      BY <1>2, <1>4, <1>6, <3>2, <3>3, <3>4 DEF ChargeOK, BilledAsOf, Midnight, CreatedAt
  <2>3. QED BY <1>3, <2>1, <2>2
<1>13. \A c, d \in posted' : c.key = d.key => c = d
  BY <1>3, <1>7 DEF IInv, Claimed
<1>14. QED
  BY <1>6, <1>8, <1>9, <1>10, <1>11, <1>12, <1>13 DEF IInv

LEMMA ReadPreserves ==
  ASSUME IInv, NEW r \in Readers, Read(r)
  PROVE  IInv'
<1>1. DOMAIN reader = Readers /\ ReaderOK(r) /\ day \in Created .. MaxDay
  BY DEF IInv, ItemsInv, ItemRows
<1>2. CASE ReadTab(r)
  <2> DEFINE to == [pc |-> "history", s |-> sched]
  <2>1. reader' = [reader EXCEPT ![r] = to] /\ sched \in Schedules
    BY <1>2 DEF ReadTab, IInv
  <2>2. reader'[r] = to BY <1>1, <2>1
  <2>3. ReaderOK(r)' BY <2>1, <2>2 DEF ReaderOK
  <2>4. QED BY <1>2, <2>1, <2>3, ReaderMoves DEF ReadTab
<1>3. CASE ReadHistory(r)
  <2> DEFINE to == [pc |-> "claims", s |-> reader[r].s, history |-> items]
  <2>1. reader' = [reader EXCEPT ![r] = to] /\ items' = items
    BY <1>3 DEF ReadHistory
  <2>2. reader'[r] = to BY <1>1, <2>1
  <2>3. reader[r].s \in Schedules BY <1>1, <1>3 DEF ReadHistory, ReaderOK
  <2>4. ReaderOK(r)' BY <2>1, <2>2, <2>3 DEF ReaderOK, Agrees
  <2>5. QED BY <1>3, <2>1, <2>4, ReaderMoves DEF ReadHistory
<1>4. CASE ReadClaims(r)
  <2> DEFINE due == DueThrough(reader[r].s, day)
             to == [pc |-> "post", s |-> reader[r].s, history |-> reader[r].history,
                    asOf |-> day, todo |-> {n \in due : Key(reader[r].s, n) \notin Claimed}]
  <2>1. reader' = [reader EXCEPT ![r] = to] /\ UNCHANGED <<items, day, posted>>
    BY <1>4 DEF ReadClaims
  <2>2. reader'[r] = to BY <1>1, <2>1
  <2>3. reader[r].s \in Schedules /\ (OneConnection => Agrees(reader[r].history, day))
    BY <1>1, <1>4 DEF ReadClaims, ReaderOK
  <2>4. day \in Created .. day BY <1>1, DaysAssumption
  <2>5. ReaderOK(r)'
    BY <2>1, <2>2, <2>3, <2>4 DEF ReaderOK, Agrees, Claimed, During
  <2>6. QED BY <1>4, <2>1, <2>5, ReaderMoves DEF ReadClaims
<1>5. CASE PostPeriod(r) BY <1>5, PostPeriodPreserves
<1>6. CASE Finish(r) \/ Fail(r)
  <2>1. reader' = [reader EXCEPT ![r] = Resting]
    BY <1>6 DEF Finish, Fail
  <2>2. reader'[r].pc = "resting" BY <1>1, <2>1 DEF Resting
  <2>3. ReaderOK(r)' BY <2>2 DEF ReaderOK
  <2>4. QED BY <1>6, <2>1, <2>3, ReaderMoves DEF Finish, Fail
<1>7. QED BY <1>2, <1>3, <1>4, <1>5, <1>6 DEF Read

LEMMA InitHolds == Init => IInv
<1> SUFFICES ASSUME Init PROVE IInv
  OBVIOUS
<1>1. ItemsInv BY ItemsInit DEF Init
<1>2. QED BY <1>1 DEF Init, IInv, ReaderOK, Resting

LEMMA StepPreserves == IInv /\ [Next]_vars => IInv'
<1> SUFFICES ASSUME IInv, [Next]_vars PROVE IInv'
  OBVIOUS
<1>1. CASE \E r \in Readers : Read(r) BY <1>1, ReadPreserves
<1>2. CASE EditItems /\ UNCHANGED <<sched, archived, posted, reader>>
  <2>1. ItemRows' BY <1>2, RowsPreserved DEF IInv, ItemsInv
  <2>2. OneConnection => Alone' BY <1>2, AlonePreserved DEF IInv, ItemsInv
  <2>3. day' = day BY <1>2, EditsAre DEF IInv, ItemsInv
  <2>4. OneConnection => \A t \in Int : t < During(day) => ItemsAsOf(items', t) = ItemsAsOf(items, t)
    BY <1>2, PastKept DEF IInv, ItemsInv
  <2>5. day \in Nat BY DaysAssumption DEF IInv, ItemsInv, ItemRows
  <2>6. QED
    BY <1>2, <2>1, <2>2, <2>3, <2>4, <2>5, PastIsEnough DEF ItemsInv
<1>3. CASE Midnights
  <2>1. day \in Nat /\ day' = day + 1 /\ day' \in Created .. MaxDay
    BY <1>3, DaysAssumption DEF Midnights, NextDay, IInv, ItemsInv, ItemRows
  <2>2. UNCHANGED <<items, edit, sched, posted, reader>>
    BY <1>3 DEF Midnights, NextDay
  <2>3. ItemsInv'
    BY <2>1, <2>2 DEF IInv, ItemsInv, ItemRows, RowSet, Alone, CreatedAt, Never, Midnight
  <2>4. OneConnection => \A r \in Readers : reader[r].pc # "claims"
    BY <1>3 DEF Midnights, OneConnection
  <2>5. QED BY <2>1, <2>2, <2>3, <2>4, PastIsEnough
<1>4. CASE SetSchedule \/ SetTabArchived \/ UNCHANGED vars
  <2>1. UNCHANGED <<day, items, edit, posted, reader>>
        /\ sched' \in Schedules \cup {NoSchedule}
    BY <1>4 DEF SetSchedule, SetTabArchived, vars, IInv
  <2>2. ItemsInv'
    BY <2>1 DEF IInv, ItemsInv, ItemRows, RowSet, Alone, CreatedAt, Never, Midnight
  <2>3. \A r \in Readers : ReaderOK(r)'
    BY <2>1 DEF IInv, ReaderOK, Agrees, Claimed, During
  <2>4. \A c \in posted' : ChargeOK(c)'
    BY <2>1 DEF IInv, ChargeOK, BilledAsOf, Midnight, CreatedAt
  <2>5. QED BY <2>1, <2>2, <2>3, <2>4 DEF IInv
<1>5. QED BY <1>1, <1>2, <1>3, <1>4 DEF Next

LEMMA IInvHolds == Spec => []IInv
<1>1. QED BY InitHolds, StepPreserves, PTL DEF Spec

-----------------------------------------------------------------------------
(* With one connection and the clock read beside its use, every charge bills
   the items the tab carried when its cycle came due, however late it is
   posted, whoever reads beside it and whatever is edited meanwhile. *)
THEOREM ChargesBillWhatWasCarried == OneConnection => (Spec => []BilledAsOfDue)
<1> SUFFICES ASSUME OneConnection PROVE Spec => []BilledAsOfDue
  OBVIOUS
<1>1. ASSUME IInv PROVE BilledAsOfDue
  <2> SUFFICES ASSUME NEW c \in posted
               PROVE  c.bills = {it.id : it \in {x \in items : CarriedWhenDue(x, c.due)}}
    BY DEF BilledAsOfDue
  <2>1. PICK s \in Schedules, n \in Nat :
          c.due = DueOn(s, n) /\ c.bills = ItemsAsOf(items, BilledAsOf(c.due))
    BY <1>1 DEF IInv, ChargeOK
  <2>2. c.due \in Nat BY <2>1, StartType
  <2>3. ASSUME NEW x \in items
        PROVE  CarriedWhenDue(x, c.due)
                 <=> x.from <= BilledAsOf(c.due) /\ BilledAsOf(c.due) < x.until
    <3>1. /\ x.from \in Nat /\ x.until \in Nat
          /\ 3 * Created + 1 <= x.from /\ 3 * Created + 1 < x.until
      BY <1>1 DEF IInv, ItemsInv, ItemRows, RowSet, CreatedAt
    <3>2. QED
      BY <2>2, <3>1, DaysAssumption DEF CarriedWhenDue, BilledAsOf, Midnight, CreatedAt
  <2>4. QED BY <2>1, <2>3 DEF ItemsAsOf
<1>2. QED BY <1>1, IInvHolds, PTL

(* On the same terms, no edit changes what the tab carried before today. *)
THEOREM EditsKeepThePast == OneConnection => (Spec => PastIsFixed)
<1> SUFFICES ASSUME OneConnection PROVE Spec => PastIsFixed
  OBVIOUS
<1> DEFINE Kept == \A t \in 0 .. Midnight(day) : ItemsAsOf(items', t) = ItemsAsOf(items, t)
<1>1. ASSUME IInv, [Next]_vars PROVE [Kept]_itemVars
  <2>1. CASE items' = items BY <2>1
  <2>2. CASE items' # items
    <3>1. EditItems
      BY <1>1, <2>2 DEF Next, Read, ReadTab, ReadHistory, ReadClaims, PostPeriod, Finish, Fail,
         SetSchedule, SetTabArchived, Midnights, NextDay, vars
    <3>2. \A t \in 0 .. Midnight(day) : t \in Int /\ t < During(day)
      BY Instants, <1>1 DEF IInv, ItemsInv
    <3>3. QED BY <1>1, <3>1, <3>2, PastKept DEF IInv, ItemsInv
  <2>3. QED BY <2>1, <2>2
<1>2. QED BY <1>1, IInvHolds, PTL DEF Spec, PastIsFixed

(* However readers race and the billing rule is changed, no two charges cover
   one day, as long as the cycles of all schedules start on the same days. *)
THEOREM DaysAreBilledOnce == OneGrid => (Spec => []NoDayBilledTwice)
<1> SUFFICES ASSUME OneGrid PROVE Spec => []NoDayBilledTwice
  OBVIOUS
<1>1. ASSUME IInv PROVE NoDayBilledTwice
  <2> SUFFICES ASSUME NEW c \in posted, NEW d \in posted, c # d
               PROVE  c.end <= d.first \/ d.end <= c.first
    BY DEF NoDayBilledTwice
  <2>1. PICK s \in Schedules, n \in Nat :
          c.key = Start(s, n) /\ c.first = Start(s, n) /\ c.end = Start(s, n + 1)
    BY <1>1 DEF IInv, ChargeOK, Key
  <2>2. PICK t \in Schedules, m \in Nat :
          d.key = Start(t, m) /\ d.first = Start(t, m) /\ d.end = Start(t, m + 1)
    BY <1>1 DEF IInv, ChargeOK, Key
  <2>3. \A k \in Nat : Start(t, k) = Start(s, k)
    BY DEF OneGrid, Start
  <2>4. n # m
    BY <1>1, <2>1, <2>2, <2>3 DEF IInv
  <2>5. ASSUME NEW i \in Nat, NEW j \in Nat, i < j
        PROVE  Start(s, i + 1) <= Start(s, j)
    <3>1. s.anchor \in Nat /\ s.step \in Nat BY SchedulesAssumption
    <3>2. PICK k \in Nat : j = (i + 1) + k BY <2>5
    <3>3. j * s.step = (i + 1) * s.step + k * s.step BY <3>1, <3>2
    <3>4. k * s.step \in Nat /\ (i + 1) * s.step \in Nat BY <3>1
    <3>5. QED BY <3>1, <3>3, <3>4 DEF Start
  <2>6. n < m \/ m < n BY <2>4
  <2>7. QED BY <2>1, <2>2, <2>3, <2>5, <2>6
<1>2. QED BY <1>1, IInvHolds, PTL

(* A read that completes leaves no cycle unposted that had come due by the
   clock it read, whoever posted it, if one batch holds every cycle. *)
THEOREM ReadsCatchUp == BatchSuffices => (Spec => CaughtUp)
<1> SUFFICES ASSUME BatchSuffices PROVE Spec => CaughtUp
  OBVIOUS
<1> DEFINE Up == \A r \in Readers : Finish(r) =>
                   \A n \in 0 .. MaxDay : DueOn(reader[r].s, n) <= reader[r].asOf
                                          => Key(reader[r].s, n) \in Claimed
<1>1. ASSUME IInv, [Next]_vars PROVE [Up]_vars
  <2> SUFFICES ASSUME NEW r \in Readers, Finish(r), NEW n \in 0 .. MaxDay,
                      DueOn(reader[r].s, n) <= reader[r].asOf
               PROVE  Key(reader[r].s, n) \in Claimed
    OBVIOUS
  <2>1. ReaderOK(r) /\ reader[r].pc = "post" /\ reader[r].todo = {}
    BY <1>1 DEF IInv, Finish
  <2>2. reader[r].s \in Schedules /\ reader[r].asOf \in Created .. day /\ day \in Created .. MaxDay
    BY <1>1, <2>1 DEF ReaderOK, IInv, ItemsInv, ItemRows
  <2>3. n \in Nat /\ DueOn(reader[r].s, n) \in Nat
    BY <2>2, StartType, DaysAssumption
  <2>4. DueOn(reader[r].s, n) <= MaxDay
    BY <2>2, <2>3, DaysAssumption
  <2>5. n < MaxPeriods BY <2>2, <2>4 DEF BatchSuffices
  <2>6. n \in DueThrough(reader[r].s, reader[r].asOf)
    BY <2>3, <2>5, SchedulesAssumption DEF DueThrough
  <2>7. QED BY <2>1, <2>6 DEF ReaderOK
<1>2. QED BY <1>1, IInvHolds, PTL DEF Spec, CaughtUp
=============================================================================
