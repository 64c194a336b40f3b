----------------------------- MODULE EntryStore -----------------------------
(***************************************************************************)
(* The write path of the ledger as the database runs it: PostEntry,        *)
(* PostPeriodEntry, PostFeeEntry, PostInterestEntry and Service.Reverse of *)
(* an entry no bank line is tied to, each a transaction of several         *)
(* statements, run by request handlers that interleave freely and may fail *)
(* at any statement.                                                       *)
(*                                                                         *)
(* A transaction inserts its entry, inserts its claim if it has one, and   *)
(* commits. A unique index makes the second inserter of a key wait until   *)
(* the first transaction ends; a committed duplicate rolls the transaction *)
(* back and sends it to look up what is already there. This is MariaDB's   *)
(* behaviour; SQLite's single connection runs a subset of it, one          *)
(* transaction at a time.                                                  *)
(***************************************************************************)
EXTENDS Postings, FiniteSets

CONSTANTS
  Procs,    \* request handlers
  MaxSeq    \* bound on the numbers entries.seq hands out

VARIABLES
  tx,       \* what each handler is doing
  nextSeq,  \* AUTO_INCREMENT of entries.seq
  reply     \* what each handler's last posting returned

storeVars == <<entries, claims, tx, nextSeq, reply>>

-----------------------------------------------------------------------------
Idle == [pc |-> "idle"]

(* A transaction that has inserted its entry holds that row until it ends. *)
Open(p) == tx[p].pc \in {"claim", "commit"}

(* Postings that may still need a number: the bound is reserved when a posting
   starts, so that it never stops one half way. *)
Reserved == Cardinality({p \in Procs : tx[p].pc = "insert"})

InitStore ==
  /\ entries = {}
  /\ claims = {}
  /\ tx = [p \in Procs |-> Idle]
  /\ nextSeq = 1
  /\ reply = [p \in Procs |-> [outcome |-> "none", seq |-> 0]]

Begin(p, j) ==
  /\ tx[p] = Idle
  /\ nextSeq + Reserved <= MaxSeq
  /\ tx' = [tx EXCEPT ![p] = [pc |-> "insert", job |-> j, seq |-> 0]]
  /\ reply' = [reply EXCEPT ![p] = [outcome |-> "none", seq |-> 0]]
  /\ UNCHANGED <<entries, claims, nextSeq>>

(* A charge, payment or adjustment form. A double click or a retry sends the
   same key again. *)
SubmitForm(p) == \E j \in FormPosts : Begin(p, j)

(* A reader of a tab found a cycle, an overdue date or an interest period
   unclaimed when it looked. *)
Accrue(p) == \E j \in ClaimPosts : Begin(p, j)

(* Reverse reads the entry and refuses to undo a reversal. *)
SubmitUndo(p) ==
  \E e \in entries : e.kind # "reversal" /\ Begin(p, UndoPost(e))

(* Mutants of Waits: only the index on the key is unique; committed rows are
   waited for as well. *)
WaitsForKeyOnly(p, j) ==
  \E q \in Procs \ {p} : Open(q) /\ tx[q].job.key = j.key

WaitsForCommitted(p, j) == ~Unused(j, nextSeq)

(* The INSERT into entries meets a row of an open transaction in one of the
   unique indexes, and waits for that transaction to end. *)
Waits(p, j) ==
  \E q \in Procs \ {p} :
    /\ Open(q)
    /\ \/ tx[q].job.key = j.key
       \/ j.reverses # 0 /\ tx[q].job.reverses = j.reverses

(* Mutant of InsertEntry: the row is written outside the transaction. *)
InsertEntryAutocommitted(p) ==
  LET j == Keyed(tx[p].job, nextSeq) IN
  /\ tx[p].pc = "insert"
  /\ ~Waits(p, j)
  /\ tx' = [tx EXCEPT ![p] =
              [pc  |-> IF ~Unused(j, nextSeq) THEN "lookup"
                       ELSE IF j.claim = NoClaim THEN "commit" ELSE "claim",
               job |-> j, seq |-> nextSeq]]
  /\ entries' = entries \cup (IF Unused(j, nextSeq) THEN {EntryOf(j, nextSeq)} ELSE {})
  /\ nextSeq' = nextSeq + 1
  /\ UNCHANGED <<claims, reply>>

InsertEntry(p) ==
  LET j == Keyed(tx[p].job, nextSeq) IN
  /\ tx[p].pc = "insert"
  /\ ~Waits(p, j)
  /\ tx' = [tx EXCEPT ![p] =
              [pc  |-> IF ~Unused(j, nextSeq) THEN "lookup"
                       ELSE IF j.claim = NoClaim THEN "commit" ELSE "claim",
               job |-> j, seq |-> nextSeq]]
  /\ nextSeq' = nextSeq + 1
  /\ UNCHANGED <<entries, claims, reply>>

(* The claim's primary key is the second guard: the derived key of the entry
   has already kept any other claimant out. *)
InsertClaim(p) ==
  /\ tx[p].pc = "claim"
  /\ tx' = [tx EXCEPT ![p] =
              [pc  |-> IF \E c \in claims : c.id = tx[p].job.claim
                         THEN "lookup" ELSE "commit",
               job |-> tx[p].job, seq |-> tx[p].seq]]
  /\ UNCHANGED <<entries, claims, nextSeq, reply>>

Return(p, outcome, s) ==
  /\ tx' = [tx EXCEPT ![p] = Idle]
  /\ reply' = [reply EXCEPT ![p] = [outcome |-> outcome, seq |-> s]]

(* The rows appear at once. If the connection is lost after the server has
   committed, the handler reports the failure of a posting that stands. *)
Commit(p) ==
  /\ tx[p].pc = "commit"
  /\ entries' = entries \cup {EntryOf(tx[p].job, tx[p].seq)}
  /\ claims' = claims \cup ClaimsOf(tx[p].job, tx[p].seq)
  /\ \/ Return(p, "posted", tx[p].seq)
     \/ Return(p, "failed", 0)
  /\ UNCHANGED nextSeq

(* What a rolled-back posting finds: the entry behind the claim if there is
   one, otherwise the entry under the key. *)
Holders(j) ==
  LET claimed == {e \in entries : [id |-> j.claim, seq |-> e.seq] \in claims}
  IN  IF claimed # {} THEN claimed ELSE {e \in entries : e.key = j.key}

(* Mutant of Lookup: a replay reports the number its own insert drew. *)
LookupOwnNumber(p) ==
  /\ tx[p].pc = "lookup"
  /\ \/ Holders(tx[p].job) # {} /\ Return(p, "replayed", tx[p].seq)
     \/ Return(p, "conflict", 0)
  /\ UNCHANGED <<entries, claims, nextSeq>>

(* With nothing found, or with the read failing, the conflict is returned. *)
Lookup(p) ==
  /\ tx[p].pc = "lookup"
  /\ \/ \E e \in Holders(tx[p].job) : Return(p, "replayed", e.seq)
     \/ Return(p, "conflict", 0)
  /\ UNCHANGED <<entries, claims, nextSeq>>

(* A statement fails, a deadlock picks this transaction, the connection drops
   or the process dies, and the transaction rolls back. SQLite hands its
   number out again; MariaDB leaves a gap. *)
Abort(p) ==
  /\ tx[p].pc \in {"insert", "claim", "commit"}
  /\ \/ UNCHANGED nextSeq
     \/ Open(p) /\ nextSeq = tx[p].seq + 1 /\ nextSeq' = tx[p].seq
  /\ Return(p, "failed", 0)
  /\ UNCHANGED <<entries, claims>>

(* Every handler has answered, and none starts another posting. *)
Quiet ==
  /\ \A p \in Procs : tx[p] = Idle
  /\ UNCHANGED storeVars

Handle(p) ==
  \/ SubmitForm(p) \/ Accrue(p) \/ SubmitUndo(p)
  \/ InsertEntry(p) \/ InsertClaim(p) \/ Commit(p) \/ Lookup(p) \/ Abort(p)

NextStore == (\E p \in Procs : Handle(p)) \/ Quiet

(* Statements run to their end, and lock waits are served in turn, so an
   insert that can go ahead again and again does. *)
Fairness ==
  \A p \in Procs :
    /\ SF_storeVars(InsertEntry(p))
    /\ WF_storeVars(InsertClaim(p))
    /\ WF_storeVars(Commit(p))
    /\ WF_storeVars(Lookup(p))

StoreSpec == InitStore /\ [][NextStore]_storeVars

FairSpec == StoreSpec /\ Fairness

-----------------------------------------------------------------------------
Keys ==
  ({"form"} \X FormKeys) \cup ({"claim"} \X ClaimIds) \cup ({"random"} \X Nat)

Rows ==
  [seq : Nat \ {0}, tab : Tabs, kind : Kinds, amount : Int, key : Keys,
   reverses : Nat]

Jobs ==
  [tab : Tabs, kind : Kinds, amount : Int, key : Keys \cup {NoKey},
   reverses : Nat, claim : ClaimIds \cup {NoClaim}]

(* Every variable holds a value of its type. *)
TypeOK ==
  /\ entries \subseteq Rows
  /\ claims \subseteq [id : ClaimIds, seq : Nat \ {0}]
  /\ tx \in [Procs -> {Idle} \cup
                [pc : {"insert", "claim", "commit", "lookup"}, job : Jobs, seq : Nat]]
  /\ nextSeq \in Nat \ {0}
  /\ reply \in [Procs -> [outcome : {"none", "posted", "replayed", "conflict", "failed"},
                          seq : Nat]]

(* Numbers run ahead of every row, committed or open. *)
Numbered ==
  /\ \A e \in entries : e.seq < nextSeq
  /\ \A p \in Procs : Open(p) => tx[p].seq # 0 /\ tx[p].seq < nextSeq

(* The row of an open transaction is the only one, committed or open, under
   its number, its key and, for an undo, its target. *)
Exclusive ==
  \A p \in Procs : Open(p) =>
    /\ Unused(tx[p].job, tx[p].seq)
    /\ \A q \in Procs \ {p} : Open(q) =>
         /\ tx[q].seq # tx[p].seq
         /\ tx[q].job.key # tx[p].job.key
         /\ tx[p].job.reverses # 0 => tx[q].job.reverses # tx[p].job.reverses

(* A transaction about to commit holds a claim nobody else has. *)
ClaimFree ==
  \A p \in Procs : tx[p].pc = "commit" => \A c \in claims : c.id # tx[p].job.claim

(* What a handler is posting is still what a form, an accrual or the undo of a
   committed entry gave it. *)
Origin ==
  \A p \in Procs : tx[p] # Idle =>
    \/ tx[p].job \in FormPosts \cup ClaimPosts
    \/ \E e \in entries :
         /\ e.kind # "reversal"
         /\ IF tx[p].pc = "insert"
              THEN tx[p].job = UndoPost(e)
              ELSE e.seq < tx[p].seq /\ tx[p].job = Keyed(UndoPost(e), tx[p].seq)

(* What open transactions are entitled to, inductive together with TypeOK. *)
StoreInv == Numbered /\ Exclusive /\ ClaimFree /\ Origin

Abstract == INSTANCE Book WITH entries <- entries, claims <- claims

(* The promises of Book, kept by the committed rows at every moment. *)
OncePerKey      == Abstract!OncePerKey
ClaimedTogether == Abstract!ClaimedTogether
ReversedOnce    == Abstract!ReversedOnce

(* The transactions implement the atomic book. *)
ImplementsBook == Abstract!Spec

(* Rows are only ever added (the append-only triggers, and no statement that
   would need them). *)
AppendOnly == [][entries \subseteq entries' /\ claims \subseteq claims']_storeVars

(* What a handler is told is so. "posted" and "replayed" name a committed
   entry that answers the posting: the one under its key or, for an accrual,
   under its claim. A "conflict" is only ever the news that an undo came
   second, or that a key is taken: ErrAlreadyReversed is never a lie. *)
Answers(j, r) ==
  CASE r.outcome \in {"posted", "replayed"} ->
         \E e \in entries' : e.seq = r.seq /\ e.key = j.key
    [] r.outcome = "conflict" ->
         \E e \in entries : \/ e.key = j.key
                            \/ j.reverses # 0 /\ e.reverses = j.reverses
    [] OTHER -> TRUE

TruthfulReply ==
  [][\A p \in Procs :
       tx[p] # Idle /\ tx'[p] = Idle => Answers(tx[p].job, reply'[p])]_storeVars

(* A posting that was accepted is answered, whatever the others do. *)
EveryPostingAnswered == \A p \in Procs : tx[p] # Idle ~> tx[p] = Idle
=============================================================================
