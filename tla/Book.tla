-------------------------------- MODULE Book --------------------------------
(***************************************************************************)
(* What the ledger promises its callers, with every transaction collapsed  *)
(* to one atomic step: an append-only book of entries in which a form key  *)
(* posts once, a billing cycle (or an overdue date, or an interest period) *)
(* is claimed once and together with its entry, and an entry is undone at  *)
(* most once by its exact negative.                                        *)
(*                                                                         *)
(* EntryStore describes the transactions that keep these promises, and is  *)
(* checked and proved to implement this module.                            *)
(***************************************************************************)
EXTENDS Postings

bookVars == <<entries, claims>>

Init ==
  /\ entries = {}
  /\ claims = {}

(* A posting takes effect whole: its row, and its claim if it has one. *)
Append(j, s) ==
  /\ Unused(j, s)
  /\ \A c \in claims : c.id # j.claim
  /\ entries' = entries \cup {EntryOf(j, s)}
  /\ claims' = claims \cup ClaimsOf(j, s)

PostForm(s)  == \E j \in FormPosts : Append(j, s)

PostClaim(s) == \E j \in ClaimPosts : Append(j, s)

(* Any entry but a reversal can be undone. Rows need not appear in the order
   of their numbers, but an undo is numbered after what it undoes. *)
Undo(s) ==
  \E e \in entries :
    /\ e.kind # "reversal"
    /\ e.seq < s
    /\ Append(Keyed(UndoPost(e), s), s)

Next ==
  \E s \in {e.seq : e \in entries'} \cap (Nat \ {0}) :
    PostForm(s) \/ PostClaim(s) \/ Undo(s)

Spec == Init /\ [][Next]_bookVars

-----------------------------------------------------------------------------
(* No two rows share a number or an idempotency key: a form sent twice, or two
   readers of an overdue tab, leave one entry (entries.idempotency_key). *)
OncePerKey ==
  \A e, f \in entries : e.seq = f.seq \/ e.key = f.key => e = f

(* A claim and its entry are written together: every claim names an entry
   posted under the key derived from it, every entry under a derived key is
   claimed, and a cycle is claimed once. *)
ClaimedTogether ==
  /\ \A c \in claims : \E e \in entries :
       e.seq = c.seq /\ e.key = DerivedKey(c.id)
  /\ \A e \in entries : \A id \in ClaimIds :
       e.key = DerivedKey(id) => [id |-> id, seq |-> e.seq] \in claims
  /\ \A c, d \in claims : c.id = d.id \/ c.seq = d.seq => c = d

(* A reversal cancels exactly one earlier entry of its own tab that is not
   itself a reversal, and no entry is reversed twice. *)
ReversedOnce ==
  /\ \A r \in entries :
       (r.kind = "reversal") =>
         \E e \in entries :
           /\ e.seq = r.reverses
           /\ e.seq < r.seq
           /\ e.kind # "reversal"
           /\ e.tab = r.tab
           /\ e.amount + r.amount = 0
  /\ \A q, r \in entries : q.reverses # 0 /\ q.reverses = r.reverses => q = r
=============================================================================
