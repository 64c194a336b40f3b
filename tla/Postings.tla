------------------------------ MODULE Postings ------------------------------
(***************************************************************************)
(* The rows of the ledger and the postings its callers make: what a form,  *)
(* an accrual or an undo hands to the store, under which idempotency key,  *)
(* and which rows it becomes. Shared by Book, which says what a posting    *)
(* means, and EntryStore, which says how a transaction carries it out.     *)
(***************************************************************************)
EXTENDS Integers

CONSTANTS
  Tabs,      \* tabs.id
  FormKeys,  \* idempotency keys carried by submitted forms
  Cycles,    \* dates that name a billing cycle, overdue date or interest period
  Amounts    \* magnitudes of a posting, in cents

ASSUME AmountsAssumption == Amounts \subseteq Nat \ {0}

VARIABLES
  entries,   \* the committed rows of the table entries
  claims     \* the committed rows of posted_periods, posted_fees, posted_interest

(* The three claim tables, each keyed by tab and date. *)
Tables == {"posted_periods", "posted_fees", "posted_interest"}

ClaimIds == [table : Tables, tab : Tabs, cycle : Cycles]

NoClaim == [table |-> "none"]

(* Where an idempotency key comes from: a form field, a function of the
   claimed cycle, or 256 random bits. Random keys never repeat, so the number
   of the row that carries one stands for it. NoKey is the empty string a
   caller passes to have one drawn. *)
FormKey(k)     == <<"form", k>>
DerivedKey(id) == <<"claim", id>>
RandomKey(s)   == <<"random", s>>
NoKey          == <<"none">>

Kinds == {"charge", "payment", "adjustment", "fee", "reversal"}

Negatives == {-a : a \in Amounts}

(* The ledger owns the sign: charges and fees are stored negative, payments
   positive, and an adjustment either way. *)
SignedAmounts(kind) ==
  (IF kind \in {"payment", "adjustment"} THEN Amounts ELSE {})
    \cup (IF kind # "payment" THEN Negatives ELSE {})

(* One posting as the store receives it. reverses = 0 is the NULL of the
   column reverses_seq. *)
Job(tab, kind, amount, key, reverses, claim) ==
  [tab |-> tab, kind |-> kind, amount |-> amount, key |-> key,
   reverses |-> reverses, claim |-> claim]

FormPosts ==
  UNION {{Job(t, k, a, FormKey(f), 0, NoClaim) :
            t \in Tabs, f \in FormKeys, a \in SignedAmounts(k)} :
          k \in {"charge", "payment", "adjustment"}}

(* A cycle that bills no items is still claimed, with a charge of zero. A fee
   or an interest charge of zero is not posted. *)
ClaimAmounts(id) ==
  IF id.table = "posted_periods" THEN Negatives \cup {0} ELSE Negatives

ClaimPosts ==
  UNION {{Job(id.tab, IF id.table = "posted_fees" THEN "fee" ELSE "charge",
              a, DerivedKey(id), 0, id) : a \in ClaimAmounts(id)} :
          id \in ClaimIds}

(* The undo of entry e: its exact negative, on its tab, pointing back at it. *)
UndoPost(e) == Job(e.tab, "reversal", -e.amount, NoKey, e.seq, NoClaim)

(* A key is drawn for a posting that brought none. *)
Keyed(j, s) ==
  IF j.key = NoKey
    THEN Job(j.tab, j.kind, j.amount, RandomKey(s), j.reverses, j.claim)
    ELSE j

(* The row of entries a posting becomes, and the claim row beside it. *)
EntryOf(j, s) ==
  [seq |-> s, tab |-> j.tab, kind |-> j.kind, amount |-> j.amount,
   key |-> j.key, reverses |-> j.reverses]

ClaimsOf(j, s) == IF j.claim = NoClaim THEN {} ELSE {[id |-> j.claim, seq |-> s]}

(* The unique indexes of the table entries: seq, idempotency_key and, where
   it is not NULL, reverses_seq. *)
Unused(j, s) ==
  \A e \in entries :
    /\ e.seq # s
    /\ e.key # j.key
    /\ j.reverses # 0 => e.reverses # j.reverses
=============================================================================
