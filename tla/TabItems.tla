------------------------------ MODULE TabItems ------------------------------
(***************************************************************************)
(* The line items of a Services tab. Items are never overwritten: changing *)
(* one marks its row removed and inserts a replacement, so that the rows   *)
(* say what the tab carried at any moment of the past, and catching up a   *)
(* tab months later bills each cycle for what it carried then (CHG-02).    *)
(*                                                                         *)
(* UpdateItem reads the row and writes it in one transaction. SQLite runs  *)
(* on one connection, so nothing comes between the two statements; MariaDB *)
(* runs transactions in parallel, and the read takes no lock.              *)
(***************************************************************************)
EXTENDS Integers, FiniteSets

CONSTANTS
  Editors,   \* requests that change items
  Created,   \* the day the tab is created on
  MaxDay,    \* bound on the calendar
  MaxItems,  \* bound on the rows of tab_items
  Parallel,  \* the database runs transactions in parallel (MariaDB)
  Straddle   \* midnight may fall between a request's clock reading and its use

ASSUME DaysAssumption == Created \in Nat /\ MaxDay \in Nat /\ Created <= MaxDay

ASSUME ModesAssumption == Parallel \in BOOLEAN /\ Straddle \in BOOLEAN

VARIABLES
  day,    \* today, in the instance's timezone
  items,  \* rows of tab_items
  edit    \* the row each open UpdateItem transaction has read, 0 for none

itemVars == <<day, items, edit>>

-----------------------------------------------------------------------------
(* Three instants of a day are told apart: its first moment, when a charge
   falls due; the moment the tab is created; and later ones, for edits. *)
Midnight(d)  == 3 * d
CreatedAt    == 3 * Created + 1
During(d)    == 3 * d + 2

(* removed_at of a row the tab still carries: beyond the calendar. *)
Never == Midnight(MaxDay + 1)

Item(n, at) == [id |-> n, from |-> at, until |-> Never]

Live == {it \in items : it.until = Never}

(* Created by then, and not yet removed. *)
ItemsAsOf(history, at) ==
  {it.id : it \in {x \in history : x.from <= at /\ at < x.until}}

(* A statement can run: SQLite's one connection is not inside a transaction. *)
Free == Parallel \/ \A p \in Editors : edit[p] = 0

(* The moment an edit is dated: a request reads the clock, then waits for a
   connection. *)
Stamps ==
  {During(day)} \cup (IF Straddle /\ day > Created THEN {During(day - 1)} ELSE {})

Retired(it, at) == [it EXCEPT !.until = at]

InitItems ==
  /\ day = Created
  /\ items = {Item(1, CreatedAt)}
  /\ edit = [p \in Editors |-> 0]

AddItem ==
  /\ Free
  /\ Cardinality(items) < MaxItems
  /\ \E at \in Stamps : items' = items \cup {Item(Cardinality(items) + 1, at)}
  /\ UNCHANGED <<day, edit>>

(* Mutant of RemoveItem: the row is deleted. *)
RemoveItemDeleting ==
  /\ Free
  /\ \E it \in Live : items' = items \ {it}
  /\ UNCHANGED <<day, edit>>

(* The UPDATE is guarded by removed_at IS NULL. *)
RemoveItem ==
  /\ Free
  /\ \E it \in Live, at \in Stamps :
       at >= it.from /\ items' = (items \ {it}) \cup {Retired(it, at)}
  /\ UNCHANGED <<day, edit>>

(* UpdateItem begins: it reads a row that is not removed. *)
UpdateRead(p) ==
  /\ Free
  /\ edit[p] = 0
  /\ \E it \in Live : edit' = [edit EXCEPT ![p] = it.id]
  /\ UNCHANGED <<day, items>>

(* UpdateItem writes the row by its id, whatever has become of it since. *)
UpdateWrite(p) ==
  /\ edit[p] # 0
  /\ Cardinality(items) < MaxItems
  /\ \E it \in items, at \in Stamps :
       /\ it.id = edit[p] /\ at >= it.from
       /\ items' = (items \ {it}) \cup
                     {Retired(it, at), Item(Cardinality(items) + 1, at)}
  /\ edit' = [edit EXCEPT ![p] = 0]
  /\ UNCHANGED day

(* A statement fails, and the transaction rolls back. *)
UpdateAbort(p) ==
  /\ edit[p] # 0
  /\ edit' = [edit EXCEPT ![p] = 0]
  /\ UNCHANGED <<day, items>>

EditItems ==
  \/ AddItem
  \/ RemoveItem
  \/ \E p \in Editors : UpdateRead(p) \/ UpdateWrite(p) \/ UpdateAbort(p)

NextDay ==
  /\ day < MaxDay
  /\ day' = day + 1
  /\ UNCHANGED <<items, edit>>

(* The tab rests: nothing is being edited. *)
QuietItems ==
  /\ \A p \in Editors : edit[p] = 0
  /\ UNCHANGED itemVars

NextItems == EditItems \/ NextDay \/ QuietItems

ItemsSpec == InitItems /\ [][NextItems]_itemVars

-----------------------------------------------------------------------------
(* No edit changes what the tab carried at a moment gone by: a cycle billed
   late is billed for the items of its own due date. *)
PastIsFixed ==
  [][\A t \in 0 .. Midnight(day) : ItemsAsOf(items', t) = ItemsAsOf(items, t)]_itemVars
=============================================================================
