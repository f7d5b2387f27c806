----------------------------- MODULE Inventory ------------------------------
(***************************************************************************)
(* The stock of a school's items and the log of its movements              *)
(* (inventory/views.py, add_procurement of inventory/services.py, and the  *)
(* form the admin site offers for an item).                                *)
(*                                                                         *)
(* A movement is one transaction that begins with an UPDATE of the item,   *)
(* total_stock = F('total_stock') + change, and so holds its row until the *)
(* log row is in: one action. What a request has read before is in hand.    *)
(***************************************************************************)
EXTENDS Integers, FiniteSets, Sequences

CONSTANTS
  Item,        \* items, by primary key
  Qty,         \* quantities an administrator types in
  Storekeeper, \* requests in flight, and item forms open in a browser
  MaxMoves,    \* bound on the operations
  MaxStock     \* bound on the stock of an item

NoItem == "none"                   \* a task that is about no item

ASSUME InventoryAssumption ==
  /\ Qty \subseteq Nat \ {0}
  /\ NoItem \notin Item
  /\ MaxMoves \in Nat /\ MaxStock \in Nat

VARIABLES
  items,  \* the items that exist
  stock,  \* InventoryItem.total_stock
  active, \* InventoryItem.is_active
  log,    \* the InventoryTransaction rows of an item, by created_at
  hand,   \* what each worker has read, and what it is to do with it
  moves,  \* how many operations were begun
  edited  \* history: items whose stock a form of the admin site has changed

storeVars == <<items, stock, active, log, hand, moves, edited>>

-----------------------------------------------------------------------------
Kind == {"PROCUREMENT", "ADJUSTMENT"}

Movement == [kind : Kind, change : Int, balance : Nat]

Job == [phase : {"idle", "remove", "edit", "form"}, item : Item \cup {NoItem},
        qty : Nat, stock : Nat, active : BOOLEAN]

NoTask == [phase |-> "idle", item |-> NoItem, qty |-> 0, stock |-> 0,
          active |-> FALSE]

InventoryTypeOK ==
  /\ items \subseteq Item
  /\ stock \in [Item -> Nat]
  /\ active \in [Item -> BOOLEAN]
  /\ log \in [Item -> Seq(Movement)]
  /\ hand \in [Storekeeper -> Job]
  /\ moves \in 0 .. MaxMoves
  /\ edited \subseteq items

StoreInit ==
  /\ items = {}
  /\ stock = [i \in Item |-> 0]
  /\ active = [i \in Item |-> FALSE]
  /\ log = [i \in Item |-> <<>>]
  /\ hand = [w \in Storekeeper |-> NoTask]
  /\ moves = 0
  /\ edited = {}

Start == moves < MaxMoves /\ moves' = moves + 1

\* A worker takes up an operation on an item, with what it reads of it.
Open(w, phase, i, q) ==
  /\ hand[w].phase = "idle"
  /\ Start
  /\ hand' = [hand EXCEPT ![w] = [phase |-> phase, item |-> i, qty |-> q,
                                  stock |-> stock[i], active |-> active[i]]]

Close(w) == hand' = [hand EXCEPT ![w] = NoTask]

\* Mutant: the stock is written from the copy that was read.
MoveFrom(i, copy, kind, change) ==
  /\ copy + change >= 0
  /\ stock' = [stock EXCEPT ![i] = copy + change]
  /\ log' = [log EXCEPT ![i] =
       Append(@, [kind |-> kind, change |-> change, balance |-> copy + change])]

\* A movement of the stock and its log row. The column refuses a negative stock.
Move(i, kind, change) ==
  LET balance == stock[i] + change
  IN  /\ balance >= 0
      /\ stock' = [stock EXCEPT ![i] = balance]
      /\ log' = [log EXCEPT ![i] =
           Append(@, [kind |-> kind, change |-> change, balance |-> balance])]

-----------------------------------------------------------------------------
(* Operations of one transaction *)

\* AdminItemCreateView: an initial stock is logged as a procurement.
CreateItem(i, q) ==
  /\ i \notin items
  /\ Start
  /\ items' = items \cup {i}
  /\ active' = [active EXCEPT ![i] = TRUE]
  /\ IF q > 0 THEN Move(i, "PROCUREMENT", q) ELSE UNCHANGED <<stock, log>>
  /\ UNCHANGED <<hand, edited>>

\* AdminProcurementCreateView, add_procurement: also for an inactive item.
Procure(i, q) ==
  /\ i \in items
  /\ stock[i] + q <= MaxStock
  /\ Start
  /\ Move(i, "PROCUREMENT", q)
  /\ UNCHANGED <<items, active, hand, edited>>

\* AdminItemDeleteView.
Deactivate(i) ==
  /\ i \in items
  /\ Start
  /\ active' = [active EXCEPT ![i] = FALSE]
  /\ UNCHANGED <<items, stock, log, hand, edited>>

-----------------------------------------------------------------------------
(* AdminStockRemovalView *)

\* The check against the stock that was read; nothing is locked.
OpenRemoval(w, i, q) ==
  /\ i \in items
  /\ q <= stock[i]
  /\ Open(w, "remove", i, q)
  /\ UNCHANGED <<items, stock, active, log, edited>>

\* Mutant: read, subtract, write.
TakeStockCopied(w) ==
  LET j == hand[w]
  IN  /\ j.phase = "remove"
      /\ MoveFrom(j.item, j.stock, "ADJUSTMENT", -j.qty)
      /\ Close(w)
      /\ UNCHANGED <<items, active, moves, edited>>

TakeStock(w) ==
  LET j == hand[w]
  IN  /\ j.phase = "remove"
      /\ Move(j.item, "ADJUSTMENT", -j.qty)
      /\ Close(w)
      /\ UNCHANGED <<items, active, moves, edited>>

\* Another movement was faster: the column refuses, the transaction is undone.
TakeRefused(w) ==
  /\ hand[w].phase = "remove"
  /\ stock[hand[w].item] < hand[w].qty
  /\ Close(w)
  /\ UNCHANGED <<items, stock, active, log, moves, edited>>

-----------------------------------------------------------------------------
(* AdminItemEditView: name, prices and threshold, which are left out here *)

OpenEdit(w, i) ==
  /\ i \in items
  /\ Open(w, "edit", i, 0)
  /\ UNCHANGED <<items, stock, active, log, edited>>

\* Mutant: the whole object is saved.
SaveEditWhole(w) ==
  LET j == hand[w]
  IN  /\ j.phase = "edit"
      /\ stock' = [stock EXCEPT ![j.item] = j.stock]
      /\ active' = [active EXCEPT ![j.item] = j.active]
      /\ Close(w)
      /\ UNCHANGED <<items, log, moves, edited>>

\* update_fields names neither total_stock nor is_active.
SaveEdit(w) ==
  /\ hand[w].phase = "edit"
  /\ Close(w)
  /\ UNCHANGED <<items, stock, active, log, moves, edited>>

-----------------------------------------------------------------------------
(* InventoryItemAdmin: a model form with total_stock and is_active on it *)

AddByForm(i, q, on) ==
  /\ i \notin items
  /\ Start
  /\ items' = items \cup {i}
  /\ stock' = [stock EXCEPT ![i] = q]
  /\ active' = [active EXCEPT ![i] = on]
  /\ edited' = IF q > 0 THEN edited \cup {i} ELSE edited
  /\ UNCHANGED <<log, hand>>

OpenForm(w, i) ==
  /\ i \in items
  /\ Open(w, "form", i, 0)
  /\ UNCHANGED <<items, stock, active, log, edited>>

\* Every field is written: what the form showed, or what was typed over it.
SaveForm(w, q, on) ==
  LET j == hand[w]
  IN  /\ j.phase = "form"
      /\ stock' = [stock EXCEPT ![j.item] = q]
      /\ active' = [active EXCEPT ![j.item] = on]
      /\ edited' = IF q # stock[j.item] THEN edited \cup {j.item} ELSE edited
      /\ Close(w)
      /\ UNCHANGED <<items, log, moves>>

-----------------------------------------------------------------------------
StoreNext ==
  \/ \E i \in Item, q \in Qty \cup {0} :
       \/ CreateItem(i, q)
       \/ \E on \in BOOLEAN : AddByForm(i, q, on)
  \/ \E i \in Item : Deactivate(i)
  \/ \E i \in Item, q \in Qty : Procure(i, q)
  \/ \E w \in Storekeeper :
       \/ \E i \in Item, q \in Qty : OpenRemoval(w, i, q)
       \/ \E i \in Item : OpenEdit(w, i) \/ OpenForm(w, i)
       \/ TakeStock(w) \/ TakeRefused(w) \/ SaveEdit(w)
       \/ \E q \in Qty \cup {0, hand[w].stock}, on \in BOOLEAN :
            SaveForm(w, q, on)

StoreSpec == StoreInit /\ [][StoreNext]_storeVars

-----------------------------------------------------------------------------
(* Properties *)

\* The balance the log of an item ends with.
Balance(l) == IF l = <<>> THEN 0 ELSE l[Len(l)].balance

\* Each balance is the one before plus the change.
Chained(l) ==
  \A k \in 1 .. Len(l) :
    l[k].balance = Balance(SubSeq(l, 1, k - 1)) + l[k].change

\* The movements of an item whose stock no form of the admin site has changed
\* account for its stock, one after the other, whoever moves it at the same
\* time: procurements, removals, edits and deactivations neither lose a movement
\* nor log a balance that never was (F() and the row lock).
LedgerRight ==
  \A i \in items \ edited : Chained(log[i]) /\ stock[i] = Balance(log[i])

\* An item that was deactivated comes back through a form of the admin site
\* only; AdminItemEditView, which may have read it before, does not revive it.
DeactivationSticks ==
  [][\A i \in items :
       ~ active[i] /\ active'[i]
       => \E w \in Storekeeper :
            /\ hand[w].phase = "form" /\ hand[w].item = i
            /\ hand'[w].phase = "idle"]_storeVars

=============================================================================
