---------------------------- MODULE MCInventory -----------------------------
(* A small store for TLC. *)
EXTENDS Inventory, TLC

Symmetry == Permutations(Storekeeper) \cup Permutations(Item)

=============================================================================
