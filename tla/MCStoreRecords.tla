---------------------------- MODULE MCStoreRecords ----------------------------
(* StoreRecords for TLC: clients and the rows of one kind are alike. *)
EXTENDS StoreRecords, TLC

Symmetry ==
    Permutations(Clients) \cup Permutations(Children) \cup Permutations(Workflows)
===============================================================================
