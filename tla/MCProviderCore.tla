---------------------------- MODULE MCProviderCore ----------------------------
(***************************************************************************)
(* Instances of ProviderCore for TLC.                                       *)
(***************************************************************************)
EXTENDS ProviderCore, TLC

ReadOnly == {{"read"}}
ValueOnly == {{"value"}}

Symmetry == Permutations(Handles) \cup Permutations(Nonces) \cup Permutations(Scopes)
=============================================================================
