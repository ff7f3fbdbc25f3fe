----------------------------- MODULE MCSeedDemo -----------------------------
(* Small instances of SeedDemo for TLC. *)
EXTENDS SeedDemo, TLC

Symmetry == Permutations(UserIds) \cup Permutations(CustomerIds)
=============================================================================
