------------------------------ MODULE MCDemoPage ------------------------------
(* A small instance of DemoPage for TLC. *)
EXTENDS DemoPage, TLC

Symmetry == Permutations(Policies) \cup Permutations(Customers) \cup Permutations(Accounts)
=============================================================================
