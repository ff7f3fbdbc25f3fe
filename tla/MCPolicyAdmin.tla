---------------------------- MODULE MCPolicyAdmin ----------------------------
(* Small instances of PolicyAdmin for TLC: which calls are made. *)
EXTENDS PolicyAdmin, TLC

Call(op, p, m, k, via) == [op |-> op, policy |-> p, method |-> m, key |-> k, via |-> via]

Symmetry == Permutations(Policies) \cup Permutations(Workers)

(* One quote is made, accepted and paid, while staff use the pages.         *)
PageCalls ==
    { Call("create", Null, Null, Null, "http") }
    \cup { Call("accept", p, Null, Null, "http") : p \in Policies }
    \cup { Call("pay", p, "simulated_card", k, "library") :
             p \in Policies, k \in Keys \cup {Null} }
=============================================================================
