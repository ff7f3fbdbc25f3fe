-------------------------- MODULE MCPolicyServices --------------------------
(* Small instances of PolicyServices for TLC: which calls are made. *)
EXTENDS PolicyServices, TLC

Call(op, p, m, k, via) == [op |-> op, policy |-> p, method |-> m, key |-> k, via |-> via]

Symmetry == Permutations(Policies) \cup Permutations(Workers)

(* Everything a worker can be asked: quotes, acceptances by a client or by  *)
(* staff, payments of either method with a key, replayed or not, or none,   *)
(* through the view (which drops the key), bindings by hand, and looks at   *)
(* the history.                                                             *)
EveryCall ==
    { Call("create", Null, Null, Null, "http") }
    \cup { Call("accept", p, Null, Null, via) : p \in Policies, via \in {"http", "admin"} }
    \cup { Call("pay", p, m, k, "library") : p \in Policies, m \in Methods, k \in Keys }
    \cup { Call("pay", p, m, k, "http") :
             p \in Policies, m \in {"simulated_card", "cheque"}, k \in Keys }
    \cup { Call("bind", p, Null, Null, "admin") : p \in Policies }
    \cup { Call("history", p, Null, Null, "http") : p \in Policies }

(* The race for keys: payments of different policies with few keys.         *)
KeyCalls ==
    { Call("create", Null, Null, Null, "http") }
    \cup { Call("accept", p, Null, Null, "http") : p \in Policies }
    \cup { Call("pay", p, "simulated_card", k, "library") :
             p \in Policies, k \in Keys \cup {Null} }
    \cup { Call("bind", p, Null, Null, "admin") : p \in Policies }
=============================================================================
