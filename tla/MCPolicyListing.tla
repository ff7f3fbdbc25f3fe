--------------------------- MODULE MCPolicyListing ---------------------------
(* Small instances of PolicyListing for TLC: the queries walked through. *)
EXTENDS PolicyListing

EveryWalk ==
    { [state |-> Null, order |-> "default"], [state |-> "quoted", order |-> "default"],
      [state |-> Null, order |-> "state"] }

(* Where TLC goes on: the walk and the section are not over, and the walk   *)
(* has a promise left to break.  Beyond, what the properties say of it       *)
(* holds for good: torn and what was shown or pulled stay as they are, and   *)
(* a walk written to is not quiet again.                                     *)
Open ==
    /\ stage # "done" /\ section.stage # "done" /\ ~torn
    /\ \/ quiet \/ stage = "idle"
       \/ walk.order = "default" /\ ~(there \ pulled \subseteq { seen[i] : i \in DOMAIN seen })
=============================================================================
