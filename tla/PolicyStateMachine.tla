------------------------- MODULE PolicyStateMachine -------------------------
(***************************************************************************)
(* The lifecycle table of src/apps/policies/state_machine.py: which moves  *)
(* between policy states are legal. Null is Python's None, the origin of   *)
(* the genesis transition and the state of a row that does not exist yet.  *)
(***************************************************************************)
CONSTANT Null

State == {"new", "quoted", "accepted", "active", "expired", "cancelled",
          "declined"}

\* None is not one of the seven state strings.
ASSUME NullAssumption == Null \notin State

\* A table with a shortcut: a quote could be bound without acceptance.
ShortcutTRANSITIONS ==
    { <<Null, "new">>, <<"new", "quoted">>, <<"quoted", "accepted">>,
      <<"quoted", "active">>, <<"accepted", "active">> }

TRANSITIONS ==
    { <<Null, "new">>,
      <<"new", "quoted">>,
      <<"quoted", "accepted">>, <<"quoted", "expired">>, <<"quoted", "declined">>,
      <<"accepted", "active">>,
      <<"active", "cancelled">> }

CanTransition(from, to) == <<from, to>> \in TRANSITIONS

=============================================================================
