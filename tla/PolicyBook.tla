----------------------------- MODULE PolicyBook -----------------------------
(***************************************************************************)
(* What the policy and payment services promise their callers: a book of   *)
(* policies in which quoting, accepting, paying and binding each happen at *)
(* one instant, whatever the processes serving them do in between.  There  *)
(* are no locks, no calls in flight and no crashes here.  PolicyServices   *)
(* shows that the code keeps this promise.                                 *)
(***************************************************************************)
EXTENDS PolicyStateMachine, Integers, Sequences

CONSTANTS Policies,   \* identifiers of policy rows
          Keys,       \* idempotency keys
          Methods,    \* payment methods the gateway supports
          Sources     \* who may appear as the source of a transition

VARIABLES state,      \* state[p]: the state of policy p, Null before it exists
          trail,      \* trail[p]: its transition rows, oldest first
          receipts    \* receipts[p]: its payments, oldest first

bookVars == <<state, trail, receipts>>

Row(from, to, source, payment) ==
    [from |-> from, to |-> to, source |-> source, payment |-> payment]

Move(p, to, source, payment) ==
    /\ state' = [state EXCEPT ![p] = to]
    /\ trail' = [trail EXCEPT ![p] = Append(@, Row(state[p], to, source, payment))]

KeyUsed(k) == \E p \in Policies : \E i \in 1..Len(receipts[p]) : receipts[p][i].key = k
-----------------------------------------------------------------------------
Init ==
    /\ state = [p \in Policies |-> Null]
    /\ trail = [p \in Policies |-> << >>]
    /\ receipts = [p \in Policies |-> << >>]

\* A quote enters the book priced, with both rows of its history.
Quote(p, source) ==
    /\ state[p] = Null
    /\ state' = [state EXCEPT ![p] = "quoted"]
    /\ trail' = [trail EXCEPT ![p] = << Row(Null, "new", source, Null),
                                        Row("new", "quoted", source, Null) >>]
    /\ UNCHANGED receipts

Accept(p, source) ==
    /\ state[p] = "quoted"
    /\ Move(p, "accepted", source, Null)
    /\ UNCHANGED receipts

\* One receipt, one activation, and the activation names the receipt.
PayAndBind(p, method, key, source) ==
    /\ state[p] = "accepted"
    /\ key # Null => ~KeyUsed(key)
    /\ receipts' = [receipts EXCEPT ![p] = Append(@, [method |-> method, key |-> key])]
    /\ Move(p, "active", source, Len(receipts[p]) + 1)

\* A member of staff binds an accepted policy; nothing is charged.
BindByHand(p, source) ==
    /\ state[p] = "accepted"
    /\ Move(p, "active", source, Null)
    /\ UNCHANGED receipts

Next ==
    \E p \in Policies, s \in Sources :
        \/ Quote(p, s) \/ Accept(p, s) \/ BindByHand(p, s)
        \/ \E m \in Methods, k \in Keys \cup {Null} : PayAndBind(p, m, k, s)

Spec == Init /\ [][Next]_bookVars
=============================================================================
