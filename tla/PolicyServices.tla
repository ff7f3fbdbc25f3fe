--------------------------- MODULE PolicyServices ---------------------------
(***************************************************************************)
(* The services that own every change of a policy (create_quote,           *)
(* accept_quote, activate_policy in src/apps/policies/services.py and      *)
(* simulate_payment in src/apps/payments/services.py) and the views that   *)
(* call them (src/apps/policies/views.py), as they run in the web workers  *)
(* of src/Dockerfile against PostgreSQL at READ COMMITTED.                 *)
(*                                                                         *)
(* A worker serves one call at a time.  What it has written inside its     *)
(* open transaction (the policy row in row[w], a transition row in         *)
(* entry[w], a payment in receipt[w]) is invisible to the others until     *)
(* Commit copies it into the tables; a refusal or a crash drops it.        *)
(* rowLock[p] is the lock SELECT ... FOR UPDATE takes on policy p.         *)
(***************************************************************************)
EXTENDS PolicyStateMachine, Integers, Sequences

CONSTANTS Policies,   \* rows of the policy table that may come to exist
          Workers,    \* web workers
          Keys,       \* idempotency keys clients send
          Requests,   \* the calls clients, staff and library users may make
          Validity,   \* QUOTE_VALIDITY_DAYS
          MaxClock    \* bound on the clock

Ops == {"create", "accept", "pay", "bind", "history"}

\* http: through a view; library: a direct call of the service function, as
\* the tests make; admin: an action of the Django admin.
Vias == {"http", "library", "admin"}

Methods == {"simulated_card", "invoice"}

Request ==
    [op : Ops, policy : Policies \cup {Null}, method : Methods \cup {"cheque", Null},
     key : Keys \cup {Null}, via : Vias]

ASSUME ConstantsAssumption ==
    /\ Null \notin Policies \cup Workers \cup Keys \cup Methods
    /\ Null \notin Requests
    /\ Requests \subseteq Request
    /\ \A r \in Requests :
         /\ r.op = "create" <=> r.policy = Null
         /\ r.op = "bind" => r.via # "http"
         /\ r.op = "history" => r.via = "http"
    /\ Validity \in Nat \ {0}
    /\ MaxClock \in Nat

VARIABLES clock,       \* timezone.now()
          policies,    \* policies[p]: the committed row of policy p
          transitions, \* transitions[p]: its committed PolicyStateTransition rows
          payments,    \* payments[p]: its committed Payment rows
          rowLock,     \* rowLock[p]: the worker holding the row, or Null
          pc,          \* pc[w]: where worker w is in its call
          call,        \* call[w]: the request it serves, or Null
          row,         \* row[w]: the Policy instance it holds, or Null
          entry,       \* entry[w]: the transition row it wrote, or Null
          receipt,     \* receipt[w]: the payment it wrote, or Null
          reply        \* reply[w]: what it answered, or Null

tables == <<policies, transitions, payments>>
locals == <<row, entry, receipt>>
vars == <<clock, policies, transitions, payments, rowLock, pc, call, row, entry,
          receipt, reply>>

Stamp == Nat \cup {Null}

Policy == [state : State \cup {Null}, expiresAt : Stamp, acceptedAt : Stamp,
           activatedAt : Stamp]

Absent == [state |-> Null, expiresAt |-> Null, acceptedAt |-> Null, activatedAt |-> Null]

Sources == {"api", "admin"}

\* The metadata of an activation names its payment: its place in payments[p].
Transition == [from : State \cup {Null}, to : State, source : Sources, payment : Stamp]

\* Status and settlement follow from the method and are left out.
Payment == [method : Methods, key : Keys \cup {Null}]

Codes == {"ok", "not_found", "invalid", "conflict", "server_error"}

Reply == [code : Codes, state : State \cup {Null}, trail : Seq(Transition)]

\* None is no date, row, payment or answer.
ASSUME NullIsNoValue ==
    Null \notin Nat /\ Null \notin Policy /\ Null \notin Transition
    /\ Null \notin Payment /\ Null \notin Reply

PCs == {"idle", "called", "lock", "work", "insert", "activate", "save", "respond",
        "read", "replied"}

Source(c) == IF c.via = "admin" THEN "admin" ELSE "api"

\* The key that reaches simulate_payment: _pay_quote passes none on.
PassedKey(c) == IF c.via = "library" THEN c.key ELSE Null

IsExpired(r) == r.expiresAt # Null /\ clock > r.expiresAt

KeyTaken(k) == \E p \in Policies : \E i \in 1..Len(payments[p]) : payments[p][i].key = k
-----------------------------------------------------------------------------
Init ==
    /\ clock = 0
    /\ policies = [p \in Policies |-> Absent]
    /\ transitions = [p \in Policies |-> << >>]
    /\ payments = [p \in Policies |-> << >>]
    /\ rowLock = [p \in Policies |-> Null]
    /\ pc = [w \in Workers |-> "idle"]
    /\ call = [w \in Workers |-> Null]
    /\ row = [w \in Workers |-> Null]
    /\ entry = [w \in Workers |-> Null]
    /\ receipt = [w \in Workers |-> Null]
    /\ reply = [w \in Workers |-> Null]

\* A bug: the transaction ends and its row lock stays.
EndTransactionLeavingLock(w) ==
    /\ row' = [row EXCEPT ![w] = Null]
    /\ entry' = [entry EXCEPT ![w] = Null]
    /\ receipt' = [receipt EXCEPT ![w] = Null]
    /\ UNCHANGED rowLock

\* The atomic block ends: what it wrote leaves the worker, its lock is free.
EndTransaction(w) ==
    /\ row' = [row EXCEPT ![w] = Null]
    /\ entry' = [entry EXCEPT ![w] = Null]
    /\ receipt' = [receipt EXCEPT ![w] = Null]
    /\ rowLock' = [p \in Policies |-> IF rowLock[p] = w THEN Null ELSE rowLock[p]]

\* The worker answers; state is what it saw of the policy.
Answer(w, code, state, trail) ==
    /\ reply' = [reply EXCEPT ![w] = [code |-> code, state |-> state, trail |-> trail]]
    /\ pc' = [pc EXCEPT ![w] = "replied"]

\* An exception leaves the atomic block: nothing the call wrote survives.
Refuse(w, code, state) ==
    /\ Answer(w, code, state, << >>)
    /\ EndTransaction(w)
    /\ UNCHANGED <<clock, tables, call>>

Goto(w, label) == pc' = [pc EXCEPT ![w] = label]

-----------------------------------------------------------------------------
(* A call arrives.  The admin and the library hold a Policy instance, so    *)
(* the policy they name exists.                                             *)
Receive(w) ==
    /\ pc[w] = "idle"
    /\ \E c \in Requests :
         /\ c.via # "http" /\ c.policy # Null => policies[c.policy].state # Null
         /\ call' = [call EXCEPT ![w] = c]
    /\ Goto(w, "called")
    /\ UNCHANGED <<clock, tables, rowLock, locals, reply>>

\* A bug: the expiry lies before the quote.
CreateQuoteBackwards(w) ==
    /\ pc[w] = "called"
    /\ call[w].op = "create"
    /\ \E p \in Policies :
         /\ policies[p].state = Null
         /\ policies' = [policies EXCEPT ![p] =
                [Absent EXCEPT !.state = "quoted", !.expiresAt = clock - Validity]]
         /\ transitions' = [transitions EXCEPT ![p] =
                << [from |-> Null, to |-> "new", source |-> Source(call[w]), payment |-> Null],
                   [from |-> "new", to |-> "quoted", source |-> Source(call[w]),
                    payment |-> Null] >>]
    /\ Answer(w, "ok", "quoted", << >>)
    /\ UNCHANGED <<clock, payments, rowLock, call, locals>>

(* create_quote: the row, its genesis transition and the move to quoted     *)
(* commit together, and no one can name the row before they do.             *)
CreateQuote(w) ==
    /\ pc[w] = "called"
    /\ call[w].op = "create"
    /\ \E p \in Policies :
         /\ policies[p].state = Null
         /\ policies' = [policies EXCEPT ![p] =
                [Absent EXCEPT !.state = "quoted", !.expiresAt = clock + Validity]]
         /\ transitions' = [transitions EXCEPT ![p] =
                << [from |-> Null, to |-> "new", source |-> Source(call[w]), payment |-> Null],
                   [from |-> "new", to |-> "quoted", source |-> Source(call[w]),
                    payment |-> Null] >>]
    /\ Answer(w, "ok", "quoted", << >>)
    /\ UNCHANGED <<clock, payments, rowLock, call, locals>>

(* The customer or product is unknown (404), the rating engine refuses      *)
(* (400), or the generated quote_reference is taken (500).                  *)
RefuseQuote(w) ==
    /\ pc[w] = "called"
    /\ call[w].op = "create"
    /\ \E code \in {"not_found", "invalid", "server_error"} : Refuse(w, code, Null)

\* _get_policy of a policy that does not exist.
NoSuchPolicy(w) ==
    /\ pc[w] = "called"
    /\ call[w].op # "create"
    /\ policies[call[w].policy].state = Null
    /\ Refuse(w, "not_found", Null)

\* simulate_payment turns an unsupported method away before it locks.
BadMethod(w) ==
    /\ pc[w] = "called"
    /\ call[w].op = "pay"
    /\ policies[call[w].policy].state # Null
    /\ call[w].method \notin Methods
    /\ Refuse(w, "invalid", Null)

GetPolicy(w) ==
    /\ pc[w] = "called"
    /\ call[w].op # "create"
    /\ policies[call[w].policy].state # Null
    /\ \/ /\ call[w].op = "history"
          /\ row' = [row EXCEPT ![w] = policies[call[w].policy]]
          /\ Goto(w, "read")
       \/ /\ call[w].op \in {"accept", "bind", "pay"}
          /\ call[w].op = "pay" => call[w].method \in Methods
          /\ Goto(w, "lock")
          /\ UNCHANGED row
    /\ UNCHANGED <<clock, tables, rowLock, call, entry, receipt, reply>>

\* PolicyHistoryView: the policy was read first, the transitions only now.
ReadHistory(w) ==
    /\ pc[w] = "read"
    /\ Answer(w, "ok", row[w].state, transitions[call[w].policy])
    /\ EndTransaction(w)
    /\ UNCHANGED <<clock, tables, call>>

\* A bug: the row is read without FOR UPDATE.
LockRowWithoutLock(w) ==
    /\ pc[w] = "lock"
    /\ policies[call[w].policy].state # Null
    /\ row' = [row EXCEPT ![w] = policies[call[w].policy]]
    /\ Goto(w, IF call[w].op = "bind" THEN "activate" ELSE "work")
    /\ UNCHANGED <<clock, tables, rowLock, call, entry, receipt, reply>>

\* select_for_update().get(pk): waits for the row, then reads what committed.
LockRow(w) ==
    /\ pc[w] = "lock"
    /\ policies[call[w].policy].state # Null
    /\ rowLock[call[w].policy] = Null
    /\ rowLock' = [rowLock EXCEPT ![call[w].policy] = w]
    /\ row' = [row EXCEPT ![w] = policies[call[w].policy]]
    /\ Goto(w, IF call[w].op = "bind" THEN "activate" ELSE "work")
    /\ UNCHANGED <<clock, tables, call, entry, receipt, reply>>

(* _apply_transition on the instance r the worker holds: an illegal move    *)
(* is refused before anything is written.                                   *)
ApplyTransition(w, r, to, payment) ==
    \/ /\ CanTransition(r.state, to)
       /\ row' = [row EXCEPT ![w] = [r EXCEPT !.state = to]]
       /\ entry' = [entry EXCEPT ![w] = [from |-> r.state, to |-> to,
                        source |-> Source(call[w]), payment |-> payment]]
       /\ Goto(w, "save")
       /\ UNCHANGED <<clock, tables, rowLock, call, receipt, reply>>
    \/ /\ ~CanTransition(r.state, to)
       /\ Refuse(w, "conflict", r.state)

\* A bug: a lapsed quote is accepted.
AcceptQuoteLate(w) ==
    /\ pc[w] = "work"
    /\ call[w].op = "accept"
    /\ ApplyTransition(w, row[w], "accepted", Null)

\* accept_quote: expiry is looked at before the state.
AcceptQuote(w) ==
    /\ pc[w] = "work"
    /\ call[w].op = "accept"
    /\ \/ IsExpired(row[w]) /\ Refuse(w, "conflict", row[w].state)
       \/ ~IsExpired(row[w]) /\ ApplyTransition(w, row[w], "accepted", Null)

\* The committed payment that carries the key, if any, was for this request.
SameRequest(w) ==
    \E i \in 1..Len(payments[call[w].policy]) :
        payments[call[w].policy][i] = [method |-> call[w].method, key |-> PassedKey(call[w])]

\* A bug: the state is checked before the idempotency key.
CheckPaymentStateFirst(w) ==
    LET key == PassedKey(call[w])
        replay == key # Null /\ KeyTaken(key)
    IN /\ pc[w] = "work"
       /\ call[w].op = "pay"
       /\ \/ row[w].state # "accepted" /\ Refuse(w, "conflict", row[w].state)
          \/ row[w].state = "accepted" /\ replay /\ Refuse(w, "conflict", row[w].state)
          \/ /\ row[w].state = "accepted" /\ ~replay
             /\ Goto(w, "insert")
             /\ UNCHANGED <<clock, tables, rowLock, call, locals, reply>>

(* simulate_payment under the lock: a key already on a committed payment    *)
(* replays the same request and refuses any other; only then does the state *)
(* matter.                                                                  *)
CheckPayment(w) ==
    LET key == PassedKey(call[w])
        replay == key # Null /\ KeyTaken(key)
    IN /\ pc[w] = "work"
       /\ call[w].op = "pay"
       /\ \/ /\ replay /\ SameRequest(w)
             /\ Goto(w, "respond")
             /\ EndTransaction(w)
             /\ UNCHANGED <<clock, tables, call, reply>>
          \/ replay /\ ~SameRequest(w) /\ Refuse(w, "conflict", row[w].state)
          \/ ~replay /\ row[w].state # "accepted" /\ Refuse(w, "conflict", row[w].state)
          \/ /\ ~replay /\ row[w].state = "accepted"
             /\ Goto(w, "insert")
             /\ UNCHANGED <<clock, tables, rowLock, call, locals, reply>>

\* Another open transaction has inserted a payment with this key.
KeyPending(w, k) == \E v \in Workers \ {w} : receipt[v] # Null /\ receipt[v].key = k

\* A bug: idempotency_key is an ordinary column.
InsertPaymentNoIndex(w) ==
    /\ pc[w] = "insert"
    /\ receipt' = [receipt EXCEPT ![w] =
           [method |-> call[w].method, key |-> PassedKey(call[w])]]
    /\ Goto(w, "activate")
    /\ UNCHANGED <<clock, tables, rowLock, call, row, entry, reply>>

\* A bug: the payment is written outside the transaction.
InsertPaymentAutocommit(w) ==
    LET p == call[w].policy
        paid == [method |-> call[w].method, key |-> PassedKey(call[w])]
    IN /\ pc[w] = "insert"
       /\ payments' = [payments EXCEPT ![p] = Append(@, paid)]
       /\ Goto(w, "activate")
       /\ UNCHANGED <<clock, policies, transitions, rowLock, call, locals, reply>>

\* A bug: an invoice is written only once it is settled.
InsertPaymentCardOnly(w) ==
    LET paid == [method |-> call[w].method, key |-> PassedKey(call[w])]
    IN /\ pc[w] = "insert"
       /\ receipt' = [receipt EXCEPT ![w] = IF call[w].method = "invoice" THEN Null ELSE paid]
       /\ Goto(w, "activate")
       /\ UNCHANGED <<clock, tables, rowLock, call, row, entry, reply>>

(* Payment.objects.create: the unique index makes the insert wait while     *)
(* another transaction holds the same key, and fail if that one committed.  *)
InsertPayment(w) ==
    LET key == PassedKey(call[w])
    IN /\ pc[w] = "insert"
       /\ key # Null => ~KeyPending(w, key)
       /\ \/ key # Null /\ KeyTaken(key) /\ Refuse(w, "server_error", row[w].state)
          \/ /\ key # Null => ~KeyTaken(key)
             /\ receipt' = [receipt EXCEPT ![w] = [method |-> call[w].method, key |-> key]]
             /\ Goto(w, "activate")
             /\ UNCHANGED <<clock, tables, rowLock, call, row, entry, reply>>

(* activate_policy, on its own or inside simulate_payment: the row, locked  *)
(* already, is read again.  It looks neither at expiry nor for a payment.   *)
Activate(w) ==
    LET p == call[w].policy
    IN /\ pc[w] = "activate"
       /\ ApplyTransition(w, policies[p], "active",
              IF receipt[w] = Null THEN Null ELSE Len(payments[p]) + 1)

\* A bug: accepted_at is missing from update_fields.
CommitWithoutStamp(w) ==
    LET p == call[w].policy
    IN /\ pc[w] = "save"
       /\ policies' = [policies EXCEPT
              ![p].state = row[w].state,
              ![p].activatedAt = IF row[w].state = "active" THEN clock ELSE @]
       /\ transitions' = [transitions EXCEPT ![p] = Append(@, entry[w])]
       /\ payments' = [payments EXCEPT ![p] = IF receipt[w] = Null THEN @
                                              ELSE Append(@, receipt[w])]
       /\ Goto(w, "respond")
       /\ EndTransaction(w)
       /\ UNCHANGED <<clock, call, reply>>

\* A bug: an acceptance writes no history.
CommitWithoutHistory(w) ==
    LET p == call[w].policy
    IN /\ pc[w] = "save"
       /\ policies' = [policies EXCEPT
              ![p].state = row[w].state,
              ![p].acceptedAt = IF row[w].state = "accepted" THEN clock ELSE @,
              ![p].activatedAt = IF row[w].state = "active" THEN clock ELSE @]
       /\ transitions' = [transitions EXCEPT ![p] =
              IF call[w].op = "accept" THEN @ ELSE Append(@, entry[w])]
       /\ payments' = [payments EXCEPT ![p] = IF receipt[w] = Null THEN @
                                              ELSE Append(@, receipt[w])]
       /\ Goto(w, "respond")
       /\ EndTransaction(w)
       /\ UNCHANGED <<clock, call, reply>>

(* policy.save(update_fields=...) and the commit that follows it: state and *)
(* its stamp, the transition row and the payment appear at once.            *)
Commit(w) ==
    LET p == call[w].policy
    IN /\ pc[w] = "save"
       /\ policies' = [policies EXCEPT
              ![p].state = row[w].state,
              ![p].acceptedAt = IF row[w].state = "accepted" THEN clock ELSE @,
              ![p].activatedAt = IF row[w].state = "active" THEN clock ELSE @]
       /\ transitions' = [transitions EXCEPT ![p] = Append(@, entry[w])]
       /\ payments' = [payments EXCEPT ![p] = IF receipt[w] = Null THEN @
                                              ELSE Append(@, receipt[w])]
       /\ Goto(w, "respond")
       /\ EndTransaction(w)
       /\ UNCHANGED <<clock, call, reply>>

(* The transaction is over; _pay_quote reads the row again to render it,    *)
(* the other callers show the instance they got back.                       *)
Respond(w) ==
    /\ pc[w] = "respond"
    /\ Answer(w, "ok",
           CASE call[w].op = "pay" -> policies[call[w].policy].state
             [] call[w].op = "accept" -> "accepted"
             [] call[w].op = "bind" -> "active", << >>)
    /\ UNCHANGED <<clock, tables, rowLock, call, locals>>

\* The worker is free again.
Finish(w) ==
    /\ pc[w] = "replied"
    /\ Goto(w, "idle")
    /\ call' = [call EXCEPT ![w] = Null]
    /\ reply' = [reply EXCEPT ![w] = Null]
    /\ UNCHANGED <<clock, tables, rowLock, locals>>

(* A worker dies (killed, timed out, redeployed) and is started again: the  *)
(* database rolls its open transaction back, its caller hears nothing.      *)
Crash(w) ==
    /\ pc[w] # "idle"
    /\ Goto(w, "idle")
    /\ call' = [call EXCEPT ![w] = Null]
    /\ reply' = [reply EXCEPT ![w] = Null]
    /\ EndTransaction(w)
    /\ UNCHANGED <<clock, tables>>

Tick ==
    /\ clock < MaxClock
    /\ clock' = clock + 1
    /\ UNCHANGED <<tables, rowLock, pc, call, locals, reply>>

\* The steps of a call in progress.
Serve(w) ==
    \/ CreateQuote(w) \/ RefuseQuote(w)
    \/ NoSuchPolicy(w) \/ BadMethod(w) \/ GetPolicy(w)
    \/ ReadHistory(w)
    \/ LockRow(w)
    \/ AcceptQuote(w)
    \/ CheckPayment(w) \/ InsertPayment(w)
    \/ Activate(w)
    \/ Commit(w)
    \/ Respond(w)

Next ==
    \/ \E w \in Workers : Receive(w) \/ Serve(w) \/ Finish(w) \/ Crash(w)
    \/ Tick

Spec == Init /\ [][Next]_vars

(* Workers are operating system processes and a statement that waits for a  *)
(* lock is granted it in turn; nothing makes a client call, a worker die or *)
(* the clock pass a given instant.                                          *)
Fairness ==
    \A w \in Workers :
        /\ WF_vars(Serve(w))
        /\ SF_vars(LockRow(w))
        /\ SF_vars(InsertPayment(w))

FairSpec == Spec /\ Fairness
-----------------------------------------------------------------------------
(* What the tables and the answers have to do with each other. *)

\* Every variable holds a value of its kind.
TypeOK ==
    /\ clock \in 0..MaxClock
    /\ policies \in [Policies -> Policy]
    /\ transitions \in [Policies -> Seq(Transition)]
    /\ payments \in [Policies -> Seq(Payment)]
    /\ rowLock \in [Policies -> Workers \cup {Null}]
    /\ pc \in [Workers -> PCs]
    /\ call \in [Workers -> Requests \cup {Null}]
    /\ row \in [Workers -> Policy \cup {Null}]
    /\ entry \in [Workers -> Transition \cup {Null}]
    /\ receipt \in [Workers -> Payment \cup {Null}]
    /\ reply \in [Workers -> Reply \cup {Null}]

\* Rows that start at the genesis and follow on from each other by legal moves.
Chained(rows) ==
    \A i \in 1..Len(rows) :
        /\ CanTransition(rows[i].from, rows[i].to)
        /\ rows[i].from = IF i = 1 THEN Null ELSE rows[i - 1].to

LastState(rows) == IF rows = << >> THEN Null ELSE rows[Len(rows)].to

(* History never drifts from state: a policy's transition rows tell one     *)
(* legal story from the genesis that ends in the state its row shows,       *)
(* however the calls of several workers interleave or break off.            *)
HistoryNarrative ==
    \A p \in Policies :
        /\ Chained(transitions[p])
        /\ policies[p].state = LastState(transitions[p])

(* A policy is charged at most once, by whatever number of concurrent or    *)
(* repeated payments, with or without keys.                                 *)
ChargedOnce == \A p \in Policies : Len(payments[p]) <= 1

(* A payment never exists without binding its policy, and an activation     *)
(* that names a payment names one that was really taken.                    *)
PaymentsBind ==
    \A p \in Policies :
        /\ \A i \in 1..Len(payments[p]) :
             /\ policies[p].state \in {"active", "cancelled"}
             /\ \E j \in 1..Len(transitions[p]) :
                  transitions[p][j].to = "active" /\ transitions[p][j].payment = i
        /\ \A j \in 1..Len(transitions[p]) :
             transitions[p][j].payment \in {Null} \cup 1..Len(payments[p])

(* An idempotency key is on one payment of the whole book at most, even     *)
(* when two policies are paid with it at the same moment.                   *)
KeysUnique ==
    \A p, q \in Policies : \A i \in 1..Len(payments[p]), j \in 1..Len(payments[q]) :
        payments[p][i].key # Null /\ payments[p][i].key = payments[q][j].key
            => p = q /\ i = j

(* The stamps tell the same story as the state: acceptance and activation   *)
(* are dated exactly when they have happened, and in that order.            *)
StampsMatchState ==
    \A p \in Policies : LET r == policies[p] IN
        /\ r.acceptedAt # Null <=> r.state \in {"accepted", "active", "cancelled"}
        /\ r.activatedAt # Null <=> r.state \in {"active", "cancelled"}
        /\ r.acceptedAt # Null => r.expiresAt - Validity <= r.acceptedAt
        /\ r.activatedAt # Null => r.acceptedAt <= r.activatedAt

(* payments/services.py:5-6 has every active policy paid for: the only one  *)
(* without a payment is one that staff bound by hand (only tests call       *)
(* activate_policy directly, and no run here does).                         *)
PaidUnlessBoundByHand ==
    \A p \in Policies : policies[p].state = "active" /\ payments[p] = << >> =>
        \E i \in 1..Len(transitions[p]) :
            transitions[p][i].to = "active" /\ transitions[p][i].source = "admin"

Succeeded(w) == pc[w] = "replied" /\ reply[w].code = "ok"

Binds(w) == call[w].op = "bind" \/ (call[w].op = "pay" /\ PassedKey(call[w]) = Null)

\* Calls that only one of v and w can win.
Rivals(v, w) ==
    /\ v # w /\ call[v].policy = call[w].policy
    /\ (call[v].op = "accept" /\ call[w].op = "accept") \/ (Binds(v) /\ Binds(w))

(* Two concurrent acceptances of a policy, or two concurrent bindings       *)
(* (payments that replay no key, or by hand), are never both told they won. *)
OneWinner == \A v, w \in Workers : ~ (Succeeded(v) /\ Succeeded(w) /\ Rivals(v, w))

ReplyTruthful(w) ==
    Succeeded(w) =>
        LET c == call[w] IN
        /\ c.op = "accept" =>
             \E i \in 1..Len(transitions[c.policy]) : transitions[c.policy][i].to = "accepted"
        /\ c.op = "pay" =>
             /\ reply[w].state = "active"
             /\ \E i \in 1..Len(payments[c.policy]) :
                  payments[c.policy][i] = [method |-> c.method, key |-> PassedKey(c)]
        /\ c.op = "history" =>
             \E i \in 1..Len(reply[w].trail) : reply[w].trail[i].to = reply[w].state

(* A success that was answered is in the tables: an accepted quote has its  *)
(* acceptance row, a paid one is bound and carries that very payment.  The  *)
(* history endpoint reads the policy and its transitions in two statements: *)
(* what it shows may end later than the state it shows, but never lacks the *)
(* row that led to it.                                                      *)
RepliesTruthful == \A w \in Workers : ReplyTruthful(w)

\* A keyed payment, between its check and its answer, that repeats one already taken.
Repeats(w) ==
    /\ pc[w] \in {"work", "respond"} /\ call[w].op = "pay"
    /\ PassedKey(call[w]) # Null /\ SameRequest(w)

(* A keyed payment that repeats one already taken goes from the check to the *)
(* answer ok and writes nothing on its way: it is neither refused, whatever  *)
(* state the policy is in, nor charged again.  Only its worker's death keeps *)
(* the answer from it.                                                       *)
KeyedRetryReplays ==
    [][ \A w \in Workers : Repeats(w) =>
          \/ pc'[w] = pc[w] /\ reply'[w] = reply[w]
          \/ pc[w] = "work" /\ pc'[w] = "respond" /\ receipt'[w] = Null /\ tables' = tables
          \/ pc[w] = "respond" /\ pc'[w] = "replied" /\ reply'[w].code = "ok" /\ tables' = tables
          \/ pc'[w] = "idle" /\ tables' = tables ]_vars

ServerErrorExplained(w) ==
    pc[w] = "replied" /\ call[w].op = "pay" /\ reply[w].code = "server_error" =>
        \E q \in Policies \ {call[w].policy} : \E i \in 1..Len(payments[q]) :
            payments[q][i].key = PassedKey(call[w])

(* A payment that ends in a server error has met its key on another policy: *)
(* a repeated payment of the same policy waits for the row and is replayed, *)
(* and never runs into the unique index.                                    *)
ServerErrorOnlyAcrossPolicies == \A w \in Workers : ServerErrorExplained(w)

Lapsed(p) == policies[p].state = "quoted" /\ IsExpired(policies[p])

AcceptanceInFlight(p) ==
    \E w \in Workers : pc[w] = "save" /\ call[w].op = "accept" /\ call[w].policy = p

(* A quote that has lapsed while no acceptance was past its expiry check    *)
(* stays a quote for good: no later acceptance, payment or binding gets     *)
(* past it, and nothing moves it to expired either.                         *)
LapsedStaysQuoted ==
    [][ \A p \in Policies : Lapsed(p) /\ ~AcceptanceInFlight(p)
          => (Lapsed(p) /\ ~AcceptanceInFlight(p))' ]_vars

(* Every call that reaches a worker is answered, or its worker dies: no     *)
(* call waits for ever on the row locks or the key index.                   *)
Answered ==
    \A w \in Workers : pc[w] = "called" ~> pc[w] \in {"replied", "idle"}

-----------------------------------------------------------------------------
(* What a document says and the code does not do. *)

(* API.md:96 says an Idempotency-Key makes a repeated pay safe: of two equal *)
(* keyed calls, one told that it paid and the other that the policy is       *)
(* already active are one too many.                                          *)
KeyedRetriesSafe ==
    \A v, w \in Workers :
        ~ ( /\ Succeeded(v)
            /\ call[v].op = "pay" /\ call[v].key # Null /\ call[v] = call[w]
            /\ pc[w] = "replied" /\ reply[w].code = "conflict"
            /\ reply[w].state = "active" )

-----------------------------------------------------------------------------
(* The inductive invariant: what the workers hold while they hold it. *)

\* A worker that is not idle serves a call, of the kind its place belongs to.
CallShape(w) ==
    /\ pc[w] # "idle" => call[w] # Null
    /\ pc[w] = "read" => call[w].op = "history" /\ row[w] # Null
    /\ pc[w] \in {"lock", "work", "insert", "activate", "save", "respond"} =>
         /\ call[w].op \in {"accept", "bind", "pay"}
         /\ call[w].op = "pay" => call[w].method \in Methods
    /\ pc[w] = "insert" => call[w].op = "pay"
    /\ pc[w] = "activate" => call[w].op # "accept"

\* Once it has looked its policy up, the policy exists.
CallFits(w) ==
    /\ CallShape(w)
    /\ pc[w] \in {"lock", "work", "insert", "activate", "save", "respond"} =>
         policies[call[w].policy].state # Null

(* Inside its transaction a worker holds the row lock, and until it saves   *)
(* its instance is the committed row.                                       *)
LockProtects(w) ==
    /\ pc[w] \in {"work", "insert", "activate", "save"} => rowLock[call[w].policy] = w
    /\ pc[w] \in {"work", "insert", "activate"} => row[w] = policies[call[w].policy]

(* A worker about to save holds one legal step from the committed state,    *)
(* and one that has taken a payment binds an accepted policy with it.       *)
WriteLegal(w) ==
    /\ pc[w] = "save" =>
         /\ row[w] # Null /\ entry[w] # Null
         /\ entry[w].from = policies[call[w].policy].state
         /\ entry[w].to = row[w].state
         /\ entry[w].to = IF call[w].op = "accept" THEN "accepted" ELSE "active"
         /\ CanTransition(entry[w].from, entry[w].to)
         /\ entry[w].payment = IF receipt[w] = Null THEN Null
                               ELSE Len(payments[call[w].policy]) + 1
    /\ pc[w] = "insert" => policies[call[w].policy].state = "accepted"
    /\ receipt[w] # Null =>
         /\ pc[w] \in {"activate", "save"}
         /\ call[w].op = "pay"
         /\ policies[call[w].policy].state = "accepted"

\* A key on an uncommitted payment is on no other, committed or not.
KeyReserved(w) ==
    receipt[w] # Null /\ receipt[w].key # Null =>
        ~KeyTaken(receipt[w].key) /\ ~KeyPending(w, receipt[w].key)

WorkerOK(w) == CallFits(w) /\ LockProtects(w) /\ WriteLegal(w)

TablesOK == HistoryNarrative /\ PaymentsBind /\ ChargedOnce /\ KeysUnique

(* What holds between any two steps: the tables agree, and every worker's   *)
(* uncommitted writes are ones the tables can take.                         *)
IndInv ==
    /\ TypeOK /\ TablesOK
    /\ \A w \in Workers : WorkerOK(w) /\ KeyReserved(w)

(* The services reach no other state than these, and date nothing later     *)
(* than now.                                                                *)
StampsInv ==
    /\ StampsMatchState
    /\ \A p \in Policies : LET r == policies[p] IN
         /\ r.state \in {Null, "quoted", "accepted", "active"}
         /\ r.state # Null => r.expiresAt \in Nat /\ r.expiresAt - Validity <= clock
         /\ r.acceptedAt # Null => r.acceptedAt <= clock

\* The call of w has won, whether its client knows it yet or not.
Won(w) == pc[w] = "respond" \/ Succeeded(w)

HasRow(rows, st) == \E i \in 1..Len(rows) : rows[i].to = st

\* What w is about to write or to answer is, or will be, what the tables say.
AnswerFits(w) ==
    LET c == call[w]
        p == c.policy
    IN /\ pc[w] # "replied" => reply[w] = Null
       /\ pc[w] \in {"activate", "save"} /\ c.op = "pay" =>
            receipt[w] = [method |-> c.method, key |-> PassedKey(c)]
       /\ pc[w] = "save" => entry[w].source = Source(c)
       /\ pc[w] = "read" => policies[p].state # Null /\ HasRow(transitions[p], row[w].state)
       /\ Won(w) =>
            /\ c.op = "accept" => policies[p].state \in {"accepted", "active"}
                                  /\ HasRow(transitions[p], "accepted")
            /\ c.op = "bind" => policies[p].state = "active"
            /\ c.op = "pay" => policies[p].state = "active" /\ SameRequest(w)

(* IndInv and what the answers add to it: of two rivals at most one has won *)
(* even before it is told so.                                               *)
ServiceInv ==
    /\ IndInv /\ StampsInv
    /\ \A w \in Workers : AnswerFits(w)
    /\ \A v, w \in Workers : ~ (Won(v) /\ Won(w) /\ Rivals(v, w))
    /\ RepliesTruthful /\ ServerErrorOnlyAcrossPolicies
-----------------------------------------------------------------------------
(* The services keep the promise of the abstract book: seen through the     *)
(* committed tables every step is one of its operations, or invisible.      *)
Book == INSTANCE PolicyBook
            WITH state <- [p \in Policies |-> policies[p].state],
                 trail <- transitions, receipts <- payments

ImplementsBook == Book!Spec
=============================================================================
