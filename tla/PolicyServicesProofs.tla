------------------------ MODULE PolicyServicesProofs ------------------------
(***************************************************************************)
(* IndInv is inductive; type correctness, the agreement of the tables and  *)
(* the implementation of PolicyBook follow.  In the second half ServiceInv *)
(* adds the stamps of the rows and the truth of the answers.               *)
(***************************************************************************)
EXTENDS PolicyServices, SequenceTheorems, TLAPS

\* A request, once received, is made of its fields.
LEMMA RequestFields ==
    ASSUME NEW c \in Requests
    PROVE  /\ c \in Request
           /\ c # Null
           /\ c.op # "create" => c.policy \in Policies
           /\ Source(c) \in Sources
           /\ PassedKey(c) \in Keys \cup {Null}
<1>1. c \in Request /\ c # Null /\ (c.op = "create" <=> c.policy = Null)
  BY ConstantsAssumption DEF ConstantsAssumption
<1>2. c.policy \in Policies \cup {Null} /\ c.key \in Keys \cup {Null}
  BY <1>1 DEF Request
<1> QED
  BY <1>1, <1>2 DEF Source, Sources, PassedKey

\* One more legal row keeps a history chained and ends it in the row's state.
LEMMA ChainGrows ==
    ASSUME NEW rows \in Seq(Transition), NEW e \in Transition,
           Chained(rows), e.from = LastState(rows), CanTransition(e.from, e.to)
    PROVE  Chained(Append(rows, e)) /\ LastState(Append(rows, e)) = e.to
<1> DEFINE more == Append(rows, e)
<1>1. /\ Len(more) = Len(rows) + 1 /\ Len(rows) \in Nat
      /\ more # << >> /\ more[Len(rows) + 1] = e
      /\ \A i \in 1..Len(rows) : more[i] = rows[i]
      /\ rows = << >> <=> Len(rows) = 0
  BY AppendProperties, EmptySeq
<1>2. \A i \in 1..Len(rows) + 1 :
        /\ CanTransition(more[i].from, more[i].to)
        /\ more[i].from = IF i = 1 THEN Null ELSE more[i - 1].to
  <2> TAKE i \in 1..Len(rows) + 1
  <2>1. CASE i = Len(rows) + 1
    BY <1>1, <2>1 DEF LastState
  <2>2. CASE i \in 1..Len(rows)
    BY <1>1, <2>2 DEF Chained
  <2> QED
    BY <1>1, <2>1, <2>2
<1> QED
  BY <1>1, <1>2 DEF Chained, LastState

-----------------------------------------------------------------------------
(* Frames: what a step leaves alone. *)

\* A step that changes no table keeps the tables in agreement.
LEMMA TablesStay ==
    ASSUME TablesOK, UNCHANGED tables
    PROVE  TablesOK'
BY DEF TablesOK, tables, HistoryNarrative, PaymentsBind, ChargedOnce, KeysUnique

(* A step of w leaves another worker in order if it keeps that worker's     *)
(* locks and touches only rows that w has locked or that do not exist yet.  *)
LEMMA OthersStay ==
    ASSUME IndInv, NEW w \in Workers, NEW v \in Workers \ {w},
           pc'[v] = pc[v], call'[v] = call[v], row'[v] = row[v],
           entry'[v] = entry[v], receipt'[v] = receipt[v],
           \A p \in Policies : rowLock[p] = v => rowLock'[p] = v,
           \A p \in Policies :
               \/ policies'[p] = policies[p] /\ payments'[p] = payments[p]
               \/ rowLock[p] = w /\ policies'[p].state # Null
               \/ policies[p].state = Null
    PROVE  WorkerOK(v)'
<1>1. TypeOK /\ WorkerOK(v)
  BY DEF IndInv
<1>2. call[v] \in Requests \cup {Null}
  BY <1>1 DEF TypeOK
<1>3. CASE call[v] = Null \/ pc[v] \in {"idle", "called", "read", "replied"}
  BY <1>1, <1>3 DEF WorkerOK, CallFits, CallShape, LockProtects, WriteLegal
<1>4. CASE call[v] # Null /\ pc[v] \in {"lock", "work", "insert", "activate", "save", "respond"}
  <2> DEFINE p == call[v].policy
  <2>1. p \in Policies /\ policies[p].state # Null
    BY <1>1, <1>2, <1>4, RequestFields DEF WorkerOK, CallFits, CallShape
  <2>2. policies'[p].state # Null
    BY <2>1
  <2>3. pc[v] \in {"work", "insert", "activate", "save"} =>
          rowLock[p] = v /\ rowLock'[p] = v
          /\ policies'[p] = policies[p] /\ payments'[p] = payments[p]
    BY <1>1, <2>1 DEF WorkerOK, LockProtects
  <2>4. receipt[v] # Null => pc[v] \in {"activate", "save"}
    BY <1>1 DEF WorkerOK, WriteLegal
  <2>5. CallFits(v)'
    BY <1>1, <1>4, <2>2 DEF WorkerOK, CallFits, CallShape
  <2>6. LockProtects(v)'
    BY <1>1, <2>3 DEF WorkerOK, LockProtects
  <2>7. WriteLegal(v)'
    BY <1>1, <2>3, <2>4 DEF WorkerOK, WriteLegal
  <2> QED
    BY <2>5, <2>6, <2>7 DEF WorkerOK
<1> QED
  BY <1>1, <1>3, <1>4 DEF TypeOK, PCs

\* A step that takes no payment and reserves no key keeps the reserved ones.
LEMMA KeysStay ==
    ASSUME \A u \in Workers : KeyReserved(u),
           payments' = payments,
           \A u \in Workers : receipt'[u] = receipt[u] \/ receipt'[u] = Null
    PROVE  \A u \in Workers : KeyReserved(u)'
BY DEF KeyReserved, KeyTaken, KeyPending
-----------------------------------------------------------------------------
\* An empty database and idle workers agree.
THEOREM InitIndInv == Init => IndInv
<1> SUFFICES ASSUME Init PROVE IndInv
  OBVIOUS
<1> USE DEF Init
<1>1. Absent \in Policy /\ Absent.state = Null
  BY DEF Absent, Policy, Stamp
<1>2. TypeOK
  <2>1. << >> \in Seq(Transition) /\ << >> \in Seq(Payment)
    OBVIOUS
  <2> QED
    BY <1>1, <2>1, ConstantsAssumption DEF TypeOK, ConstantsAssumption, PCs
<1>3. TablesOK
  BY <1>1 DEF TablesOK, HistoryNarrative, Chained, LastState, PaymentsBind,
              ChargedOnce, KeysUnique
<1>4. ASSUME NEW w \in Workers PROVE WorkerOK(w) /\ KeyReserved(w)
  BY DEF WorkerOK, CallFits, CallShape, LockProtects, WriteLegal, KeyReserved
<1> QED
  BY <1>2, <1>3, <1>4 DEF IndInv

-----------------------------------------------------------------------------
(* Steps. Each keeps the types, the tables, the worker that takes it, the   *)
(* other workers and the reserved keys.                                     *)

\* The end of a transaction takes no lock of another worker's away.
LEMMA OthersKeepLocks ==
    ASSUME TypeOK, NEW w \in Workers, EndTransaction(w)
    PROVE  /\ \A p \in Policies : rowLock[p] # w => rowLock'[p] = rowLock[p]
           /\ row' \in [Workers -> Policy \cup {Null}]
           /\ entry' \in [Workers -> Transition \cup {Null}]
           /\ receipt' \in [Workers -> Payment \cup {Null}]
           /\ rowLock' \in [Policies -> Workers \cup {Null}]
           /\ receipt'[w] = Null
           /\ \A u \in Workers : receipt'[u] = receipt[u] \/ receipt'[u] = Null
           /\ \A v \in Workers \ {w} : row'[v] = row[v] /\ entry'[v] = entry[v]
                                       /\ receipt'[v] = receipt[v]
BY DEF EndTransaction, TypeOK

\* An answer is well formed and touches no other worker.
LEMMA AnswerStep ==
    ASSUME TypeOK, NEW w \in Workers, NEW code \in Codes,
           NEW st \in State \cup {Null}, NEW trail \in Seq(Transition),
           Answer(w, code, st, trail)
    PROVE  /\ reply' \in [Workers -> Reply \cup {Null}]
           /\ pc' \in [Workers -> PCs]
           /\ pc'[w] = "replied"
           /\ \A v \in Workers \ {w} : pc'[v] = pc[v]
BY DEF Answer, TypeOK, Reply, PCs

LEMMA RefuseStep ==
    ASSUME IndInv, NEW w \in Workers, pc[w] # "idle",
           NEW code \in Codes, NEW st \in State \cup {Null}, Refuse(w, code, st)
    PROVE  IndInv'
<1>1. TypeOK /\ TablesOK /\ WorkerOK(w) /\ \A u \in Workers : KeyReserved(u)
  BY DEF IndInv
<1>2. UNCHANGED <<clock, tables, call>> /\ EndTransaction(w) /\ Answer(w, code, st, << >>)
  BY DEF Refuse
<1>3. << >> \in Seq(Transition)
  OBVIOUS
<1>4. TypeOK'
  BY <1>1, <1>2, <1>3, OthersKeepLocks, AnswerStep DEF TypeOK, tables
<1>5. TablesOK'
  BY <1>1, <1>2, TablesStay
<1>6. WorkerOK(w)'
  BY <1>1, <1>2, <1>3, OthersKeepLocks, AnswerStep
     DEF WorkerOK, CallFits, CallShape, LockProtects, WriteLegal
<1>7. ASSUME NEW v \in Workers \ {w} PROVE WorkerOK(v)'
  BY <1>1, <1>2, <1>3, OthersKeepLocks, AnswerStep, OthersStay DEF tables
<1>8. \A u \in Workers : KeyReserved(u)'
  BY <1>1, <1>2, OthersKeepLocks, KeysStay DEF tables
<1> QED
  BY <1>4, <1>5, <1>6, <1>7, <1>8 DEF IndInv

(* A step of w that changes no table, no lock and no uncommitted payment    *)
(* keeps IndInv if it keeps the types and leaves w in order.                *)
LEMMA QuietStep ==
    ASSUME IndInv, TypeOK', NEW w \in Workers, WorkerOK(w)',
           UNCHANGED <<tables, rowLock, receipt>>,
           \A v \in Workers \ {w} : /\ pc'[v] = pc[v] /\ call'[v] = call[v]
                                    /\ row'[v] = row[v] /\ entry'[v] = entry[v]
    PROVE  IndInv'
<1>1. TablesOK /\ \A u \in Workers : KeyReserved(u)
  BY DEF IndInv
<1>2. TablesOK'
  BY <1>1, TablesStay
<1>3. ASSUME NEW v \in Workers \ {w} PROVE WorkerOK(v)'
  BY OthersStay DEF tables
<1>4. \A u \in Workers : KeyReserved(u)'
  BY <1>1, KeysStay DEF tables
<1> QED
  BY <1>2, <1>3, <1>4 DEF IndInv

LEMMA ReceiveStep ==
    ASSUME IndInv, NEW w \in Workers, Receive(w)
    PROVE  IndInv'
<1>1. TypeOK /\ WorkerOK(w)
  BY DEF IndInv
<1>2. PICK c \in Requests : call' = [call EXCEPT ![w] = c]
  BY DEF Receive
<1>3. TypeOK'
  BY <1>1, <1>2 DEF Receive, Goto, TypeOK, PCs, tables, locals
<1>4. WorkerOK(w)'
  BY <1>1, <1>2, RequestFields
     DEF Receive, Goto, TypeOK, WorkerOK, CallFits, CallShape, LockProtects, WriteLegal, tables, locals
<1> QED
  BY <1>1, <1>2, <1>3, <1>4, QuietStep DEF Receive, Goto, TypeOK, locals

LEMMA GetPolicyStep ==
    ASSUME IndInv, NEW w \in Workers, GetPolicy(w)
    PROVE  IndInv'
<1>1. TypeOK /\ WorkerOK(w)
  BY DEF IndInv
<1>2. call[w] \in Requests /\ call[w].policy \in Policies
  BY <1>1, RequestFields DEF GetPolicy, TypeOK, WorkerOK, CallFits, CallShape
<1>3. TypeOK'
  BY <1>1, <1>2, ZenonT(40) DEF GetPolicy, Goto, TypeOK, PCs, tables
<1>4. WorkerOK(w)'
  BY <1>1, <1>2, NullIsNoValue
     DEF GetPolicy, Goto, TypeOK, WorkerOK, CallFits, CallShape, LockProtects, WriteLegal, tables,
         NullIsNoValue
<1> QED
  BY <1>1, <1>3, <1>4, QuietStep DEF GetPolicy, Goto, TypeOK

LEMMA RespondStep ==
    ASSUME IndInv, NEW w \in Workers, Respond(w)
    PROVE  IndInv'
<1>1. TypeOK /\ WorkerOK(w)
  BY DEF IndInv
<1>2. call[w] \in Requests /\ call[w].policy \in Policies
      /\ call[w].op \in {"accept", "bind", "pay"}
  BY <1>1, RequestFields DEF Respond, TypeOK, WorkerOK, CallFits, CallShape
<1>3. PICK st \in State \cup {Null} : Answer(w, "ok", st, << >>)
  BY <1>1, <1>2 DEF Respond, State, TypeOK, Policy
<1>4. << >> \in Seq(Transition) /\ "ok" \in Codes
  BY DEF Codes
<1>5. TypeOK' /\ pc'[w] = "replied" /\ \A v \in Workers \ {w} : pc'[v] = pc[v]
  BY <1>1, <1>3, <1>4, AnswerStep DEF Respond, TypeOK, tables, locals
<1>6. WorkerOK(w)'
  BY <1>1, <1>5 DEF Respond, WorkerOK, CallFits, CallShape, LockProtects, WriteLegal, tables, locals
<1> QED
  BY <1>5, <1>6, QuietStep DEF Respond, locals

LEMMA FinishStep ==
    ASSUME IndInv, NEW w \in Workers, Finish(w)
    PROVE  IndInv'
<1>1. TypeOK /\ WorkerOK(w)
  BY DEF IndInv
<1>2. TypeOK'
  BY <1>1 DEF Finish, Goto, TypeOK, PCs, tables, locals
<1>3. WorkerOK(w)'
  BY <1>1 DEF Finish, Goto, TypeOK, WorkerOK, CallFits, CallShape, LockProtects, WriteLegal, tables, locals
<1> QED
  BY <1>1, <1>2, <1>3, QuietStep DEF Finish, Goto, TypeOK, locals

(* A step that ends w's transaction and changes no table keeps IndInv if it *)
(* keeps the types and leaves w in order.                                   *)
LEMMA EndingStep ==
    ASSUME IndInv, TypeOK', NEW w \in Workers, WorkerOK(w)',
           UNCHANGED tables, EndTransaction(w),
           \A v \in Workers \ {w} : pc'[v] = pc[v] /\ call'[v] = call[v]
    PROVE  IndInv'
<1>1. TypeOK /\ TablesOK /\ \A u \in Workers : KeyReserved(u)
  BY DEF IndInv
<1>2. TablesOK'
  BY <1>1, TablesStay
<1>3. ASSUME NEW v \in Workers \ {w} PROVE WorkerOK(v)'
  BY <1>1, OthersKeepLocks, OthersStay DEF tables
<1>4. \A u \in Workers : KeyReserved(u)'
  BY <1>1, OthersKeepLocks, KeysStay DEF tables
<1> QED
  BY <1>2, <1>3, <1>4 DEF IndInv

LEMMA ReadHistoryStep ==
    ASSUME IndInv, NEW w \in Workers, ReadHistory(w)
    PROVE  IndInv'
<1>1. TypeOK /\ WorkerOK(w)
  BY DEF IndInv
<1>2. call[w] \in Requests /\ call[w].policy \in Policies /\ row[w] \in Policy
  BY <1>1, RequestFields DEF ReadHistory, TypeOK, WorkerOK, CallFits, CallShape
<1>3. /\ row[w].state \in State \cup {Null} /\ "ok" \in Codes
      /\ transitions[call[w].policy] \in Seq(Transition)
  BY <1>1, <1>2 DEF TypeOK, Policy, Codes
<1>4. TypeOK' /\ pc'[w] = "replied" /\ \A v \in Workers \ {w} : pc'[v] = pc[v]
  BY <1>1, <1>3, AnswerStep, OthersKeepLocks DEF ReadHistory, TypeOK, tables
<1>5. WorkerOK(w)'
  BY <1>1, <1>2, <1>4, OthersKeepLocks
     DEF ReadHistory, WorkerOK, CallFits, CallShape, LockProtects, WriteLegal, tables
<1> QED
  BY <1>4, <1>5, EndingStep DEF ReadHistory

LEMMA CrashStep ==
    ASSUME IndInv, NEW w \in Workers, Crash(w)
    PROVE  IndInv'
<1>1. TypeOK
  BY DEF IndInv
<1>2. TypeOK'
  BY <1>1, OthersKeepLocks DEF Crash, Goto, TypeOK, PCs, tables
<1>3. WorkerOK(w)'
  BY <1>1, OthersKeepLocks
     DEF Crash, Goto, TypeOK, WorkerOK, CallFits, CallShape, LockProtects, WriteLegal
<1> QED
  BY <1>1, <1>2, <1>3, EndingStep DEF Crash, Goto, TypeOK

LEMMA TickStep ==
    ASSUME IndInv, Tick
    PROVE  IndInv'
<1>1. TypeOK /\ TablesOK
  BY DEF IndInv
<1>2. TypeOK'
  BY <1>1, ConstantsAssumption DEF Tick, TypeOK, tables, locals, ConstantsAssumption
<1>3. TablesOK'
  BY <1>1, TablesStay DEF Tick
<1>4. ASSUME NEW w \in Workers PROVE WorkerOK(w)' /\ KeyReserved(w)'
  BY DEF IndInv, Tick, WorkerOK, CallFits, CallShape, LockProtects, WriteLegal, KeyReserved,
         KeyTaken, KeyPending, tables, locals
<1> QED
  BY <1>2, <1>3, <1>4 DEF IndInv

LEMMA LockRowStep ==
    ASSUME IndInv, NEW w \in Workers, LockRow(w)
    PROVE  IndInv'
<1>1. TypeOK /\ TablesOK /\ WorkerOK(w) /\ \A u \in Workers : KeyReserved(u)
  BY DEF IndInv
<1>2. call[w] \in Requests /\ call[w].policy \in Policies
  BY <1>1, RequestFields DEF LockRow, TypeOK, WorkerOK, CallFits, CallShape
<1>3. TypeOK'
  BY <1>1, <1>2 DEF LockRow, Goto, TypeOK, PCs, tables
<1>4. TablesOK'
  BY <1>1, TablesStay DEF LockRow
<1>5. WorkerOK(w)'
  BY <1>1, <1>2
     DEF LockRow, Goto, TypeOK, WorkerOK, CallFits, CallShape, LockProtects, WriteLegal, tables
<1>6. ASSUME NEW v \in Workers \ {w} PROVE WorkerOK(v)'
  <2>1. \A p \in Policies : rowLock[p] = v => rowLock'[p] = v
    BY <1>1, <1>2, ConstantsAssumption DEF LockRow, TypeOK, ConstantsAssumption
  <2> QED
    BY <1>1, <2>1, OthersStay DEF LockRow, Goto, TypeOK, tables
<1>7. \A u \in Workers : KeyReserved(u)'
  BY <1>1, KeysStay DEF LockRow, tables
<1> QED
  BY <1>3, <1>4, <1>5, <1>6, <1>7 DEF IndInv

(* _apply_transition on the committed row of a locked policy, for the move  *)
(* the call asks for.                                                       *)
LEMMA ApplyTransitionStep ==
    ASSUME IndInv, NEW w \in Workers, pc[w] \in {"work", "activate"},
           NEW to \in {"accepted", "active"},
           to = IF call[w].op = "accept" THEN "accepted" ELSE "active",
           NEW payment,
           payment = IF receipt[w] = Null THEN Null
                     ELSE Len(payments[call[w].policy]) + 1,
           ApplyTransition(w, policies[call[w].policy], to, payment)
    PROVE  IndInv'
<1> DEFINE p == call[w].policy
           r == policies[p]
<1>1. TypeOK /\ WorkerOK(w)
  BY DEF IndInv
<1>2. call[w] \in Requests /\ p \in Policies
  BY <1>1, RequestFields DEF TypeOK, WorkerOK, CallFits, CallShape
<1>3. r \in Policy /\ payments[p] \in Seq(Payment)
  BY <1>1, <1>2 DEF TypeOK
<1>4. r.state \in State \cup {Null} /\ payment \in Stamp
  BY <1>3 DEF Policy, Stamp
<1>5. CASE ~CanTransition(r.state, to)
  BY <1>1, <1>4, <1>5, RefuseStep DEF ApplyTransition, Codes
<1>6. CASE CanTransition(r.state, to)
  <2> DEFINE rr == [r EXCEPT !.state = to]
             e == [from |-> r.state, to |-> to, source |-> Source(call[w]),
                   payment |-> payment]
  <2>1. /\ row' = [row EXCEPT ![w] = rr] /\ entry' = [entry EXCEPT ![w] = e]
        /\ pc' = [pc EXCEPT ![w] = "save"]
        /\ UNCHANGED <<clock, tables, rowLock, call, receipt, reply>>
    BY <1>6 DEF ApplyTransition, Goto
  <2>2. rr \in Policy /\ rr.state = to
    BY <1>3 DEF Policy, State
  <2>3. e \in Transition
    BY <1>2, <1>4, RequestFields DEF Transition, State
  <2>4. TypeOK'
    BY <1>1, <2>1, <2>2, <2>3 DEF TypeOK, PCs, tables
  <2>5. WorkerOK(w)'
    <3>1. row'[w] = rr /\ entry'[w] = e /\ pc'[w] = "save" /\ row'[w] # Null
          /\ entry'[w] # Null
      BY <1>1, <2>1, <2>2, <2>3, NullIsNoValue DEF TypeOK
    <3>2. CallFits(w)' /\ LockProtects(w)'
      BY <1>1, <2>1, <3>1 DEF WorkerOK, CallFits, CallShape, LockProtects, tables
    <3>3. /\ e.from = r.state /\ e.to = to /\ e.payment = payment
          /\ row'[w].state = to /\ policies' = policies /\ payments' = payments
          /\ call' = call /\ receipt' = receipt
      BY <2>1, <2>2, <3>1 DEF tables
    <3>4. WriteLegal(w)'
      BY <1>1, <1>6, <3>1, <3>3 DEF WorkerOK, WriteLegal
    <3> QED
      BY <3>2, <3>4 DEF WorkerOK
  <2> QED
    BY <1>1, <2>1, <2>4, <2>5, QuietStep DEF TypeOK
<1> QED
  BY <1>5, <1>6

LEMMA AcceptQuoteStep ==
    ASSUME IndInv, NEW w \in Workers, AcceptQuote(w)
    PROVE  IndInv'
<1>1. TypeOK /\ WorkerOK(w)
  BY DEF IndInv
<1>2. call[w].policy \in Policies /\ row[w] = policies[call[w].policy] /\ receipt[w] = Null
  BY <1>1, RequestFields
     DEF AcceptQuote, TypeOK, WorkerOK, CallFits, CallShape, LockProtects, WriteLegal
<1>3. row[w].state \in State \cup {Null} /\ "conflict" \in Codes /\ pc[w] = "work"
  BY <1>1, <1>2 DEF AcceptQuote, TypeOK, Policy, Codes
<1> QED
  BY <1>2, <1>3, RefuseStep, ApplyTransitionStep DEF AcceptQuote

LEMMA CheckPaymentStep ==
    ASSUME IndInv, NEW w \in Workers, CheckPayment(w)
    PROVE  IndInv'
<1>1. TypeOK /\ WorkerOK(w)
  BY DEF IndInv
<1>2. call[w].policy \in Policies /\ row[w] = policies[call[w].policy] /\ receipt[w] = Null
  BY <1>1, RequestFields
     DEF CheckPayment, TypeOK, WorkerOK, CallFits, CallShape, LockProtects, WriteLegal
<1>3. row[w].state \in State \cup {Null} /\ "conflict" \in Codes /\ pc[w] = "work"
  BY <1>1, <1>2 DEF CheckPayment, TypeOK, Policy, Codes
<1>4. CASE Refuse(w, "conflict", row[w].state)
  BY <1>3, <1>4, RefuseStep
<1>5. CASE Goto(w, "respond") /\ EndTransaction(w) /\ UNCHANGED <<clock, tables, call, reply>>
  <2>1. TypeOK'
    BY <1>1, <1>5, OthersKeepLocks DEF Goto, TypeOK, PCs, tables
  <2>2. WorkerOK(w)'
    BY <1>1, <1>3, <1>5, OthersKeepLocks
       DEF Goto, TypeOK, WorkerOK, CallFits, CallShape, LockProtects, WriteLegal, tables
  <2> QED
    BY <1>1, <1>5, <2>1, <2>2, EndingStep DEF Goto, TypeOK
<1>6. CASE /\ call[w].op = "pay" /\ row[w].state = "accepted" /\ Goto(w, "insert")
           /\ UNCHANGED <<clock, tables, rowLock, call, locals, reply>>
  <2>1. TypeOK'
    BY <1>1, <1>6 DEF Goto, TypeOK, PCs, tables, locals
  <2>2. WorkerOK(w)'
    BY <1>1, <1>2, <1>3, <1>6
       DEF Goto, TypeOK, WorkerOK, CallFits, CallShape, LockProtects, WriteLegal, tables, locals
  <2> QED
    BY <1>1, <1>6, <2>1, <2>2, QuietStep DEF Goto, TypeOK, locals
<1> QED
  BY <1>4, <1>5, <1>6 DEF CheckPayment

LEMMA InsertPaymentStep ==
    ASSUME IndInv, NEW w \in Workers, InsertPayment(w)
    PROVE  IndInv'
<1> DEFINE key == PassedKey(call[w])
           paid == [method |-> call[w].method, key |-> key]
<1>1. TypeOK /\ TablesOK /\ WorkerOK(w) /\ \A u \in Workers : KeyReserved(u)
  BY DEF IndInv
<1>2. /\ call[w] \in Requests /\ call[w].policy \in Policies /\ call[w].op = "pay"
      /\ call[w].method \in Methods /\ key \in Keys \cup {Null}
      /\ row[w] = policies[call[w].policy] /\ pc[w] = "insert"
  BY <1>1, RequestFields DEF InsertPayment, TypeOK, WorkerOK, CallFits, CallShape, LockProtects
<1>3. row[w].state \in State \cup {Null} /\ "server_error" \in Codes
  BY <1>1, <1>2 DEF TypeOK, Policy, Codes
<1>4. CASE Refuse(w, "server_error", row[w].state)
  BY <1>2, <1>3, <1>4, RefuseStep
<1>5. CASE /\ key # Null => ~KeyTaken(key) /\ ~KeyPending(w, key)
           /\ receipt' = [receipt EXCEPT ![w] = paid]
           /\ Goto(w, "activate")
           /\ UNCHANGED <<clock, tables, rowLock, call, row, entry, reply>>
  <2>1. paid \in Payment /\ paid # Null
    BY <1>2, NullIsNoValue DEF Payment
  <2>2. TypeOK'
    BY <1>1, <1>5, <2>1 DEF Goto, TypeOK, PCs, tables
  <2>3. TablesOK'
    BY <1>1, <1>5, TablesStay
  <2>4. WorkerOK(w)'
    BY <1>1, <1>2, <1>5, <2>1
       DEF Goto, TypeOK, WorkerOK, CallFits, CallShape, LockProtects, WriteLegal, tables
  <2>5. ASSUME NEW v \in Workers \ {w} PROVE WorkerOK(v)'
    BY <1>1, <1>5, OthersStay DEF Goto, TypeOK, tables
  <2>6. ASSUME NEW u \in Workers PROVE KeyReserved(u)'
    <3>1. \A k : KeyTaken(k)' <=> KeyTaken(k)
      BY <1>5 DEF KeyTaken, tables
    <3>2. CASE u = w
      BY <1>1, <1>5, <3>1, <3>2 DEF KeyReserved, KeyPending, TypeOK
    <3>3. CASE u # w
      BY <1>1, <1>5, <3>1, <3>3 DEF KeyReserved, KeyPending, TypeOK
    <3> QED
      BY <3>2, <3>3
  <2> QED
    BY <2>2, <2>3, <2>4, <2>5, <2>6 DEF IndInv
<1> QED
  BY <1>4, <1>5 DEF InsertPayment

LEMMA ActivateStep ==
    ASSUME IndInv, NEW w \in Workers, Activate(w)
    PROVE  IndInv'
<1>1. WorkerOK(w) /\ pc[w] = "activate"
  BY DEF IndInv, Activate
<1>2. call[w].op # "accept"
  BY <1>1 DEF WorkerOK, CallFits, CallShape
<1> QED
  BY <1>1, <1>2, ApplyTransitionStep DEF Activate

LEMMA CommitStep ==
    ASSUME IndInv, NEW w \in Workers, Commit(w)
    PROVE  IndInv'
<1> DEFINE p == call[w].policy
<1>1. TypeOK /\ TablesOK /\ WorkerOK(w) /\ \A u \in Workers : KeyReserved(u)
  BY DEF IndInv
<1>2. call[w] \in Requests /\ p \in Policies /\ pc[w] = "save"
  BY <1>1, RequestFields DEF Commit, TypeOK, WorkerOK, CallFits, CallShape
<1>3. /\ row[w] \in Policy /\ entry[w] \in Transition /\ receipt[w] \in Payment \cup {Null}
      /\ policies[p] \in Policy /\ transitions[p] \in Seq(Transition)
      /\ payments[p] \in Seq(Payment) /\ rowLock[p] = w
      /\ entry[w].from = policies[p].state /\ entry[w].to = row[w].state
      /\ entry[w].to \in {"accepted", "active"}
      /\ CanTransition(entry[w].from, entry[w].to)
      /\ entry[w].payment = IF receipt[w] = Null THEN Null ELSE Len(payments[p]) + 1
      /\ receipt[w] # Null => policies[p].state = "accepted" /\ entry[w].to = "active"
  BY <1>1, <1>2 DEF TypeOK, WorkerOK, LockProtects, WriteLegal
<1> DEFINE accepted == IF row[w].state = "accepted" THEN clock ELSE policies[p].acceptedAt
           activated == IF row[w].state = "active" THEN clock ELSE policies[p].activatedAt
           rr == [policies[p] EXCEPT !.state = row[w].state, !.acceptedAt = accepted,
                                     !.activatedAt = activated]
           tt == Append(transitions[p], entry[w])
           pp == IF receipt[w] = Null THEN payments[p] ELSE Append(payments[p], receipt[w])
<1>4. /\ policies' = [policies EXCEPT ![p] = rr]
      /\ transitions' = [transitions EXCEPT ![p] = tt]
      /\ payments' = [payments EXCEPT ![p] = pp]
      /\ pc' = [pc EXCEPT ![w] = "respond"]
      /\ EndTransaction(w) /\ UNCHANGED <<clock, call, reply>>
  BY <1>1 DEF Commit, Goto, TypeOK
<1>5. rr \in Policy /\ rr.state = entry[w].to /\ rr.state # Null
  <2>1. clock \in Stamp /\ {"accepted", "active"} \subseteq State
    BY <1>1 DEF TypeOK, Stamp, State
  <2>2. accepted \in Stamp /\ activated \in Stamp /\ row[w].state \in State
    BY <1>3, <2>1 DEF Policy
  <2> HIDE DEF accepted, activated
  <2>3. rr \in Policy /\ rr.state = row[w].state
    BY <1>3, <2>2 DEF Policy
  <2> QED
    BY <1>3, <2>2, <2>3, NullAssumption
<1>6. tt \in Seq(Transition) /\ pp \in Seq(Payment)
  BY <1>3, AppendProperties
<1>7. TypeOK'
  BY <1>1, <1>4, <1>5, <1>6, OthersKeepLocks DEF TypeOK, PCs
<1>8. TablesOK'
  <2>1. HistoryNarrative'
    <3>1. Chained(tt) /\ LastState(tt) = entry[w].to
      BY <1>1, <1>2, <1>3, ChainGrows DEF TablesOK, HistoryNarrative
    <3> QED
      BY <1>1, <1>2, <1>4, <1>5, <3>1 DEF TablesOK, HistoryNarrative, TypeOK
  <2>2. /\ policies[p].state \notin {"active", "cancelled"}
        /\ Len(payments[p]) = 0
    <3>1. policies[p].state \notin {"active", "cancelled"}
      BY <1>3 DEF CanTransition, TRANSITIONS
    <3>2. Len(payments[p]) \in Nat /\ ~(1 \in 1..Len(payments[p]))
      BY <1>1, <1>2, <1>3, <3>1, LenProperties DEF TablesOK, PaymentsBind
    <3> QED
      BY <3>1, <3>2
  <2>3. /\ receipt[w] = Null => pp = payments[p] /\ Len(pp) = 0
        /\ receipt[w] # Null => Len(pp) = 1 /\ pp[1] = receipt[w] /\ rr.state = "active"
    BY <1>3, <1>5, <2>2, AppendProperties
  <2>4. /\ \A j \in 1..Len(transitions[p]) : tt[j] = transitions[p][j]
        /\ Len(tt) = Len(transitions[p]) + 1 /\ tt[Len(tt)] = entry[w]
        /\ Len(transitions[p]) \in Nat
    BY <1>3, AppendProperties, LenProperties
  <2>5. PaymentsBind'
    <3>1. ASSUME NEW i \in 1..Len(pp)
          PROVE  /\ rr.state = "active"
                 /\ \E j \in 1..Len(tt) : tt[j].to = "active" /\ tt[j].payment = i
      <4>1. receipt[w] # Null /\ i = 1
        BY <2>3
      <4>2. tt[Len(tt)].to = "active" /\ tt[Len(tt)].payment = 1 /\ Len(tt) \in 1..Len(tt)
        BY <1>3, <2>2, <2>4, <4>1
      <4> QED
        BY <2>3, <4>1, <4>2
    <3>2. ASSUME NEW j \in 1..Len(tt)
          PROVE  tt[j].payment \in {Null} \cup 1..Len(pp)
      <4>1. CASE j = Len(tt)
        BY <1>3, <2>2, <2>3, <2>4, <4>1, SMTT(30)
      <4>2. CASE j \in 1..Len(transitions[p])
        BY <1>1, <1>2, <2>2, <2>4, <4>2 DEF TablesOK, PaymentsBind
      <4> QED
        BY <2>4, <4>1, <4>2
    <3>3. /\ policies'[p] = rr /\ transitions'[p] = tt /\ payments'[p] = pp
          /\ \A q \in Policies \ {p} : policies'[q] = policies[q]
               /\ transitions'[q] = transitions[q] /\ payments'[q] = payments[q]
      BY <1>1, <1>2, <1>4 DEF TypeOK
    <3> HIDE DEF rr, tt, pp, p
    <3> QED
      BY <1>1, <3>1, <3>2, <3>3, SMTT(30) DEF TablesOK, PaymentsBind
  <2>6. ChargedOnce'
    BY <1>1, <1>2, <1>4, <2>3 DEF TablesOK, ChargedOnce, TypeOK
  <2>7. KeysUnique'
    <3>1. receipt[w] # Null /\ receipt[w].key # Null => ~KeyTaken(receipt[w].key)
      BY <1>1 DEF KeyReserved
    <3>2. ASSUME NEW q \in Policies, NEW i \in 1..Len(payments'[q])
          PROVE  /\ q # p => payments'[q] = payments[q]
                 /\ q = p => i = 1 /\ receipt[w] # Null /\ payments'[q][i] = receipt[w]
      BY <1>1, <1>2, <1>4, <2>3 DEF TypeOK
    <3> QED
      BY <1>1, <3>1, <3>2, SMTT(30) DEF TablesOK, KeysUnique, KeyTaken
  <2> QED
    BY <2>1, <2>5, <2>6, <2>7 DEF TablesOK
<1>9. WorkerOK(w)'
  BY <1>1, <1>2, <1>4, <1>5, OthersKeepLocks
     DEF TypeOK, WorkerOK, CallFits, CallShape, LockProtects, WriteLegal
<1>10. ASSUME NEW v \in Workers \ {w} PROVE WorkerOK(v)'
  <2>1. \A q \in Policies : rowLock[q] = v => rowLock'[q] = v
    BY <1>1, <1>4, OthersKeepLocks
  <2>2. \A q \in Policies : \/ policies'[q] = policies[q] /\ payments'[q] = payments[q]
                            \/ rowLock[q] = w /\ policies'[q].state # Null
    BY <1>1, <1>2, <1>3, <1>4, <1>5 DEF TypeOK
  <2>3. /\ pc'[v] = pc[v] /\ call'[v] = call[v] /\ row'[v] = row[v]
        /\ entry'[v] = entry[v] /\ receipt'[v] = receipt[v]
    BY <1>1, <1>4, OthersKeepLocks DEF TypeOK
  <2> QED
    BY <2>1, <2>2, <2>3, OthersStay
<1>11. ASSUME NEW u \in Workers PROVE KeyReserved(u)'
  <2>1. CASE u = w
    BY <1>1, <1>4, <2>1, OthersKeepLocks DEF KeyReserved
  <2>2. CASE u # w
    <3> SUFFICES ASSUME receipt'[u] # Null, receipt'[u].key # Null
                 PROVE  ~KeyTaken(receipt[u].key)' /\ ~KeyPending(u, receipt[u].key)'
      BY DEF KeyReserved
    <3>1. receipt'[u] = receipt[u]
      BY <1>1, <1>4, <2>2, OthersKeepLocks
    <3> DEFINE k == receipt[u].key
    <3>2. ~KeyTaken(k) /\ ~KeyPending(u, k)
      BY <1>1, <3>1 DEF KeyReserved
    <3>3. ~KeyPending(u, k)'
      BY <1>1, <1>4, <3>2, OthersKeepLocks DEF KeyPending
    <3>4. receipt[w] # Null => receipt[w].key # k
      BY <2>2, <3>2 DEF KeyPending
    <3>5. ASSUME NEW q \in Policies, NEW i \in 1..Len(payments'[q])
          PROVE  payments'[q][i].key # k
      <4>1. CASE q # p \/ receipt[w] = Null
        BY <1>1, <1>2, <1>4, <3>2, <4>1 DEF KeyTaken, TypeOK
      <4>2. CASE q = p /\ receipt[w] # Null
        <5>1. payments'[q] = Append(payments[p], receipt[w])
          BY <1>1, <1>2, <1>4, <4>2 DEF TypeOK
        <5>2. /\ \A j \in 1..Len(payments[p]) : payments'[q][j] = payments[p][j]
              /\ Len(payments'[q]) = Len(payments[p]) + 1
              /\ payments'[q][Len(payments[p]) + 1] = receipt[w]
              /\ Len(payments[p]) \in Nat
          BY <1>3, <4>2, <5>1, AppendProperties, LenProperties
        <5>3. i = Len(payments[p]) + 1 \/ i \in 1..Len(payments[p])
          BY <5>2
        <5> QED
          BY <1>2, <3>2, <3>4, <4>2, <5>2, <5>3 DEF KeyTaken
      <4> QED
        BY <4>1, <4>2
    <3>6. ~KeyTaken(k)'
      BY <3>1, <3>5 DEF KeyTaken
    <3> QED
      BY <3>1, <3>3, <3>6
  <2> QED
    BY <2>1, <2>2
<1> QED
  BY <1>7, <1>8, <1>9, <1>10, <1>11 DEF IndInv

LEMMA CreateQuoteStep ==
    ASSUME IndInv, NEW w \in Workers, CreateQuote(w)
    PROVE  IndInv'
<1> DEFINE r == [Absent EXCEPT !.state = "quoted", !.expiresAt = clock + Validity]
           src == Source(call[w])
           new == [from |-> Null, to |-> "new", source |-> src, payment |-> Null]
           priced == [from |-> "new", to |-> "quoted", source |-> src, payment |-> Null]
           tt == << new, priced >>
<1>1. TypeOK /\ TablesOK /\ WorkerOK(w) /\ \A u \in Workers : KeyReserved(u)
  BY DEF IndInv
<1>2. PICK p \in Policies :
        /\ policies[p].state = Null
        /\ policies' = [policies EXCEPT ![p] = r]
        /\ transitions' = [transitions EXCEPT ![p] = tt]
  BY DEF CreateQuote
<1>3. /\ pc[w] = "called" /\ Answer(w, "ok", "quoted", << >>)
      /\ UNCHANGED <<clock, payments, rowLock, call, locals>>
  BY DEF CreateQuote
<1>4. r \in Policy /\ r.state = "quoted"
  <2>1. clock + Validity \in Stamp
    BY <1>1, ConstantsAssumption DEF TypeOK, Stamp, ConstantsAssumption
  <2> QED
    BY <2>1 DEF Absent, Policy, Stamp, State
<1>5. new \in Transition /\ priced \in Transition
  <2>1. call[w] \in Requests
    BY <1>1, <1>3 DEF TypeOK, WorkerOK, CallFits, CallShape
  <2> QED
    BY <2>1, RequestFields DEF Transition, State, Stamp
<1>6. /\ tt \in Seq(Transition) /\ Len(tt) = 2 /\ tt[1] = new /\ tt[2] = priced
      /\ tt # << >>
  <2> HIDE DEF new, priced
  <2> QED
    BY <1>5
<1>7. << >> \in Seq(Transition) /\ "ok" \in Codes /\ "quoted" \in State
  BY DEF Codes, State
<1>8. /\ reply' \in [Workers -> Reply \cup {Null}] /\ pc' \in [Workers -> PCs]
      /\ pc'[w] = "replied" /\ \A v \in Workers \ {w} : pc'[v] = pc[v]
  BY <1>1, <1>3, <1>7, AnswerStep
<1>9. TypeOK'
  BY <1>1, <1>2, <1>3, <1>4, <1>6, <1>8 DEF TypeOK, locals
<1>10. /\ policies'[p] = r /\ transitions'[p] = tt
       /\ \A q \in Policies \ {p} : policies'[q] = policies[q]
                                    /\ transitions'[q] = transitions[q]
  BY <1>1, <1>2 DEF TypeOK
<1>11. TablesOK'
  <2>1. Chained(tt) /\ LastState(tt) = "quoted"
    BY <1>6 DEF Chained, LastState, CanTransition, TRANSITIONS
  <2>2. HistoryNarrative'
    BY <1>1, <1>4, <1>10, <2>1 DEF TablesOK, HistoryNarrative
  <2>3. PaymentsBind'
    <3>1. \A i \in 1..Len(payments[p]) : FALSE
      BY <1>1, <1>2, NullAssumption DEF TablesOK, PaymentsBind, State
    <3>2. \A j \in 1..Len(tt) : tt[j].payment = Null
      BY <1>6
    <3> HIDE DEF r, tt
    <3>3. ASSUME NEW q \in Policies
          PROVE  /\ \A i \in 1..Len(payments[q]) :
                      /\ policies'[q].state \in {"active", "cancelled"}
                      /\ \E j \in 1..Len(transitions'[q]) :
                           transitions'[q][j].to = "active" /\ transitions'[q][j].payment = i
                 /\ \A j \in 1..Len(transitions'[q]) :
                      transitions'[q][j].payment \in {Null} \cup 1..Len(payments[q])
      <4>1. CASE q = p
        BY <1>10, <3>1, <3>2, <4>1
      <4>2. CASE q # p
        BY <1>1, <1>10, <4>2, SMTT(30) DEF TablesOK, PaymentsBind
      <4> QED
        BY <4>1, <4>2
    <3> QED
      BY <1>3, <3>3 DEF PaymentsBind
  <2>4. ChargedOnce' /\ KeysUnique'
    BY <1>1, <1>3 DEF TablesOK, ChargedOnce, KeysUnique
  <2> QED
    BY <2>2, <2>3, <2>4 DEF TablesOK
<1>12. WorkerOK(w)'
  BY <1>1, <1>3, <1>8 DEF WorkerOK, CallFits, CallShape, LockProtects, WriteLegal, locals
<1>13. ASSUME NEW v \in Workers \ {w} PROVE WorkerOK(v)'
  BY <1>2, <1>3, <1>8, <1>10, OthersStay DEF locals
<1>14. \A u \in Workers : KeyReserved(u)'
  BY <1>1, <1>3, KeysStay DEF locals
<1> QED
  BY <1>9, <1>11, <1>12, <1>13, <1>14 DEF IndInv

\* No operation of services or views breaks the agreement, one lemma for each.
THEOREM NextIndInv == IndInv /\ [Next]_vars => IndInv'
<1> SUFFICES ASSUME IndInv, [Next]_vars PROVE IndInv'
  OBVIOUS
<1>1. ASSUME NEW w \in Workers, Serve(w) PROVE IndInv'
  <2>1. CASE CreateQuote(w) BY <2>1, CreateQuoteStep
  <2>2. CASE RefuseQuote(w)
    BY <2>2, RefuseStep DEF RefuseQuote, Codes
  <2>3. CASE NoSuchPolicy(w)
    BY <2>3, RefuseStep DEF NoSuchPolicy, Codes
  <2>4. CASE BadMethod(w)
    BY <2>4, RefuseStep DEF BadMethod, Codes
  <2>5. CASE GetPolicy(w) BY <2>5, GetPolicyStep
  <2>6. CASE ReadHistory(w) BY <2>6, ReadHistoryStep
  <2>7. CASE LockRow(w) BY <2>7, LockRowStep
  <2>8. CASE AcceptQuote(w) BY <2>8, AcceptQuoteStep
  <2>9. CASE CheckPayment(w) BY <2>9, CheckPaymentStep
  <2>10. CASE InsertPayment(w) BY <2>10, InsertPaymentStep
  <2>11. CASE Activate(w) BY <2>11, ActivateStep
  <2>12. CASE Commit(w) BY <2>12, CommitStep
  <2>13. CASE Respond(w) BY <2>13, RespondStep
  <2> QED
    BY <1>1, <2>1, <2>2, <2>3, <2>4, <2>5, <2>6, <2>7, <2>8, <2>9, <2>10, <2>11,
       <2>12, <2>13 DEF Serve
<1>2. CASE UNCHANGED vars
  <2>1. TypeOK' /\ TablesOK'
    BY <1>2, TablesStay DEF IndInv, TypeOK, vars, tables
  <2>2. ASSUME NEW w \in Workers PROVE WorkerOK(w)' /\ KeyReserved(w)'
    BY <1>2 DEF IndInv, vars, WorkerOK, CallFits, CallShape, LockProtects, WriteLegal, KeyReserved,
                KeyTaken, KeyPending
  <2> QED
    BY <2>1, <2>2 DEF IndInv
<1> QED
  BY <1>1, <1>2, ReceiveStep, FinishStep, CrashStep, TickStep DEF Next

(* What select_for_update and transaction.atomic are for: a worker acts on  *)
(* what is committed, and the tables agree at every commit.                 *)
THEOREM IndInvHolds == Spec => []IndInv
BY InitIndInv, NextIndInv, PTL DEF Spec

\* Every variable keeps its type, for any number of policies, workers and keys.
THEOREM TypeCorrect == Spec => []TypeOK
<1>1. IndInv => TypeOK
  BY DEF IndInv
<1> QED
  BY <1>1, IndInvHolds, PTL

(* History never drifts from state, however many workers race for a policy  *)
(* and wherever they die.                                                   *)
THEOREM HistoryNeverDrifts == Spec => []HistoryNarrative
<1>1. IndInv => HistoryNarrative
  BY DEF IndInv, TablesOK
<1> QED
  BY <1>1, IndInvHolds, PTL

(* No policy is charged twice, and no payment is ever left without the      *)
(* activation that names it.                                                *)
THEOREM PaidOnceAndBound == Spec => [](ChargedOnce /\ PaymentsBind)
<1>1. IndInv => ChargedOnce /\ PaymentsBind
  BY DEF IndInv, TablesOK
<1> QED
  BY <1>1, IndInvHolds, PTL

\* No idempotency key is ever on two payments.
THEOREM KeysNeverShared == Spec => []KeysUnique
<1>1. IndInv => KeysUnique
  BY DEF IndInv, TablesOK
<1> QED
  BY <1>1, IndInvHolds, PTL

-----------------------------------------------------------------------------
(* Lapsed quotes. *)

\* A step of a call moves its worker only, and reaches the save of an acceptance
\* only with an instance that has not expired.
LEMMA SaveReached ==
    ASSUME IndInv, NEW w \in Workers, Serve(w)
    PROVE  /\ clock' = clock /\ call' = call
           /\ \A v \in Workers \ {w} : pc'[v] = pc[v]
           /\ pc'[w] = "save" /\ call[w].op = "accept" =>
                ~IsExpired(policies[call[w].policy])
<1>1. TypeOK /\ WorkerOK(w)
  BY DEF IndInv
<1>2. CASE CreateQuote(w)
  BY <1>1, <1>2 DEF CreateQuote, Answer, TypeOK
<1>3. CASE RefuseQuote(w) \/ NoSuchPolicy(w) \/ BadMethod(w)
  BY <1>1, <1>3 DEF RefuseQuote, NoSuchPolicy, BadMethod, Refuse, Answer, TypeOK
<1>4. CASE GetPolicy(w) \/ ReadHistory(w) \/ LockRow(w)
  BY <1>1, <1>4 DEF GetPolicy, ReadHistory, LockRow, Answer, Goto, TypeOK
<1>5. CASE AcceptQuote(w)
  <2>1. row[w] = policies[call[w].policy]
    BY <1>1, <1>5 DEF AcceptQuote, WorkerOK, LockProtects
  <2> QED
    BY <1>1, <1>5, <2>1 DEF AcceptQuote, ApplyTransition, Refuse, Answer, Goto, TypeOK
<1>6. CASE CheckPayment(w)
  BY <1>1, <1>6 DEF CheckPayment, Refuse, Answer, Goto, TypeOK
<1>7. CASE InsertPayment(w)
  BY <1>1, <1>7 DEF InsertPayment, Refuse, Answer, Goto, TypeOK
<1>8. CASE Activate(w)
  <2>1. call[w].op # "accept"
    BY <1>1, <1>8 DEF Activate, WorkerOK, CallFits, CallShape
  <2> QED
    BY <1>1, <1>8, <2>1 DEF Activate, ApplyTransition, Refuse, Answer, Goto, TypeOK
<1>9. CASE Commit(w)
  BY <1>1, <1>9 DEF Commit, Goto, TypeOK
<1>10. CASE Respond(w)
  BY <1>1, <1>10 DEF Respond, Answer, TypeOK
<1> QED
  BY <1>2, <1>3, <1>4, <1>5, <1>6, <1>7, <1>8, <1>9, <1>10 DEF Serve

\* A step of a call leaves the row of a lapsed quote alone, unless it was
\* accepting it before it lapsed.
LEMMA LapsedRowStays ==
    ASSUME IndInv, NEW w \in Workers, Serve(w),
           NEW p \in Policies, Lapsed(p), ~AcceptanceInFlight(p)
    PROVE  policies'[p] = policies[p]
<1>1. TypeOK /\ WorkerOK(w) /\ policies[p].state = "quoted"
  BY DEF IndInv, Lapsed
<1>2. "quoted" # Null
  BY NullAssumption DEF NullAssumption, State
<1>3. CASE CreateQuote(w)
  BY <1>1, <1>2, <1>3 DEF CreateQuote, TypeOK
<1>4. CASE Commit(w)
  <2>1. CASE call[w].policy = p
    <3>1. call[w].op # "accept"
      BY <1>4, <2>1 DEF AcceptanceInFlight, Commit
    <3>2. CanTransition("quoted", "active")
      BY <1>1, <1>4, <2>1, <3>1 DEF Commit, WorkerOK, WriteLegal
    <3> QED
      BY <3>2 DEF CanTransition, TRANSITIONS
  <2>2. CASE call[w].policy # p
    BY <1>1, <1>4, <2>2 DEF Commit, TypeOK
  <2> QED
    BY <2>1, <2>2
<1>5. CASE ~CreateQuote(w) /\ ~Commit(w)
  BY <1>5 DEF Serve, RefuseQuote, NoSuchPolicy, BadMethod, GetPolicy, ReadHistory,
              LockRow, AcceptQuote, ApplyTransition, CheckPayment, InsertPayment,
              Activate, Respond, Refuse, tables
<1> QED
  BY <1>3, <1>4, <1>5

LEMMA NextLapsed ==
    ASSUME IndInv, [Next]_vars, NEW p \in Policies, Lapsed(p), ~AcceptanceInFlight(p)
    PROVE  (Lapsed(p) /\ ~AcceptanceInFlight(p))'
<1>1. TypeOK /\ policies[p] \in Policy
  BY DEF IndInv, TypeOK
<1>2. ASSUME NEW w \in Workers, Serve(w) PROVE (Lapsed(p) /\ ~AcceptanceInFlight(p))'
  <2>1. policies'[p] = policies[p]
    BY <1>2, LapsedRowStays
  <2>2. Lapsed(p)'
    BY <1>2, <2>1, SaveReached DEF Lapsed, IsExpired
  <2>3. ~AcceptanceInFlight(p)'
    BY <1>2, SaveReached DEF AcceptanceInFlight, Lapsed
  <2> QED
    BY <2>2, <2>3
<1>3. ASSUME NEW w \in Workers, Receive(w) \/ Finish(w) \/ Crash(w)
      PROVE  (Lapsed(p) /\ ~AcceptanceInFlight(p))'
  <2>1. UNCHANGED <<clock, policies>>
    BY <1>3 DEF Receive, Finish, Crash, tables
  <2>2. /\ pc'[w] # "save"
        /\ \A v \in Workers \ {w} : pc'[v] = pc[v] /\ call'[v] = call[v]
    BY <1>1, <1>3 DEF Receive, Finish, Crash, Goto, TypeOK
  <2> QED
    BY <2>1, <2>2 DEF Lapsed, IsExpired, AcceptanceInFlight
<1>4. CASE Tick
  <2>1. clock \in Nat /\ clock' = clock + 1 /\ policies[p].expiresAt \in Stamp
    BY <1>1, <1>4, ConstantsAssumption DEF Tick, TypeOK, Policy, ConstantsAssumption
  <2>2. Lapsed(p)'
    BY <1>4, <2>1 DEF Lapsed, IsExpired, Tick, tables, Stamp
  <2>3. ~AcceptanceInFlight(p)'
    BY <1>4 DEF AcceptanceInFlight, Tick
  <2> QED
    BY <2>2, <2>3
<1>5. CASE UNCHANGED vars
  BY <1>5 DEF vars, Lapsed, IsExpired, AcceptanceInFlight
<1> QED
  BY <1>2, <1>3, <1>4, <1>5 DEF Next

(* A quote that lapsed with no acceptance past its expiry check stays a     *)
(* quote whatever is called, at any time and by any number of workers.      *)
THEOREM LapsedQuotesStay == Spec => LapsedStaysQuoted
<1>1. IndInv /\ [Next]_vars =>
        [\A p \in Policies : Lapsed(p) /\ ~AcceptanceInFlight(p)
            => (Lapsed(p) /\ ~AcceptanceInFlight(p))']_vars
  BY NextLapsed
<1> QED
  BY <1>1, IndInvHolds, PTL DEF Spec, LapsedStaysQuoted

-----------------------------------------------------------------------------
(* The services implement the book. *)

LEMMA InitBook == Init => Book!Init
BY DEF Init, Book!Init, Absent

LEMMA CreateQuoteBook ==
    ASSUME IndInv, NEW w \in Workers, CreateQuote(w)
    PROVE  Book!Next
<1>1. TypeOK /\ call[w] \in Requests
  BY DEF IndInv, TypeOK, WorkerOK, CallFits, CallShape, CreateQuote
<1>2. PICK src \in Sources : src = Source(call[w])
  BY <1>1, RequestFields
<1>3. PICK p \in Policies :
        /\ policies[p].state = Null
        /\ policies' = [policies EXCEPT ![p] =
              [Absent EXCEPT !.state = "quoted", !.expiresAt = clock + Validity]]
        /\ transitions' = [transitions EXCEPT ![p] =
              << [from |-> Null, to |-> "new", source |-> src, payment |-> Null],
                 [from |-> "new", to |-> "quoted", source |-> src, payment |-> Null] >>]
        /\ UNCHANGED payments
  BY <1>2 DEF CreateQuote
<1>4. [Absent EXCEPT !.state = "quoted", !.expiresAt = clock + Validity].state = "quoted"
  BY DEF Absent
<1>5. [q \in Policies |-> policies'[q].state]
        = [[q \in Policies |-> policies[q].state] EXCEPT ![p] = "quoted"]
  BY <1>1, <1>3, <1>4 DEF TypeOK
<1>6. Book!Quote(p, src)
  BY <1>3, <1>5 DEF Book!Quote, Book!Row
<1> QED
  BY <1>2, <1>6 DEF Book!Next

LEMMA CommitBook ==
    ASSUME IndInv, NEW w \in Workers, Commit(w)
    PROVE  Book!Next
<1> DEFINE before == [q \in Policies |-> policies[q].state]
<1>1. TypeOK /\ WorkerOK(w) /\ KeyReserved(w) /\ pc[w] = "save"
  BY DEF IndInv, Commit
<1>2. PICK p \in Policies : p = call[w].policy
  BY <1>1, RequestFields DEF TypeOK, WorkerOK, CallFits, CallShape
<1>3. /\ entry[w] \in Transition /\ receipt[w] \in Payment \cup {Null}
      /\ row[w] \in Policy /\ policies[p] \in Policy
      /\ entry[w].from = policies[p].state /\ entry[w].to = row[w].state
      /\ entry[w].to = IF call[w].op = "accept" THEN "accepted" ELSE "active"
      /\ CanTransition(entry[w].from, entry[w].to)
      /\ entry[w].payment = IF receipt[w] = Null THEN Null ELSE Len(payments[p]) + 1
      /\ receipt[w] # Null => call[w].op = "pay"
  BY <1>1, <1>2 DEF TypeOK, WorkerOK, WriteLegal
<1>4. PICK src \in Sources : src = entry[w].source
  BY <1>3 DEF Transition
<1>5. entry[w] = Book!Row(policies[p].state, entry[w].to, src, entry[w].payment)
  BY <1>3, <1>4 DEF Transition, Book!Row
<1>6. /\ transitions' = [transitions EXCEPT ![p] = Append(@, entry[w])]
      /\ payments' = [payments EXCEPT ![p] = IF receipt[w] = Null THEN @
                                             ELSE Append(@, receipt[w])]
  BY <1>2 DEF Commit
<1>7. [q \in Policies |-> policies'[q].state] = [before EXCEPT ![p] = entry[w].to]
  <2>1. policies'[p].state = entry[w].to
    BY <1>1, <1>2, <1>3 DEF Commit, TypeOK, Policy
  <2>2. \A q \in Policies \ {p} : policies'[q] = policies[q]
    BY <1>1, <1>2 DEF Commit, TypeOK
  <2> QED
    BY <1>2, <2>1, <2>2
<1>8. before[p] = policies[p].state
  BY <1>2
<1>9. ASSUME NEW to \in State, to = entry[w].to, NEW i \in Stamp, i = entry[w].payment
      PROVE  Book!Move(p, to, src, i)
  BY <1>5, <1>6, <1>7, <1>8, <1>9 DEF Book!Move
<1>10. /\ entry[w].to = "accepted" => policies[p].state = "quoted"
       /\ entry[w].to = "active" => policies[p].state = "accepted"
  BY <1>3 DEF CanTransition, TRANSITIONS
<1>11. CASE receipt[w] = Null
  <2>1. payments' = payments
    BY <1>1, <1>2, <1>6, <1>11 DEF TypeOK
  <2>2. CASE call[w].op = "accept"
    <3>1. entry[w].to = "accepted" /\ entry[w].payment = Null /\ before[p] = "quoted"
      BY <1>3, <1>8, <1>10, <1>11, <2>2
    <3>2. Book!Move(p, "accepted", src, Null)
      BY <1>9, <3>1 DEF State, Stamp
    <3>3. Book!Accept(p, src)
      BY <2>1, <3>1, <3>2 DEF Book!Accept
    <3> QED
      BY <1>2, <1>4, <3>3 DEF Book!Next
  <2>3. CASE call[w].op # "accept"
    <3>1. entry[w].to = "active" /\ entry[w].payment = Null /\ before[p] = "accepted"
      BY <1>3, <1>8, <1>10, <1>11, <2>3
    <3>2. Book!Move(p, "active", src, Null)
      BY <1>9, <3>1 DEF State, Stamp
    <3>3. Book!BindByHand(p, src)
      BY <2>1, <3>1, <3>2 DEF Book!BindByHand
    <3> QED
      BY <1>2, <1>4, <3>3 DEF Book!Next
  <2> QED
    BY <2>2, <2>3
<1>12. CASE receipt[w] # Null
  <2>1. PICK m \in Methods, k \in Keys \cup {Null} : receipt[w] = [method |-> m, key |-> k]
    BY <1>3, <1>12 DEF Payment
  <2>2. k # Null => ~Book!KeyUsed(k)
    BY <1>1, <1>12, <2>1 DEF KeyReserved, KeyTaken, Book!KeyUsed
  <2>3. /\ transitions' = [transitions EXCEPT ![p] =
              Append(@, Book!Row(before[p], "active", src, Len(payments[p]) + 1))]
        /\ [q \in Policies |-> policies'[q].state] = [before EXCEPT ![p] = "active"]
        /\ before[p] = "accepted"
    BY <1>3, <1>5, <1>6, <1>7, <1>8, <1>10, <1>12
  <2>4. payments' = [payments EXCEPT ![p] = Append(@, [method |-> m, key |-> k])]
    BY <1>6, <1>12, <2>1
  <2>5. Book!PayAndBind(p, m, k, src)
    BY <2>2, <2>3, <2>4 DEF Book!PayAndBind, Book!Move
  <2> QED
    BY <1>2, <1>4, <2>1, <2>5 DEF Book!Next
<1> QED
  BY <1>11, <1>12

\* Every step of the services is an operation of the book or invisible in it.
LEMMA NextBook == IndInv /\ [Next]_vars => [Book!Next]_(Book!bookVars)
<1> SUFFICES ASSUME IndInv, [Next]_vars PROVE Book!Next \/ UNCHANGED Book!bookVars
  OBVIOUS
<1>1. ASSUME UNCHANGED tables PROVE UNCHANGED Book!bookVars
  BY <1>1 DEF tables, Book!bookVars
<1>2. ASSUME NEW w \in Workers, Serve(w), ~CreateQuote(w), ~Commit(w)
      PROVE  UNCHANGED tables
  BY <1>2 DEF Serve, RefuseQuote, NoSuchPolicy, BadMethod, GetPolicy, ReadHistory,
              LockRow, AcceptQuote, ApplyTransition, CheckPayment, InsertPayment, Activate,
              Respond, Refuse
<1>3. ASSUME NEW w \in Workers, Receive(w) \/ Finish(w) \/ Crash(w) PROVE UNCHANGED tables
  BY <1>3 DEF Receive, Finish, Crash
<1>4. CASE Tick
  BY <1>1, <1>4 DEF Tick
<1>5. CASE UNCHANGED vars
  BY <1>1, <1>5 DEF vars, tables
<1> QED
  BY <1>1, <1>2, <1>3, <1>4, <1>5, CreateQuoteBook, CommitBook DEF Next

(* The services implement the abstract book: concurrent, interrupted calls  *)
(* on the tables amount to operations that happen at one instant each.      *)
THEOREM ServicesImplementBook == Spec => ImplementsBook
<1>1. Init => Book!Init
  BY InitBook
<1>2. IndInv /\ [Next]_vars => [Book!Next]_(Book!bookVars)
  BY NextBook
<1> QED
  BY <1>1, <1>2, IndInvHolds, PTL DEF Spec, ImplementsBook, Book!Spec
-----------------------------------------------------------------------------
(***************************************************************************)
(* What the services tell their callers, and the dates they put on a       *)
(* policy: ServiceInv, which adds both to IndInv, is inductive.            *)
(***************************************************************************)

(* What a step may do to the tables and to the other workers. *)

\* The tables only grow, and a policy moves only forward.
Grows(p) ==
    /\ policies[p].state # Null => policies'[p].state # Null
    /\ policies[p].state = "accepted" => policies'[p].state \in {"accepted", "active"}
    /\ policies[p].state = "active" => policies'[p].state = "active"
    /\ \A i \in 1..Len(transitions[p]) :
         i \in 1..Len(transitions'[p]) /\ transitions'[p][i] = transitions[p][i]
    /\ \A i \in 1..Len(payments[p]) :
         i \in 1..Len(payments'[p]) /\ payments'[p][i] = payments[p][i]

LEMMA UnchangedGrows ==
    ASSUME TypeOK, NEW p \in Policies, policies'[p] = policies[p],
           transitions'[p] = transitions[p], payments'[p] = payments[p]
    PROVE  Grows(p)
BY DEF Grows

LEMMA CreateQuoteGrows ==
    ASSUME IndInv, NEW w \in Workers, CreateQuote(w), NEW p \in Policies
    PROVE  Grows(p)
<1>1. TypeOK /\ TablesOK
  BY DEF IndInv
<1>2. PICK q \in Policies :
        /\ policies[q].state = Null
        /\ \A o \in Policies \ {q} :
             policies'[o] = policies[o] /\ transitions'[o] = transitions[o]
        /\ payments' = payments
  BY <1>1 DEF CreateQuote, TypeOK
<1>3. CASE p # q
  BY <1>1, <1>2, <1>3, UnchangedGrows
<1>4. CASE p = q
  <2>1. policies[p].state = Null /\ payments'[p] = payments[p]
    BY <1>2, <1>4
  <2>2. transitions[p] \in Seq(Transition) /\ Len(transitions[p]) \in Nat
    BY <1>1, LenProperties DEF TypeOK
  <2>3. ~(1 \in 1..Len(transitions[p]))
    <3>1. SUFFICES ASSUME Len(transitions[p]) # 0 PROVE FALSE
      BY <2>2
    <3>2. transitions[p][Len(transitions[p])] \in Transition /\ transitions[p] # << >>
      BY <2>2, <3>1, ElementOfSeq, EmptySeq
    <3>3. LastState(transitions[p]) \in State
      BY <3>2 DEF LastState, Transition
    <3> QED
      BY <1>1, <2>1, <3>3, NullAssumption DEF TablesOK, HistoryNarrative
  <2>4. "accepted" # Null /\ "active" # Null
    BY NullAssumption DEF State
  <2> QED
    BY <2>1, <2>2, <2>3, <2>4 DEF Grows
<1> QED
  BY <1>3, <1>4

LEMMA CommitGrows ==
    ASSUME IndInv, NEW w \in Workers, Commit(w), NEW p \in Policies
    PROVE  Grows(p)
<1>1. TypeOK /\ WorkerOK(w) /\ pc[w] = "save"
  BY DEF IndInv, Commit
<1>2. PICK q \in Policies : q = call[w].policy
  BY <1>1, RequestFields DEF TypeOK, WorkerOK, CallFits, CallShape
<1>3. CASE p # q
  <2>1. policies'[p] = policies[p] /\ transitions'[p] = transitions[p]
        /\ payments'[p] = payments[p]
    BY <1>1, <1>2, <1>3 DEF Commit, TypeOK
  <2> QED
    BY <1>1, <2>1, UnchangedGrows
<1>4. CASE p = q
  <2>1. /\ transitions[p] \in Seq(Transition) /\ payments[p] \in Seq(Payment)
        /\ entry[w] \in Transition /\ receipt[w] \in Payment \cup {Null}
        /\ row[w] \in Policy
        /\ entry[w].from = policies[p].state /\ row[w].state = entry[w].to
        /\ entry[w].to \in {"accepted", "active"}
        /\ CanTransition(entry[w].from, entry[w].to)
    BY <1>1, <1>2, <1>4 DEF TypeOK, WorkerOK, WriteLegal
  <2>2. /\ transitions'[p] = Append(transitions[p], entry[w])
        /\ payments'[p] = IF receipt[w] = Null THEN payments[p]
                          ELSE Append(payments[p], receipt[w])
        /\ policies'[p].state = row[w].state
    BY <1>1, <1>2, <1>4 DEF Commit, TypeOK, Policy
  <2>3. \A i \in 1..Len(transitions[p]) :
          i \in 1..Len(transitions'[p]) /\ transitions'[p][i] = transitions[p][i]
    BY <2>1, <2>2, AppendProperties, LenProperties
  <2>4. \A i \in 1..Len(payments[p]) :
          i \in 1..Len(payments'[p]) /\ payments'[p][i] = payments[p][i]
    BY <2>1, <2>2, AppendProperties, LenProperties
  <2>5. /\ policies[p].state = "accepted" => row[w].state = "active"
        /\ policies[p].state # "active"
        /\ row[w].state # Null
    BY <2>1, NullAssumption DEF CanTransition, TRANSITIONS, State
  <2> QED
    BY <2>2, <2>3, <2>4, <2>5 DEF Grows
<1> QED
  BY <1>3, <1>4

\* The steps that write no table.
LEMMA TablesWritten ==
    ASSUME [Next]_vars
    PROVE  \/ UNCHANGED tables
           \/ \E w \in Workers : CreateQuote(w) \/ Commit(w)
<1>1. ASSUME NEW w \in Workers, Serve(w), ~CreateQuote(w), ~Commit(w)
      PROVE  UNCHANGED tables
  BY <1>1 DEF Serve, RefuseQuote, NoSuchPolicy, BadMethod, GetPolicy, ReadHistory,
              LockRow, AcceptQuote, ApplyTransition, CheckPayment, InsertPayment, Activate,
              Respond, Refuse
<1>2. ASSUME NEW w \in Workers, Receive(w) \/ Finish(w) \/ Crash(w) PROVE UNCHANGED tables
  BY <1>2 DEF Receive, Finish, Crash
<1>3. CASE Tick
  BY <1>3 DEF Tick
<1>4. CASE UNCHANGED vars
  BY <1>4 DEF vars, tables
<1> QED
  BY <1>1, <1>2, <1>3, <1>4 DEF Next

LEMMA NextGrows ==
    ASSUME IndInv, [Next]_vars, NEW p \in Policies
    PROVE  Grows(p)
<1>1. CASE UNCHANGED tables
  BY <1>1, UnchangedGrows DEF tables, IndInv
<1> QED
  BY <1>1, TablesWritten, CreateQuoteGrows, CommitGrows

\* A worker that takes no step keeps what it holds, and its answer.
Still(v) ==
    /\ pc'[v] = pc[v] /\ call'[v] = call[v] /\ row'[v] = row[v]
    /\ entry'[v] = entry[v] /\ receipt'[v] = receipt[v] /\ reply'[v] = reply[v]

LEMMA OthersAreStill ==
    ASSUME TypeOK, NEW w \in Workers, Receive(w) \/ Serve(w) \/ Finish(w) \/ Crash(w),
           NEW v \in Workers \ {w}
    PROVE  Still(v)
<1>1. CASE Receive(w) \/ Finish(w)
  BY <1>1 DEF Receive, Finish, Goto, locals, Still, TypeOK
<1>2. CASE Crash(w)
  BY <1>2 DEF Crash, Goto, EndTransaction, Still, TypeOK
<1>3. CASE CreateQuote(w)
  BY <1>3 DEF CreateQuote, Answer, locals, Still, TypeOK
<1>4. CASE RefuseQuote(w) \/ NoSuchPolicy(w) \/ BadMethod(w)
  BY <1>4 DEF RefuseQuote, NoSuchPolicy, BadMethod, Refuse, Answer, EndTransaction, Still, TypeOK
<1>5. CASE GetPolicy(w) \/ ReadHistory(w) \/ LockRow(w)
  BY <1>5 DEF GetPolicy, ReadHistory, LockRow, Goto, Answer, EndTransaction, Still, TypeOK
<1>6. CASE AcceptQuote(w) \/ Activate(w)
  BY <1>6 DEF AcceptQuote, Activate, ApplyTransition, Refuse, Goto, Answer, EndTransaction,
              Still, TypeOK
<1>7. CASE CheckPayment(w) \/ InsertPayment(w)
  BY <1>7 DEF CheckPayment, InsertPayment, Refuse, Goto, Answer, EndTransaction, locals,
              Still, TypeOK
<1>8. CASE Commit(w) \/ Respond(w)
  BY <1>8 DEF Commit, Respond, Goto, Answer, EndTransaction, locals, Still, TypeOK
<1> QED
  BY <1>1, <1>2, <1>3, <1>4, <1>5, <1>6, <1>7, <1>8 DEF Serve
-----------------------------------------------------------------------------
(* The answers, worker by worker. *)

Truthful(w) == AnswerFits(w) /\ ReplyTruthful(w) /\ ServerErrorExplained(w)

\* What a worker has been told stays true while others work.
LEMMA StillTruthful ==
    ASSUME IndInv, [Next]_vars, NEW v \in Workers, Still(v), Truthful(v)
    PROVE  Truthful(v)'
<1> DEFINE p == call[v].policy
<1>1. TypeOK /\ CallFits(v)
  BY DEF IndInv, WorkerOK
<1>2. pc[v] # "idle" => call[v] \in Requests
  BY <1>1 DEF CallFits, CallShape, TypeOK
<1>3. CASE pc[v] = "idle"
  BY <1>3 DEF Still, Truthful, AnswerFits, ReplyTruthful, ServerErrorExplained, Won, Succeeded
<1>4. CASE pc[v] # "idle" /\ call[v].op = "create"
  BY <1>1, <1>3, <1>4
     DEF Still, CallFits, CallShape, Truthful, AnswerFits, ReplyTruthful, ServerErrorExplained, Won, Succeeded
<1>5. CASE pc[v] # "idle" /\ call[v].op # "create"
  <2>1. p \in Policies
    BY <1>2, <1>5, RequestFields
  <2>2. Grows(p) /\ \A q \in Policies : Grows(q)
    BY <2>1, NextGrows
  <2>3. \A st : HasRow(transitions[p], st) => HasRow(transitions'[p], st)
    BY <2>2 DEF Grows, HasRow
  <2>4. SameRequest(v) => SameRequest(v)'
    BY <2>2 DEF Grows, SameRequest, Still
  <2>5. AnswerFits(v)'
    BY <2>2, <2>3, <2>4 DEF Grows, Still, Truthful, AnswerFits, Won, Succeeded
  <2>6. ReplyTruthful(v)'
    BY <2>2 DEF Grows, Still, Truthful, ReplyTruthful, Succeeded
  <2>7. ServerErrorExplained(v)'
    BY <2>2 DEF Grows, Still, Truthful, ServerErrorExplained
  <2> QED
    BY <2>5, <2>6, <2>7 DEF Truthful
<1> QED
  BY <1>3, <1>4, <1>5

\* A refusal claims nothing, unless it is a server error.
LEMMA RefuseTruthful ==
    ASSUME TypeOK, NEW w \in Workers, NEW code \in Codes \ {"ok"},
           NEW st \in State \cup {Null}, Refuse(w, code, st),
           code = "server_error" /\ call[w].op = "pay" =>
               \E q \in Policies \ {call[w].policy} : \E i \in 1..Len(payments[q]) :
                   payments[q][i].key = PassedKey(call[w])
    PROVE  Truthful(w)'
<1>1. /\ pc'[w] = "replied" /\ reply'[w].code = code
      /\ call' = call /\ payments' = payments
  BY DEF Refuse, Answer, tables, TypeOK
<1>2. ~Succeeded(w)' /\ ~Won(w)'
  BY <1>1 DEF Won, Succeeded
<1> QED
  BY <1>1, <1>2 DEF Truthful, AnswerFits, ReplyTruthful, ServerErrorExplained

LEMMA AcceptQuoteTruthful ==
    ASSUME ServiceInv, NEW w \in Workers, AcceptQuote(w)
    PROVE  Truthful(w)'
<1>1. TypeOK /\ WorkerOK(w) /\ Truthful(w) /\ pc[w] = "work" /\ call[w].op = "accept"
  BY DEF ServiceInv, IndInv, Truthful, RepliesTruthful, ServerErrorOnlyAcrossPolicies, AcceptQuote
<1>2. row[w] \in Policy /\ row[w].state \in State \cup {Null}
  BY <1>1, RequestFields DEF TypeOK, WorkerOK, CallFits, CallShape, LockProtects, Policy
<1>3. CASE Refuse(w, "conflict", row[w].state)
  BY <1>1, <1>2, <1>3, RefuseTruthful DEF Codes
<1>4. CASE /\ pc' = [pc EXCEPT ![w] = "save"]
           /\ entry' = [entry EXCEPT ![w] = [from |-> row[w].state, to |-> "accepted",
                             source |-> Source(call[w]), payment |-> Null]]
           /\ UNCHANGED <<tables, call, receipt, reply>>
  <2>1. pc'[w] = "save" /\ entry'[w].source = Source(call[w]) /\ reply'[w] = Null
        /\ call' = call
    BY <1>1, <1>4 DEF TypeOK, Truthful, AnswerFits
  <2> QED
    BY <1>1, <2>1 DEF Truthful, AnswerFits, ReplyTruthful, ServerErrorExplained, Won, Succeeded
<1> QED
  BY <1>3, <1>4 DEF AcceptQuote, ApplyTransition, Goto

LEMMA ActivateTruthful ==
    ASSUME ServiceInv, NEW w \in Workers, Activate(w)
    PROVE  Truthful(w)'
<1> DEFINE p == call[w].policy
           payment == IF receipt[w] = Null THEN Null ELSE Len(payments[p]) + 1
<1>1. TypeOK /\ WorkerOK(w) /\ Truthful(w) /\ pc[w] = "activate"
  BY DEF ServiceInv, IndInv, Truthful, RepliesTruthful, ServerErrorOnlyAcrossPolicies, Activate
<1>2. policies[p] \in Policy /\ policies[p].state \in State \cup {Null}
  BY <1>1, RequestFields DEF TypeOK, WorkerOK, CallFits, CallShape, LockProtects, Policy
<1>3. CASE Refuse(w, "conflict", policies[p].state)
  BY <1>1, <1>2, <1>3, RefuseTruthful DEF Codes
<1>4. CASE /\ pc' = [pc EXCEPT ![w] = "save"]
           /\ entry' = [entry EXCEPT ![w] = [from |-> policies[p].state, to |-> "active",
                             source |-> Source(call[w]), payment |-> payment]]
           /\ UNCHANGED <<tables, call, receipt, reply>>
  <2>1. pc'[w] = "save" /\ entry'[w].source = Source(call[w]) /\ reply'[w] = Null
        /\ call' = call /\ receipt' = receipt
        /\ (call[w].op = "pay" =>
              receipt[w] = [method |-> call[w].method, key |-> PassedKey(call[w])])
    BY <1>1, <1>4 DEF TypeOK, Truthful, AnswerFits
  <2> QED
    BY <1>1, <2>1 DEF Truthful, AnswerFits, ReplyTruthful, ServerErrorExplained, Won, Succeeded
<1> QED
  BY <1>3, <1>4 DEF Activate, ApplyTransition, Goto

\* Steps that neither answer nor reach the places AnswerFits speaks of.
LEMMA PlainStepTruthful ==
    ASSUME NEW w \in Workers, reply'[w] = Null,
           pc'[w] \in {"idle", "called", "lock", "work", "insert"}
    PROVE  Truthful(w)'
BY DEF Truthful, AnswerFits, ReplyTruthful, ServerErrorExplained, Won, Succeeded

LEMMA PlainStepsTruthful ==
    ASSUME ServiceInv, NEW w \in Workers,
           Receive(w) \/ Finish(w) \/ Crash(w) \/ CreateQuote(w) \/ RefuseQuote(w)
           \/ NoSuchPolicy(w) \/ BadMethod(w)
    PROVE  Truthful(w)'
<1>1. TypeOK /\ Truthful(w)
  BY DEF ServiceInv, IndInv, Truthful, RepliesTruthful, ServerErrorOnlyAcrossPolicies
<1>2. CASE Receive(w) \/ Finish(w) \/ Crash(w)
  <2>1. reply'[w] = Null /\ pc'[w] \in {"idle", "called"}
    BY <1>1, <1>2 DEF Receive, Finish, Crash, Goto, TypeOK, Truthful, AnswerFits
  <2> QED
    BY <2>1, PlainStepTruthful
<1>3. CASE CreateQuote(w)
  <2>1. /\ pc'[w] = "replied" /\ reply'[w].code = "ok"
        /\ call'[w].op = "create" /\ call' = call
    BY <1>1, <1>3 DEF CreateQuote, Answer, TypeOK
  <2> QED
    BY <2>1 DEF Truthful, AnswerFits, ReplyTruthful, ServerErrorExplained, Won, Succeeded
<1>4. CASE RefuseQuote(w)
  BY <1>1, <1>4, RefuseTruthful DEF RefuseQuote, Codes
<1>5. CASE NoSuchPolicy(w) \/ BadMethod(w)
  BY <1>1, <1>5, RefuseTruthful DEF NoSuchPolicy, BadMethod, Codes
<1> QED
  BY <1>2, <1>3, <1>4, <1>5

LEMMA ReadStepsTruthful ==
    ASSUME ServiceInv, NEW w \in Workers, GetPolicy(w) \/ ReadHistory(w) \/ LockRow(w)
    PROVE  Truthful(w)'
<1> DEFINE p == call[w].policy
<1>1. /\ TypeOK /\ TablesOK /\ WorkerOK(w) /\ Truthful(w)
      /\ pc[w] \in {"called", "read", "lock"}
  BY DEF ServiceInv, IndInv, Truthful, RepliesTruthful, ServerErrorOnlyAcrossPolicies,
         GetPolicy, ReadHistory, LockRow
<1>2. reply[w] = Null
  BY <1>1 DEF Truthful, AnswerFits
<1>3. CASE LockRow(w)
  <2>1. /\ reply' = reply /\ call' = call
        /\ pc'[w] = IF call[w].op = "bind" THEN "activate" ELSE "work"
    BY <1>1, <1>3 DEF LockRow, Goto, TypeOK
  <2> QED
    BY <1>2, <2>1 DEF Truthful, AnswerFits, ReplyTruthful, ServerErrorExplained, Won, Succeeded
<1>4. CASE GetPolicy(w)
  <2>1. CASE pc' = [pc EXCEPT ![w] = "lock"]
    BY <1>1, <1>2, <1>4, <2>1, PlainStepTruthful DEF GetPolicy, TypeOK
  <2>2. CASE /\ row' = [row EXCEPT ![w] = policies[p]] /\ pc' = [pc EXCEPT ![w] = "read"]
    <3>1. /\ p \in Policies /\ policies[p].state # Null /\ pc'[w] = "read"
          /\ row'[w] = policies[p] /\ reply'[w] = Null /\ call' = call
          /\ policies' = policies /\ transitions' = transitions
      BY <1>1, <1>2, <1>4, <2>2, RequestFields
         DEF GetPolicy, TypeOK, tables, WorkerOK, CallFits, CallShape
    <3>2. HasRow(transitions[p], policies[p].state)
      <4>1. transitions[p] # << >> /\ transitions[p] \in Seq(Transition)
        BY <1>1, <3>1 DEF TablesOK, HistoryNarrative, LastState, TypeOK
      <4>2. Len(transitions[p]) \in 1..Len(transitions[p])
        BY <4>1, EmptySeq, LenProperties
      <4> QED
        BY <1>1, <3>1, <4>1, <4>2 DEF TablesOK, HistoryNarrative, LastState, HasRow
    <3> QED
      BY <3>1, <3>2 DEF Truthful, AnswerFits, ReplyTruthful, ServerErrorExplained, Won, Succeeded
  <2> QED
    BY <1>4, <2>1, <2>2 DEF GetPolicy, Goto
<1>5. CASE ReadHistory(w)
  <2>1. HasRow(transitions[p], row[w].state) /\ call[w].op = "history"
    BY <1>1, <1>5 DEF ReadHistory, Truthful, AnswerFits, WorkerOK, CallFits, CallShape
  <2>2. /\ pc'[w] = "replied" /\ call' = call
        /\ reply'[w] = [code |-> "ok", state |-> row[w].state, trail |-> transitions[p]]
    BY <1>1, <1>5 DEF ReadHistory, Answer, TypeOK
  <2> QED
    BY <2>1, <2>2
       DEF Truthful, AnswerFits, ReplyTruthful, ServerErrorExplained, Won, Succeeded, HasRow
<1> QED
  BY <1>3, <1>4, <1>5

\* A policy that has a payment is active.
LEMMA PaidIsActive ==
    ASSUME TypeOK, TablesOK, StampsInv, NEW p \in Policies, NEW i \in 1..Len(payments[p])
    PROVE  policies[p].state = "active"
<1>1. policies[p].state \in {"active", "cancelled"}
  BY DEF TablesOK, PaymentsBind
<1> QED
  BY <1>1, NullAssumption DEF StampsInv, State

LEMMA PayStepsTruthful ==
    ASSUME ServiceInv, NEW w \in Workers, CheckPayment(w) \/ InsertPayment(w)
    PROVE  Truthful(w)'
<1> DEFINE p == call[w].policy
           key == PassedKey(call[w])
           paid == [method |-> call[w].method, key |-> key]
<1>1. /\ TypeOK /\ TablesOK /\ StampsInv /\ WorkerOK(w) /\ Truthful(w)
      /\ pc[w] \in {"work", "insert"} /\ call[w].op = "pay"
  BY DEF ServiceInv, IndInv, Truthful, RepliesTruthful, ServerErrorOnlyAcrossPolicies,
         CheckPayment, InsertPayment, WorkerOK, CallFits, CallShape
<1>2. /\ reply[w] = Null /\ p \in Policies /\ row[w] \in Policy
      /\ row[w].state \in State \cup {Null}
  BY <1>1, RequestFields
     DEF Truthful, AnswerFits, TypeOK, WorkerOK, CallFits, CallShape, LockProtects, Policy
<1>3. CASE CheckPayment(w)
  <2>1. CASE Refuse(w, "conflict", row[w].state)
    BY <1>1, <1>2, <2>1, RefuseTruthful DEF Codes
  <2>2. CASE Goto(w, "insert") /\ UNCHANGED reply
    BY <1>1, <1>2, <2>2, PlainStepTruthful DEF Goto, TypeOK
  <2>3. CASE /\ SameRequest(w) /\ Goto(w, "respond")
             /\ UNCHANGED <<tables, call, reply>>
    <3>1. policies[p].state = "active"
      BY <1>1, <1>2, <2>3, PaidIsActive DEF SameRequest
    <3>2. SameRequest(w)'
      BY <2>3 DEF SameRequest, tables
    <3>3. pc'[w] = "respond" /\ reply'[w] = Null /\ call' = call /\ policies' = policies
      BY <1>1, <1>2, <2>3 DEF Goto, TypeOK, tables
    <3> QED
      BY <1>1, <3>1, <3>2, <3>3
         DEF Truthful, AnswerFits, ReplyTruthful, ServerErrorExplained, Won, Succeeded
  <2> QED
    BY <1>3, <2>1, <2>2, <2>3 DEF CheckPayment
<1>4. CASE InsertPayment(w)
  <2>1. CASE key # Null /\ KeyTaken(key) /\ Refuse(w, "server_error", row[w].state)
    <3>1. PICK q \in Policies : \E i \in 1..Len(payments[q]) : payments[q][i].key = key
      BY <2>1 DEF KeyTaken
    <3>2. policies[q].state = "active"
      BY <1>1, <3>1, PaidIsActive
    <3>3. q # p
      BY <1>1, <1>4, <3>2 DEF InsertPayment, WorkerOK, WriteLegal
    <3> QED
      BY <1>1, <1>2, <2>1, <3>1, <3>3, RefuseTruthful DEF Codes
  <2>2. CASE /\ receipt' = [receipt EXCEPT ![w] = paid] /\ Goto(w, "activate")
             /\ UNCHANGED <<call, reply>>
    <3>1. pc'[w] = "activate" /\ reply'[w] = Null /\ call' = call /\ receipt'[w] = paid
      BY <1>1, <1>2, <2>2 DEF Goto, TypeOK
    <3> QED
      BY <3>1 DEF Truthful, AnswerFits, ReplyTruthful, ServerErrorExplained, Won, Succeeded
  <2> QED
    BY <1>4, <2>1, <2>2 DEF InsertPayment
<1> QED
  BY <1>3, <1>4

LEMMA CommitTruthful ==
    ASSUME ServiceInv, NEW w \in Workers, Commit(w)
    PROVE  Truthful(w)'
<1> DEFINE p == call[w].policy
<1>1. TypeOK /\ WorkerOK(w) /\ Truthful(w) /\ pc[w] = "save"
  BY DEF ServiceInv, IndInv, Truthful, RepliesTruthful, ServerErrorOnlyAcrossPolicies, Commit
<1>2. /\ p \in Policies /\ reply[w] = Null /\ call[w].op \in {"accept", "bind", "pay"}
      /\ entry[w] \in Transition /\ row[w] \in Policy /\ policies[p] \in Policy
      /\ entry[w].to = row[w].state
      /\ entry[w].to = IF call[w].op = "accept" THEN "accepted" ELSE "active"
      /\ transitions[p] \in Seq(Transition) /\ payments[p] \in Seq(Payment)
  BY <1>1, RequestFields DEF TypeOK, Truthful, AnswerFits, WorkerOK, CallFits, CallShape, WriteLegal
<1>3. /\ pc'[w] = "respond" /\ reply'[w] = Null /\ call' = call
      /\ policies'[p].state = row[w].state
      /\ transitions'[p] = Append(transitions[p], entry[w])
      /\ payments'[p] = IF receipt[w] = Null THEN payments[p]
                        ELSE Append(payments[p], receipt[w])
  BY <1>1, <1>2 DEF Commit, Goto, TypeOK, Policy
<1>4. HasRow(transitions'[p], entry[w].to)
  <2>1. /\ Len(transitions'[p]) \in 1..Len(transitions'[p])
        /\ transitions'[p][Len(transitions'[p])] = entry[w]
    BY <1>2, <1>3, AppendProperties, LenProperties
  <2> QED
    BY <2>1 DEF HasRow
<1>5. CASE call[w].op = "pay"
  <2>1. receipt[w] = [method |-> call[w].method, key |-> PassedKey(call[w])]
    BY <1>1, <1>5 DEF Truthful, AnswerFits
  <2>2. receipt[w] \in Payment /\ receipt[w] # Null
    <3>1. call[w].method \in Methods /\ PassedKey(call[w]) \in Keys \cup {Null}
      BY <1>1, <1>5, RequestFields DEF TypeOK, WorkerOK, CallFits, CallShape
    <3> QED
      BY <2>1, <3>1, NullIsNoValue DEF Payment
  <2>3. payments'[p][Len(payments'[p])] = receipt[w] /\ Len(payments'[p]) \in 1..Len(payments'[p])
    BY <1>2, <1>3, <2>2, AppendProperties, LenProperties, SMTT(30)
  <2>4. SameRequest(w)'
    BY <1>3, <2>1, <2>3 DEF SameRequest
  <2> QED
    BY <1>2, <1>3, <1>5, <2>4
       DEF Truthful, AnswerFits, ReplyTruthful, ServerErrorExplained, Won, Succeeded
<1>6. CASE call[w].op # "pay"
  BY <1>2, <1>3, <1>4, <1>6
     DEF Truthful, AnswerFits, ReplyTruthful, ServerErrorExplained, Won, Succeeded
<1> QED
  BY <1>5, <1>6

LEMMA RespondTruthful ==
    ASSUME ServiceInv, NEW w \in Workers, Respond(w)
    PROVE  Truthful(w)'
<1> DEFINE p == call[w].policy
<1>1. /\ TypeOK /\ WorkerOK(w) /\ Truthful(w) /\ Won(w)
      /\ call[w].op \in {"accept", "bind", "pay"}
  BY DEF ServiceInv, IndInv, Truthful, RepliesTruthful, ServerErrorOnlyAcrossPolicies,
         Respond, WorkerOK, CallFits, CallShape, Won
<1>2. /\ pc'[w] = "replied" /\ UNCHANGED <<tables, call>>
      /\ reply'[w].code = "ok"
      /\ call[w].op = "pay" => reply'[w].state = policies[p].state
  BY <1>1 DEF Respond, Answer, TypeOK
<1>3. SameRequest(w) => SameRequest(w)'
  BY <1>2 DEF SameRequest, tables
<1>4. AnswerFits(w)'
  BY <1>1, <1>2, <1>3 DEF Truthful, AnswerFits, tables, Won
<1>5. ReplyTruthful(w)'
  BY <1>1, <1>2 DEF Truthful, AnswerFits, ReplyTruthful, SameRequest, HasRow, tables
<1>6. ServerErrorExplained(w)'
  BY <1>2 DEF ServerErrorExplained
<1> QED
  BY <1>4, <1>5, <1>6 DEF Truthful

LEMMA NextTruthful ==
    ASSUME ServiceInv, [Next]_vars, NEW v \in Workers
    PROVE  Truthful(v)'
<1>1. IndInv /\ TypeOK /\ Truthful(v)
  BY DEF ServiceInv, IndInv, Truthful, RepliesTruthful, ServerErrorOnlyAcrossPolicies
<1>2. ASSUME NEW w \in Workers, Receive(w) \/ Serve(w) \/ Finish(w) \/ Crash(w)
      PROVE  Truthful(v)'
  <2>1. CASE v = w
    BY <1>2, <2>1, PlainStepsTruthful, ReadStepsTruthful, AcceptQuoteTruthful,
       ActivateTruthful, PayStepsTruthful, CommitTruthful, RespondTruthful DEF Serve
  <2>2. CASE v # w
    BY <1>1, <1>2, <2>2, OthersAreStill, StillTruthful
  <2> QED
    BY <2>1, <2>2
<1>3. CASE Tick \/ UNCHANGED vars
  BY <1>1, <1>3, StillTruthful DEF Tick, vars, locals, Still
<1> QED
  BY <1>2, <1>3 DEF Next
-----------------------------------------------------------------------------
(* The dates, the rivals, and what follows. *)

\* A date that is not past now is not past later.
LEMMA StampsStay ==
    ASSUME TypeOK, StampsInv, policies' = policies, clock' \in Nat, clock <= clock'
    PROVE  StampsInv'
<1>1. clock \in Nat
  BY ConstantsAssumption DEF TypeOK, ConstantsAssumption
<1>2. Validity \in Nat
  BY ConstantsAssumption DEF ConstantsAssumption
<1>3. ASSUME NEW p \in Policies
      PROVE  /\ policies[p].acceptedAt \in Nat \cup {Null}
             /\ policies[p].expiresAt \in Nat \cup {Null}
  BY DEF TypeOK, Policy, Stamp
<1> QED
  BY <1>1, <1>2, <1>3, NullIsNoValue DEF StampsInv, StampsMatchState

LEMMA CreateQuoteStamps ==
    ASSUME TypeOK, StampsInv, NEW w \in Workers, CreateQuote(w)
    PROVE  StampsInv'
<1> DEFINE r == [Absent EXCEPT !.state = "quoted", !.expiresAt = clock + Validity]
<1>1. PICK q \in Policies : policies' = [policies EXCEPT ![q] = r]
  BY DEF CreateQuote
<1>2. clock \in Nat /\ Validity \in Nat /\ clock' = clock
  BY ConstantsAssumption DEF TypeOK, ConstantsAssumption, CreateQuote
<1>3. /\ r.state = "quoted" /\ r.expiresAt = clock + Validity
      /\ r.acceptedAt = Null /\ r.activatedAt = Null
  BY DEF Absent
<1>4. /\ policies'[q] = r
      /\ \A p \in Policies \ {q} : policies'[p] = policies[p]
  BY <1>1 DEF TypeOK
<1> HIDE DEF r
<1>5. r.expiresAt \in Nat /\ r.expiresAt - Validity <= clock
  BY <1>2, <1>3
<1> QED
  BY <1>2, <1>3, <1>4, <1>5 DEF StampsInv, StampsMatchState

LEMMA CommitStamps ==
    ASSUME IndInv, StampsInv, NEW w \in Workers, Commit(w)
    PROVE  StampsInv'
<1> DEFINE p == call[w].policy
           old == policies[p]
           new == policies'[p]
<1>1. TypeOK /\ WorkerOK(w) /\ pc[w] = "save"
  BY DEF IndInv, Commit
<1>2. /\ p \in Policies /\ old \in Policy /\ row[w] \in Policy
      /\ entry[w].to = row[w].state
      /\ entry[w].from = old.state
      /\ entry[w].to \in {"accepted", "active"}
      /\ CanTransition(entry[w].from, entry[w].to)
  BY <1>1, RequestFields DEF TypeOK, WorkerOK, CallFits, CallShape, WriteLegal
<1>3. \/ old.state = "quoted" /\ row[w].state = "accepted"
      \/ old.state = "accepted" /\ row[w].state = "active"
  BY <1>2, SMTT(30) DEF CanTransition, TRANSITIONS
<1>4. /\ new.state = row[w].state /\ new.expiresAt = old.expiresAt
      /\ new.acceptedAt = IF row[w].state = "accepted" THEN clock ELSE old.acceptedAt
      /\ new.activatedAt = IF row[w].state = "active" THEN clock ELSE old.activatedAt
      /\ \A q \in Policies \ {p} : policies'[q] = policies[q]
      /\ clock' = clock
  BY <1>1, <1>2 DEF Commit, TypeOK, Policy
<1>5. clock \in Nat /\ Validity \in Nat /\ clock # Null /\ Null \notin Nat
  BY <1>1, ConstantsAssumption, NullIsNoValue DEF TypeOK, ConstantsAssumption, NullIsNoValue
<1>6. /\ old.acceptedAt # Null <=> old.state \in {"accepted", "active", "cancelled"}
      /\ old.activatedAt # Null <=> old.state \in {"active", "cancelled"}
      /\ old.acceptedAt # Null => old.expiresAt - Validity <= old.acceptedAt
      /\ old.state # Null => old.expiresAt \in Nat /\ old.expiresAt - Validity <= clock
      /\ old.acceptedAt # Null => old.acceptedAt <= clock
      /\ old.state # Null
  BY <1>2, <1>3, NullAssumption DEF StampsInv, StampsMatchState, State
<1>7. /\ new.acceptedAt # Null <=> new.state \in {"accepted", "active", "cancelled"}
      /\ new.activatedAt # Null <=> new.state \in {"active", "cancelled"}
      /\ new.acceptedAt # Null => new.expiresAt - Validity <= new.acceptedAt
      /\ new.activatedAt # Null => new.acceptedAt <= new.activatedAt
      /\ new.state \in {Null, "quoted", "accepted", "active"}
      /\ new.expiresAt \in Nat /\ new.expiresAt - Validity <= clock
      /\ new.acceptedAt # Null => new.acceptedAt <= clock
  <2> HIDE DEF old, new
  <2>1. CASE old.state = "quoted" /\ row[w].state = "accepted"
    BY <1>4, <1>5, <1>6, <2>1
  <2>2. CASE old.state = "accepted" /\ row[w].state = "active"
    BY <1>4, <1>5, <1>6, <2>2
  <2> QED
    BY <1>3, <2>1, <2>2
<1>8. ASSUME NEW q \in Policies \ {p} PROVE policies'[q] = policies[q]
  BY <1>4
<1> HIDE DEF p
<1> QED
  BY <1>2, <1>4, <1>7, <1>8 DEF StampsInv, StampsMatchState

LEMMA NextStamps ==
    ASSUME IndInv, StampsInv, [Next]_vars
    PROVE  StampsInv'
<1>1. TypeOK /\ TypeOK'
  BY NextIndInv DEF IndInv
<1>2. clock \in Nat /\ clock' \in Nat
  BY <1>1, ConstantsAssumption DEF TypeOK, ConstantsAssumption
<1>3. clock' = clock \/ Tick
  BY IndInv, SaveReached DEF Next, Receive, Finish, Crash, vars
<1>4. CASE UNCHANGED tables
  BY <1>1, <1>2, <1>3, <1>4, StampsStay DEF tables, Tick
<1> QED
  BY <1>1, <1>4, TablesWritten, CreateQuoteStamps, CommitStamps

\* Whoever wins has just committed, or had won before.
LEMMA Winning ==
    ASSUME IndInv, NEW w \in Workers, Receive(w) \/ Serve(w) \/ Finish(w) \/ Crash(w),
           Won(w)', call'[w].op = "accept" \/ Binds(w)'
    PROVE  call' = call /\ (Won(w) \/ Commit(w))
<1>1. TypeOK /\ WorkerOK(w)
  BY DEF IndInv
<1>2. CASE Receive(w) \/ Finish(w) \/ Crash(w)
  BY <1>1, <1>2 DEF Receive, Finish, Crash, Goto, Won, Succeeded, TypeOK
<1>3. CASE CreateQuote(w) \/ RefuseQuote(w)
  BY <1>1, <1>3 DEF CreateQuote, RefuseQuote, Refuse, Answer, Won, Succeeded, Binds, TypeOK
<1>4. CASE NoSuchPolicy(w) \/ BadMethod(w) \/ AcceptQuote(w) \/ Activate(w)
  BY <1>1, <1>4 DEF NoSuchPolicy, BadMethod, AcceptQuote, Activate, ApplyTransition, Refuse, Answer,
              Goto, Won, Succeeded, TypeOK
<1>5. CASE GetPolicy(w) \/ LockRow(w)
  BY <1>1, <1>5 DEF GetPolicy, LockRow, Goto, Won, Succeeded, TypeOK
<1>6. CASE InsertPayment(w)
  BY <1>1, <1>6 DEF InsertPayment, Refuse, Answer, Goto, Won, Succeeded, TypeOK
<1>7. CASE CheckPayment(w)
  <2>1. CASE Refuse(w, "conflict", row[w].state) \/ Goto(w, "insert")
    BY <1>1, <2>1 DEF Refuse, Answer, Goto, Won, Succeeded, TypeOK
  <2>2. CASE call[w].op = "pay" /\ PassedKey(call[w]) # Null /\ call' = call
    BY <2>2, SMTT(30) DEF Binds, PassedKey
  <2> QED
    BY <1>7, <2>1, <2>2 DEF CheckPayment
<1>8. CASE Commit(w) \/ Respond(w)
  BY <1>1, <1>8 DEF Commit, Respond, Won
<1>9. CASE ReadHistory(w)
  <2>1. call[w].op = "history" /\ call' = call
    BY <1>1, <1>9 DEF ReadHistory, WorkerOK, CallFits, CallShape
  <2> QED
    BY <2>1 DEF Binds
<1> QED
  BY <1>2, <1>3, <1>4, <1>5, <1>6, <1>7, <1>8, <1>9 DEF Serve

\* Two rivals cannot both win: the second finds the state the first has left.
LEMMA NextRivals ==
    ASSUME ServiceInv, [Next]_vars, NEW u \in Workers, NEW v \in Workers,
           Won(u)', Won(v)', Rivals(u, v)'
    PROVE  FALSE
<1>1. /\ IndInv /\ TypeOK /\ ~(Won(u) /\ Won(v) /\ Rivals(u, v))
      /\ ~(Won(v) /\ Won(u) /\ Rivals(v, u))
  BY DEF ServiceInv, IndInv
<1>2. ASSUME NEW w \in Workers, Receive(w) \/ Serve(w) \/ Finish(w) \/ Crash(w),
             NEW o \in Workers \ {w}, Won(w)', Won(o)', Rivals(w, o)'
      PROVE  FALSE
  <2> DEFINE p == call[w].policy
  <2>1. call' = call /\ (Won(w) \/ Commit(w))
    BY <1>1, <1>2, Winning DEF Rivals
  <2>2. Won(o) /\ Rivals(w, o)
    BY <1>1, <1>2, <2>1, OthersAreStill DEF Still, Won, Succeeded, Rivals, Binds
  <2>3. Commit(w)
    BY <2>1, <2>2 DEF ServiceInv
  <2>4. WorkerOK(w) /\ AnswerFits(o) /\ WorkerOK(o)
    BY SMTT(30) DEF ServiceInv, IndInv
  <2>5. /\ pc[w] = "save" /\ call[o].policy = p
        /\ CanTransition(policies[p].state,
                          IF call[w].op = "accept" THEN "accepted" ELSE "active")
    BY <2>2, <2>3, <2>4 DEF Commit, WorkerOK, WriteLegal, Rivals
  <2>6. CASE call[w].op = "accept" /\ call[o].op = "accept"
    BY <2>2, <2>4, <2>5, <2>6 DEF AnswerFits, CanTransition, TRANSITIONS
  <2>7. CASE Binds(w) /\ Binds(o)
    BY <2>2, <2>4, <2>5, <2>7 DEF AnswerFits, CanTransition, TRANSITIONS, Binds
  <2> QED
    BY <2>2, <2>6, <2>7 DEF Rivals
<1>3. Rivals(v, u)' /\ u # v
  BY DEF Rivals
<1>4. CASE \E w \in Workers : Receive(w) \/ Serve(w) \/ Finish(w) \/ Crash(w)
  <2>1. PICK w \in Workers : Receive(w) \/ Serve(w) \/ Finish(w) \/ Crash(w)
    BY <1>4
  <2>2. u # w /\ v # w
    BY <1>2, <1>3, <2>1
  <2>3. Still(u) /\ Still(v)
    BY <1>1, <2>1, <2>2, OthersAreStill
  <2> QED
    BY <1>1, <2>3 DEF Still, Won, Succeeded, Rivals, Binds
<1>5. CASE Tick \/ UNCHANGED vars
  BY <1>1, <1>5 DEF Tick, vars, Won, Succeeded, Rivals, Binds
<1> QED
  BY <1>4, <1>5 DEF Next

(* Between a service's checks and its answer, everything the answer is to  *)
(* say stays true, whatever the other workers commit meanwhile.             *)
THEOREM ServiceInvHolds == Spec => []ServiceInv
<1>1. Init => ServiceInv
  <2> SUFFICES ASSUME Init PROVE ServiceInv
    OBVIOUS
  <2>1. IndInv
    BY InitIndInv
  <2>2. StampsInv
    BY NullAssumption DEF Init, StampsInv, StampsMatchState, Absent, State
  <2>3. \A w \in Workers : Truthful(w) /\ ~Won(w)
    BY DEF Init, Truthful, AnswerFits, ReplyTruthful, ServerErrorExplained, Won, Succeeded
  <2> QED
    BY <2>1, <2>2, <2>3 DEF ServiceInv, Truthful, RepliesTruthful, ServerErrorOnlyAcrossPolicies
<1>2. ServiceInv /\ [Next]_vars => ServiceInv'
  <2> SUFFICES ASSUME ServiceInv, [Next]_vars PROVE ServiceInv'
    OBVIOUS
  <2>1. IndInv' /\ StampsInv'
    BY NextIndInv, NextStamps DEF ServiceInv
  <2>2. \A w \in Workers : Truthful(w)'
    BY NextTruthful
  <2>3. \A v, w \in Workers : ~ (Won(v)' /\ Won(w)' /\ Rivals(v, w)')
    BY NextRivals
  <2> QED
    BY <2>1, <2>2, <2>3
       DEF ServiceInv, Truthful, RepliesTruthful, ServerErrorOnlyAcrossPolicies
<1> QED
  BY <1>1, <1>2, PTL DEF Spec

(* The dates of a policy tell the same story as its state, whatever the     *)
(* clock does between the check and the save of a call.                     *)
THEOREM StampsNeverDrift == Spec => []StampsMatchState
<1>1. ServiceInv => StampsMatchState
  BY DEF ServiceInv, StampsInv
<1> QED
  BY <1>1, ServiceInvHolds, PTL

\* No two clients, however many race, are told that they made the same move.
THEOREM NoTwoWinners == Spec => []OneWinner
<1>1. ServiceInv => OneWinner
  BY DEF ServiceInv, OneWinner, Won
<1> QED
  BY <1>1, ServiceInvHolds, PTL

\* Whatever a client is told has happened is in the tables when it is told.
THEOREM AnswersTrue == Spec => []RepliesTruthful
<1>1. ServiceInv => RepliesTruthful
  BY DEF ServiceInv
<1> QED
  BY <1>1, ServiceInvHolds, PTL

\* The unique index of keys is only ever hit by payments of two policies.
THEOREM ServerErrorsExplained == Spec => []ServerErrorOnlyAcrossPolicies
<1>1. ServiceInv => ServerErrorOnlyAcrossPolicies
  BY DEF ServiceInv
<1> QED
  BY <1>1, ServiceInvHolds, PTL
-----------------------------------------------------------------------------
(* Repeated payments, and policies nobody paid for. *)

\* What KeyedRetryReplays says of one worker.
RepeatGoesOn(v) ==
    \/ pc'[v] = pc[v] /\ reply'[v] = reply[v]
    \/ pc[v] = "work" /\ pc'[v] = "respond" /\ receipt'[v] = Null /\ tables' = tables
    \/ pc[v] = "respond" /\ pc'[v] = "replied" /\ reply'[v].code = "ok" /\ tables' = tables
    \/ pc'[v] = "idle" /\ tables' = tables

LEMMA NextReplays ==
    ASSUME ServiceInv, [Next]_vars, NEW v \in Workers, Repeats(v)
    PROVE  RepeatGoesOn(v)
<1>1. /\ TypeOK /\ WorkerOK(v)
      /\ pc[v] \in {"work", "respond"} /\ call[v].op = "pay" /\ SameRequest(v)
      /\ PassedKey(call[v]) # Null
  BY DEF ServiceInv, IndInv, Repeats
<1>2. call[v].policy \in Policies
  BY <1>1, RequestFields DEF TypeOK, WorkerOK, CallFits, CallShape
<1>3. KeyTaken(PassedKey(call[v]))
  BY <1>2, <1>1 DEF SameRequest, KeyTaken
<1>4. ASSUME NEW w \in Workers, Receive(w) \/ Serve(w) \/ Finish(w) \/ Crash(w)
      PROVE  RepeatGoesOn(v)
  <2>1. CASE v # w
    BY <1>1, <1>4, <2>1, OthersAreStill DEF Still, RepeatGoesOn
  <2>2. CASE CheckPayment(v)
    <3>1. pc[v] = "work" /\ Goto(v, "respond") /\ EndTransaction(v) /\ tables' = tables
      BY <1>1, <1>3, <2>2 DEF CheckPayment
    <3>2. pc'[v] = "respond" /\ receipt'[v] = Null
      BY <1>1, <3>1 DEF Goto, EndTransaction, TypeOK
    <3> QED
      BY <3>1, <3>2 DEF RepeatGoesOn
  <2>3. CASE Respond(v)
    <3>1. pc[v] = "respond" /\ tables' = tables
      BY <2>3 DEF Respond
    <3>2. pc'[v] = "replied" /\ reply'[v].code = "ok"
      BY <1>1, <2>3 DEF Respond, Answer, TypeOK
    <3> QED
      BY <3>1, <3>2 DEF RepeatGoesOn
  <2>4. CASE Crash(v)
    <3>1. pc'[v] = "idle" /\ tables' = tables
      BY <1>1, <2>4 DEF Crash, Goto, TypeOK
    <3> QED
      BY <3>1 DEF RepeatGoesOn
  <2>5. v = w => CheckPayment(v) \/ Respond(v) \/ Crash(v)
    BY <1>1, <1>4, ZenonT(40) DEF Receive, Serve, Finish, CreateQuote, RefuseQuote, NoSuchPolicy,
            BadMethod, GetPolicy, ReadHistory, LockRow, AcceptQuote, InsertPayment,
            Activate, Commit
  <2> QED
    BY <2>1, <2>2, <2>3, <2>4, <2>5
<1>5. CASE Tick \/ UNCHANGED vars
  BY <1>5 DEF Tick, vars, RepeatGoesOn
<1> QED
  BY <1>4, <1>5 DEF Next

(* A payment repeated with its key is answered ok, without a second charge,  *)
(* wherever the key is passed on and whatever commits in between: from the   *)
(* step that decides about it nothing is written and nothing refuses it.     *)
THEOREM RepeatedPaymentsReplay == Spec => KeyedRetryReplays
<1>1. ServiceInv /\ [Next]_vars =>
        [ \A w \in Workers : Repeats(w) =>
            \/ pc'[w] = pc[w] /\ reply'[w] = reply[w]
            \/ pc[w] = "work" /\ pc'[w] = "respond" /\ receipt'[w] = Null /\ tables' = tables
            \/ pc[w] = "respond" /\ pc'[w] = "replied" /\ reply'[w].code = "ok" /\ tables' = tables
            \/ pc'[w] = "idle" /\ tables' = tables ]_vars
  BY NextReplays DEF RepeatGoesOn
<1> QED
  BY <1>1, ServiceInvHolds, PTL DEF Spec, KeyedRetryReplays

\* activate_policy is called by simulate_payment and the admin, not on its own.
OnlyStaffBind == \A r \in Requests : r.op = "bind" => r.via = "admin"

LEMMA CommitPaid ==
    ASSUME OnlyStaffBind, ServiceInv, PaidUnlessBoundByHand, NEW w \in Workers, Commit(w)
    PROVE  PaidUnlessBoundByHand'
<1> DEFINE p == call[w].policy
<1>1. TypeOK /\ WorkerOK(w) /\ AnswerFits(w) /\ pc[w] = "save"
  BY DEF ServiceInv, IndInv, Commit
<1>2. /\ p \in Policies /\ call[w] \in Requests
      /\ call[w].op \in {"accept", "bind", "pay"}
      /\ transitions[p] \in Seq(Transition) /\ payments[p] \in Seq(Payment)
      /\ entry[w] \in Transition /\ row[w] \in Policy
      /\ row[w].state = entry[w].to
      /\ entry[w].to = IF call[w].op = "accept" THEN "accepted" ELSE "active"
      /\ receipt[w] \in Payment \cup {Null}
  BY <1>1, RequestFields DEF TypeOK, WorkerOK, CallFits, CallShape, WriteLegal
<1>3. /\ policies'[p].state = row[w].state
      /\ transitions'[p] = Append(transitions[p], entry[w])
      /\ payments'[p] = IF receipt[w] = Null THEN payments[p]
                        ELSE Append(payments[p], receipt[w])
      /\ \A q \in Policies \ {p} :
           policies'[q] = policies[q] /\ transitions'[q] = transitions[q]
           /\ payments'[q] = payments[q]
  BY <1>1, <1>2 DEF Commit, TypeOK, Policy
<1>4. ASSUME policies'[p].state = "active", payments'[p] = << >>
      PROVE  \E i \in 1..Len(transitions'[p]) :
               transitions'[p][i].to = "active" /\ transitions'[p][i].source = "admin"
  <2>1. receipt[w] = Null
    <3>1. ASSUME receipt[w] # Null PROVE payments'[p] # << >>
      <4>1. payments'[p] = Append(payments[p], receipt[w]) /\ receipt[w] \in Payment
        BY <1>2, <1>3, <3>1
      <4>2. Len(payments'[p]) = Len(payments[p]) + 1 /\ Len(payments[p]) \in Nat
        BY <1>2, <4>1, AppendProperties, LenProperties
      <4>3. Len(<< >>) = 0
        OBVIOUS
      <4> QED
        BY <4>2, <4>3
    <3> QED
      BY <1>4, <3>1
  <2>2. call[w].op = "bind"
    <3>1. call[w].op = "pay" => receipt[w] \in Payment
      <4> SUFFICES ASSUME call[w].op = "pay" PROVE receipt[w] \in Payment
        OBVIOUS
      <4>1. receipt[w] = [method |-> call[w].method, key |-> PassedKey(call[w])]
        BY <1>1 DEF AnswerFits
      <4> QED
        BY <1>1, <1>2, <4>1, RequestFields DEF Payment, WorkerOK, CallFits, CallShape
    <3> QED
      BY <1>2, <1>3, <1>4, <2>1, <3>1, NullIsNoValue
  <2>3. entry[w].source = "admin" /\ entry[w].to = "active"
    BY <1>1, <1>2, <2>2 DEF AnswerFits, Source, OnlyStaffBind
  <2>4. /\ Len(transitions'[p]) \in 1..Len(transitions'[p])
        /\ transitions'[p][Len(transitions'[p])] = entry[w]
    BY <1>2, <1>3, AppendProperties, LenProperties
  <2> QED
    BY <2>3, <2>4
<1> QED
  BY <1>3, <1>4, ZenonT(40) DEF PaidUnlessBoundByHand

(* With activate_policy called from nowhere else, every active policy has   *)
(* been paid for or was bound by staff, for any number of either.           *)
THEOREM ActivePaidOrBoundByHand ==
    OnlyStaffBind => (Spec => []PaidUnlessBoundByHand)
<1> SUFFICES ASSUME OnlyStaffBind PROVE Spec => []PaidUnlessBoundByHand
  OBVIOUS
<1>1. Init => PaidUnlessBoundByHand
  BY NullAssumption DEF Init, PaidUnlessBoundByHand, Absent, State
<1>2. ServiceInv /\ PaidUnlessBoundByHand /\ [Next]_vars => PaidUnlessBoundByHand'
  <2> SUFFICES ASSUME ServiceInv, PaidUnlessBoundByHand, [Next]_vars
               PROVE  PaidUnlessBoundByHand'
    OBVIOUS
  <2>1. CASE UNCHANGED tables
    BY <2>1 DEF tables, PaidUnlessBoundByHand
  <2>2. ASSUME NEW w \in Workers, CreateQuote(w) PROVE PaidUnlessBoundByHand'
    <3>1. PICK q \in Policies :
            /\ policies'[q].state = "quoted"
            /\ \A o \in Policies \ {q} :
                 policies'[o] = policies[o] /\ transitions'[o] = transitions[o]
            /\ payments' = payments
      BY <2>2 DEF ServiceInv, IndInv, TypeOK, CreateQuote, Absent
    <3> QED
      BY <3>1 DEF PaidUnlessBoundByHand
  <2> QED
    BY <2>1, <2>2, TablesWritten, CommitPaid
<1> QED
  BY <1>1, <1>2, ServiceInvHolds, PTL DEF Spec
=============================================================================
