-------------------------- MODULE PolicyAdminProofs --------------------------
(***************************************************************************)
(* The services beside staff pages that write policy rows directly.  IndInv *)
(* does not survive those pages (a page turns a row back behind its        *)
(* history); AdminInv says what does, and is inductive.                    *)
(***************************************************************************)
EXTENDS PolicyAdmin, PolicyServicesProofs

-----------------------------------------------------------------------------
(* Frames. *)

\* A worker that takes no step, and whose locked row nobody touches, is in order.
LEMMA RowHeldStays ==
    ASSUME AdminInv, NEW v \in Workers,
           pc'[v] = pc[v], call'[v] = call[v], row'[v] = row[v],
           entry'[v] = entry[v], receipt'[v] = receipt[v],
           \A p \in Policies : rowLock[p] = v /\ policies[p].state # Null =>
               /\ rowLock'[p] = v
               /\ policies'[p] = policies[p] /\ payments'[p] = payments[p]
    PROVE  RowHeld(v)'
<1>1. TypeOK /\ RowHeld(v)
  BY DEF AdminInv, AdminTypeOK
<1>2. CASE pc[v] \notin {"work", "insert", "activate", "save"}
  BY <1>1, <1>2 DEF RowHeld, CallShape, LockProtects, WriteLegal
<1>3. CASE pc[v] \in {"work", "insert", "activate", "save"}
  <2>1. call[v] \in Requests /\ call[v].policy \in Policies
    BY <1>1, <1>3, RequestFields DEF TypeOK, RowHeld, CallShape
  <2>2. rowLock[call[v].policy] = v /\ policies[call[v].policy].state # Null
    BY <1>1, <1>3 DEF RowHeld, LockProtects
  <2> QED
    BY <1>1, <1>3, <2>1, <2>2 DEF RowHeld, CallShape, LockProtects, WriteLegal
<1> QED
  BY <1>2, <1>3

\* A page that waits stays true as long as its policy's history only grows.
LEMMA FormStays ==
    ASSUME AdminInv, NEW s \in Staff, form'[s] = form[s],
           \A p \in Policies : policies[p].state # Null \/ p \in deleted =>
               /\ policies'[p].state # Null \/ p \in deleted'
               /\ transitions'[p] = << >> <=> transitions[p] = << >>
               /\ \A st : HasRow(transitions[p], st) => HasRow(transitions'[p], st)
    PROVE  FormFits(s)'
<1>1. form[s] # Null => form[s].policy \in Policies
  BY DEF AdminInv, AdminTypeOK, Form
<1> QED
  BY <1>1 DEF AdminInv, FormFits

LEMMA TablesStand ==
    ASSUME AdminInv, UNCHANGED tables
    PROVE  PaymentsNamed' /\ \A p \in Policies : HistoryFits(p)'
BY DEF AdminInv, PaymentsNamed, HistoryFits, HasRow, tables

(* A step of w inside its call that writes no table keeps AdminInv if it    *)
(* keeps the types, leaves w in order and takes nothing of the others'.     *)
LEMMA CallStep ==
    ASSUME AdminInv, TypeOK', NEW w \in Workers, RowHeld(w)',
           UNCHANGED <<tables, adminVars>>,
           \A v \in Workers \ {w} :
             /\ pc'[v] = pc[v] /\ call'[v] = call[v] /\ row'[v] = row[v]
             /\ entry'[v] = entry[v] /\ receipt'[v] = receipt[v]
             /\ \A p \in Policies : rowLock[p] = v => rowLock'[p] = v
    PROVE  AdminInv'
<1>1. AdminTypeOK'
  BY DEF AdminInv, AdminTypeOK, adminVars
<1>2. \A v \in Workers \ {w} : RowHeld(v)'
  BY RowHeldStays DEF tables
<1>3. \A s \in Staff : FormFits(s)'
  BY FormStays DEF tables, adminVars, HasRow
<1> QED
  BY <1>1, <1>2, <1>3, TablesStand DEF AdminInv

\* The end of w's transaction leaves the others theirs.
LEMMA EndingCall ==
    ASSUME AdminInv, TypeOK', NEW w \in Workers, RowHeld(w)',
           UNCHANGED <<tables, adminVars>>, EndTransaction(w),
           \A v \in Workers \ {w} : pc'[v] = pc[v] /\ call'[v] = call[v]
    PROVE  AdminInv'
<1>1. TypeOK
  BY DEF AdminInv, AdminTypeOK
<1>2. ASSUME NEW v \in Workers \ {w}
      PROVE  /\ row'[v] = row[v] /\ entry'[v] = entry[v] /\ receipt'[v] = receipt[v]
             /\ \A p \in Policies : rowLock[p] = v => rowLock'[p] = v
  BY <1>1, OthersKeepLocks
<1> QED
  BY <1>2, CallStep

-----------------------------------------------------------------------------
(* The steps of a call that write no table. *)

LEMMA RefuseKeeps ==
    ASSUME AdminInv, NEW w \in Workers, NEW code \in Codes, NEW st \in State \cup {Null},
           pc[w] # "idle", Refuse(w, code, st), UNCHANGED adminVars
    PROVE  AdminInv'
<1>1. TypeOK /\ RowHeld(w)
  BY DEF AdminInv, AdminTypeOK
<1>2. UNCHANGED <<clock, tables, call>> /\ EndTransaction(w) /\ Answer(w, code, st, << >>)
  BY DEF Refuse
<1>3. << >> \in Seq(Transition)
  OBVIOUS
<1>4. TypeOK' /\ pc'[w] = "replied" /\ \A v \in Workers \ {w} : pc'[v] = pc[v]
  BY <1>1, <1>2, <1>3, OthersKeepLocks, AnswerStep DEF TypeOK, tables
<1>5. RowHeld(w)'
  BY <1>1, <1>2, <1>4, OthersKeepLocks DEF RowHeld, CallShape, LockProtects, WriteLegal
<1> QED
  BY <1>2, <1>4, <1>5, EndingCall

LEMMA PlainStepsKeep ==
    ASSUME AdminInv, NEW w \in Workers, UNCHANGED adminVars,
           Receive(w) \/ GetPolicy(w) \/ Respond(w) \/ Finish(w)
    PROVE  AdminInv'
<1>1. TypeOK /\ RowHeld(w)
  BY DEF AdminInv, AdminTypeOK
<1>2. CASE Receive(w)
  <2>1. PICK c \in Requests : call' = [call EXCEPT ![w] = c]
    BY <1>2 DEF Receive
  <2>2. TypeOK'
    BY <1>1, <1>2, <2>1 DEF Receive, Goto, TypeOK, PCs, tables, locals
  <2>3. RowHeld(w)'
    BY <1>1, <1>2, <2>1, RequestFields
       DEF Receive, Goto, TypeOK, RowHeld, CallShape, LockProtects, WriteLegal, tables, locals
  <2> QED
    BY <1>1, <1>2, <2>1, <2>2, <2>3, CallStep DEF Receive, Goto, TypeOK, locals
<1>3. CASE GetPolicy(w)
  <2>1. call[w] \in Requests /\ call[w].policy \in Policies
    BY <1>1, <1>3, RequestFields DEF GetPolicy, TypeOK, RowHeld, CallShape
  <2>2. TypeOK'
    BY <1>1, <1>3, <2>1, ZenonT(40) DEF GetPolicy, Goto, TypeOK, PCs, tables
  <2>3. RowHeld(w)'
    BY <1>1, <1>3, <2>1, NullIsNoValue
       DEF GetPolicy, Goto, TypeOK, RowHeld, CallShape, LockProtects, WriteLegal, tables
  <2> QED
    BY <1>1, <1>3, <2>2, <2>3, CallStep DEF GetPolicy, Goto, TypeOK
<1>4. CASE Respond(w)
  <2>1. call[w] \in Requests /\ call[w].policy \in Policies
        /\ call[w].op \in {"accept", "bind", "pay"}
    BY <1>1, <1>4, RequestFields DEF Respond, TypeOK, RowHeld, CallShape
  <2>2. PICK st \in State \cup {Null} : Answer(w, "ok", st, << >>)
    BY <1>1, <1>4, <2>1 DEF Respond, State, TypeOK, Policy
  <2>3. << >> \in Seq(Transition) /\ "ok" \in Codes
    BY DEF Codes
  <2>4. TypeOK' /\ pc'[w] = "replied" /\ \A v \in Workers \ {w} : pc'[v] = pc[v]
    BY <1>1, <1>4, <2>2, <2>3, AnswerStep DEF Respond, TypeOK, tables, locals
  <2>5. RowHeld(w)'
    BY <1>1, <1>4, <2>4
       DEF Respond, RowHeld, CallShape, LockProtects, WriteLegal, tables, locals
  <2> QED
    BY <1>4, <2>4, <2>5, CallStep DEF Respond, locals
<1>5. CASE Finish(w)
  <2>1. TypeOK'
    BY <1>1, <1>5 DEF Finish, Goto, TypeOK, PCs, tables, locals
  <2>2. RowHeld(w)'
    BY <1>1, <1>5
       DEF Finish, Goto, TypeOK, RowHeld, CallShape, LockProtects, WriteLegal, tables, locals
  <2> QED
    BY <1>1, <1>5, <2>1, <2>2, CallStep DEF Finish, Goto, TypeOK, locals
<1> QED
  BY <1>2, <1>3, <1>4, <1>5

LEMMA EndingStepsKeep ==
    ASSUME AdminInv, NEW w \in Workers, UNCHANGED adminVars,
           ReadHistory(w) \/ Crash(w)
    PROVE  AdminInv'
<1>1. TypeOK /\ RowHeld(w)
  BY DEF AdminInv, AdminTypeOK
<1>2. CASE ReadHistory(w)
  <2>1. call[w] \in Requests /\ call[w].policy \in Policies /\ row[w] \in Policy
    BY <1>1, <1>2, RequestFields DEF ReadHistory, TypeOK, RowHeld, CallShape
  <2>2. /\ row[w].state \in State \cup {Null} /\ "ok" \in Codes
        /\ transitions[call[w].policy] \in Seq(Transition)
    BY <1>1, <2>1 DEF TypeOK, Policy, Codes
  <2>3. TypeOK' /\ pc'[w] = "replied" /\ \A v \in Workers \ {w} : pc'[v] = pc[v]
    BY <1>1, <1>2, <2>2, AnswerStep, OthersKeepLocks DEF ReadHistory, TypeOK, tables
  <2>4. RowHeld(w)'
    BY <1>1, <1>2, <2>1, <2>3, OthersKeepLocks
       DEF ReadHistory, RowHeld, CallShape, LockProtects, WriteLegal, tables
  <2> QED
    BY <1>2, <2>3, <2>4, EndingCall DEF ReadHistory
<1>3. CASE Crash(w)
  <2>1. TypeOK'
    BY <1>1, <1>3, OthersKeepLocks DEF Crash, Goto, TypeOK, PCs, tables
  <2>2. RowHeld(w)'
    BY <1>1, <1>3, OthersKeepLocks
       DEF Crash, Goto, TypeOK, RowHeld, CallShape, LockProtects, WriteLegal
  <2> QED
    BY <1>1, <1>3, <2>1, <2>2, EndingCall DEF Crash, Goto, TypeOK
<1> QED
  BY <1>2, <1>3

LEMMA LockRowKeeps ==
    ASSUME AdminInv, NEW w \in Workers, UNCHANGED adminVars, LockRow(w)
    PROVE  AdminInv'
<1>1. TypeOK /\ RowHeld(w)
  BY DEF AdminInv, AdminTypeOK
<1>2. call[w] \in Requests /\ call[w].policy \in Policies
  BY <1>1, RequestFields DEF LockRow, TypeOK, RowHeld, CallShape
<1>3. TypeOK'
  BY <1>1, <1>2 DEF LockRow, Goto, TypeOK, PCs, tables
<1>4. RowHeld(w)'
  BY <1>1, <1>2
     DEF LockRow, Goto, TypeOK, RowHeld, CallShape, LockProtects, WriteLegal, tables
<1>5. \A v \in Workers \ {w} : \A p \in Policies : rowLock[p] = v => rowLock'[p] = v
  BY <1>1, <1>2, ConstantsAssumption DEF LockRow, TypeOK, ConstantsAssumption
<1> QED
  BY <1>1, <1>3, <1>4, <1>5, CallStep DEF LockRow, Goto, TypeOK

(* _apply_transition on the committed row of a locked policy, for the move  *)
(* the call asks for.                                                       *)
LEMMA ApplyTransitionKeeps ==
    ASSUME AdminInv, NEW w \in Workers, UNCHANGED adminVars, pc[w] \in {"work", "activate"},
           NEW to \in {"accepted", "active"},
           to = IF call[w].op = "accept" THEN "accepted" ELSE "active",
           NEW payment,
           payment = IF receipt[w] = Null THEN Null
                     ELSE Len(payments[call[w].policy]) + 1,
           ApplyTransition(w, policies[call[w].policy], to, payment)
    PROVE  AdminInv'
<1> DEFINE p == call[w].policy
           r == policies[p]
<1>1. TypeOK /\ RowHeld(w)
  BY DEF AdminInv, AdminTypeOK
<1>2. call[w] \in Requests /\ p \in Policies
  BY <1>1, RequestFields DEF TypeOK, RowHeld, CallShape
<1>3. r \in Policy /\ payments[p] \in Seq(Payment)
  BY <1>1, <1>2 DEF TypeOK
<1>4. r.state \in State \cup {Null} /\ payment \in Stamp
  BY <1>3 DEF Policy, Stamp
<1>5. CASE ~CanTransition(r.state, to)
  BY <1>1, <1>4, <1>5, RefuseKeeps DEF ApplyTransition, Codes
<1>6. CASE CanTransition(r.state, to)
  <2> DEFINE rr == [r EXCEPT !.state = to]
             e == [from |-> r.state, to |-> to, source |-> Source(call[w]),
                   payment |-> payment]
  <2>1. /\ row' = [row EXCEPT ![w] = rr] /\ entry' = [entry EXCEPT ![w] = e]
        /\ pc' = [pc EXCEPT ![w] = "save"]
        /\ UNCHANGED <<clock, tables, rowLock, call, receipt, reply>>
    BY <1>6 DEF ApplyTransition, Goto
  <2>2. rr \in Policy /\ rr.state = to
    BY <1>3 DEF Policy, State
  <2>3. e \in Transition
    BY <1>2, <1>4, RequestFields DEF Transition, State
  <2>4. TypeOK'
    BY <1>1, <2>1, <2>2, <2>3 DEF TypeOK, PCs, tables
  <2>5. RowHeld(w)'
    <3>1. row'[w] = rr /\ entry'[w] = e /\ pc'[w] = "save" /\ row'[w] # Null
          /\ entry'[w] # Null
      BY <1>1, <2>1, <2>2, <2>3, NullIsNoValue DEF TypeOK
    <3>2. /\ CallShape(w)' /\ LockProtects(w)' /\ policies'[p].state # Null
          /\ call' = call
      BY <1>1, <2>1, <3>1 DEF RowHeld, CallShape, LockProtects, tables
    <3>3. /\ e.from = r.state /\ e.to = to /\ e.payment = payment
          /\ row'[w].state = to /\ policies' = policies /\ payments' = payments
          /\ receipt' = receipt
      BY <2>1, <2>2, <3>1 DEF tables
    <3>4. WriteLegal(w)'
      BY <1>1, <1>6, <3>1, <3>2, <3>3 DEF RowHeld, WriteLegal
    <3> QED
      BY <3>2, <3>4 DEF RowHeld
  <2> QED
    BY <1>1, <2>1, <2>4, <2>5, CallStep DEF TypeOK
<1> QED
  BY <1>5, <1>6

LEMMA AcceptAndActivateKeep ==
    ASSUME AdminInv, NEW w \in Workers, UNCHANGED adminVars, AcceptQuote(w) \/ Activate(w)
    PROVE  AdminInv'
<1>1. TypeOK /\ RowHeld(w)
  BY DEF AdminInv, AdminTypeOK
<1>2. CASE AcceptQuote(w)
  <2>1. call[w].policy \in Policies /\ row[w] = policies[call[w].policy] /\ receipt[w] = Null
    BY <1>1, <1>2, RequestFields
       DEF AcceptQuote, TypeOK, RowHeld, CallShape, LockProtects, WriteLegal
  <2>2. row[w].state \in State \cup {Null} /\ "conflict" \in Codes /\ pc[w] = "work"
    BY <1>1, <1>2, <2>1 DEF AcceptQuote, TypeOK, Policy, Codes
  <2> QED
    BY <1>2, <2>1, <2>2, RefuseKeeps, ApplyTransitionKeeps DEF AcceptQuote
<1>3. CASE Activate(w)
  <2>1. call[w].op # "accept" /\ pc[w] = "activate"
    BY <1>1, <1>3 DEF Activate, RowHeld, CallShape
  <2> QED
    BY <1>3, <2>1, ApplyTransitionKeeps DEF Activate
<1> QED
  BY <1>2, <1>3

LEMMA CheckPaymentKeeps ==
    ASSUME AdminInv, NEW w \in Workers, UNCHANGED adminVars, CheckPayment(w)
    PROVE  AdminInv'
<1>1. TypeOK /\ RowHeld(w)
  BY DEF AdminInv, AdminTypeOK
<1>2. call[w].policy \in Policies /\ row[w] = policies[call[w].policy] /\ receipt[w] = Null
  BY <1>1, RequestFields
     DEF CheckPayment, TypeOK, RowHeld, CallShape, LockProtects, WriteLegal
<1>3. row[w].state \in State \cup {Null} /\ "conflict" \in Codes /\ pc[w] = "work"
  BY <1>1, <1>2 DEF CheckPayment, TypeOK, Policy, Codes
<1>4. CASE Refuse(w, "conflict", row[w].state)
  BY <1>3, <1>4, RefuseKeeps
<1>5. CASE Goto(w, "respond") /\ EndTransaction(w) /\ UNCHANGED <<clock, tables, call, reply>>
  <2>1. TypeOK'
    BY <1>1, <1>5, OthersKeepLocks DEF Goto, TypeOK, PCs, tables
  <2>2. RowHeld(w)'
    BY <1>1, <1>3, <1>5, OthersKeepLocks
       DEF Goto, TypeOK, RowHeld, CallShape, LockProtects, WriteLegal, tables
  <2> QED
    BY <1>1, <1>5, <2>1, <2>2, EndingCall DEF Goto, TypeOK
<1>6. CASE /\ call[w].op = "pay" /\ row[w].state = "accepted" /\ Goto(w, "insert")
           /\ UNCHANGED <<clock, tables, rowLock, call, locals, reply>>
  <2>1. TypeOK'
    BY <1>1, <1>6 DEF Goto, TypeOK, PCs, tables, locals
  <2>2. RowHeld(w)'
    BY <1>1, <1>2, <1>3, <1>6
       DEF Goto, TypeOK, RowHeld, CallShape, LockProtects, WriteLegal, tables, locals
  <2> QED
    BY <1>1, <1>6, <2>1, <2>2, CallStep DEF Goto, TypeOK, locals
<1> QED
  BY <1>4, <1>5, <1>6 DEF CheckPayment

LEMMA InsertPaymentKeeps ==
    ASSUME AdminInv, NEW w \in Workers, UNCHANGED adminVars, InsertPayment(w)
    PROVE  AdminInv'
<1> DEFINE key == PassedKey(call[w])
           paid == [method |-> call[w].method, key |-> key]
<1>1. TypeOK /\ RowHeld(w)
  BY DEF AdminInv, AdminTypeOK
<1>2. /\ call[w] \in Requests /\ call[w].policy \in Policies /\ call[w].op = "pay"
      /\ call[w].method \in Methods /\ key \in Keys \cup {Null}
      /\ row[w] = policies[call[w].policy] /\ pc[w] = "insert"
  BY <1>1, RequestFields DEF InsertPayment, TypeOK, RowHeld, CallShape, LockProtects
<1>3. row[w].state \in State \cup {Null} /\ "server_error" \in Codes
  BY <1>1, <1>2 DEF TypeOK, Policy, Codes
<1>4. CASE Refuse(w, "server_error", row[w].state)
  BY <1>2, <1>3, <1>4, RefuseKeeps
<1>5. CASE /\ receipt' = [receipt EXCEPT ![w] = paid]
           /\ Goto(w, "activate")
           /\ UNCHANGED <<clock, tables, rowLock, call, row, entry, reply>>
  <2>1. paid \in Payment /\ paid # Null
    BY <1>2, NullIsNoValue DEF Payment
  <2>2. TypeOK'
    BY <1>1, <1>5, <2>1 DEF Goto, TypeOK, PCs, tables
  <2>3. RowHeld(w)'
    BY <1>1, <1>2, <1>5, <2>1
       DEF Goto, TypeOK, RowHeld, CallShape, LockProtects, WriteLegal, tables
  <2> QED
    BY <1>1, <1>5, <2>2, <2>3, CallStep DEF Goto, TypeOK
<1> QED
  BY <1>4, <1>5 DEF InsertPayment

LEMMA TickKeeps ==
    ASSUME AdminInv, UNCHANGED adminVars, Tick \/ UNCHANGED vars
    PROVE  AdminInv'
<1>1. UNCHANGED <<tables, rowLock, pc, call, row, entry, receipt, reply>>
  BY DEF Tick, vars, tables, locals
<1>2. AdminTypeOK'
  BY <1>1, ConstantsAssumption
     DEF AdminInv, AdminTypeOK, Tick, TypeOK, vars, tables, adminVars, ConstantsAssumption
<1>3. \A w \in Workers : RowHeld(w)'
  BY <1>1, RowHeldStays DEF tables
<1>4. \A s \in Staff : FormFits(s)'
  BY <1>1, FormStays DEF tables, adminVars
<1> QED
  BY <1>1, <1>2, <1>3, <1>4, TablesStand DEF AdminInv

-----------------------------------------------------------------------------
(* The steps that write the tables. *)

\* A policy that has no row has neither history nor payments.
LEMMA NoRowNoHistory ==
    ASSUME AdminInv, NEW p \in Policies, policies[p].state = Null
    PROVE  transitions[p] = << >> /\ payments[p] = << >>
<1>1. TypeOK /\ HistoryFits(p) /\ transitions[p] \in Seq(Transition)
  BY DEF AdminInv, AdminTypeOK, TypeOK
<1>2. ASSUME NEW i \in 1..Len(transitions[p]) PROVE transitions[p][i].to # Null
  <2>1. transitions[p][i] \in Transition
    BY <1>1, <1>2, ElementOfSeq
  <2> QED
    BY <2>1, NullAssumption DEF Transition
<1> QED
  BY <1>1, <1>2 DEF HistoryFits, HasRow

LEMMA CreateQuoteKeeps ==
    ASSUME AdminInv, NEW w \in Workers, CreateQuote(w), UNCHANGED adminVars,
           \A p \in deleted : policies'[p] = policies[p]
    PROVE  AdminInv'
<1> DEFINE r == [Absent EXCEPT !.state = "quoted", !.expiresAt = clock + Validity]
           src == Source(call[w])
           new == [from |-> Null, to |-> "new", source |-> src, payment |-> Null]
           priced == [from |-> "new", to |-> "quoted", source |-> src, payment |-> Null]
           tt == << new, priced >>
<1>1. TypeOK /\ RowHeld(w)
  BY DEF AdminInv, AdminTypeOK
<1>2. PICK p \in Policies :
        /\ policies[p].state = Null
        /\ policies' = [policies EXCEPT ![p] = r]
        /\ transitions' = [transitions EXCEPT ![p] = tt]
  BY DEF CreateQuote
<1>3. /\ pc[w] = "called" /\ Answer(w, "ok", "quoted", << >>)
      /\ UNCHANGED <<clock, payments, rowLock, call, locals>>
  BY DEF CreateQuote
<1>4. r \in Policy /\ r.state = "quoted" /\ r.state # Null
  <2>1. clock + Validity \in Stamp
    BY <1>1, ConstantsAssumption DEF TypeOK, Stamp, ConstantsAssumption
  <2> QED
    BY <2>1, NullAssumption DEF Absent, Policy, Stamp, State
<1>5. new \in Transition /\ priced \in Transition
  <2>1. call[w] \in Requests
    BY <1>1, <1>3 DEF TypeOK, RowHeld, CallShape
  <2> QED
    BY <2>1, RequestFields DEF Transition, State, Stamp
<1>6. /\ tt \in Seq(Transition) /\ Len(tt) = 2 /\ tt # << >>
      /\ tt[2].to = "quoted" /\ 2 \in 1..Len(tt)
  <2> HIDE DEF new
  <2> QED
    BY <1>5
<1>7. << >> \in Seq(Transition) /\ "ok" \in Codes /\ "quoted" \in State
  BY DEF Codes, State
<1>8. /\ reply' \in [Workers -> Reply \cup {Null}] /\ pc' \in [Workers -> PCs]
      /\ pc'[w] = "replied" /\ \A v \in Workers \ {w} : pc'[v] = pc[v]
  BY <1>1, <1>3, <1>7, AnswerStep
<1>9. AdminTypeOK'
  BY <1>1, <1>2, <1>3, <1>4, <1>6, <1>8
     DEF AdminInv, AdminTypeOK, TypeOK, locals, adminVars
<1>10. /\ policies'[p] = r /\ transitions'[p] = tt
       /\ \A q \in Policies \ {p} : policies'[q] = policies[q]
                                    /\ transitions'[q] = transitions[q]
       /\ payments' = payments
  BY <1>1, <1>2, <1>3 DEF TypeOK
<1> HIDE DEF r, tt
<1>11. transitions[p] = << >> /\ payments[p] = << >> /\ p \notin deleted
  BY <1>2, <1>4, <1>10, NoRowNoHistory
<1>12. \A i \in 1..Len(payments[p]) : FALSE
  <2>1. Len(<< >>) = 0
    OBVIOUS
  <2> QED
    BY <1>11, <2>1
<1>13. PaymentsNamed'
  <2>1. ASSUME NEW q \in Policies, NEW i \in 1..Len(payments[q])
        PROVE  \E j \in 1..Len(transitions'[q]) :
                 transitions'[q][j].to = "active" /\ transitions'[q][j].payment = i
    BY <1>10, <1>12, <2>1, SMTT(30) DEF AdminInv, PaymentsNamed
  <2> QED
    BY <1>10, <2>1 DEF PaymentsNamed
<1>14. \A q \in Policies : HistoryFits(q)'
  <2>1. HistoryFits(p)'
    BY <1>4, <1>6, <1>10 DEF HistoryFits, HasRow
  <2>2. ASSUME NEW q \in Policies \ {p} PROVE HistoryFits(q)'
    BY <1>10, <2>2 DEF AdminInv, HistoryFits, HasRow
  <2> QED
    BY <2>1, <2>2
<1>15. ASSUME NEW s \in Staff PROVE FormFits(s)'
  <2>1. \A q \in Policies : policies[q].state # Null \/ q \in deleted => q # p
    BY <1>2, <1>11
  <2> QED
    BY <1>10, <2>1, FormStays DEF adminVars
<1>16. RowHeld(w)'
  BY <1>1, <1>3, <1>8 DEF RowHeld, CallShape, LockProtects, WriteLegal, locals
<1>17. \A v \in Workers \ {w} : RowHeld(v)'
  BY <1>2, <1>3, <1>8, <1>10, RowHeldStays DEF locals
<1> QED
  BY <1>9, <1>13, <1>14, <1>15, <1>16, <1>17 DEF AdminInv

LEMMA CommitKeeps ==
    ASSUME AdminInv, NEW w \in Workers, Commit(w), UNCHANGED adminVars
    PROVE  AdminInv'
<1> DEFINE p == call[w].policy
<1>1. TypeOK /\ RowHeld(w)
  BY DEF AdminInv, AdminTypeOK
<1>2. call[w] \in Requests /\ p \in Policies /\ pc[w] = "save"
  BY <1>1, RequestFields DEF Commit, TypeOK, RowHeld, CallShape
<1>3. /\ row[w] \in Policy /\ entry[w] \in Transition /\ receipt[w] \in Payment \cup {Null}
      /\ policies[p] \in Policy /\ transitions[p] \in Seq(Transition)
      /\ payments[p] \in Seq(Payment) /\ rowLock[p] = w
      /\ entry[w].from = policies[p].state /\ entry[w].to = row[w].state
      /\ entry[w].to \in {"accepted", "active"}
      /\ CanTransition(entry[w].from, entry[w].to)
      /\ entry[w].payment = IF receipt[w] = Null THEN Null ELSE Len(payments[p]) + 1
      /\ receipt[w] # Null => entry[w].to = "active"
  BY <1>1, <1>2 DEF TypeOK, RowHeld, LockProtects, WriteLegal
<1> DEFINE accepted == IF row[w].state = "accepted" THEN clock ELSE policies[p].acceptedAt
           activated == IF row[w].state = "active" THEN clock ELSE policies[p].activatedAt
           rr == [policies[p] EXCEPT !.state = row[w].state, !.acceptedAt = accepted,
                                     !.activatedAt = activated]
           tt == Append(transitions[p], entry[w])
           pp == IF receipt[w] = Null THEN payments[p] ELSE Append(payments[p], receipt[w])
<1>4. /\ policies' = [policies EXCEPT ![p] = rr]
      /\ transitions' = [transitions EXCEPT ![p] = tt]
      /\ payments' = [payments EXCEPT ![p] = pp]
      /\ pc' = [pc EXCEPT ![w] = "respond"]
      /\ EndTransaction(w) /\ UNCHANGED <<clock, call, reply>>
  BY <1>1 DEF Commit, Goto, TypeOK
<1>5. rr \in Policy /\ rr.state = entry[w].to /\ rr.state # Null
  <2>1. clock \in Stamp /\ {"accepted", "active"} \subseteq State
    BY <1>1 DEF TypeOK, Stamp, State
  <2>2. accepted \in Stamp /\ activated \in Stamp /\ row[w].state \in State
    BY <1>3, <2>1 DEF Policy
  <2> HIDE DEF accepted, activated
  <2>3. rr \in Policy /\ rr.state = row[w].state
    BY <1>3, <2>2 DEF Policy
  <2> QED
    BY <1>3, <2>2, <2>3, NullAssumption
<1>6. tt \in Seq(Transition) /\ pp \in Seq(Payment)
  BY <1>3, AppendProperties
<1>7. AdminTypeOK'
  BY <1>1, <1>4, <1>5, <1>6, OthersKeepLocks
     DEF AdminInv, AdminTypeOK, TypeOK, PCs, adminVars
<1>8. /\ policies'[p] = rr /\ transitions'[p] = tt /\ payments'[p] = pp
      /\ \A q \in Policies \ {p} : policies'[q] = policies[q]
           /\ transitions'[q] = transitions[q] /\ payments'[q] = payments[q]
  BY <1>1, <1>2, <1>4 DEF TypeOK
<1>9. /\ \A j \in 1..Len(transitions[p]) : j \in 1..Len(tt) /\ tt[j] = transitions[p][j]
      /\ tt[Len(tt)] = entry[w] /\ Len(tt) \in 1..Len(tt) /\ tt # << >>
  <2>1. /\ Len(tt) = Len(transitions[p]) + 1 /\ Len(transitions[p]) \in Nat
        /\ \A j \in 1..Len(transitions[p]) : tt[j] = transitions[p][j]
        /\ tt[Len(transitions[p]) + 1] = entry[w]
    BY <1>3, AppendProperties, LenProperties
  <2>2. Len(<< >>) = 0
    OBVIOUS
  <2> HIDE DEF tt
  <2> QED
    BY <2>1, <2>2
<1>10. transitions[p] # << >>
  <2>1. policies[p].state \notin {Null, "new"}
    BY <1>3, NullAssumption DEF CanTransition, TRANSITIONS, State
  <2> QED
    BY <1>2, <2>1 DEF AdminInv, HistoryFits
<1> HIDE DEF rr, tt, p
<1>11. PaymentsNamed'
  <2>1. ASSUME NEW i \in 1..Len(payments[p])
        PROVE  \E j \in 1..Len(tt) : tt[j].to = "active" /\ tt[j].payment = i
    <3>1. PICK j \in 1..Len(transitions[p]) :
            transitions[p][j].to = "active" /\ transitions[p][j].payment = i
      BY <1>2, <2>1 DEF AdminInv, PaymentsNamed
    <3> QED
      BY <1>9, <3>1
  <2>2. ASSUME NEW i \in 1..Len(pp), i \notin 1..Len(payments[p])
        PROVE  tt[Len(tt)].to = "active" /\ tt[Len(tt)].payment = i
    <3>1. receipt[w] # Null
      BY <2>2
    <3>2. Len(pp) = Len(payments[p]) + 1 /\ Len(payments[p]) \in Nat
      BY <1>3, <3>1, AppendProperties, LenProperties
    <3>3. i = Len(payments[p]) + 1
      <4> HIDE DEF pp
      <4> QED
        BY <2>2, <3>2
    <3> QED
      BY <1>3, <1>9, <3>1, <3>3
  <2> HIDE DEF pp
  <2>3. ASSUME NEW q \in Policies, NEW i \in 1..Len(payments'[q])
        PROVE  \E j \in 1..Len(transitions'[q]) :
                 transitions'[q][j].to = "active" /\ transitions'[q][j].payment = i
    <3>1. CASE q = p
      BY <1>8, <1>9, <2>1, <2>2, <2>3, <3>1
    <3>2. CASE q # p
      BY <1>8, <2>3, <3>2 DEF AdminInv, PaymentsNamed
    <3> QED
      BY <3>1, <3>2
  <2> QED
    BY <2>3 DEF PaymentsNamed
<1> HIDE DEF pp
<1>12. \A q \in Policies : HistoryFits(q)'
  <2> TAKE q \in Policies
  <2>1. CASE q = p
    BY <1>5, <1>8, <1>9, <2>1 DEF HistoryFits, HasRow
  <2>2. CASE q # p
    BY <1>8, <2>2 DEF AdminInv, HistoryFits, HasRow
  <2> QED
    BY <2>1, <2>2
<1>13. ASSUME NEW s \in Staff PROVE FormFits(s)'
  <2>1. \A st : HasRow(transitions[p], st) => HasRow(tt, st)
    BY <1>9 DEF HasRow
  <2>2. ASSUME NEW q \in Policies, policies[q].state # Null \/ q \in deleted
        PROVE  /\ policies'[q].state # Null \/ q \in deleted'
               /\ transitions'[q] = << >> <=> transitions[q] = << >>
               /\ \A st : HasRow(transitions[q], st) => HasRow(transitions'[q], st)
    <3>1. CASE q = p
      BY <1>5, <1>8, <1>9, <1>10, <2>1, <3>1
    <3>2. CASE q # p
      BY <1>8, <2>2, <3>2 DEF adminVars
    <3> QED
      BY <3>1, <3>2
  <2> QED
    BY <2>2, FormStays DEF adminVars
<1>14. RowHeld(w)'
  BY <1>1, <1>2, <1>4, <1>5, OthersKeepLocks
     DEF TypeOK, RowHeld, CallShape, LockProtects, WriteLegal
<1>15. ASSUME NEW v \in Workers \ {w} PROVE RowHeld(v)'
  <2>1. /\ pc'[v] = pc[v] /\ call'[v] = call[v] /\ row'[v] = row[v]
        /\ entry'[v] = entry[v] /\ receipt'[v] = receipt[v]
    BY <1>1, <1>4, OthersKeepLocks DEF TypeOK
  <2>2. \A q \in Policies : rowLock[q] = v => q # p /\ rowLock'[q] = v
    BY <1>1, <1>3, <1>4, OthersKeepLocks
  <2> QED
    BY <1>8, <2>1, <2>2, RowHeldStays
<1> QED
  BY <1>7, <1>11, <1>12, <1>13, <1>14, <1>15 DEF AdminInv

-----------------------------------------------------------------------------
(* The pages. *)

(* A page that writes one row which nobody has locked, or which was not     *)
(* there, leaves every worker in order.                                     *)
LEMMA PageStep ==
    ASSUME AdminInv, UNCHANGED <<services, transitions, payments>>,
           NEW p \in Policies, NEW r \in Policy,
           rowLock[p] = Null \/ policies[p].state = Null,
           policies' = [policies EXCEPT ![p] = r],
           form' \in [Staff -> Form \cup {Null}], forms' \in 0..MaxForms,
           deleted' \subseteq Policies,
           IF transitions[p] = << >>
           THEN r.state \in {Null, "new"} /\ payments[p] = << >>
           ELSE HasRow(transitions[p], r.state),
           r.state # Null \/ p \in deleted',
           \A q \in deleted \ {p} : q \in deleted',
           \A s \in Staff : form'[s] \in {form[s], Null}
    PROVE  AdminInv'
<1>1. TypeOK /\ AdminTypeOK
  BY DEF AdminInv, AdminTypeOK
<1>2. policies'[p] = r /\ \A q \in Policies \ {p} : policies'[q] = policies[q]
  BY <1>1 DEF TypeOK
<1>3. AdminTypeOK'
  BY <1>1 DEF AdminTypeOK, TypeOK, services, locals
<1>4. PaymentsNamed'
  BY DEF AdminInv, PaymentsNamed
<1>5. \A q \in Policies : HistoryFits(q)'
  <2>1. HistoryFits(p)'
    BY <1>2 DEF HistoryFits, HasRow
  <2>2. ASSUME NEW q \in Policies \ {p} PROVE HistoryFits(q)'
    BY <1>2, <2>2 DEF AdminInv, HistoryFits, HasRow
  <2> QED
    BY <2>1, <2>2
<1>6. ASSUME NEW s \in Staff PROVE FormFits(s)'
  <2>1. CASE form'[s] = Null
    BY <2>1 DEF FormFits
  <2>2. CASE form'[s] = form[s]
    BY <1>2, <2>2, FormStays DEF HasRow
  <2> QED
    BY <2>1, <2>2
<1>7. ASSUME NEW v \in Workers PROVE RowHeld(v)'
  <2>1. \A q \in Policies : rowLock[q] = v /\ policies[q].state # Null => q # p
    BY ConstantsAssumption DEF ConstantsAssumption
  <2> QED
    BY <1>2, <2>1, RowHeldStays DEF services, locals
<1> QED
  BY <1>3, <1>4, <1>5, <1>6, <1>7 DEF AdminInv

LEMMA LoadChangeFormKeeps ==
    ASSUME AdminInv, NEW s \in Staff, LoadChangeForm(s)
    PROVE  AdminInv'
<1>1. TypeOK /\ AdminTypeOK
  BY DEF AdminInv, AdminTypeOK
<1>2. PICK p \in Policies :
        policies[p].state # Null /\ form' = [form EXCEPT ![s] = [policy |-> p, row |-> policies[p]]]
  BY DEF LoadChangeForm
<1>3. [policy |-> p, row |-> policies[p]] \in Form
  BY <1>1 DEF Form, TypeOK
<1>4. AdminTypeOK'
  BY <1>1, <1>2, <1>3, AdminAssumption
     DEF LoadChangeForm, AdminTypeOK, TypeOK, services, tables, locals, AdminAssumption
<1>5. UNCHANGED <<services, tables, deleted>>
  BY DEF LoadChangeForm
<1>6. \A t \in Staff \ {s} : FormFits(t)'
  BY <1>1, <1>2, <1>5, FormStays DEF AdminTypeOK, tables, HasRow
<1>7. FormFits(s)'
  <2>1. form'[s] = [policy |-> p, row |-> policies[p]] /\ HistoryFits(p)
    BY <1>1, <1>2 DEF AdminTypeOK, AdminInv
  <2> QED
    BY <1>2, <1>5, <2>1 DEF FormFits, HistoryFits, HasRow, tables
<1>8. \A w \in Workers : RowHeld(w)'
  BY <1>5, RowHeldStays DEF services, locals, tables
<1> QED
  BY <1>4, <1>5, <1>6, <1>7, <1>8, TablesStand DEF AdminInv

LEMMA SaveChangeFormKeeps ==
    ASSUME AdminInv, NEW s \in Staff, SaveChangeForm(s)
    PROVE  AdminInv'
<1>1. AdminTypeOK /\ FormFits(s) /\ form[s] \in Form
  BY DEF AdminInv, AdminTypeOK, SaveChangeForm
<1> DEFINE p == form[s].policy
           r == form[s].row
<1>2. p \in Policies /\ r \in Policy
  BY <1>1 DEF Form
<1>3. /\ rowLock[p] = Null
      /\ policies' = [policies EXCEPT ![p] = r]
      /\ form' = [form EXCEPT ![s] = Null]
      /\ deleted' = deleted \ {p}
      /\ UNCHANGED <<services, transitions, payments, forms>>
  BY DEF SaveChangeForm
<1>4. /\ IF transitions[p] = << >> THEN r.state = "new" ELSE HasRow(transitions[p], r.state)
      /\ policies[p].state # Null \/ p \in deleted
  BY <1>1 DEF FormFits, SaveChangeForm
<1>5. transitions[p] \in Seq(Transition) /\ HistoryFits(p)
  BY <1>1, <1>2 DEF AdminInv, AdminTypeOK, TypeOK
<1>6. r.state # Null
  <2>1. CASE transitions[p] = << >>
    BY <1>4, <2>1, NullAssumption DEF State
  <2>2. CASE transitions[p] # << >>
    <3>1. PICK i \in 1..Len(transitions[p]) : transitions[p][i].to = r.state
      BY <1>4, <2>2 DEF HasRow
    <3>2. transitions[p][i] \in Transition
      BY <1>5, <3>1, ElementOfSeq
    <3> QED
      BY <3>1, <3>2, NullAssumption DEF Transition
  <2> QED
    BY <2>1, <2>2
<1>7. transitions[p] = << >> => payments[p] = << >>
  BY <1>5 DEF HistoryFits
<1>8. /\ form' \in [Staff -> Form \cup {Null}] /\ forms' \in 0..MaxForms
      /\ deleted' \subseteq Policies
      /\ \A t \in Staff : form'[t] \in {form[t], Null}
  BY <1>1, <1>3 DEF AdminTypeOK
<1> HIDE DEF p, r
<1> QED
  BY <1>2, <1>3, <1>4, <1>6, <1>7, <1>8, PageStep

LEMMA AddPolicyKeeps ==
    ASSUME AdminInv, NEW s \in Staff, AddPolicy(s)
    PROVE  AdminInv'
<1> DEFINE r == [Absent EXCEPT !.state = "new"]
<1>1. AdminTypeOK
  BY DEF AdminInv
<1>2. PICK p \in Policies \ deleted :
        policies[p].state = Null /\ policies' = [policies EXCEPT ![p] = r]
  BY DEF AddPolicy
<1>3. r \in Policy /\ r.state = "new" /\ r.state # Null
  BY NullAssumption DEF Absent, Policy, Stamp, State
<1>4. transitions[p] = << >> /\ payments[p] = << >>
  BY <1>2, NoRowNoHistory
<1>5. /\ form' = form /\ deleted' = deleted /\ forms' \in 0..MaxForms
      /\ UNCHANGED <<services, transitions, payments>>
  BY <1>1, AdminAssumption DEF AddPolicy, AdminTypeOK, AdminAssumption
<1> HIDE DEF r
<1> QED
  BY <1>1, <1>2, <1>3, <1>4, <1>5, PageStep DEF AdminTypeOK

LEMMA DeletePolicyKeeps ==
    ASSUME AdminInv, NEW s \in Staff, DeletePolicy(s)
    PROVE  AdminInv'
<1>1. AdminTypeOK
  BY DEF AdminInv
<1>2. PICK p \in Policies :
        /\ rowLock[p] = Null
        /\ transitions[p] = << >> /\ payments[p] = << >>
        /\ policies' = [policies EXCEPT ![p] = Absent]
        /\ deleted' = deleted \cup {p}
  BY DEF DeletePolicy
<1>3. Absent \in Policy /\ Absent.state = Null
  BY DEF Absent, Policy, Stamp
<1>4. /\ form' = form /\ forms' \in 0..MaxForms
      /\ UNCHANGED <<services, transitions, payments>>
  BY <1>1, AdminAssumption DEF DeletePolicy, AdminTypeOK, AdminAssumption
<1> QED
  BY <1>1, <1>2, <1>3, <1>4, PageStep DEF AdminTypeOK

-----------------------------------------------------------------------------
LEMMA NextAdminInv == AdminInv /\ [AdminNext]_allVars => AdminInv'
<1> SUFFICES ASSUME AdminInv, [AdminNext]_allVars PROVE AdminInv'
  OBVIOUS
<1>1. CASE ServicesStep
  <2>1. UNCHANGED adminVars /\ \A p \in deleted : policies'[p] = policies[p]
    BY <1>1 DEF ServicesStep
  <2>2. ASSUME NEW w \in Workers, Serve(w) PROVE AdminInv'
    <3>1. CASE RefuseQuote(w) \/ NoSuchPolicy(w) \/ BadMethod(w)
      BY <2>1, <3>1, RefuseKeeps DEF RefuseQuote, NoSuchPolicy, BadMethod, Codes
    <3> QED
      BY <2>1, <2>2, <3>1, CreateQuoteKeeps, PlainStepsKeep, EndingStepsKeep, LockRowKeeps,
         AcceptAndActivateKeep, CheckPaymentKeeps, InsertPaymentKeeps, CommitKeeps
         DEF Serve
  <2> QED
    BY <1>1, <2>1, <2>2, PlainStepsKeep, EndingStepsKeep, TickKeeps DEF ServicesStep, Next
<1>2. ASSUME NEW w \in Workers, LockMissingRow(w) PROVE AdminInv'
  BY <1>2, RefuseKeeps DEF LockMissingRow, Codes
<1>3. CASE UNCHANGED allVars
  BY <1>3, TickKeeps DEF allVars, adminVars
<1> QED
  BY <1>1, <1>2, <1>3, LoadChangeFormKeeps, SaveChangeFormKeeps, AddPolicyKeeps,
     DeletePolicyKeeps DEF AdminNext

(* What survives staff pages that write rows beside the services, for any   *)
(* number of policies, workers and staff, and however many pages.           *)
THEOREM AdminInvHolds == AdminSpec => []AdminInv
<1>1. AdminInit => AdminInv
  <2> SUFFICES ASSUME AdminInit PROVE AdminInv
    OBVIOUS
  <2>1. TypeOK /\ \A p \in Policies : policies[p].state = Null
    BY InitIndInv DEF AdminInit, IndInv, Init, Absent
  <2>2. AdminTypeOK
    BY <2>1, AdminAssumption DEF AdminInit, AdminTypeOK, AdminAssumption
  <2>3. PaymentsNamed /\ \A p \in Policies : HistoryFits(p)
    BY <2>1 DEF AdminInit, Init, PaymentsNamed, HistoryFits
  <2>4. \A s \in Staff : FormFits(s)
    BY DEF AdminInit, FormFits
  <2>5. \A w \in Workers : RowHeld(w)
    BY DEF AdminInit, Init, RowHeld, CallShape, LockProtects, WriteLegal
  <2> QED
    BY <2>2, <2>3, <2>4, <2>5 DEF AdminInv
<1> QED
  BY <1>1, NextAdminInv, PTL DEF AdminSpec

(* A page can turn a policy back to a state it has been in, and to no other.*)
THEOREM StatesWereReal == AdminSpec => []StateWasReal
<1>1. AdminInv => StateWasReal
  BY DEF AdminInv, HistoryFits, HasRow, StateWasReal
<1> QED
  BY <1>1, AdminInvHolds, PTL

(* No service moves, charges or binds a policy the add page made.           *)
THEOREM AddedPoliciesStayInert == AdminSpec => []AddedPoliciesInert
<1>1. AdminInv => AddedPoliciesInert
  BY DEF AdminInv, HistoryFits, AddedPoliciesInert
<1> QED
  BY <1>1, AdminInvHolds, PTL

(* A payment keeps the activation that names it, whatever a page saves.     *)
THEOREM PaymentsStayNamed == AdminSpec => []PaymentsNamed
<1>1. AdminInv => PaymentsNamed
  BY DEF AdminInv
<1> QED
  BY <1>1, AdminInvHolds, PTL

(* No page and no service takes away or rewrites a row of history.          *)
THEOREM HistoryOnlyGrows == AdminSpec => HistoryAppendOnly
<1> DEFINE Longer(p) ==
      /\ Len(transitions[p]) <= Len(transitions'[p])
      /\ \A i \in 1..Len(transitions[p]) : transitions'[p][i] = transitions[p][i]
<1>1. ASSUME AdminInv, [AdminNext]_allVars, NEW p \in Policies PROVE Longer(p)
  <2>1. TypeOK /\ transitions[p] \in Seq(Transition) /\ Len(transitions[p]) \in Nat
    BY <1>1, LenProperties DEF AdminInv, AdminTypeOK, TypeOK
  <2>2. CASE transitions' = transitions
    BY <2>1, <2>2
  <2>3. ASSUME NEW w \in Workers, CreateQuote(w) PROVE Longer(p)
    <3>1. PICK q \in Policies :
            /\ policies[q].state = Null
            /\ \A o \in Policies \ {q} : transitions'[o] = transitions[o]
            /\ transitions'[q] \in Seq(Transition)
      <4>1. PICK q \in Policies : policies[q].state = Null
              /\ transitions' = [transitions EXCEPT ![q] =
                   << [from |-> Null, to |-> "new", source |-> Source(call[w]), payment |-> Null],
                      [from |-> "new", to |-> "quoted", source |-> Source(call[w]),
                       payment |-> Null] >>]
        BY <2>3 DEF CreateQuote
      <4>2. call[w] \in Requests
        BY <1>1, <2>1, <2>3 DEF AdminInv, RowHeld, CallShape, TypeOK, CreateQuote
      <4>3. /\ [from |-> Null, to |-> "new", source |-> Source(call[w]), payment |-> Null]
                 \in Transition
            /\ [from |-> "new", to |-> "quoted", source |-> Source(call[w]), payment |-> Null]
                 \in Transition
        BY <4>2, RequestFields DEF Transition, State, Stamp
      <4> QED
        BY <2>1, <4>1, <4>3 DEF TypeOK
    <3>2. CASE p = q
      <4>1. transitions[p] = << >>
        BY <1>1, <3>1, <3>2, NoRowNoHistory
      <4>2. Len(<< >>) = 0 /\ Len(transitions'[p]) \in Nat
        BY <3>1, <3>2, LenProperties
      <4> QED
        BY <4>1, <4>2
    <3>3. CASE p # q
      BY <2>1, <3>1, <3>3
    <3> QED
      BY <3>2, <3>3
  <2>4. ASSUME NEW w \in Workers, Commit(w) PROVE Longer(p)
    <3>1. /\ call[w].policy \in Policies /\ entry[w] \in Transition
          /\ transitions' = [transitions EXCEPT ![call[w].policy] = Append(@, entry[w])]
      BY <1>1, <2>1, <2>4, RequestFields
         DEF AdminInv, RowHeld, CallShape, WriteLegal, TypeOK, Commit
    <3>2. CASE p = call[w].policy
      BY <2>1, <3>1, <3>2, AppendProperties DEF TypeOK
    <3>3. CASE p # call[w].policy
      BY <2>1, <3>1, <3>3 DEF TypeOK
    <3> QED
      BY <3>2, <3>3
  <2>5. ASSUME NEW w \in Workers, Serve(w), ~CreateQuote(w), ~Commit(w)
        PROVE  transitions' = transitions
    BY <2>5 DEF Serve, RefuseQuote, NoSuchPolicy, BadMethod, GetPolicy, ReadHistory,
                LockRow, AcceptQuote, ApplyTransition, CheckPayment, InsertPayment,
                Activate, Respond, Refuse, tables
  <2>6. ASSUME ServicesStep, \A w \in Workers : ~CreateQuote(w) /\ ~Commit(w)
        PROVE  transitions' = transitions
    BY <2>5, <2>6 DEF ServicesStep, Next, Receive, Finish, Crash, Tick, tables
  <2>7. CASE AdminNext /\ ~ServicesStep
    BY <2>2, <2>7 DEF AdminNext, LockMissingRow, Refuse, LoadChangeForm, SaveChangeForm,
       AddPolicy, DeletePolicy, tables
  <2>8. CASE UNCHANGED allVars
    BY <2>2, <2>8 DEF allVars, vars
  <2> QED
    BY <1>1, <2>2, <2>3, <2>4, <2>6, <2>7, <2>8
<1>2. AdminInv /\ [AdminNext]_allVars =>
        [ \A p \in Policies :
            /\ Len(transitions[p]) <= Len(transitions'[p])
            /\ \A i \in 1..Len(transitions[p]) : transitions'[p][i] = transitions[p][i] ]_allVars
  BY <1>1
<1> QED
  BY <1>2, AdminInvHolds, PTL DEF AdminSpec, HistoryAppendOnly
=============================================================================
