--------------------------- MODULE QuoteViewsProofs ---------------------------
(***************************************************************************)
(* Scope, trail and error codes hold for any number of requests under way  *)
(* and whatever staff change under them: ViewsInv is inductive.            *)
(***************************************************************************)
EXTENDS QuoteViews, SequenceTheorems, TLAPS

-----------------------------------------------------------------------------
(* What a request means. *)

LEMMA MeaningFields ==
    ASSUME NEW r \in Requests
    PROVE  /\ r # Null /\ r.by \in Users \cup {Anon} /\ r.route \in Routes
           /\ r.route \in AdminRoutes => r.by # Anon
           /\ Meaning(r).op = "create" =>
                Meaning(r).customer \in Customers /\ Meaning(r).type \in {"known", "unknown"}
           /\ Meaning(r).op \in {"accept", "pay", "bind", "read"} => Meaning(r).policy \in Policies
<1> HIDE DEF Meaning
<1> QED
  BY ViewsAssumption DEF ViewsAssumption

\* Only the route for it makes a customer.
LEMMA CustomerRoute ==
    ASSUME NEW r \in Requests, Meaning(r).op = "customer"
    PROVE  r.route = "create_customer"
<1>1. \A body : CreateMeaning(body).op # "customer"
  BY DEF CreateMeaning, Create, Invalid
<1>2. \A body : TransitionMeaning(body).op # "customer"
  BY DEF TransitionMeaning, AcceptOf, PayOf, Invalid
<1>3. \A body : Dispatch(body).op # "customer"
  <2> HIDE DEF CreateMeaning, TransitionMeaning
  <2> QED
    BY <1>1, <1>2 DEF Dispatch, Invalid
<1>4. \A p, body : PayAlias(p, body).op # "customer" /\ AcceptOf(p).op # "customer"
  BY DEF PayAlias, PayOf, AcceptOf
<1>5. r.route \in Routes
  BY MeaningFields
<1> HIDE DEF CreateMeaning, Dispatch, PayAlias, AcceptOf
<1> QED
  BY <1>1, <1>3, <1>4, <1>5 DEF Meaning, Routes, AdminRoutes

\* Who a request runs for, and what it is about.
LEMMA SubjectIsCustomer ==
    ASSUME ViewsTypeOK, NEW r \in Requests, Subject(r) # Null
    PROVE  Subject(r) \in Customers
<1> HIDE DEF Meaning
<1> QED
  BY MeaningFields DEF Subject, Exists

\* The scope of the code is the one of the documentation.
LEMMA ScopeIsSeen ==
    ASSUME NEW who, who.user = Anon => demoOpen, NEW c
    PROVE  InScope(who, c) <=> Sees(who.user, who.role, c)
BY DEF InScope, Sees, Privileged

-----------------------------------------------------------------------------
(* Frames. *)

\* What was seen or hidden during a call stays so.
LEMMA Watched ==
    ASSUME Watch, NEW w \in Workers, request'[w] # Null
    PROVE  /\ pc[w] # "idle" /\ seen[w] => seen'[w]
           /\ pc[w] # "idle" /\ unseen[w] => unseen'[w]
           /\ pc[w] # "answered" /\ Visible(w)' => seen'[w]
           /\ pc[w] # "answered" /\ Hidden(w)' => unseen'[w]
<1> HIDE DEF Visible, Hidden
<1>1. seen'[w] = (request'[w] # Null /\ IF pc[w] = "answered" THEN seen[w]
                                        ELSE (pc[w] # "idle" /\ seen[w]) \/ Visible(w)')
  BY DEF Watch
<1>2. unseen'[w] = (request'[w] # Null /\ IF pc[w] = "answered" THEN unseen[w]
                                          ELSE (pc[w] # "idle" /\ unseen[w]) \/ Hidden(w)')
  BY DEF Watch
<1> QED
  BY <1>1, <1>2

CallInv(w) == RequestHeld(w) /\ AnswerInScope(w) /\ BareExplained(w)

Places == {"idle", "admitted", "found", "priced", "answered"}

Holds == {"sound", "lost", "taken", Null}

\* The call of v stands as it was, though a row it names may go or a value it needs be taken.
Waits(v) ==
    /\ pc'[v] = pc[v] /\ request'[v] = request[v] /\ principal'[v] = principal[v]
    /\ answer'[v] = answer[v]
    /\ hold'[v] = hold[v] \/ hold'[v] \in {"lost", "taken"}

(* What no step does: make a deleted account, customer or policy come back, *)
(* or take the customer of a policy away.                                   *)
Lasting ==
    /\ demoOpen' = demoOpen
    /\ \A c \in Customers : /\ customers[c] # "unmade" => customers'[c] # "unmade"
                            /\ customers[c] = "deleted" => customers'[c] = "deleted"
    /\ \A p \in Policies : /\ owner[p] # Null => owner'[p] # Null
                           /\ owner[p] = "deleted" => owner'[p] = "deleted"
    /\ \A u \in Users : role[u] = Null => role'[u] = Null

LEMMA CallStays ==
    ASSUME ViewsInv, Watch, Lasting, NEW v \in Workers, Waits(v)
    PROVE  CallInv(v)'
<1> HIDE DEF Meaning
<1>1. /\ RequestHeld(v) /\ AnswerInScope(v) /\ BareExplained(v)
      /\ request[v] \in Requests \cup {Null} /\ pc[v] \in Places
  BY DEF ViewsInv, ViewsTypeOK, Places
<1>2. CASE pc[v] = "idle"
  <2>1. answer'[v] # "bare"
    BY <1>1, <1>2, NullIsNoCode DEF RequestHeld, Codes, Waits
  <2> QED
    BY <1>1, <1>2, <2>1 DEF CallInv, RequestHeld, AnswerInScope, BareExplained, Waits
<1>3. CASE pc[v] # "idle"
  <2>1. request[v] \in Requests /\ request[v] # Null
    BY <1>1, <1>3 DEF RequestHeld
  <2>2. (seen[v] => seen'[v]) /\ (unseen[v] => unseen'[v])
    BY <1>3, <2>1, Watched DEF Waits
  <2>3. RequestHeld(v)'
    BY <1>1, <2>1, <2>2, MeaningFields DEF RequestHeld, Lasting, Waits
  <2>4. AnswerInScope(v)'
    BY <1>1, <2>2 DEF AnswerInScope, Waits
  <2>5. BareExplained(v)'
    BY <1>1, <2>1, MeaningFields DEF BareExplained, Gone, Lasting, Waits
  <2> QED
    BY <2>3, <2>4, <2>5 DEF CallInv
<1> QED
  BY <1>2, <1>3

LEMMA TypesStay ==
    ASSUME ViewsTypeOK, UNCHANGED <<policyVars, accountVars, demoOpen>>,
           pc' \in [Workers -> Places],
           request' \in [Workers -> Requests \cup {Null}],
           principal' \in [Workers -> Principal \cup {Null}],
           answer' \in [Workers -> Codes \cup {Null}],
           hold' \in [Workers -> Holds]
    PROVE  ViewsTypeOK'
BY DEF ViewsTypeOK, policyVars, accountVars, book, Made, Exists, Places, Holds

LEMMA TrailStays ==
    ASSUME TrailNamesAuthors, UNCHANGED <<actors, authors, role, demoOpen>>
    PROVE  TrailNamesAuthors'
BY DEF TrailNamesAuthors

(* A step of w that leaves accounts, customers and policies alone keeps     *)
(* ViewsInv if it keeps the types and leaves the call of w in order.        *)
LEMMA CallStep ==
    ASSUME ViewsInv, ViewsTypeOK', Watch, NEW w \in Workers, CallInv(w)',
           UNCHANGED <<policyVars, accountVars, demoOpen>>,
           \A v \in Workers \ {w} : Waits(v)
    PROVE  ViewsInv'
<1>1. Lasting
  BY DEF Lasting, policyVars, accountVars
<1>2. \A v \in Workers \ {w} : CallInv(v)'
  BY <1>1, CallStays
<1>3. TrailNamesAuthors'
  BY TrailStays DEF ViewsInv, policyVars, accountVars
<1> QED
  BY <1>2, <1>3 DEF ViewsInv, CallInv

-----------------------------------------------------------------------------
(* Answers. *)

(* An answer to a call that was let in keeps the call in order if a success *)
(* is one in scope, a "not found" one out of it, and a bare error explained.*)
LEMMA AnswerFits ==
    ASSUME ViewsInv, Watch, NEW w \in Workers, pc[w] \in {"admitted", "found", "priced"},
           NEW code \in Codes, Answer(w, code),
           code = "ok" /\ request[w].route \notin AdminRoutes
             /\ request[w].route # "create_customer" => seen'[w],
           code = "not_found" /\ request[w].route \notin AdminRoutes => unseen'[w],
           code = "bare" => BareExplained(w)'
    PROVE  CallInv(w)'
<1> HIDE DEF Meaning
<1>1. /\ pc'[w] = "answered" /\ answer'[w] = code
      /\ request'[w] = request[w] /\ request[w] # Null
  BY DEF Answer, ViewsInv, ViewsTypeOK, RequestHeld
<1> QED
  BY <1>1 DEF CallInv, RequestHeld, AnswerInScope, BareExplained

LEMMA AnswerTypes ==
    ASSUME ViewsTypeOK, NEW w \in Workers, NEW code \in Codes, Answer(w, code)
    PROVE  /\ pc' \in [Workers -> Places]
           /\ request' \in [Workers -> Requests \cup {Null}]
           /\ principal' \in [Workers -> Principal \cup {Null}]
           /\ answer' \in [Workers -> Codes \cup {Null}]
           /\ hold' \in [Workers -> Holds]
           /\ demoOpen' = demoOpen /\ demoOpen' \in BOOLEAN
           /\ request' = request /\ principal' = principal /\ hold' = hold
           /\ \A v \in Workers \ {w} : Waits(v)
BY DEF Answer, ViewsTypeOK, Places, Holds, Waits

LEMMA AnswerStep ==
    ASSUME ViewsInv, Watch, NEW w \in Workers, pc[w] \in {"admitted", "found", "priced"},
           NEW code \in Codes, Answer(w, code), UNCHANGED <<policyVars, accountVars>>,
           code = "ok" /\ request[w].route \notin AdminRoutes
             /\ request[w].route # "create_customer" => seen'[w],
           code = "not_found" /\ request[w].route \notin AdminRoutes => unseen'[w],
           code = "bare" => BareExplained(w)'
    PROVE  ViewsInv'
<1>1. ViewsTypeOK
  BY DEF ViewsInv
<1>2. UNCHANGED <<policyVars, accountVars, demoOpen>>
  BY DEF Answer
<1>3. ViewsTypeOK'
  BY <1>1, <1>2, AnswerTypes, TypesStay
<1> QED
  BY <1>1, <1>2, <1>3, AnswerFits, AnswerTypes, CallStep

LEMMA RefusePayloadStep ==
    ASSUME ViewsInv, NEW w \in Workers, RefusePayload(w)
    PROVE  ViewsInv'
<1> HIDE DEF Meaning
<1>1. CodeOf("ValidationError") = "validation_error" /\ "validation_error" \in Codes
  BY DEF CodeOf, Codes
<1> QED
  BY <1>1, AnswerStep DEF RefusePayload

\* A call that goes on with what it holds in order keeps ViewsInv.
LEMMA GotoStep ==
    ASSUME ViewsInv, Watch, NEW w \in Workers, pc[w] \in {"admitted", "found"},
           NEW label \in {"found", "priced"}, Goto(w, label),
           UNCHANGED <<policyVars, accountVars>>, RequestHeld(w)'
    PROVE  ViewsInv'
<1> HIDE DEF Meaning
<1>1. ViewsTypeOK /\ RequestHeld(w) /\ UNCHANGED <<policyVars, accountVars, demoOpen>>
  BY DEF ViewsInv, Goto
<1>2. /\ pc' = [pc EXCEPT ![w] = label] /\ hold' = [hold EXCEPT ![w] = "sound"]
      /\ UNCHANGED <<request, principal, answer>>
  BY DEF Goto
<1>3. ViewsTypeOK'
  BY <1>1, <1>2, TypesStay DEF ViewsTypeOK, Places, Holds
<1>4. CallInv(w)'
  <2>1. pc'[w] = label /\ answer'[w] = Null
    BY <1>1, <1>2 DEF ViewsTypeOK, RequestHeld
  <2>2. answer'[w] # "bare"
    BY <2>1, NullIsNoCode DEF Codes
  <2> QED
    BY <2>1, <2>2 DEF CallInv, AnswerInScope, BareExplained
<1>5. \A v \in Workers \ {w} : Waits(v)
  BY <1>1, <1>2 DEF ViewsTypeOK, Waits
<1> QED
  BY <1>1, <1>3, <1>4, <1>5, CallStep

LEMMA LookUpStep ==
    ASSUME ViewsInv, NEW w \in Workers, LookUp(w)
    PROVE  ViewsInv'
<1> HIDE DEF Meaning
<1> DEFINE m == Meaning(request[w])
           c == Subject(request[w])
           admin == request[w].route \in AdminRoutes
<1>1. /\ ViewsTypeOK /\ RequestHeld(w) /\ Watch /\ pc[w] = "admitted"
      /\ m.op \in {"create", "accept", "pay", "bind", "read"}
      /\ UNCHANGED <<policyVars, accountVars>>
  BY DEF ViewsInv, LookUp
<1>2. /\ request[w] \in Requests /\ request[w] # Null /\ principal[w] # Null
      /\ principal[w].user = Anon => demoOpen
  BY <1>1 DEF ViewsTypeOK, RequestHeld
<1>3. /\ request' = request /\ principal' = principal /\ demoOpen' = demoOpen
  BY DEF LookUp, Answer, Goto
<1>4. Visible(w)' <=> c # Null /\ InScope(principal[w], c)
  <2>1. Subject(request[w])' = c
    BY <1>1, <1>3 DEF Subject, policyVars, accountVars, Made, Exists
  <2>2. \A who, d : Sees(who.user, who.role, d)' <=> Sees(who.user, who.role, d)
    BY <1>1, <1>3 DEF Sees, accountVars
  <2>3. InScope(principal[w], c) <=> Sees(principal[w].user, principal[w].role, c)
    BY <1>2, ScopeIsSeen
  <2> QED
    BY <1>2, <1>3, <2>1, <2>3, <1>1 DEF Visible, Sees, accountVars
<1>5. /\ Visible(w)' => seen'[w]
      /\ ~Visible(w)' => unseen'[w]
  <2>1. ~Visible(w)' => Hidden(w)'
    BY <1>2, <1>3 DEF Hidden
  <2> QED
    BY <1>1, <1>2, <1>3, <2>1, Watched
<1>6. CASE ~(c # Null /\ (admin \/ InScope(principal[w], c)))
  <2>1. Answer(w, "not_found") /\ "not_found" \in Codes
    BY <1>6 DEF LookUp, CodeOf, Codes
  <2> QED
    BY <1>1, <1>4, <1>5, <1>6, <2>1, AnswerStep
<1>7. CASE c # Null /\ (admin \/ InScope(principal[w], c)) /\ m.op = "read"
  <2>1. Answer(w, "ok") /\ "ok" \in Codes
    BY <1>7 DEF LookUp, Codes
  <2> QED
    BY <1>1, <1>4, <1>5, <1>7, <2>1, AnswerStep
<1>8. CASE c # Null /\ (admin \/ InScope(principal[w], c)) /\ m.op # "read"
  <2>1. Goto(w, "found")
    BY <1>8 DEF LookUp
  <2>2. /\ m.op = "create" => customers[m.customer] # "unmade"
        /\ m.op \in {"accept", "pay", "bind"} => owner[m.policy] # Null
    BY <1>1, <1>8, ViewsAssumption DEF Subject, Made, Exists, ViewsAssumption
  <2>3. RequestHeld(w)'
    <3>1. pc'[w] = "found" /\ answer'[w] = Null /\ hold'[w] = "sound"
      BY <1>1, <2>1 DEF Goto, ViewsTypeOK, RequestHeld
    <3> QED
      BY <1>1, <1>2, <1>3, <1>4, <1>5, <1>8, <2>2, <3>1
         DEF RequestHeld, policyVars, accountVars
  <2> QED
    BY <1>1, <2>1, <2>3, GotoStep
<1> QED
  BY <1>6, <1>7, <1>8

LEMMA ReceiveStep ==
    ASSUME ViewsInv, NEW w \in Workers, Receive(w)
    PROVE  ViewsInv'
<1> HIDE DEF Meaning
<1>1. /\ ViewsTypeOK /\ RequestHeld(w) /\ Watch /\ pc[w] = "idle" /\ answer[w] = Null
      /\ UNCHANGED <<policyVars, accountVars, demoOpen, hold>>
  BY DEF ViewsInv, Receive, RequestHeld
<1>2. PICK r \in Requests :
        LET who == [user |-> r.by, role |-> IF r.by = Anon THEN Null ELSE role[r.by]]
            refusal == IF r.by = Anon \/ Gone(r.by) THEN "NotAuthenticated" ELSE "PermissionDenied"
        IN /\ request' = [request EXCEPT ![w] = r]
           /\ principal' = [principal EXCEPT ![w] = IF Gone(r.by) THEN Null ELSE who]
           /\ IF ~Gone(r.by) /\ Admits(r.route, who)
              THEN pc' = [pc EXCEPT ![w] = "admitted"] /\ UNCHANGED answer
              ELSE /\ pc' = [pc EXCEPT ![w] = "answered"]
                   /\ answer' = [answer EXCEPT ![w] = CodeOf(refusal)]
  BY DEF Receive
<1> DEFINE who == [user |-> r.by, role |-> IF r.by = Anon THEN Null ELSE role[r.by]]
           refusal == IF r.by = Anon \/ Gone(r.by) THEN "NotAuthenticated" ELSE "PermissionDenied"
<1>3. /\ CodeOf(refusal) \in Codes
      /\ CodeOf(refusal) \notin {"ok", "not_found", "bare"}
  BY DEF CodeOf, Codes
<1>4. r # Null /\ r.by \in Users \cup {Anon}
  BY MeaningFields
<1>5. who \in Principal /\ who # Null
  <2>1. who.role \in Roles \cup {Null}
    BY <1>1, <1>4 DEF ViewsTypeOK
  <2>2. who \in Principal
    BY <1>4, <2>1 DEF Principal
  <2> QED
    BY <2>2, ViewsAssumption DEF ViewsAssumption
<1>6. /\ request' \in [Workers -> Requests \cup {Null}]
      /\ principal' \in [Workers -> Principal \cup {Null}]
      /\ request'[w] = r /\ principal'[w] = IF Gone(r.by) THEN Null ELSE who
      /\ \A v \in Workers \ {w} : request'[v] = request[v] /\ principal'[v] = principal[v]
  <2> HIDE DEF who, refusal
  <2> QED
    BY <1>1, <1>2, <1>5 DEF ViewsTypeOK, who, refusal
<1>7. /\ pc' \in [Workers -> Places]
      /\ answer' \in [Workers -> Codes \cup {Null}]
      /\ \A v \in Workers \ {w} : pc'[v] = pc[v] /\ answer'[v] = answer[v]
  <2>1. PICK label \in {"admitted", "answered"}, code \in Codes \cup {Null} :
          /\ pc' = [pc EXCEPT ![w] = label]
          /\ answer' = [answer EXCEPT ![w] = code]
    <3>1. CASE ~Gone(r.by) /\ Admits(r.route, who)
      <4>1. pc' = [pc EXCEPT ![w] = "admitted"] /\ answer' = answer
        BY <1>2, <3>1
      <4>2. answer' = [answer EXCEPT ![w] = Null]
        BY <1>1, <4>1 DEF ViewsTypeOK
      <4> QED
        BY <4>1, <4>2
    <3>2. CASE ~(~Gone(r.by) /\ Admits(r.route, who))
      <4>1. pc' = [pc EXCEPT ![w] = "answered"] /\ answer' = [answer EXCEPT ![w] = CodeOf(refusal)]
        BY <1>2, <3>2
      <4> HIDE DEF refusal
      <4> QED
        BY <1>3, <4>1
    <3> QED
      BY <3>1, <3>2
  <2> QED
    BY <1>1, <2>1 DEF ViewsTypeOK, Places
<1>8. ViewsTypeOK'
  BY <1>1, <1>6, <1>7, TypesStay DEF ViewsTypeOK, Holds
<1>9. CallInv(w)'
  <2>1. CASE ~Gone(r.by) /\ Admits(r.route, who)
    <3>1. pc'[w] = "admitted" /\ answer'[w] = Null
      BY <1>1, <1>2, <2>1 DEF ViewsTypeOK
    <3>2. r.by = Anon => demoOpen'
      BY <1>1, <2>1 DEF Admits
    <3>3. answer'[w] # "bare"
      BY <3>1, NullIsNoCode DEF Codes
    <3>4. principal'[w] # Null /\ principal'[w].user = r.by
      BY <1>5, <1>6, <2>1
    <3> QED
      BY <1>4, <1>6, <3>1, <3>2, <3>3, <3>4
         DEF CallInv, RequestHeld, AnswerInScope, BareExplained
  <2>2. CASE ~(~Gone(r.by) /\ Admits(r.route, who))
    <3>1. pc'[w] = "answered" /\ answer'[w] = CodeOf(refusal)
      BY <1>1, <1>2, <2>2 DEF ViewsTypeOK
    <3> QED
      BY <1>3, <1>4, <1>6, <3>1 DEF CallInv, RequestHeld, AnswerInScope, BareExplained
  <2> QED
    BY <2>1, <2>2
<1>10. \A v \in Workers \ {w} : Waits(v)
  BY <1>1, <1>6, <1>7 DEF Waits
<1> QED
  BY <1>1, <1>8, <1>9, <1>10, CallStep

LEMMA RefuseCallStep ==
    ASSUME ViewsInv, NEW w \in Workers, RefuseCall(w)
    PROVE  ViewsInv'
<1> HIDE DEF Meaning
<1>1. PICK code \in {"validation_error", "invalid_state_transition"} : Answer(w, code)
  BY DEF RefuseCall, CodeOf
<1>2. code \in Codes
  BY DEF Codes
<1> QED
  BY <1>1, <1>2, AnswerStep DEF RefuseCall

LEMMA MissRowStep ==
    ASSUME ViewsInv, NEW w \in Workers, MissRow(w)
    PROVE  ViewsInv'
<1> HIDE DEF Meaning
<1> DEFINE m == Meaning(request[w])
<1>1. /\ ViewsTypeOK /\ RequestHeld(w) /\ Watch /\ pc[w] = "found"
      /\ m.op \in {"accept", "pay", "bind"} /\ ~Exists(m.policy)
      /\ UNCHANGED <<policyVars, accountVars>> /\ Answer(w, "bare") /\ "bare" \in Codes
  BY DEF ViewsInv, MissRow, CodeOf, Codes
<1>2. m.policy \in Policies /\ owner[m.policy] # Null
  BY <1>1, MeaningFields DEF RequestHeld, ViewsTypeOK
<1>3. owner[m.policy] = "deleted"
  BY <1>1, <1>2 DEF ViewsTypeOK, Exists
<1>4. BareExplained(w)'
  BY <1>1, <1>3 DEF Answer, policyVars, BareExplained
<1> QED
  BY <1>1, <1>4, AnswerStep

LEMMA RollBackStep ==
    ASSUME ViewsInv, NEW w \in Workers, RollBack(w)
    PROVE  ViewsInv'
<1> HIDE DEF Meaning
<1> DEFINE m == Meaning(request[w])
<1>1. /\ ViewsTypeOK /\ RequestHeld(w) /\ Watch /\ pc[w] \in {"found", "priced"} /\ ~RowsHold(w)
      /\ UNCHANGED <<policyVars, accountVars>> /\ Answer(w, "bare") /\ "bare" \in Codes
  BY DEF ViewsInv, RollBack, CodeOf, Codes
<1>2. BareExplained(w)'
  <2>1. request' = request /\ role' = role /\ customers' = customers /\ hold' = hold
    BY <1>1 DEF Answer, accountVars
  <2>2. CASE Gone(principal[w].user)
    BY <1>1, <2>1, <2>2 DEF RequestHeld, BareExplained, Gone
  <2>3. CASE m.op = "create" /\ ~Made(m.customer)
    <3>1. customers[m.customer] = "deleted"
      BY <1>1, <2>3 DEF RequestHeld, Made
    <3> QED
      BY <2>1, <2>3, <3>1 DEF BareExplained
  <2>4. CASE hold[w] # "sound"
    <3>1. hold[w] \in {"lost", "taken"}
      BY <1>1, <2>4 DEF RequestHeld, ViewsTypeOK
    <3> QED
      BY <2>1, <3>1 DEF BareExplained
  <2> QED
    BY <1>1, <2>2, <2>3, <2>4 DEF RowsHold
<1> QED
  BY <1>1, <1>2, AnswerStep

LEMMA FinishStep ==
    ASSUME ViewsInv, NEW w \in Workers, Finish(w)
    PROVE  ViewsInv'
<1> HIDE DEF Meaning
<1>1. ViewsTypeOK /\ Watch /\ UNCHANGED <<policyVars, accountVars, demoOpen>>
  BY DEF ViewsInv, Finish
<1>2. /\ pc' = [pc EXCEPT ![w] = "idle"] /\ request' = [request EXCEPT ![w] = Null]
      /\ principal' = [principal EXCEPT ![w] = Null] /\ answer' = [answer EXCEPT ![w] = Null]
      /\ hold' = [hold EXCEPT ![w] = Null]
  BY DEF Finish
<1>3. ViewsTypeOK'
  BY <1>1, <1>2, TypesStay DEF ViewsTypeOK, Places, Holds
<1>4. CallInv(w)'
  <2>1. pc'[w] = "idle" /\ answer'[w] = Null /\ answer'[w] # "bare"
    BY <1>1, <1>2, NullIsNoCode DEF ViewsTypeOK, Codes
  <2> QED
    BY <2>1 DEF CallInv, RequestHeld, AnswerInScope, BareExplained
<1>5. \A v \in Workers \ {w} : Waits(v)
  BY <1>1, <1>2 DEF ViewsTypeOK, Waits
<1> QED
  BY <1>1, <1>3, <1>4, <1>5, CallStep

-----------------------------------------------------------------------------
(* Calls that change the book. *)

(* The rows a call adds to a trail name the account it runs for, which      *)
(* exists; those that were there keep their names.                          *)
LEMMA Signed ==
    ASSUME ViewsInv, NEW w \in Workers, pc[w] \in {"found", "priced"}, RowsHold(w),
           Meaning(request[w]).op # "customer",
           NEW p \in Policies, Sign(w, p),
           trail' \in [Policies -> Seq(TrailRow)],
           \A q \in Policies \ {p} : trail'[q] = trail[q],
           UNCHANGED <<role, demoOpen>>
    PROVE  /\ actors' \in [Policies -> Seq(Users \cup {Null})]
           /\ authors' \in [Policies -> Seq(Users \cup {Anon})]
           /\ \A q \in Policies :
                /\ Len(actors'[q]) = Len(trail'[q]) /\ Len(authors'[q]) = Len(trail'[q])
                /\ \A i \in DOMAIN actors'[q] : actors'[q][i] # Null => role'[actors'[q][i]] # Null
           /\ TrailNamesAuthors'
<1> HIDE DEF Meaning
<1> DEFINE user == principal[w].user
           named == Actor(principal[w])
           k == Len(trail'[p])
<1>1. ViewsTypeOK /\ TrailNamesAuthors /\ RequestHeld(w)
  BY DEF ViewsInv
<1>2. /\ user \in Users \cup {Anon} /\ named = (IF user = Anon THEN Null ELSE user)
      /\ user = Anon => demoOpen
      /\ user # Anon => role[user] # Null
      /\ Null \notin Users /\ Anon \notin Users /\ Anon # Null
  <2>1. principal[w] \in Principal
    BY <1>1 DEF RequestHeld, ViewsTypeOK
  <2>2. user \in Users \cup {Anon}
    BY <2>1 DEF Principal
  <2>3. user = Anon => demoOpen
    BY <1>1 DEF RequestHeld
  <2>4. user # Anon => role[user] # Null
    BY DEF RowsHold, Gone
  <2> QED
    BY <2>2, <2>3, <2>4, ViewsAssumption DEF Actor, ViewsAssumption
<1>3. k \in Nat /\ Len(trail[p]) = Len(actors[p]) /\ Len(trail[p]) = Len(authors[p])
      /\ actors[p] \in Seq(Users \cup {Null}) /\ authors[p] \in Seq(Users \cup {Anon})
  BY <1>1, LenProperties DEF ViewsTypeOK
<1> DEFINE a == [i \in 1..k |-> IF i \in DOMAIN actors[p] THEN actors[p][i] ELSE named]
           b == [i \in 1..k |-> IF i \in DOMAIN authors[p] THEN authors[p][i] ELSE user]
<1>4. actors' = [actors EXCEPT ![p] = a] /\ authors' = [authors EXCEPT ![p] = b]
  BY DEF Sign
<1>5. /\ DOMAIN actors[p] = 1..Len(actors[p]) /\ DOMAIN authors[p] = 1..Len(authors[p])
      /\ \A i \in DOMAIN actors[p] : actors[p][i] \in Users \cup {Null}
      /\ \A i \in DOMAIN authors[p] : authors[p][i] \in Users \cup {Anon}
  BY <1>3, LenProperties, ElementOfSeq, ZenonT(40)
<1> HIDE DEF user, named, k
<1>6. /\ a \in Seq(Users \cup {Null}) /\ Len(a) = k /\ DOMAIN a = 1..k
      /\ b \in Seq(Users \cup {Anon}) /\ Len(b) = k /\ DOMAIN b = 1..k
  <2>1. a \in [1..k -> Users \cup {Null}]
    BY <1>2, <1>5
  <2>2. b \in [1..k -> Users \cup {Anon}]
    BY <1>2, <1>5
  <2>3. \A S : \A f \in [1..k -> S] : f \in Seq(S) /\ Len(f) = k /\ DOMAIN f = 1..k
    BY <1>3
  <2> HIDE DEF a, b
  <2> QED
    BY <2>1, <2>2, <2>3
<1>7. \A i \in 1..k :
        /\ a[i] = IF i \in DOMAIN actors[p] THEN actors[p][i] ELSE named
        /\ b[i] = IF i \in DOMAIN authors[p] THEN authors[p][i] ELSE user
  OBVIOUS
<1> HIDE DEF a, b
<1>8. /\ actors'[p] = a /\ authors'[p] = b
      /\ \A q \in Policies \ {p} : actors'[q] = actors[q] /\ authors'[q] = authors[q]
  BY <1>1, <1>4 DEF ViewsTypeOK
<1>9. /\ actors' \in [Policies -> Seq(Users \cup {Null})]
      /\ authors' \in [Policies -> Seq(Users \cup {Anon})]
  BY <1>1, <1>4, <1>6 DEF ViewsTypeOK
<1>10. \A q \in Policies :
         /\ Len(actors'[q]) = Len(trail'[q]) /\ Len(authors'[q]) = Len(trail'[q])
         /\ \A i \in DOMAIN actors'[q] : actors'[q][i] # Null => role'[actors'[q][i]] # Null
  <2>1. \A i \in 1..k : a[i] # Null => role[a[i]] # Null
    BY <1>1, <1>2, <1>5, <1>7, ElementOfSeq, SMTT(30) DEF ViewsTypeOK
  <2>2. Len(a) = Len(trail'[p]) /\ Len(b) = Len(trail'[p])
    BY <1>6 DEF k
  <2>3. ASSUME NEW q \in Policies, q # p
        PROVE  /\ Len(actors'[q]) = Len(trail'[q]) /\ Len(authors'[q]) = Len(trail'[q])
               /\ \A i \in DOMAIN actors'[q] :
                    actors'[q][i] # Null => role'[actors'[q][i]] # Null
    <3>1. actors'[q] = actors[q] /\ authors'[q] = authors[q] /\ trail'[q] = trail[q]
      BY <1>8, <2>3
    <3> QED
      BY <1>1, <3>1 DEF ViewsTypeOK
  <2>4. \A i \in DOMAIN actors'[p] : actors'[p][i] # Null => role'[actors'[p][i]] # Null
    BY <1>6, <1>8, <2>1
  <2> QED
    BY <1>8, <2>2, <2>3, <2>4
<1>11. TrailNamesAuthors'
  <2>1. \A i \in 1..k :
          /\ b[i] = Anon => demoOpen /\ a[i] = Null
          /\ b[i] # Anon => a[i] = IF role[b[i]] = Null THEN Null ELSE b[i]
    <3> TAKE i \in 1..k
    <3>1. i \in DOMAIN actors[p] <=> i \in DOMAIN authors[p]
      BY <1>3, <1>5
    <3>2. CASE i \in DOMAIN authors[p]
      BY <1>1, <1>7, <3>1, <3>2 DEF TrailNamesAuthors
    <3>3. CASE i \notin DOMAIN authors[p]
      BY <1>2, <1>7, <3>1, <3>3
    <3> QED
      BY <3>2, <3>3
  <2> QED
    BY <1>1, <1>6, <1>8, <2>1 DEF TrailNamesAuthors
<1> QED
  BY <1>9, <1>10, <1>11

(* A step that answers the call of w in order and otherwise only moves on   *)
(* what Lasting lets it.                                                    *)
LEMMA ServiceStep ==
    ASSUME ViewsInv, ViewsTypeOK', TrailNamesAuthors', Watch, Lasting,
           NEW w \in Workers, NEW code \in Codes, Answer(w, code), CallInv(w)'
    PROVE  ViewsInv'
<1>1. \A v \in Workers \ {w} : Waits(v)
  BY AnswerTypes DEF ViewsInv
<1>2. \A v \in Workers \ {w} : CallInv(v)'
  BY <1>1, CallStays
<1> QED
  BY <1>2 DEF ViewsInv, CallInv

\* Success in a call that found what it asked for is success in scope.
LEMMA SuccessFits ==
    ASSUME ViewsInv, Watch, NEW w \in Workers, pc[w] \in {"found", "priced"}, Answer(w, "ok")
    PROVE  CallInv(w)' /\ "ok" \in Codes
<1> HIDE DEF Meaning
<1>1. /\ RequestHeld(w) /\ request[w] \in Requests /\ request[w] # Null /\ request' = request
  BY DEF ViewsInv, ViewsTypeOK, RequestHeld, Answer
<1>2. request[w].route \notin AdminRoutes /\ request[w].route # "create_customer" => seen'[w]
  BY <1>1, CustomerRoute, Watched DEF RequestHeld
<1>3. "ok" \in Codes
  BY DEF Codes
<1> QED
  BY <1>2, <1>3, AnswerFits

LEMMA CheckFormStep ==
    ASSUME ViewsInv, NEW w \in Workers, CheckForm(w)
    PROVE  ViewsInv'
<1> HIDE DEF Meaning
<1>1. /\ ViewsTypeOK /\ RequestHeld(w) /\ Watch /\ pc[w] = "admitted"
      /\ Meaning(request[w]).op = "customer" /\ UNCHANGED <<policyVars, accountVars>>
  BY DEF ViewsInv, CheckForm
<1>2. CASE Answer(w, CodeOf("ValidationError"))
  <2>1. CodeOf("ValidationError") = "validation_error" /\ "validation_error" \in Codes
    BY DEF CodeOf, Codes
  <2> QED
    BY <1>1, <1>2, <2>1, AnswerStep
<1>3. CASE Goto(w, "found")
  <2>1. /\ pc'[w] = "found" /\ answer'[w] = Null /\ hold'[w] = "sound" /\ demoOpen' = demoOpen
        /\ request'[w] = request[w] /\ principal'[w] = principal[w]
    BY <1>1, <1>3 DEF Goto, ViewsTypeOK, RequestHeld
  <2>2. RequestHeld(w)'
    BY <1>1, <2>1 DEF RequestHeld
  <2> QED
    BY <1>1, <1>3, <2>2, GotoStep
<1> QED
  BY <1>2, <1>3 DEF CheckForm

LEMMA PriceStep ==
    ASSUME ViewsInv, NEW w \in Workers, Price(w)
    PROVE  ViewsInv'
<1> HIDE DEF Meaning
<1>1. /\ ViewsTypeOK /\ RequestHeld(w) /\ Watch /\ pc[w] = "found" /\ Goto(w, "priced")
      /\ Meaning(request[w]).op = "create" /\ UNCHANGED <<policyVars, accountVars>>
  BY DEF ViewsInv, Price
<1>2. /\ pc'[w] = "priced" /\ answer'[w] = Null /\ hold'[w] = "sound" /\ demoOpen' = demoOpen
      /\ request'[w] = request[w] /\ principal'[w] = principal[w] /\ request[w] # Null
  BY <1>1 DEF Goto, ViewsTypeOK, RequestHeld
<1>3. seen[w] => seen'[w]
  BY <1>1, <1>2, Watched
<1>4. RequestHeld(w)'
  BY <1>1, <1>2, <1>3 DEF RequestHeld, accountVars
<1> QED
  BY <1>1, <1>4, GotoStep

LEMMA CreateCustomerStep ==
    ASSUME ViewsInv, NEW w \in Workers, CreateCustomer(w)
    PROVE  ViewsInv'
<1> HIDE DEF Meaning
<1>1. /\ ViewsTypeOK /\ TrailNamesAuthors /\ Watch /\ pc[w] = "found"
      /\ UNCHANGED <<policyVars, role>> /\ Answer(w, "ok")
  BY DEF ViewsInv, CreateCustomer
<1>2. PICK c \in Customers : /\ customers[c] = "unmade"
                             /\ customers' = [customers EXCEPT ![c] = Null]
  BY DEF CreateCustomer
<1>3. "ok" \in Codes /\ Null \notin Users \cup {"unmade", "deleted"} /\ "unmade" \notin Users
  BY ViewsAssumption DEF ViewsAssumption, Codes
<1>4. ViewsTypeOK'
  <2>1. customers' \in [Customers -> Users \cup {Null, "unmade", "deleted"}]
    BY <1>1, <1>2 DEF ViewsTypeOK
  <2>2. \A d \in Customers : (customers[d] \notin {"unmade", "deleted"})
                              => (customers'[d] \notin {"unmade", "deleted"})
    BY <1>1, <1>2, <1>3 DEF ViewsTypeOK
  <2>3. \A d \in Customers : customers'[d] \in Users => customers'[d] = customers[d]
    BY <1>1, <1>2, <1>3 DEF ViewsTypeOK
  <2>4. \A p \in Policies : Exists(p) => Made(owner[p])'
    BY <1>1, <2>2 DEF ViewsTypeOK, Made, Exists, policyVars
  <2>5. \A d, e \in Customers : customers'[d] \in Users =>
          /\ role[customers'[d]] # Null
          /\ customers'[e] = customers'[d] => d = e
    BY <1>1, <2>3 DEF ViewsTypeOK
  <2> QED
    BY <1>1, <1>3, <2>1, <2>4, <2>5, AnswerTypes
       DEF ViewsTypeOK, policyVars, book, Made, Exists, Places, Holds
<1>5. Lasting
  BY <1>1, <1>2, <1>3, AnswerTypes DEF Lasting, policyVars, ViewsTypeOK
<1>6. TrailNamesAuthors'
  BY <1>1, TrailStays DEF policyVars, Answer
<1> QED
  BY <1>1, <1>3, <1>4, <1>5, <1>6, SuccessFits, ServiceStep

\* The book keeps its types when one policy changes.
LEMMA BookTypes ==
    ASSUME ViewsTypeOK, NEW p \in Policies, owner'[p] \in Customers, owner'[p] # Null,
           Made(owner'[p]), NEW st \in State, st # Null,
           state' = [state EXCEPT ![p] = st],
           trail' \in [Policies -> Seq(TrailRow)], receipts' \in [Policies -> Seq(Receipt)],
           owner' \in [Policies -> Customers \cup {Null, "deleted"}],
           \A q \in Policies \ {p} : owner'[q] = owner[q],
           actors' \in [Policies -> Seq(Users \cup {Null})],
           authors' \in [Policies -> Seq(Users \cup {Anon})],
           \A q \in Policies :
             /\ Len(actors'[q]) = Len(trail'[q]) /\ Len(authors'[q]) = Len(trail'[q])
             /\ \A i \in DOMAIN actors'[q] : actors'[q][i] # Null => role'[actors'[q][i]] # Null,
           UNCHANGED accountVars,
           NEW w \in Workers, Answer(w, "ok")
    PROVE  ViewsTypeOK'
<1>1. "ok" \in Codes
  BY DEF Codes
<1>2. /\ state' \in [Policies -> State \cup {Null}]
      /\ \A q \in Policies : owner'[q] \in Customers <=> state'[q] # Null
  BY DEF ViewsTypeOK, Exists
<1>3. role' = role /\ customers' = customers
  BY DEF accountVars
<1>4. \A q \in Policies :
        owner'[q] \in Customers => customers'[owner'[q]] \notin {"unmade", "deleted"}
  BY <1>3 DEF ViewsTypeOK, Made, Exists
<1> QED
  BY <1>1, <1>2, <1>3, <1>4, AnswerTypes, SMTT(30)
     DEF ViewsTypeOK, Made, Exists, Places, Holds

LEMMA CreateQuoteStep ==
    ASSUME ViewsInv, NEW w \in Workers, CreateQuote(w)
    PROVE  ViewsInv'
<1> HIDE DEF Meaning
<1> DEFINE m == Meaning(request[w])
           source == Source(request[w])
<1>1. /\ ViewsTypeOK /\ RequestHeld(w) /\ Watch /\ pc[w] = "priced" /\ m.op = "create"
      /\ RowsHold(w) /\ Answer(w, "ok") /\ UNCHANGED accountVars
      /\ source \in Sources /\ request[w] \in Requests
  BY DEF ViewsInv, CreateQuote, Source, Sources, ViewsTypeOK, RequestHeld
<1>2. PICK p \in Policies : /\ owner[p] = Null /\ Book!Quote(p, source)
                            /\ owner' = [owner EXCEPT ![p] = m.customer]
                            /\ Sign(w, p)
  BY DEF CreateQuote
<1>3. m.customer \in Customers /\ Made(m.customer) /\ Null \notin Customers /\ Null \notin State
  BY <1>1, MeaningFields, ViewsAssumption, NullAssumption DEF RowsHold, ViewsAssumption
<1>4. /\ state[p] = Null /\ state' = [state EXCEPT ![p] = "quoted"]
      /\ trail' = [trail EXCEPT ![p] = << Book!Row(Null, "new", source, Null),
                                          Book!Row("new", "quoted", source, Null) >>]
      /\ receipts' = receipts
  BY <1>2 DEF Book!Quote
<1>5. trail' \in [Policies -> Seq(TrailRow)]
  <2>1. /\ Book!Row(Null, "new", source, Null) \in TrailRow
        /\ Book!Row("new", "quoted", source, Null) \in TrailRow
    BY <1>1 DEF Book!Row, TrailRow, State
  <2> QED
    BY <1>1, <1>4, <2>1 DEF ViewsTypeOK
<1>6. /\ UNCHANGED <<role, demoOpen>> /\ customers' = customers
      /\ \A q \in Policies \ {p} : trail'[q] = trail[q]
  BY <1>1, <1>4 DEF accountVars, Answer, ViewsTypeOK
<1>7. /\ owner' \in [Policies -> Customers \cup {Null, "deleted"}]
      /\ owner'[p] = m.customer
      /\ \A q \in Policies \ {p} : owner'[q] = owner[q]
  BY <1>1, <1>2, <1>3 DEF ViewsTypeOK
<1>8. /\ actors' \in [Policies -> Seq(Users \cup {Null})]
      /\ authors' \in [Policies -> Seq(Users \cup {Anon})]
      /\ \A q \in Policies :
           /\ Len(actors'[q]) = Len(trail'[q]) /\ Len(authors'[q]) = Len(trail'[q])
           /\ \A i \in DOMAIN actors'[q] : actors'[q][i] # Null => role'[actors'[q][i]] # Null
      /\ TrailNamesAuthors'
  BY <1>1, <1>2, <1>5, <1>6, Signed
<1>9. ViewsTypeOK'
  <2>1. "quoted" \in State /\ "quoted" # Null
    BY <1>3 DEF State
  <2>2. receipts' \in [Policies -> Seq(Receipt)]
    BY <1>1, <1>4 DEF ViewsTypeOK
  <2> QED
    BY <1>1, <1>3, <1>4, <1>5, <1>7, <1>8, <2>1, <2>2, BookTypes
<1>10. Lasting
  <2>1. owner[p] # "deleted"
    BY <1>2, ViewsAssumption DEF ViewsAssumption
  <2> QED
    BY <1>3, <1>6, <1>7, <2>1 DEF Lasting
<1> QED
  BY <1>1, <1>8, <1>9, <1>10, SuccessFits, ServiceStep

LEMMA MovePolicyStep ==
    ASSUME ViewsInv, NEW w \in Workers, MovePolicy(w)
    PROVE  ViewsInv'
<1> HIDE DEF Meaning
<1> DEFINE m == Meaning(request[w])
           source == Source(request[w])
           p == m.policy
<1>1. /\ ViewsTypeOK /\ RequestHeld(w) /\ Watch /\ pc[w] = "found"
      /\ m.op \in {"accept", "pay", "bind"}
      /\ RowsHold(w) /\ Answer(w, "ok") /\ UNCHANGED <<accountVars, owner>> /\ Sign(w, p)
      /\ source \in Sources /\ request[w] \in Requests
  BY DEF ViewsInv, MovePolicy, Source, Sources, ViewsTypeOK, RequestHeld
<1>2. p \in Policies /\ Null \notin State /\ Null \notin Customers
  BY <1>1, MeaningFields, NullAssumption, ViewsAssumption DEF ViewsAssumption
<1>3. owner[p] \in Customers /\ Made(owner[p]) /\ state[p] \in State
      /\ trail[p] \in Seq(TrailRow) /\ receipts[p] \in Seq(Receipt)
  <2>1. state[p] \in {"quoted", "accepted"}
    BY DEF MovePolicy, Book!Accept, Book!PayAndBind, Book!BindByHand
  <2>2. state[p] \in State /\ Exists(p)
    BY <1>1, <1>2, <2>1, SMTT(30) DEF ViewsTypeOK, State
  <2> QED
    BY <1>1, <1>2, <2>2 DEF ViewsTypeOK, Exists
<1>4. PICK st \in {"accepted", "active"}, n \in Nat \cup {Null} :
        /\ state' = [state EXCEPT ![p] = st]
        /\ trail' = [trail EXCEPT ![p] = Append(@, Book!Row(state[p], st, source, n))]
        /\ receipts' \in [Policies -> Seq(Receipt)]
  <2>1. CASE m.op = "accept" /\ Book!Accept(p, source)
    BY <1>1, <2>1 DEF Book!Accept, Book!Move, ViewsTypeOK
  <2>2. CASE m.op = "bind" /\ Book!BindByHand(p, source)
    BY <1>1, <2>2 DEF Book!BindByHand, Book!Move, ViewsTypeOK
  <2>3. CASE m.op = "pay" /\ m.method \in Methods /\ Book!PayAndBind(p, m.method, Null, source)
    <3>1. /\ receipts' = [receipts EXCEPT ![p] = Append(@, [method |-> m.method, key |-> Null])]
          /\ state' = [state EXCEPT ![p] = "active"]
          /\ trail' = [trail EXCEPT ![p] =
                          Append(@, Book!Row(state[p], "active", source, Len(receipts[p]) + 1))]
      BY <2>3 DEF Book!PayAndBind, Book!Move
    <3>2. [method |-> m.method, key |-> Null] \in Receipt
      BY <2>3 DEF Receipt
    <3>3. Append(receipts[p], [method |-> m.method, key |-> Null]) \in Seq(Receipt)
      BY <1>3, <3>2, AppendProperties
    <3>4. receipts' \in [Policies -> Seq(Receipt)]
      BY <1>1, <3>1, <3>3 DEF ViewsTypeOK
    <3>5. Len(receipts[p]) + 1 \in Nat
      BY <1>3, LenProperties
    <3> QED
      BY <3>1, <3>4, <3>5
  <2> QED
    BY <2>1, <2>2, <2>3 DEF MovePolicy
<1>5. trail' \in [Policies -> Seq(TrailRow)]
  <2> DEFINE row == Book!Row(state[p], st, source, n)
  <2>1. row \in TrailRow
    BY <1>1, <1>3 DEF Book!Row, TrailRow, State
  <2>2. Append(trail[p], row) \in Seq(TrailRow)
    BY <1>3, <2>1, AppendProperties
  <2>3. trail' = [trail EXCEPT ![p] = Append(trail[p], row)]
    BY <1>4
  <2> HIDE DEF row
  <2> QED
    BY <1>1, <2>2, <2>3 DEF ViewsTypeOK
<1>6. /\ UNCHANGED <<role, demoOpen>> /\ customers' = customers /\ owner' = owner
      /\ \A q \in Policies \ {p} : trail'[q] = trail[q]
  BY <1>1, <1>4 DEF accountVars, Answer, ViewsTypeOK
<1>7. /\ actors' \in [Policies -> Seq(Users \cup {Null})]
      /\ authors' \in [Policies -> Seq(Users \cup {Anon})]
      /\ \A q \in Policies :
           /\ Len(actors'[q]) = Len(trail'[q]) /\ Len(authors'[q]) = Len(trail'[q])
           /\ \A i \in DOMAIN actors'[q] : actors'[q][i] # Null => role'[actors'[q][i]] # Null
      /\ TrailNamesAuthors'
  BY <1>1, <1>2, <1>5, <1>6, Signed, SMTT(30)
<1>8. ViewsTypeOK'
  <2>1. st \in State /\ st # Null
    BY <1>2 DEF State
  <2>2. owner' \in [Policies -> Customers \cup {Null, "deleted"}] /\ owner[p] # Null
    BY <1>1, <1>2, <1>3, <1>6 DEF ViewsTypeOK
  <2> QED
    BY <1>1, <1>2, <1>3, <1>4, <1>5, <1>6, <1>7, <2>1, <2>2, BookTypes
<1>9. Lasting
  BY <1>6 DEF Lasting
<1> QED
  BY <1>1, <1>7, <1>8, <1>9, SuccessFits, ServiceStep

-----------------------------------------------------------------------------
(* What staff change while calls are under way. *)

LEMMA StaffStep ==
    ASSUME ViewsInv, ViewsTypeOK', TrailNamesAuthors', Watch, Lasting, UNCHANGED callVars
    PROVE  ViewsInv'
<1>1. \A v \in Workers : CallInv(v)'
  BY CallStays DEF callVars, Waits
<1> QED
  BY <1>1 DEF ViewsInv, CallInv

LEMMA SetRoleStep ==
    ASSUME ViewsInv, NEW u \in Users, SetRole(u)
    PROVE  ViewsInv'
<1>1. /\ ViewsTypeOK /\ TrailNamesAuthors /\ Watch /\ role[u] # Null
      /\ UNCHANGED <<policyVars, customers, demoOpen, callVars>>
  BY DEF ViewsInv, SetRole
<1>2. PICK r \in Given : role' = [role EXCEPT ![u] = r]
  BY DEF SetRole
<1>3. r \in Roles /\ r # Null
  BY ViewsAssumption DEF ViewsAssumption
<1>4. /\ role' \in [Users -> Roles \cup {Null}]
      /\ \A v \in Users : role'[v] = Null <=> role[v] = Null
  BY <1>1, <1>2, <1>3 DEF ViewsTypeOK
<1>5. ViewsTypeOK'
  <2>1. \A p \in Policies : \A i \in DOMAIN actors[p] :
          actors[p][i] # Null => role'[actors[p][i]] # Null
    <3> TAKE p \in Policies
    <3> TAKE i \in DOMAIN actors[p]
    <3>1. actors[p][i] \in Users \cup {Null}
      BY <1>1, ElementOfSeq, LenProperties DEF ViewsTypeOK
    <3> QED
      BY <1>1, <1>4, <3>1 DEF ViewsTypeOK
  <2> QED
    BY <1>1, <1>4, <2>1 DEF ViewsTypeOK, policyVars, book, callVars, Made, Exists
<1>6. TrailNamesAuthors'
  <2> SUFFICES ASSUME NEW p \in Policies, NEW i \in DOMAIN authors[p]
               PROVE  /\ authors[p][i] = Anon => demoOpen /\ actors[p][i] = Null
                      /\ authors[p][i] # Anon =>
                           actors[p][i] = IF role'[authors[p][i]] = Null THEN Null
                                          ELSE authors[p][i]
    BY <1>1 DEF TrailNamesAuthors, policyVars
  <2>1. authors[p][i] \in Users \cup {Anon}
    BY <1>1, ElementOfSeq, LenProperties DEF ViewsTypeOK
  <2> QED
    BY <1>1, <1>4, <2>1 DEF TrailNamesAuthors
<1>7. Lasting
  BY <1>1, <1>4 DEF Lasting, policyVars
<1> QED
  BY <1>1, <1>5, <1>6, <1>7, StaffStep

LEMMA LinkCustomerStep ==
    ASSUME ViewsInv, NEW c \in Customers, LinkCustomer(c)
    PROVE  ViewsInv'
<1>1. /\ ViewsTypeOK /\ TrailNamesAuthors /\ Watch /\ Made(c)
      /\ UNCHANGED <<policyVars, role, demoOpen, callVars>>
  BY DEF ViewsInv, LinkCustomer
<1>2. PICK u \in Users \cup {Null} :
        /\ u # Null => role[u] # Null /\ \A d \in Customers \ {c} : customers[d] # u
        /\ customers' = [customers EXCEPT ![c] = u]
  BY DEF LinkCustomer
<1>3. u \notin {"unmade", "deleted"} /\ Null \notin Users
  BY ViewsAssumption DEF ViewsAssumption
<1>4. /\ customers' \in [Customers -> Users \cup {Null, "unmade", "deleted"}]
      /\ customers'[c] = u /\ \A d \in Customers \ {c} : customers'[d] = customers[d]
  BY <1>1, <1>2 DEF ViewsTypeOK
<1>5. ViewsTypeOK'
  <2>1. \A p \in Policies : Exists(p) => customers'[owner[p]] \notin {"unmade", "deleted"}
    BY <1>1, <1>3, <1>4 DEF ViewsTypeOK, Made, Exists
  <2>2. \A d, e \in Customers : customers'[d] \in Users =>
          role[customers'[d]] # Null /\ (customers'[e] = customers'[d] => d = e)
    <3>1. \A d \in Customers \ {c} : customers'[d] \in Users =>
            role[customers'[d]] # Null /\ customers'[d] # u
      BY <1>1, <1>2, <1>3, <1>4 DEF ViewsTypeOK
    <3>2. customers'[c] \in Users => role[customers'[c]] # Null
      BY <1>2, <1>3, <1>4
    <3>3. \A d, e \in Customers \ {c} : customers'[d] \in Users /\ customers'[e] = customers'[d] => d = e
      BY <1>1, <1>4 DEF ViewsTypeOK
    <3> QED
      BY <1>4, <3>1, <3>2, <3>3
  <2> QED
    BY <1>1, <1>4, <2>1, <2>2 DEF ViewsTypeOK, policyVars, book, callVars, Made, Exists
<1>6. TrailNamesAuthors'
  BY <1>1, TrailStays DEF policyVars
<1>7. Lasting
  BY <1>1, <1>3, <1>4 DEF Lasting, policyVars, Made
<1> QED
  BY <1>1, <1>5, <1>6, <1>7, StaffStep

LEMMA DeleteAccountStep ==
    ASSUME ViewsInv, NEW u \in Users, DeleteAccount(u)
    PROVE  ViewsInv'
<1>1. /\ ViewsTypeOK /\ TrailNamesAuthors /\ Watch /\ role[u] # Null
      /\ UNCHANGED <<book, owner, authors, demoOpen, callVars>>
  BY DEF ViewsInv, DeleteAccount
<1>2. Null \notin Users /\ Anon \notin Users /\ Anon # Null /\ Null \notin Roles
      /\ Null \notin {"unmade", "deleted"} /\ "unmade" \notin Users /\ "deleted" \notin Users
  BY ViewsAssumption DEF ViewsAssumption
<1>3. /\ role' \in [Users -> Roles \cup {Null}] /\ role'[u] = Null
      /\ \A v \in Users \ {u} : role'[v] = role[v]
  BY <1>1 DEF DeleteAccount, ViewsTypeOK
<1>4. /\ customers' \in [Customers -> Users \cup {Null, "unmade", "deleted"}]
      /\ \A c \in Customers : customers'[c] = IF customers[c] = u THEN Null ELSE customers[c]
  BY <1>1 DEF DeleteAccount, ViewsTypeOK
<1>5. /\ actors' \in [Policies -> Seq(Users \cup {Null})]
      /\ \A p \in Policies :
           /\ DOMAIN actors'[p] = DOMAIN actors[p] /\ Len(actors'[p]) = Len(actors[p])
           /\ \A i \in DOMAIN actors[p] :
                /\ actors[p][i] \in Users \cup {Null}
                /\ actors'[p][i] = IF actors[p][i] = u THEN Null ELSE actors[p][i]
  <2> DEFINE left(p) == [i \in DOMAIN actors[p] |-> IF actors[p][i] = u THEN Null ELSE actors[p][i]]
  <2>1. ASSUME NEW p \in Policies
        PROVE  /\ left(p) \in Seq(Users \cup {Null}) /\ Len(left(p)) = Len(actors[p])
               /\ \A i \in DOMAIN actors[p] : actors[p][i] \in Users \cup {Null}
    <3>1. /\ actors[p] \in Seq(Users \cup {Null}) /\ Len(actors[p]) \in Nat
          /\ DOMAIN actors[p] = 1..Len(actors[p])
          /\ \A i \in 1..Len(actors[p]) : actors[p][i] \in Users \cup {Null}
      BY <1>1, LenProperties, ElementOfSeq DEF ViewsTypeOK
    <3>2. left(p) = [i \in 1..Len(actors[p]) |-> IF actors[p][i] = u THEN Null ELSE actors[p][i]]
      BY <3>1
    <3> HIDE DEF left
    <3> QED
      BY <3>1, <3>2
  <2>2. actors' = [p \in Policies |-> left(p)]
    BY DEF DeleteAccount
  <2>3. \A p \in Policies : /\ DOMAIN left(p) = DOMAIN actors[p]
                            /\ \A i \in DOMAIN actors[p] :
                                 left(p)[i] = IF actors[p][i] = u THEN Null ELSE actors[p][i]
    OBVIOUS
  <2> HIDE DEF left
  <2> QED
    BY <2>1, <2>2, <2>3
<1>6. ViewsTypeOK'
  <2>1. \A p \in Policies : Exists(p) => customers'[owner[p]] \notin {"unmade", "deleted"}
    BY <1>1, <1>2, <1>4 DEF ViewsTypeOK, Made, Exists
  <2>2. \A p \in Policies : \A i \in DOMAIN actors'[p] :
          actors'[p][i] # Null => role'[actors'[p][i]] # Null
    BY <1>1, <1>2, <1>3, <1>5 DEF ViewsTypeOK
  <2>3. \A d, e \in Customers : customers'[d] \in Users =>
          role'[customers'[d]] # Null /\ (customers'[e] = customers'[d] => d = e)
    <3> TAKE d, e \in Customers
    <3> HAVE customers'[d] \in Users
    <3>1. customers'[d] = customers[d] /\ customers[d] # u
      BY <1>2, <1>3, <1>4
    <3>2. customers'[e] = customers'[d] => customers[e] = customers[d]
      BY <1>2, <1>4, <3>1
    <3>3. role[customers[d]] # Null /\ (customers[e] = customers[d] => d = e)
      BY <1>1, <3>1 DEF ViewsTypeOK
    <3> QED
      BY <1>3, <3>1, <3>2, <3>3
  <2> QED
    BY <1>1, <1>3, <1>4, <1>5, <2>1, <2>2, <2>3 DEF ViewsTypeOK, book, callVars, Made, Exists
<1>7. TrailNamesAuthors'
  <2> SUFFICES ASSUME NEW p \in Policies, NEW i \in DOMAIN authors[p]
               PROVE  /\ authors[p][i] = Anon => demoOpen /\ actors'[p][i] = Null
                      /\ authors[p][i] # Anon =>
                           actors'[p][i] = IF role'[authors[p][i]] = Null THEN Null
                                           ELSE authors[p][i]
    BY <1>1 DEF TrailNamesAuthors
  <2>1. authors[p][i] \in Users \cup {Anon} /\ i \in DOMAIN actors[p]
    BY <1>1, ElementOfSeq, LenProperties DEF ViewsTypeOK
  <2>2. actors'[p][i] = IF actors[p][i] = u THEN Null ELSE actors[p][i]
    BY <1>5, <2>1
  <2>3. /\ authors[p][i] = Anon => demoOpen /\ actors[p][i] = Null
        /\ authors[p][i] # Anon =>
             actors[p][i] = IF role[authors[p][i]] = Null THEN Null ELSE authors[p][i]
    BY <1>1 DEF TrailNamesAuthors
  <2> QED
    BY <1>1, <1>2, <1>3, <2>1, <2>2, <2>3
<1>8. Lasting
  BY <1>1, <1>2, <1>3, <1>4 DEF Lasting, ViewsTypeOK
<1> QED
  BY <1>1, <1>6, <1>7, <1>8, StaffStep

LEMMA DeleteCustomerStep ==
    ASSUME ViewsInv, NEW c \in Customers, DeleteCustomer(c)
    PROVE  ViewsInv'
<1>1. /\ ViewsTypeOK /\ TrailNamesAuthors /\ Watch /\ Made(c) /\ \A p \in Policies : owner[p] # c
      /\ customers' = [customers EXCEPT ![c] = "deleted"]
      /\ UNCHANGED <<policyVars, role, demoOpen, callVars>>
  BY DEF ViewsInv, DeleteCustomer
<1>2. "deleted" \notin Users
  BY ViewsAssumption DEF ViewsAssumption
<1>3. /\ customers' \in [Customers -> Users \cup {Null, "unmade", "deleted"}]
      /\ customers'[c] = "deleted" /\ \A d \in Customers \ {c} : customers'[d] = customers[d]
  BY <1>1 DEF ViewsTypeOK
<1>4. ViewsTypeOK'
  <2>1. \A p \in Policies : Exists(p) => customers'[owner[p]] \notin {"unmade", "deleted"}
    BY <1>1, <1>3 DEF ViewsTypeOK, Made, Exists
  <2>2. \A d, e \in Customers : customers'[d] \in Users =>
          role[customers'[d]] # Null /\ (customers'[e] = customers'[d] => d = e)
    BY <1>1, <1>2, <1>3 DEF ViewsTypeOK
  <2> QED
    BY <1>1, <1>3, <2>1, <2>2 DEF ViewsTypeOK, policyVars, book, callVars, Made, Exists
<1>5. TrailNamesAuthors'
  BY <1>1, TrailStays DEF policyVars
<1>6. Lasting
  BY <1>1, <1>3 DEF Lasting, policyVars
<1> QED
  BY <1>1, <1>4, <1>5, <1>6, StaffStep

\* The types hold when one policy gets another owner, or none any more.
LEMMA OwnerTypes ==
    ASSUME ViewsTypeOK, NEW p \in Policies, NEW c \in Customers \cup {"deleted"},
           NEW st \in State \cup {Null}, c \in Customers <=> st # Null,
           c \in Customers => Made(c),
           owner' = [owner EXCEPT ![p] = c], state' = [state EXCEPT ![p] = st],
           UNCHANGED <<trail, receipts, actors, authors, accountVars, demoOpen, callVars>>
    PROVE  ViewsTypeOK'
<1>1. /\ owner' \in [Policies -> Customers \cup {Null, "deleted"}]
      /\ state' \in [Policies -> State \cup {Null}]
  BY DEF ViewsTypeOK
<1>2. \A q \in Policies :
        /\ owner'[q] \in Customers <=> state'[q] # Null
        /\ owner'[q] \in Customers => customers[owner'[q]] \notin {"unmade", "deleted"}
  BY DEF ViewsTypeOK, Made, Exists
<1> QED
  BY <1>1, <1>2 DEF ViewsTypeOK, accountVars, callVars, Made, Exists

LEMMA MoveOwnerStep ==
    ASSUME ViewsInv, NEW p \in Policies, MoveOwner(p)
    PROVE  ViewsInv'
<1>1. /\ ViewsTypeOK /\ TrailNamesAuthors /\ Watch /\ Exists(p)
      /\ UNCHANGED <<book, actors, authors, accountVars, demoOpen, callVars>>
  BY DEF ViewsInv, MoveOwner
<1>2. PICK c \in Customers : Made(c) /\ owner' = [owner EXCEPT ![p] = c]
  BY DEF MoveOwner
<1>3. c # Null /\ owner[p] # "deleted" /\ state[p] # Null
  BY <1>1, ViewsAssumption DEF ViewsAssumption, Exists, ViewsTypeOK
<1>4. state' = [state EXCEPT ![p] = state[p]] /\ state[p] \in State \cup {Null}
  BY <1>1 DEF book, ViewsTypeOK
<1>5. ViewsTypeOK'
  BY <1>1, <1>2, <1>3, <1>4, OwnerTypes DEF book
<1>6. TrailNamesAuthors'
  BY <1>1, TrailStays DEF accountVars
<1>7. Lasting
  BY <1>1, <1>2, <1>3 DEF Lasting, accountVars, ViewsTypeOK
<1> QED
  BY <1>1, <1>5, <1>6, <1>7, StaffStep

LEMMA AddPolicyStep ==
    ASSUME ViewsInv, NEW p \in Policies, AddPolicy(p)
    PROVE  ViewsInv'
<1>1. /\ ViewsTypeOK /\ TrailNamesAuthors /\ Watch /\ owner[p] = Null
      /\ state' = [state EXCEPT ![p] = "new"]
      /\ UNCHANGED <<trail, receipts, actors, authors, accountVars, demoOpen, callVars>>
  BY DEF ViewsInv, AddPolicy
<1>2. PICK c \in Customers : Made(c) /\ owner' = [owner EXCEPT ![p] = c]
  BY DEF AddPolicy
<1>3. c # Null /\ owner[p] # "deleted" /\ "new" \in State /\ "new" # Null
  BY <1>1, ViewsAssumption, NullAssumption DEF ViewsAssumption, State
<1>4. ViewsTypeOK'
  BY <1>1, <1>2, <1>3, OwnerTypes
<1>5. TrailNamesAuthors'
  BY <1>1, TrailStays DEF accountVars
<1>6. Lasting
  BY <1>1, <1>2, <1>3 DEF Lasting, accountVars, ViewsTypeOK
<1> QED
  BY <1>1, <1>4, <1>5, <1>6, StaffStep

LEMMA DeletePolicyStep ==
    ASSUME ViewsInv, NEW p \in Policies, DeletePolicy(p)
    PROVE  ViewsInv'
<1>1. /\ ViewsTypeOK /\ TrailNamesAuthors /\ Watch
      /\ owner' = [owner EXCEPT ![p] = "deleted"] /\ state' = [state EXCEPT ![p] = Null]
      /\ UNCHANGED <<trail, receipts, actors, authors, accountVars, demoOpen, callVars>>
  BY DEF ViewsInv, DeletePolicy
<1>2. "deleted" \notin Customers /\ "deleted" # Null
  BY ViewsAssumption DEF ViewsAssumption
<1>3. ViewsTypeOK'
  BY <1>1, <1>2, OwnerTypes
<1>4. TrailNamesAuthors'
  BY <1>1, TrailStays DEF accountVars
<1>5. Lasting
  BY <1>1, <1>2 DEF Lasting, accountVars, ViewsTypeOK
<1> QED
  BY <1>1, <1>3, <1>4, <1>5, StaffStep

\* A step that only takes from calls what they were to write keeps ViewsInv.
LEMMA HoldStep ==
    ASSUME ViewsInv, Watch, hold' \in [Workers -> Holds],
           \A v \in Workers : hold'[v] = hold[v] \/ hold'[v] \in {"lost", "taken"},
           UNCHANGED <<policyVars, accountVars, pc, request, principal, answer, demoOpen>>
    PROVE  ViewsInv'
<1>1. ViewsTypeOK'
  BY TypesStay DEF ViewsInv, ViewsTypeOK, Places
<1>2. TrailNamesAuthors'
  BY TrailStays DEF ViewsInv, policyVars, accountVars
<1>3. Lasting
  BY DEF Lasting, policyVars, accountVars
<1>4. \A v \in Workers : CallInv(v)'
  BY <1>3, CallStays DEF Waits
<1> QED
  BY <1>1, <1>2, <1>4 DEF ViewsInv, CallInv

LEMMA DeleteFromCatalogueStep ==
    ASSUME ViewsInv, DeleteFromCatalogue
    PROVE  ViewsInv'
<1> HIDE DEF Meaning
<1>1. PICK named \in SUBSET Workers :
        hold' = [w \in Workers |-> IF w \in named THEN "lost" ELSE hold[w]]
  BY DEF DeleteFromCatalogue
<1>2. hold' \in [Workers -> Holds]
  BY <1>1 DEF ViewsInv, ViewsTypeOK, Holds
<1> QED
  BY <1>1, <1>2, HoldStep DEF DeleteFromCatalogue

LEMMA TakeStep ==
    ASSUME ViewsInv, NEW w \in Workers, Take(w)
    PROVE  ViewsInv'
<1> HIDE DEF Meaning
<1>1. /\ hold' = [hold EXCEPT ![w] = "taken"] /\ Watch
      /\ UNCHANGED <<policyVars, accountVars, pc, request, principal, answer, demoOpen>>
  BY DEF Take
<1>2. hold' \in [Workers -> Holds]
      /\ \A v \in Workers : hold'[v] = hold[v] \/ hold'[v] \in {"lost", "taken"}
  BY <1>1 DEF ViewsInv, ViewsTypeOK, Holds
<1> QED
  BY <1>1, <1>2, HoldStep

-----------------------------------------------------------------------------
(* The theorems. *)

LEMMA InitInv == Init => ViewsInv
<1> SUFFICES ASSUME Init PROVE ViewsInv
  OBVIOUS
<1>1. /\ state = [p \in Policies |-> Null] /\ trail = [p \in Policies |-> << >>]
      /\ receipts = [p \in Policies |-> << >>] /\ owner = [p \in Policies |-> Null]
      /\ actors = [p \in Policies |-> << >>] /\ authors = [p \in Policies |-> << >>]
      /\ role \in [Users -> Given] /\ customers = [c \in Customers |-> "unmade"]
      /\ demoOpen \in BOOLEAN
      /\ pc = [w \in Workers |-> "idle"] /\ request = [w \in Workers |-> Null]
      /\ principal = [w \in Workers |-> Null] /\ answer = [w \in Workers |-> Null]
      /\ hold = [w \in Workers |-> Null]
  BY DEF Init, Book!Init
<1>2. Given \subseteq Roles /\ "unmade" \notin Users /\ Null \notin Customers
  BY ViewsAssumption DEF ViewsAssumption
<1>3. ViewsTypeOK
  BY <1>1, <1>2 DEF ViewsTypeOK, Made, Exists
<1>4. TrailNamesAuthors
  BY <1>1 DEF TrailNamesAuthors
<1>5. \A w \in Workers : RequestHeld(w) /\ AnswerInScope(w) /\ BareExplained(w)
  BY <1>1, NullIsNoCode DEF RequestHeld, AnswerInScope, BareExplained, Codes
<1> QED
  BY <1>3, <1>4, <1>5 DEF ViewsInv

LEMMA NextInv == ViewsInv /\ [Next]_vars => ViewsInv'
<1> SUFFICES ASSUME ViewsInv, [Next]_vars PROVE ViewsInv'
  OBVIOUS
<1>1. CASE UNCHANGED vars
  BY <1>1 DEF vars, policyVars, accountVars, callVars, book, ViewsInv, ViewsTypeOK,
     TrailNamesAuthors, RequestHeld, AnswerInScope, BareExplained, Made, Gone, Exists
<1>2. CASE Next
  BY <1>2, ReceiveStep, RefusePayloadStep, LookUpStep, CheckFormStep, CreateCustomerStep,
     PriceStep, CreateQuoteStep, MovePolicyStep, RefuseCallStep, MissRowStep, RollBackStep,
     FinishStep, TakeStep, SetRoleStep, DeleteAccountStep, LinkCustomerStep, DeleteCustomerStep,
     MoveOwnerStep, AddPolicyStep, DeletePolicyStep, DeleteFromCatalogueStep DEF Next
<1> QED
  BY <1>1, <1>2

(* The types of the views, who signed each row, what each call holds where  *)
(* it is, and what each answer means hold whatever runs at once.            *)
THEOREM ViewsInvHolds == Spec => []ViewsInv
  BY InitInv, NextInv, PTL DEF Spec

(* permissions.py:3-5: no call succeeds without what it asked for having    *)
(* been in its scope, and none is told "not found" of what it could see     *)
(* throughout, however accounts and customers are relinked under it.        *)
THEOREM CallsStayInScope == Spec => []ScopeHolds
<1>1. ViewsInv => ScopeHolds
  BY DEF ViewsInv, ScopeHolds
<1> QED
  BY <1>1, ViewsInvHolds, PTL

(* ADR-0007:28: a row of the trail names the account that made it until     *)
(* that account is deleted, and never another one.                          *)
THEOREM TrailKeepsItsAuthors == Spec => []TrailNamesAuthors
<1>1. ViewsInv => TrailNamesAuthors
  BY DEF ViewsInv
<1> QED
  BY <1>1, ViewsInvHolds, PTL

(* exceptions.py:1: an answer outside the envelope means that the database   *)
(* changed under the call: its account, customer, product, rule or policy was *)
(* deleted after it was read, or a unique value it writes was taken.         *)
THEOREM BareErrorsHaveCauses == Spec => []BareErrorsExplained
<1>1. ViewsInv => BareErrorsExplained
  BY DEF ViewsInv, BareErrorsExplained
<1> QED
  BY <1>1, ViewsInvHolds, PTL

\* What /quote/ understands, the alias for it understands alike.
LEMMA AliasAgrees ==
    ASSUME NEW r \in Requests, r.route = "quote", Meaning(r) # Invalid
    PROVE  Meaning(ByAlias(r)) = Meaning(r)
<1> DEFINE body == r.body
           m == Dispatch(body)
<1>1. Meaning(r) = m
  BY DEF Meaning
<1>2. r = [route |-> r.route, by |-> r.by, id |-> r.id, body |-> r.body]
  BY ViewsAssumption DEF ViewsAssumption
<1>3. m = CreateMeaning(body) \/ m = TransitionMeaning(body)
  BY <1>1 DEF Dispatch
<1>4. CASE m = CreateMeaning(body)
  <2>1. m.op = "create"
    BY <1>1, <1>4 DEF CreateMeaning, Create, Invalid
  <2>2. ByAlias(r) = [route |-> "quotes", by |-> r.by, id |-> r.id, body |-> r.body]
    BY <1>1, <1>2, <2>1 DEF ByAlias
  <2> HIDE DEF m, CreateMeaning
  <2> QED
    BY <1>1, <1>4, <2>2 DEF Meaning
<1>5. CASE m = TransitionMeaning(body)
  <2>1. /\ body["status"] \in {"accepted", "active"}
        /\ "payment_method" \in DOMAIN body => body["payment_method"] \in Methods
        /\ m = IF body["status"] = "accepted" THEN AcceptOf(body["quote_id"])
               ELSE PayOf(body["quote_id"], IF "payment_method" \in DOMAIN body
                                            THEN body["payment_method"] ELSE "simulated_card")
    BY <1>1, <1>5 DEF TransitionMeaning
  <2>2. CASE body["status"] = "accepted"
    <3>1. m.op = "accept" /\ m.policy = body["quote_id"] /\ m = AcceptOf(m.policy)
      BY <2>1, <2>2 DEF AcceptOf
    <3> HIDE DEF m
    <3>2. ByAlias(r) = [route |-> "accept", by |-> r.by, id |-> m.policy, body |-> r.body]
      BY <1>1, <1>2, <3>1 DEF ByAlias
    <3> QED
      BY <1>1, <3>1, <3>2 DEF Meaning
  <2>3. CASE body["status"] # "accepted"
    <3>1. /\ m.op = "pay" /\ m.policy = body["quote_id"]
          /\ m = PayOf(m.policy, IF "payment_method" \in DOMAIN body
                                 THEN body["payment_method"] ELSE "simulated_card")
      BY <2>1, <2>3 DEF PayOf
    <3> HIDE DEF m
    <3>2. ByAlias(r) = [route |-> "pay", by |-> r.by, id |-> m.policy, body |-> r.body]
      BY <1>1, <1>2, <3>1 DEF ByAlias
    <3>3. PayAlias(m.policy, body) = m
      <4>1. "payment_method" \in DOMAIN body => body["payment_method"] \notin {"", Null}
        BY <2>1, ViewsAssumption DEF ViewsAssumption, Methods
      <4> QED
        BY <3>1, <4>1 DEF PayAlias
    <3> QED
      BY <1>1, <3>2, <3>3 DEF Meaning
  <2> QED
    BY <2>2, <2>3
<1> QED
  BY <1>3, <1>4, <1>5

(* What the alias to pay understands, /quote/ understands alike, or refuses *)
(* for its method or a field it does not know.                              *)
LEMMA DispatchAgrees ==
    ASSUME NEW r \in Requests, r.route = "pay"
    PROVE  \/ Meaning(ByDispatch(r)) = Meaning(r)
           \/ /\ Meaning(ByDispatch(r)) = Invalid
              /\ \/ "payment_method" \in DOMAIN r.body /\ r.body["payment_method"] \notin Methods
                 \/ ~(DOMAIN r.body \subseteq TransitionFields)
<1> DEFINE given == DOMAIN r.body
           body == [f \in {"quote_id", "status"} \cup DOMAIN r.body |->
                       CASE f = "quote_id" -> r.id [] f = "status" -> "active"
                         [] OTHER -> r.body[f]]
<1>1. r = [route |-> r.route, by |-> r.by, id |-> r.id, body |-> r.body]
  BY ViewsAssumption DEF ViewsAssumption
<1>2. ByDispatch(r) = [route |-> "quote", by |-> r.by, id |-> r.id, body |-> body]
  <2>1. ByDispatch(r) = [r EXCEPT !.route = "quote", !.body = body]
    BY Zenon DEF ByDispatch
  <2> HIDE DEF body
  <2> QED
    BY <1>1, <2>1
<1>3. /\ DOMAIN body = {"quote_id", "status"} \cup given
      /\ body["quote_id"] = r.id /\ body["status"] = "active"
      /\ "payment_method" \in given => body["payment_method"] = r.body["payment_method"]
  OBVIOUS
<1> HIDE DEF body, given
<1>4. Meaning(ByDispatch(r)) = Dispatch(body) /\ Meaning(r) = PayAlias(r.id, r.body)
  BY <1>2 DEF Meaning
<1>5. "quote_id" \in DOMAIN body /\ "status" \in DOMAIN body
  BY <1>3
<1>6. CASE {"customer_id", "type"} \cap DOMAIN body # {}
  <2>1. Dispatch(body) = Invalid
    BY <1>5, <1>6 DEF Dispatch
  <2>2. ~(given \subseteq TransitionFields)
    BY <1>3, <1>6 DEF TransitionFields
  <2> QED
    BY <1>4, <2>1, <2>2 DEF given
<1>7. CASE {"customer_id", "type"} \cap DOMAIN body = {}
  <2>1. Dispatch(body) = TransitionMeaning(body)
    BY <1>5, <1>7 DEF Dispatch
  <2>2. DOMAIN body \subseteq TransitionFields <=> given \subseteq TransitionFields
    BY <1>3 DEF TransitionFields
  <2>3. "payment_method" \in DOMAIN body <=> "payment_method" \in given
    BY <1>3
  <2>4. CASE ~(given \subseteq TransitionFields)
    <3>1. TransitionMeaning(body) = Invalid
      BY <2>2, <2>4 DEF TransitionMeaning
    <3> QED
      BY <1>4, <2>1, <2>4, <3>1 DEF given
  <2>5. CASE given \subseteq TransitionFields /\ "payment_method" \in given
               /\ r.body["payment_method"] \notin Methods
    <3>1. TransitionMeaning(body) = Invalid
      BY <1>3, <2>3, <2>5 DEF TransitionMeaning
    <3> QED
      BY <1>4, <2>1, <2>5, <3>1 DEF given
  <2>6. CASE given \subseteq TransitionFields
               /\ ("payment_method" \in given => r.body["payment_method"] \in Methods)
    <3> DEFINE method == IF "payment_method" \in given THEN r.body["payment_method"]
                         ELSE "simulated_card"
    <3>1. TransitionMeaning(body) = PayOf(r.id, method)
      BY <1>3, <1>5, <2>2, <2>3, <2>6 DEF TransitionMeaning
    <3>2. "payment_method" \in given => r.body["payment_method"] \notin {"", Null}
      BY <2>6, ViewsAssumption DEF ViewsAssumption, Methods
    <3>3. PayAlias(r.id, r.body) = PayOf(r.id, method)
      BY <3>2 DEF PayAlias, given
    <3> QED
      BY <1>4, <2>1, <3>1, <3>3
  <2> QED
    BY <2>4, <2>5, <2>6
<1> QED
  BY <1>6, <1>7

(* views.py:3-5: the two ways of asking for the same thing mean the same,   *)
(* for every body a request may have.                                       *)
THEOREM RoutesNeverDrift == Spec => []RoutesAgree
<1>1. ViewsInv => RoutesAgree
  <2> SUFFICES ASSUME ViewsInv, NEW w \in Workers, request[w] # Null
               PROVE  /\ request[w].route = "quote" /\ Meaning(request[w]) # Invalid =>
                           Meaning(ByAlias(request[w])) = Meaning(request[w])
                      /\ request[w].route = "pay" =>
                           \/ Meaning(ByDispatch(request[w])) = Meaning(request[w])
                           \/ /\ Meaning(ByDispatch(request[w])) = Invalid
                              /\ \/ /\ "payment_method" \in DOMAIN request[w].body
                                    /\ request[w].body["payment_method"] \notin Methods
                                 \/ ~(DOMAIN request[w].body \subseteq TransitionFields)
    BY DEF RoutesAgree
  <2>1. request[w] \in Requests
    BY DEF ViewsInv, ViewsTypeOK
  <2> HIDE DEF Meaning, ByAlias, ByDispatch
  <2> QED
    BY <2>1, AliasAgrees, DispatchAgrees
<1> QED
  BY <1>1, ViewsInvHolds, PTL
=============================================================================
