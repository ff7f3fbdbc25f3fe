---------------------------- MODULE DemoPageProofs ----------------------------
(***************************************************************************)
(* What the demo page shows agrees with what its calls did, for any number *)
(* of calls whose answers arrive in any order, late or never: PageInv is   *)
(* inductive.                                                              *)
(***************************************************************************)
EXTENDS DemoPage, SequenceTheorems, TLAPS

-----------------------------------------------------------------------------
(* Calls. *)

LEMMA CallsTyped ==
    ASSUME PageTypeOK
    PROVE  /\ Len(calls) \in Nat /\ DOMAIN calls = 1..Len(calls)
           /\ \A n \in DOMAIN calls : calls[n] \in Call
BY LenProperties, ElementOfSeq DEF PageTypeOK

\* A call under way is one of the calls.
LEMMA UnderWayMeans ==
    \A n : n \in UnderWay <=> n \in DOMAIN calls /\ calls[n].stage \in {"sent", "answered"}
BY DEF UnderWay

(* A call that changes its stage and its answer leaves the others alone.    *)
LEMMA CallChanged ==
    ASSUME PageTypeOK, NEW n \in DOMAIN calls, NEW answer \in Id,
           NEW stage \in {"sent", "cut", "answered", "shown", "lost"},
           calls' = [calls EXCEPT ![n].stage = stage, ![n].answer = answer]
    PROVE  /\ calls' \in Seq(Call) /\ Len(calls') = Len(calls) /\ DOMAIN calls' = DOMAIN calls
           /\ calls'[n].button = calls[n].button /\ calls'[n].sent = calls[n].sent
           /\ calls'[n].stage = stage /\ calls'[n].answer = answer
           /\ \A m \in DOMAIN calls \ {n} : calls'[m] = calls[m]
<1>1. calls \in Seq(Call) /\ calls[n] \in Call
  BY CallsTyped DEF PageTypeOK
<1> DEFINE new == [calls[n] EXCEPT !.stage = stage, !.answer = answer]
<1>2. new \in Call /\ new.button = calls[n].button /\ new.sent = calls[n].sent
      /\ new.stage = stage /\ new.answer = answer
  BY <1>1 DEF Call
<1>3. calls' = [calls EXCEPT ![n] = new]
  BY <1>1
<1> HIDE DEF new
<1>4. n \in 1..Len(calls)
  BY CallsTyped
<1>5. calls' \in Seq(Call) /\ Len(calls') = Len(calls) /\ DOMAIN calls' = DOMAIN calls
  <2>1. [calls EXCEPT ![n] = new] \in Seq(Call) /\ Len([calls EXCEPT ![n] = new]) = Len(calls)
    BY <1>1, <1>2, <1>4, ExceptSeq
  <2>2. calls' \in Seq(Call) /\ Len(calls') = Len(calls)
    BY <1>3, <2>1
  <2> QED
    BY <1>1, <2>2, LenProperties
<1>6. calls'[n] = new /\ \A m \in DOMAIN calls \ {n} : calls'[m] = calls[m]
  BY <1>1, <1>2, <1>3, <1>4, CallsTyped, ExceptSeq
<1> QED
  BY <1>2, <1>5, <1>6

-----------------------------------------------------------------------------
(* The server. *)

(* An answer keeps PageInv if it names what the call asked for or made, and *)
(* nothing else was made.                                                   *)
LEMMA ReplyStep ==
    ASSUME PageInv, NEW n \in DOMAIN calls, NEW answer \in Id, Arrived(n), Reply(n, answer),
           UNCHANGED <<page, history>>,
           state' \in [Policies -> State \cup {Null}], made \subseteq made', made' \subseteq Customers,
           \A p \in Policies : state[p] # Null => state'[p] # Null,
           \A p \in Policies : state[p] = Null /\ state'[p] # Null =>
               calls[n].button = "createQuote" /\ answer = p,
           answer # Null =>
             /\ calls[n].button = "login" => answer = calls[n].sent
             /\ calls[n].button = "createCustomer" => answer \in made'
             /\ calls[n].button = "createQuote" =>
                  answer \in Policies /\ state[answer] = Null /\ state'[answer] # Null
    PROVE  PageInv'
<1> DEFINE stage == IF calls[n].stage = "cut" THEN "lost" ELSE "answered"
<1>1. /\ PageTypeOK /\ (\A m \in DOMAIN calls : Made(m)) /\ Announced /\ Waits
      /\ StepsShareIds /\ PanelPairs
  BY DEF PageInv
<1>2. calls' = [calls EXCEPT ![n].stage = stage, ![n].answer = answer]
  BY DEF Reply
<1>3. stage \in {"sent", "cut", "answered", "shown", "lost"} /\ stage \in {"lost", "answered"}
  OBVIOUS
<1>4. stage = "answered" <=> calls[n].stage = "sent"
  BY DEF Arrived
<1> HIDE DEF stage
<1>5. /\ calls' \in Seq(Call) /\ Len(calls') = Len(calls) /\ DOMAIN calls' = DOMAIN calls
      /\ calls'[n].button = calls[n].button /\ calls'[n].sent = calls[n].sent
      /\ calls'[n].stage = stage /\ calls'[n].answer = answer
      /\ \A m \in DOMAIN calls \ {n} : calls'[m] = calls[m]
  BY <1>1, <1>2, <1>3, CallChanged
<1>6. UNCHANGED <<field, preview, token, label, line, out, typed, edits, overlapped, retyped>>
  BY DEF page, history
<1>7. PageTypeOK'
  BY <1>1, <1>5, <1>6 DEF PageTypeOK
<1>8. ASSUME NEW m \in DOMAIN calls' PROVE Made(m)'
  <2>1. CASE m = n
    BY <1>1, <1>3, <1>5, <2>1 DEF Made
  <2>2. CASE m # n
    BY <1>1, <1>5, <2>2 DEF Made
  <2> QED
    BY <2>1, <2>2
<1>9. calls[n].answer = Null
  BY <1>1 DEF Made, Arrived
<1>10. \A m \in DOMAIN calls, p \in Policies : MadeQuote(m, p) /\ p # Null => MadeQuote(m, p)'
  BY <1>5, <1>9 DEF MadeQuote
<1>11. Null \notin Policies
  BY PageAssumption DEF PageAssumption
<1>12. Announced'
  <2>1. ASSUME NEW p \in Policies, state'[p] # Null
        PROVE  \E m \in DOMAIN calls' : MadeQuote(m, p)'
    <3>1. CASE state[p] # Null
      BY <1>1, <1>5, <1>10, <1>11, <3>1 DEF Announced
    <3>2. CASE state[p] = Null
      BY <1>5, <2>1, <3>2 DEF MadeQuote
    <3> QED
      BY <3>1, <3>2
  <2>2. ASSUME NEW f \in QuoteFields \ typed, field[f] # Null
        PROVE  \E m \in DOMAIN calls' : calls'[m].stage = "shown" /\ MadeQuote(m, field[f])'
    <3>1. PICK m \in DOMAIN calls : calls[m].stage = "shown" /\ MadeQuote(m, field[f])
      BY <1>1, <2>2 DEF Announced
    <3>2. m # n
      BY <3>1 DEF Arrived
    <3> QED
      BY <1>5, <1>6, <3>1, <3>2 DEF MadeQuote
  <2> QED
    BY <1>5, <1>6, <2>1, <2>2 DEF Announced, MadeQuote
<1>13. UnderWay' = UnderWay
  <2>1. \A m : m \in UnderWay' <=> m \in DOMAIN calls' /\ calls'[m].stage \in {"sent", "answered"}
    BY DEF UnderWay
  <2> QED
    BY <1>3, <1>4, <1>5, <2>1, UnderWayMeans, ZenonT(40) DEF Arrived
<1>14. Waits'
  BY <1>1, <1>5, <1>6, <1>13, UnderWayMeans DEF Waits
<1>15. StepsShareIds'
  <2>1. \A f \in QuoteFields \ typed : field[f] # Null => state'[field[f]] # Null
    <3>1. \A f \in QuoteFields \ typed : field[f] # Null =>
            field[f] \in Policies /\ state[field[f]] # Null
      BY <1>1 DEF Announced, Made, MadeQuote
    <3> QED
      BY <3>1
  <2> QED
    BY <1>1, <1>6, <2>1 DEF StepsShareIds
<1>16. PanelPairs'
  <2>1. line # 0 => line \in DOMAIN calls
    BY <1>1, CallsTyped DEF PageTypeOK
  <2>2. line = n => calls[line].stage = "sent" \/ calls'[line].stage = "lost"
    BY <1>3, <1>4, <1>5 DEF Arrived
  <2>3. line = n /\ calls[line].stage = "sent" => UnderWay # {}
    BY UnderWayMeans
  <2> QED
    BY <1>1, <1>5, <1>6, <1>13, <2>1, <2>2, <2>3 DEF PanelPairs
<1> QED
  BY <1>7, <1>8, <1>12, <1>14, <1>15, <1>16 DEF PageInv

LEMMA ServeRefusalStep ==
    ASSUME PageInv, NEW n \in DOMAIN calls, ServeRefusal(n)
    PROVE  PageInv'
<1>1. /\ Null \in Id /\ Arrived(n) /\ Reply(n, Null) /\ UNCHANGED <<page, history>>
      /\ state' = state /\ made' = made
  BY DEF ServeRefusal, Id, server, book
<1>2. state' \in [Policies -> State \cup {Null}] /\ made' \subseteq Customers
  BY <1>1 DEF PageInv, PageTypeOK
<1> QED
  BY <1>1, <1>2, ReplyStep

LEMMA ServeReadStep ==
    ASSUME PageInv, NEW n \in DOMAIN calls, ServeRead(n)
    PROVE  PageInv'
<1>1. /\ Arrived(n) /\ Reply(n, calls[n].sent) /\ UNCHANGED <<page, history>>
      /\ state' = state /\ made' = made
      /\ calls[n].button \in {"login", "list", "detail", "history"}
  BY DEF ServeRead, server, book
<1>2. /\ state' \in [Policies -> State \cup {Null}] /\ made' \subseteq Customers
      /\ calls[n].sent \in Id
  BY <1>1, CallsTyped DEF PageInv, PageTypeOK, Call
<1> QED
  BY <1>1, <1>2, ReplyStep

LEMMA ServeCustomerStep ==
    ASSUME PageInv, NEW n \in DOMAIN calls, ServeCustomer(n)
    PROVE  PageInv'
<1>1. /\ Arrived(n) /\ UNCHANGED <<page, history>> /\ state' = state
      /\ calls[n].button = "createCustomer"
  BY DEF ServeCustomer, book
<1>2. PICK c \in Customers : made' = made \cup {c} /\ Reply(n, c)
  BY DEF ServeCustomer
<1>3. /\ state' \in [Policies -> State \cup {Null}]
      /\ made \subseteq made' /\ made' \subseteq Customers /\ c \in made' /\ c \in Id
  BY <1>1, <1>2 DEF PageInv, PageTypeOK, Id
<1> QED
  BY <1>1, <1>2, <1>3, ReplyStep

LEMMA ServeQuoteStep ==
    ASSUME PageInv, NEW n \in DOMAIN calls, ServeQuote(n)
    PROVE  PageInv'
<1>1. /\ Arrived(n) /\ UNCHANGED <<page, history>> /\ made' = made
      /\ calls[n].button = "createQuote" /\ PageTypeOK
  BY DEF ServeQuote, PageInv
<1>2. PICK p \in Policies : Book!Quote(p, "api") /\ Reply(n, p)
  BY DEF ServeQuote
<1>3. state[p] = Null /\ state' = [state EXCEPT ![p] = "quoted"]
  BY <1>2 DEF Book!Quote
<1>4. "quoted" \in State /\ "quoted" # Null /\ p \in Id
  BY NullAssumption DEF State, Id
<1>5. /\ state' \in [Policies -> State \cup {Null}] /\ state'[p] # Null
      /\ \A q \in Policies \ {p} : state'[q] = state[q]
  BY <1>1, <1>3, <1>4 DEF PageTypeOK
<1> QED
  BY <1>1, <1>2, <1>3, <1>4, <1>5, ReplyStep DEF PageTypeOK

LEMMA ServeMoveStep ==
    ASSUME PageInv, NEW n \in DOMAIN calls, ServeMove(n)
    PROVE  PageInv'
<1> DEFINE p == calls[n].sent
<1>1. /\ Arrived(n) /\ p \in Policies /\ Reply(n, p) /\ UNCHANGED <<page, history>> /\ made' = made
      /\ calls[n].button \in {"accept", "pay"} /\ PageTypeOK
  BY DEF ServeMove, PageInv
<1>2. PICK to \in {"accepted", "active"} : state' = [state EXCEPT ![p] = to] /\ state[p] # Null
  <2>1. CASE Book!Accept(p, "api")
    BY <2>1, NullAssumption DEF Book!Accept, Book!Move, State
  <2>2. CASE Book!PayAndBind(p, "simulated_card", Null, "api")
    BY <2>2, NullAssumption DEF Book!PayAndBind, Book!Move, State
  <2> QED
    BY <2>1, <2>2 DEF ServeMove
<1>3. to \in State /\ to # Null /\ p \in Id
  BY <1>1, NullAssumption DEF State, Id
<1>4. /\ state' \in [Policies -> State \cup {Null}] /\ state'[p] # Null
      /\ \A q \in Policies \ {p} : state'[q] = state[q]
  BY <1>1, <1>2, <1>3 DEF PageTypeOK
<1> QED
  BY <1>1, <1>2, <1>3, <1>4, ReplyStep DEF PageTypeOK

-----------------------------------------------------------------------------
(* The page. *)

\* Fields of quotes, of customers and the address are three kinds.
LEMMA FieldKinds ==
    /\ QuoteFields \cap CustomerFields = {} /\ "email" \in Fields
    /\ "email" \notin QuoteFields \cup CustomerFields
    /\ QuoteFields \subseteq Fields /\ CustomerFields \subseteq Fields /\ Previews \subseteq Fields
    /\ \A f \in Fields : f \in QuoteFields \/ f \in CustomerFields \/ f = "email"
BY DEF Fields, QuoteFields, CustomerFields, Previews

\* What the fields hold is unchanged for whoever does not look at a step's own.
LEMMA ServerSteady ==
    ASSUME UNCHANGED <<server, calls>>, NEW n \in DOMAIN calls, Made(n)
    PROVE  Made(n)'
BY DEF Made, server, book

LEMMA TypeStep ==
    ASSUME PageInv, NEW f \in Fields, Type(f)
    PROVE  PageInv'
<1>1. /\ PageTypeOK /\ (\A m \in DOMAIN calls : Made(m)) /\ Announced /\ Waits
      /\ StepsShareIds /\ PanelPairs
  BY DEF PageInv
<1>2. PICK v \in Values(f) \cup {Null} :
         /\ field' = [field EXCEPT ![f] = v]
         /\ preview' = [g \in Previews |-> IF g = f THEN v ELSE preview[g]]
  BY DEF Type
<1>3. /\ typed' = typed \cup {f} /\ UNCHANGED <<server, token, label, line, out, calls, overlapped>>
      /\ retyped' = (retyped \/ (f = "email" /\ \E n \in UnderWay : calls[n].button = "login"))
  BY DEF Type
<1>4. v \in Id
  BY FieldKinds DEF Values, Id
<1>5. /\ field' \in [Fields -> Id] /\ field'[f] = v /\ \A g \in Fields \ {f} : field'[g] = field[g]
      /\ preview' \in [Previews -> Id]
      /\ \A g \in Previews : preview'[g] = IF g = f THEN v ELSE preview[g]
  BY <1>1, <1>2, <1>4 DEF PageTypeOK
<1>6. state' = state /\ made' = made /\ calls' = calls /\ UnderWay' = UnderWay
  BY <1>3 DEF server, book, UnderWay
<1>7. PageTypeOK'
  BY <1>1, <1>3, <1>5, <1>6 DEF PageTypeOK
<1>8. \A m \in DOMAIN calls' : Made(m)'
  BY <1>1, <1>3, <1>6, ServerSteady
<1>9. Announced'
  BY <1>1, <1>3, <1>5, <1>6, FieldKinds DEF Announced, MadeQuote
<1>10. Waits'
  <2>1. ~retyped' => f # "email" \/ \A n \in UnderWay : calls[n].button # "login"
    BY <1>3
  <2>2. ~retyped' => ~retyped
    BY <1>3
  <2> QED
    BY <1>1, <1>3, <1>5, <1>6, <2>1, <2>2, FieldKinds DEF Waits
<1>11. StepsShareIds'
  <2>1. \A g \in Previews : preview'[g] = field'[g]
    BY <1>1, <1>5, FieldKinds DEF StepsShareIds
  <2>2. /\ \A g \in QuoteFields \ typed' : g \in QuoteFields \ typed /\ field'[g] = field[g]
        /\ \A g \in CustomerFields \ typed' : g \in CustomerFields \ typed /\ field'[g] = field[g]
    BY <1>3, <1>5, FieldKinds
  <2> QED
    BY <1>1, <1>6, <2>1, <2>2 DEF StepsShareIds
<1>12. PanelPairs'
  BY <1>1, <1>3, <1>6 DEF PanelPairs
<1> QED
  BY <1>7, <1>8, <1>9, <1>10, <1>11, <1>12 DEF PageInv

LEMMA PressStep ==
    ASSUME PageInv, NEW b \in Pressed, Press(b)
    PROVE  PageInv'
<1> DEFINE sent == IF b \in DOMAIN Sends THEN field[Sends[b]] ELSE Null
           new == [button |-> b, stage |-> "sent", answer |-> Null, sent |-> sent]
           k == Len(calls) + 1
<1>1. /\ PageTypeOK /\ (\A m \in DOMAIN calls : Made(m)) /\ Announced /\ Waits
      /\ StepsShareIds /\ PanelPairs
  BY DEF PageInv
<1>2. /\ calls' = Append(calls, new) /\ line' = Len(calls')
      /\ overlapped' = (overlapped \/ UnderWay # {})
      /\ UNCHANGED <<server, field, preview, token, label, out, typed, edits, retyped>>
      /\ state' = state /\ made' = made
  BY DEF Press, server, book
<1>3. /\ sent \in Id
      /\ b = "login" => sent = field["email"]
      /\ Null \in Id /\ b \in Buttons
  <2>1. \A c \in DOMAIN Sends : Sends[c] \in Fields
    BY DEF Sends, Fields, QuoteFields, CustomerFields
  <2>2. "login" \in DOMAIN Sends /\ Sends["login"] = "email"
    BY DEF Sends
  <2>3. b \in Buttons /\ Null \in Id
    BY PageAssumption DEF PageAssumption, Id
  <2> QED
    BY <1>1, <2>1, <2>2, <2>3 DEF PageTypeOK
<1>4. new \in Call
  BY <1>3 DEF Call
<1>5. new.button = b /\ new.stage = "sent" /\ new.answer = Null /\ new.sent = sent
  OBVIOUS
<1> HIDE DEF new, sent
<1>6. /\ calls' \in Seq(Call) /\ Len(calls') = k /\ DOMAIN calls' = DOMAIN calls \cup {k}
      /\ k \notin DOMAIN calls /\ k \in Nat \ {0} /\ calls'[k] = new
      /\ \A m \in DOMAIN calls : calls'[m] = calls[m]
  <2>1. calls \in Seq(Call) /\ Len(calls) \in Nat /\ DOMAIN calls = 1..Len(calls)
    BY <1>1, CallsTyped DEF PageTypeOK
  <2>2. /\ Append(calls, new) \in Seq(Call) /\ Len(Append(calls, new)) = k
        /\ \A i \in 1..Len(calls) : Append(calls, new)[i] = calls[i]
        /\ Append(calls, new)[k] = new
    BY <1>4, <2>1, AppendProperties
  <2>3. DOMAIN Append(calls, new) = 1..k
    BY <2>2, LenProperties
  <2> HIDE DEF k
  <2>4. DOMAIN Append(calls, new) = DOMAIN calls \cup {k} /\ k \notin DOMAIN calls /\ k \in Nat \ {0}
    BY <2>1, <2>3 DEF k
  <2> QED
    BY <1>2, <2>1, <2>2, <2>4
<1> HIDE DEF k
<1>7. PageTypeOK'
  <2>1. out' \in 0..Len(calls')
    BY <1>1, <1>2, <1>6, CallsTyped DEF PageTypeOK, k
  <2> QED
    BY <1>1, <1>2, <1>6, <2>1 DEF PageTypeOK
<1>8. ASSUME NEW m \in DOMAIN calls' PROVE Made(m)'
  <2>1. CASE m = k
    BY <1>5, <1>6, <2>1 DEF Made
  <2>2. CASE m # k
    <3>1. Made(m) /\ m \in DOMAIN calls /\ calls'[m] = calls[m]
      BY <1>1, <1>6, <2>2
    <3>2. calls'[k].answer = Null
      BY <1>5, <1>6
    <3> QED
      BY <1>2, <1>6, <3>1, <3>2 DEF Made
  <2> QED
    BY <2>1, <2>2
<1>9. Announced'
  <2>1. ASSUME NEW p \in Policies, state[p] # Null
        PROVE  \E m \in DOMAIN calls' : MadeQuote(m, p)'
    BY <1>1, <1>6, <2>1 DEF Announced, MadeQuote
  <2>2. ASSUME NEW f \in QuoteFields \ typed, field[f] # Null
        PROVE  \E m \in DOMAIN calls' : calls'[m].stage = "shown" /\ MadeQuote(m, field[f])'
    <3>1. PICK m \in DOMAIN calls : calls[m].stage = "shown" /\ MadeQuote(m, field[f])
      BY <1>1, <2>2 DEF Announced
    <3> QED
      BY <1>2, <1>6, <3>1 DEF MadeQuote
  <2> QED
    BY <1>2, <2>1, <2>2 DEF Announced, MadeQuote
<1>10. UnderWay' = UnderWay \cup {k}
  <2>1. \A m : m \in UnderWay' <=> m \in DOMAIN calls' /\ calls'[m].stage \in {"sent", "answered"}
    BY DEF UnderWay
  <2> QED
    BY <1>5, <1>6, <2>1, UnderWayMeans
<1>11. Waits'
  <2>1. ~overlapped' => UnderWay' \subseteq {line'}
    BY <1>2, <1>6, <1>10
  <2>2. ~retyped => \A n \in UnderWay' : calls'[n].button = "login" => calls'[n].sent = field["email"]
    BY <1>1, <1>3, <1>5, <1>6, <1>10, UnderWayMeans DEF Waits
  <2> QED
    BY <1>2, <2>1, <2>2 DEF Waits
<1>12. StepsShareIds'
  BY <1>1, <1>2 DEF StepsShareIds
<1>13. PanelPairs'
  BY <1>1, <1>2, <1>10 DEF PanelPairs
<1> QED
  BY <1>7, <1>8, <1>9, <1>11, <1>12, <1>13 DEF PageInv

LEMMA LoseStep ==
    ASSUME PageInv, NEW n \in DOMAIN calls, Lose(n) \/ ReturnBroken(n)
    PROVE  PageInv'
<1> DEFINE stage == IF calls[n].stage = "sent" THEN "cut" ELSE "lost"
<1>1. /\ PageTypeOK /\ (\A m \in DOMAIN calls : Made(m)) /\ Announced /\ Waits
      /\ StepsShareIds /\ PanelPairs
  BY DEF PageInv
<1>2. /\ n \in UnderWay /\ calls' = [calls EXCEPT ![n].stage = stage]
      /\ state' = state /\ made' = made /\ out' \in {out, n}
      /\ UNCHANGED <<field, preview, token, label, line, typed, edits, overlapped, retyped>>
  BY DEF Lose, ReturnBroken, UnderWay, server, book, page, history
<1>3. /\ stage \in {"sent", "cut", "answered", "shown", "lost"} /\ stage \in {"cut", "lost"}
      /\ stage = "cut" <=> calls[n].stage = "sent"
  OBVIOUS
<1>4. calls[n].stage \in {"sent", "answered"} /\ calls[n] \in Call /\ calls[n].answer \in Id
  BY <1>1, <1>2, CallsTyped, UnderWayMeans DEF Call
<1> HIDE DEF stage
<1>5. calls' = [calls EXCEPT ![n].stage = stage, ![n].answer = calls[n].answer]
  <2>1. [calls[n] EXCEPT !.stage = stage] =
            [calls[n] EXCEPT !.stage = stage, !.answer = calls[n].answer]
    BY <1>4 DEF Call
  <2>2. calls' = [calls EXCEPT ![n] = [calls[n] EXCEPT !.stage = stage]]
    BY <1>2
  <2> QED
    BY <2>1, <2>2
<1>6. /\ calls' \in Seq(Call) /\ Len(calls') = Len(calls) /\ DOMAIN calls' = DOMAIN calls
      /\ calls'[n].button = calls[n].button /\ calls'[n].sent = calls[n].sent
      /\ calls'[n].stage = stage /\ calls'[n].answer = calls[n].answer
      /\ \A m \in DOMAIN calls \ {n} : calls'[m] = calls[m]
  BY <1>1, <1>3, <1>4, <1>5, CallChanged
<1>7. PageTypeOK'
  <2>1. n \in 1..Len(calls)
    BY <1>1 DEF PageTypeOK
  <2>2. out' \in 0..Len(calls')
    BY <1>1, <1>2, <1>6, <2>1 DEF PageTypeOK
  <2> QED
    BY <1>1, <1>2, <1>6, <2>2 DEF PageTypeOK
<1>8. ASSUME NEW m \in DOMAIN calls' PROVE Made(m)'
  <2>1. CASE m = n
    BY <1>1, <1>2, <1>3, <1>4, <1>6, <2>1 DEF Made
  <2>2. CASE m # n
    BY <1>1, <1>2, <1>6, <2>2 DEF Made
  <2> QED
    BY <2>1, <2>2
<1>9. Announced'
  <2>1. ASSUME NEW p \in Policies, state[p] # Null
        PROVE  \E m \in DOMAIN calls' : MadeQuote(m, p)'
    BY <1>1, <1>6, <2>1 DEF Announced, MadeQuote
  <2>2. ASSUME NEW f \in QuoteFields \ typed, field[f] # Null
        PROVE  \E m \in DOMAIN calls' : calls'[m].stage = "shown" /\ MadeQuote(m, field[f])'
    <3>1. PICK m \in DOMAIN calls : calls[m].stage = "shown" /\ MadeQuote(m, field[f])
      BY <1>1, <2>2 DEF Announced
    <3> QED
      BY <1>2, <1>4, <1>6, <3>1 DEF MadeQuote
  <2> QED
    BY <1>2, <2>1, <2>2 DEF Announced, MadeQuote
<1>10. UnderWay' = UnderWay \ {n}
  <2>1. \A m : m \in UnderWay' <=> m \in DOMAIN calls' /\ calls'[m].stage \in {"sent", "answered"}
    BY DEF UnderWay
  <2> QED
    BY <1>3, <1>6, <2>1, UnderWayMeans
<1>11. Waits'
  BY <1>1, <1>2, <1>6, <1>10, UnderWayMeans DEF Waits
<1>12. StepsShareIds'
  BY <1>1, <1>2 DEF StepsShareIds
<1>13. PanelPairs'
  <2>1. ~overlapped => line = n
    BY <1>1, <1>2 DEF Waits
  <2> QED
    BY <1>1, <1>2, <1>3, <1>6, <2>1 DEF PanelPairs
<1> QED
  BY <1>7, <1>8, <1>9, <1>11, <1>12, <1>13 DEF PageInv

LEMMA ReturnStep ==
    ASSUME PageInv, NEW n \in DOMAIN calls, Return(n)
    PROVE  PageInv'
<1> DEFINE answer == calls[n].answer
           filled == Filled(n)
<1>1. /\ PageTypeOK /\ (\A m \in DOMAIN calls : Made(m)) /\ Announced /\ Waits
      /\ StepsShareIds /\ PanelPairs
  BY DEF PageInv
<1>2. /\ calls[n].stage = "answered" /\ calls' = [calls EXCEPT ![n].stage = "shown"]
      /\ out' = n /\ typed' = typed \ filled
      /\ field' = [f \in Fields |-> IF f \in filled THEN answer ELSE field[f]]
      /\ preview' = IF filled = {} THEN preview ELSE [f \in Previews |-> field'[f]]
      /\ IF calls[n].button = "login" /\ answer # Null
         THEN token' = answer /\ label' = field["email"]
         ELSE UNCHANGED <<token, label>>
      /\ state' = state /\ made' = made
      /\ UNCHANGED <<line, edits, overlapped, retyped>>
  BY DEF Return, server, book
<1>3. n \in UnderWay /\ calls[n] \in Call /\ answer \in Id
  BY <1>1, <1>2, CallsTyped, UnderWayMeans DEF Call
<1>4. /\ calls' \in Seq(Call) /\ Len(calls') = Len(calls) /\ DOMAIN calls' = DOMAIN calls
      /\ calls'[n].button = calls[n].button /\ calls'[n].sent = calls[n].sent
      /\ calls'[n].stage = "shown" /\ calls'[n].answer = answer
      /\ \A m \in DOMAIN calls \ {n} : calls'[m] = calls[m]
  <2>1. PICK a \in Id : a = calls[n].answer
    BY <1>3
  <2>2. calls' = [calls EXCEPT ![n].stage = "shown", ![n].answer = a]
    <3>1. [calls[n] EXCEPT !.stage = "shown"] = [calls[n] EXCEPT !.stage = "shown", !.answer = a]
      BY <1>3, <2>1 DEF Call
    <3>2. calls' = [calls EXCEPT ![n] = [calls[n] EXCEPT !.stage = "shown"]]
      BY <1>2
    <3> QED
      BY <3>1, <3>2
  <2> QED
    BY <1>1, <2>1, <2>2, CallChanged
<1>5. /\ filled \in {{}, CustomerFields, QuoteFields}
      /\ filled = QuoteFields => calls[n].button = "createQuote" /\ answer # Null
      /\ filled = CustomerFields => calls[n].button = "createCustomer" /\ answer # Null
  <2>1. QuoteFields # {} /\ CustomerFields # {} /\ QuoteFields # CustomerFields
    BY DEF QuoteFields, CustomerFields
  <2> HIDE DEF QuoteFields, CustomerFields
  <2>2. CASE answer = Null
    BY <2>1, <2>2 DEF Filled
  <2>3. CASE answer # Null /\ calls[n].button = "createCustomer"
    BY <2>1, <2>3 DEF Filled
  <2>4. CASE answer # Null /\ calls[n].button = "createQuote"
    BY <2>1, <2>4 DEF Filled
  <2>5. CASE answer # Null /\ calls[n].button \notin {"createCustomer", "createQuote"}
    BY <2>1, <2>5 DEF Filled
  <2> QED
    BY <2>2, <2>3, <2>4, <2>5
<1> HIDE DEF filled, answer
<1>6. /\ field' \in [Fields -> Id] /\ preview' \in [Previews -> Id]
      /\ \A f \in Fields : field'[f] = IF f \in filled THEN answer ELSE field[f]
      /\ \A f \in Previews : preview'[f] = field'[f]
  <2>1. field' \in [Fields -> Id] /\ \A f \in Fields : field'[f] = IF f \in filled THEN answer ELSE field[f]
    BY <1>1, <1>2, <1>3 DEF PageTypeOK
  <2>2. CASE filled = {}
    BY <1>1, <1>2, <2>1, <2>2, FieldKinds DEF PageTypeOK, StepsShareIds
  <2>3. CASE filled # {}
    <3>1. preview' = [f \in Previews |-> field'[f]]
      BY <1>2, <2>3
    <3> QED
      BY <2>1, <3>1, FieldKinds
  <2> QED
    BY <2>1, <2>2, <2>3
<1>7. PageTypeOK'
  <2>1. out' \in 0..Len(calls')
    BY <1>1, <1>2, <1>4, CallsTyped
  <2> QED
    BY <1>1, <1>2, <1>4, <1>6, <2>1 DEF PageTypeOK
<1>8. ASSUME NEW m \in DOMAIN calls' PROVE Made(m)'
  <2>1. CASE m = n
    BY <1>1, <1>2, <1>4, <2>1 DEF Made, answer
  <2>2. CASE m # n
    BY <1>1, <1>2, <1>4, <2>2 DEF Made, answer
  <2> QED
    BY <2>1, <2>2
<1>9. \A m \in DOMAIN calls : \A p : MadeQuote(m, p) => MadeQuote(m, p)'
  BY <1>4 DEF MadeQuote, answer
<1>10. Announced'
  <2>1. ASSUME NEW p \in Policies, state'[p] # Null
        PROVE  \E m \in DOMAIN calls' : MadeQuote(m, p)'
    BY <1>1, <1>2, <1>4, <1>9, <2>1 DEF Announced
  <2>2. ASSUME NEW f \in QuoteFields \ typed', field'[f] # Null
        PROVE  \E m \in DOMAIN calls' : calls'[m].stage = "shown" /\ MadeQuote(m, field[f])'
    <3>1. f \in Fields
      BY FieldKinds
    <3>2. CASE f \in filled
      <4>1. calls[n].button = "createQuote" /\ field'[f] = answer
        BY <1>5, <1>6, <2>2, <3>1, <3>2, FieldKinds
      <4> QED
        BY <1>4, <4>1 DEF MadeQuote
    <3>3. CASE f \notin filled
      <4>1. f \in QuoteFields \ typed /\ field'[f] = field[f]
        BY <1>2, <1>6, <2>2, <3>1, <3>3
      <4>2. PICK m \in DOMAIN calls : calls[m].stage = "shown" /\ MadeQuote(m, field[f])
        BY <1>1, <2>2, <4>1 DEF Announced
      <4> QED
        BY <1>2, <1>4, <4>1, <4>2 DEF MadeQuote
    <3> QED
      BY <3>2, <3>3
  <2> QED
    BY <2>1, <2>2 DEF Announced
<1>11. UnderWay' = UnderWay \ {n}
  <2>1. \A m : m \in UnderWay' <=> m \in DOMAIN calls' /\ calls'[m].stage \in {"sent", "answered"}
    BY DEF UnderWay
  <2> QED
    BY <1>4, <2>1, UnderWayMeans
<1>12. field'["email"] = field["email"]
  BY <1>5, <1>6, FieldKinds
<1>13. Waits'
  BY <1>1, <1>2, <1>4, <1>11, <1>12, UnderWayMeans DEF Waits
<1>14. StepsShareIds'
  <2>1. \A f \in QuoteFields \ typed' :
          /\ field'[f] = IF filled = QuoteFields THEN answer ELSE field[f]
          /\ filled # QuoteFields => f \notin typed
    BY <1>2, <1>5, <1>6, FieldKinds
  <2>2. \A f \in CustomerFields \ typed' :
          /\ field'[f] = IF filled = CustomerFields THEN answer ELSE field[f]
          /\ filled # CustomerFields => f \notin typed
    BY <1>2, <1>5, <1>6, FieldKinds
  <2>3. /\ calls[n].button = "createQuote" /\ answer # Null => state[answer] # Null
        /\ calls[n].button = "createCustomer" /\ answer # Null => answer \in made
    BY <1>1 DEF Made, answer
  <2>4. \A f, g \in QuoteFields \ typed' : field'[f] = field'[g]
    BY <1>1, <2>1 DEF StepsShareIds
  <2>5. \A f, g \in CustomerFields \ typed' : field'[f] = field'[g]
    BY <1>1, <2>2 DEF StepsShareIds
  <2>6. \A f \in QuoteFields \ typed' : field'[f] # Null => state'[field'[f]] # Null
    BY <1>1, <1>2, <1>5, <2>1, <2>3 DEF StepsShareIds
  <2>7. \A f \in CustomerFields \ typed' : field'[f] # Null => field'[f] \in made'
    BY <1>1, <1>2, <1>5, <2>2, <2>3 DEF StepsShareIds
  <2> QED
    BY <1>6, <2>4, <2>5, <2>6, <2>7 DEF StepsShareIds
<1>15. PanelPairs'
  <2>1. ~overlapped => line = n
    BY <1>1, <1>3 DEF Waits
  <2>2. ~retyped => label' = token'
    <3>1. CASE calls[n].button = "login" /\ answer # Null
      <4>1. answer = calls[n].sent
        BY <1>1, <3>1 DEF Made, answer
      <4>2. ~retyped => calls[n].sent = field["email"]
        BY <1>1, <1>3, <3>1 DEF Waits
      <4> QED
        BY <1>2, <3>1, <4>1, <4>2
    <3>2. CASE ~(calls[n].button = "login" /\ answer # Null)
      BY <1>1, <1>2, <3>2 DEF PanelPairs
    <3> QED
      BY <3>1, <3>2
  <2> QED
    BY <1>2, <2>1, <2>2 DEF PanelPairs
<1> QED
  BY <1>7, <1>8, <1>10, <1>13, <1>14, <1>15 DEF PageInv

-----------------------------------------------------------------------------
(* The theorems. *)

LEMMA InitPage == Init => PageInv
<1> SUFFICES ASSUME Init PROVE PageInv
  OBVIOUS
<1>1. /\ state = [p \in Policies |-> Null] /\ made \subseteq Customers
      /\ preview = [f \in Previews |-> Null] /\ token = Null /\ label = Null
      /\ calls = << >> /\ line = 0 /\ out = 0
      /\ typed = {} /\ overlapped = FALSE /\ retyped = FALSE
  BY DEF Init, Book!Init
<1>2. PICK a \in Accounts : field = [f \in Fields |-> IF f = "email" THEN a ELSE Null]
  BY DEF Init
<1>3. \A f \in Fields \ {"email"} : field[f] = Null
  BY <1>2
<1>4. DOMAIN calls = {} /\ Len(calls) = 0 /\ UnderWay = {}
  BY <1>1 DEF UnderWay
<1>5. PageTypeOK
  <2>1. field \in [Fields -> Id] /\ preview \in [Previews -> Id]
    BY <1>1, <1>2 DEF Id
  <2>2. calls \in Seq(Call) /\ out \in 0..Len(calls)
    BY <1>1, <1>4
  <2> QED
    BY <1>1, <1>4, <2>1, <2>2 DEF PageTypeOK
<1>6. Announced /\ StepsShareIds
  BY <1>1, <1>3, FieldKinds DEF Announced, StepsShareIds, Previews, QuoteFields, CustomerFields
<1>7. Waits /\ PanelPairs
  BY <1>1, <1>4 DEF Waits, PanelPairs
<1> QED
  BY <1>4, <1>5, <1>6, <1>7 DEF PageInv

LEMMA NextPage == PageInv /\ [Next]_vars => PageInv'
<1> SUFFICES ASSUME PageInv, [Next]_vars PROVE PageInv'
  OBVIOUS
<1>1. CASE UNCHANGED vars
  BY <1>1 DEF vars, server, page, history, book, PageInv, PageTypeOK, Made, Announced, MadeQuote,
     Waits, UnderWay, StepsShareIds, PanelPairs
<1>2. CASE Next
  BY <1>2, TypeStep, PressStep, ServeRefusalStep, ServeReadStep, ServeCustomerStep,
     ServeQuoteStep, ServeMoveStep, ReturnStep, LoseStep DEF Next
<1> QED
  BY <1>1, <1>2

\* What every call has done, and what the page took from it, holds throughout.
THEOREM PageInvHolds == Spec => []PageInv
  BY InitPage, NextPage, PTL DEF Spec

(* index.html:223 and 302: the fields filled in hold one quote and one      *)
(* customer that exist, however the answers overtake each other.            *)
THEOREM StepsAlwaysShareIds == Spec => []StepsShareIds
<1>1. PageInv => StepsShareIds
  BY DEF PageInv
<1> QED
  BY <1>1, PageInvHolds, PTL

(* Every quote in the book comes from exactly one press, and one whose      *)
(* answer has not been shown stands in no field nobody typed into.          *)
THEOREM EveryQuoteAccounted == Spec => []QuotesAccounted
<1>1. PageInv => QuotesAccounted
  <2> SUFFICES ASSUME PageInv, NEW p \in Policies, state[p] # Null
               PROVE  \E n \in DOMAIN calls :
                        /\ MadeQuote(n, p)
                        /\ \A m \in DOMAIN calls \ {n} : ~MadeQuote(m, p)
                        /\ calls[n].stage # "shown" =>
                             \A f \in QuoteFields \ typed : field[f] # p
    BY DEF QuotesAccounted, MadeQuote
  <2>1. PICK n \in DOMAIN calls : MadeQuote(n, p)
    BY DEF PageInv, Announced
  <2>2. p # Null
    BY PageAssumption DEF PageAssumption
  <2>3. \A m \in DOMAIN calls \ {n} : ~MadeQuote(m, p)
    BY <2>1, <2>2 DEF PageInv, Made, MadeQuote
  <2>4. ASSUME NEW f \in QuoteFields \ typed, field[f] = p
        PROVE  calls[n].stage = "shown"
    <3>1. PICK m \in DOMAIN calls : calls[m].stage = "shown" /\ MadeQuote(m, field[f])
      BY <2>2, <2>4 DEF PageInv, Announced
    <3> QED
      BY <2>3, <2>4, <3>1
  <2> QED
    BY <2>1, <2>3, <2>4
<1> QED
  BY <1>1, PageInvHolds, PTL

(* index.html:242: for one who waits, the answer shown is to the request    *)
(* shown, and the address shown is the one the token is for.                *)
THEOREM PanelsAlwaysPair == Spec => []PanelPairs
<1>1. PageInv => PanelPairs
  BY DEF PageInv
<1> QED
  BY <1>1, PageInvHolds, PTL
=============================================================================
