------------------------------- MODULE DemoPage -------------------------------
(***************************************************************************)
(* The demo page (src/apps/web/templates/web/index.html): its forms, the   *)
(* calls its buttons make and what it does with the answers.  Buttons stay *)
(* enabled while calls are under way, so calls overlap and their answers   *)
(* come back in any order, or never.  The other end is the book of         *)
(* PolicyBook and a table of customers, open to everyone.                  *)
(***************************************************************************)
EXTENDS PolicyStateMachine, Integers, Sequences, FiniteSets

CONSTANTS Policies,   \* rows of the policy table that may come to exist
          Customers,  \* rows of the customer table that may come to exist
          Accounts,   \* addresses one may log in with
          Pressed,    \* the buttons pressed
          MaxCalls,   \* bound on how often
          MaxUnderWay,\* bound on the calls under way at once
          MaxTyped    \* bound on the fields typed into

QuoteFields == {"acceptId", "payId", "detailId", "historyId"}
CustomerFields == {"customerId", "listCustomerId"}
Fields == QuoteFields \cup CustomerFields \cup {"email"}

\* The lines that show what a GET button would send, and the field of each.
Previews == {"listCustomerId", "detailId", "historyId"}

Buttons == {"login", "createCustomer", "createQuote", "accept", "pay", "list",
            "detail", "history"}

\* The field a button sends; createCustomer sends names and a date instead.
Sends == [login |-> "email", createQuote |-> "customerId", accept |-> "acceptId",
          pay |-> "payId", list |-> "listCustomerId", detail |-> "detailId",
          history |-> "historyId"]

ASSUME PageAssumption ==
    /\ Null \notin Policies \cup Customers \cup Accounts
    /\ Pressed \subseteq Buttons
    /\ MaxCalls \in Nat /\ MaxUnderWay \in Nat /\ MaxTyped \in Nat

VARIABLES state, trail, receipts,  \* the book, as in PolicyBook
          made,       \* the customers made
          field,      \* field[f]: what stands in an input, Null when it is empty
          preview,    \* preview[f]: what the preview of field f was made from
          token,      \* accessToken: the account it is for, or Null
          label,      \* authState: the address it names, or Null
          calls,      \* calls[n]: the n-th call
          line,       \* reqline: the call it echoes, or 0
          out,        \* status and out: the call whose answer they show, or 0
          typed,      \* history: the fields typed into since they were filled
          edits,      \* history: how often anything was typed
          overlapped, \* history: a button was pressed while a call was under way
          retyped     \* history: the address was edited while a login was under way

book == <<state, trail, receipts>>
server == <<book, made>>
page == <<field, preview, token, label, line, out>>
history == <<typed, edits, overlapped, retyped>>
vars == <<server, page, calls, history>>

Book == INSTANCE PolicyBook WITH Keys <- {}, Methods <- {"simulated_card"}, Sources <- {"api"}

\* A call is under way until its answer has arrived or is known to be lost.
UnderWay == { n \in DOMAIN calls : calls[n].stage \in {"sent", "answered"} }

Init ==
    /\ Book!Init
    /\ made \in SUBSET Customers  \* others may have been there before
    /\ field \in { [f \in Fields |-> IF f = "email" THEN a ELSE Null] : a \in Accounts }
    /\ preview = [f \in Previews |-> Null]
    /\ token = Null /\ label = Null
    /\ calls = << >> /\ line = 0 /\ out = 0
    /\ typed = {} /\ edits = 0 /\ overlapped = FALSE /\ retyped = FALSE

\* What may be typed into a field.
Values(f) ==
    CASE f \in QuoteFields -> Policies [] f \in CustomerFields -> Customers
      [] f = "email" -> Accounts

\* A previewed field has oninput refresh its line.
Type(f) ==
    /\ edits < MaxTyped
    /\ \E v \in (Values(f) \cup {Null}) \ {field[f]} :
         /\ field' = [field EXCEPT ![f] = v]
         /\ preview' = [g \in Previews |-> IF g = f THEN v ELSE preview[g]]
    /\ typed' = typed \cup {f}
    /\ edits' = edits + 1
    /\ retyped' = (retyped \/ (f = "email" /\ \E n \in UnderWay : calls[n].button = "login"))
    /\ UNCHANGED <<server, token, label, line, out, calls, overlapped>>

\* A bug: only the calls that send a body are echoed.
PressEchoingBodies(b) ==
    /\ Len(calls) < MaxCalls /\ Cardinality(UnderWay) < MaxUnderWay
    /\ calls' = Append(calls, [button |-> b, stage |-> "sent", answer |-> Null,
                               sent |-> IF b \in DOMAIN Sends THEN field[Sends[b]] ELSE Null])
    /\ line' = IF b \in {"list", "detail", "history"} THEN line ELSE Len(calls')
    /\ overlapped' = (overlapped \/ UnderWay # {})
    /\ UNCHANGED <<server, field, preview, token, label, out, typed, edits, retyped>>

\* call(): the request is echoed and sent with what the field holds now.
Press(b) ==
    /\ Len(calls) < MaxCalls /\ Cardinality(UnderWay) < MaxUnderWay
    /\ calls' = Append(calls, [button |-> b, stage |-> "sent", answer |-> Null,
                               sent |-> IF b \in DOMAIN Sends THEN field[Sends[b]] ELSE Null])
    /\ line' = Len(calls')
    /\ overlapped' = (overlapped \/ UnderWay # {})
    /\ UNCHANGED <<server, field, preview, token, label, out, typed, edits, retyped>>
-----------------------------------------------------------------------------
(* The server, which may serve a call the page has given up.  An answer      *)
(* carries the id of what was made or found, Null when the call was refused. *)

Arrived(n) == calls[n].stage \in {"sent", "cut"}

Reply(n, answer) ==
    calls' = [calls EXCEPT ![n].stage = IF @ = "cut" THEN "lost" ELSE "answered",
                           ![n].answer = answer]

ServeRefusal(n) ==
    /\ Arrived(n)
    /\ Reply(n, Null)
    /\ UNCHANGED <<server, page, history>>

ServeRead(n) ==
    /\ Arrived(n)
    /\ \/ calls[n].button = "login" /\ calls[n].sent # Null
       \/ calls[n].button = "list"
       \/ calls[n].button \in {"detail", "history"} /\ calls[n].sent # Null
            /\ state[calls[n].sent] # Null
    /\ Reply(n, calls[n].sent)
    /\ UNCHANGED <<server, page, history>>

ServeCustomer(n) ==
    /\ Arrived(n) /\ calls[n].button = "createCustomer"
    /\ \E c \in Customers \ made : made' = made \cup {c} /\ Reply(n, c)
    /\ UNCHANGED <<book, page, history>>

ServeQuote(n) ==
    /\ Arrived(n) /\ calls[n].button = "createQuote"
    /\ calls[n].sent \in made
    /\ \E p \in Policies : Book!Quote(p, "api") /\ Reply(n, p)
    /\ UNCHANGED <<made, page, history>>

ServeMove(n) ==
    /\ Arrived(n) /\ calls[n].sent \in Policies
    /\ \/ calls[n].button = "accept" /\ Book!Accept(calls[n].sent, "api")
       \/ calls[n].button = "pay" /\ Book!PayAndBind(calls[n].sent, "simulated_card", Null, "api")
    /\ Reply(n, calls[n].sent)
    /\ UNCHANGED <<made, page, history>>
-----------------------------------------------------------------------------
\* A bug: a new quote is not filled into the form that pays.
FilledExceptPay(n) ==
    IF calls[n].answer = Null THEN {}
    ELSE CASE calls[n].button = "createCustomer" -> CustomerFields
           [] calls[n].button = "createQuote" -> QuoteFields \ {"payId"}
           [] OTHER -> {}

\* The fields an answer is filled into.
Filled(n) ==
    IF calls[n].answer = Null THEN {}
    ELSE CASE calls[n].button = "createCustomer" -> CustomerFields
           [] calls[n].button = "createQuote" -> QuoteFields
           [] OTHER -> {}

\* What is behind the await of each button; refreshPreviews reads all fields.
Return(n) ==
    /\ calls[n].stage = "answered"
    /\ calls' = [calls EXCEPT ![n].stage = "shown"]
    /\ out' = n
    /\ field' = [f \in Fields |-> IF f \in Filled(n) THEN calls[n].answer ELSE field[f]]
    /\ typed' = typed \ Filled(n)
    /\ preview' = IF Filled(n) = {} THEN preview ELSE [f \in Previews |-> field'[f]]
    /\ IF calls[n].button = "login" /\ calls[n].answer # Null
       THEN token' = calls[n].answer /\ label' = field["email"]
       ELSE UNCHANGED <<token, label>>
    /\ UNCHANGED <<server, line, edits, overlapped, retyped>>

\* A bug: the page repeats a call that failed.
LoseAndRepeat(n) ==
    /\ n \in UnderWay
    /\ calls' = [calls EXCEPT ![n].stage = "sent"]
    /\ UNCHANGED <<server, page, history>>

\* fetch fails, whether the server has handled the call, will, or never hears of it.
Lose(n) ==
    /\ n \in UnderWay
    /\ calls' = [calls EXCEPT ![n].stage = IF @ = "sent" THEN "cut" ELSE "lost"]
    /\ UNCHANGED <<server, page, history>>

(* The answer's status arrives and its body does not: call() shows the       *)
(* status, data is null, and what is behind the await finds no id or token.  *)
ReturnBroken(n) ==
    /\ calls[n].stage = "answered"
    /\ calls' = [calls EXCEPT ![n].stage = "lost"]
    /\ out' = n
    /\ UNCHANGED <<server, field, preview, token, label, line, history>>

Next ==
    \/ \E f \in Fields : Type(f)
    \/ \E b \in Pressed : Press(b)
    \/ \E n \in DOMAIN calls :
         \/ ServeRefusal(n) \/ ServeRead(n) \/ ServeCustomer(n) \/ ServeQuote(n) \/ ServeMove(n)
         \/ Return(n) \/ ReturnBroken(n) \/ Lose(n)

Spec == Init /\ [][Next]_vars
-----------------------------------------------------------------------------
(* index.html:223 and 302, "ids auto-fill as you go": the fields of later   *)
(* steps that nobody typed into hold one and the same quote or customer,    *)
(* which exists, and every preview shows what its button would send, or that *)
(* its field is empty.                                                       *)
StepsShareIds ==
    /\ \A f, g \in QuoteFields \ typed : field[f] = field[g]
    /\ \A f, g \in CustomerFields \ typed : field[f] = field[g]
    /\ \A f \in QuoteFields \ typed : field[f] # Null => state[field[f]] # Null
    /\ \A f \in CustomerFields \ typed : field[f] # Null => field[f] \in made
    /\ \A f \in Previews : preview[f] = field[f]

(* A quote has no idempotency key, but one press makes at most one: every   *)
(* quote in the book was announced by the answer to one press, and if that  *)
(* answer was lost the page never learns of it and no field holds it that   *)
(* nobody typed it into.                                                    *)
QuotesAccounted ==
    \A p \in Policies : state[p] # Null =>
        \E n \in DOMAIN calls :
            /\ calls[n].button = "createQuote" /\ calls[n].answer = p
            /\ \A m \in DOMAIN calls \ {n} :
                 ~(calls[m].button = "createQuote" /\ calls[m].answer = p)
            /\ calls[n].stage # "shown" => \A f \in QuoteFields \ typed : field[f] # p

(* index.html:242, "the request is never a mystery": for one who waits for  *)
(* every answer, the answer shown is to the request shown, unless it was    *)
(* lost; and the page names the account its token is for.  Calls that       *)
(* overlap, and an address edited during a login, can make both untrue.     *)
PanelPairs ==
    /\ UnderWay = {} /\ ~overlapped /\ line # 0 =>
         out = line \/ calls[line].stage \in {"cut", "lost"}
    /\ ~retyped => label = token
-----------------------------------------------------------------------------
(* What the proofs need: what a call has done, and what the page took from  *)
(* it.                                                                      *)

Id == Policies \cup Customers \cup Accounts \cup {Null}

Call == [button : Buttons, stage : {"sent", "cut", "answered", "shown", "lost"},
         answer : Id, sent : Id]

PageTypeOK ==
    /\ state \in [Policies -> State \cup {Null}]
    /\ made \subseteq Customers
    /\ field \in [Fields -> Id] /\ preview \in [Previews -> Id]
    /\ calls \in Seq(Call)
    /\ line = Len(calls) /\ out \in 0..Len(calls)
    /\ typed \subseteq Fields
    /\ overlapped \in BOOLEAN /\ retyped \in BOOLEAN

\* The n-th call has made or found what its answer names.
Made(n) ==
    calls[n].answer # Null =>
        /\ calls[n].stage \notin {"sent", "cut"}
        /\ calls[n].button = "login" => calls[n].answer = calls[n].sent
        /\ calls[n].button = "createCustomer" => calls[n].answer \in made
        /\ calls[n].button = "createQuote" =>
             /\ calls[n].answer \in Policies /\ state[calls[n].answer] # Null
             /\ \A m \in DOMAIN calls \ {n} :
                  ~(calls[m].button = "createQuote" /\ calls[m].answer = calls[n].answer)

\* Call n made quote p.
MadeQuote(n, p) == calls[n].button = "createQuote" /\ calls[n].answer = p

\* What was not typed into a field came out of an answer that was shown.
Announced ==
    /\ \A p \in Policies : state[p] # Null => \E n \in DOMAIN calls : MadeQuote(n, p)
    /\ \A f \in QuoteFields \ typed : field[f] # Null =>
         \E n \in DOMAIN calls : calls[n].stage = "shown" /\ MadeQuote(n, field[f])

\* One who waits has at most the last call under way, and it sent the address shown.
Waits ==
    /\ ~overlapped => UnderWay \subseteq {line}
    /\ ~retyped => \A n \in UnderWay :
         calls[n].button = "login" => calls[n].sent = field["email"]

PageInv ==
    /\ PageTypeOK /\ (\A n \in DOMAIN calls : Made(n)) /\ Announced /\ Waits
    /\ StepsShareIds /\ PanelPairs
=============================================================================
