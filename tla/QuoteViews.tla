------------------------------ MODULE QuoteViews ------------------------------
(***************************************************************************)
(* Who may ask for what, and what a request means: the one POST endpoint   *)
(* /quote/ and its REST aliases (src/apps/policies/views.py), the          *)
(* permission classes and scopes (src/apps/accounts/permissions.py) and    *)
(* the accounts staff edit meanwhile.  A request reads its account when it *)
(* is authenticated, its customer or policy when it looks it up, and       *)
(* changes the book after that; the account, the link, the role and the    *)
(* rows it has read may change in between.  The services are those of      *)
(* PolicyBook, which PolicyServices implements; expiry is left to it.      *)
(***************************************************************************)
EXTENDS PolicyStateMachine, Integers, Sequences, FiniteSets

CONSTANTS Users,      \* accounts
          Customers,  \* rows of the customer table that may come to exist
          Policies,   \* rows of the policy table that may come to exist
          Workers,    \* web workers
          Requests,   \* the requests clients and staff may make
          Given,      \* the roles accounts are given
          Changes     \* what others change: some of Changeable

Changeable == {"role", "link", "account", "customer", "owner", "policy", "catalogue", "unique"}

Anon == "anonymous"

Methods == {"simulated_card", "invoice"}

Sources == {"api", "admin"}

Roles == {"staff", "agent", "customer"}

\* The fields of a body the serializers know; "premium" is not one of them.
CreateFields == {"customer_id", "type", "cover"}
TransitionFields == {"quote_id", "status", "payment_method"}

VARIABLES state, trail, receipts,  \* the book, as in PolicyBook
          owner,      \* owner[p]: the customer of policy p; Null before it exists, "deleted"
          actors,     \* actors[p]: the actor column of its transition rows
          role,       \* role[u]: the role of account u, Null once it is deleted
          customers,  \* customers[c]: the account of customer c or Null; "unmade", "deleted"
          demoOpen,   \* DEMO_OPEN_API
          pc,         \* pc[w]: "idle", "admitted", "found", "priced" or "answered"
          request,    \* request[w]: what worker w was asked, or Null
          principal,  \* principal[w]: request.user as it was read, or Null
          answer,     \* answer[w]: the code it answered, or Null
          hold,       \* hold[w]: of the rows w is to write, "sound" while the product and
                      \* rule they name exist and their unique values are free; "lost", "taken"
          authors,    \* history: who made each row of trail[p]
          seen,       \* history: request[w] was in scope at some moment of the call
          unseen      \* history: it was out of scope at some moment of the call

book == <<state, trail, receipts>>
policyVars == <<book, owner, actors, authors>>
accountVars == <<role, customers>>
callVars == <<pc, request, principal, answer, hold>>
vars == <<policyVars, accountVars, demoOpen, callVars, seen, unseen>>

Book == INSTANCE PolicyBook WITH Keys <- {}
-----------------------------------------------------------------------------
(* What a request means: the service it calls and with what.                *)

Invalid == [op |-> "invalid"]

Create(c, type) == [op |-> "create", customer |-> c, type |-> type]
AcceptOf(p) == [op |-> "accept", policy |-> p]
PayOf(p, method) == [op |-> "pay", policy |-> p, method |-> method]

\* QuoteCreateSerializer, which takes no other field than its own.
CreateMeaning(body) ==
    IF {"customer_id", "type"} \subseteq DOMAIN body /\ DOMAIN body \subseteq CreateFields
    THEN Create(body["customer_id"], body["type"])
    ELSE Invalid

\* A bug: the branch for "active" forgets the method.
TransitionMeaningCardOnly(body) ==
    IF /\ {"quote_id", "status"} \subseteq DOMAIN body /\ DOMAIN body \subseteq TransitionFields
       /\ body["status"] \in {"accepted", "active"}
    THEN IF body["status"] = "accepted" THEN AcceptOf(body["quote_id"])
         ELSE PayOf(body["quote_id"], "simulated_card")
    ELSE Invalid

\* QuoteTransitionSerializer and the two branches behind it.
TransitionMeaning(body) ==
    IF /\ {"quote_id", "status"} \subseteq DOMAIN body /\ DOMAIN body \subseteq TransitionFields
       /\ body["status"] \in {"accepted", "active"}
       /\ "payment_method" \in DOMAIN body => body["payment_method"] \in Methods
    THEN IF body["status"] = "accepted" THEN AcceptOf(body["quote_id"])
         ELSE PayOf(body["quote_id"], IF "payment_method" \in DOMAIN body
                                      THEN body["payment_method"] ELSE "simulated_card")
    ELSE Invalid

\* POST /quote/: the keys decide, and both kinds or neither are refused.
Dispatch(body) ==
    LET hasCreate == DOMAIN body \cap {"customer_id", "type"} # {}
        hasTransition == DOMAIN body \cap {"quote_id", "status"} # {}
    IN IF hasCreate = hasTransition THEN Invalid
       ELSE IF hasCreate THEN CreateMeaning(body) ELSE TransitionMeaning(body)

(* POST /quotes/<id>/pay/: a method that is missing, null or blank is the   *)
(* card; "" stands for everything Python takes for false.                   *)
PayAlias(p, body) ==
    PayOf(p, IF "payment_method" \in DOMAIN body /\ body["payment_method"] \notin {"", Null}
             THEN body["payment_method"] ELSE "simulated_card")

Meaning(r) ==
    CASE r.route = "quote" -> Dispatch(r.body)
      [] r.route = "quotes" -> CreateMeaning(r.body)
      [] r.route = "accept" -> AcceptOf(r.id)
      [] r.route = "pay" -> PayAlias(r.id, r.body)
      [] r.route \in {"detail", "history"} -> [op |-> "read", policy |-> r.id]
      [] r.route = "create_customer" -> [op |-> "customer"]
      [] r.route = "admin_accept" -> AcceptOf(r.id)
      [] r.route = "admin_bind" -> [op |-> "bind", policy |-> r.id]

AdminRoutes == {"admin_accept", "admin_bind"}

Routes == {"quote", "quotes", "accept", "pay", "detail", "history", "create_customer"}
              \cup AdminRoutes

\* request.user as a request reads it.
Principal == [user : Users \cup {Anon}, role : Roles \cup {Null}]

ASSUME ViewsAssumption ==
    /\ Null \notin Users \cup Customers \cup Policies \cup Workers \cup Requests \cup Principal
    /\ Null \notin Roles \cup Methods \cup {Anon, "unmade", "deleted"}
    /\ {Anon, "unmade", "deleted"} \cap Users = {} /\ "deleted" \notin Customers
    /\ Given \subseteq Roles
    /\ Changes \subseteq Changeable
    /\ \A r \in Requests :
         /\ r = [route |-> r.route, by |-> r.by, id |-> r.id, body |-> r.body]
         /\ r.route \in Routes /\ r.by \in Users \cup {Anon}
         /\ r.route \in AdminRoutes => r.by # Anon
         /\ LET m == Meaning(r) IN
              /\ m.op = "create" => m.customer \in Customers /\ m.type \in {"known", "unknown"}
              /\ m.op \in {"accept", "pay", "bind", "read"} => m.policy \in Policies
-----------------------------------------------------------------------------
(* The error envelope: the code of each exception that leaves a view.  What *)
(* the handler does not know becomes a bare 500.                            *)

\* A bug: DomainError is no longer an APIException.
CodeOfAPIOnly(exc) ==
    CASE exc \in {"ValidationError", "DjangoValidationError", "RatingError"} -> "validation_error"
      [] exc = "NotAuthenticated" -> "authentication_failed"
      [] exc = "PermissionDenied" -> "permission_denied"
      [] exc = "NotFound" -> "not_found"
      [] OTHER -> "bare"

CodeOf(exc) ==
    CASE exc \in {"ValidationError", "DjangoValidationError", "RatingError"} -> "validation_error"
      [] exc = "NotAuthenticated" -> "authentication_failed"
      [] exc = "PermissionDenied" -> "permission_denied"
      [] exc = "NotFound" -> "not_found"
      [] exc = "DomainError" -> "invalid_state_transition"
      [] OTHER -> "bare"

Codes == {"ok", "validation_error", "authentication_failed", "permission_denied",
          "not_found", "invalid_state_transition", "bare"}

ASSUME NullIsNoCode == Null \notin Codes

\* User.is_agent_or_staff, of a role as it was read.
Privileged(r) == r \in {"staff", "agent"}

(* The permission class of the view, for a principal or Anon in demo mode:  *)
(* DemoOrStaff for making customers, DemoOrAuthenticated for all else; the  *)
(* admin asks for a session instead.                                        *)
Admits(route, who) ==
    IF who.user = Anon THEN demoOpen /\ route \notin AdminRoutes
    ELSE route = "create_customer" => Privileged(who.role)

\* A bug: the scope lets every account through.
InScopeOfAll(who, c) == TRUE

\* scope_customers and scope_policies: c, or a policy of c, as who may see it.
InScope(who, c) ==
    \/ who.user = Anon
    \/ Privileged(who.role)
    \/ customers[c] = who.user

\* _actor
Actor(who) == IF who.user = Anon THEN Null ELSE who.user
-----------------------------------------------------------------------------
Made(c) == customers[c] \notin {"unmade", "deleted"}

Gone(u) == u # Anon /\ role[u] = Null

Exists(p) == owner[p] \in Customers

\* The customer a request is about; Null when that or its policy is missing.
Subject(r) ==
    LET m == Meaning(r)
    IN CASE m.op = "create" -> IF Made(m.customer) /\ m.type = "known" THEN m.customer
                               ELSE Null
         [] m.op \in {"accept", "pay", "bind", "read"} ->
              IF Exists(m.policy) THEN owner[m.policy] ELSE Null
         [] OTHER -> Null

(* docs/AUTHENTICATION.md:13-24: who sees a customer and its policies.  u is *)
(* the account, r its role.                                                 *)
Sees(u, r, c) ==
    IF u = Anon THEN demoOpen ELSE r \in {"staff", "agent"} \/ customers[c] = u

\* w was asked for something its account sees at this moment, in the role w has read.
Visible(w) ==
    /\ request[w] # Null /\ principal[w] # Null
    /\ Subject(request[w]) # Null
    /\ Sees(principal[w].user, principal[w].role, Subject(request[w]))

\* It is missing, or not to be seen.
Hidden(w) == request[w] # Null /\ ~Visible(w)

\* The moments of a call count from its authentication to its answer.
Watch ==
    /\ seen' = [w \in Workers |-> request'[w] # Null /\
                   IF pc[w] = "answered" THEN seen[w]
                   ELSE (pc[w] # "idle" /\ seen[w]) \/ Visible(w)']
    /\ unseen' = [w \in Workers |-> request'[w] # Null /\
                     IF pc[w] = "answered" THEN unseen[w]
                     ELSE (pc[w] # "idle" /\ unseen[w]) \/ Hidden(w)']

Init ==
    /\ Book!Init
    /\ owner = [p \in Policies |-> Null]
    /\ actors = [p \in Policies |-> << >>]
    /\ authors = [p \in Policies |-> << >>]
    /\ role \in [Users -> Given]
    /\ customers = [c \in Customers |-> "unmade"]
    /\ demoOpen \in BOOLEAN
    /\ pc = [w \in Workers |-> "idle"]
    /\ request = [w \in Workers |-> Null]
    /\ principal = [w \in Workers |-> Null]
    /\ answer = [w \in Workers |-> Null]
    /\ hold = [w \in Workers |-> Null]
    /\ seen = [w \in Workers |-> FALSE]
    /\ unseen = [w \in Workers |-> FALSE]

Answer(w, code) ==
    /\ pc' = [pc EXCEPT ![w] = "answered"]
    /\ answer' = [answer EXCEPT ![w] = code]
    /\ UNCHANGED <<request, principal, hold, demoOpen>>

\* The call goes on, with rows to write that would be in order.
Goto(w, label) ==
    /\ pc' = [pc EXCEPT ![w] = label]
    /\ hold' = [hold EXCEPT ![w] = "sound"]
    /\ UNCHANGED <<request, principal, answer, demoOpen>>

(* The token or session names an account, which is read; then the view's    *)
(* permission class is asked.  A token may outlive its account.             *)
Receive(w) ==
    /\ pc[w] = "idle"
    /\ \E r \in Requests :
         LET who == [user |-> r.by, role |-> IF r.by = Anon THEN Null ELSE role[r.by]]
             refusal == IF r.by = Anon \/ Gone(r.by) THEN "NotAuthenticated" ELSE "PermissionDenied"
         IN /\ request' = [request EXCEPT ![w] = r]
            /\ principal' = [principal EXCEPT ![w] = IF Gone(r.by) THEN Null ELSE who]
            /\ IF ~Gone(r.by) /\ Admits(r.route, who)
               THEN pc' = [pc EXCEPT ![w] = "admitted"] /\ UNCHANGED answer
               ELSE /\ pc' = [pc EXCEPT ![w] = "answered"]
                    /\ answer' = [answer EXCEPT ![w] = CodeOf(refusal)]
    /\ UNCHANGED <<policyVars, accountVars, hold, demoOpen>>
    /\ Watch

\* The payload means nothing: refused before anything is looked up.
RefusePayload(w) ==
    /\ pc[w] = "admitted"
    /\ Meaning(request[w]) = Invalid
    /\ Answer(w, CodeOf("ValidationError"))
    /\ UNCHANGED <<policyVars, accountVars>>
    /\ Watch

(* QuoteCreateSerializer.validate and the check in _create_quote, or        *)
(* _get_policy: one SELECT, scoped for API calls, of what there is.         *)
LookUp(w) ==
    LET m == Meaning(request[w])
        c == Subject(request[w])
    IN /\ pc[w] = "admitted"
       /\ m.op \in {"create", "accept", "pay", "bind", "read"}
       /\ IF c # Null /\ (request[w].route \in AdminRoutes \/ InScope(principal[w], c))
          THEN IF m.op = "read" THEN Answer(w, "ok") ELSE Goto(w, "found")
          ELSE Answer(w, CodeOf("NotFound"))
       /\ UNCHANGED <<policyVars, accountVars>>
       /\ Watch

(* POST /create_customer/ and its alias: the form is in order, and nobody   *)
(* has its address, or it is refused.                                       *)
CheckForm(w) ==
    /\ pc[w] = "admitted"
    /\ Meaning(request[w]).op = "customer"
    /\ Goto(w, "found") \/ Answer(w, CodeOf("ValidationError"))
    /\ UNCHANGED <<policyVars, accountVars>>
    /\ Watch

CreateCustomer(w) ==
    /\ pc[w] = "found"
    /\ Meaning(request[w]).op = "customer" /\ hold[w] = "sound"
    /\ \E c \in Customers :
         /\ customers[c] = "unmade"
         /\ customers' = [customers EXCEPT ![c] = Null]
    /\ Answer(w, "ok")
    /\ UNCHANGED <<policyVars, role>>
    /\ Watch
-----------------------------------------------------------------------------
Source(r) == IF r.route \in AdminRoutes THEN "admin" ELSE "api"

(* calculate_premium and select_rule, and the draw of a quote_reference:    *)
(* what the rows of the quote will name is read.                            *)
Price(w) ==
    /\ pc[w] = "found" /\ Meaning(request[w]).op = "create" /\ hold[w] = "sound"
    /\ Goto(w, "priced")
    /\ UNCHANGED <<policyVars, accountVars>>
    /\ Watch

\* The foreign keys and unique columns of the rows a call writes hold at its commit.
RowsHold(w) ==
    /\ hold[w] = "sound"
    /\ Meaning(request[w]).op # "customer" => ~Gone(principal[w].user)
    /\ Meaning(request[w]).op = "create" => Made(Meaning(request[w]).customer)

\* A bug: _apply_transition is not told the actor of a priced quote.
SignGenesisOnly(w, p) ==
    /\ actors' = [actors EXCEPT ![p] =
           [i \in 1..Len(trail'[p]) |->
               IF i \in DOMAIN @ THEN @[i] ELSE IF i = 2 THEN Null ELSE Actor(principal[w])]]
    /\ authors' = [authors EXCEPT ![p] =
           [i \in 1..Len(trail'[p]) |->
               IF i \in DOMAIN @ THEN @[i] ELSE principal[w].user]]

\* Every row the service adds names the account of the request.
Sign(w, p) ==
    /\ actors' = [actors EXCEPT ![p] =
           [i \in 1..Len(trail'[p]) |-> IF i \in DOMAIN @ THEN @[i] ELSE Actor(principal[w])]]
    /\ authors' = [authors EXCEPT ![p] =
           [i \in 1..Len(trail'[p]) |-> IF i \in DOMAIN @ THEN @[i] ELSE principal[w].user]]

\* create_quote, on any free row.
CreateQuote(w) ==
    LET m == Meaning(request[w])
    IN /\ pc[w] = "priced" /\ RowsHold(w)
       /\ \E p \in Policies :
            /\ owner[p] = Null
            /\ Book!Quote(p, Source(request[w]))
            /\ owner' = [owner EXCEPT ![p] = m.customer]
            /\ Sign(w, p)
       /\ Answer(w, "ok")
       /\ UNCHANGED accountVars
       /\ Watch

\* accept_quote, simulate_payment or activate_policy.
MovePolicy(w) ==
    LET m == Meaning(request[w])
        source == Source(request[w])
    IN /\ pc[w] = "found" /\ RowsHold(w)
       /\ \/ m.op = "accept" /\ Book!Accept(m.policy, source)
          \/ m.op = "pay" /\ m.method \in Methods
                          /\ Book!PayAndBind(m.policy, m.method, Null, source)
          \/ m.op = "bind" /\ Book!BindByHand(m.policy, source)
       /\ Sign(w, m.policy)
       /\ Answer(w, "ok")
       /\ UNCHANGED <<accountVars, owner>>
       /\ Watch

(* The service refuses: an unsupported method, a customer or cover that     *)
(* cannot be rated, a state that does not allow the move, a quote that has  *)
(* lapsed.                                                                  *)
RefuseCall(w) ==
    LET m == Meaning(request[w])
    IN /\ pc[w] = "found"
       /\ \/ m.op = "create" /\ Answer(w, CodeOf("RatingError"))
          \/ m.op = "pay" /\ m.method \notin Methods /\ Answer(w, CodeOf("ValidationError"))
          \/ /\ m.op \in {"pay", "bind"} /\ (m.op = "pay" => m.method \in Methods)
             /\ Exists(m.policy) /\ state[m.policy] # "accepted"
             /\ Answer(w, CodeOf("DomainError"))
          \/ m.op = "accept" /\ Exists(m.policy) /\ Answer(w, CodeOf("DomainError"))
       /\ UNCHANGED <<policyVars, accountVars>>
       /\ Watch

(* select_for_update().get finds no policy any more: the DoesNotExist of    *)
(* the model leaves the service, outside the try of _get_policy.            *)
MissRow(w) ==
    LET m == Meaning(request[w])
    IN /\ pc[w] = "found" /\ m.op \in {"accept", "pay", "bind"}
       /\ m.op = "pay" => m.method \in Methods
       /\ ~Exists(m.policy)
       /\ Answer(w, CodeOf("DoesNotExist"))
       /\ UNCHANGED <<policyVars, accountVars>>
       /\ Watch

(* The account, customer, product or rule the new rows name is gone, or     *)
(* another row has the reference or the address: IntegrityError, and all of *)
(* the transaction is rolled back.                                          *)
RollBack(w) ==
    LET m == Meaning(request[w])
    IN /\ pc[w] = "priced" \/ (pc[w] = "found" /\ m.op # "create")
       /\ ~RowsHold(w)
       /\ m.op = "accept" => state[m.policy] = "quoted"
       /\ m.op \in {"pay", "bind"} => state[m.policy] = "accepted"
       /\ m.op = "pay" => m.method \in Methods
       /\ Answer(w, CodeOf("IntegrityError"))
       /\ UNCHANGED <<policyVars, accountVars>>
       /\ Watch

\* The answer is given, or the worker dies before it and nothing is committed.
Finish(w) ==
    /\ pc[w] # "idle"
    /\ pc' = [pc EXCEPT ![w] = "idle"]
    /\ request' = [request EXCEPT ![w] = Null]
    /\ principal' = [principal EXCEPT ![w] = Null]
    /\ answer' = [answer EXCEPT ![w] = Null]
    /\ hold' = [hold EXCEPT ![w] = Null]
    /\ UNCHANGED <<policyVars, accountVars, demoOpen>>
    /\ Watch
-----------------------------------------------------------------------------
(* What staff and other calls change meanwhile.                             *)

SetRole(u) ==
    /\ "role" \in Changes
    /\ role[u] # Null
    /\ \E r \in Given \ {role[u]} : role' = [role EXCEPT ![u] = r]
    /\ UNCHANGED <<policyVars, customers, demoOpen, callVars>>
    /\ Watch

\* The admin form of a customer: its account is free, or it has none.
LinkCustomer(c) ==
    /\ "link" \in Changes
    /\ Made(c)
    /\ \E u \in (Users \cup {Null}) \ {customers[c]} :
         /\ u # Null => role[u] # Null /\ \A d \in Customers \ {c} : customers[d] # u
         /\ customers' = [customers EXCEPT ![c] = u]
    /\ UNCHANGED <<policyVars, role, demoOpen, callVars>>
    /\ Watch

\* A bug: the rows that name the account keep its id.
DeleteAccountLeavingRows(u) ==
    /\ "account" \in Changes
    /\ role[u] # Null
    /\ role' = [role EXCEPT ![u] = Null]
    /\ UNCHANGED <<policyVars, customers, demoOpen, callVars>>
    /\ Watch

(* SET_NULL reaches the customer of the account and, past save(), the rows  *)
(* of every trail it acted in.                                              *)
DeleteAccount(u) ==
    /\ "account" \in Changes
    /\ role[u] # Null
    /\ role' = [role EXCEPT ![u] = Null]
    /\ customers' = [c \in Customers |-> IF customers[c] = u THEN Null ELSE customers[c]]
    /\ actors' = [p \in Policies |-> [i \in DOMAIN actors[p] |->
                      IF actors[p][i] = u THEN Null ELSE actors[p][i]]]
    /\ UNCHANGED <<book, owner, authors, demoOpen, callVars>>
    /\ Watch

\* PROTECT keeps a customer that has policies.
DeleteCustomer(c) ==
    /\ "customer" \in Changes
    /\ Made(c)
    /\ \A p \in Policies : owner[p] # c
    /\ customers' = [customers EXCEPT ![c] = "deleted"]
    /\ UNCHANGED <<policyVars, role, demoOpen, callVars>>
    /\ Watch

\* The change page of a policy leaves its customer editable.
MoveOwner(p) ==
    /\ "owner" \in Changes
    /\ Exists(p)
    /\ \E c \in Customers \ {owner[p]} : Made(c) /\ owner' = [owner EXCEPT ![p] = c]
    /\ UNCHANGED <<book, actors, authors, accountVars, demoOpen, callVars>>
    /\ Watch

\* The add page makes a policy in state new, without history.
AddPolicy(p) ==
    /\ "policy" \in Changes
    /\ owner[p] = Null
    /\ \E c \in Customers : Made(c) /\ owner' = [owner EXCEPT ![p] = c]
    /\ state' = [state EXCEPT ![p] = "new"]
    /\ UNCHANGED <<trail, receipts, actors, authors, accountVars, demoOpen, callVars>>
    /\ Watch

\* The delete page asks for the right to delete its transitions, which nobody has.
DeletePolicy(p) ==
    /\ "policy" \in Changes
    /\ Exists(p) /\ trail[p] = << >>
    /\ owner' = [owner EXCEPT ![p] = "deleted"]
    /\ state' = [state EXCEPT ![p] = Null]
    /\ UNCHANGED <<trail, receipts, actors, authors, accountVars, demoOpen, callVars>>
    /\ Watch

(* A rule is deleted that quotes have been priced by, or a product none of  *)
(* whose quotes has been committed, and its rules with it.                  *)
DeleteFromCatalogue ==
    /\ "catalogue" \in Changes
    /\ \E named \in SUBSET { w \in Workers : pc[w] \in {"found", "priced"}
                                             /\ Meaning(request[w]).op = "create" } :
         /\ named # {}
         /\ hold' = [w \in Workers |-> IF w \in named THEN "lost" ELSE hold[w]]
    /\ UNCHANGED <<policyVars, accountVars, pc, request, principal, answer, demoOpen>>
    /\ Watch

(* Another customer gets the address a form asks for after the form was     *)
(* checked, or the reference a quote has drawn is another policy's: eight   *)
(* hexadecimal digits (generate_quote_reference).                           *)
Take(w) ==
    /\ "unique" \in Changes
    /\ \/ /\ pc[w] = "found" /\ Meaning(request[w]).op = "customer"
          /\ "email" \in DOMAIN request[w].body /\ \E c \in Customers : Made(c)
       \/ pc[w] = "priced" /\ \E p \in Policies : Exists(p)
    /\ hold[w] = "sound"
    /\ hold' = [hold EXCEPT ![w] = "taken"]
    /\ UNCHANGED <<policyVars, accountVars, pc, request, principal, answer, demoOpen>>
    /\ Watch

Next ==
    \/ \E w \in Workers :
         \/ Receive(w) \/ RefusePayload(w) \/ LookUp(w) \/ CheckForm(w) \/ CreateCustomer(w)
         \/ Price(w) \/ CreateQuote(w) \/ MovePolicy(w) \/ RefuseCall(w) \/ MissRow(w)
         \/ RollBack(w) \/ Finish(w) \/ Take(w)
    \/ \E u \in Users : SetRole(u) \/ DeleteAccount(u)
    \/ \E c \in Customers : LinkCustomer(c) \/ DeleteCustomer(c)
    \/ \E p \in Policies : MoveOwner(p) \/ AddPolicy(p) \/ DeletePolicy(p)
    \/ DeleteFromCatalogue

Spec == Init /\ [][Next]_vars
-----------------------------------------------------------------------------
TrailRow == [from : State \cup {Null}, to : State, source : Sources,
             payment : Nat \cup {Null}]

Receipt == [method : Methods, key : {Null}]

(* Accounts, customers and policies that rows name exist, an account has at *)
(* most one customer, and every row of a trail has its actor column.        *)
ViewsTypeOK ==
    /\ state \in [Policies -> State \cup {Null}]
    /\ role \in [Users -> Roles \cup {Null}]
    /\ customers \in [Customers -> Users \cup {Null, "unmade", "deleted"}]
    /\ trail \in [Policies -> Seq(TrailRow)]
    /\ receipts \in [Policies -> Seq(Receipt)]
    /\ actors \in [Policies -> Seq(Users \cup {Null})]
    /\ authors \in [Policies -> Seq(Users \cup {Anon})]
    /\ owner \in [Policies -> Customers \cup {Null, "deleted"}]
    /\ pc \in [Workers -> {"idle", "admitted", "found", "priced", "answered"}]
    /\ request \in [Workers -> Requests \cup {Null}]
    /\ principal \in [Workers -> Principal \cup {Null}]
    /\ answer \in [Workers -> Codes \cup {Null}]
    /\ hold \in [Workers -> {"sound", "lost", "taken", Null}]
    /\ demoOpen \in BOOLEAN
    /\ \A p \in Policies :
         /\ Exists(p) <=> state[p] # Null
         /\ Exists(p) => Made(owner[p])
         /\ Len(actors[p]) = Len(trail[p]) /\ Len(authors[p]) = Len(trail[p])
         /\ \A i \in DOMAIN actors[p] : actors[p][i] # Null => role[actors[p][i]] # Null
    /\ \A c, d \in Customers : customers[c] \in Users =>
         /\ role[customers[c]] # Null
         /\ customers[d] = customers[c] => c = d

AnswerInScope(w) ==
    pc[w] = "answered" /\ request[w].route \notin AdminRoutes =>
        /\ answer[w] = "ok" /\ request[w].route # "create_customer" => seen[w]
        /\ answer[w] = "not_found" => unseen[w]

(* permissions.py:3-5 and ADR-0008: a call of the API that was answered with *)
(* success had what it asked for in scope at some moment, whatever was       *)
(* relinked since; one answered "not found" asked at some moment for what    *)
(* was missing or not its account's to see.  Both are judged in the role the *)
(* account had when it was authenticated: a demotion reaches the next call.  *)
ScopeHolds == \A w \in Workers : AnswerInScope(w)

(* ADR-0007:28, the audit trail cannot be silently rewritten: every row      *)
(* names the account that made it for as long as the account exists, and     *)
(* nobody otherwise; with the API locked no row was made by nobody.  What    *)
(* deleting an account takes from the trail is its name, in all its rows.    *)
TrailNamesAuthors ==
    \A p \in Policies : \A i \in DOMAIN authors[p] :
        /\ authors[p][i] = Anon => demoOpen /\ actors[p][i] = Null
        /\ authors[p][i] # Anon =>
             actors[p][i] = IF role[authors[p][i]] = Null THEN Null ELSE authors[p][i]

\* The account or a row the call of w rests on was deleted, or a unique value it needs taken.
BareExplained(w) ==
    LET m == Meaning(request[w])
    IN answer[w] = "bare" =>
        \/ Gone(request[w].by)
        \/ hold[w] \in {"lost", "taken"}
        \/ m.op = "create" /\ customers[m.customer] = "deleted"
        \/ m.op \in {"accept", "pay", "bind"} /\ owner[m.policy] = "deleted"

(* exceptions.py:1, one envelope for every failure: an answer without it     *)
(* means that the database changed under the call.  Its account, or the      *)
(* customer, product, rule or policy it had found was deleted before the     *)
(* commit, or another row took the address or has the reference it needs;    *)
(* over a database that keeps still, whose columns hold every value and      *)
(* which answers, every refusal has its envelope.                            *)
BareErrorsExplained == \A w \in Workers : BareExplained(w)

\* The REST request for what a request to /quote/ asks.
ByAlias(r) ==
    LET m == Meaning(r)
    IN IF m.op = "create" THEN [r EXCEPT !.route = "quotes"]
       ELSE [r EXCEPT !.route = m.op, !.id = m.policy]

\* The request to /quote/ for what a REST request to pay asks.
ByDispatch(r) ==
    [r EXCEPT !.route = "quote",
              !.body = [f \in {"quote_id", "status"} \cup DOMAIN r.body |->
                           CASE f = "quote_id" -> r.id [] f = "status" -> "active"
                             [] OTHER -> r.body[f]]]

(* views.py:3-5, the routes cannot drift: whatever /quote/ understands, the  *)
(* alias understands alike; what the alias to pay understands, /quote/ does, *)
(* or refuses because of the method or of a field it does not know.          *)
RoutesAgree ==
    \A w \in Workers : request[w] # Null =>
        /\ request[w].route = "quote" /\ Meaning(request[w]) # Invalid =>
             Meaning(ByAlias(request[w])) = Meaning(request[w])
        /\ request[w].route = "pay" =>
             LET body == request[w].body
             IN \/ Meaning(ByDispatch(request[w])) = Meaning(request[w])
                \/ /\ Meaning(ByDispatch(request[w])) = Invalid
                   /\ \/ "payment_method" \in DOMAIN body /\ body["payment_method"] \notin Methods
                      \/ ~(DOMAIN body \subseteq TransitionFields)

-----------------------------------------------------------------------------
(* What the proofs need: what a call holds at each place it can be at.       *)

RequestHeld(w) ==
    LET m == Meaning(request[w])
    IN /\ pc[w] # "idle" => request[w] # Null
       /\ pc[w] # "answered" => answer[w] = Null
       /\ pc[w] \in {"admitted", "found", "priced"} =>
            /\ principal[w] # Null /\ principal[w].user = request[w].by
            /\ request[w].by = Anon => demoOpen
       /\ pc[w] = "found" => m.op \in {"create", "accept", "pay", "bind", "customer"}
       /\ pc[w] = "priced" => m.op = "create"
       /\ pc[w] \in {"found", "priced"} =>
            /\ hold[w] \in {"sound", "lost", "taken"}
            /\ m.op = "create" => customers[m.customer] # "unmade"
            /\ m.op \in {"accept", "pay", "bind"} => owner[m.policy] # Null
            /\ m.op # "customer" /\ request[w].route \notin AdminRoutes => seen[w]

ViewsInv ==
    /\ ViewsTypeOK /\ TrailNamesAuthors
    /\ \A w \in Workers : RequestHeld(w) /\ AnswerInScope(w) /\ BareExplained(w)
=============================================================================
