------------------------------ MODULE SeedDemo ------------------------------
(***************************************************************************)
(* The start of the API container (src/scripts/docker-entrypoint.sh) with  *)
(* SEED_DEMO=1: seed_demo puts the demo principals and a customer linked   *)
(* to one of them into the database, again on every restart, whatever      *)
(* staff have made of those rows in the admin meanwhile.  The address of a *)
(* principal is its role @demo.local; the command is one transaction.      *)
(***************************************************************************)
EXTENDS Integers, FiniteSets

CONSTANTS Null,
          UserIds, CustomerIds,  \* rows of either table that may come to exist
          OtherEmails,           \* addresses staff may type in
          Edits                  \* which tables staff edit: "users", "customers"

Roles == {"staff", "agent", "customer"}

ASSUME SeedAssumption ==
    /\ Null \notin Roles \cup OtherEmails \cup UserIds
    /\ Roles \cap OtherEmails = {}
    /\ Edits \subseteq {"users", "customers"}

VARIABLES users,      \* users[u]: the account row, Null when there is none
          customers,  \* customers[c]: the customer row, Null when there is none
          container   \* "down", "up", or "failed" when the entrypoint gave up

vars == <<users, customers, container>>

Emails == Roles \cup OtherEmails

User == [email : Emails, role : Roles, active : BOOLEAN]

Customer == [email : Emails \cup {Null}, user : UserIds \cup {Null}]

\* None is no row of either table.
ASSUME NullIsNoRow == Null \notin User \cup Customer

Rows(table) == { i \in DOMAIN table : table[i] # Null }

Init ==
    /\ users = [u \in UserIds |-> Null]
    /\ customers = [c \in CustomerIds |-> Null]
    /\ container = "down"

\* Where update_or_create puts the principal of each role.
Places ==
    { at \in [Roles -> UserIds] :
        /\ \A r, s \in Roles : at[r] = at[s] => r = s
        /\ \A r \in Roles :
             IF \E u \in Rows(users) : users[u].email = r
             THEN at[r] \in Rows(users) /\ users[at[r]].email = r
             ELSE at[r] \notin Rows(users) }

\* A bug: get_or_create, which leaves a row it finds as it is.
PrincipalAsFound(r, found) ==
    IF found # Null THEN found
    ELSE [email |-> r, role |-> r, active |-> TRUE]

\* The row of a principal after update_or_create, whatever it found.
Principal(r, found) == [email |-> r, role |-> r, active |-> TRUE]

Seeded(at) ==
    [u \in UserIds |-> IF \E r \in Roles : at[r] = u
                       THEN Principal(CHOOSE r \in Roles : at[r] = u, users[u])
                       ELSE users[u]]

\* A bug: the demo customer is always made anew.
CustomerPlacesNew == CustomerIds \ Rows(customers)

\* Where it puts the demo customer: the row with its address, else a new one.
CustomerPlaces ==
    LET found == { c \in Rows(customers) : customers[c].email = "customer" }
    IN IF found # {} THEN found ELSE CustomerIds \ Rows(customers)

\* The unique index of customers.user turns down a second profile of u.
Taken(u, c) == \E d \in Rows(customers) \ {c} : customers[d].user = u

\* A bug: handle is not atomic.
SeedFailsHalfway ==
    /\ container = "down"
    /\ \E at \in Places, c \in CustomerPlaces :
         /\ Taken(at["customer"], c)
         /\ users' = Seeded(at)
    /\ container' = "failed"
    /\ UNCHANGED customers

(* IntegrityError: the transaction is rolled back, and set -e ends the      *)
(* entrypoint before the server starts.                                     *)
SeedFails ==
    /\ container = "down"
    /\ \E at \in Places, c \in CustomerPlaces : Taken(at["customer"], c)
    /\ container' = "failed"
    /\ UNCHANGED <<users, customers>>

Seed ==
    /\ container = "down"
    /\ \E at \in Places, c \in CustomerPlaces :
         /\ ~Taken(at["customer"], c)
         /\ users' = Seeded(at)
         /\ customers' = [customers EXCEPT ![c] =
                              [email |-> "customer", user |-> at["customer"]]]
    /\ container' = "up"

Stop == container = "up" /\ container' = "down" /\ UNCHANGED <<users, customers>>

\* A stopped or failed container is started again.
Restart == container = "failed" /\ container' = "down" /\ UNCHANGED <<users, customers>>

\* The admin form of a user: its address must be free.
EditUser(u) ==
    /\ container = "up" /\ "users" \in Edits
    /\ users[u] # Null
    /\ \E row \in User :
         /\ \A v \in Rows(users) \ {u} : users[v].email # row.email
         /\ row.email # users[u].email => Cardinality(UserIds \ Rows(users)) > 0
         /\ users' = [users EXCEPT ![u] = row]
    /\ UNCHANGED <<customers, container>>

\* A bug: the customer of a deleted user keeps its link.
DeleteUserLeavingLink(u) ==
    /\ container = "up" /\ "users" \in Edits
    /\ users[u] # Null
    /\ users' = [users EXCEPT ![u] = Null]
    /\ UNCHANGED <<customers, container>>

\* on_delete=SET_NULL unlinks the customer of a deleted user.
DeleteUser(u) ==
    /\ container = "up" /\ "users" \in Edits
    /\ users[u] # Null
    /\ users' = [users EXCEPT ![u] = Null]
    /\ customers' = [c \in CustomerIds |->
           IF customers[c] # Null /\ customers[c].user = u
           THEN [customers[c] EXCEPT !.user = Null] ELSE customers[c]]
    /\ UNCHANGED container

(* The admin form of a customer, new or not: address and user must be free. *)
EditCustomer(c) ==
    /\ container = "up" /\ "customers" \in Edits
    /\ \E row \in Customer :
         /\ row.user # Null => row.user \in Rows(users)
         /\ \A d \in Rows(customers) \ {c} :
              /\ row.email # Null => customers[d].email # row.email
              /\ row.user # Null => customers[d].user # row.user
         /\ customers' = [customers EXCEPT ![c] = row]
    /\ UNCHANGED <<users, container>>

DeleteCustomer(c) ==
    /\ container = "up" /\ "customers" \in Edits
    /\ customers[c] # Null
    /\ customers' = [customers EXCEPT ![c] = Null]
    /\ UNCHANGED <<users, container>>

Next ==
    \/ Seed \/ SeedFails \/ Stop \/ Restart
    \/ \E u \in UserIds : EditUser(u) \/ DeleteUser(u)
    \/ \E c \in CustomerIds : EditCustomer(c) \/ DeleteCustomer(c)

Spec == Init /\ [][Next]_vars
-----------------------------------------------------------------------------
(* Rows are well formed, no two customers have one address, and none is     *)
(* linked to an account that is gone or that another customer has.          *)
TypeOK ==
    /\ users \in [UserIds -> User \cup {Null}]
    /\ customers \in [CustomerIds -> Customer \cup {Null}]
    /\ container \in {"down", "up", "failed"}
    /\ \A c \in Rows(customers) : customers[c].user # Null =>
         customers[c].user \in Rows(users) /\ ~Taken(customers[c].user, c)
    /\ \A c, d \in Rows(customers) :
         customers[c].email = customers[d].email /\ customers[c].email # Null => c = d

(* seed_demo.py:3, "re-running updates in place": when the container comes  *)
(* up every principal can log in with its role again, and the customer      *)
(* principal has the demo customer, whatever staff changed before.  A       *)
(* seeding that fails (seed_demo.py:28, @transaction.atomic) leaves nothing *)
(* of itself behind.                                                        *)
BootRestoresDemo ==
    [][ /\ container = "down" /\ container' = "up" =>
             \A r \in Roles : \E u \in UserIds :
               /\ users'[u] # Null
               /\ users'[u].email = r /\ users'[u].role = r /\ users'[u].active
               /\ r = "customer" =>
                    \E c \in CustomerIds :
                      customers'[c] # Null /\ customers'[c] = [email |-> "customer", user |-> u]
        /\ container' = "failed" => UNCHANGED <<users, customers>>
      ]_vars

(* docker-entrypoint.sh:3, "safe on every restart", as far as it is true: a *)
(* boot can fail for one reason only, that staff moved the customer of the  *)
(* demo account to another address.  Whatever became of the accounts        *)
(* themselves, a restart repairs.                                           *)
FailedBootExplained ==
    container = "failed" =>
        \E c \in Rows(customers), u \in Rows(users) :
            /\ customers[c].user = u /\ users[u].email = "customer"
            /\ customers[c].email # "customer"
=============================================================================
