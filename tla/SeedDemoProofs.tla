--------------------------- MODULE SeedDemoProofs ---------------------------
(***************************************************************************)
(* The container can be started again and again: what a start restores and *)
(* why one can fail, for any number of accounts, customers and addresses.  *)
(***************************************************************************)
EXTENDS SeedDemo, TLAPS

\* The accounts table after update_or_create has placed the principals.
LEMMA SeededRows ==
    ASSUME TypeOK, NEW at \in Places
    PROVE  /\ at \in [Roles -> UserIds]
           /\ Seeded(at) \in [UserIds -> User \cup {Null}]
           /\ \A r \in Roles : Seeded(at)[at[r]] = [email |-> r, role |-> r, active |-> TRUE]
           /\ \A u \in UserIds : (\A r \in Roles : at[r] # u) => Seeded(at)[u] = users[u]
<1>1. at \in [Roles -> UserIds] /\ \A r, s \in Roles : at[r] = at[s] => r = s
  BY DEF Places
<1>2. \A r \in Roles : Principal(r, users[at[r]]) \in User
  BY DEF Principal, User, Emails
<1>3. ASSUME NEW r \in Roles
      PROVE  Seeded(at)[at[r]] = [email |-> r, role |-> r, active |-> TRUE]
  <2>1. (CHOOSE s \in Roles : at[s] = at[r]) = r
    BY <1>1, <1>3
  <2> QED
    BY <1>1, <2>1 DEF Seeded, Principal
<1>4. ASSUME NEW u \in UserIds, \A r \in Roles : at[r] # u PROVE Seeded(at)[u] = users[u]
  BY <1>4 DEF Seeded
<1>5. Seeded(at) \in [UserIds -> User \cup {Null}]
  <2>1. \A u \in UserIds : Seeded(at)[u] \in User \cup {Null}
    <3> TAKE u \in UserIds
    <3>1. ASSUME NEW r \in Roles, at[r] = u PROVE Seeded(at)[u] \in User
      BY <1>2, <1>3, <3>1 DEF Principal
    <3>2. CASE \A r \in Roles : at[r] # u
      BY <3>2, <1>4 DEF TypeOK
    <3> QED
      BY <3>1, <3>2
  <2> QED
    BY <2>1 DEF Seeded
<1> QED
  BY <1>1, <1>3, <1>4, <1>5

\* Seeding removes no account.
LEMMA SeedingKeepsRows ==
    ASSUME TypeOK, NEW at \in Places
    PROVE  /\ Rows(users) \subseteq Rows(Seeded(at))
           /\ at["customer"] \in Rows(Seeded(at))
<1>1. ASSUME NEW r \in Roles PROVE at[r] \in UserIds /\ Seeded(at)[at[r]] # Null
  <2>1. Seeded(at)[at[r]] = [email |-> r, role |-> r, active |-> TRUE] /\ at[r] \in UserIds
    BY SeededRows
  <2>2. Seeded(at)[at[r]] \in User
    BY <2>1 DEF User, Emails
  <2> QED
    BY <2>1, <2>2, NullIsNoRow
<1>2. ASSUME NEW u \in UserIds, users[u] # Null PROVE Seeded(at)[u] # Null
  <2>1. CASE \A r \in Roles : at[r] # u
    BY <1>2, <2>1, SeededRows
  <2> QED
    BY <1>1, <2>1
<1>3. DOMAIN users = UserIds /\ DOMAIN Seeded(at) = UserIds
  BY DEF TypeOK, Seeded
<1> QED
  BY <1>1, <1>2, <1>3 DEF Rows, Roles

(* A customer table in which row c alone has changed, to one that shares    *)
(* neither address nor account with another, is as well linked as before.   *)
LEMMA OneRowWritten ==
    ASSUME TypeOK, users' \in [UserIds -> User \cup {Null}],
           \A u \in Rows(users) : u \in Rows(users'),
           NEW c \in CustomerIds, NEW new \in Customer,
           new.user # Null => new.user \in Rows(users'),
           \A d \in Rows(customers) \ {c} :
             /\ new.email # Null => customers[d].email # new.email
             /\ new.user # Null => customers[d].user # new.user,
           customers' = [customers EXCEPT ![c] = new],
           container' \in {"down", "up", "failed"}
    PROVE  TypeOK'
<1>1. /\ customers' \in [CustomerIds -> Customer \cup {Null}]
      /\ customers'[c] = new /\ new # Null
      /\ \A d \in CustomerIds \ {c} : customers'[d] = customers[d]
  BY NullIsNoRow DEF TypeOK
<1>2. /\ DOMAIN customers = CustomerIds /\ DOMAIN customers' = CustomerIds
      /\ Rows(customers') = Rows(customers) \cup {c}
  BY <1>1 DEF TypeOK, Rows
<1>3. ASSUME NEW d \in Rows(customers'), customers'[d].user # Null
      PROVE  /\ customers'[d].user \in Rows(users')
             /\ \A e \in Rows(customers') \ {d} : customers'[e].user # customers'[d].user
  <2>1. CASE d = c
    BY <1>1, <1>2, <1>3, <2>1 DEF Rows
  <2>2. CASE d # c
    BY <1>1, <1>2, <1>3, <2>2 DEF Rows, TypeOK, Taken
  <2> QED
    BY <2>1, <2>2
<1>4. ASSUME NEW d \in Rows(customers'), NEW e \in Rows(customers'),
             customers'[d].email = customers'[e].email, customers'[d].email # Null
      PROVE  d = e
  <2>1. d \in CustomerIds /\ e \in CustomerIds
    BY <1>2 DEF Rows
  <2>2. CASE d = c \/ e = c
    BY <1>1, <1>2, <1>4, <2>1, <2>2
  <2>3. CASE d # c /\ e # c
    BY <1>1, <1>2, <1>4, <2>1, <2>3 DEF TypeOK
  <2> QED
    BY <2>2, <2>3
<1> QED
  BY <1>1, <1>3, <1>4 DEF TypeOK, Taken

LEMMA SeedType ==
    ASSUME TypeOK, Seed
    PROVE  TypeOK'
<1>1. PICK at \in Places, c \in CustomerPlaces :
        /\ ~Taken(at["customer"], c)
        /\ users' = Seeded(at)
        /\ customers' = [customers EXCEPT ![c] =
                            [email |-> "customer", user |-> at["customer"]]]
        /\ container' = "up"
  BY DEF Seed
<1> DEFINE new == [email |-> "customer", user |-> at["customer"]]
<1>2. /\ c \in CustomerIds
      /\ \A d \in Rows(customers) \ {c} : customers[d].email # "customer"
  <2>1. DOMAIN customers = CustomerIds
    BY DEF TypeOK
  <2>2. \A d \in Rows(customers) : customers[d].email = "customer" =>
          c \in Rows(customers) /\ customers[c].email = "customer"
    BY DEF CustomerPlaces
  <2>3. "customer" # Null
    BY SeedAssumption DEF Roles
  <2> QED
    BY <2>1, <2>2, <2>3 DEF CustomerPlaces, Rows, TypeOK
<1>3. new \in Customer
  BY SeededRows DEF Customer, Emails, Roles
<1>4. \A d \in Rows(customers) \ {c} : customers[d].user # new.user
  BY <1>1 DEF Taken
<1> QED
  BY <1>1, <1>2, <1>3, <1>4, SeededRows, SeedingKeepsRows, OneRowWritten

LEMMA EditUserType ==
    ASSUME TypeOK, NEW u \in UserIds, EditUser(u)
    PROVE  TypeOK'
<1>1. PICK new \in User : users' = [users EXCEPT ![u] = new]
  BY DEF EditUser
<1>2. /\ users' \in [UserIds -> User \cup {Null}]
      /\ Rows(users') = Rows(users)
  BY <1>1, NullIsNoRow DEF EditUser, TypeOK, Rows
<1> QED
  BY <1>2 DEF EditUser, TypeOK, Taken

LEMMA DeleteUserType ==
    ASSUME TypeOK, NEW u \in UserIds, DeleteUser(u)
    PROVE  TypeOK'
<1>1. /\ users' = [users EXCEPT ![u] = Null]
      /\ customers' = [c \in CustomerIds |->
           IF customers[c] # Null /\ customers[c].user = u
           THEN [customers[c] EXCEPT !.user = Null] ELSE customers[c]]
      /\ container' = container
  BY DEF DeleteUser
<1>2. /\ users' \in [UserIds -> User \cup {Null}]
      /\ \A v \in Rows(users) : v # u => v \in Rows(users')
  BY <1>1 DEF TypeOK, Rows
<1>3. ASSUME NEW c \in CustomerIds
      PROVE  /\ customers'[c] \in Customer \cup {Null}
             /\ customers'[c] # Null <=> customers[c] # Null
             /\ customers[c] # Null =>
                  /\ customers'[c].email = customers[c].email
                  /\ customers'[c].user = IF customers[c].user = u THEN Null
                                          ELSE customers[c].user
  <2>1. CASE customers[c] = Null
    BY <1>1, <2>1
  <2>2. CASE customers[c] # Null
    <3>1. customers[c] \in Customer
      BY <2>2 DEF TypeOK
    <3>2. [customers[c] EXCEPT !.user = Null] \in Customer
      BY <3>1 DEF Customer
    <3> QED
      BY <1>1, <2>2, <3>1, <3>2, NullIsNoRow DEF Customer
  <2> QED
    BY <2>1, <2>2
<1>4. Rows(customers') = Rows(customers) /\ Rows(customers) \subseteq CustomerIds
  BY <1>1, <1>3 DEF Rows, TypeOK
<1>5. customers' \in [CustomerIds -> Customer \cup {Null}]
  BY <1>1, <1>3
<1>6. ASSUME NEW c \in Rows(customers'), customers'[c].user # Null
      PROVE  /\ customers'[c].user \in Rows(users')
             /\ \A d \in Rows(customers') \ {c} : customers'[d].user # customers'[c].user
  <2>1. /\ c \in CustomerIds /\ customers[c].user # u
        /\ customers'[c].user = customers[c].user
    BY <1>3, <1>4, <1>6 DEF Rows
  <2>2. customers[c].user \in Rows(users) /\ ~Taken(customers[c].user, c)
    BY <1>4, <1>6, <2>1 DEF TypeOK
  <2>3. ASSUME NEW d \in Rows(customers') \ {c} PROVE customers'[d].user # customers'[c].user
    <3>1. customers[d].user # customers[c].user /\ d \in CustomerIds /\ customers[d] # Null
      BY <1>4, <2>2, <2>3 DEF Taken, Rows
    <3> QED
      BY <1>3, <1>6, <2>1, <3>1
  <2> QED
    BY <1>2, <2>1, <2>2, <2>3
<1>7. \A c, d \in Rows(customers') :
        customers'[c].email = customers'[d].email /\ customers'[c].email # Null => c = d
  <2> TAKE c, d \in Rows(customers')
  <2>1. /\ c \in Rows(customers) /\ d \in Rows(customers)
        /\ c \in CustomerIds /\ d \in CustomerIds
        /\ customers[c] # Null /\ customers[d] # Null
    BY <1>4 DEF Rows
  <2> QED
    BY <1>3, <2>1 DEF TypeOK
<1> QED
  BY <1>1, <1>2, <1>5, <1>6, <1>7, ZenonT(40) DEF TypeOK, Taken

LEMMA EditCustomerType ==
    ASSUME TypeOK, NEW c \in CustomerIds, EditCustomer(c)
    PROVE  TypeOK'
BY OneRowWritten DEF EditCustomer, TypeOK

LEMMA DeleteCustomerType ==
    ASSUME TypeOK, NEW c \in CustomerIds, DeleteCustomer(c)
    PROVE  TypeOK'
<1>1. /\ customers' = [customers EXCEPT ![c] = Null]
      /\ users' = users /\ container' = container
  BY DEF DeleteCustomer
<1>2. /\ customers' \in [CustomerIds -> Customer \cup {Null}]
      /\ Rows(customers') = Rows(customers) \ {c}
      /\ \A d \in Rows(customers') : customers'[d] = customers[d]
  BY <1>1 DEF TypeOK, Rows
<1>3. ASSUME NEW d \in Rows(customers'), customers'[d].user # Null
      PROVE  /\ customers'[d].user \in Rows(users')
             /\ \A e \in Rows(customers') \ {d} : customers'[e].user # customers'[d].user
  <2>1. d \in Rows(customers) /\ customers[d].user # Null /\ customers'[d].user = customers[d].user
    BY <1>2, <1>3
  <2>2. /\ customers[d].user \in Rows(users)
        /\ \A e \in Rows(customers) \ {d} : customers[e].user # customers[d].user
    BY <2>1 DEF TypeOK, Taken
  <2> QED
    BY <1>1, <1>2, <2>1, <2>2
<1>4. ASSUME NEW d \in Rows(customers'), NEW e \in Rows(customers'),
             customers'[d].email = customers'[e].email, customers'[d].email # Null
      PROVE  d = e
  BY <1>2, <1>4 DEF TypeOK
<1> QED
  BY <1>1, <1>2, <1>3, <1>4 DEF TypeOK, Taken

LEMMA NextType == TypeOK /\ [Next]_vars => TypeOK'
<1> SUFFICES ASSUME TypeOK, [Next]_vars PROVE TypeOK'
  OBVIOUS
<1>1. CASE SeedFails \/ Stop \/ Restart \/ UNCHANGED vars
  BY <1>1 DEF SeedFails, Stop, Restart, vars, TypeOK, Taken
<1> QED
  BY <1>1, SeedType, EditUserType, DeleteUserType, EditCustomerType, DeleteCustomerType
     DEF Next

-----------------------------------------------------------------------------
(* A failed start has met an account with the demo address whose customer   *)
(* has another: no other row can be in the way.                             *)
LEMMA FailureExplained ==
    ASSUME TypeOK, SeedFails
    PROVE  FailedBootExplained'
<1>1. PICK at \in Places, c \in CustomerPlaces : Taken(at["customer"], c)
  BY DEF SeedFails
<1>2. PICK d \in Rows(customers) \ {c} : customers[d].user = at["customer"]
  BY <1>1 DEF Taken
<1>3. at["customer"] \in UserIds /\ at["customer"] # Null
  BY SeededRows, SeedAssumption DEF Roles
<1>4. at["customer"] \in Rows(users)
  BY <1>2, <1>3 DEF TypeOK
<1>5. users[at["customer"]].email = "customer"
  BY <1>4 DEF Places, Roles
<1>6. customers[d].email # "customer"
  <2>1. CASE \E e \in Rows(customers) : customers[e].email = "customer"
    <3>1. c \in Rows(customers) /\ customers[c].email = "customer"
      BY <2>1 DEF CustomerPlaces
    <3>2. "customer" # Null
      BY SeedAssumption DEF Roles
    <3> QED
      BY <1>2, <3>1, <3>2 DEF TypeOK
  <2> QED
    BY <1>2, <2>1
<1> QED
  BY <1>2, <1>4, <1>5, <1>6 DEF SeedFails, FailedBootExplained

LEMMA NextExplained == TypeOK /\ FailedBootExplained /\ [Next]_vars => FailedBootExplained'
<1> SUFFICES ASSUME TypeOK, FailedBootExplained, [Next]_vars PROVE FailedBootExplained'
  OBVIOUS
<1>1. CASE UNCHANGED vars
  BY <1>1 DEF vars, FailedBootExplained
<1>2. ASSUME container' # "failed" PROVE FailedBootExplained'
  BY <1>2 DEF FailedBootExplained
<1> QED
  BY <1>1, <1>2, FailureExplained
     DEF Next, Seed, Stop, Restart, EditUser, DeleteUser, EditCustomer, DeleteCustomer

(* Rows stay well formed, and no two customers share an address or the      *)
(* account they are linked to, however often the container is restarted.    *)
THEOREM RowsWellFormed == Spec => []TypeOK
<1>1. Init => TypeOK
  BY DEF Init, TypeOK, Rows
<1> QED
  BY <1>1, NextType, PTL DEF Spec

(* The one reason a start of the container can fail, for any number of      *)
(* accounts and customers and whatever staff have made of them.             *)
THEOREM FailuresExplained == Spec => []FailedBootExplained
<1>1. Init => FailedBootExplained
  BY DEF Init, FailedBootExplained
<1> QED
  BY <1>1, NextExplained, RowsWellFormed, PTL DEF Spec

(* A start that succeeds has every principal and its customer in place, and *)
(* one that fails leaves no half of itself behind.                          *)
THEOREM StartsRestoreDemo == Spec => BootRestoresDemo
<1> DEFINE Restores ==
      /\ container = "down" /\ container' = "up" =>
           \A r \in Roles : \E u \in UserIds :
             /\ users'[u] # Null
             /\ users'[u].email = r /\ users'[u].role = r /\ users'[u].active
             /\ r = "customer" =>
                  \E c \in CustomerIds :
                    customers'[c] # Null /\ customers'[c] = [email |-> "customer", user |-> u]
      /\ container' = "failed" => UNCHANGED <<users, customers>>
<1>1. TypeOK /\ [Next]_vars => [Restores]_vars
  <2> SUFFICES ASSUME TypeOK, Next PROVE Restores
    OBVIOUS
  <2>1. CASE Seed
    <3>1. PICK at \in Places, c \in CustomerPlaces :
            /\ users' = Seeded(at)
            /\ customers' = [customers EXCEPT ![c] =
                                [email |-> "customer", user |-> at["customer"]]]
            /\ container' = "up"
      BY <2>1 DEF Seed
    <3> DEFINE new == [email |-> "customer", user |-> at["customer"]]
    <3>2. c \in CustomerIds /\ new \in Customer
      BY SeededRows DEF CustomerPlaces, Rows, TypeOK, Customer, Emails, Roles
    <3>3. customers'[c] = new /\ customers'[c] # Null
      BY <3>1, <3>2, NullIsNoRow DEF TypeOK
    <3>4. ASSUME NEW r \in Roles
          PROVE  /\ at[r] \in UserIds /\ users'[at[r]] # Null
                 /\ users'[at[r]] = [email |-> r, role |-> r, active |-> TRUE]
      <4>1. [email |-> r, role |-> r, active |-> TRUE] \in User
        BY DEF User, Emails
      <4> QED
        BY <3>1, <4>1, SeededRows, NullIsNoRow
    <3>5. ASSUME NEW r \in Roles
          PROVE  \E u \in UserIds :
                   /\ users'[u] # Null
                   /\ users'[u].email = r /\ users'[u].role = r /\ users'[u].active
                   /\ r = "customer" =>
                        \E k \in CustomerIds :
                          customers'[k] # Null /\ customers'[k] = [email |-> "customer", user |-> u]
      <4> DEFINE put == users'[at[r]]
      <4>1. at[r] \in UserIds /\ put # Null /\ put = [email |-> r, role |-> r, active |-> TRUE]
        BY <3>4, <3>5
      <4> HIDE DEF put
      <4>2. put.email = r /\ put.role = r
        BY <4>1
      <4>3. put.active
        BY <4>1, Zenon
      <4>4. r = "customer" => customers'[c] = [email |-> "customer", user |-> at[r]]
        BY <3>3
      <4> QED
        BY <3>2, <3>3, <4>1, <4>2, <4>3, <4>4 DEF put
    <3> QED
      BY <3>1, <3>5
  <2>2. CASE ~Seed
    BY <2>2 DEF Next, SeedFails, Stop, Restart, EditUser, DeleteUser, EditCustomer,
                DeleteCustomer
  <2> QED
    BY <2>1, <2>2
<1> QED
  BY <1>1, RowsWellFormed, PTL DEF Spec, BootRestoresDemo
=============================================================================
