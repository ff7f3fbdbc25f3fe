----------------------------- MODULE PolicyAdmin -----------------------------
(***************************************************************************)
(* The staff pages of src/apps/policies/admin.py beside the services.  The *)
(* two admin actions go through the services and are calls of              *)
(* PolicyServices.  The add, change and delete pages do not: they write    *)
(* policy rows directly.  The change page takes no FOR UPDATE lock; it     *)
(* reads the row, and saves every column of it, state included, though the *)
(* page shows state read-only.                                             *)
(***************************************************************************)
EXTENDS PolicyServices

CONSTANTS Staff,     \* people using the admin
          MaxForms   \* bound on the pages submitted

ASSUME AdminAssumption == Null \notin Staff /\ MaxForms \in Nat

VARIABLES form,      \* form[s]: the row the change page of s has read, or Null
          forms,     \* how many pages were submitted
          deleted    \* policies deleted; their ids are never used again

adminVars == <<form, forms, deleted>>
allVars == <<vars, adminVars>>

Form == [policy : Policies, row : Policy]

services == <<clock, rowLock, pc, call, locals, reply>>

AdminInit ==
    /\ Init
    /\ form = [s \in Staff |-> Null]
    /\ forms = 0
    /\ deleted = {}

\* A submitted change page reads the row, without a lock.
LoadChangeForm(s) ==
    /\ form[s] = Null
    /\ forms < MaxForms
    /\ forms' = forms + 1
    /\ \E p \in Policies :
         /\ policies[p].state # Null
         /\ form' = [form EXCEPT ![s] = [policy |-> p, row |-> policies[p]]]
    /\ UNCHANGED <<services, tables, deleted>>

\* A bug: state is missing from readonly_fields, so staff may pick any.
SaveChangeFormAnyState(s) ==
    /\ form[s] # Null
    /\ rowLock[form[s].policy] = Null
    /\ \E st \in {"quoted", "accepted", "active"} :
         policies' = [policies EXCEPT ![form[s].policy] = [form[s].row EXCEPT !.state = st]]
    /\ form' = [form EXCEPT ![s] = Null]
    /\ deleted' = deleted \ {form[s].policy}
    /\ UNCHANGED <<services, transitions, payments, forms>>

(* It then saves the row it read: an UPDATE of all columns, which waits for *)
(* the row lock.  A row deleted meanwhile is inserted again.                *)
SaveChangeForm(s) ==
    /\ form[s] # Null
    /\ rowLock[form[s].policy] = Null
    /\ policies' = [policies EXCEPT ![form[s].policy] = form[s].row]
    /\ form' = [form EXCEPT ![s] = Null]
    /\ deleted' = deleted \ {form[s].policy}
    /\ UNCHANGED <<services, transitions, payments, forms>>

\* A bug: a policy is added as a quote, its state taken from the page.
AddPolicyQuoted(s) ==
    /\ forms < MaxForms
    /\ forms' = forms + 1
    /\ \E p \in Policies \ deleted :
         /\ policies[p].state = Null
         /\ policies' = [policies EXCEPT ![p] = [Absent EXCEPT !.state = "quoted"]]
    /\ UNCHANGED <<services, transitions, payments, form, deleted>>

(* The add page inserts a row with the defaults of the model: state new,    *)
(* nothing priced, no transition row.                                       *)
AddPolicy(s) ==
    /\ forms < MaxForms
    /\ forms' = forms + 1
    /\ \E p \in Policies \ deleted :
         /\ policies[p].state = Null
         /\ policies' = [policies EXCEPT ![p] = [Absent EXCEPT !.state = "new"]]
    /\ UNCHANGED <<services, transitions, payments, form, deleted>>

\* A bug: transitions may be deleted along with their policy.
DeletePolicyCascading(s) ==
    /\ forms < MaxForms
    /\ forms' = forms + 1
    /\ \E p \in Policies :
         /\ policies[p].state # Null
         /\ rowLock[p] = Null
         /\ payments[p] = << >>
         /\ policies' = [policies EXCEPT ![p] = Absent]
         /\ transitions' = [transitions EXCEPT ![p] = << >>]
         /\ deleted' = deleted \cup {p}
    /\ UNCHANGED <<services, payments, form>>

(* The delete page cascades to transition rows, which nobody may delete,    *)
(* and is protected by payments: it works for policies that have neither.   *)
DeletePolicy(s) ==
    /\ forms < MaxForms
    /\ forms' = forms + 1
    /\ \E p \in Policies :
         /\ policies[p].state # Null
         /\ rowLock[p] = Null
         /\ transitions[p] = << >> /\ payments[p] = << >>
         /\ policies' = [policies EXCEPT ![p] = Absent]
         /\ deleted' = deleted \cup {p}
    /\ UNCHANGED <<services, transitions, payments, form>>

(* The row a call has looked up is deleted before the call locks it:        *)
(* DoesNotExist.  No service deletes a policy, so PolicyServices has no     *)
(* such step.                                                               *)
LockMissingRow(w) ==
    /\ pc[w] = "lock"
    /\ policies[call[w].policy].state = Null
    /\ Refuse(w, "server_error", Null)
    /\ UNCHANGED adminVars

\* A step of the services; a quote never takes the id of a deleted policy.
ServicesStep ==
    /\ Next
    /\ \A p \in deleted : policies'[p] = policies[p]
    /\ UNCHANGED adminVars

AdminNext ==
    \/ ServicesStep
    \/ \E w \in Workers : LockMissingRow(w)
    \/ \E s \in Staff :
         \/ LoadChangeForm(s) \/ SaveChangeForm(s)
         \/ AddPolicy(s) \/ DeletePolicy(s)

AdminSpec == AdminInit /\ [][AdminNext]_allVars
-----------------------------------------------------------------------------
AdminTypeOK ==
    /\ TypeOK
    /\ form \in [Staff -> Form \cup {Null}]
    /\ forms \in 0..MaxForms
    /\ deleted \subseteq Policies

(* Whatever the pages write back, a state shown is one the history has been *)
(* through: a page can turn a policy back in time, never invent a state.    *)
StateWasReal ==
    \A p \in Policies : transitions[p] # << >> =>
        \E i \in 1..Len(transitions[p]) : transitions[p][i].to = policies[p].state

(* A policy made by the add page has no history, and no service ever moves, *)
(* charges or binds it.                                                     *)
AddedPoliciesInert ==
    \A p \in Policies :
        policies[p].state # Null /\ transitions[p] = << >> =>
            policies[p].state = "new" /\ payments[p] = << >>

\* History only grows: no page or service removes or rewrites a row of it.
HistoryAppendOnly ==
    [][ \A p \in Policies :
          /\ Len(transitions[p]) <= Len(transitions'[p])
          /\ \A i \in 1..Len(transitions[p]) : transitions'[p][i] = transitions[p][i] ]_allVars

(* Even after a page has turned a policy back, every payment taken is named *)
(* by the activation it was taken for.                                      *)
PaymentsNamed ==
    \A p \in Policies : \A i \in 1..Len(payments[p]) :
        \E j \in 1..Len(transitions[p]) :
            transitions[p][j].to = "active" /\ transitions[p][j].payment = i

-----------------------------------------------------------------------------
(* What the proofs need: the pages keep off a row that is locked, and what  *)
(* a page has read stays true of the policy's history.                      *)

\* A policy without history is one the add page made, or none.
HistoryFits(p) ==
    IF transitions[p] = << >>
    THEN policies[p].state \in {Null, "new"} /\ payments[p] = << >>
    ELSE HasRow(transitions[p], policies[p].state)

(* A page would write back a state its policy has been in, and its policy   *)
(* is there or has been deleted: no quote will take its id.                 *)
FormFits(s) ==
    form[s] # Null =>
        LET p == form[s].policy
            st == form[s].row.state
        IN /\ IF transitions[p] = << >> THEN st = "new" ELSE HasRow(transitions[p], st)
           /\ policies[p].state # Null \/ p \in deleted

\* The row a worker has locked exists, and is as the worker holds it.
RowHeld(w) ==
    /\ CallShape(w) /\ LockProtects(w) /\ WriteLegal(w)
    /\ pc[w] \in {"work", "insert", "activate", "save"} => policies[call[w].policy].state # Null

AdminInv ==
    /\ AdminTypeOK /\ PaymentsNamed
    /\ \A p \in Policies : HistoryFits(p)
    /\ \A s \in Staff : FormFits(s)
    /\ \A w \in Workers : RowHeld(w)
=============================================================================
