---------------------------- MODULE PolicyListing ----------------------------
(***************************************************************************)
(* A client walks the pages of GET /policies/ (PolicyListView in           *)
(* src/apps/policies/views.py, DefaultPagination in                        *)
(* src/apps/common/pagination.py) while others make, move and delete       *)
(* policies and change whose they are, or what the client may see.         *)
(* Every page is two statements, a COUNT and a slice of the ordered rows,  *)
(* each of which sees what has committed by then.  Paginator and           *)
(* OrderingFilter are the framework's.  The policies section of a search   *)
(* (src/apps/search/views.py) reads its count and its results the same way.*)
(***************************************************************************)
EXTENDS Integers, FiniteSets, Sequences, SequencesExt

CONSTANTS Null,
          MaxId,      \* bound on the ids of policies
          PageSize,   \* page_size
          Limit,      \* _LIMIT, the cap on the results of a search
          MaxClock,   \* bound on the clock
          Walks       \* the queries clients walk through

Ids == 1..MaxId

States == {"accepted", "active", "new", "quoted"}

\* ordering=state sorts by the name of the state.
Rank(st) ==
    CASE st = "accepted" -> 1 [] st = "active" -> 2 [] st = "new" -> 3 [] st = "quoted" -> 4

Orders == {"default", "state"}

ASSUME ListingAssumption ==
    /\ MaxId \in Nat /\ MaxClock \in Nat /\ PageSize \in Nat \ {0} /\ Limit \in Nat
    /\ Null \notin Nat /\ Null \notin States \cup {"deleted"}
    /\ Walks \subseteq [state : States \cup {Null}, order : Orders]

VARIABLES clock,    \* timezone.now()
          created,  \* created[p]: its created_at, Null before it is inserted
          state,    \* state[p]: Null until the insert has committed; "deleted"
          scope,    \* the policies the client may see
          walk,     \* the query walked through
          stage,    \* "idle", "count", "fetch" or "done"
          page,     \* the page asked for
          count,    \* the count the current page goes by
          seen,     \* what the pages showed, in order
          there,    \* what matched the query when the walk began
          quiet,    \* nothing was written since
          torn,     \* a policy came to match between a count and its slice
          pulled,   \* policies that left the query since, or after one that did
          section   \* the policies section of a search: its count and results

rowVars == <<created, state, scope>>
pageVars == <<walk, stage, page, count, seen, there>>
walkVars == <<pageVars, quiet, torn, pulled>>
vars == <<clock, rowVars, walkVars, section>>

NoSection == [stage |-> "idle", count |-> 0, counted |-> {}, gone |-> {}, results |-> << >>]

Init ==
    /\ clock = 0
    /\ created = [p \in Ids |-> Null]
    /\ state = [p \in Ids |-> Null]
    /\ scope = {}
    /\ walk = Null
    /\ stage = "idle" /\ page = 0 /\ count = 0
    /\ seen = << >> /\ there = {} /\ quiet = TRUE /\ torn = FALSE /\ pulled = {}
    /\ section = NoSection

Tick == clock < MaxClock /\ clock' = clock + 1 /\ UNCHANGED <<rowVars, walkVars, section>>

\* get_queryset, scoped to the client, and PolicyFilterSet.
Matching(query) ==
    { p \in scope : state[p] \in States /\ (query.state = Null \/ state[p] = query.state) }

\* A bug: the default order is -created_at alone.
PrecedesByDate(query, p, q) ==
    IF query.order = "state" THEN Rank(state[p]) < Rank(state[q]) ELSE created[p] > created[q]

\* ordering: -created_at, -id, or only what the client asks for.
Precedes(query, p, q) ==
    IF query.order = "state" THEN Rank(state[p]) < Rank(state[q])
    ELSE created[p] > created[q] \/ (created[p] = created[q] /\ p > q)

\* The ways the database may list the rows: rows that tie come in any order.
Listings(query) ==
    { rows \in SetToSeqs(Matching(query)) :
        \A i, j \in DOMAIN rows : i < j => ~Precedes(query, rows[j], rows[i]) }

(* Every write that commits: what it puts into the query under a page, and   *)
(* the policies it draws towards earlier pages by taking one from before     *)
(* them out of it.                                                           *)
Written ==
    /\ UNCHANGED <<clock, pageVars, section>>
    /\ quiet' = FALSE
    /\ torn' = (torn \/ (stage = "fetch" /\ ~(Matching(walk)' \subseteq Matching(walk))))
    /\ pulled' = IF stage \in {"count", "fetch"}
                 THEN pulled \cup
                        { p \in there \cap Matching(walk) :
                            \E q \in Matching(walk) \ Matching(walk)' :
                                q = p \/ Precedes(walk, q, p) }
                 ELSE pulled

\* The row of a policy is dated and inserted; its transaction is still open.
Insert(p) ==
    /\ created[p] = Null
    /\ created' = [created EXCEPT ![p] = clock]
    /\ UNCHANGED <<clock, state, scope, walkVars, section>>

\* A quote commits, or the policy that staff add; it is the client's to see or not.
Appear(p) ==
    /\ created[p] # Null /\ state[p] = Null
    /\ \E st \in {"quoted", "new"} : state' = [state EXCEPT ![p] = st]
    /\ scope' \in {scope, scope \cup {p}}
    /\ UNCHANGED created
    /\ Written

Move(p) ==
    /\ \/ state[p] = "quoted" /\ state' = [state EXCEPT ![p] = "accepted"]
       \/ state[p] = "accepted" /\ state' = [state EXCEPT ![p] = "active"]
    /\ UNCHANGED <<created, scope>>
    /\ Written

\* The admin deletes only what has no history: a policy that staff added.
Delete(p) ==
    /\ state[p] = "new"
    /\ state' = [state EXCEPT ![p] = "deleted"]
    /\ UNCHANGED <<created, scope>>
    /\ Written

(* A policy gets another owner, a customer another account, or the client   *)
(* another role.                                                            *)
Rescope ==
    /\ scope' \in SUBSET { p \in Ids : state[p] # Null } \ {scope}
    /\ UNCHANGED <<created, state>>
    /\ Written

Pages(n) == (n + PageSize - 1) \div PageSize

\* A bug: pages are taken to be numbered from zero.
SliceShifted(rows, n, total) ==
    LET top == IF (n + 1) * PageSize >= total THEN total ELSE (n + 1) * PageSize
    IN SubSeq(rows, n * PageSize + 1, IF top <= Len(rows) THEN top ELSE Len(rows))

\* Page n of the rows, which ends where the count says the rows end.
Slice(rows, n, total) ==
    LET top == IF n * PageSize >= total THEN total ELSE n * PageSize
    IN SubSeq(rows, (n - 1) * PageSize + 1, IF top <= Len(rows) THEN top ELSE Len(rows))

Begin ==
    /\ stage = "idle" /\ section.stage = "idle"
    /\ walk' \in Walks
    /\ stage' = "count" /\ page' = 1 /\ count' = 0
    /\ seen' = << >> /\ quiet' = TRUE /\ torn' = FALSE /\ pulled' = {}
    /\ there' = Matching(walk')
    /\ UNCHANGED <<clock, rowVars, section>>

(* SELECT COUNT: a page beyond the last is not found; the first page is     *)
(* there even when nothing is.                                              *)
Count ==
    /\ stage = "count"
    /\ count' = Cardinality(Matching(walk))
    /\ stage' = IF page > 1 /\ page > Pages(count') THEN "done" ELSE "fetch"
    /\ UNCHANGED <<clock, rowVars, walk, page, seen, there, quiet, torn, pulled, section>>

(* The slice; the client goes on while the page links to a next one.        *)
Fetch ==
    /\ stage = "fetch"
    /\ \E rows \in Listings(walk) : seen' = seen \o Slice(rows, page, count)
    /\ IF page < Pages(count) THEN stage' = "count" /\ page' = page + 1
                              ELSE stage' = "done" /\ page' = page
    /\ UNCHANGED <<clock, rowVars, walk, count, there, quiet, torn, pulled, section>>
-----------------------------------------------------------------------------
\* _policies with a q that every policy matches; Policy.Meta.ordering.
Everything == [state |-> Null, order |-> "default"]

\* A bug: the first rows are those of the oldest policies.
CappedOldest(rows) ==
    LET back == Reverse(rows)
    IN SubSeq(back, 1, IF Len(back) < Limit THEN Len(back) ELSE Limit)

\* queryset[:_LIMIT]
Capped(rows) == SubSeq(rows, 1, IF Len(rows) < Limit THEN Len(rows) ELSE Limit)

\* SearchView._section: queryset.count() ...
CountSection ==
    /\ stage = "idle" /\ section.stage = "idle"
    /\ LET found == Matching(Everything)
       IN section' = [section EXCEPT !.stage = "fetch", !.count = Cardinality(found),
                                     !.counted = found]
    /\ UNCHANGED <<clock, rowVars, walkVars>>

\* ... and the capped rows, in a statement of their own; some it counted may be gone.
FetchSection ==
    /\ section.stage = "fetch"
    /\ \E rows \in Listings(Everything) :
         section' = [section EXCEPT !.stage = "done", !.results = Capped(rows),
                                    !.gone = section.counted \ Matching(Everything)]
    /\ UNCHANGED <<clock, rowVars, walkVars>>

Next ==
    \/ Tick
    \/ \E p \in Ids : Insert(p) \/ Appear(p) \/ Move(p) \/ Delete(p)
    \/ Rescope
    \/ Begin \/ Count \/ Fetch
    \/ CountSection \/ FetchSection

Spec == Init /\ [][Next]_vars
-----------------------------------------------------------------------------
(* REQ-P3-4 (docs/REQUIREMENTS.md:142), "consistently ordered": over rows   *)
(* nobody writes to, the pages show as many policies as match, in the order *)
(* asked for; and in the default order, which has no ties, each of them.    *)
(* ordering=state has ties, and shows some twice in the place of others.    *)
ConsistentlyOrdered ==
    stage = "done" /\ quiet =>
        /\ Len(seen) = Cardinality(there)
        /\ \A i, j \in DOMAIN seen : i < j => ~Precedes(walk, seen[j], seen[i])
        /\ walk.order = "default" => { seen[i] : i \in DOMAIN seen } = there

(* A walk in the default order, filtered or not, misses a policy it began   *)
(* with only for one of two reasons.  The policy left the query, or one      *)
(* listed before it did: moved to a state that is filtered out, deleted, or  *)
(* no longer the client's to see; the pages then close up over it.  Or a     *)
(* policy came to match between the COUNT and the slice of a page.  New      *)
(* policies alone push rows to later pages, and show some twice.             *)
NothingSkipped ==
    stage = "done" /\ ~torn /\ walk.order = "default" =>
        there \ pulled \subseteq { seen[i] : i \in DOMAIN seen }

(* search/views.py:4-5, each section with "its own count and (capped)        *)
(* results": whatever others write between the two statements, the results   *)
(* are as many as the count says, less what of it has gone, or as the cap    *)
(* allows; and a policy that was counted and has not gone is missing from    *)
(* them only if as many newer ones as the cap allows are shown.              *)
SectionCoversCount ==
    section.stage = "done" =>
        LET shown == { section.results[i] : i \in DOMAIN section.results }
        IN /\ Len(section.results) <= Limit
           /\ \/ Len(section.results) >= section.count - Cardinality(section.gone)
              \/ Len(section.results) = Limit
           /\ \A p \in section.counted \ (shown \cup section.gone) :
                Len(section.results) = Limit /\ \A q \in shown : Precedes(Everything, q, p)
-----------------------------------------------------------------------------
(* What the proofs need: where a row may stand in a listing, and what the    *)
(* pages shown so far have got to.                                           *)

\* The rows that come before p, and those that do not come after it.
Ahead(query, p) == { q \in Matching(query) : Precedes(query, q, p) }
UpTo(query, p) == { q \in Matching(query) : ~Precedes(query, p, q) }

\* Row p may be the i-th of a listing, however the database breaks ties.
MayStand(query, p, i) ==
    p \in Matching(query) /\ Cardinality(Ahead(query, p)) < i /\ i <= Cardinality(UpTo(query, p))

ListingTypeOK ==
    /\ clock \in Nat
    /\ created \in [Ids -> Nat \cup {Null}]
    /\ state \in [Ids -> States \cup {Null, "deleted"}]
    /\ \A p \in Ids : state[p] # Null => created[p] # Null
    /\ scope \subseteq Ids
    /\ stage \in {"idle", "count", "fetch", "done"}
    /\ page \in Nat /\ count \in Nat /\ seen \in Seq(Ids)
    /\ there \subseteq Ids /\ quiet \in BOOLEAN /\ torn \in BOOLEAN /\ pulled \subseteq there
    /\ stage # "idle" => walk \in Walks /\ page >= 1
    /\ section \in [stage : {"idle", "fetch", "done"}, count : Nat,
                     counted : SUBSET Ids, gone : SUBSET Ids, results : Seq(Ids)]

\* Over rows nobody writes to, each page goes on where the last one ended.
QuietWalk ==
    quiet /\ stage # "idle" =>
        /\ there = Matching(walk)
        /\ \A i \in 1..Len(seen) : MayStand(walk, seen[i], i)
        /\ stage \in {"count", "fetch"} => Len(seen) = (page - 1) * PageSize
                                           /\ (page = 1 \/ Len(seen) < Cardinality(there))
        /\ stage = "fetch" => count = Cardinality(there)
        /\ stage = "done" => Len(seen) = Cardinality(there)

\* A row not shown yet stands behind the pages shown, and moves back unless pulled.
GrowingWalk ==
    ~torn /\ stage \in {"count", "fetch"} =>
        /\ stage = "fetch" => Cardinality(Matching(walk)) <= count
        /\ walk.order = "default" =>
             \A p \in there \ pulled :
               /\ p \in Matching(walk)
               /\ \/ \E i \in 1..Len(seen) : seen[i] = p
                  \/ (page - 1) * PageSize < Cardinality(UpTo(walk, p))

SectionInv ==
    /\ section.count = Cardinality(section.counted)
    /\ \A p \in section.counted : created[p] # Null
    /\ \A i \in 1..Len(section.results) : created[section.results[i]] # Null
    /\ SectionCoversCount

ListingInv == ListingTypeOK /\ QuietWalk /\ GrowingWalk /\ NothingSkipped /\ SectionInv
=============================================================================
