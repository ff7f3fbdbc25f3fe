------------------------- MODULE PolicyListingProofs -------------------------
(***************************************************************************)
(* What the pages of a walk and the section of a search show, for any      *)
(* number of policies, any page size, any cap and any of the orders.       *)
(***************************************************************************)
EXTENDS PolicyListing, FiniteSetTheorems, FunctionTheorems, SequenceTheorems, TLAPS

(* The orders. *)

\* There are finitely many policies, so rows can be counted.
LEMMA Countable ==
    \A S : S \subseteq Ids => IsFiniteSet(S) /\ Cardinality(S) \in Nat
<1>1. IsFiniteSet(Ids)
  BY FS_Interval, ListingAssumption DEF Ids, ListingAssumption
<1> QED
  BY <1>1, FS_Subset, FS_CardinalityType

LEMMA Matches ==
    ASSUME ListingTypeOK
    PROVE  \A query : Matching(query) \subseteq Ids
  BY DEF Matching, ListingTypeOK

LEMMA CountedMore ==
    ASSUME NEW S, NEW T, S \subseteq T, T \subseteq Ids
    PROVE  Cardinality(S) <= Cardinality(T)
  BY Countable, FS_Subset

\* A row that matches has a date and a state.
LEMMA MatchingRows ==
    ASSUME ListingTypeOK, NEW query, NEW p \in Matching(query)
    PROVE  p \in Ids /\ p \in Nat /\ created[p] \in Nat /\ state[p] \in States
<1>1. p \in Ids /\ state[p] \in States
  BY DEF Matching, ListingTypeOK
<1>2. p \in Nat
  BY <1>1, ListingAssumption DEF Ids, ListingAssumption
<1>3. state[p] # Null
  BY <1>1, ListingAssumption DEF ListingAssumption
<1>4. created[p] # Null /\ created[p] \in Nat \cup {Null}
  BY <1>1, <1>3 DEF ListingTypeOK
<1> QED
  BY <1>1, <1>2, <1>4

(* No row precedes itself, and a row that comes after an earlier one comes  *)
(* after all rows that tie with that.                                       *)
LEMMA OrderIsWeak ==
    ASSUME ListingTypeOK, NEW query
    PROVE  /\ \A p \in Matching(query) : ~Precedes(query, p, p)
           /\ \A p, q, r \in Matching(query) :
                Precedes(query, p, r) /\ ~Precedes(query, p, q) => Precedes(query, q, r)
<1>1. \A p \in Matching(query) : p \in Nat /\ created[p] \in Nat /\ state[p] \in States
  BY MatchingRows
<1>2. \A st \in States : Rank(st) \in 1..4
  BY DEF States, Rank
<1> QED
  BY <1>1, <1>2 DEF Precedes

\* -created_at, -id leaves no ties.
LEMMA DefaultIsTotal ==
    ASSUME ListingTypeOK, NEW query, query.order = "default"
    PROVE  \A p, q \in Matching(query) :
             /\ p # q => Precedes(query, p, q) \/ Precedes(query, q, p)
             /\ ~(Precedes(query, p, q) /\ Precedes(query, q, p))
<1>1. \A p \in Matching(query) : p \in Nat /\ created[p] \in Nat
  BY MatchingRows
<1> QED
  BY <1>1 DEF Precedes

\* The first numbers, as many as there are.
LEMMA FirstNumbers ==
    ASSUME NEW n \in Nat
    PROVE  IsFiniteSet(1..n) /\ Cardinality(1..n) = n
<1>1. Cardinality(1..n) = IF 1 > n THEN 0 ELSE n - 1 + 1
  BY FS_Interval
<1> QED
  BY <1>1, FS_Interval

\* A listing shows every row once, and none before one that precedes it.
LEMMA ListingRows ==
    ASSUME ListingTypeOK, NEW query, NEW rows \in Listings(query)
    PROVE  /\ rows \in Seq(Ids) /\ Len(rows) = Cardinality(Matching(query)) /\ Len(rows) \in Nat
           /\ DOMAIN rows = 1..Len(rows)
           /\ \A i \in 1..Len(rows) : rows[i] \in Matching(query)
           /\ \A i, j \in 1..Len(rows) : rows[i] = rows[j] => i = j
           /\ \A p \in Matching(query) : \E i \in 1..Len(rows) : rows[i] = p
           /\ \A i, j \in 1..Len(rows) : i < j => ~Precedes(query, rows[j], rows[i])
<1> DEFINE M == Matching(query)
           n == Cardinality(M)
<1>1. IsFiniteSet(M) /\ n \in Nat /\ M \subseteq Ids
  BY Countable, Matches
<1>2. /\ rows \in [1..n -> M]
      /\ \A i, j \in 1..n : i # j => rows[i] # rows[j]
      /\ \A i, j \in DOMAIN rows : i < j => ~Precedes(query, rows[j], rows[i])
  BY DEF Listings, SetToSeqs
<1>3. rows \in Injection(1..n, M)
  BY <1>2, Fun_IsInj
<1>4. IsFiniteSet(1..n) /\ Cardinality(1..n) = n
  BY <1>1, FirstNumbers
<1>5. rows \in Surjection(1..n, M)
  BY <1>1, <1>3, <1>4, FS_Injection
<1>6. \A p \in M : \E i \in 1..n : rows[i] = p
  BY <1>5 DEF Surjection
<1>7. rows \in Seq(Ids) /\ Len(rows) = n /\ DOMAIN rows = 1..n
  BY <1>1, <1>2
<1> QED
  BY <1>1, <1>2, <1>6, <1>7

\* Rows taken from different places of a sequence are as many as the places.
LEMMA AsManyAsPlaces ==
    ASSUME NEW f, NEW n \in Nat, NEW S,
           \A i, j \in 1..n : f[i] = f[j] => i = j,
           \A i \in 1..n : f[i] \in S,
           \A x \in S : \E i \in 1..n : f[i] = x
    PROVE  IsFiniteSet(S) /\ Cardinality(S) = n
<1> DEFINE g == [i \in 1..n |-> f[i]]
<1>1. g \in [1..n -> S] /\ \A i \in 1..n : g[i] = f[i]
  OBVIOUS
<1> HIDE DEF g
<1>2. /\ \A i, j \in 1..n : g[i] = g[j] => i = j
      /\ \A x \in S : \E i \in 1..n : g[i] = x
  BY <1>1
<1>3. g \in Bijection(1..n, S)
  BY <1>1, <1>2, Fun_IsBij
<1>4. ExistsBijection(1..n, S)
  BY <1>3 DEF ExistsBijection
<1> QED
  BY <1>4, FirstNumbers, FS_Bijection

\* A row stands where as many rows precede it as it may have before it.
LEMMA RowsMayStand ==
    ASSUME ListingTypeOK, NEW query, NEW rows \in Listings(query), NEW i \in 1..Len(rows)
    PROVE  MayStand(query, rows[i], i)
<1> DEFINE before == { rows[k] : k \in 1..(i - 1) }
           upto == { rows[k] : k \in 1..i }
<1>1. /\ Len(rows) \in Nat /\ i \in Nat /\ i >= 1 /\ i - 1 \in Nat
      /\ \A k \in 1..Len(rows) : rows[k] \in Matching(query)
      /\ \A k, j \in 1..Len(rows) : rows[k] = rows[j] => k = j
      /\ \A p \in Matching(query) : \E k \in 1..Len(rows) : rows[k] = p
      /\ \A k, j \in 1..Len(rows) : k < j => ~Precedes(query, rows[j], rows[k])
  BY ListingRows
<1>2. Cardinality(before) = i - 1 /\ Cardinality(upto) = i
  <2>1. \A k, j \in 1..(i - 1) : rows[k] = rows[j] => k = j
    BY <1>1
  <2>2. \A k, j \in 1..i : rows[k] = rows[j] => k = j
    BY <1>1
  <2>3. Cardinality(before) = i - 1
    <3>1. \A k \in 1..(i - 1) : rows[k] \in before
      OBVIOUS
    <3>2. \A x \in before : \E k \in 1..(i - 1) : rows[k] = x
      OBVIOUS
    <3> HIDE DEF before
    <3> QED
      BY <1>1, <2>1, <3>1, <3>2, AsManyAsPlaces, SMTT(30)
  <2>4. Cardinality(upto) = i
    <3>1. \A k \in 1..i : rows[k] \in upto
      OBVIOUS
    <3>2. \A x \in upto : \E k \in 1..i : rows[k] = x
      OBVIOUS
    <3> HIDE DEF upto
    <3> QED
      BY <1>1, <2>2, <3>1, <3>2, AsManyAsPlaces
  <2> QED
    BY <2>3, <2>4
<1>3. Ahead(query, rows[i]) \subseteq before
  <2> SUFFICES ASSUME NEW q \in Ahead(query, rows[i]) PROVE q \in before
    OBVIOUS
  <2>1. PICK k \in 1..Len(rows) : rows[k] = q
    BY <1>1 DEF Ahead
  <2>2. Precedes(query, rows[k], rows[i])
    BY <2>1 DEF Ahead
  <2>3. k # i
    BY <1>1, <2>2, OrderIsWeak
  <2>4. k < i
    BY <1>1, <2>2, <2>3
  <2> QED
    BY <1>1, <2>1, <2>4
<1>4. upto \subseteq UpTo(query, rows[i])
  <2> SUFFICES ASSUME NEW k \in 1..i PROVE rows[k] \in UpTo(query, rows[i])
    OBVIOUS
  <2>1. k \in 1..Len(rows) /\ (k = i \/ k < i)
    BY <1>1
  <2> QED
    BY <1>1, <2>1, OrderIsWeak DEF UpTo
<1>5. /\ before \subseteq Ids
      /\ UpTo(query, rows[i]) \subseteq Ids /\ Ahead(query, rows[i]) \subseteq Ids
  <2>1. \A k \in 1..(i - 1) : rows[k] \in Matching(query)
    BY <1>1
  <2> QED
    BY <2>1, Matches DEF UpTo, Ahead
<1>6. Cardinality(Ahead(query, rows[i])) <= i - 1 /\ i <= Cardinality(UpTo(query, rows[i]))
  BY <1>2, <1>3, <1>4, <1>5, CountedMore
<1>7. Cardinality(Ahead(query, rows[i])) \in Nat
  BY <1>5, Countable
<1> QED
  BY <1>1, <1>6, <1>7 DEF MayStand

(* Where ties are none, there is one place a row may stand at, and the rows *)
(* up to it are as many as its place says.                                  *)
LEMMA OnePlace ==
    ASSUME ListingTypeOK, NEW query, query.order = "default", NEW p \in Matching(query)
    PROVE  /\ Cardinality(UpTo(query, p)) = Cardinality(Ahead(query, p)) + 1
           /\ Cardinality(UpTo(query, p)) \in Nat /\ Cardinality(Ahead(query, p)) \in Nat
<1>1. Ahead(query, p) \subseteq Ids /\ UpTo(query, p) \subseteq Ids
  BY Matches DEF Ahead, UpTo
<1>2. IsFiniteSet(Ahead(query, p)) /\ Cardinality(Ahead(query, p)) \in Nat
  BY <1>1, Countable
<1>3. p \notin Ahead(query, p)
  BY OrderIsWeak DEF Ahead
<1>4. UpTo(query, p) = Ahead(query, p) \cup {p}
  BY OrderIsWeak, DefaultIsTotal DEF Ahead, UpTo
<1>5. Cardinality(Ahead(query, p) \cup {p}) = Cardinality(Ahead(query, p)) + 1
  BY <1>2, <1>3, FS_AddElement
<1> QED
  BY <1>2, <1>4, <1>5

\* Rows that may stand where they stand are in order.
LEMMA PlacesAreOrdered ==
    ASSUME ListingTypeOK, NEW query, NEW i \in Nat, NEW j \in Nat, i < j, NEW p, NEW q,
           MayStand(query, p, i), MayStand(query, q, j)
    PROVE  ~Precedes(query, q, p)
<1> SUFFICES ASSUME Precedes(query, q, p) PROVE FALSE
  OBVIOUS
<1>1. p \in Matching(query) /\ q \in Matching(query)
  BY DEF MayStand
<1>2. UpTo(query, q) \subseteq Ahead(query, p)
  BY <1>1, OrderIsWeak DEF UpTo, Ahead
<1>3. Ahead(query, p) \subseteq Ids /\ UpTo(query, q) \subseteq Ids
  BY Matches DEF Ahead, UpTo
<1>4. Cardinality(UpTo(query, q)) <= Cardinality(Ahead(query, p))
  BY <1>2, <1>3, CountedMore
<1> QED
  BY <1>3, <1>4, Countable DEF MayStand
-----------------------------------------------------------------------------
(* Pages. *)

LEMMA TimesGrows ==
    ASSUME NEW a \in Int, NEW b \in Int, a <= b
    PROVE  a * PageSize <= b * PageSize
<1>1. PageSize \in Nat
  BY ListingAssumption DEF ListingAssumption
<1>2. /\ (b - a) * PageSize >= 0 /\ b * PageSize = a * PageSize + (b - a) * PageSize
      /\ a * PageSize \in Int /\ (b - a) * PageSize \in Int
  BY <1>1, Z3
<1> QED
  BY <1>2

\* There is a page after the k-th when k pages do not hold all rows.
LEMMA PagesReach ==
    ASSUME NEW n \in Nat, NEW k \in Nat
    PROVE  Pages(n) \in Int /\ (k < Pages(n) <=> k * PageSize < n)
<1> DEFINE a == n + PageSize - 1
           q == a \div PageSize
           m == a % PageSize
<1>1. PageSize \in Nat /\ PageSize >= 1
  BY ListingAssumption DEF ListingAssumption
<1>2. a \in Nat
  BY <1>1
<1> HIDE DEF a
<1>3. q \in Int /\ m \in Nat /\ m < PageSize /\ a = PageSize * q + m
  BY <1>1, <1>2, Z3
<1>4. Pages(n) = q
  BY DEF Pages, a
<1> HIDE DEF q, m
<1>5. PageSize * q = q * PageSize /\ q * PageSize \in Int /\ k * PageSize \in Int
  BY <1>1, <1>3, Z3
<1>6. (q - 1) * PageSize = q * PageSize - PageSize
  BY <1>1, <1>3, Z3
<1>7. ASSUME k < q PROVE k * PageSize < n
  <2>1. k * PageSize <= (q - 1) * PageSize
    BY <1>3, <1>7, TimesGrows
  <2> QED
    BY <1>1, <1>3, <1>5, <1>6, <2>1 DEF a
<1>8. ASSUME ~(k < q) PROVE ~(k * PageSize < n)
  <2>1. q * PageSize <= k * PageSize
    BY <1>3, <1>8, TimesGrows
  <2> QED
    BY <1>1, <1>3, <1>5, <2>1 DEF a
<1> QED
  BY <1>3, <1>4, <1>7, <1>8

\* How many rows are before page n, and how many up to its end.
From(n) == (n - 1) * PageSize
Reach(n) == n * PageSize

LEMMA PageBounds ==
    ASSUME NEW n \in Nat, n >= 1
    PROVE  /\ From(n) \in Nat /\ Reach(n) \in Nat /\ From(n) < Reach(n)
           /\ From(1) = 0 /\ From(n + 1) = Reach(n)
<1>1. PageSize \in Nat /\ PageSize >= 1
  BY ListingAssumption DEF ListingAssumption
<1>2. n - 1 \in Nat /\ (n + 1) - 1 = n /\ 1 - 1 = 0
  OBVIOUS
<1>3. /\ n * PageSize \in Nat /\ (n - 1) * PageSize \in Nat
      /\ n * PageSize = (n - 1) * PageSize + PageSize
  BY ONLY <1>1, <1>2, n \in Nat, Z3
<1>4. 0 * PageSize = 0
  BY <1>1
<1> QED
  BY <1>1, <1>2, <1>3, <1>4 DEF From, Reach

\* What is cut out of the rows, between two of their places.
LEMMA CutRows ==
    ASSUME NEW rows \in Seq(Ids), NEW from \in Nat, NEW last \in Nat, last <= Len(rows),
           NEW slice, slice = SubSeq(rows, from + 1, last)
    PROVE  /\ slice \in Seq(Ids) /\ Len(slice) \in Nat
           /\ Len(slice) = IF from < last THEN last - from ELSE 0
           /\ \A i \in 1..(last - from) : slice[i] = rows[from + i]
<1> DEFINE first == from + 1
<1>1. Len(rows) \in Nat /\ \A i \in 1..Len(rows) : rows[i] \in Ids
  OBVIOUS
<1>2. first \in Int /\ last \in Int /\ slice = SubSeq(rows, first, last)
  OBVIOUS
<1>3. \A i \in first..last : rows[i] \in Ids
  BY <1>1
<1>4. /\ first = from + 1
      /\ last - first + 1 = last - from /\ (first <= last <=> from < last)
      /\ \A i \in 1..(last - from) : first + i - 1 = from + i
  OBVIOUS
<1> HIDE DEF first
<1>5. /\ slice \in Seq(Ids)
      /\ Len(slice) = IF first <= last THEN last - first + 1 ELSE 0
      /\ \A i \in 1..(last - first + 1) : slice[i] = rows[first + i - 1]
  BY <1>2, <1>3, SubSeqProperties
<1> QED
  BY <1>4, <1>5, SMTT(30)

\* A page shows its rows in their places, all of those there are and counted.
LEMMA SliceRows ==
    ASSUME NEW rows \in Seq(Ids), NEW n \in Nat, n >= 1, NEW total \in Nat
    PROVE  /\ Slice(rows, n, total) \in Seq(Ids) /\ Len(Slice(rows, n, total)) \in Nat
           /\ \A i \in 1..Len(Slice(rows, n, total)) :
                From(n) + i \in 1..Len(rows) /\ Slice(rows, n, total)[i] = rows[From(n) + i]
           /\ \A i \in 1..Len(rows) : From(n) < i /\ i <= Reach(n) /\ i <= total =>
                i - From(n) \in 1..Len(Slice(rows, n, total))
           /\ total = Len(rows) /\ From(n) <= total =>
                From(n) + Len(Slice(rows, n, total)) =
                    IF Reach(n) >= total THEN total ELSE Reach(n)
<1> DEFINE from == From(n)
           reach == Reach(n)
           top == IF reach >= total THEN total ELSE reach
           last == IF top <= Len(rows) THEN top ELSE Len(rows)
           slice == Slice(rows, n, total)
<1>1. from \in Nat /\ reach \in Nat /\ from < reach
  BY PageBounds
<1>2. slice = SubSeq(rows, from + 1, last)
  BY DEF Slice, From, Reach
<1>3. Len(rows) \in Nat /\ \A i \in 1..Len(rows) : rows[i] \in Ids
  OBVIOUS
<1> HIDE DEF from, reach, slice
<1>4. /\ last \in Nat /\ last <= Len(rows) /\ last <= total /\ last <= reach
      /\ (last = Len(rows) \/ last = total \/ last = reach)
      /\ total = Len(rows) => last = IF reach >= total THEN total ELSE reach
  BY <1>1, <1>3
<1> HIDE DEF last
<1>5. /\ slice \in Seq(Ids) /\ Len(slice) \in Nat
      /\ Len(slice) = IF from < last THEN last - from ELSE 0
      /\ \A i \in 1..(last - from) : slice[i] = rows[from + i]
  <2>1. from \in Nat /\ last \in Nat /\ last <= Len(rows) /\ slice = SubSeq(rows, from + 1, last)
    BY <1>1, <1>2, <1>4
  <2>2. \A cut : \A f, l \in Nat :
          l <= Len(rows) /\ cut = SubSeq(rows, f + 1, l) =>
             /\ cut \in Seq(Ids) /\ Len(cut) \in Nat
             /\ Len(cut) = IF f < l THEN l - f ELSE 0
             /\ \A i \in 1..(l - f) : cut[i] = rows[f + i]
    BY CutRows
  <2> HIDE DEF top
  <2> QED
    BY ONLY <2>1, <2>2
<1> HIDE DEF top
<1>6. \A i \in 1..Len(slice) : from + i \in 1..Len(rows) /\ slice[i] = rows[from + i]
  <2> SUFFICES ASSUME NEW i \in 1..Len(slice)
               PROVE  from + i \in 1..Len(rows) /\ slice[i] = rows[from + i]
    OBVIOUS
  <2>1. i \in 1..(last - from) /\ from + i <= last
    BY <1>1, <1>4, <1>5
  <2> QED
    BY <1>1, <1>3, <1>4, <1>5, <2>1, SMTT(30)
<1>7. \A i \in 1..Len(rows) :
        from < i /\ i <= reach /\ i <= total => i - from \in 1..Len(slice)
  <2> SUFFICES ASSUME NEW i \in 1..Len(rows), from < i, i <= reach, i <= total
               PROVE  i - from \in 1..Len(slice)
    OBVIOUS
  <2>1. i <= last
    BY <1>3, <1>4
  <2> QED
    BY <1>1, <1>3, <1>4, <1>5, <2>1
<1>8. total = Len(rows) /\ from <= total =>
        from + Len(slice) = IF reach >= total THEN total ELSE reach
  BY <1>1, <1>3, <1>4, <1>5
<1> QED
  BY <1>5, <1>6, <1>7, <1>8 DEF from, reach, slice
-----------------------------------------------------------------------------
(* Steps of the rows. *)

\* Dates stay as they were given.
Dated == \A p \in Ids : created[p] # Null => created'[p] = created[p]

\* Nobody moves the rows walked through.
LEMMA SteadyWalk ==
    ASSUME ListingTypeOK, Dated, UNCHANGED <<walk, state, scope>>
    PROVE  /\ Matching(walk)' = Matching(walk)
           /\ \A p \in Ids, i \in Nat : MayStand(walk, p, i) => MayStand(walk, p, i)'
           /\ \A p \in Matching(walk) : UpTo(walk, p)' = UpTo(walk, p)
<1>1. Matching(walk)' = Matching(walk)
  BY DEF Matching
<1>2. \A p \in Matching(walk) : created'[p] = created[p]
  BY MatchingRows, ListingAssumption DEF Dated, ListingAssumption
<1>3. \A p, q \in Matching(walk) : Precedes(walk, p, q)' <=> Precedes(walk, p, q)
  BY <1>2 DEF Precedes
<1>4. ASSUME NEW p \in Matching(walk)
      PROVE  Ahead(walk, p)' = Ahead(walk, p) /\ UpTo(walk, p)' = UpTo(walk, p)
  <2>1. Ahead(walk, p)' = { q \in Matching(walk)' : Precedes(walk, q, p)' }
    BY DEF Ahead
  <2>2. UpTo(walk, p)' = { q \in Matching(walk)' : ~Precedes(walk, p, q)' }
    BY DEF UpTo
  <2> QED
    BY <1>1, <1>3, <1>4, <2>1, <2>2 DEF Ahead, UpTo
<1> QED
  BY <1>1, <1>4 DEF MayStand

\* A walk goes on over rows that nobody writes to as if nothing happened.
LEMMA WalkStays ==
    ASSUME ListingTypeOK, QuietWalk, GrowingWalk, NothingSkipped,
           Dated, UNCHANGED <<state, scope, walkVars>>
    PROVE  QuietWalk' /\ GrowingWalk' /\ NothingSkipped'
<1>1. /\ walk' = walk /\ stage' = stage /\ page' = page /\ count' = count /\ seen' = seen
      /\ there' = there /\ quiet' = quiet /\ torn' = torn /\ pulled' = pulled
  BY DEF walkVars, pageVars
<1>2. /\ Matching(walk)' = Matching(walk)
      /\ \A p \in Ids, i \in Nat : MayStand(walk, p, i) => MayStand(walk, p, i)'
      /\ \A p \in Matching(walk) : UpTo(walk, p)' = UpTo(walk, p)
  BY <1>1, SteadyWalk
<1>3. \A i \in 1..Len(seen) : seen[i] \in Ids /\ i \in Nat
  BY DEF ListingTypeOK
<1>4. QuietWalk'
  BY <1>1, <1>2, <1>3 DEF QuietWalk
<1>5. GrowingWalk'
  BY <1>1, <1>2 DEF GrowingWalk
<1>6. NothingSkipped'
  BY <1>1 DEF NothingSkipped
<1> QED
  BY <1>4, <1>5, <1>6

\* What a search has counted and shown stays true whatever is written.
LEMMA SectionStays ==
    ASSUME ListingTypeOK, SectionInv, section' = section, Dated
    PROVE  SectionInv'
<1>1. /\ section.results \in Seq(Ids) /\ section.counted \subseteq Ids
      /\ section.count = Cardinality(section.counted)
      /\ \A p \in section.counted : created[p] # Null
      /\ \A i \in 1..Len(section.results) : created[section.results[i]] # Null
  BY DEF ListingTypeOK, SectionInv
<1>2. DOMAIN section.results = 1..Len(section.results)
  BY <1>1
<1>3. \A i \in 1..Len(section.results) : section.results[i] \in Ids
  BY <1>1
<1>4. \A p, q \in Ids : created[p] # Null /\ created[q] # Null =>
         (Precedes(Everything, p, q)' <=> Precedes(Everything, p, q))
  BY DEF Precedes, Everything, Dated
<1>5. SectionCoversCount'
  <2> DEFINE shown == { section.results[i] : i \in DOMAIN section.results }
             Whole == \/ Len(section.results) >= section.count - Cardinality(section.gone)
                      \/ Len(section.results) = Limit
  <2> SUFFICES ASSUME section.stage = "done"
               PROVE  /\ Len(section.results) <= Limit /\ Whole
                      /\ \A p \in section.counted \ (shown \cup section.gone) :
                           /\ Len(section.results) = Limit
                           /\ \A q \in shown : Precedes(Everything, q, p)'
    BY DEF SectionCoversCount
  <2>1. /\ Len(section.results) <= Limit /\ Whole
        /\ \A p \in section.counted \ (shown \cup section.gone) :
             Len(section.results) = Limit /\ \A q \in shown : Precedes(Everything, q, p)
    BY DEF SectionInv, SectionCoversCount
  <2>2. \A q \in shown : q \in Ids /\ created[q] # Null
    BY <1>1, <1>2, <1>3
  <2> HIDE DEF shown, Whole
  <2> QED
    BY <1>1, <1>4, <2>1, <2>2
<1>6. /\ \A p \in section.counted : created'[p] # Null
      /\ \A i \in 1..Len(section.results) : created'[section.results[i]] # Null
  BY <1>1, <1>3 DEF Dated
<1> QED
  BY <1>1, <1>5, <1>6 DEF SectionInv

\* The clock goes on, or a row is dated in a transaction that is still open.
LEMMA RowStep ==
    ASSUME ListingInv, ListingTypeOK', Dated, UNCHANGED <<state, scope, walkVars, section>>
    PROVE  ListingInv'
  BY WalkStays, SectionStays DEF ListingInv

(* A row that a write does not pull keeps before it all the rows that were   *)
(* there, and those not after it.                                            *)
LEMMA UnpulledStay ==
    ASSUME ListingTypeOK, ListingTypeOK', UNCHANGED <<created, walk>>, walk.order = "default",
           NEW p \in Matching(walk),
           \A q \in Matching(walk) \ Matching(walk)' : ~(q = p \/ Precedes(walk, q, p))
    PROVE  /\ p \in Matching(walk)'
           /\ Cardinality(UpTo(walk, p)) \in Nat /\ Cardinality(UpTo(walk, p)') \in Nat
           /\ Cardinality(UpTo(walk, p)) <= Cardinality(UpTo(walk, p)')
<1>1. p \in Matching(walk)'
  OBVIOUS
<1>2. \A q : Precedes(walk, p, q)' <=> Precedes(walk, p, q)
  BY DEF Precedes
<1>3. UpTo(walk, p)' = { q \in Matching(walk)' : ~Precedes(walk, p, q)' }
  BY DEF UpTo
<1>4. UpTo(walk, p) \subseteq UpTo(walk, p)'
  <2> SUFFICES ASSUME NEW q \in UpTo(walk, p) PROVE q \in UpTo(walk, p)'
    OBVIOUS
  <2>1. q \in Matching(walk) /\ ~Precedes(walk, p, q)
    BY DEF UpTo
  <2>2. q = p \/ Precedes(walk, q, p)
    BY <2>1, DefaultIsTotal
  <2>3. q \in Matching(walk)'
    BY <2>1, <2>2
  <2> QED
    BY <1>2, <1>3, <2>1, <2>3
<1>5. UpTo(walk, p)' \subseteq Ids
  BY <1>3 DEF Matching, ListingTypeOK
<1>6. UpTo(walk, p) \subseteq Ids
  BY <1>4, <1>5
<1> QED
  BY <1>1, <1>4, <1>5, <1>6, CountedMore, Countable

(* A write commits: the walk is not quiet any more; untorn, it added no row  *)
(* between a count and its slice; and what it drew forward is pulled.        *)
LEMMA WrittenStep ==
    ASSUME ListingInv, ListingTypeOK', Written, UNCHANGED created
    PROVE  ListingInv'
<1>1. ListingTypeOK /\ GrowingWalk /\ NothingSkipped /\ SectionInv
  BY DEF ListingInv
<1>2. /\ walk' = walk /\ stage' = stage /\ page' = page /\ count' = count /\ seen' = seen
      /\ there' = there /\ section' = section /\ quiet' = FALSE
      /\ torn' = (torn \/ (stage = "fetch" /\ ~(Matching(walk)' \subseteq Matching(walk))))
      /\ pulled' = IF stage \in {"count", "fetch"}
                   THEN pulled \cup
                          { p \in there \cap Matching(walk) :
                              \E q \in Matching(walk) \ Matching(walk)' :
                                  q = p \/ Precedes(walk, q, p) }
                   ELSE pulled
  BY DEF Written, pageVars
<1>3. SectionInv'
  BY <1>1, <1>2, SectionStays DEF Dated
<1>4. QuietWalk'
  BY <1>2 DEF QuietWalk
<1>5. NothingSkipped'
  BY <1>1, <1>2 DEF NothingSkipped
<1>6. GrowingWalk'
  <2> SUFFICES ASSUME ~torn', stage \in {"count", "fetch"}
               PROVE  /\ stage = "fetch" => Cardinality(Matching(walk)') <= count
                      /\ walk.order = "default" =>
                           \A p \in there \ pulled' :
                             /\ p \in Matching(walk)'
                             /\ \/ \E i \in 1..Len(seen) : seen[i] = p
                                \/ (page - 1) * PageSize < Cardinality(UpTo(walk, p)')
    BY <1>2 DEF GrowingWalk
  <2>1. /\ ~torn
        /\ stage = "fetch" => Matching(walk)' \subseteq Matching(walk)
        /\ stage = "fetch" => Cardinality(Matching(walk)) <= count
        /\ walk.order = "default" =>
             \A p \in there \ pulled :
               /\ p \in Matching(walk)
               /\ \/ \E i \in 1..Len(seen) : seen[i] = p
                  \/ (page - 1) * PageSize < Cardinality(UpTo(walk, p))
    BY <1>1, <1>2 DEF GrowingWalk
  <2>2. stage = "fetch" => Cardinality(Matching(walk)') <= count
    <3>1. Matching(walk) \subseteq Ids /\ count \in Nat
      BY <1>1, Matches DEF ListingTypeOK
    <3>2. stage = "fetch" => Cardinality(Matching(walk)') <= Cardinality(Matching(walk))
      BY <2>1, <3>1, CountedMore
    <3>3. Cardinality(Matching(walk)) \in Nat
      BY <3>1, Countable
    <3>4. stage = "fetch" => Cardinality(Matching(walk)') \in Nat
      BY <2>1, <3>1, Countable
    <3> QED
      BY <2>1, <3>1, <3>2, <3>3, <3>4
  <2> DEFINE start == (page - 1) * PageSize
  <2>3. start \in Int
    <3>1. page - 1 \in Int /\ PageSize \in Int
      BY <1>1, ListingAssumption DEF ListingTypeOK, ListingAssumption
    <3> QED
      BY ONLY <3>1, Z3
  <2> HIDE DEF start
  <2>4. ASSUME walk.order = "default", NEW p \in there \ pulled'
        PROVE  /\ p \in Matching(walk)'
               /\ (\E i \in 1..Len(seen) : seen[i] = p) \/ start < Cardinality(UpTo(walk, p)')
    <3>1. /\ p \in there \ pulled /\ p \in Matching(walk)
          /\ (\E i \in 1..Len(seen) : seen[i] = p) \/ start < Cardinality(UpTo(walk, p))
      BY <1>2, <2>1, <2>4 DEF start
    <3>2. \A q \in Matching(walk) \ Matching(walk)' : ~(q = p \/ Precedes(walk, q, p))
      BY <1>2, <2>4, <3>1
    <3>3. /\ p \in Matching(walk)'
          /\ Cardinality(UpTo(walk, p)) \in Nat /\ Cardinality(UpTo(walk, p)') \in Nat
          /\ Cardinality(UpTo(walk, p)) <= Cardinality(UpTo(walk, p)')
      BY <1>1, <1>2, <2>4, <3>1, <3>2, UnpulledStay
    <3> QED
      BY <2>3, <3>1, <3>3
  <2> QED
    BY <2>2, <2>4 DEF start
<1> QED
  BY <1>3, <1>4, <1>5, <1>6 DEF ListingInv
-----------------------------------------------------------------------------
(* Steps of a walk and of a search. *)

LEMMA BeginStep ==
    ASSUME ListingInv, Begin
    PROVE  ListingInv'
<1>1. ListingTypeOK /\ SectionInv
  BY DEF ListingInv
<1>2. /\ stage' = "count" /\ page' = 1 /\ count' = 0 /\ walk' \in Walks
      /\ seen' = << >> /\ quiet' = TRUE /\ torn' = FALSE /\ pulled' = {}
      /\ there' = Matching(walk') /\ UNCHANGED <<clock, created, state, scope, section>>
  BY DEF Begin, rowVars
<1>3. there' = Matching(walk)' /\ there' \subseteq Ids
  BY <1>1, <1>2 DEF Matching, ListingTypeOK
<1>4. ListingTypeOK'
  <2>1. seen' \in Seq(Ids) /\ count' \in Nat /\ page' \in Nat /\ page' >= 1
    BY <1>2
  <2> QED
    BY <1>1, <1>2, <1>3, <2>1 DEF ListingTypeOK
<1>5. SectionInv'
  BY <1>1, <1>2, SectionStays DEF Dated
<1>6. (page' - 1) * PageSize = 0
  <2>1. page' - 1 = 0 /\ PageSize \in Nat
    BY <1>2, ListingAssumption DEF ListingAssumption
  <2> QED
    BY <2>1
<1>7. Len(seen') = 0
  BY <1>2
<1>8. QuietWalk'
  BY <1>2, <1>3, <1>6, <1>7 DEF QuietWalk
<1>9. GrowingWalk'
  <2> SUFFICES ASSUME NEW p \in there'
               PROVE  0 < Cardinality(UpTo(walk, p)')
    BY <1>2, <1>3, <1>6 DEF GrowingWalk
  <2> DEFINE upto == UpTo(walk', p)
  <2>1. UpTo(walk, p)' = upto
    BY <1>2 DEF UpTo, Matching, Precedes
  <2>2. p \in Matching(walk')
    BY <1>2
  <2>3. p \in upto /\ upto \subseteq Ids
    BY <1>1, <2>2, OrderIsWeak, Matches DEF UpTo
  <2> HIDE DEF upto
  <2>4. Cardinality(upto) \in Nat /\ Cardinality(upto) # 0
    BY <2>3, Countable, FS_EmptySet
  <2> QED
    BY <2>1, <2>4
<1>10. NothingSkipped'
  BY <1>2 DEF NothingSkipped
<1> QED
  BY <1>4, <1>5, <1>8, <1>9, <1>10 DEF ListingInv

LEMMA CountStep ==
    ASSUME ListingInv, Count
    PROVE  ListingInv'
<1>1. ListingTypeOK /\ QuietWalk /\ GrowingWalk /\ SectionInv
  BY DEF ListingInv
<1> DEFINE total == Cardinality(Matching(walk))
<1>2. /\ stage = "count" /\ count' = total
      /\ stage' = IF page > 1 /\ page > Pages(total) THEN "done" ELSE "fetch"
      /\ UNCHANGED <<clock, created, state, scope, walk, page, seen, there, quiet, torn, pulled,
                    section>>
  BY DEF Count, rowVars
<1>3. total \in Nat
  BY <1>1, Countable, Matches
<1>4. page \in Nat /\ page >= 1 /\ page - 1 \in Nat
  BY <1>1, <1>2 DEF ListingTypeOK
<1>5. Pages(total) \in Int /\ (page - 1 < Pages(total) <=> (page - 1) * PageSize < total)
  BY <1>3, <1>4, PagesReach
<1>6. stage' = "done" => page > 1 /\ ~((page - 1) * PageSize < total)
  BY <1>2, <1>4, <1>5
<1>7. ListingTypeOK'
  BY <1>1, <1>2, <1>3 DEF ListingTypeOK
<1>8. SectionInv'
  BY <1>1, <1>2, SectionStays DEF Dated
<1>9. QuietWalk'
  <2> SUFFICES ASSUME quiet
               PROVE  /\ there = Matching(walk)'
                      /\ \A i \in 1..Len(seen) : MayStand(walk, seen[i], i)'
                      /\ stage' = "fetch" => Len(seen) = (page - 1) * PageSize
                                             /\ (page = 1 \/ Len(seen) < Cardinality(there))
                      /\ stage' = "fetch" => count' = Cardinality(there)
                      /\ stage' # "done"
    BY <1>2 DEF QuietWalk
  <2>1. /\ there = Matching(walk) /\ \A i \in 1..Len(seen) : MayStand(walk, seen[i], i)
        /\ Len(seen) = (page - 1) * PageSize /\ (page = 1 \/ Len(seen) < Cardinality(there))
    BY <1>1, <1>2 DEF QuietWalk
  <2>2. /\ Matching(walk)' = Matching(walk)
        /\ \A p \in Ids, i \in Nat : MayStand(walk, p, i) => MayStand(walk, p, i)'
    BY <1>1, <1>2, SteadyWalk DEF Dated
  <2>3. \A i \in 1..Len(seen) : seen[i] \in Ids /\ i \in Nat
    BY <1>1 DEF ListingTypeOK
  <2> QED
    BY <1>2, <1>6, <2>1, <2>2, <2>3
<1> DEFINE start == (page - 1) * PageSize
<1>10. ASSUME ~torn, walk.order = "default", NEW p \in there \ pulled
       PROVE  /\ p \in Matching(walk)
              /\ \/ \E i \in 1..Len(seen) : seen[i] = p
                 \/ start < Cardinality(UpTo(walk, p)) /\ start < total
  <2>1. /\ p \in Matching(walk)
        /\ (\E i \in 1..Len(seen) : seen[i] = p) \/ start < Cardinality(UpTo(walk, p))
    BY <1>1, <1>2, <1>10 DEF GrowingWalk
  <2>2. UpTo(walk, p) \subseteq Matching(walk) /\ Matching(walk) \subseteq Ids
    BY <1>1, Matches DEF UpTo
  <2>3. Cardinality(UpTo(walk, p)) <= total /\ Cardinality(UpTo(walk, p)) \in Nat
    BY <2>2, CountedMore, Countable
  <2>4. start \in Int
    <3>1. page - 1 \in Int /\ PageSize \in Int
      BY <1>4, ListingAssumption DEF ListingAssumption
    <3> QED
      BY ONLY <3>1, Z3
  <2> HIDE DEF start, total
  <2> QED
    BY <1>3, <2>1, <2>3, <2>4
<1>11. /\ Matching(walk)' = Matching(walk)
       /\ \A p \in Matching(walk) : UpTo(walk, p)' = UpTo(walk, p)
  BY <1>1, <1>2, SteadyWalk DEF Dated
<1>12. stage' = "done" => ~(start < total)
  BY <1>6
<1>13. total <= total
  BY <1>3
<1> HIDE DEF start, total
<1>14. GrowingWalk'
  <2> SUFFICES ASSUME ~torn, stage' = "fetch"
               PROVE  /\ Cardinality(Matching(walk)') <= count'
                      /\ walk.order = "default" =>
                           \A p \in there \ pulled :
                             /\ p \in Matching(walk)'
                             /\ \/ \E i \in 1..Len(seen) : seen[i] = p
                                \/ start < Cardinality(UpTo(walk, p)')
    BY <1>2 DEF GrowingWalk, start
  <2>1. Cardinality(Matching(walk)') <= count'
    BY <1>2, <1>11, <1>13 DEF total
  <2> QED
    BY <1>10, <1>11, <2>1
<1>15. NothingSkipped'
  <2> SUFFICES ASSUME ~torn, stage' = "done", walk.order = "default", NEW p \in there \ pulled
               PROVE  p \in { seen[i] : i \in DOMAIN seen }
    BY <1>2 DEF NothingSkipped
  <2>1. \E i \in 1..Len(seen) : seen[i] = p
    BY <1>10, <1>12
  <2>2. DOMAIN seen = 1..Len(seen)
    BY <1>1 DEF ListingTypeOK
  <2> QED
    BY <2>1, <2>2
<1> QED
  BY <1>7, <1>8, <1>9, <1>14, <1>15 DEF ListingInv

LEMMA FetchStep ==
    ASSUME ListingInv, Fetch
    PROVE  ListingInv'
<1>1. ListingTypeOK /\ QuietWalk /\ GrowingWalk /\ SectionInv
  BY DEF ListingInv
<1>2. PICK rows \in Listings(walk) : seen' = seen \o Slice(rows, page, count)
  BY DEF Fetch
<1>3. /\ stage = "fetch"
      /\ IF page < Pages(count) THEN stage' = "count" /\ page' = page + 1
                                ELSE stage' = "done" /\ page' = page
      /\ UNCHANGED <<clock, created, state, scope, walk, count, there, quiet, torn, pulled,
                    section>>
  BY DEF Fetch, rowVars
<1> DEFINE slice == Slice(rows, page, count)
           from == From(page)
           reach == Reach(page)
<1>4. page \in Nat /\ page >= 1 /\ count \in Nat /\ seen \in Seq(Ids)
  BY <1>1, <1>3 DEF ListingTypeOK
<1>5. /\ rows \in Seq(Ids) /\ Len(rows) = Cardinality(Matching(walk)) /\ Len(rows) \in Nat
      /\ \A i \in 1..Len(rows) : rows[i] \in Matching(walk)
      /\ \A p \in Matching(walk) : \E i \in 1..Len(rows) : rows[i] = p
  BY <1>1, ListingRows
<1>6. /\ slice \in Seq(Ids) /\ Len(slice) \in Nat
      /\ \A i \in 1..Len(slice) : from + i \in 1..Len(rows) /\ slice[i] = rows[from + i]
      /\ \A i \in 1..Len(rows) :
           from < i /\ i <= reach /\ i <= count => i - from \in 1..Len(slice)
      /\ count = Len(rows) /\ from <= count =>
           from + Len(slice) = IF reach >= count THEN count ELSE reach
  BY <1>4, <1>5, SliceRows
<1>7. from \in Nat /\ reach \in Nat /\ from < reach /\ (page = 1 => from = 0)
  BY <1>4, PageBounds
<1>8. Pages(count) \in Int /\ (page < Pages(count) <=> reach < count)
  BY <1>4, PagesReach DEF Reach
<1>9. page' = page + 1 => (page' - 1) * PageSize = reach
  BY <1>4 DEF Reach
<1> HIDE DEF slice, from, reach
<1>10. /\ seen' \in Seq(Ids) /\ Len(seen') = Len(seen) + Len(slice) /\ Len(seen) \in Nat
       /\ \A i \in 1..(Len(seen) + Len(slice)) :
            seen'[i] = IF i <= Len(seen) THEN seen[i] ELSE slice[i - Len(seen)]
  BY <1>2, <1>4, <1>6, ConcatProperties DEF slice
<1>11. ListingTypeOK'
  <2>1. page' \in Nat /\ page' >= 1 /\ stage' \in {"count", "done"}
    BY <1>3, <1>4
  <2> QED
    BY <1>1, <1>3, <1>10, <2>1 DEF ListingTypeOK
<1>12. SectionInv'
  BY <1>1, <1>3, SectionStays DEF Dated
<1>13. QuietWalk'
  <2> SUFFICES ASSUME quiet
               PROVE  /\ there = Matching(walk)'
                      /\ \A i \in 1..Len(seen') : MayStand(walk, seen[i], i)'
                      /\ stage' = "count" =>
                           /\ Len(seen') = (page' - 1) * PageSize
                           /\ page' = 1 \/ Len(seen') < Cardinality(there)
                      /\ stage' = "done" => Len(seen') = Cardinality(there)
    BY <1>3 DEF QuietWalk
  <2>1. /\ there = Matching(walk) /\ \A i \in 1..Len(seen) : MayStand(walk, seen[i], i)
        /\ Len(seen) = from /\ (page = 1 \/ Len(seen) < Cardinality(there))
        /\ count = Cardinality(there)
    BY <1>1, <1>3 DEF QuietWalk, from, From
  <2>2. /\ Matching(walk)' = Matching(walk)
        /\ \A p \in Ids, i \in Nat : MayStand(walk, p, i) => MayStand(walk, p, i)'
    BY <1>1, <1>3, SteadyWalk DEF Dated
  <2>3. count = Len(rows) /\ from <= count
    BY <1>4, <1>5, <1>7, <2>1
  <2>4. Len(seen') = IF reach >= count THEN count ELSE reach
    BY <1>6, <1>10, <2>1, <2>3
  <2>5. \A i \in 1..Len(seen') : MayStand(walk, seen'[i], i)
    <3> TAKE i \in 1..Len(seen')
    <3>1. CASE i <= Len(seen)
      BY <1>10, <2>1, <3>1
    <3>2. CASE ~(i <= Len(seen))
      <4>1. i - Len(seen) \in 1..Len(slice) /\ seen'[i] = slice[i - Len(seen)]
        BY <1>6, <1>10, <3>2, SMTT(30)
      <4>2. i \in 1..Len(rows) /\ seen'[i] = rows[i]
        BY <1>6, <1>10, <2>1, <4>1
      <4> QED
        BY <1>1, <4>2, RowsMayStand
    <3> QED
      BY <3>1, <3>2
  <2>6. \A i \in 1..Len(seen') : seen'[i] \in Ids /\ i \in Nat
    BY <1>10
  <2>7. \A i \in 1..Len(seen') : MayStand(walk, seen[i], i)'
    BY <2>2, <2>5, <2>6
  <2>8. stage' = "count" => reach < count /\ page' = page + 1
    BY <1>3, <1>8
  <2>9. stage' = "done" => ~(reach < count)
    BY <1>3, <1>8
  <2> QED
    BY <1>4, <1>7, <1>9, <2>1, <2>2, <2>4, <2>7, <2>8, <2>9
<1>14. ASSUME ~torn, walk.order = "default", NEW p \in there \ pulled
       PROVE  /\ p \in Matching(walk)
              /\ \/ \E i \in 1..Len(seen') : seen'[i] = p
                 \/ /\ stage' = "count"
                    /\ (page' - 1) * PageSize < Cardinality(UpTo(walk, p))
  <2>1. /\ Cardinality(Matching(walk)) <= count /\ p \in Matching(walk)
        /\ \/ \E i \in 1..Len(seen) : seen[i] = p
           \/ from < Cardinality(UpTo(walk, p))
    BY <1>1, <1>3, <1>14 DEF GrowingWalk, from, From
  <2>2. CASE \E i \in 1..Len(seen) : seen[i] = p
    <3>1. PICK i \in 1..Len(seen) : seen[i] = p
      BY <2>2
    <3>2. i \in 1..Len(seen') /\ seen'[i] = p
      BY <1>6, <1>10, <3>1
    <3> QED
      BY <2>1, <3>2
  <2>3. CASE from < Cardinality(UpTo(walk, p))
    <3>1. PICK i \in 1..Len(rows) : rows[i] = p
      BY <1>5, <2>1
    <3>2. MayStand(walk, p, i)
      BY <1>1, <3>1, RowsMayStand
    <3>3. i = Cardinality(UpTo(walk, p))
      <4>1. /\ Cardinality(UpTo(walk, p)) = Cardinality(Ahead(walk, p)) + 1
            /\ Cardinality(UpTo(walk, p)) \in Nat /\ Cardinality(Ahead(walk, p)) \in Nat
        BY <1>1, <1>14, <2>1, OnePlace
      <4> QED
        BY <3>1, <3>2, <4>1 DEF MayStand
    <3>4. from < i /\ i <= count
      BY <1>4, <1>5, <2>1, <2>3, <3>1, <3>3
    <3>5. CASE i <= reach
      <4>1. i - from \in 1..Len(slice)
        BY <1>6, <3>1, <3>4, <3>5
      <4>2. slice[i - from] = p
        BY <1>6, <1>7, <3>1, <4>1
      <4>3. Len(seen) + (i - from) \in 1..Len(seen')
        BY <1>6, <1>7, <1>10, <4>1
      <4>4. seen'[Len(seen) + (i - from)] = p
        BY <1>6, <1>7, <1>10, <4>1, <4>2, <4>3, SMTT(30)
      <4> QED
        BY <2>1, <4>3, <4>4
    <3>6. CASE ~(i <= reach)
      <4>1. reach < count
        BY <1>4, <1>7, <3>4, <3>6
      <4>2. stage' = "count" /\ page' = page + 1
        BY <1>3, <1>8, <4>1
      <4>3. (page' - 1) * PageSize < Cardinality(UpTo(walk, p))
        BY <1>7, <1>9, <3>3, <3>6, <4>2
      <4> QED
        BY <2>1, <4>2, <4>3
    <3> QED
      BY <3>5, <3>6
  <2> QED
    BY <2>1, <2>2, <2>3
<1>15. GrowingWalk'
  <2>1. /\ Matching(walk)' = Matching(walk)
        /\ \A p \in Matching(walk) : UpTo(walk, p)' = UpTo(walk, p)
    BY <1>1, <1>3, SteadyWalk DEF Dated
  <2>2. stage' # "fetch" /\ (stage' = "count" \/ stage' = "done")
    BY <1>3
  <2> SUFFICES ASSUME ~torn, walk.order = "default", stage' = "count", NEW p \in there \ pulled
               PROVE  /\ p \in Matching(walk)'
                      /\ \/ \E i \in 1..Len(seen') : seen'[i] = p
                         \/ (page' - 1) * PageSize < Cardinality(UpTo(walk, p)')
    BY <1>3, <2>2 DEF GrowingWalk
  <2> QED
    BY <1>14, <2>1
<1>16. NothingSkipped'
  <2> SUFFICES ASSUME ~torn, stage' = "done", walk.order = "default", NEW p \in there \ pulled
               PROVE  p \in { seen'[i] : i \in DOMAIN seen' }
    BY <1>3 DEF NothingSkipped
  <2>1. \E i \in 1..Len(seen') : seen'[i] = p
    BY <1>14
  <2>2. DOMAIN seen' = 1..Len(seen')
    BY <1>10
  <2> QED
    BY <2>1, <2>2
<1> QED
  BY <1>11, <1>12, <1>13, <1>15, <1>16 DEF ListingInv

LEMMA CountSectionStep ==
    ASSUME ListingInv, CountSection
    PROVE  ListingInv'
<1>1. ListingTypeOK /\ QuietWalk /\ GrowingWalk /\ NothingSkipped /\ SectionInv
  BY DEF ListingInv
<1> DEFINE found == Matching(Everything)
<1>2. /\ section.stage = "idle"
      /\ UNCHANGED <<clock, created, state, scope>> /\ UNCHANGED <<state, scope, walkVars>>
      /\ section' = [section EXCEPT !.stage = "fetch", !.count = Cardinality(found),
                                    !.counted = found]
  BY DEF CountSection, rowVars
<1>3. /\ found \subseteq Ids /\ Cardinality(found) \in Nat
      /\ \A p \in found : created[p] # Null
  <2>1. found \subseteq Ids
    BY <1>1, Matches
  <2>2. \A p \in found : created[p] # Null
    BY <1>1, MatchingRows, ListingAssumption DEF ListingAssumption
  <2> QED
    BY <2>1, <2>2, Countable
<1>4. section \in [stage : {"idle", "fetch", "done"}, count : Nat,
                   counted : SUBSET Ids, gone : SUBSET Ids, results : Seq(Ids)]
  BY <1>1 DEF ListingTypeOK
<1> HIDE DEF found
<1>5. /\ section'.stage = "fetch" /\ section'.count = Cardinality(found)
      /\ section'.counted = found /\ section'.results = section.results
      /\ section' \in [stage : {"idle", "fetch", "done"}, count : Nat,
                       counted : SUBSET Ids, gone : SUBSET Ids, results : Seq(Ids)]
  BY <1>2, <1>3, <1>4
<1>6. ListingTypeOK'
  BY <1>1, <1>2, <1>5 DEF ListingTypeOK, walkVars, pageVars
<1>7. SectionCoversCount'
  BY <1>5 DEF SectionCoversCount
<1>8. SectionInv'
  BY <1>1, <1>2, <1>3, <1>5, <1>7 DEF SectionInv
<1>9. QuietWalk' /\ GrowingWalk' /\ NothingSkipped'
  BY <1>1, <1>2, WalkStays DEF Dated
<1> QED
  BY <1>6, <1>8, <1>9 DEF ListingInv

(* The first rows of a listing, up to the cap: no policy counted before and *)
(* still there is left out of them but behind as many as the cap allows.    *)
LEMMA FetchSectionStep ==
    ASSUME ListingInv, FetchSection
    PROVE  ListingInv'
<1>1. ListingTypeOK /\ QuietWalk /\ GrowingWalk /\ NothingSkipped /\ SectionInv
  BY DEF ListingInv
<1> DEFINE left == section.counted \ Matching(Everything)
<1>2. PICK rows \in Listings(Everything) :
        section' = [section EXCEPT !.stage = "done", !.results = Capped(rows), !.gone = left]
  BY DEF FetchSection
<1>3. UNCHANGED <<clock, created, state, scope>> /\ UNCHANGED <<state, scope, walkVars>>
  BY DEF FetchSection, rowVars
<1>4. /\ rows \in Seq(Ids) /\ Len(rows) = Cardinality(Matching(Everything)) /\ Len(rows) \in Nat
      /\ \A i \in 1..Len(rows) : rows[i] \in Matching(Everything)
      /\ \A i, j \in 1..Len(rows) : rows[i] = rows[j] => i = j
      /\ \A p \in Matching(Everything) : \E i \in 1..Len(rows) : rows[i] = p
      /\ \A i, j \in 1..Len(rows) : i < j => ~Precedes(Everything, rows[j], rows[i])
  BY <1>1, ListingRows
<1>5. Limit \in Nat
  BY ListingAssumption DEF ListingAssumption
<1> DEFINE shown == Capped(rows)
           most == IF Len(rows) < Limit THEN Len(rows) ELSE Limit
<1>6. most \in Nat /\ most <= Len(rows) /\ shown = SubSeq(rows, 0 + 1, most)
  BY <1>4, <1>5 DEF Capped
<1> HIDE DEF shown
<1>7. /\ shown \in Seq(Ids) /\ Len(shown) = most
      /\ \A i \in 1..most : shown[i] = rows[i]
  <2>1. /\ shown \in Seq(Ids) /\ Len(shown) = IF 0 < most THEN most - 0 ELSE 0
        /\ \A i \in 1..(most - 0) : shown[i] = rows[0 + i]
    <3> HIDE DEF most
    <3> QED
      BY <1>4, <1>6, CutRows
  <2>2. most - 0 = most /\ (~(0 < most) => most = 0) /\ \A i \in 1..most : 0 + i = i
    BY <1>6
  <2> HIDE DEF most
  <2> QED
    BY <2>1, <2>2
<1>8. section \in [stage : {"idle", "fetch", "done"}, count : Nat,
                   counted : SUBSET Ids, gone : SUBSET Ids, results : Seq(Ids)]
  BY <1>1 DEF ListingTypeOK
<1>9. left \subseteq section.counted /\ left \subseteq Ids
  BY <1>8
<1> HIDE DEF left
<1>10. /\ section'.stage = "done" /\ section'.count = section.count
       /\ section'.counted = section.counted /\ section'.results = shown
       /\ section'.gone = left
       /\ section' \in [stage : {"idle", "fetch", "done"}, count : Nat,
                        counted : SUBSET Ids, gone : SUBSET Ids, results : Seq(Ids)]
  BY <1>2, <1>7, <1>8, <1>9 DEF shown
<1>11. ListingTypeOK'
  BY <1>1, <1>3, <1>10 DEF ListingTypeOK, walkVars, pageVars
<1>12. \A p, q : Precedes(Everything, p, q)' = Precedes(Everything, p, q)
  BY <1>3 DEF Precedes
<1>13. /\ section.count = Cardinality(section.counted) /\ section.count \in Nat
       /\ section.counted \subseteq Ids
  BY <1>1, <1>8 DEF SectionInv
<1>14. section.count - Cardinality(left) <= Len(rows) /\ Cardinality(left) \in Nat
  <2> DEFINE M == Matching(Everything)
             kept == section.counted \cap M
  <2>1. M \subseteq Ids /\ kept \subseteq M /\ kept \subseteq Ids
    BY <1>1, Matches
  <2>2. IsFiniteSet(section.counted)
    BY <1>13, Countable
  <2>3. Cardinality(left) = section.count - Cardinality(kept)
    BY <1>13, <2>2, FS_Difference DEF left
  <2> HIDE DEF M, kept
  <2>4. /\ Cardinality(kept) <= Cardinality(M)
        /\ Cardinality(kept) \in Nat /\ Cardinality(left) \in Nat
    BY <1>9, <2>1, CountedMore, Countable
  <2>5. Len(rows) = Cardinality(M)
    BY <1>4 DEF M
  <2> QED
    BY <1>4, <1>13, <2>3, <2>4, <2>5
<1>15. /\ Len(shown) <= Limit
       /\ Len(shown) >= section.count - Cardinality(left) \/ Len(shown) = Limit
  BY <1>4, <1>5, <1>7, <1>13, <1>14
<1>16. ASSUME NEW p \in section.counted, p \notin { shown[i] : i \in 1..most }, p \notin left
       PROVE  most = Limit /\ \A i \in 1..most : Precedes(Everything, shown[i], p)
  <2>1. PICK j \in 1..Len(rows) : rows[j] = p
    BY <1>4, <1>16 DEF left
  <2>2. ~(j <= most)
    BY <1>6, <1>7, <1>16, <2>1
  <2>3. most = Limit
    BY <1>4, <1>5, <2>1, <2>2
  <2>4. ASSUME NEW i \in 1..most PROVE Precedes(Everything, shown[i], p)
    <3>1. i \in 1..Len(rows) /\ i < j /\ shown[i] = rows[i]
      BY <1>4, <1>6, <1>7, <2>1, <2>2
    <3>2. rows[i] # rows[j] /\ ~Precedes(Everything, rows[j], rows[i])
      BY <1>4, <2>1, <3>1
    <3>3. rows[i] \in Matching(Everything) /\ rows[j] \in Matching(Everything)
      BY <1>4, <2>1, <3>1
    <3> QED
      BY <1>1, <2>1, <3>1, <3>2, <3>3, DefaultIsTotal DEF Everything
  <2> QED
    BY <2>3, <2>4
<1> HIDE DEF most
<1>17. DOMAIN shown = 1..most
  BY <1>7
<1>18. SectionCoversCount'
  BY <1>7, <1>10, <1>12, <1>15, <1>16, <1>17 DEF SectionCoversCount
<1>19. \A i \in 1..Len(shown) : created[shown[i]] # Null
  <2>1. \A p \in Matching(Everything) : created[p] # Null
    BY <1>1, MatchingRows, ListingAssumption DEF ListingAssumption
  <2> QED
    BY <1>4, <1>6, <1>7, <2>1
<1>20. SectionInv'
  BY <1>1, <1>3, <1>10, <1>18, <1>19 DEF SectionInv
<1>21. QuietWalk' /\ GrowingWalk' /\ NothingSkipped'
  BY <1>1, <1>3, WalkStays DEF Dated
<1> QED
  BY <1>11, <1>20, <1>21 DEF ListingInv

LEMMA InitListing == Init => ListingInv
<1> SUFFICES ASSUME Init PROVE ListingInv
  OBVIOUS
<1>1. /\ clock = 0 /\ created = [p \in Ids |-> Null] /\ state = [p \in Ids |-> Null]
      /\ scope = {} /\ stage = "idle" /\ page = 0 /\ count = 0 /\ seen = << >> /\ there = {}
      /\ quiet = TRUE /\ torn = FALSE /\ pulled = {} /\ section = NoSection
  BY DEF Init
<1>2. << >> \in Seq(Ids) /\ Len(<< >>) = 0
  OBVIOUS
<1>3. ListingTypeOK
  BY <1>1, <1>2 DEF ListingTypeOK, NoSection
<1>4. SectionInv
  BY <1>1, <1>2, FS_EmptySet DEF SectionInv, SectionCoversCount, NoSection
<1> QED
  BY <1>1, <1>3, <1>4 DEF ListingInv, QuietWalk, GrowingWalk, NothingSkipped

(* A write that leaves the dates alone, and gives a state only to a row that *)
(* has one, keeps the types.                                                 *)
LEMMA WrittenTypes ==
    ASSUME ListingTypeOK, Written, UNCHANGED created,
           state' \in [Ids -> States \cup {Null, "deleted"}], scope' \subseteq Ids,
           \A p \in Ids : state'[p] # Null => created[p] # Null
    PROVE  ListingTypeOK'
<1>1. /\ UNCHANGED <<clock, walk, stage, page, count, seen, there, section>>
      /\ quiet' = FALSE /\ torn' \in BOOLEAN
  BY DEF Written, pageVars, ListingTypeOK
<1>2. pulled' \subseteq there
  BY DEF Written, ListingTypeOK
<1> QED
  BY <1>1, <1>2 DEF ListingTypeOK

LEMMA NextListing == ListingInv /\ [Next]_vars => ListingInv'
<1> SUFFICES ASSUME ListingInv, [Next]_vars PROVE ListingInv'
  OBVIOUS
<1>1. ListingTypeOK
  BY DEF ListingInv
<1>2. CASE Tick
  <2>1. ListingTypeOK'
    BY <1>1, <1>2 DEF ListingTypeOK, Tick, rowVars, walkVars, pageVars
  <2> QED
    BY <1>2, <2>1, RowStep DEF Tick, rowVars, Dated
<1>3. ASSUME NEW p \in Ids, Insert(p) PROVE ListingInv'
  <2>1. /\ created[p] = Null /\ created' = [created EXCEPT ![p] = clock]
        /\ UNCHANGED <<clock, state, scope, walkVars, section>>
    BY <1>3 DEF Insert
  <2>2. ListingTypeOK'
    BY <1>1, <2>1, ListingAssumption DEF ListingTypeOK, walkVars, pageVars, ListingAssumption
  <2>3. Dated
    BY <1>1, <2>1 DEF ListingTypeOK, Dated
  <2> QED
    BY <2>1, <2>2, <2>3, RowStep
<1>4. ASSUME NEW p \in Ids, Appear(p) PROVE ListingInv'
  <2>1. /\ created[p] # Null /\ UNCHANGED created /\ Written
        /\ scope' \in {scope, scope \cup {p}}
    BY <1>4 DEF Appear
  <2>2. PICK st \in States : state' = [state EXCEPT ![p] = st]
    BY <1>4 DEF Appear, States
  <2>3. ListingTypeOK'
    BY <1>1, <2>1, <2>2, WrittenTypes DEF ListingTypeOK
  <2> QED
    BY <2>1, <2>3, WrittenStep
<1>5. ASSUME NEW p \in Ids, Move(p) PROVE ListingInv'
  <2>1. UNCHANGED <<created, scope>> /\ Written /\ state[p] # Null
    BY <1>5, ListingAssumption DEF Move, States, ListingAssumption
  <2>2. PICK st \in States : state' = [state EXCEPT ![p] = st]
    BY <1>5 DEF Move, States
  <2>3. ListingTypeOK'
    BY <1>1, <2>1, <2>2, WrittenTypes DEF ListingTypeOK
  <2> QED
    BY <2>1, <2>3, WrittenStep
<1>6. ASSUME NEW p \in Ids, Delete(p) PROVE ListingInv'
  <2>1. /\ UNCHANGED <<created, scope>> /\ Written /\ state[p] # Null
        /\ state' = [state EXCEPT ![p] = "deleted"]
    BY <1>6, ListingAssumption DEF Delete, States, ListingAssumption
  <2>2. ListingTypeOK'
    BY <1>1, <2>1, WrittenTypes DEF ListingTypeOK
  <2> QED
    BY <2>1, <2>2, WrittenStep
<1>7. CASE Rescope
  <2>1. UNCHANGED <<created, state>> /\ Written /\ scope' \subseteq Ids
    BY <1>7 DEF Rescope
  <2>2. ListingTypeOK'
    BY <1>1, <2>1, WrittenTypes DEF ListingTypeOK
  <2> QED
    BY <2>1, <2>2, WrittenStep
<1>8. CASE Begin
  BY <1>8, BeginStep
<1>9. CASE Count
  BY <1>9, CountStep
<1>10. CASE Fetch
  BY <1>10, FetchStep
<1>11. CASE CountSection
  BY <1>11, CountSectionStep
<1>12. CASE FetchSection
  BY <1>12, FetchSectionStep
<1>13. CASE UNCHANGED vars
  <2>1. ListingTypeOK'
    BY <1>1, <1>13 DEF ListingTypeOK, vars, rowVars, walkVars, pageVars
  <2> QED
    BY <1>13, <2>1, RowStep DEF vars, rowVars, Dated
<1> QED
  BY <1>2, <1>3, <1>4, <1>5, <1>6, <1>7, <1>8, <1>9, <1>10, <1>11, <1>12, <1>13 DEF Next
-----------------------------------------------------------------------------
(* The properties. *)

(* What the pages shown so far have got to, over rows nobody writes to and  *)
(* over rows others add, move, delete and hand over: the invariant of a     *)
(* walk, for any number of policies, any page size and any cap.             *)
THEOREM ListingInvHolds == Spec => []ListingInv
<1>1. Init => ListingInv
  BY InitListing
<1>2. ListingInv /\ [Next]_vars => ListingInv'
  BY NextListing
<1> QED
  BY <1>1, <1>2, PTL DEF Spec

(* A walk that nobody's write disturbs shows as many policies as match, in  *)
(* the order asked for, and in the default order each of them.              *)
THEOREM WalksAreOrdered == Spec => []ConsistentlyOrdered
<1>1. ListingInv => ConsistentlyOrdered
  <2> SUFFICES ASSUME ListingInv, stage = "done", quiet
               PROVE  /\ Len(seen) = Cardinality(there)
                      /\ \A i, j \in DOMAIN seen : i < j => ~Precedes(walk, seen[j], seen[i])
                      /\ walk.order = "default" => { seen[i] : i \in DOMAIN seen } = there
    BY DEF ConsistentlyOrdered
  <2>1. ListingTypeOK /\ seen \in Seq(Ids)
    BY DEF ListingInv, ListingTypeOK
  <2>2. /\ there = Matching(walk) /\ Len(seen) = Cardinality(there)
        /\ \A i \in 1..Len(seen) : MayStand(walk, seen[i], i)
    BY DEF ListingInv, QuietWalk
  <2>3. DOMAIN seen = 1..Len(seen) /\ Len(seen) \in Nat
    BY <2>1
  <2>4. \A i, j \in 1..Len(seen) : i < j => ~Precedes(walk, seen[j], seen[i])
    <3> TAKE i, j \in 1..Len(seen)
    <3> HAVE i < j
    <3> QED
      BY <2>1, <2>2, <2>3, PlacesAreOrdered
  <2>5. ASSUME walk.order = "default" PROVE { seen[i] : i \in 1..Len(seen) } = there
    <3> DEFINE shown == { seen[i] : i \in 1..Len(seen) }
    <3>1. ASSUME NEW i \in 1..Len(seen)
          PROVE  seen[i] \in there /\ i = Cardinality(UpTo(walk, seen[i]))
      <4>1. seen[i] \in Matching(walk) /\ i \in Nat /\ MayStand(walk, seen[i], i)
        BY <2>2, <2>3 DEF MayStand
      <4>2. /\ Cardinality(UpTo(walk, seen[i])) = Cardinality(Ahead(walk, seen[i])) + 1
            /\ Cardinality(UpTo(walk, seen[i])) \in Nat
            /\ Cardinality(Ahead(walk, seen[i])) \in Nat
        BY <2>1, <2>5, <4>1, OnePlace
      <4> QED
        BY <2>2, <4>1, <4>2 DEF MayStand
    <3>2. \A i, j \in 1..Len(seen) : seen[i] = seen[j] => i = j
      BY <3>1
    <3>3. /\ \A i \in 1..Len(seen) : seen[i] \in shown
          /\ \A p \in shown : \E i \in 1..Len(seen) : seen[i] = p
      OBVIOUS
    <3>4. shown \subseteq there
      BY <3>1
    <3> HIDE DEF shown
    <3>5. Cardinality(shown) = Len(seen)
      BY <2>3, <3>2, <3>3, AsManyAsPlaces
    <3>6. IsFiniteSet(there)
      BY <2>1, <2>2, Matches, Countable
    <3>7. shown = there
      BY <2>2, <3>4, <3>5, <3>6, FS_Subset
    <3> QED
      BY <3>7 DEF shown
  <2> QED
    BY <2>2, <2>3, <2>4, <2>5
<1> QED
  BY <1>1, ListingInvHolds, PTL

(* A walk in the default order, filtered or not, shows each policy it began *)
(* with, whatever others add, move, delete and hand over meanwhile, unless   *)
(* that policy or one listed before it left the query, or one came to match  *)
(* between the COUNT and the slice of a page.                                *)
THEOREM WalksSkipNothing == Spec => []NothingSkipped
<1>1. ListingInv => NothingSkipped
  BY DEF ListingInv
<1> QED
  BY <1>1, ListingInvHolds, PTL

(* The results of a section are as many as its count says, less what of it  *)
(* has gone, or as the cap allows, and leave out a counted policy that has   *)
(* not gone only behind as many newer ones.                                  *)
THEOREM SectionsCoverTheirCount == Spec => []SectionCoversCount
<1>1. ListingInv => SectionCoversCount
  BY DEF ListingInv, SectionInv
<1> QED
  BY <1>1, ListingInvHolds, PTL
=============================================================================
