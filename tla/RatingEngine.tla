---------------------------- MODULE RatingEngine ----------------------------
(***************************************************************************)
(* The rating engine of src/apps/products: which rule of a product prices  *)
(* an age on a day (rating.py), what it charges, and what the validation   *)
(* of a rule (models.py) holds against its neighbours.  Days are numbers;  *)
(* a rule without valid_to has Null there.  Money is in cents, and Scale   *)
(* is the product of the denominators of the rate per 1000 and the loading *)
(* factor (the code's is 1000 * 10^4 * 10^4).                              *)
(***************************************************************************)
EXTENDS Integers, FiniteSets

CONSTANTS Null, Scale

ASSUME EngineAssumption == Null \notin Nat /\ Scale \in Nat \ {0}

Rule == [min : Nat, max : Nat, from : Nat, to : Nat \cup {Null}, active : BOOLEAN,
         rate : Nat, loading : Nat, floor : Nat]

\* A bug: the upper end of a band is left out.
CoversAgeBelow(r, age) == r.min <= age /\ age < r.max

CoversAge(r, age) == r.min <= age /\ age <= r.max

EffectiveOn(r, day) == r.from <= day /\ (r.to = Null \/ day <= r.to)

Candidates(rules, age, day) ==
    { r \in rules : r.active /\ CoversAge(r, age) /\ EffectiveOn(r, day) }

(* The rules select_rule may return: max keeps the first of the newest in   *)
(* the order the table gives them, lower bands first; none is Python's None.*)
SelectRule(rules, age, day) ==
    LET found == Candidates(rules, age, day)
    IN { r \in found : \A s \in found : s.from < r.from \/ (s.from = r.from /\ r.min <= s.min) }

AgeRangesOverlap(r, s) == ~ (r.max < s.min \/ s.max < r.min)

\* A bug: windows that share only a last day are taken for disjoint.
WindowsOverlapStrict(r, s) ==
    (s.to = Null \/ r.from < s.to) /\ (r.to = Null \/ s.from < r.to)

WindowsOverlap(r, s) ==
    (s.to = Null \/ r.from <= s.to) /\ (r.to = Null \/ s.from <= r.to)

Overlap(r, s) == AgeRangesOverlap(r, s) /\ WindowsOverlap(r, s)

(* RatingRule.clean of r against the other rules of its product.            *)
Clean(r, others) ==
    /\ r.min <= r.max
    /\ r.active => \A s \in others : s.active => ~Overlap(r, s)

\* ROUND_HALF_UP of n / Scale.
Round(n) == (2 * n + Scale) \div (2 * Scale)

\* A bug: the minimum premium is forgotten.
PremiumNoFloor(r, cover) == Round(cover * r.rate * r.loading)

(* What calculate_premium charges by rule r, at least its floor.            *)
Premium(r, cover) ==
    LET premium == Round(cover * r.rate * r.loading)
    IN IF premium < r.floor THEN r.floor ELSE premium

Product == [active : BOOLEAN, minAge : Nat, maxAge : Nat, minCover : Nat, maxCover : Nat]

\* The guards of calculate_premium that look only at the product.
Eligible(product, age, cover) ==
    /\ product.active
    /\ product.minAge <= age /\ age <= product.maxAge
    /\ product.minCover <= cover /\ cover <= product.maxCover
=============================================================================
