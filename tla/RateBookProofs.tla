--------------------------- MODULE RateBookProofs ---------------------------
(***************************************************************************)
(* Theorems about the rating rules, for any number of editors and of rows  *)
(* on a page: when active rules come to overlap, and which quotes are      *)
(* explained by the rule they name.                                        *)
(***************************************************************************)
EXTENDS RateBook, FiniteSetTheorems, TLAPS

(* Two active rules that price the same age on the same day overlap.        *)
LEMMA SharedAgeAndDay ==
    ASSUME NEW r \in Rule, NEW s \in Rule, NEW age \in Nat, NEW day \in Nat,
           CoversAge(r, age), CoversAge(s, age), EffectiveOn(r, day), EffectiveOn(s, day)
    PROVE  Overlap(r, s)
<1>1. AgeRangesOverlap(r, s)
  BY DEF CoversAge, AgeRangesOverlap, Rule
<1>2. WindowsOverlap(r, s)
  <2>1. s.to = Null \/ r.from <= s.to
    BY EngineAssumption DEF EffectiveOn, Rule
  <2>2. r.to = Null \/ s.from <= r.to
    BY EngineAssumption DEF EffectiveOn, Rule
  <2> QED BY <2>1, <2>2 DEF WindowsOverlap
<1> QED BY <1>1, <1>2 DEF Overlap

(* The comment at rating.py:60: where validation holds, at most one rule of *)
(* a product prices an age on a day, so "newest wins" never decides.        *)
THEOREM AtMostOneRule ==
    ASSUME NEW table \in SUBSET Rule,
           \A r, s \in table : r # s /\ r.active /\ s.active => ~Overlap(r, s),
           NEW age \in Nat, NEW day \in Nat,
           NEW r \in Candidates(table, age, day), NEW s \in Candidates(table, age, day)
    PROVE  r = s
BY SharedAgeAndDay DEF Candidates

(* ROUND_HALF_UP: the rounded price is off by half a unit at most, and what *)
(* lies half way is rounded up.                                             *)
THEOREM RoundIsNearest ==
    ASSUME NEW n \in Nat
    PROVE  /\ Round(n) \in Nat
           /\ 2 * Round(n) * Scale - Scale <= 2 * n
           /\ 2 * n < 2 * Round(n) * Scale + Scale
<1> DEFINE a == 2 * n + Scale
           d == 2 * Scale
           k == a \div d
           m == a % d
<1>1. a \in Nat /\ d \in Nat /\ d > 0
  BY EngineAssumption
<1> HIDE DEF a, d
<1>2. k \in Int /\ m \in Nat /\ m < d /\ a = d * k + m
  BY <1>1, Z3
<1> HIDE DEF m, k
<1>3. k \in Nat
  <2>1. SUFFICES ASSUME k <= -1 PROVE FALSE
    BY <1>2
  <2>2. d * k <= d * (-1)
    BY <1>1, <1>2, <2>1, Z3
  <2> QED BY <1>1, <1>2, <2>2, Z3
<1>4. Round(n) = k
  BY DEF Round, k, a, d
<1>5. d * k = 2 * (k * Scale) /\ 2 * k * Scale = 2 * (k * Scale) /\ k * Scale \in Int
  BY EngineAssumption, <1>2, Z3 DEF d
<1>6. 2 * n + Scale = 2 * (k * Scale) + m
  BY <1>2, <1>5 DEF a
<1>7. m < 2 * Scale
  BY <1>2 DEF d
<1> QED
  BY <1>2, <1>3, <1>4, <1>5, <1>6, <1>7, EngineAssumption

-----------------------------------------------------------------------------
(* Pages and the table. *)

LEMMA PagesRows ==
    ASSUME NEW page \in Pages
    PROVE  DOMAIN page \subseteq RuleIds /\ \A i \in DOMAIN page : page[i] \in Shapes
  BY DEF Pages

\* Overlapping is mutual.
LEMMA OverlapSymmetric == \A r, s : Overlap(r, s) <=> Overlap(s, r)
BY DEF Overlap, AgeRangesOverlap, WindowsOverlap

\* Validation reads the rules themselves, whichever way they are listed.
LEMMA StoredMember ==
    ASSUME NEW i \in RuleIds, NEW j \in RuleIds, i # j, rules[j] # Null
    PROVE  rules[j] \in Stored(RuleIds \ {i})
BY DEF Stored

\* A rule that passes against some rules passes against fewer.
LEMMA CleanAgainstFewer ==
    ASSUME NEW r, NEW S, NEW T \in SUBSET S, Clean(r, S)
    PROVE  Clean(r, T)
  BY DEF Clean

(* A page that still passes its validation and whose rows do not overlap one *)
(* another leaves active rules apart.                                        *)
LEMMA SaveKeepsApart ==
    ASSUME TypeOK, TableNeverOverlaps, PagesFit, NEW s \in Staff \ stale, SavePage(s),
           RowsApart(form[s])
    PROVE  TableNeverOverlaps'
<1> DEFINE page == form[s]
<1>1. page \in Pages
  BY DEF SavePage, TypeOK
<1>2. rules' = [i \in RuleIds |-> IF i \in DOMAIN page THEN page[i] ELSE rules[i]]
  BY DEF SavePage
<1>3. \A i \in DOMAIN page : Clean(page[i], Stored(RuleIds \ {i}))
  BY DEF PagesFit
<1>4. RowsApart(page)
  OBVIOUS
<1> HIDE DEF page
<1> SUFFICES ASSUME NEW i \in RuleIds, NEW j \in RuleIds, i # j,
                    rules'[i] # Null, rules'[j] # Null, rules'[i].active, rules'[j].active
             PROVE  ~Overlap(rules'[i], rules'[j])
  BY <1>2 DEF TableNeverOverlaps, Overlap, AgeRangesOverlap, WindowsOverlap
<1>5. CASE i \in DOMAIN page /\ j \in DOMAIN page
  BY <1>2, <1>4, <1>5 DEF RowsApart
<1>6. CASE i \in DOMAIN page /\ j \notin DOMAIN page
  <2>1. rules'[j] = rules[j] /\ rules'[i] = page[i]
    BY <1>2, <1>6
  <2>2. rules[j] \in Stored(RuleIds \ {i})
    BY <2>1, StoredMember
  <2> QED
    BY <1>3, <1>6, <2>1, <2>2 DEF Clean
<1>7. CASE i \notin DOMAIN page /\ j \in DOMAIN page
  <2>1. rules'[i] = rules[i] /\ rules'[j] = page[j]
    BY <1>2, <1>7
  <2>2. rules[i] \in Stored(RuleIds \ {j})
    BY <2>1, StoredMember
  <2>3. ~Overlap(page[j], rules[i])
    BY <1>3, <1>7, <2>1, <2>2 DEF Clean
  <2> QED
    BY <2>1, <2>3, OverlapSymmetric
<1>8. CASE i \notin DOMAIN page /\ j \notin DOMAIN page
  BY <1>2, <1>8 DEF TableNeverOverlaps
<1> QED
  BY <1>5, <1>6, <1>7, <1>8

\* A step that saves no page leaves active rules apart.
LEMMA OthersKeepApart ==
    ASSUME TypeOK, TableNeverOverlaps, [Next]_vars, \A s \in Staff : ~SavePage(s)
    PROVE  TableNeverOverlaps'
<1>1. ASSUME rules' = rules PROVE TableNeverOverlaps'
  BY <1>1 DEF TableNeverOverlaps
<1>2. ASSUME NEW s \in Staff, DeleteRule(s) PROVE TableNeverOverlaps'
  <2>1. PICK k \in RuleIds : rules' = [rules EXCEPT ![k] = Null]
    BY <1>2 DEF DeleteRule
  <2> QED
    BY <2>1 DEF TypeOK, TableNeverOverlaps
<1>3. rules' = rules \/ \E s \in Staff : DeleteRule(s)
  BY DEF Next, vars, ValidatePage, PriceQuote, NameRule, StoreQuote
<1> QED
  BY <1>1, <1>2, <1>3

\* A page passes its validation against the table as it is, and after the step.
FitsNow(page) == \A i \in DOMAIN page : Clean(page[i], Stored(RuleIds \ {i}))
FitsThen(page) == \A i \in DOMAIN page : Clean(page[i], Stored(RuleIds \ {i})')

\* Deleting a rule leaves fewer to validate against.
LEMMA FewerToFit ==
    ASSUME \A i \in RuleIds : rules'[i] = rules[i] \/ rules'[i] = Null,
           NEW page, FitsNow(page)
    PROVE  FitsThen(page)
<1> SUFFICES ASSUME NEW i \in DOMAIN page
             PROVE  Clean(page[i], Stored(RuleIds \ {i})')
  BY DEF FitsThen
<1>1. Stored(RuleIds \ {i})' \subseteq Stored(RuleIds \ {i})
  BY DEF Stored
<1>2. Clean(page[i], Stored(RuleIds \ {i}))
  BY DEF FitsNow
<1> QED
  BY <1>1, <1>2, CleanAgainstFewer

\* The pages that no save has overtaken still pass.
LEMMA PagesFitStep ==
    ASSUME TypeOK, PagesFit, [Next]_vars
    PROVE  PagesFit'
<1>1. \A s \in Staff \ stale : FitsNow(form[s])
  BY DEF PagesFit, FitsNow
<1>2. SUFFICES \A u \in Staff \ stale' : FitsThen(form'[u])
  BY DEF PagesFit, FitsThen, Clean
<1>3. ASSUME NEW s \in Staff, ValidatePage(s), NEW u \in Staff \ stale' PROVE FitsThen(form'[u])
  <2>1. PICK page \in Pages : FitsNow(page) /\ form' = [form EXCEPT ![s] = page]
    BY <1>3 DEF ValidatePage, FitsNow
  <2>2. rules' = rules /\ stale' = stale
    BY <1>3 DEF ValidatePage
  <2>3. FitsNow(form'[u])
    BY <1>1, <1>3, <2>1, <2>2 DEF TypeOK
  <2> QED
    BY <2>2, <2>3, FewerToFit
<1>4. ASSUME NEW s \in Staff, SavePage(s), NEW u \in Staff \ stale' PROVE FitsThen(form'[u])
  <2>1. form'[u] = << >>
    BY <1>4 DEF SavePage, TypeOK
  <2> QED
    BY <2>1 DEF FitsThen
<1>5. ASSUME form' = form, stale' = stale,
             \A i \in RuleIds : rules'[i] = rules[i] \/ rules'[i] = Null,
             NEW u \in Staff \ stale'
      PROVE  FitsThen(form'[u])
  BY <1>1, <1>5, FewerToFit
<1>6. ASSUME NEW s \in Staff, DeleteRule(s)
      PROVE  form' = form /\ stale' = stale
             /\ \A i \in RuleIds : rules'[i] = rules[i] \/ rules'[i] = Null
  BY <1>6 DEF DeleteRule, TypeOK
<1>7. ASSUME NEW q \in Quotes, PriceQuote(q) \/ NameRule(q) \/ StoreQuote(q)
      PROVE  form' = form /\ stale' = stale /\ rules' = rules
  BY <1>7 DEF PriceQuote, NameRule, StoreQuote
<1>8. CASE UNCHANGED vars
  BY <1>5, <1>8 DEF vars
<1> QED
  BY <1>3, <1>4, <1>5, <1>6, <1>7, <1>8 DEF Next

\* What a price is made of is a natural number.
LEMMA PremiumNat ==
    ASSUME NEW r \in Rule, NEW cover \in Nat
    PROVE  Premium(r, cover) \in Nat
<1>1. cover * r.rate * r.loading \in Nat
  BY DEF Rule
<1>2. r.floor \in Nat
  BY DEF Rule
<1> QED BY <1>1, <1>2, RoundIsNearest DEF Premium

LEMMA SelectedRules ==
    ASSUME TypeOK, NEW age, NEW day, NEW r \in SelectRule(Stored(RuleIds), age, day)
    PROVE  /\ r \in Rule /\ r.active /\ CoversAge(r, age) /\ EffectiveOn(r, day)
           /\ \E i \in RuleIds : rules[i] # Null /\ rules[i] = r
BY BookAssumption DEF SelectRule, Candidates, Stored, TypeOK

LEMMA TypeStep ==
    ASSUME TypeOK, [Next]_vars
    PROVE  TypeOK'
<1>1. ASSUME NEW s \in Staff, ValidatePage(s) PROVE TypeOK'
  BY <1>1 DEF ValidatePage, TypeOK
<1>2. ASSUME NEW s \in Staff, SavePage(s) PROVE TypeOK'
  <2>1. form[s] \in Pages
    BY <1>2 DEF SavePage, TypeOK
  <2>2. \A i \in DOMAIN form[s] : form[s][i] \in Shapes
    BY <2>1, PagesRows
  <2>3. rules' \in [RuleIds -> Shapes \cup {Null}] /\ form' \in [Staff -> Pages \cup {<< >>}]
    BY <1>2, <2>2 DEF SavePage, TypeOK
  <2>4. stale' \subseteq Staff /\ disturbed' \subseteq Quotes /\ clashed' \subseteq Quotes
    BY <1>2 DEF SavePage, Disturb, TypeOK
  <2> QED
    BY <1>2, <2>3, <2>4 DEF SavePage, TypeOK
<1>3. ASSUME NEW s \in Staff, DeleteRule(s) PROVE TypeOK'
  <2>1. PICK k \in RuleIds :
          /\ rules' = [rules EXCEPT ![k] = Null]
          /\ quote' = [q \in Quotes |-> IF quote[q].step = "made" /\ quote[q].rule = k
                                        THEN [quote[q] EXCEPT !.rule = Null] ELSE quote[q]]
          /\ Disturb({k})
    BY <1>3 DEF DeleteRule
  <2>2. UNCHANGED <<form, stale, clashed>>
    BY <1>3 DEF DeleteRule
  <2>3. quote' \in [Quotes -> Quote]
    BY <2>1, SMTT(30) DEF TypeOK, Quote
  <2> QED
    BY <2>1, <2>2, <2>3 DEF TypeOK, Disturb
<1>4. ASSUME NEW q \in Quotes, PriceQuote(q) PROVE TypeOK'
  <2>1. PICK age \in Ages, day \in Days :
          \E r \in SelectRule(Stored(RuleIds), age, day) :
            quote' = [quote EXCEPT ![q] = [step |-> "priced", age |-> age, day |-> day,
                                           premium |-> Premium(r, Cover), rule |-> Null]]
    BY <1>4 DEF PriceQuote
  <2>2. PICK r \in SelectRule(Stored(RuleIds), age, day) :
          quote' = [quote EXCEPT ![q] = [step |-> "priced", age |-> age, day |-> day,
                                         premium |-> Premium(r, Cover), rule |-> Null]]
    BY <2>1
  <2>3. Premium(r, Cover) \in Nat
    BY <2>2, SelectedRules, PremiumNat, BookAssumption DEF BookAssumption
  <2>4. quote' \in [Quotes -> Quote]
    BY <2>2, <2>3, BookAssumption DEF TypeOK, Quote, BookAssumption
  <2> QED
    BY <1>4, <2>4 DEF PriceQuote, TypeOK
<1>5. ASSUME NEW q \in Quotes, NameRule(q) PROVE TypeOK'
  <2>1. PICK i \in RuleIds \cup {Null} :
          quote' = [quote EXCEPT ![q].step = "named", ![q].rule = i]
    BY <1>5 DEF NameRule
  <2>2. quote' \in [Quotes -> Quote]
    BY <2>1, ZenonT(40) DEF TypeOK, Quote
  <2> QED
    BY <1>5, <2>2 DEF NameRule, TypeOK
<1>6. ASSUME NEW q \in Quotes, StoreQuote(q) PROVE TypeOK'
  <2>1. \/ quote' = [quote EXCEPT ![q].step = "made"]
        \/ quote' = [quote EXCEPT ![q] = NoQuote]
    BY <1>6 DEF StoreQuote, TypeOK
  <2>2. quote' \in [Quotes -> Quote]
    <3>1. NoQuote \in Quote
      BY DEF NoQuote, Quote
    <3>2. \A x \in Quote : [x EXCEPT !.step = "made"] \in Quote
      BY DEF Quote
    <3> QED
      BY <2>1, <3>1, <3>2 DEF TypeOK
  <2> QED
    BY <1>6, <2>2 DEF StoreQuote, TypeOK
<1>7. CASE UNCHANGED vars
  BY <1>7 DEF vars, TypeOK
<1> QED
  BY <1>1, <1>2, <1>3, <1>4, <1>5, <1>6, <1>7 DEF Next

-----------------------------------------------------------------------------
(* Quotes. *)

(* An edit either leaves the rule that prices a quote as it is, or is       *)
(* remembered for that quote.                                               *)
LEMMA UndisturbedRuleStays ==
    ASSUME TypeOK, [Next]_vars, NEW q \in Quotes, q \notin disturbed', quote[q].step # "none",
           NEW i \in RuleIds, Prices(i, q)
    PROVE  rules'[i] = rules[i]
<1>1. ASSUME NEW s \in Staff, SavePage(s) PROVE rules'[i] = rules[i]
  <2>1. i \notin DOMAIN form[s]
    BY <1>1 DEF SavePage, Disturb
  <2> QED
    BY <1>1, <2>1 DEF SavePage
<1>2. ASSUME NEW s \in Staff, DeleteRule(s) PROVE rules'[i] = rules[i]
  <2>1. PICK k \in RuleIds : rules' = [rules EXCEPT ![k] = Null] /\ Disturb({k})
    BY <1>2 DEF DeleteRule
  <2>2. k # i
    BY <2>1 DEF Disturb
  <2> QED
    BY <2>1, <2>2 DEF TypeOK
<1>3. \/ rules' = rules
      \/ \E s \in Staff : SavePage(s) \/ DeleteRule(s)
  BY DEF Next, vars, ValidatePage, PriceQuote, NameRule, StoreQuote
<1> QED
  BY <1>1, <1>2, <1>3

\* What has been held against a quote under way is not forgotten.
LEMMA HeldAgainst ==
    ASSUME [Next]_vars, NEW q \in Quotes, quote[q].step # "none"
    PROVE  (q \in disturbed => q \in disturbed') /\ (q \in clashed => q \in clashed')
<1>1. ASSUME NEW p \in Quotes, PriceQuote(p)
      PROVE  (q \in disturbed => q \in disturbed') /\ (q \in clashed => q \in clashed')
  BY <1>1 DEF PriceQuote
<1>2. ASSUME NEW s \in Staff, SavePage(s)
      PROVE  (q \in disturbed => q \in disturbed') /\ (q \in clashed => q \in clashed')
  BY <1>2 DEF SavePage, Disturb
<1>3. ASSUME NEW s \in Staff, DeleteRule(s)
      PROVE  (q \in disturbed => q \in disturbed') /\ (q \in clashed => q \in clashed')
  BY <1>3 DEF DeleteRule, Disturb
<1>4. \/ disturbed' = disturbed /\ clashed' = clashed
      \/ \E p \in Quotes : PriceQuote(p)
      \/ \E s \in Staff : SavePage(s) \/ DeleteRule(s)
  BY DEF Next, vars, ValidatePage, NameRule, StoreQuote
<1> QED
  BY <1>1, <1>2, <1>3, <1>4

\* The second reading can only find the rule the first one found.
LEMMA SecondReadingAgrees ==
    ASSUME TypeOK, TableNeverOverlaps, NEW q \in Quotes, NEW i \in RuleIds, Prices(i, q),
           quote[q].age \in Nat, quote[q].day \in Nat
    PROVE  SelectRule(Stored(RuleIds), quote[q].age, quote[q].day) = {rules[i]}
<1> DEFINE age == quote[q].age
           day == quote[q].day
           found == Candidates(Stored(RuleIds), age, day)
<1>1. rules[i] \in Rule
  BY BookAssumption DEF TypeOK, Prices, BookAssumption
<1>2. ASSUME NEW j \in RuleIds, rules[j] # Null, rules[j].active,
             CoversAge(rules[j], age), EffectiveOn(rules[j], day)
      PROVE  j = i
  <2>1. rules[j] \in Rule
    BY <1>2, BookAssumption DEF TypeOK, BookAssumption
  <2>2. Overlap(rules[i], rules[j])
    BY <1>1, <1>2, <2>1, SharedAgeAndDay DEF Prices
  <2> QED
    BY <1>2, <2>2 DEF TableNeverOverlaps, Prices
<1>3. found = {rules[i]}
  BY <1>2 DEF Candidates, Stored, Prices
<1> QED
  BY <1>1, <1>3 DEF SelectRule, Rule

\* The claims of QuoteInv about one quote.
Stands(q) ==
    q \notin clashed =>
        /\ quote[q].step = "priced" => TableNeverOverlaps
        /\ q \notin disturbed =>
             /\ quote[q].step = "priced" =>
                  /\ quote[q].age \in Nat /\ quote[q].day \in Nat
                  /\ \E i \in RuleIds : Prices(i, q)
             /\ quote[q].step \in {"named", "made"} =>
                  quote[q].rule # Null /\ Prices(quote[q].rule, q)

LEMMA AllStand == QuoteInv <=> TypeOK /\ PagesFit /\ \A q \in Quotes : Stands(q)
  BY DEF QuoteInv, PricesStand, QuotesExplained, Stands

\* Rules are apart while an unclashed quote is between its two readings.
LEMMA ApartWhilePriced ==
    ASSUME TypeOK, [Next]_vars, NEW q \in Quotes, quote[q].step = "priced", q \notin clashed',
           TableNeverOverlaps
    PROVE  TableNeverOverlaps'
<1>1. CASE \E s \in Staff : SavePage(s)
  BY <1>1 DEF SavePage
<1>2. CASE ~ \E s \in Staff : SavePage(s)
  BY <1>2, OthersKeepApart
<1> QED
  BY <1>1, <1>2

\* What stays in the table keeps explaining what it explained.
LEMMA QuoteStands ==
    ASSUME TypeOK, NEW q \in Quotes, Stands(q), [Next]_vars, quote'[q] = quote[q]
    PROVE  Stands(q)'
<1> SUFFICES ASSUME q \notin clashed', quote[q].step # "none" PROVE Stands(q)'
  BY DEF Stands
<1>1. q \notin clashed
  BY HeldAgainst
<1>2. quote[q].step = "priced" => TableNeverOverlaps'
  BY <1>1, ApartWhilePriced DEF Stands
<1>3. ASSUME q \notin disturbed', NEW i \in RuleIds, Prices(i, q) PROVE Prices(i, q)'
  <2>1. rules'[i] = rules[i]
    BY <1>3, UndisturbedRuleStays
  <2> QED
    BY <1>3, <2>1 DEF Prices
<1>4. q \notin disturbed' => q \notin disturbed
  BY HeldAgainst
<1>5. ASSUME q \notin disturbed', quote[q].step = "priced"
      PROVE  /\ quote[q].age \in Nat /\ quote[q].day \in Nat
             /\ \E i \in RuleIds : Prices(i, q)'
  BY <1>1, <1>3, <1>4, <1>5 DEF Stands
<1>6. ASSUME q \notin disturbed', quote[q].step \in {"named", "made"}
      PROVE  quote[q].rule # Null /\ Prices(quote[q].rule, q)'
  <2>1. quote[q].rule # Null /\ Prices(quote[q].rule, q)
    BY <1>1, <1>4, <1>6 DEF Stands
  <2>2. quote[q].rule \in RuleIds
    BY <2>1 DEF TypeOK, Quote
  <2>3. PICK i \in RuleIds : i = quote[q].rule /\ Prices(i, q)'
    BY <1>3, <1>6, <2>1, <2>2
  <2> QED
    BY <2>1, <2>3 DEF Prices
<1> QED
  BY <1>2, <1>5, <1>6 DEF Stands

\* A stored quote whose rule is deleted was disturbed by it; others keep theirs.
LEMMA DeleteRuleStands ==
    ASSUME TypeOK, NEW q \in Quotes, Stands(q), [Next]_vars, NEW s \in Staff, DeleteRule(s)
    PROVE  Stands(q)'
<1>1. PICK k \in RuleIds :
        /\ quote' = [p \in Quotes |-> IF quote[p].step = "made" /\ quote[p].rule = k
                                      THEN [quote[p] EXCEPT !.rule = Null] ELSE quote[p]]
        /\ Disturb({k})
  BY DEF DeleteRule
<1>2. CASE ~(quote[q].step = "made" /\ quote[q].rule = k)
  <2>1. quote'[q] = quote[q]
    BY <1>1, <1>2
  <2> QED
    BY <2>1, QuoteStands
<1>3. CASE quote[q].step = "made" /\ quote[q].rule = k
  <2>1. quote'[q].step = "made"
    BY <1>1, <1>3 DEF TypeOK, Quote
  <2>2. q \notin clashed' => q \in disturbed'
    <3>1. ASSUME q \notin clashed', q \notin disturbed PROVE Prices(k, q)
      BY <1>3, <3>1, HeldAgainst DEF Stands
    <3>2. q \in disturbed => q \in disturbed'
      BY <1>3, HeldAgainst
    <3> QED
      BY <1>1, <1>3, <3>1, <3>2 DEF Disturb
  <2> QED
    BY <2>1, <2>2 DEF Stands
<1> QED
  BY <1>2, <1>3

LEMMA PriceQuoteStands ==
    ASSUME TypeOK, NEW q \in Quotes, PriceQuote(q)
    PROVE  Stands(q)' /\ \A p \in Quotes \ {q} : quote'[p] = quote[p]
<1>0. PICK age \in Ages, day \in Days :
        \E r \in SelectRule(Stored(RuleIds), age, day) :
          quote' = [quote EXCEPT ![q] = [step |-> "priced", age |-> age, day |-> day,
                                         premium |-> Premium(r, Cover), rule |-> Null]]
  BY DEF PriceQuote
<1>1. PICK r \in SelectRule(Stored(RuleIds), age, day) :
        quote' = [quote EXCEPT ![q] = [step |-> "priced", age |-> age, day |-> day,
                                       premium |-> Premium(r, Cover), rule |-> Null]]
  BY <1>0
<1>2. rules' = rules
  BY DEF PriceQuote
<1>3. PICK i \in RuleIds : rules[i] # Null /\ rules[i] = r
  BY <1>1, SelectedRules
<1>4. r.active /\ CoversAge(r, age) /\ EffectiveOn(r, day)
  BY <1>1, SelectedRules
<1>5. /\ quote'[q] = [step |-> "priced", age |-> age, day |-> day,
                      premium |-> Premium(r, Cover), rule |-> Null]
      /\ \A p \in Quotes \ {q} : quote'[p] = quote[p]
  BY <1>1 DEF TypeOK
<1>6. Prices(i, q)'
  BY <1>2, <1>3, <1>4, <1>5 DEF Prices
<1>7. age \in Nat /\ day \in Nat
  BY BookAssumption DEF BookAssumption
<1>8. q \notin clashed' => TableNeverOverlaps'
  BY <1>2 DEF PriceQuote, TableNeverOverlaps
<1> QED
  BY <1>5, <1>6, <1>7, <1>8 DEF Stands

LEMMA NameRuleStands ==
    ASSUME TypeOK, NEW q \in Quotes, Stands(q), NameRule(q)
    PROVE  Stands(q)' /\ \A p \in Quotes \ {q} : quote'[p] = quote[p]
<1>0. \A p \in Quotes \ {q} : quote'[p] = quote[p]
  BY DEF NameRule, TypeOK
<1>1. /\ quote[q].step = "priced" /\ rules' = rules
      /\ clashed' = clashed /\ disturbed' = disturbed
  BY DEF NameRule
<1>2. PICK i \in RuleIds \cup {Null} :
        /\ IF SelectRule(Stored(RuleIds), quote[q].age, quote[q].day) = {} THEN i = Null
           ELSE /\ i # Null /\ rules[i] # Null
                /\ rules[i] \in SelectRule(Stored(RuleIds), quote[q].age, quote[q].day)
        /\ quote' = [quote EXCEPT ![q].step = "named", ![q].rule = i]
  BY DEF NameRule
<1>3. /\ quote'[q] = [quote[q] EXCEPT !.step = "named", !.rule = i]
      /\ quote[q] \in Quote
  BY <1>2 DEF TypeOK
<1>4. /\ quote'[q].step = "named" /\ quote'[q].rule = i
      /\ quote'[q].age = quote[q].age /\ quote'[q].day = quote[q].day
      /\ quote'[q].premium = quote[q].premium
  BY <1>3 DEF Quote
<1>5. ASSUME q \notin clashed, q \notin disturbed PROVE i # Null /\ Prices(i, q)'
  <2>1. PICK k \in RuleIds : Prices(k, q)
    BY <1>1, <1>5 DEF Stands
  <2>2. SelectRule(Stored(RuleIds), quote[q].age, quote[q].day) = {rules[k]}
    BY <1>1, <1>5, <2>1, SecondReadingAgrees DEF Stands
  <2>3. i # Null /\ rules[i] # Null /\ rules[i] = rules[k]
    BY <1>2, <2>2
  <2>4. Prices(i, q)'
    BY <1>1, <1>4, <2>1, <2>3 DEF Prices
  <2> QED
    BY <2>3, <2>4
<1> QED
  BY <1>0, <1>1, <1>4, <1>5 DEF Stands, Prices

LEMMA StoreQuoteStands ==
    ASSUME TypeOK, NEW q \in Quotes, Stands(q), StoreQuote(q)
    PROVE  Stands(q)' /\ \A p \in Quotes \ {q} : quote'[p] = quote[p]
<1>1. /\ quote[q].step = "named" /\ rules' = rules
      /\ clashed' = clashed /\ disturbed' = disturbed
      /\ quote[q] \in Quote
  BY DEF StoreQuote, TypeOK
<1>2. /\ \A p \in Quotes \ {q} : quote'[p] = quote[p]
      /\ quote'[q] = [quote[q] EXCEPT !.step = "made"] \/ quote'[q] = NoQuote
  BY DEF StoreQuote, TypeOK
<1>3. CASE quote'[q] = NoQuote
  BY <1>2, <1>3 DEF Stands, NoQuote
<1>4. CASE quote'[q] = [quote[q] EXCEPT !.step = "made"]
  <2>1. /\ quote'[q].step = "made" /\ quote'[q].rule = quote[q].rule
        /\ quote'[q].age = quote[q].age /\ quote'[q].day = quote[q].day
        /\ quote'[q].premium = quote[q].premium
    BY <1>1, <1>4 DEF Quote
  <2>2. Prices(quote[q].rule, q) => Prices(quote[q].rule, q)'
    BY <1>1, <2>1 DEF Prices
  <2> QED
    BY <1>1, <1>2, <2>1, <2>2 DEF Stands, Prices
<1> QED
  BY <1>2, <1>3, <1>4

LEMMA NextQuoteInv ==
    ASSUME QuoteInv, [Next]_vars
    PROVE  QuoteInv'
<1>1. TypeOK /\ PagesFit /\ \A q \in Quotes : Stands(q)
  BY AllStand
<1>2. TypeOK' /\ PagesFit'
  BY <1>1, TypeStep, PagesFitStep
<1>3. ASSUME NEW q \in Quotes PROVE Stands(q)'
  <2>1. CASE quote' = quote
    BY <1>1, <2>1, QuoteStands
  <2>2. ASSUME NEW p \in Quotes, PriceQuote(p) \/ NameRule(p) \/ StoreQuote(p)
        PROVE  Stands(q)'
    <3>1. Stands(p)' /\ \A r \in Quotes \ {p} : quote'[r] = quote[r]
      BY <1>1, <2>2, PriceQuoteStands, NameRuleStands, StoreQuoteStands
    <3>2. CASE p = q
      BY <3>1, <3>2
    <3>3. CASE p # q
      BY <1>1, <3>1, <3>3, QuoteStands
    <3> QED
      BY <3>2, <3>3
  <2>3. ASSUME NEW s \in Staff, DeleteRule(s) PROVE Stands(q)'
    BY <1>1, <2>3, DeleteRuleStands
  <2>4. \/ quote' = quote
        \/ \E p \in Quotes : PriceQuote(p) \/ NameRule(p) \/ StoreQuote(p)
        \/ \E s \in Staff : DeleteRule(s)
    BY DEF Next, vars, ValidatePage, SavePage
  <2> QED
    BY <2>1, <2>2, <2>3, <2>4
<1>4. PricesStand' /\ QuotesExplained'
  BY <1>3 DEF Stands, PricesStand, QuotesExplained
<1> QED
  BY <1>2, <1>4 DEF QuoteInv

(* Pages, prices and quotes agree at all times, whoever edits: a page that   *)
(* no save has overtaken would pass its validation again, and the second     *)
(* reading of create_quote finds the rule the first one found unless that    *)
(* rule was edited, or active rules overlapped, in between.                  *)
THEOREM QuoteInvHolds == Spec => []QuoteInv
<1>1. Init => QuoteInv
  <2> SUFFICES ASSUME Init PROVE QuoteInv
    OBVIOUS
  <2>1. TypeOK
    BY DEF Init, TypeOK, NoQuote, Quote
  <2> QED
    BY <2>1 DEF Init, QuoteInv, PagesFit, PricesStand, QuotesExplained, NoQuote
<1>2. QuoteInv /\ [Next]_vars => QuoteInv'
  BY NextQuoteInv
<1> QED
  BY <1>1, <1>2, PTL DEF Spec

(* ADR-0006:29 has overlap impossible to persist.  It becomes possible in    *)
(* two ways only, for any number of editors and of rows on a page: saving a  *)
(* page that another save has overtaken, or one whose own rows overlap.      *)
THEOREM OverlapsAreExplained == Spec => OverlapsExplained
<1>1. QuoteInv /\ [Next]_vars =>
        (TableNeverOverlaps /\ ~TableNeverOverlaps' =>
           \E s \in Staff : SavePage(s) /\ (s \in stale \/ ~RowsApart(form[s])))
  <2> SUFFICES ASSUME QuoteInv, [Next]_vars, TableNeverOverlaps, ~TableNeverOverlaps'
               PROVE  \E s \in Staff : SavePage(s) /\ (s \in stale \/ ~RowsApart(form[s]))
    OBVIOUS
  <2>1. TypeOK /\ PagesFit
    BY DEF QuoteInv
  <2>2. PICK s \in Staff : SavePage(s)
    BY <2>1, OthersKeepApart
  <2>3. s \in stale \/ ~RowsApart(form[s])
    BY <2>1, <2>2, SaveKeepsApart
  <2> QED
    BY <2>2, <2>3
<1> QED
  BY <1>1, QuoteInvHolds, PTL DEF Spec, OverlapsExplained

(* ADR-0006:25 has a historic quote explained.  Whoever edits, a quote names *)
(* the rule whose premium it shows, although create_quote reads the rules    *)
(* twice and inserts later, until the very rule that priced it is changed or *)
(* deleted, and unless active rules overlapped before its second reading.    *)
THEOREM QuotesExplainedUntilEdited == Spec => []QuotesExplained
<1>1. QuoteInv => QuotesExplained
  BY DEF QuoteInv
<1> QED
  BY <1>1, QuoteInvHolds, PTL
=============================================================================
