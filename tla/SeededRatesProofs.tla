-------------------------- MODULE SeededRatesProofs --------------------------
(***************************************************************************)
(* Ages, bands and premiums of a fresh installation, for every birth and   *)
(* every day of the calendar and not only those TLC walks through.         *)
(***************************************************************************)
EXTENDS SeededRates, FiniteSetTheorems, TLAPS

-----------------------------------------------------------------------------
(* The calendar. *)

LEMMA CalendarDay ==
    ASSUME NEW d \in Calendar
    PROVE  /\ d.year \in Nat /\ d.month \in 1..12 /\ d.day \in 1..31
           /\ d.day <= MonthLength(d.year, d.month)
           /\ d = [year |-> d.year, month |-> d.month, day |-> d.day]
BY DEF Calendar

LEMMA MonthLengths ==
    ASSUME NEW y \in Nat, NEW m \in 1..12
    PROVE  MonthLength(y, m) \in 28..31
<1>1. CASE m \in {4, 6, 9, 11}
  BY <1>1 DEF MonthLength
<1>2. CASE m = 2
  <2>1. MonthLength(y, m) = IF Leap(y) THEN 29 ELSE 28
    BY <1>2 DEF MonthLength
  <2> QED
    BY <2>1
<1>3. CASE m \notin {2, 4, 6, 9, 11}
  BY <1>3 DEF MonthLength
<1> QED
  BY <1>1, <1>2, <1>3

\* The day after a day of the calendar is one.
LEMMA NextDayIsDay ==
    ASSUME NEW d \in Calendar
    PROVE  NextDay(d) \in Calendar
<1>1. /\ d.year \in Nat /\ d.month \in 1..12 /\ d.day \in 1..31
      /\ d.day <= MonthLength(d.year, d.month)
      /\ d = [year |-> d.year, month |-> d.month, day |-> d.day]
  BY CalendarDay
<1>2. MonthLength(d.year, d.month) \in 28..31
  BY <1>1, MonthLengths
<1>3. CASE d.day < MonthLength(d.year, d.month)
  <2>1. NextDay(d) = [year |-> d.year, month |-> d.month, day |-> d.day + 1]
    BY <1>1, <1>2, <1>3 DEF NextDay
  <2> QED
    BY <1>1, <1>2, <1>3, <2>1 DEF Calendar
<1>4. CASE d.day = MonthLength(d.year, d.month) /\ d.month < 12
  <2>1. NextDay(d) = [year |-> d.year, month |-> d.month + 1, day |-> 1]
    BY <1>1, <1>2, <1>4 DEF NextDay
  <2>2. d.month + 1 \in 1..12 /\ 1 <= MonthLength(d.year, d.month + 1)
    BY <1>1, <1>4, MonthLengths
  <2> QED
    BY <1>1, <2>1, <2>2 DEF Calendar
<1>5. CASE d.day = MonthLength(d.year, d.month) /\ d.month = 12
  <2>1. NextDay(d) = [year |-> d.year + 1, month |-> 1, day |-> 1]
    BY <1>1, <1>2, <1>5 DEF NextDay
  <2>2. d.year + 1 \in Nat /\ 1 <= MonthLength(d.year + 1, 1)
    BY <1>1, MonthLengths
  <2> QED
    BY <2>1, <2>2 DEF Calendar
<1> QED
  BY <1>1, <1>2, <1>3, <1>4, <1>5

LEMMA CalendarHolds == CatalogueSpec => [](CalendarInv /\ product \in PRODUCTS)
<1>1. CatalogueInit => CalendarInv /\ product \in PRODUCTS
  BY CalendarAssumption DEF CatalogueInit, Init, CalendarInv, CalendarAssumption
<1>2. CalendarInv /\ product \in PRODUCTS /\ [CatalogueNext]_catalogueVars
        => (CalendarInv /\ product \in PRODUCTS)'
  BY NextDayIsDay DEF CatalogueNext, Next, Tomorrow, catalogueVars, vars, CalendarInv
<1> QED
  BY <1>1, <1>2, PTL DEF CatalogueSpec

-----------------------------------------------------------------------------
(* Ages. *)

(* The birthday of year y has been kept by the day d exactly when y is not  *)
(* after the year of birth by more than the age on d.                       *)
LEMMA KeptBirthdays ==
    ASSUME NEW b \in Calendar, NEW d \in Calendar, NEW y \in Int
    PROVE  ~Before(d, Birthday(b, y)) <=> y <= b.year + AgeAt(b, d)
<1>1. /\ b.year \in Nat /\ b.month \in 1..12 /\ b.day \in 1..31
      /\ d.year \in Nat /\ d.month \in 1..12 /\ d.day \in 1..31
      /\ d.day <= MonthLength(d.year, d.month)
      /\ b = [year |-> b.year, month |-> b.month, day |-> b.day]
  BY CalendarDay
<1> DEFINE had == d.month > b.month \/ (d.month = b.month /\ d.day >= b.day)
<1>2. AgeAt(b, d) = d.year - b.year - (IF had THEN 0 ELSE 1)
  BY DEF AgeAt
<1>3. y <= b.year + AgeAt(b, d) <=> y < d.year \/ (y = d.year /\ had)
  BY <1>1, <1>2
<1>4. ~Before(d, Birthday(b, y)) <=> y < d.year \/ (y = d.year /\ had)
  <2>1. CASE b.day > MonthLength(y, b.month)
    <3>1. Birthday(b, y) = [year |-> y, month |-> b.month + 1, day |-> 1]
      BY <2>1 DEF Birthday
    <3>2. y = d.year /\ d.month = b.month => ~(d.day >= b.day)
      <4> SUFFICES ASSUME y = d.year, d.month = b.month PROVE d.day < b.day
        BY <1>1
      <4>1. MonthLength(d.year, d.month) \in 28..31
        BY <1>1, MonthLengths
      <4> QED
        BY <1>1, <2>1, <4>1
    <3> QED
      BY <1>1, <3>1, <3>2 DEF Before
  <2>2. CASE ~(b.day > MonthLength(y, b.month))
    <3>1. Birthday(b, y) = [year |-> y, month |-> b.month, day |-> b.day]
      BY <1>1, <2>2 DEF Birthday
    <3> QED
      BY <1>1, <3>1 DEF Before
  <2> QED
    BY <2>1, <2>2
<1> QED
  BY <1>3, <1>4

(* models.py:46: whole years old, correct at the birthday boundary, in leap *)
(* and common years.                                                        *)
THEOREM AgesCountBirthdays == CatalogueSpec => []AgeCountsBirthdays
<1>1. CalendarInv => AgeCountsBirthdays
  <2> SUFFICES ASSUME dob \in Calendar, today \in Calendar, Before(dob, today)
               PROVE  AgeAt(dob, today) =
                        Cardinality({ y \in (dob.year + 1)..today.year :
                                        ~Before(today, Birthday(dob, y)) })
    BY DEF CalendarInv, AgeCountsBirthdays
  <2> DEFINE n == AgeAt(dob, today)
             kept == { y \in (dob.year + 1)..today.year : ~Before(today, Birthday(dob, y)) }
  <2>1. /\ dob.year \in Nat /\ today.year \in Nat
        /\ n \in Nat /\ dob.year + n <= today.year
    BY CalendarDay DEF AgeAt, Before
  <2>2. \A y \in Int : ~Before(today, Birthday(dob, y)) <=> y <= dob.year + n
    BY KeptBirthdays
  <2> HIDE DEF n
  <2>3. kept = (dob.year + 1)..(dob.year + n)
    BY <2>1, <2>2
  <2>4. Cardinality((dob.year + 1)..(dob.year + n)) = n
    <3> DEFINE lo == dob.year + 1
               hi == dob.year + n
    <3>1. lo \in Int /\ hi \in Int /\ (IF lo > hi THEN 0 ELSE hi - lo + 1) = n
      BY <2>1
    <3> HIDE DEF lo, hi
    <3>2. Cardinality(lo..hi) = n
      BY <3>1, FS_Interval
    <3> QED
      BY <3>2 DEF lo, hi
  <2> QED
    BY <2>3, <2>4 DEF n
<1> QED
  BY <1>1, CalendarHolds, PTL

(* CUSTOMER_MIN_AGE and CUSTOMER_MAX_AGE are both inside: the window opens  *)
(* on the one birthday and closes the day before the other's next.          *)
THEOREM CleanWindowExact == CatalogueSpec => []CleanWindow
<1>1. CalendarInv => CleanWindow
  <2> SUFFICES ASSUME dob \in Calendar, today \in Calendar PROVE CleanWindow
    BY DEF CalendarInv
  <2> DEFINE n == AgeAt(dob, today)
  <2>1. /\ dob.year \in Nat /\ today.year \in Nat /\ n \in Int
        /\ MinAge \in Nat /\ MaxAge \in Nat
    BY CalendarDay, CalendarAssumption DEF AgeAt, CalendarAssumption
  <2>2. ~Before(today, Birthday(dob, dob.year + MinAge)) <=> MinAge <= n
    BY <2>1, KeptBirthdays
  <2>3. Before(today, Birthday(dob, dob.year + MaxAge + 1)) <=> n <= MaxAge
    BY <2>1, KeptBirthdays
  <2> QED
    BY <2>2, <2>3 DEF CleanWindow, CleanCustomer
<1> QED
  BY <1>1, CalendarHolds, PTL

-----------------------------------------------------------------------------
(* Bands. *)

LEMMA CandidateOfBands ==
    ASSUME NEW bands, NEW a, NEW r \in bands, r.active, EffectiveOn(r, SEED_FROM), CoversAge(r, a),
           \A s \in bands : CoversAge(s, a) => s = r
    PROVE  \E s \in bands : Candidates(bands, a, SEED_FROM) = {s}
<1>1. Candidates(bands, a, SEED_FROM) = {r}
  BY DEF Candidates
<1> QED
  BY <1>1

AccidentBands ==
    { Band(18, 25, 130, 5000), Band(26, 30, 115, 5000), Band(31, 40, 100, 5000),
      Band(41, 50, 140, 5000), Band(51, 60, 200, 5000), Band(61, 70, 310, 5000) }

TravelBands == { Band(18, 40, 60, 2500), Band(41, 65, 95, 2500) }

LEMMA Products ==
    ASSUME NEW p \in PRODUCTS
    PROVE  \/ p.bands = AccidentBands /\ p.minAge = 18 /\ p.maxAge = 70
           \/ p.bands = TravelBands /\ p.minAge = 18 /\ p.maxAge = 65
BY DEF PRODUCTS, AccidentBands, TravelBands

LEMMA AccidentAge ==
    ASSUME NEW a \in Int, 18 <= a, a <= 70
    PROVE  \E r \in AccidentBands : Candidates(AccidentBands, a, SEED_FROM) = {r}
<1> DEFINE b1 == Band(18, 25, 130, 5000)
           b2 == Band(26, 30, 115, 5000)
           b3 == Band(31, 40, 100, 5000)
           b4 == Band(41, 50, 140, 5000)
           b5 == Band(51, 60, 200, 5000)
           b6 == Band(61, 70, 310, 5000)
<1>1. /\ b1.active /\ EffectiveOn(b1, SEED_FROM) /\ (CoversAge(b1, a) <=> 18 <= a /\ a <= 25)
      /\ b2.active /\ EffectiveOn(b2, SEED_FROM) /\ (CoversAge(b2, a) <=> 26 <= a /\ a <= 30)
      /\ b3.active /\ EffectiveOn(b3, SEED_FROM) /\ (CoversAge(b3, a) <=> 31 <= a /\ a <= 40)
      /\ b4.active /\ EffectiveOn(b4, SEED_FROM) /\ (CoversAge(b4, a) <=> 41 <= a /\ a <= 50)
      /\ b5.active /\ EffectiveOn(b5, SEED_FROM) /\ (CoversAge(b5, a) <=> 51 <= a /\ a <= 60)
      /\ b6.active /\ EffectiveOn(b6, SEED_FROM) /\ (CoversAge(b6, a) <=> 61 <= a /\ a <= 70)
  <2>1. b1.active /\ EffectiveOn(b1, SEED_FROM) /\ (CoversAge(b1, a) <=> 18 <= a /\ a <= 25)
    BY DEF Band, EffectiveOn, CoversAge, SEED_FROM
  <2>2. b2.active /\ EffectiveOn(b2, SEED_FROM) /\ (CoversAge(b2, a) <=> 26 <= a /\ a <= 30)
    BY DEF Band, EffectiveOn, CoversAge, SEED_FROM
  <2>3. b3.active /\ EffectiveOn(b3, SEED_FROM) /\ (CoversAge(b3, a) <=> 31 <= a /\ a <= 40)
    BY DEF Band, EffectiveOn, CoversAge, SEED_FROM
  <2>4. b4.active /\ EffectiveOn(b4, SEED_FROM) /\ (CoversAge(b4, a) <=> 41 <= a /\ a <= 50)
    BY DEF Band, EffectiveOn, CoversAge, SEED_FROM
  <2>5. b5.active /\ EffectiveOn(b5, SEED_FROM) /\ (CoversAge(b5, a) <=> 51 <= a /\ a <= 60)
    BY DEF Band, EffectiveOn, CoversAge, SEED_FROM
  <2>6. b6.active /\ EffectiveOn(b6, SEED_FROM) /\ (CoversAge(b6, a) <=> 61 <= a /\ a <= 70)
    BY DEF Band, EffectiveOn, CoversAge, SEED_FROM
  <2> QED
    BY <2>1, <2>2, <2>3, <2>4, <2>5, <2>6
<1>2. AccidentBands = {b1, b2, b3, b4, b5, b6}
  BY DEF AccidentBands
<1> HIDE DEF b1, b2, b3, b4, b5, b6
<1>3. PICK r \in AccidentBands :
        /\ r.active /\ EffectiveOn(r, SEED_FROM) /\ CoversAge(r, a)
        /\ \A s \in AccidentBands : CoversAge(s, a) => s = r
  BY <1>1, <1>2
<1> QED
  BY <1>3, CandidateOfBands

LEMMA TravelAge ==
    ASSUME NEW a \in Int, 18 <= a, a <= 65
    PROVE  \E r \in TravelBands : Candidates(TravelBands, a, SEED_FROM) = {r}
<1> DEFINE b1 == Band(18, 40, 60, 2500)
           b2 == Band(41, 65, 95, 2500)
<1>1. /\ b1.active /\ EffectiveOn(b1, SEED_FROM) /\ (CoversAge(b1, a) <=> 18 <= a /\ a <= 40)
      /\ b2.active /\ EffectiveOn(b2, SEED_FROM) /\ (CoversAge(b2, a) <=> 41 <= a /\ a <= 65)
  BY DEF Band, EffectiveOn, CoversAge, SEED_FROM
<1>2. TravelBands = {b1, b2}
  BY DEF TravelBands
<1> HIDE DEF b1, b2
<1>3. PICK r \in TravelBands :
        /\ r.active /\ EffectiveOn(r, SEED_FROM) /\ CoversAge(r, a)
        /\ \A s \in TravelBands : CoversAge(s, a) => s = r
  BY <1>1, <1>2
<1> QED
  BY <1>3, CandidateOfBands

(* 0002_seed_rating_rules.py: the seeded bands leave no gap and no overlap  *)
(* between the ages their product admits, on any day and for any birth.     *)
THEOREM EveryAgeHasItsBand == CatalogueSpec => []EveryAgePriced
<1>1. CalendarInv /\ product \in PRODUCTS => EveryAgePriced
  <2> SUFFICES ASSUME dob \in Calendar, today \in Calendar, product \in PRODUCTS,
                      product.minAge <= age, age <= product.maxAge
               PROVE  \E r \in product.bands : Candidates(product.bands, age, SEED_FROM) = {r}
    BY DEF CalendarInv, EveryAgePriced
  <2>1. age \in Int
    BY CalendarDay DEF age, AgeAt
  <2> HIDE DEF age
  <2> QED
    BY <2>1, Products, AccidentAge, TravelAge
<1> QED
  BY <1>1, CalendarHolds, PTL

-----------------------------------------------------------------------------
(* Premiums. *)

\* ROUND_HALF_UP is off by half a unit at most.
LEMMA HalfUp ==
    ASSUME NEW n \in Nat
    PROVE  /\ Round(n) \in Int
           /\ 2 * (Round(n) * Scale) - Scale <= 2 * n
           /\ 2 * n < 2 * (Round(n) * Scale) + Scale
<1> DEFINE a == 2 * n + Scale
           d == 2 * Scale
           q == Round(n)
<1>1. a \in Nat /\ d \in Nat /\ d > 0 /\ Scale \in Nat
  BY EngineAssumption
<1>2. q = a \div d
  BY DEF Round
<1> HIDE DEF a, d, q
<1>3. q \in Int /\ a % d \in Nat /\ a % d < d /\ a = d * q + (a % d)
  BY <1>1, <1>2, Z3
<1>4. d * q = 2 * (q * Scale)
  BY <1>1, <1>3, Z3 DEF d
<1>5. q * Scale \in Int
  BY <1>1, <1>3
<1> QED
  BY <1>1, <1>3, <1>4, <1>5 DEF a, d, q

\* Every rule the catalogue can choose has numbers a premium is made of.
LEMMA SeededNumbers ==
    ASSUME NEW p \in PRODUCTS, NEW r \in p.bands
    PROVE  r.rate \in Nat /\ r.loading = 1 /\ r.floor \in Nat
<1>1. PICK lo \in Nat, hi \in Nat, rate \in Nat, floor \in Nat : r = Band(lo, hi, rate, floor)
  <2>1. CASE r \in AccidentBands
    BY <2>1, SMTT(30) DEF AccidentBands
  <2>2. CASE r \in TravelBands
    BY <2>2 DEF TravelBands
  <2> QED
    BY <2>1, <2>2, Products
<1> QED
  BY <1>1 DEF Band

(* rating.py:48-49: what a customer is charged is never below the minimum   *)
(* of the band, and is the exact price to the nearest cent, half a cent     *)
(* rounded up, wherever that reaches the minimum, for every cover.          *)
THEOREM PremiumsToTheCent == CatalogueSpec => []NearestCent
<1>1. product \in PRODUCTS => NearestCent
  <2> SUFFICES ASSUME product \in PRODUCTS, NEW cover \in Covers,
                      NEW r \in SelectRule(product.bands, age, SEED_FROM)
               PROVE  LET premium == Premium(r, cover)
                          twice == 2 * cover * r.rate * r.loading
                      IN /\ premium >= r.floor
                         /\ \/ /\ 2 * premium * Scale - Scale <= twice
                               /\ twice < 2 * premium * Scale + Scale
                            \/ premium = r.floor /\ twice < 2 * r.floor * Scale
    BY DEF NearestCent
  <2>1. r \in product.bands
    BY DEF SelectRule, Candidates
  <2>2. /\ r.rate \in Nat /\ r.loading = 1 /\ r.floor \in Nat /\ cover \in Nat
        /\ Scale \in Nat \ {0}
    BY <2>1, SeededNumbers, SeedAssumption, EngineAssumption DEF SeedAssumption, EngineAssumption
  <2> DEFINE n == cover * r.rate * r.loading
             q == Round(n)
             premium == Premium(r, cover)
             twice == 2 * cover * r.rate * r.loading
  <2>3. n \in Nat /\ twice = 2 * n
    BY <2>2
  <2>4. /\ q \in Int /\ 2 * (q * Scale) - Scale <= 2 * n
        /\ 2 * n < 2 * (q * Scale) + Scale
    BY <2>3, HalfUp
  <2>5. premium = IF q < r.floor THEN r.floor ELSE q
    BY DEF Premium
  <2> HIDE DEF n, q, premium, twice
  <2>6. CASE q < r.floor
    <3>1. premium = r.floor /\ q + 1 <= r.floor
      BY <2>2, <2>4, <2>5, <2>6
    <3>2. (q + 1) * Scale <= r.floor * Scale
      BY <2>2, <2>4, <3>1
    <3>3. (q + 1) * Scale = q * Scale + Scale /\ 2 * r.floor * Scale = 2 * (r.floor * Scale)
          /\ premium >= r.floor /\ q * Scale \in Int /\ r.floor * Scale \in Int
      BY <2>2, <2>4, <3>1
    <3> QED
      BY <2>2, <2>3, <2>4, <3>1, <3>2, <3>3 DEF premium, twice
  <2>7. CASE ~(q < r.floor)
    <3>1. premium = q /\ premium >= r.floor
          /\ 2 * premium * Scale = 2 * (q * Scale) /\ q * Scale \in Int
      BY <2>2, <2>4, <2>5, <2>7
    <3> QED
      BY <2>2, <2>3, <2>4, <3>1 DEF premium, twice
  <2> QED
    BY <2>6, <2>7
<1> QED
  BY <1>1, CalendarHolds, PTL
=============================================================================
