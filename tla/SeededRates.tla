---------------------------- MODULE SeededRates ----------------------------
(***************************************************************************)
(* What a fresh installation charges its customers, day by day: the age    *)
(* create_quote takes from the date of birth (CustomerAge) meets the bands *)
(* of the catalogue that src/apps/products/migrations/                     *)
(* 0002_seed_rating_rules.py puts into the database (RatingEngine).  Cover *)
(* is in whole units of the currency, rates are in hundredths, so Scale is *)
(* 1000 and premiums come out in cents.                                    *)
(***************************************************************************)
EXTENDS CustomerAge, RatingEngine

CONSTANT Covers   \* the covers asked for

ASSUME SeedAssumption == Covers \subseteq Nat

\* The day the seeded rules start on; they never end.
SEED_FROM == 0

Band(lo, hi, rate, floor) ==
    [min |-> lo, max |-> hi, from |-> SEED_FROM, to |-> Null, active |-> TRUE,
     rate |-> rate, loading |-> 1, floor |-> floor]

PRODUCTS ==
    { [name |-> "personal-accident", minCover |-> 1000, maxCover |-> 1000000,
       minAge |-> 18, maxAge |-> 70, active |-> TRUE,
       bands |-> { Band(18, 25, 130, 5000), Band(26, 30, 115, 5000),
                   Band(31, 40, 100, 5000), Band(41, 50, 140, 5000),
                   Band(51, 60, 200, 5000), Band(61, 70, 310, 5000) }],
      [name |-> "travel", minCover |-> 1000, maxCover |-> 500000,
       minAge |-> 18, maxAge |-> 65, active |-> TRUE,
       bands |-> { Band(18, 40, 60, 2500), Band(41, 65, 95, 2500) }] }

VARIABLE product   \* the product the customer asks for

catalogueVars == <<vars, product>>

CatalogueInit == Init /\ product \in PRODUCTS

CatalogueNext == Next /\ UNCHANGED product

CatalogueSpec == CatalogueInit /\ [][CatalogueNext]_catalogueVars
-----------------------------------------------------------------------------
\* The age a quote made today is rated for.
age == AgeAt(dob, today)

(* An adult the product admits falls into exactly one of its seeded bands   *)
(* on every day of the calendar, birthdays and leap days included: a fresh  *)
(* installation never refuses a quote for want of a rule nor chooses        *)
(* between two.                                                             *)
EveryAgePriced ==
    CleanCustomer(dob) /\ product.minAge <= age /\ age <= product.maxAge =>
        \E r \in product.bands : Candidates(product.bands, age, SEED_FROM) = {r}

(* The premium is never below the band's minimum, and it is the exact price *)
(* to the nearest cent, half a cent rounded up, wherever that price reaches *)
(* the minimum; the minimum itself is charged only where it does not.       *)
NearestCent ==
    \A cover \in { c \in Covers : Eligible(product, age, c) } :
        \A r \in SelectRule(product.bands, age, SEED_FROM) :
            LET premium == Premium(r, cover)
                twice == 2 * cover * r.rate * r.loading
            IN /\ premium >= r.floor
               /\ \/ 2 * premium * Scale - Scale <= twice /\ twice < 2 * premium * Scale + Scale
                  \/ premium = r.floor /\ twice < 2 * r.floor * Scale
=============================================================================
