---------------------------- MODULE CustomerAge ----------------------------
(***************************************************************************)
(* The age of a customer (src/apps/customers/models.py), from which        *)
(* create_quote rates: age_at compares month and day as a pair, and clean  *)
(* admits customers whose age today lies in the eligible range.  A day of  *)
(* the Gregorian calendar is a record; Tomorrow turns the calendar by one. *)
(***************************************************************************)
EXTENDS Integers, FiniteSets

CONSTANTS Births,            \* the dates of birth looked at
          FirstDay, LastYear,\* the days looked at
          MinAge, MaxAge     \* CUSTOMER_MIN_AGE and CUSTOMER_MAX_AGE

VARIABLES today,  \* timezone.localdate()
          dob     \* the date of birth of a customer

vars == <<today, dob>>

Leap(y) == (y % 4 = 0 /\ y % 100 # 0) \/ y % 400 = 0

MonthLength(y, m) ==
    CASE m \in {4, 6, 9, 11} -> 30
      [] m = 2 -> IF Leap(y) THEN 29 ELSE 28
      [] OTHER -> 31

\* The days of the calendar.
Calendar == { d \in [year : Nat, month : 1..12, day : 1..31] : d.day <= MonthLength(d.year, d.month) }

ASSUME CalendarAssumption ==
    /\ Births \subseteq Calendar /\ FirstDay \in Calendar
    /\ MinAge \in Nat /\ MaxAge \in Nat

NextDay(d) ==
    CASE d.day < MonthLength(d.year, d.month) -> [d EXCEPT !.day = @ + 1]
      [] d.day = MonthLength(d.year, d.month) /\ d.month < 12 ->
            [year |-> d.year, month |-> d.month + 1, day |-> 1]
      [] OTHER -> [year |-> d.year + 1, month |-> 1, day |-> 1]

\* d comes before e.
Before(d, e) ==
    \/ d.year < e.year
    \/ d.year = e.year /\ (d.month < e.month \/ (d.month = e.month /\ d.day < e.day))

\* A bug: month and day are compared apart.
AgeAtApart(born, asOf) ==
    asOf.year - born.year
        - (IF asOf.month >= born.month /\ asOf.day >= born.day THEN 0 ELSE 1)

AgeAt(born, asOf) ==
    LET hadBirthday == asOf.month > born.month
                       \/ (asOf.month = born.month /\ asOf.day >= born.day)
    IN asOf.year - born.year - (IF hadBirthday THEN 0 ELSE 1)

\* A bug: the upper end of the range is left out.
CleanCustomerBelow(born) ==
    /\ Before(born, today)
    /\ MinAge <= AgeAt(born, today) /\ AgeAt(born, today) < MaxAge

CleanCustomer(born) ==
    /\ Before(born, today)
    /\ MinAge <= AgeAt(born, today) /\ AgeAt(born, today) <= MaxAge

Init == today = FirstDay /\ dob \in Births

Tomorrow ==
    /\ NextDay(today).year <= LastYear
    /\ today' = NextDay(today)
    /\ UNCHANGED dob

Next == Tomorrow

Spec == Init /\ [][Next]_vars
-----------------------------------------------------------------------------
\* Both dates stay days of the calendar, which the theorems on ages rest on.
CalendarInv == today \in Calendar /\ dob \in Calendar

(* The day a birthday is kept in year y: somebody born on 29 February keeps *)
(* it on 1 March where there is no such day.                                *)
Birthday(born, y) ==
    IF born.day > MonthLength(y, born.month)
    THEN [year |-> y, month |-> born.month + 1, day |-> 1]
    ELSE [born EXCEPT !.year = y]

(* "Whole years old, correct at the birthday boundary" (models.py:46): the  *)
(* age is the number of birthdays kept so far, on every day of leap and     *)
(* common years.                                                            *)
AgeCountsBirthdays ==
    Before(dob, today) =>
        AgeAt(dob, today) =
            Cardinality({ y \in (dob.year + 1)..today.year : ~Before(today, Birthday(dob, y)) })

(* clean admits a customer on every day from the MinAge-th birthday to the  *)
(* day before the one after MaxAge, and on no other.                        *)
CleanWindow ==
    CleanCustomer(dob) <=>
        /\ Before(dob, today)
        /\ ~Before(today, Birthday(dob, dob.year + MinAge))
        /\ Before(today, Birthday(dob, dob.year + MaxAge + 1))
=============================================================================
