--------------------------- MODULE MCSeededRates ---------------------------
(* Births every fourth year, on 29 February, looked at for five years: an   *)
(* age between the youngest and the oldest is met on some day of each, over *)
(* a leap day and the turn of a century that has none.  A few births at the *)
(* ends of years and months, and one to come.                               *)
EXTENDS SeededRates

Date(y, m, d) == [year |-> y, month |-> m, day |-> d]

MCBirths ==
    { Date(y, 2, 29) : y \in { 1996 + 4 * k : k \in 0..21 } }
    \cup { Date(2075, 12, 31), Date(2076, 1, 1), Date(2076, 3, 1), Date(2097, 10, 5) }

MCFirstDay == Date(2096, 1, 1)

(* The smallest cover, ones around the minimum premium, ones that leave     *)
(* half a cent and nearly half a cent, the default, and the largest of      *)
(* either product.                                                          *)
MCCovers == { 1000, 26315, 38461, 38465, 50000, 50005, 150007, 200000, 500000, 1000000 }
=============================================================================
