----------------------------- MODULE MCRateBook -----------------------------
(* Small instances of RateBook for TLC: which rules staff may enter. *)
EXTENDS RateBook, TLC

Symmetry == Permutations(RuleIds) \cup Permutations(Staff)

(* Bands that meet, touch, nest or are inverted; windows that end on, touch *)
(* or reach over a day, or never end; two rates, rules in use and withdrawn. *)
MCShapes ==
    { [min |-> b[1], max |-> b[2], from |-> f[1], to |-> f[2], active |-> a,
       rate |-> n, loading |-> 1, floor |-> 1] :
        b \in { <<1, 2>>, <<2, 3>>, <<3, 2>> },
        f \in { <<1, Null>>, <<1, 2>>, <<2, 2>>, <<3, Null>> },
        a \in BOOLEAN, n \in {1, 3} }

\* The same in one band.
OneBand == { s \in MCShapes : s.min = 1 /\ s.max = 2 }

(* For two editors and pages of two rows: a rule, one that touches it on its *)
(* last day, one next to it in age, one after it, one withdrawn, one inverted.*)
FewShapes ==
    { [min |-> s[1], max |-> s[2], from |-> s[3], to |-> s[4], active |-> s[5],
       rate |-> s[6], loading |-> 1, floor |-> 1] :
        s \in { <<1, 2, 1, 2, TRUE, 1>>, <<1, 2, 2, Null, TRUE, 3>>, <<2, 3, 1, 2, TRUE, 3>>,
                <<1, 1, 3, Null, TRUE, 1>>, <<1, 2, 1, 2, FALSE, 3>>, <<3, 2, 1, 2, TRUE, 1>> } }

MCProduct == [active |-> TRUE, minAge |-> 1, maxAge |-> 3, minCover |-> 1, maxCover |-> 2]
=============================================================================
