------------------------------ MODULE RateBook ------------------------------
(***************************************************************************)
(* The rating rules of one product while staff edit them in the admin and  *)
(* quotes are priced from them.  A page is validated against the rules in  *)
(* the database, row by row (RatingRule.clean), and saved afterwards; no   *)
(* lock is held in between and the rows of one page do not see each other. *)
(* create_quote reads the rules twice, to price and to name the rule, and  *)
(* inserts the quote in a third statement.                                 *)
(***************************************************************************)
EXTENDS RatingEngine

CONSTANTS Staff,      \* people editing rules
          RuleIds,    \* rows of the rule table that may come to exist
          Shapes,     \* the contents staff may enter
          MaxRows,    \* rows edited on one page
          Edits,      \* which of "add", "change", "delete" staff do
          Quotes,     \* quotes that may be made
          Ages, Days, \* the ages and days they are for
          TheProduct, Cover

ASSUME BookAssumption ==
    /\ Shapes \subseteq Rule
    /\ Null \notin Shapes \cup RuleIds
    /\ IsFiniteSet(RuleIds)
    /\ MaxRows \in Nat
    /\ Edits \subseteq {"add", "change", "delete"}
    /\ Ages \subseteq Nat /\ Days \subseteq Nat
    /\ TheProduct \in Product /\ Cover \in Nat

VARIABLES rules,   \* rules[i]: the contents of rule i, Null when there is none
          form,    \* form[s]: the rows of the page of s that passed validation
          quote,   \* quote[q]: a quote being made or made
          stale,   \* staff whose page others' saves have overtaken since its validation
          disturbed, \* quotes whose rule was changed or deleted since they were priced
          clashed  \* quotes that active rules overlapped under before they named theirs

vars == <<rules, form, quote, stale, disturbed, clashed>>

Quote == [step : {"none", "priced", "named", "made"}, age : Nat \cup {Null}, day : Nat \cup {Null},
          premium : Nat \cup {Null}, rule : RuleIds \cup {Null}]

NoQuote == [step |-> "none", age |-> Null, day |-> Null, premium |-> Null, rule |-> Null]

Stored(ids) == { rules[i] : i \in { j \in ids : rules[j] # Null } }

Init ==
    /\ rules = [i \in RuleIds |-> Null]
    /\ form = [s \in Staff |-> << >>]
    /\ quote = [q \in Quotes |-> NoQuote]
    /\ stale = {} /\ disturbed = {} /\ clashed = {}

(* ADR-0006:29 and rating.py:60: no two active rules of the table overlap   *)
(* in ages and days, so select_rule never has a choice to make.             *)
TableNeverOverlaps ==
    \A i, j \in RuleIds :
        i # j /\ rules[i] # Null /\ rules[j] # Null /\ rules[i].active /\ rules[j].active
            => ~Overlap(rules[i], rules[j])

\* Rule i is in use, fits the age and day of q, and charges its premium.
Prices(i, q) ==
    /\ rules[i] # Null
    /\ rules[i].active
    /\ CoversAge(rules[i], quote[q].age) /\ EffectiveOn(rules[i], quote[q].day)
    /\ quote[q].premium = Premium(rules[i], Cover)

\* The quotes an edit of these rules pulls the ground from under.
Disturb(ids) ==
    disturbed' = disturbed \cup
        { q \in Quotes : quote[q].step # "none" /\ \E i \in ids : Prices(i, q) }

\* Rows a page may hold: some rules of the table with new contents.
Pages ==
    UNION { [ids -> Shapes] : ids \in { I \in SUBSET RuleIds : I # {} /\ Cardinality(I) <= MaxRows } }

(* A row of a page of s either changes a rule or adds one; what is added    *)
(* gets an id nobody else uses.                                             *)
MayEdit(s, i) ==
    \/ rules[i] # Null /\ "change" \in Edits
    \/ rules[i] = Null /\ "add" \in Edits /\ \A t \in Staff \ {s} : i \notin DOMAIN form[t]

\* A bug: a row is not compared with the rules of the table.
ValidatePageAlone(s) ==
    /\ form[s] = << >>
    /\ \E page \in Pages :
         /\ \A i \in DOMAIN page : MayEdit(s, i) /\ Clean(page[i], {})
         /\ form' = [form EXCEPT ![s] = page]
    /\ UNCHANGED <<rules, quote, stale, disturbed, clashed>>

(* Every row of the page is cleaned against the other rules in the table,   *)
(* as they are now.                                                         *)
ValidatePage(s) ==
    /\ form[s] = << >>
    /\ \E page \in Pages :
         /\ \A i \in DOMAIN page :
              MayEdit(s, i) /\ Clean(page[i], Stored(RuleIds \ {i}))
         /\ form' = [form EXCEPT ![s] = page]
    /\ UNCHANGED <<rules, quote, stale, disturbed, clashed>>

\* The page is saved as it was validated; what others have open was validated before.
SavePage(s) ==
    /\ form[s] # << >>
    /\ rules' = [i \in RuleIds |-> IF i \in DOMAIN form[s] THEN form[s][i] ELSE rules[i]]
    /\ form' = [form EXCEPT ![s] = << >>]
    /\ stale' = { t \in Staff \ {s} : form[t] # << >> }
    /\ Disturb(DOMAIN form[s])
    /\ clashed' = IF TableNeverOverlaps' THEN clashed
                  ELSE clashed \cup { q \in Quotes : quote[q].step = "priced" }
    /\ UNCHANGED quote

(* A rule is deleted; quotes stored with it are left without one (SET_NULL). *)
DeleteRule(s) ==
    /\ "delete" \in Edits
    /\ form[s] = << >>
    /\ \E i \in RuleIds :
         /\ rules[i] # Null
         /\ rules' = [rules EXCEPT ![i] = Null]
         /\ quote' = [q \in Quotes |-> IF quote[q].step = "made" /\ quote[q].rule = i
                                       THEN [quote[q] EXCEPT !.rule = Null] ELSE quote[q]]
         /\ Disturb({i})
    /\ UNCHANGED <<form, stale, clashed>>

\* calculate_premium in create_quote: the first reading of the rules.
PriceQuote(q) ==
    /\ quote[q].step = "none"
    /\ \E age \in Ages, day \in Days :
         /\ Eligible(TheProduct, age, Cover)
         /\ \E r \in SelectRule(Stored(RuleIds), age, day) :
              quote' = [quote EXCEPT ![q] = [step |-> "priced", age |-> age, day |-> day,
                                             premium |-> Premium(r, Cover), rule |-> Null]]
    /\ disturbed' = disturbed \ {q}
    /\ clashed' = IF TableNeverOverlaps THEN clashed \ {q} ELSE clashed \cup {q}
    /\ UNCHANGED <<rules, form, stale>>

(* select_rule in create_quote, the second reading: the rule it finds now,  *)
(* or none.                                                                 *)
NameRule(q) ==
    LET found == SelectRule(Stored(RuleIds), quote[q].age, quote[q].day)
    IN /\ quote[q].step = "priced"
       /\ \E i \in RuleIds \cup {Null} :
            /\ IF found = {} THEN i = Null ELSE i # Null /\ rules[i] # Null /\ rules[i] \in found
            /\ quote' = [quote EXCEPT ![q].step = "named", ![q].rule = i]
       /\ UNCHANGED <<rules, form, stale, disturbed, clashed>>

(* The quote is stored with that rule; if it has been deleted meanwhile the *)
(* foreign key refuses the row and the call fails.                          *)
StoreQuote(q) ==
    /\ quote[q].step = "named"
    /\ quote' = [quote EXCEPT ![q] = IF @.rule = Null \/ rules[@.rule] # Null
                                     THEN [@ EXCEPT !.step = "made"] ELSE NoQuote]
    /\ UNCHANGED <<rules, form, stale, disturbed, clashed>>

Next ==
    \/ \E s \in Staff : ValidatePage(s) \/ SavePage(s) \/ DeleteRule(s)
    \/ \E q \in Quotes : PriceQuote(q) \/ NameRule(q) \/ StoreQuote(q)

Spec == Init /\ [][Next]_vars
-----------------------------------------------------------------------------
TypeOK ==
    /\ rules \in [RuleIds -> Shapes \cup {Null}]
    /\ form \in [Staff -> Pages \cup {<< >>}]
    /\ quote \in [Quotes -> Quote]
    /\ stale \subseteq Staff /\ disturbed \subseteq Quotes /\ clashed \subseteq Quotes

\* No two rows of a page overlap.
RowsApart(page) ==
    \A i, j \in DOMAIN page :
        i # j /\ page[i].active /\ page[j].active => ~Overlap(page[i], page[j])

(* Where ADR-0006:29 ("overlap ... impossible to persist") is not kept: with *)
(* any number of editors, and any rows on a page, active rules come to       *)
(* overlap only when a page is saved that another's save has overtaken since *)
(* it was validated, or one whose own rows overlap.  No other save and no    *)
(* deletion does it, whatever the page was validated against.                *)
OverlapsExplained ==
    [][TableNeverOverlaps /\ ~TableNeverOverlaps' =>
         \E s \in Staff : SavePage(s) /\ (s \in stale \/ ~RowsApart(form[s]))]_vars

(* ADR-0006:25: a quote is explained by the rule it was stored with, which  *)
(* was effective on its day and charges the premium it shows, although      *)
(* create_quote reads the rules twice and inserts later; until that very    *)
(* rule is edited, and unless rules overlapped before the second reading.   *)
QuotesExplained ==
    \A q \in Quotes \ (disturbed \cup clashed) :
        quote[q].step = "made" => quote[q].rule # Null /\ Prices(quote[q].rule, q)

\* A page that no save has overtaken still passes its validation.
PagesFit ==
    \A s \in Staff \ stale : \A i \in DOMAIN form[s] :
        Clean(form[s][i], Stored(RuleIds \ {i}))

\* A price was made by a rule the second reading will find, or has found.
PricesStand ==
    \A q \in Quotes \ clashed :
        /\ quote[q].step = "priced" => TableNeverOverlaps
        /\ quote[q].step = "priced" /\ q \notin disturbed =>
             /\ quote[q].age \in Nat /\ quote[q].day \in Nat
             /\ \E i \in RuleIds : Prices(i, q)
        /\ quote[q].step = "named" /\ q \notin disturbed =>
             quote[q].rule # Null /\ Prices(quote[q].rule, q)

\* The invariant behind them, for any number of editors.
QuoteInv == TypeOK /\ PagesFit /\ PricesStand /\ QuotesExplained
=============================================================================
