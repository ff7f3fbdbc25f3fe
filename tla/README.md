# A verification project for the Democrance insurance API

This directory holds TLA+ models of the insurance API in `src/` (Django and
PostgreSQL), the TLC configurations that check them on small instances, and
theorems about them that TLAPS proves for every instance. Paths below are
relative to `src/`.

## 1. The system

| component | state | operations | talks to |
|---|---|---|---|
| state machine (`apps/policies/state_machine.py`) | none | `can_transition` | called by the policy services |
| policy services (`apps/policies/services.py`) | `Policy`, `PolicyStateTransition` rows | `create_quote`, `accept_quote`, `activate_policy` | rating engine, payments, views, admin |
| payment services (`apps/payments/services.py`) | `Payment` rows | `simulate_payment` | locks the policy, calls `activate_policy` |
| policy views (`apps/policies/views.py`) | none of their own | quote, accept, pay, list, detail, history; one POST endpoint for three of them, and REST aliases | the services |
| access scope (`apps/accounts/permissions.py`) | `DEMO_OPEN_API` | two permission classes, two scopes | asked by every view, of accounts and links staff edit |
| error envelope (`apps/common/exceptions.py`, `errors.py`) | none | one code for each exception | what every failing view answers |
| policy admin (`apps/policies/admin.py`) | policy rows, directly | two actions; add, change, delete pages | the services, and past them |
| rating engine (`apps/products/rating.py`, `models.py`) | `RatingRule` rows | `calculate_premium`, `select_rule`, `clean` | read by `create_quote` |
| rate editing (`apps/products/admin.py`) | `RatingRule` rows | pages of rules | beside the readings of `create_quote` |
| seeded catalogue (`products/migrations/0002`) | first rows of the catalogue | `seed` | the rating engine |
| customers (`apps/customers`) | `Customer` rows | `age_at`, `clean`, endpoints, admin | rating, accounts |
| demo seeding, container start (`seed_demo.py`, `scripts/docker-entrypoint.sh`) | accounts, one customer | one transaction on every start | the admin edits the same rows |
| listing (`PolicyListView`, `common/pagination.py`) | none; every page is two statements | COUNT, slice | rows that others insert, move, delete and hand over |
| search (`apps/search/views.py`) | none; every section is two statements | count, capped results | the same rows |
| demo page (`apps/web/templates/web/index.html`) | its form fields, a token, the answer shown | eight buttons, each one call | the API, answers in any order |
| tokens, payment admin, configuration | see section 8 | | |

Three gunicorn worker processes (`Dockerfile:51`) run the views and the admin
against one PostgreSQL database at READ COMMITTED. They share nothing but the
tables. What is hard about the system follows from this:

* **Concurrency.** Clients, staff and retries act on one policy at once. The
  services rest on `select_for_update`; the admin pages, the rating rules, the
  history endpoint and the listing take no lock at all.
* **Atomicity and failure.** A payment, its activation, the transition row and
  the policy row must appear together or not at all, wherever a worker dies.
* **Repetition.** Idempotency keys are looked up under a row lock of one policy
  but are unique over all of them.
* **Time.** Quotes lapse while they are being accepted; rules and ages change
  from one day to the next.
* **Restarts.** The demo seeding meets whatever staff made of its rows.
* **Stale authority.** A request reads its account, then its policy, then acts;
  roles, links, owners and the account itself may change in between.
* **Overlapping calls of one client.** The demo page lets buttons be pressed
  while earlier calls are under way, or lost.

`PROJECT.json` lists every hazard at its line with the properties that would
catch it.

### What makes each component correct

* Services and payments: history and state agree at every commit; a policy is
  charged at most once and by the payment its activation names; a key is on one
  payment; a success that was answered is in the tables; a lapsed quote is not
  accepted; calls do not wait for ever; all of it looks atomic from outside.
* Admin pages: whatever they write, history only grows and payments keep the
  activation they were taken for.
* Rating: at most one rule applies to an age and a day, for as long as editors
  stay out of each other's way; stored quotes can be explained by their rule
  until it is edited; premiums are exact to the cent and never below the minimum.
* Customers: ages count birthdays, in leap years too.
* Seeding: a restart restores the demo or leaves everything as it was.
* Listing and search: with nobody writing, each policy is shown once, in order.
  With others writing, a walk in the default order misses a policy only if it, or
  one listed before it, left the query, or if one came to match between a COUNT
  and its slice; a section of a search shows what its count says, less what has
  gone since.
* Views and scope: a success had its object in scope at some moment of the call,
  a 404 had it missing or hidden; both kinds of routes mean the same; every row
  of a trail names who made it; a failure has the envelope unless the database
  changed under the call.
* Demo page: the steps share one quote and one customer, one press makes at most
  one quote, and the page shows which request an answer belongs to.

## 2. The modules

| module | models | kind |
|---|---|---|
| `PolicyStateMachine` | the seven states and the legal moves | operators |
| `PolicyBook` | what the services promise: four atomic operations on states, trails and receipts | abstract specification |
| `PolicyServices` | the services and the views that call them, statement by statement | detailed specification, properties, inductive invariant |
| `QuoteViews` | what a request means, who may make it, what it answers; accounts, links and owners changing under it; the services as `PolicyBook` | composition of views and `PolicyBook` |
| `QuoteViewsProofs` | theorems about it | proofs |
| `PolicyServicesProofs` | theorems about `PolicyServices`: tables, answers, refinement of `PolicyBook` | proofs |
| `PolicyAdmin` | `PolicyServices` composed with the staff pages | specification |
| `PolicyAdminProofs` | theorems about it, on top of those about the services | proofs |
| `RatingEngine` | rule selection, overlap, premium, eligibility | operators |
| `RateBook` | pages of rules edited by several people while quotes are priced, named and stored | specification |
| `RateBookProofs` | theorems about it and the engine | proofs |
| `CustomerAge` | `age_at` and `clean` along the calendar | specification |
| `SeededRates` | `CustomerAge` and `RatingEngine` composed with the seeded catalogue | specification |
| `SeededRatesProofs` | theorems about the calendar, the ages, the bands and the cents | proofs |
| `SeedDemo` | container starts between edits of accounts and customers | specification |
| `SeedDemoProofs` | theorems about it | proofs |
| `PolicyListing` | a client walking pages, or searching, while rows appear, move, go and change hands | specification |
| `PolicyListingProofs` | theorems about it | proofs |
| `DemoPage` | the demo page's script as a client of `PolicyBook` | composition of page and `PolicyBook` |
| `DemoPageProofs` | theorems about it | proofs |
| `MC*` | constants, calls and symmetry for TLC | instances |

Each module carries, beside the definitions it models the code with, a few
operators marked "A bug": a definition changed the way a plausible mistake in
the code would change it. They are used to see that the properties would notice.

### How `PolicyServices` corresponds to the code

A worker `w` serves one call. `pc[w]` is where it is:

| `pc` | code | leaves by |
|---|---|---|
| `idle` | waiting for a request | `Receive` |
| `called` | in the view: `_create_quote`, or `_get_policy` | `CreateQuote`, `RefuseQuote`, `NoSuchPolicy`, `BadMethod`, `GetPolicy` |
| `read` | `PolicyHistoryView`, between its two statements | `ReadHistory` |
| `lock` | at `select_for_update().get(pk)` | `LockRow`; in `PolicyAdmin`, where rows can be deleted, `LockMissingRow` |
| `work` | after it, in `accept_quote` or `simulate_payment` | `AcceptQuote`, `CheckPayment` |
| `insert` | at `Payment.objects.create` | `InsertPayment` |
| `activate` | at `activate_policy`, which reads the row again | `Activate` |
| `save` | `_apply_transition` done; before the save and the commit | `Commit` |
| `respond` | the transaction is over | `Respond` |
| `replied` | answered | `Finish` |

`policies`, `transitions` and `payments` are the committed tables. What an open
transaction wrote is in `row[w]`, `entry[w]` and `receipt[w]`, which `Commit`
copies into the tables in one step and `Refuse` or `Crash` drops: this is READ
COMMITTED with `transaction.atomic`. `rowLock` is the `FOR UPDATE` lock; the
transaction of `simulate_payment` keeps it through the nested
`activate_policy`. `InsertPayment` waits while another open transaction has the
same key and fails if one that committed has it, as PostgreSQL's unique index
does. `create_quote` is one action: nobody can name its row before it commits.
The stamps `accepted_at` and `activated_at` are taken at the commit, so a tick
may come between the expiry check and the stamp, as in the code.

The amount of a payment is the premium of its policy, which never changes after
quoting, so `SameRequest` compares policy and method. `PassedKey` is Null for
calls that come through the view, because `_pay_quote` hands no key on; calls
with `via = "library"` are direct calls of `simulate_payment` with a key, as
the repository's tests make them.

### How the other modules correspond to it

* `PolicyAdmin`. A change page reads a row without a lock (`LoadChangeForm`) and
  saves all its columns (`SaveChangeForm`), as `ModelAdmin` does: read-only
  fields are left out of the form, not out of the UPDATE. The UPDATE waits for a
  row lock. Deleting is refused for a policy with transitions or payments
  (`has_delete_permission` of the transition admin; `PROTECT` on payments).
* `RateBook`. `ValidatePage` is full_clean of the rows of a page against the
  table, `SavePage` the saves that follow, by any number of editors. `PriceQuote`
  and `NameRule` are the two readings in `create_quote`, `StoreQuote` its insert
  and commit, which fails if the rule it names is gone. Rules are of one product;
  money is in cents. Three variables are history. `stale`: whose open page
  another's save has overtaken. `disturbed`: the quotes whose pricing rule was
  edited since. `clashed`: the quotes before whose second reading active rules
  overlapped.
* `SeededRates`. The rates of the migration in hundredths, days only to age the
  customer: the seeded rules never end.
* `SeedDemo`. `Seed` and `SeedFails` are `handle` with its `update_or_create`
  calls in one transaction; between starts the admin edits anything it may.
* `PolicyListing`. A row is dated (`Insert`) before its transaction commits
  (`Appear`), so rows may appear behind newer ones. `Delete` is the admin's
  deletion of a policy without history; `Rescope` is every edit of an owner, a
  link or a role that changes what the client may see (`scope`). `Written` keeps
  the history the properties speak of: `quiet` while nobody writes, `torn` when a
  policy came to match between a COUNT and its slice, and `pulled`, the policies
  that left the query or had one before them leave it. `CountSection` and
  `FetchSection` are the two statements of `SearchView._section`.

### How `QuoteViews` corresponds to the code

`Meaning` is what the views make of a request before any service is called:
`Dispatch` decides on the keys of the body as `QuoteDispatchView.post` does,
`CreateMeaning` and `TransitionMeaning` are the two serializers, which refuse
unknown keys, `PayAlias` is `QuotePayView`, which asks no serializer. A body is a
function on the keys it has; a cover and a date of birth are in order or not
(`RefuseCall`, `CreateCustomer`).

A call takes three or four steps, each of which reads the database anew.
`Receive` reads the account of the token or session and asks the permission
class. `LookUp` is the scoped SELECT of `_get_policy`, or the two lookups of the
create serializer and the check of the customer in `_create_quote`; `CheckForm`
is the form of a new customer. `Price` reads the rule and the reference a quote
will be written with. `CreateQuote`, `MovePolicy` and `CreateCustomer` write; the
first two are one step of `PolicyBook`, which `PolicyServices` is proved to
implement. Between them staff change a role, a link or an owner, add policies, and
delete accounts, customers, policies without history, and rules and products
(`DeleteFromCatalogue`); and another row may take the address or the reference
(`Take`). What a call holds of the catalogue and of unique values is in `hold`.
When a row that the new ones name is gone at the commit, or a unique value is
taken, all is rolled back (`RollBack`); when the policy is gone at
`select_for_update().get`, nothing was written yet (`MissRow`). `CodeOf` is
`custom_exception_handler`; "bare" is a 500 without the envelope. An account that
is disabled instead of deleted is like one that was deleted before the request,
so disabling is not an action.

`seen`, `unseen` and `authors` are history: was what the call asks for in its
account's scope at some moment of the call, was it hidden at some moment, who
made each row. They are worked out from the accounts as the documents define
scope (`Sees`), not from `InScope`.

### How `DemoPage` corresponds to the code

`field` are the inputs, `preview` the lines under the GET forms, `token` and
`label` the login, `line`, `out` the request echoed and the answer shown. `Press`
is the synchronous part of a button and of `call()`; `Return` is what follows its
awaits, filling fields included; `ReturnBroken` is an answer whose body cannot be
read, of which the page shows the status and fills in nothing; `Type` is an input
with its `oninput`. `Lose` is a `fetch` that rejects: the server may have served the
call, may yet, or never. A field that is empty is Null: its preview shows a
placeholder, and its button sends a path without an id.
The server is open (`DEMO_OPEN_API`), as the page is meant to be used.

## 3. The runs

All runs use `tlc -config <cfg> <module>`.

| run | instance | shows |
|---|---|---|
| `services_lifecycle` | 1 policy, 2 workers, 1 key, clock 0..3, validity 1 | every kind of call to one policy: creation, acceptance by client and staff, payment by card and invoice, keyed and through the view, unsupported methods, binding by hand, history; with lapses and crashes |
| `services_keys` | 2 policies, 2 workers, 1 key, no clock | keys shared between policies, refinement of `PolicyBook`, and liveness |
| `admin_pages` | 1 policy, 2 workers, 1 editor, 3 pages | what pages cannot break |
| `rate_rules` | 2 rules in 6 shapes, 2 editors, pages of up to 2 rows, 1 quote | how rules come to overlap under add, change, delete; which quotes their rule explains |
| `catalogue` | 26 dates of birth, 2096 to 2100, 10 covers | ages, seeded bands, rounding |
| `demo_restarts` | 3 account rows, 2 customer rows | seeding on any restart |
| `policy_listing` | 3 policies, pages of one, results capped at two, 2 ticks | paging and search under writes of every kind, in the default order, filtered, and by state |
| `principals` | 2 accounts, 2 customers, 1 policy, 1 worker | every route, with bodies of every kind, by anybody, while staff and others make all eight kinds of change |
| `browser_page` | 2 policies, 2 customers, 1 address, 3 presses, 2 calls at once, 1 field typed into | overlapping, late, broken and lost answers |
| `keyed_retry`, `stale_page_recharge`, `two_editors` | smallest that show it | section 4 |

Five of the runs check, beside the properties, the inductive invariant the
proofs of section 5 use: `ServiceInv`, `AdminInv`, `ViewsInv`, `PageInv` and
`QuoteInv`; `demo_restarts` checks `TypeOK`, which is inductive as it stands. Each
contains its module's type invariant.

**Why the bounds are enough.** The services relate calls to one policy pairwise
through its lock, so two workers meet in every order; the theorems hold for any
number of both. A second policy matters only where keys are shared, which has a
run of its own. Validity 1 and clock 3 leave a tick before the expiry, at it,
and after it. Overlap relates two rules, so two rows of the table suffice, two
editors to overtake each other, and pages of two rows to overlap within; the
six shapes are a rule, one that touches it on its last day at another rate, one
next to it in age, one after it, one withdrawn and one with its ages the wrong way
round, so that a choice of two may overlap, be apart in either direction, or be
invalid. Ages 18 to 70 all occur in `catalogue`, and the five years hold a
leap day and the end of a century without one. Three rows and pages of one give
two page boundaries; ties on `created_at` occur because there are two ticks for
three rows; a cap of two is below, at and above what a search may find.
`policy_listing` has a constraint, `Open`: TLC does not look beyond a state in
which the walk is over, or is torn, or has shown every policy it owes. There
nothing can break any more: what was shown stays shown, `pulled` and `torn` only
grow, a walk that was written to is not quiet again, and the states left out
differ from those explored only in rows no property speaks of.

Calls meet in the book only through policies, which `services_lifecycle` covers,
so in `principals` one worker is enough for a call to race the staff; two
accounts and two customers allow for a stranger, a relink from one to the other
and an owner that moves. Three roles are two kinds (`Privileged` or not), so two
are given. In `browser_page` three presses allow for two calls that overlap
followed by a third that uses what they filled in, and two quotes by one page.
The page treats all buttons that fill nothing in alike, so of pay, list and history
none is pressed: accept and detail stand for them.

`CHECK_DEADLOCK FALSE` stands where the system really may stop: all rules or
quotes of the instance are used up, the calendar or the listing has ended, no
press is left in `browser_page`, or the container is up and `OtherEmails` and rows
leave staff nothing to type.

**Fairness.** Only `Answered` uses it. `WF(Serve(w))` says a worker process that
can take a step takes one: it is an operating system process. `SF(LockRow(w))`
and `SF(InsertPayment(w))` say that a statement waiting for a lock is granted it
when it is free again and again: PostgreSQL queues waiters. No fairness is
assumed of clients, crashes or the clock; a worker that holds a lock may die,
and its lock is freed with it.

## 4. Where documents and code part

Three runs show a disagreement, each with the finding in `PROJECT.json`:

* `keyed_retry`: `docs/API.md:96-97` says an Idempotency-Key makes retries of
  pay safe; `_pay_quote` (`apps/policies/views.py:72`) drops it, and the retry is
  answered with a conflict.
* `stale_page_recharge`: a change page saved after a payment it was read before
  turns the policy back to accepted. State no longer matches history, and the
  policy can be charged again.
* `two_editors`: overlapping rules can be stored, which ADR-0006:29 excludes.

Others follow from what the passing runs and theorems leave open; those with a
name of a property in front are findings in `PROJECT.json` too:

* `FailedBootExplained`: an edited address of the demo customer stops the
  container from starting, against `scripts/docker-entrypoint.sh:2-3`; nothing
  else does.
* `RoutesAgree`: the REST alias for pay takes a blank method for the card and
  ignores fields it does not know, which `/quote/` refuses, although
  `apps/policies/views.py:4-5` says the routes cannot drift.
* `BareErrorsExplained`: a call under which its account, customer, policy, product
  or rule is deleted, or an address or reference is taken, is answered without the
  envelope of `docs/API.md:4`; the property shows that there is no other way to
  such an answer in the views modelled.
* `TrailNamesAuthors`: deleting an account rewrites the actor of its rows, against
  ADR-0007:28.
* `PanelPairs`: with calls under way at once the demo page can show one call's
  answer under another's request (`index.html:242`), and after a login the address
  typed since.
* `ConsistentlyOrdered`: `ordering=state` and `ordering=premium` have no tie-break,
  so pages may repeat and skip rows, against `docs/REQUIREMENTS.md:142-143`.
* No code moves a lapsed quote to `expired` (`LapsedStaysQuoted`).
* Staff can bind a policy without payment, which `payments/services.py:5-6`
  excludes; `PaidUnlessBoundByHand` shows it is the only way.
* Two policies paid with one key at once give a 500 where
  `docs/REQUIREMENTS.md:449` promises a 409 (`ServerErrorOnlyAcrossPolicies`).
* The add page makes policies without a genesis transition
  (`AddedPoliciesInert`).
* Two overlapping rows on one inline page are stored, against ADR-0006:29:
  `OverlapsExplained` has this as one of the two ways to an overlap. A rule edited
  in place leaves quotes it no longer explains, against ADR-0006:25 (the
  `disturbed` quotes), and while rules overlap a quote may name one that did not
  price it (the `clashed` quotes).
* A walk through the pages may miss policies when others leave the query, which a
  client that walks to find everything has to know (`NothingSkipped`).

## 5. What is proved

Every safety property the runs check is also a theorem: TLC shows it on the
instance of its run, the theorem for every value of the constants. No theorem
bounds policies, workers, keys, accounts, customers, calls, pages or the clock.
Besides the named assumptions on constants, which say that Null is no value of
another type, that parameters are numbers and that requests are well formed, one
theorem has a hypothesis: `OnlyStaffBind`, below.

### `PolicyServicesProofs`

The tables' agreement is not inductive: that an activation keeps it depends on
what the worker read before. `IndInv` adds what every worker knows at its place.

* `CallFits`: a place belongs to its kind of call, and its policy exists;
* `LockProtects`: inside its transaction a worker has the row lock, and until it
  saves, its instance *is* the committed row;
* `WriteLegal`: at `save` it holds one legal step from the committed state; a
  payment taken belongs to a policy that is still accepted;
* `KeyReserved`: a key on an uncommitted payment is on no other.

`NextIndInv` has one lemma per action; `OthersStay` carries the other workers
through: they survive any step that touches only rows its worker has locked.
From `IndInvHolds` follow `TypeCorrect`, `HistoryNeverDrifts`, `PaidOnceAndBound`
(`ChargedOnce` and `PaymentsBind`) and `KeysNeverShared`. `ServicesImplementBook`
maps `CreateQuote` to `Quote` and `Commit` to `Accept`, `PayAndBind` or
`BindByHand`, and every other step to a stutter.

`LapsedQuotesStay` proves the action property `LapsedStaysQuoted`: by
`LockProtects` the instance whose expiry `AcceptQuote` looks at is the committed
row, so no acceptance of a lapsed quote reaches `save`, and by `WriteLegal` a
payment or binding that does reach it started from `accepted`.

What clients are told needs more, because a call is answered after its
transaction is over and its lock is gone. `ServiceInv` is `IndInv` and

* `StampsInv`: no state but four is reached, and no stamp is later than the
  clock, without which a stamp taken at a commit could precede the one before;
* `AnswerFits`: at `save` and `activate` the receipt and the source are those of
  the call; from the commit on, what the call will say is in the tables (`HasRow`,
  `SameRequest`); the state a history request has read is a row of the trail;
* of two rivals at most one has `Won`, counted from the commit and not from the
  answer: `OneWinner` speaks of answers, and two calls could both be on their way.

`Grows` is the lemma that carries all of it over the commits of others: tables
only grow, and a policy moves only forward. From `ServiceInvHolds` follow
`StampsNeverDrift`, `NoTwoWinners`, `AnswersTrue`, `ServerErrorsExplained` and
the action property of `RepeatedPaymentsReplay`: from its check to its answer, a
repeated payment takes no step but those to the answer ok, and these leave the
tables alone. `NoTwoWinners` is about payments without a key, acceptances and
bindings whose answers stand at one moment; answers given at different moments
are compared by `PaidOnceAndBound` and `HistoryNeverDrifts`, through the tables.

`ActivePaidOrBoundByHand` assumes `OnlyStaffBind`: requests to bind come from the
admin. In the code `activate_policy` has two callers, `simulate_payment` and the
admin's action (`apps/payments/services.py:85`, `apps/policies/admin.py:89`), and
no route; in the model the first is the payment and only the second is a call
`bind`. A library caller of its own would activate without payment and without a
trace of staff.

### `PolicyAdminProofs`

`IndInv` does not survive the staff pages: a page saved late turns a row back,
so history no longer ends at the state shown, a policy may be charged twice
(`stale_page_recharge`), and stamps may be missing. What the services still do
right beside such pages is `AdminInv`:

* `HistoryFits`: the state shown is one *somewhere* in the trail; a policy without
  trail is new, or not there, and unpaid;
* `FormFits`: the same of the row an open page would write back, for as long as
  the page is open, and its id will not be given to a new quote;
* `RowHeld`: a worker's locked row is the committed one, because the UPDATE of a
  page waits for the lock and a deletion is refused.

Every step of the services is proved again over it; what a step needs of the
tables is only what `RowHeld` says. `StatesWereReal`, `AddedPoliciesStayInert`
and `PaymentsStayNamed` follow, and `HistoryOnlyGrows` is an action property.

### `QuoteViewsProofs`

`ScopeHolds` speaks of moments of a call, which are gone when it answers.
`ViewsInv` says what a call holds at each place: who it was admitted as, that its
object exists once it is found, and that it was seen in scope (`RequestHeld`).
`Watched` is the lemma about history variables: a step of anybody that leaves the
request alone only adds to what was seen and hidden. `BareErrorsHaveCauses`
rests on rows never coming back: what is gone at the commit was there at the
lookup, and `hold` remembers what became of the rest.

The proof decided a question of wording. Scope is judged in the role the account
had when it was authenticated. With the role it has now, the property is false:
a call admitted as staff that looks its policy up after a demotion still sees
all. The run, which has one worker, had not shown it; the comment at `ScopeHolds`
now says which is meant.

`RoutesNeverDrift` is over every body, not only those of the run: a function on
any set of keys, with any values.

### `SeedDemoProofs`

`TypeOK` is inductive as it stands because it holds the unique address of a
customer and the one-to-one link to an account; `OneRowWritten` is the lemma
about one edit. `FailuresExplained`: the customer a seeding would relink collides
only with one whose address staff have changed. `StartsRestoreDemo` is about the
one transaction of a start.

### `DemoPageProofs`

`PageInv` adds to the properties what every call has done (`Made`), that what is
in a field and was not typed came from an answer that was shown (`Announced`),
and what is true of a user who waits (`Waits`). The previews are written from
the fields as they are after filling, in the same step. No bound on calls under
way, lost or late.

### `SeededRatesProofs`

From `CalendarAssumption`: dates of birth and the first day are days of the
calendar, the limits of age are numbers. `KeptBirthdays`
relates the comparison of (month, day) that `age_at` makes with the number of
birthdays kept, one born on 29 February keeping it on 1 March in common years;
`AgesCountBirthdays` and `CleanWindowExact` follow for every date of birth and
every later day. `EveryAgeHasItsBand` goes through the bands of both products;
`PremiumsToTheCent` is arithmetic on the rates in hundredths: the premium is never
below the band's minimum, it is the nearest cent wherever the exact price reaches
that minimum, and the minimum only where it does not.

### `PolicyListingProofs`

A listing is any order of the rows that respects the order asked for, so where
rows tie it is not determined. `MayStand(query, p, i)` says without choosing one
that `p` may be the `i`-th: fewer than `i` rows precede it, and at least `i` do
not come after it. `RowsMayStand` shows it of every listing, `PlacesAreOrdered`
that rows from different listings, each in a place where it may stand, are in
order. So the pages of a quiet walk, each from a listing of its own, are ordered
and as many as the rows (`QuietWalk`), and where there are no ties there is one
place for a row (`OnePlace`), so that each is shown: `WalksAreOrdered`.

Under writes, a row that was there when the walk began and was not pulled either
has been shown or has more rows up to it than the pages so far hold
(`GrowingWalk`). Others can only push it back: a write that takes a row from
before it out of the query pulls it (`MatchingRows` and `UnpulledStay` carry this
over every write), and only a row that comes to match between the COUNT and the
slice can push it over the end of a page that was taken to be the last.
`WalksSkipNothing` follows, for filtered walks and unfiltered ones. `SectionInv` and
`SectionsCoverTheirCount` are the same for the section of a search, for any cap. The page arithmetic is `PagesReach` (a
next page is linked exactly when rows are left) and `SliceRows`.

### `RateBookProofs`

`AtMostOneRule`: two active rules that both fit an age and a day overlap, so a
table without overlap gives `select_rule` no choice. `RoundIsNearest` is arithmetic.
The other theorems hold for any number of editors and of rows on a page, although
the table does come to overlap under them (`two_editors`). `QuoteInv` has

* `PagesFit`: a page that no save has overtaken would pass its validation again. A
  deletion leaves it so (`FewerToFit`), and a save makes every other open page
  stale;
* `PricesStand`: while an unclashed quote is between its readings no active rules
  overlap, and the rule that priced it is there unless its edit is remembered.

`OverlapsAreExplained` is an action property: a page that fits and whose rows are
apart keeps the table apart (`SaveKeepsApart`), and nothing but a save adds a rule
(`OthersKeepApart`). `QuotesExplainedUntilEdited` rests on `SecondReadingAgrees`: by
`AtMostOneRule`'s argument the second reading finds the rule the first one found.
The quotes it exempts are the `disturbed`, whose own rule was edited, and the
`clashed`; TLC reaches both, and without either exemption finds a quote its rule
does not explain.

## 6. What is only model-checked

Liveness: `Answered`, under fairness, which is beyond the prover. The runs
of section 4 have counterexamples instead: `KeyedRetriesSafe` is false of the
views, `ChargedOnce`, a theorem of the services, is false beside staff pages, and
`TableNeverOverlaps` is false with two editors (`OverlapsExplained` says how).
`ListingInv` is the one inductive invariant no run lists; its parts that are
properties are checked, and TLC found no violation of the whole on the instance
of `policy_listing`.

## 7. What is abstracted

Names, amounts, currencies, reasons, metadata other than the payment
named, request ids, logging and the wording of answers. The framework is known
from how the code uses it: the admin's form handling, the paginator, the unique
and one-to-one indexes, locks and isolation of PostgreSQL. On the SQLite
fallback (`config/settings/base.py:99`) `select_for_update` does nothing, and
the theorems do not speak of it.

Superusers and Django's own permissions are not told apart from roles: the admin
routes of `QuoteViews` are open to every account that is asked of them. Whether a
quote has lapsed is nondeterministic there, and exact in `PolicyServices`. Failures of
the database itself, and values its columns cannot hold (a premium too large for its
column), would be answered without the envelope too; they are not modelled.

## 8. Not modelled, and the plan

* **Token lifecycle** (`apps/accounts/views.py`, `SIMPLE_JWT`): login, rotation with
  blacklist, logout. The views are thin subclasses of simplejwt's; its tables and
  its algorithm are not in this repository, so a model of the race between a
  refresh and a logout would be a model of the library. What the API sees of it
  is in `QuoteViews`: a token that outlives its account.
* **Payment admin**: read-only pages.
* **Configuration**: its numbers are the constants of the modules.
* **Formatting in the common layer**: request ids, JSON logs, date formats, the
  schema, the health check.
* **What `q` and the filters match**; the list of customers, which is paged like
  that of policies with an order that has no ties (`customers/views.py:32`).
* **Editing a product**: no quote reads it twice.

Left to prove: a refinement of `PolicyBook` by `DemoPage` and `QuoteViews` as a theorem rather than by using its
operations, and that a walk with `ordering=state` shows a row at most as often as
ties allow.
