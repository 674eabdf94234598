# Ogen backend: TLA+ models and proofs

Ogen is a NestJS API over PostgreSQL (Sequelize), deployed as serverless
functions. Users connect their bank accounts; a separate scraper worker logs in
to the banks and reports what it found; the API imports the charges, recognises
recurring ones as subscriptions, scans for money leaks, drafts cancellation
e-mails and rewards the user with experience points. This directory holds
TLA+ modules of that program, the TLC configurations that check them, and
proofs that TLAPS checks.

All paths below are relative to the repository; `modules/` stands for
`src/modules/`.

## 1. Inventory

| Part | State it keeps | Operations | Talks to |
|---|---|---|---|
| Bank connections (`modules/bank-connection`) | one row per user and company: status, login, one-time code, instants of the last attempt, the last sync and the code request | connect, disconnect, submitOtp (user); claim, requestOtp, takeOtp, reportSuccess, reportFailure (worker) | starts imports, awards experience, notifies |
| Scraper worker (external) | open browser sessions | polls `bank-sync` | the claim hands it a login |
| Statement imports (`modules/statement-import`) | one row per import: status, count, its connection | startBankImport and its background pipeline, failImport, undo | vendors, transactions, subscriptions, leak response |
| Transactions (`modules/transaction`) | soft-deleted rows: vendor, import, subscription, external id | import, enter, link, attach, delete, sum up, recurrence detection | subscriptions |
| Subscriptions (`modules/subscription`) | status, price, cycle, vendor | create, find or create, update, request and confirm cancellation, delete | experience |
| Insights (`modules/insight`) | type, status, what it is about | scan, update status, delete with a purge | experience |
| Draft actions (`modules/draft-action`), leak response and cancellation agent | one draft per insight | create, approve, reject, delete with a purge | insights, language model |
| Vendors, aliases, classifier, cancellation contacts (`modules/vendor*`, `modules/cancellation-contact`) | shared by all users: names, classification, contact, description patterns | find or create by name, backfill, promote, refresh contact | language model, web search |
| Experience (`modules/xp-event`, `xp-action`, `level`) | event log, `users.total_xp`, level ladder | award | users |
| Users, authentication, guards | accounts; in-memory rate-limit history | register, update, delete, log in | |
| Pagination, filters, logging, bootstrap | none | | |

### What is hard

* **No handler is atomic.** Every operation is a chain of single statements, and
  many instances run over one database. What a handler read may be gone when it
  writes (`getInFlight` followed by `update ... where id`).
* **Work goes on after the answer.** `startBankImport` returns at once and its
  pipeline goes on under `waitUntil`. It overlaps other pipelines, undo and
  disconnect, and ends with its instance.
* **The worker crashes, is late and repeats itself.** A claim is a lease of one
  hour that nobody prolongs; a report names the row and not the claim.
* **A person is in the middle of a handshake.** The code of an SMS travels user →
  row → worker, and the user may enter the login again or disconnect meanwhile.
* **Part of an operation fails.** Several steps are only logged when they fail.
* **Transactions wait.** An import inserts vendors that another import inserts at
  the same time, and an award reads over a second connection of the pool while its
  transaction keeps the first.
* **What counts as a subscription is a judgement.** A dozen thresholds over
  amounts and dates decide it, in memory for one half and in SQL for the other.

The list of hazards, each at its line with the properties that would catch it,
is `hazards` in `PROJECT.json`.

### What makes each part correct

* Bank connections: one live scrape per entry of a login; a row in flight can always be
  claimed again; a code is returned once; a refused login waits for the user;
  no row looks synced without an import; only the first sync is rewarded.
* Imports: every import ends; an ended import stays as it is; no charge is
  stored twice; disconnecting leaves nothing of the account behind and nothing
  that another account still needs is removed.
* Leak response: a new leak is answered; an insight is rewarded once; no insight about
  a removed subscription, and no draft in the way of a disconnect.
* Vendors: one vendor per merchant, however it is spelled; a resolved field is not
  overwritten; what is classified gets a vendor, whoever stores it.
* Subscriptions: what an import takes for one is proved by the user's charges, and
  what they prove is found; its charges are at its price; a vendor does not get a
  second one; a cancelled one stays cancelled; a summary counts every amount once.
* Experience: the total is the sum of the log; a level is reported when it is
  crossed; an award comes with what it is for; no award waits for ever.
* Scraped transactions: no charge falls between the windows of two syncs, however late
  the bank posts it; none is stored as pending and again as completed.
* Users: one account per address; a removed account earns nothing.

## 2. Modules

| Module | Models |
|---|---|
| `BankConnection` | the row, the claim protocol, the worker's sessions and the unfinished handlers |
| `BankConnectionProperties` | its properties and the inductive invariant |
| `BankConnectionProofs` | the proofs, and that the claims implement `LoginLease` |
| `LoginLease` | the lease of a login that the claims implement |
| `MCBankConnection` | its symmetry, and a view without the histories its invariants do not use |
| `StatementImport` | imports, pipelines, undo and the purge of a disconnect |
| `StatementImportProofs` | the proofs of what it promises |
| `MCStatementImport` | two accounts billed by one vendor |
| `LeakResponse` | insights, drafts, scans, and what a purge removes of them |
| `LeakResponseProofs` | the proofs of what it promises |
| `MCLeakResponse` | its symmetry, a view without `excused`, and what the user posts |
| `VendorCatalog` | vendors, aliases and the imports that extend them, in their transactions |
| `VendorCatalogProofs` | the proofs of what it promises |
| `MCVendorCatalog` | a service that the classifier spells in two ways, and a gym |
| `Recurrence` | the rules that recognise a subscription in charges, as operators |
| `SubscriptionPlans` | subscriptions, the charges billed to them, and a summary |
| `SubscriptionPlansProofs` | the proofs of what it promises of prices, recurrences, second plans and summaries |
| `MCSubscriptionPlans` | gym fees on time, early, at a new price and beside a drink |
| `XpLedger` | accounts, awards, levels and the pool of connections |
| `AwardLedger` | totals, the ledger and subscriptions, as an award changes them in one step |
| `MCXpLedger` | its symmetry, and the edits of an administrator |
| `XpLedgerProofs` | the proofs of what it promises |
| `SumTheorems` | facts about sums over finite sets, proved by induction |
| `SyncWindow` | what the syncs of a connection ask the bank for, and what they keep of it |
| `SyncWindowProofs` | the proofs that no charge is missed |

No module includes another one's state: each asks questions of one part, and
takes from its neighbours what they promise it. An import runs through three of them,
in the order of `runImportPipeline`: `VendorCatalog` gives its rows their vendors,
`StatementImport` stores them, `SubscriptionPlans` judges and links them; a new
subscription brings the award of `XpLedger`. `BankConnection` starts imports, `SyncWindow`
has what they are given, and
`StatementImport` and `LeakResponse` share the purge of a disconnect.

### BankConnection

One `(user, company)`. The table has a unique index on the pair, so there is at
most one row, `connection`; connecting again after a disconnect makes a row with
another id. Distinct rows do not interact: a claim is one `UPDATE` that locks and
re-checks each row.

A handler of the API is split at every statement that another process can come
between. `calls[c]` is a handler that has read and not yet written: what it will
write, and to which id. So `RequestOtp` is the read (`getInFlight`) and
`RequestOtpFlag` the write; the write goes to the row *by id*, as
`UPDATE ... WHERE id` does, over whatever the row has become, and does nothing
when the row is gone. A claim is a single statement and a single action
(`ClaimPending`, `ClaimScheduled`). `AbandonCall` is a failing statement or the
end of the instance, at any point.

The user may enter any login at any time that the in-flight check allows, also the very
one that is in the row or in an open scrape. Storing it (`StoreLogin`) resets the row, so
that it is claimable at once, and tells no scrape: `renewed` marks the sessions that were
handed the login before.

The worker is external. A session is one scrape, with the id and the login it was
handed and how long ago. Nothing is assumed about its reports: any kind, any
number, in any order, however late. `EndSession` is a scrape that ended or
crashed.

Time is a `Tick` that ages everything. Instants are kept as ages that stop
growing past the windows they are compared with, so the model is finite without a
bound on time. The proofs need only `StaleClaim < MinSyncInterval` (an hour and
twenty hours in `bank-sync.constant.ts`).

`imported`, `awarded`, `rejected`, `handedOut` and the mark `renewed` record what
happened, for the properties only: no guard of the program reads them. Ids and codes,
which are made anew each time, are reused when nobody refers to them any more, and
their history is then forgotten, so small sets stand for unboundedly many. A login is
`rejected` from the refusal that is stored until it is entered again; a refusal whose
row is gone is dropped, as in the code. `claims_overlap` identifies states that
differ only in what its properties and every action ignore (`Visible`): `imported`,
`awarded`, `rejected` and `handedOut`, and the login and the age of a scrape that is
stale or whose login was entered again.

### StatementImport

Imports of one user. A pipeline is a record with the step it is at and what it
holds: the rows given, the rows left after deduplication, the active
subscriptions it saw, the vendors it still has to confirm. One SQL statement or
one commit is one action. A purge is the database transaction of a disconnect:
it sees its own deletions at once, everybody else at `PurgeCommit`.

A charge is what a bank posted. Two charges clash when they have the same
external id or the same date and amount; `formatRow` drops the second. Which of two
clashing rows comes first, and which of two active subscriptions of a vendor is
the oldest, is left open. `PipelineThrows` is a failure of any statement outside a
`catch`; `InstanceStops` is the end of the instance, which no handler sees.

Unlike the code, recurrence is decided by counting charges, and every charge of a
vendor is at the price of its plan.

### LeakResponse

The leaks of one user. `subjects` has the subscriptions and charges an insight can
be about, reduced to what this module asks of them: whether a row is active,
stored, deleted by the user (`ABSENT`) or removed by a purge (`PURGED`). A scan
holds the queries not answered, the leaks found and not inserted, and a response
per new insight with the step it is at. Its promises run side by side: `ScanFails`
drops one and lets the others go on, as a rejected `Promise.all` does, and
`ResponseFails` ends one response, as `Promise.allSettled` allows. `UnreadExists`
is the partial unique index that makes a repeated detection a no-op.

What a query detects depends on prices and kinds of service: `Detected` has every
result it may have. `UpdateInsightStatus` is one step, because its read decides
about the reward only, which is left out; the decision about a draft is split
into `UpdateDraftStatus` and `StoreDraftStatus`.

The purge is the tail of the transaction that `StatementImport` models up to the
orphaned subscriptions: here they are any set, and `FindIdsLinkedTo`,
`DeleteByInsights` and `PurgeCommit` remove what refers to them. `DraftInTheWay`
is the foreign key of a draft, which makes the commit impossible.

`excused` says why an insight got no draft, for one property only.

### LoginLease

Who holds each login, and nothing else: a login goes to a scrape that holds none
when nobody holds it, scrapes lose what they hold, and a login that is entered again is
taken from all. `BankConnectionProperties` maps `holders` to the sessions that are neither
stale nor `renewed` (`Holders`), and `ClaimsAreLeases` says that every behaviour of
`BankConnection` is one of `LoginLease`: a claim is an `Acquire`, a tick or the end of a
scrape a `Lose`, a connect that is stored an `Enter`, and everything else nothing. It says
more than `OneScraperPerLogin`: no step but a claim puts a login in anyone's hands, none
moves one from scrape to scrape, and a disconnect, a late report or a late write takes none away.

It does not say that the bank never sees a login twice. A scrape whose login was entered
again goes on, and the row can be claimed next to it: `connect` looks at the status of the
row only, and before its update. It happens when a claim falls between the two, when the
user enters the login after a `FAILED` report whose browser is still open, and when the user
disconnects and connects again. TLC finds the first at once when `renewed` is left out of `HoldsLogin`.
Nothing in the code excludes it, and nothing there promises that it does.

### VendorCatalog

The catalogue that all users share. `vendors` and `aliases` are the committed rows;
an import holds its own uncommitted ones in `rows` and `links`, and sees both
(`Sees`), as READ COMMITTED has it. A write of a row that another transaction wrote,
or an insert of a key that another one inserted, waits for it (`WaitsFor`); when two
wait for each other, PostgreSQL fails one, which is `Rollback`, as is any other
failure. `CanonicalNames` and `MissingFields` are the pure parts
(`mapToCanonicalNames`, `pickMissingFields`). The classifier answers any part of a
batch, with any answer it may give for a description. Where the code has an order that
nothing fixes, or keeps the order of something else, the model has every sequence that fits
(`Orders`, `InOrderOf`).

A vendor is its name, with a kind and two of the fields that are filled in the same
way. `overlapped` records whether anything was ever concurrent, for two properties.

### Recurrence and SubscriptionPlans

`Recurrence` has `detectRecurrence` and what it calls, one operator for each function.
Amounts are hundredths and dates are days, so the arithmetic is exact: where the code
compares floating-point products, an amount exactly at the 15% may fall on either
side. The range for SQL is rounded to cents as `toFixed` does it (`AmountToleranceRange`),
so that it admits 11.49 for a price of 9.99, which the comparison in memory refuses.
The sort by date is stable over rows that SQL returned in any order: `Chronological`
is every order that may result. The median sorts the amounts of a group (`ByAmount`). A group of similar amounts is the history restricted to the
positions of its charges, so that a group and its place in the history are one thing.

`SubscriptionPlans` has the tables of one user, and a record per unfinished handler, in
the manner of `BankConnection`. An import reads the active subscriptions, stores its
rows, judges their vendors and confirms one recurrence after the other, each in a
transaction of its own that reads the active match and then writes. The requests of the
user are their read and their write; a summary is three queries, the first two in
either order. The rows of a statement come from `Statements`; what the classifier said of the
vendors is `profile`.

`ProvedBy` says what it is for charges to prove a subscription without the steps by
which the program finds out: without a sort, with a median as a rank, and over sets.
`RecurrencesAreProved` and `SteadyPlansAreFound` compare the two from both sides.

### XpLedger

Accounts, and the two requests of a user that earn experience. A request is at a
statement (`step`). A statement needs a connection of the pool, and a transaction keeps
its own from its first statement to its end: `HoldsConnection` and `NeedsConnection`.
An award reads the action and the levels outside of its transaction, that is over
a second connection. `AcquireTimesOut` is the acquire timeout of the pool, `Fail` any
other error. `RowHolders` is the lock of an incremented row.

A removed account still has requests: its bearer token is verified by its signature
alone. `awarded` and `overlapped` are histories for one property. The pool has two or
three connections instead of ten: two awards can then hold all of them, which ten
awards do to ten.

### AwardLedger

What an award is, without statements, transactions, locks and connections: an entry of the
ledger and the same amount on the total of an account in use, and for a subscription the
subscription with it, in one step. `XpLedger` maps `standing` and `totals` to its rows
(`Standings`, `Totals`), and `AwardsAreAtomic` says that every behaviour of its requests is one
of `AwardLedger`: an insert or a removal opens or closes an account, a commit is the award, and
all else changes nothing. It says more than the sums do: no step leaves a total or an entry
without the other, and none changes the total of an account that was removed.

### SyncWindow

The syncs of one connection over time. A charge is what the bank shows of it: its date,
whether it is pending or completed, and when the bank posted it, which may be `Delay` after
its date. A sync is claimed with the start date of `resolveSyncStartDate`, scrapes, and
reports within `Run`; or it gives up, at any point. `ToImportRows` is the conversion: the
rows it keeps, and the ones it turns into an error (`Unreadable`). `queued`, `stored` and
`lost` are the rows of imports that run, that completed and that failed, which is all this
module asks of `StatementImport`. `read` is a history: when the last sync that is recorded
read the bank, and how far back the first one did.

`Delay`, `Run` and the two windows are constants. What the module needs of them is
`Delay + Run <= RESYNC_OVERLAP`: the overlap of a week (`bank-sync.constant.ts`) has room for
the delay of the bank *and* for the time between a scrape and its report, because
`lastSyncedAt` is the time of the report. A report that comes later than `Run`, which
`getInFlight` would accept from a scrape that lost its claim, is outside of the model.

## 3. What is checked

| Run | Bounds | Shows |
|---|---|---|
| `claims_overlap` | 2 scrapes, 2 unfinished handlers, 2 ids, 2 logins, 1 code | types; no two live scrapes with one login, unless it was entered again; a row in flight is dated; the claims implement `LoginLease` |
| `claims_serial` | 2 scrapes, 1 unfinished handler, 2 ids, 1 login, 1 code | a code is returned once; a refused login is not retried; the first sync is rewarded once; under fairness, the login keeps being scraped |
| `imports_serial` | 2 imports of 3 charges on 2 accounts, 1 background task, 1 instance stop | nothing stored twice; nothing of a removed account left; no billed subscription removed; every import ends |
| `imports_overlap` | the same with 2 background tasks | types; an ended import is frozen; its count covers its charges |
| `leaks` | 2 subscriptions, 1 charge, 2 insights, 1 scan or purge, 1 unfinished request | types; a purge leaves no insight about what it removed and no draft stands in its way; each new leak is answered |
| `rejected_retry` | violation | a refused login is retried after a late `requestOtp` |
| `charge_left_behind` | violation | a pipeline inserts charges of a removed account |
| `vendors` | 2 imports of 2 descriptions, 3 names of which 2 are similar, 1 curated vendor and alias | types; classified descriptions get a stored vendor; without overlap, one vendor per merchant and resolved fields kept |
| `plans` | 3 handlers or imports, 2 at once, 9 statements, 2 vendors, 2 subscriptions, 5 charges | types; linked charges are at the price; a summary adds up; recurrences are proved and found; no second subscription; cancelled stays cancelled |
| `accounts` | 2 users, 1 address, 1 insight, 2 requests, a pool of 2 or 3, 2 awards | types; totals match the ledger; addresses are unique; an award is one step with what it is for (`AwardLedger`), comes once, and with its level; nobody is stuck |
| `sync_window` | 3 charges, one of them money that came in and one unreadable; 4 days, a delay and a report of 1 | no charge is stored as pending and as completed; none falls between two windows |
| `evidence_unlinked` | violation | a charge that proves a subscription is not linked to it |

**Why these bounds.** A second session, handler and login are what a conflict
needs: the interesting runs are one scrape that outlived its claim next to its
successor, and one handler that read before another wrote. `claims_serial` has one login,
which is entered and refused again and again: its properties follow one login. Windows of 2, 1 and 0
ticks keep the order *code < claim < sync interval* and let each expire while
another has not. Two accounts with three charges give a vendor that recurs within
one account, a charge without an identifier, and a subscription shared by both.
Two imports suffice to import again what is stored. Two subscriptions are a
duplicate with an anchor and a listed sibling, two insights a response that fails
next to one that goes on. Two imports with two descriptions are the smallest circle
of waits; two spellings of a service and a third name are what can be confused and what
cannot. Three operations are two imports next to a request, or a request that falls between
two others, and five charges are two fees, a drink and a new price beside a purchase
elsewhere; `plans` may stop when its operations are used up, so deadlock is not checked there.
Four days are a sync, a charge posted late, and the sync that must still find it; a delay and a
report of one day and an overlap of two leave nothing to spare.
One address and two users are a race for it; two awards are a race for the row of one
account. The bounds are `Workers`, `Calls`, `MaxBusy`, `MaxStops`, `MaxWriters`,
`Requests`, `Posted`, `Statements`, `MaxOperations`, `MaxEvents`, `PoolSizes`, and the
numbers of vendors, insights and imports; everything else is finite by itself.

`claims_serial` limits the handlers to one at a time, but claims, the clock, crashes of
workers and lost answers still come between its statements, and a handler can
be abandoned at any of them. With two handlers these three properties fail:
`rejected_retry` is one such run. In the same way two overlapping polls of
`takeOtp` both return the code, although `bank-connection.service.ts:240` says it
is handed out once, and two overlapping success reports of a first sync both
award it (`:313`); setting `Calls = {c1, c2}` shows either.

`leaks` runs one writer at a time: a scan, a purge, or an insight posted by hand.
The user changes statuses, decides on drafts, cancels and deletes between any two
of its statements. With two writers the first two invariants fail: a scan that
read its subscriptions before a purge stores an insight about one that is gone,
and a response that stores its draft between the two deletions of a purge makes
the disconnect fail and roll back. `MaxWriters = 2` with the scan and the purge
shows either. With two requests at a time, an approval and a rejection of one draft can both
pass the check of `draft-action.service.ts:58`, and the later write stays. In the same way `BilledPlansAreKept` needs one background task at a time:
with two, a purge can remove a subscription that a pipeline of another account is just
linking a charge to, although `connection-purge.utility.ts:13` says that it is kept.

`plans`, `vendors` and `accounts` let everything overlap, and the properties that only
hold without overlap say so: `LoneImportAddsNoSecondPlan`, `OneVendorPerMerchant`,
`ResolvedFieldsKept` and `ActionAwardedOnce` exempt what was overlapped, by a flag
in the state. Without the exemption TLC finds two imports that both create the
subscription, two imports that store two spellings of one merchant, and two updates of an
insight that both award. `CancelledStaysCancelled` exempts the one way back, a request
for the cancellation that was under way when it was confirmed. A summary whose first two
queries see a charge before and after it is linked counts it twice; `SummaryAddsUp` is
about the others.

**Where comments promise more.** `vendor.service.ts:253` says that a vendor which is tagged
already keeps its tag in a promotion. The promotion writes back the vendor as its import read
it, and that can be older than what the same import stored: a description whose alias leads to
a vendor without a kind goes to the classifier again, which leaves it out of its answers and
answers another description with that vendor; the vendor gets the kind and the cadence of the
answer, and the first description keeps the row as it was (`resolveVendorsForRows`). When the recurrence of that row promotes
the vendor, its cadence replaces the one just stored. This needs no second import; the proof of
`PromotionsKeepTags` led to it, and `PromotionsReplaceBlanks` (§4) has the condition under which it
cannot happen. `bank-connection.service.ts:352` says that a late report from an abandoned
run is not valid; `getInFlight` looks at the status of the row alone, so a scrape that lost its
claim can report while its successor holds it. `BankConnection` has these reports, and what
it proves holds with them. These and the two divergences above have no run of their own.

**Fairness.** `BankConnection!FairSpec`: the clock runs; the worker's scheduler
keeps calling both claim endpoints (its only job); a browser is closed some day.
No handler is assumed to finish and no report to arrive. `StatementImport!FairSpec`:
a pipeline whose instance still runs goes on to its next statement, as an `async`
function does. `ImportsEnd` exempts an import whose instance was cut off: nothing
in the code takes such an import up again, it stays in `PROCESSING`. `NobodyIsStuck` is a
safety property and needs no fairness: in each state a request can go on or waits for
one that can. The other modules have no liveness properties, so that their symmetry
is sound.

**Violations.** Each such run checks one property taken from a comment of the
code, and TLC shows how the program does something else; `findings` in
`PROJECT.json` quotes the comment and tells the run.

**Mutants.** Next to an action stands, where a property depends on it, a form of
it with a plausible bug, marked `Mutant:`. No specification uses these; put in
place of the action they make TLC report the property that `mutants` in
`PROJECT.json` names.

## 4. What is proved

### The claims

`BankConnectionProofs` proves, for any number of sessions, handlers, ids, logins and codes
and any windows with `StaleClaim < MinSyncInterval`:

| Theorem | Statement |
|---|---|
| `Invariance` | `Spec => []IInv` |
| `TypeCorrect` | `Spec => []TypeOK` |
| `MutualExclusion` | `Spec => []OneScraperPerLogin` |
| `AbandonedClaimsAreDated` | `Spec => []InFlightHasAttempt` |
| `SyncIsImported` | `Spec => []SyncedMeansImported` |
| `LeaseRefinement` | `Spec => ClaimsAreLeases` |
| `CodesAreHandedOutOnce` | `Spec /\ []OnePoll => CodeHandedOutOnce` |
| `RefusedLoginsStay` | `Spec /\ []FailuresReportedAlone => RejectedLoginNotRetried` |
| `FirstSyncsAreAwardedOnce` | `Spec /\ []OneSuccessReport => FirstSyncAwardedOnce` |
| `OneHandlerSuffices` | `OneHandler => (Spec =>` all three of them`)` |
| `NobodyIsLeftOut` | `Spec => []ClaimableInTheEnd` |

None of the invariants is inductive. What `IInv` adds:

* `LateWritesFindClaim`: a pending write of `requestOtp` or `takeOtp`, which puts
  the row in flight whatever it is, finds a row that was claimed before. It holds
  because nothing ever clears `lastAttemptedAt`; with it `InFlightHasAttempt`
  survives late writes.
* `SessionsFollowRow`: a session with the login of the row, as it was entered last, is
  as old as the last claim or older than the lease, and the row was not reset to
  `PENDING_VALIDATION` since. A connect keeps it because it marks every session that has
  the login it stores (`StoreMarks`). This is the heart of mutual exclusion: a pending
  validation can be claimed at once, and a claim by the schedule needs a last
  attempt older than `StaleClaim` (an abandoned claim) or `MinSyncInterval`
  (a due sync, which is why the order of the two windows is assumed). Either way the
  sessions that share the login are stale at that moment (`ClaimFindsNobody`).
* `ActivationsImported`: a report about to store `ACTIVE` started its import.
* `CallsCarry`: a handler holds what its next statement writes.

Each part has one lemma (`TypeStep`, `ClaimStep`, `FollowStep`, `ScraperStep`,
`ImportStep`) with one step per action; `NextIInv` combines them. `ScraperStep` uses
`StepShape`, which sorts the actions by what they do to the sessions: most neither touch one
nor let another login in (`KeepsLogin`). The others have a lemma each that says whose hands
a login is in afterwards: `StoreTakesBack` for the two statements of a connect,
`TickTakesBack`, `EndTakesBack`, and `ClaimHandsOut` for a claim.

`LeaseRefinement` maps the steps one by one, from the same lemmas: `StoreEnters` covers the
statements of a connect, `OthersLose` the clock and the end of a scrape, and `ClaimAcquires`
a claim, which needs that nobody holds the login (`ClaimFindsNobody`). It needs nothing
beyond `IInv`.

The action properties of `claims_serial` are false when handlers of one row overlap in the
wrong way (§3). Three theorems say which way that is, as a temporal hypothesis; everything else
may overlap: connects, disconnects, codes that are submitted, claims, crashes, late reports, and
handlers that stop half-way. `OneHandler`, the setting of `claims_serial`, gives the three
hypotheses (`OneHandlerSuffices`).

* `OnePoll`: the worker does not poll for a code while another of its polls is unanswered.
  `CodesAreNew` is then an invariant: a code that is still to be handed out is in one place,
  with the handler that stores it, or in the row and in the poll that read it there.
* `FailuresReportedAlone`: while a failure is reported nothing else is reported of the row.
  `RefusedIsAtRest`: a row with a refused login is at `INVALID_CREDENTIALS`, and no handler is
  about to put it in flight, or to make it `ACTIVE`. `rejected_retry` is what happens without it.
* `OneSuccessReport`: no two reports of a success are on their way. `AwardFollowsSync`: who was
  awarded has a last sync, and an award that is on its way, or may still come of a first sync,
  is for a connection that was not awarded.

`NobodyIsLeftOut` is what the liveness property `KeepsBeingScraped` needs of the states: once
no window holds a row back any more (`WindowsPassed`), one of the two claims matches it, in
whatever state a lost report, a late write or a handler that stopped half-way left it, unless
its login was refused. What it leaves to TLC is that the scheduler makes the claim.

The assumptions are `WindowAssumption` and `NullAssumption` of `BankConnection`, which
TLC evaluates in its runs.

### Imports

`StatementImportProofs` proves, for any number of connections, imports, plans and vendors
and any finite set of charges, whatever identifiers and dates the banks gave them, and for
any number of pipelines and purges side by side:

| Theorem | Statement |
|---|---|
| `Invariance` | `Spec => []IInv` |
| `TypeCorrect` | `Spec => []TypeOK` |
| `CountsAreKept` | `Spec => []CompletedCountsCharges` |
| `EndedFrozen` | `Spec => EndedImportsAreFrozen` |

These are the properties of `imports_overlap`, so nothing that run shows depends on its
bounds. What `IInv` adds to the types:

* `PipelinesAreOpen`: a pipeline has a stored import, and one whose import ended can only
  finish or handle its crash. An ended import thus has no pipeline that could insert.
* `StoredWasPrepared`: an import has no charges before its insert and only prepared ones
  after it, until it completes with their number as its count.
* `OneRowPerCharge`: an import stores a charge in one row. The rows of an import are then
  as many as its charges, although linking changes the rows.
* `CountCovers`: `CompletedCountsCharges` about charges instead of rows.

All steps but the insert only remove or relink rows (`OnlyInsertAdds`, `RelinkedCharges`);
`InsertedCharges` says what the insert stores, `PipelineMoves` who goes from before to
after it, and `ImportsChange` who writes a status or a count. The assumptions are
`DataAssumption` and `NullAssumption` of `StatementImport`.

The properties of `imports_serial` are false when background tasks overlap in the wrong way
(§3). Three theorems say which way that is, as a temporal hypothesis, and a fourth puts
them together for one task at a time:

| Theorem | Statement |
|---|---|
| `ChargesAreStoredOnce` | `Spec /\ []OnePipeline => []ChargeStoredOnce` |
| `NothingIsLeftBehind` | `Spec /\ []ApartFromPurges => []NoChargeLeftBehind` |
| `BilledPlansSurvive` | `Spec /\ []ApartFromPurges => []BilledPlansAreKept` |
| `SerialImports` | `MaxBusy = 1 =>` all three of them |

`OnePipeline` lets purges, undos and deletions overlap a pipeline; `ApartFromPurges` lets any
number of pipelines overlap each other, and any number of purges. Each has its invariant:

* `NothingTwice`: what a pipeline has left after deduplication clashes with nothing stored and
  with nothing else in its hands. Between its reads and its insert rows only go away.
* `AccountsAreWhole`: a stored charge has its account, and a purge past its search has found
  all charges of the account it removes.
* `PlansAreHeld`: a plan that a charge is linked to is stored, as is a plan a pipeline is about
  to link to; a purge keeps those that charges of others are linked to.

Two more theorems are the halves of `ImportsEnd` that need no fairness:

| Theorem | Statement |
|---|---|
| `PipelinesEnd` | `Spec => PipelinesRunDown` |
| `ImportsAreNotForgotten` | `Spec => []NoImportIsForgotten` |

`StepsLeft` is a natural number that every statement of a pipeline lowers and nothing else
raises, whatever overlaps: the steps ahead of it, and two for each vendor that is left to
confirm (`NearerToItsEnd`, `DistanceIsPositive`). The loop over the vendors is where it could
go wrong, and it ends because each is taken out (`VendorsAreKnown`). So a pipeline takes
finitely many steps. And an import that is `PROCESSING` has a pipeline, unless its instance ended
(`NoImportIsForgotten`): a pipeline goes past its last write only when the import has ended
(`CompletedHasEnded`), and one that fails before it has the handler of its crash. What is left to TLC is
that a pipeline whose instance runs takes its next step.

The statements of the repository that decide this are operators of `StatementImport` with
their names (`FindByImports`, `FindChargedSubscriptionIds`, ...), and the proofs use lemmas about
what they return.

### Leaks

`LeakResponseProofs` proves the properties of `leaks` for any sets of subscriptions and
charges, and any number of insights, scans and requests:

| Theorem | Statement |
|---|---|
| `TypeCorrect` | `Spec => []TypeOK` |
| `LeaksAreAnswered` | `Spec => NewLeaksAreAnswered` |
| `NothingAboutPurged` | `Spec /\ []PurgeRunsAlone => []NoInsightAboutPurged` |
| `DraftsOutOfTheWay` | `Spec /\ []PurgeRunsAlone => []DraftsNeverBlockPurge` |
| `OneWriterSuffices` | `MaxWriters = 1 => (Spec =>` both of them`)` |
| `DecisionsStand` | `Spec /\ []DecisionsApart => DecisionsAreFinal` |

The first two hold however scans, purges and posted insights overlap. The next two are false
when they do (§3), and `PurgeRunsAlone` is what the code would have to ensure: during a purge no
scan runs and no posted insight is unfinished. It is all they need: scans and posted insights
may overlap each other, and what the user decides, cancels or deletes may come between any two
statements of a purge. `MaxWriters = 1`, the setting of `leaks`, gives it (`OneWriterSuffices`).
`PurgeInv` adds to the two invariants:

* `LeaksInHandAreLive`: the candidates of a scan, and what the user is posting, mention nothing
  purged. A query returns only stored rows and only the commit of a purge
  purges (`SubjectsStay`), at which nobody has anything in hand.
* `PurgeFoundAll`: past its query the purge knows every insight linked to what it removes. None
  appears later, as only a scan or a request inserts one (`InsightsStay`).

`DecisionsStand` is about `draft-action.service.ts:58`, which checks a transition before it
stores it. As long as no two decisions about one draft overlap, none overwrites another: the
check a decision passed still holds when it is stored (`UndecidedWhileDeciding`). When two
overlap, both can pass (§3). No run has this property.

The assumptions are `BoundAssumption` and `RowAssumption` of `LeakResponse`.

### Subscriptions

`SubscriptionPlansProofs` proves, for any vendors, statements, edits and payments, any finite
sets of ids and any number of handlers:

| Theorem | Statement |
|---|---|
| `TypeCorrect` | `Spec => []TypeOK` |
| `ChargesLinkedAtPrice` | `Spec => []LinkedAtPrice` |
| `SummariesAddUp` | `Spec => []SummaryAddsUp` |
| `NoSecondPlan` | `Spec => LoneImportAddsNoSecondPlan` |
| `CancelledStays` | `Spec => CancelledStaysCancelled` |
| `RecurrencesProved` | `Spec => RecurrencesAreProved` |
| `SteadyPlansFound` | `Spec => SteadyPlansAreFound` |

* `TypesHold`: the types and what a handler has in its record for its next statement. It
  goes as far as `DetectRecurrence`, whose price is that of a charge of the history
  (`DetectedPrice`, which needs that a finite set of positions has a greatest), and to the totals of
  a summary. A summary that is answered has the amounts it was made of (`Balanced`): what is
  billed to subscriptions that are gone and what is billed to the others add up
  (`SummaryBalances`, from `SumSplit`).
* `LinksHold`: what an import read of a subscription is still so when it links by it, unless
  the subscription is gone or edited (`CallsKnow`); no step changes a row in another way
  (`NextKeeps`), and a row that was read once has its id for good. Both ways of linking then
  keep `ChargesFit`: the price in memory (`PreparedFits`) and the range in SQL (`LinkedFits`, by
  the arithmetic of `RangeIsTolerance`).
* `LoneHolds`: while a handler is `alone` nothing it read has changed (`AloneIsFresh`). A vendor
  without a price had no active subscription; the candidates of an import are of distinct
  vendors, and those that are left have none; a request for a cancellation finds the
  subscription as active as it read it. The last gives `CancelledStays`, whose exception
  is the overlapped request of §3.
* The last two need no more of the state than `TypesHold`, but all of `Recurrence`. A group
  of the program is a function from positions to charges; `Enumerates` says that it has each
  charge of a set once, in the order of their days. Then each function of the code is compared with
  the definition over the set: the median by position with the one by rank (`RankedIsSorted`,
  `MedianIsRanked`, which rest on the sort that `SortedExists` builds by counting what comes
  before each), the gaps between neighbours with those between days (`GapsAgree`; two charges
  on a day leave a gap of none, which no window admits, `SameDayGap`), the windows with the
  slack (`FitsAgree`), and all together in `DetectAgrees`. The group that is taken is that of the charges
  near to one of them, and none is larger (`LargestGroup`). No gap is in the windows of two
  cycles (`Windows`), so one recurrence at most is detected (`OneRecurrence`). What an import then
  confirms is what one order of the history detects (`RecurringIsDetected`).

The assumptions are `PlansAssumption` and `RowAssumption` of `SubscriptionPlans`.

### Experience

`XpLedgerProofs` proves the properties of `accounts` except `NobodyIsStuck`, for any number of
users, requests, connections, insights, amounts and levels, with failures and timeouts anywhere:

| Theorem | Statement |
|---|---|
| `TypeCorrect` | `Spec => []TypeOK` |
| `LedgerAddsUp` | `Spec => []TotalIsSumOfLog` |
| `EmailsAreUnique` | `Spec => []OneAccountPerEmail` |
| `AwardsHavePlans` | `Spec => []NoAwardWithoutPlan` |
| `LevelsAreReported` | `Spec => LevelUpReported` |
| `RemovedLedgersAreClosed` | `Spec => RemovedAccountsEarnNothing` |
| `InsightsAreAwardedOnce` | `Spec => ActionAwardedOnce` |
| `AwardsRefine` | `Spec => AwardsAreAtomic` |

* `TypeInv` adds to the types what a request has in hand at each step.
* `RowsAreHeld`: a request past the increment of a total has the row to itself, and the total it
  read back is the committed one and its own award.
* `LedgerInv`: a committed total is the sum of its ledger, which is empty for an account that was
  never stored. The sum is a fold over a set, in which the element taken first is a `CHOOSE`;
  that it does not matter, and that one event more is one summand more, is proved in
  `SumTheorems` by induction over the size of the set. The induction theorems of the library are
  out of reach because they take an operator; a set of naturals that lacks one has a least one
  it lacks, and that takes none.
* `LevelsAreRead`: while the ladder is the seeded one, the levels an award compares are those of
  the totals before and after it; `LevelForXp` is the highest level that is reached, which exists
  because thresholds that are reached are bounded (`LevelForXpType`).
* `OneRequestPerInsight`: an insight that `overlapped` does not name has one request at most,
  and once that one is past its check the insight was not awarded since.

`AwardsRefine` maps the steps of the requests one by one to those of `AwardLedger`: an insert
is `Open` or nothing (`InsertOpens`), a write of an account `Close` or nothing (`WriteCloses`),
and a commit an award, with its subscription if that is what it is for (`CommitAwards`). The commit
writes the total that was read back several statements earlier; that this adds what the
entry says, to an account that is still in use, is `RowsAreHeld`.

### Windows

`SyncWindowProofs` proves for any number of charges, syncs and imports, and all windows with
`Delay + Run <= RESYNC_OVERLAP`:

| Theorem | Statement |
|---|---|
| `TypeCorrect` | `Spec => []TypeOK` |
| `NothingFallsBetweenWindows` | `Spec => []LateChargesAreCaught` |
| `OnlyCompletedDebits` | `Spec => []ChargesAreCompletedDebits` |

`LateChargesAreCaught` speaks of the last sync that is recorded; `WindowInv` adds what connects
the one under way with it. `RecordedInTime`: `lastSyncedAt` is at most `Run` after the bank was
read. `WindowReachesBack`: so the window of a sync begins at least `Delay` before that
(`StartReachesBack`, where the assumption is used). `PostedInTime`: a charge that was
posted after it has a date in the window. `ScrapeIsComplete`: so a scrape has it. A sync
that gives up, or is imported and not recorded, moves nothing. `OnlySpend` is what
`ToImportRows` keeps (`KeptRows`).

### Vendors

`VendorCatalogProofs` proves the four properties of `vendors` and one of promotions, for any finite sets of names and
descriptions, any answers of the classifier, any similarity, and any number of imports beside an
administrator:

| Theorem | Statement |
|---|---|
| `Invariance` | `Spec => [](IInv /\ LoneInv)` |
| `TypeCorrect` | `Spec => []TypeOK` |
| `ClassifiedAreStored` | `Spec => []ClassifiedGetsVendor` |
| `FieldsAreKept` | `Spec => ResolvedFieldsKept` |
| `MerchantsAreOne` | `Spec => OneVendorPerMerchant` |
| `PromotionsReplaceBlanks` | `Spec /\ []OneRowPerVendor => PromotionsKeepTags` |

`IInv` adds to the types what an import holds, which is stated of the import and the table of
vendors, so that one lemma (`OthersKeep`) covers all that others do: no vendor is ever deleted.

* `HoldsBackInTransaction`: rows and links are held back only between the reads and the commit.
* `FoundIsStored`, `MatchIsStored`: the vendor of a row, of a link and of a match is committed
  or among the import's own rows.
* `CanonicalIsWritten`: each canonical name of the batch was matched, has its insert still to
  come, or is stored. So whoever inserted it, the read-back finds it (`ReadBackFinds`).
* `LinksAreFound`: from then on every classified description has a vendor.

`LoneInv` says, as long as nothing overlapped, that the one import at work matched vendors that
are still as it read them (`MatchIsFresh`), that its rows keep what is resolved
(`RowsKeepFields`), and that the names it adds resemble nothing stored and not each other
(`AddedIsNew`). It matters that `AddedIsNew` covers the inserts still to come: the names are judged
when they are matched and stored much later. What makes it true is in two places.
`Unmatched`: a name without a match resembles nothing there is. `CanonicalNamesApart`: two
names that stay their own canonical names do not resemble each other, although resemblance
is not transitive, because every name goes where an earlier one it resembles went. That it goes
to a name that is its own (`NamesCollapse`) is an induction over the order of the batch, by
its least counterexample.

`PromotionsReplaceBlanks` is what `vendor.service.ts:253` says of promotions, for an import that
nothing overlaps, and with the condition it needs (§3): the descriptions of one vendor were given
one row of it (`OneRowPerVendor`). `CurrentInv` is its invariant: the rows in the hands of an
import are those it sees (`FoundIsCurrent`), through the classification, its commit
(`CommitIsCurrent`) and each promotion, which drops the vendor it has written (`PromoteIsCurrent`).
Where the batch is read back, a vendor that was written is read again, because only one that
lacked an answered field is (`WritesAreWanted`).

The assumptions are `DataAssumption` and `NullAssumption` of `VendorCatalog`: finite names and
descriptions, a similarity that is symmetric and holds of names equal up to case, as the one
of `pg_trgm` does.

### Only model-checked

`NobodyIsStuck`, which speaks of `ENABLED` through the waits of the pool, and the liveness
properties `KeepsBeingScraped` and `ImportsEnd`: fairness is out of the prover's reach.
What the last two need of states and steps is proved (`NobodyIsLeftOut`, `PipelinesEnd`,
`ImportsAreNotForgotten`); that the scheduler calls and that a pipeline goes on is the
fairness, and TLC puts the two together.

## 5. Plan

Every property of the passing runs is proved but those above, under hypotheses where §3 says
that it needs one. `PromotionsKeepTags` and `DecisionsAreFinal` deserve a run, the first one a
violation. What else can still be added is
detail that the modules leave open: the thresholds of the leak scan, whose two queries about
charges are one in `LeakResponse`; the edits an administrator makes to a vendor beside an
import; the lookup of cancellation contacts after one.

## 6. Not modelled

Encryption, credentials and their fields, texts, logging, validation of requests,
tokens and passwords, start-up and the deployment; the answers of the language
models, which are free choices where they matter. A year of history that is lost by a
failed first import is what `LateChargesAreCaught` calls `lost`: nothing asks for it again. The
lookup of cancellation contacts, the rate limiter and the cursors of paged lists, which
are apart from everything modelled; currencies, and the categories and months of a
summary. `components` in `PROJECT.json` says for each part what is left out of it.
