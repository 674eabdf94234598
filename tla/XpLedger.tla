------------------------------ MODULE XpLedger -------------------------------
(***************************************************************************)
(* Accounts and the experience their users collect: UserService,           *)
(* XpEventService, LevelService and XpActionService, and the two requests  *)
(* of a user that award experience, InsightService.updateStatus and        *)
(* SubscriptionService.create.                                             *)
(*                                                                         *)
(* A request goes from statement to statement.  A statement needs a        *)
(* connection of the pool, and waits for one until the acquire timeout; a  *)
(* transaction keeps its connection from its first statement to its end.   *)
(* An award runs in a transaction, but the action and the levels are read  *)
(* outside of it, over a second connection.  Two reads that follow one     *)
(* another over the pool and decide one thing are one step.                *)
(*                                                                         *)
(* A bearer token is verified by its signature and never withdrawn, so a   *)
(* request may come from any user there ever was, a removed one included.  *)
(***************************************************************************)
EXTENDS Integers, Sequences, Functions, FiniteSets

CONSTANTS
    Users,          \* identifiers of rows, removed ones included
    Emails,
    Insights,       \* rows of insights that are there from the start
    Owner,          \* the user of each insight
    Requests,       \* slots: the requests in progress at once
    PoolSizes,      \* what the environment may set MAX_CONNECTIONS to
    ActionEdits,    \* what an administrator may set an action to
    LevelEdits,     \* what an administrator may set a level to
    MaxEvents,      \* bound of the model: the awards and subscriptions there ever are
    NULL

\* The first levels of the migration, to scale.
SeededLevels == <<0, 2>>

ASSUME DataAssumption ==
    /\ NULL \notin Users /\ NULL \notin [email : Emails, totalXp : Nat, deleted : BOOLEAN]
    /\ Owner \in [Insights -> Users] /\ PoolSizes \subseteq Nat \ {0} /\ MaxEvents \in Nat
    /\ ActionEdits \subseteq [key : {"INSIGHT_DISMISSED", "SUBSCRIPTION_ADDED"},
                              xp : Nat, active : BOOLEAN]
    /\ LevelEdits \subseteq [number : Nat, xpRequired : Nat]
    /\ \A e \in LevelEdits : e.number \in DOMAIN SeededLevels
                             => e.xpRequired # SeededLevels[e.number]

VARIABLES
    users,          \* rows of users, or NULL
    xpEvents,       \* the ledger, in the order of its commits
    actions,        \* rows of xp_actions by key
    levels,         \* the experience that each level requires, by number
    insights,       \* whether the status of each insight is ACTION_TAKEN
    plans,          \* how many subscriptions each user has added
    requests,       \* what each request in progress holds, or NULL
    maxConnections, \* of the pool
    awarded,        \* the insights that were awarded since they turned to ACTION_TAKEN
    overlapped      \* the insights that two requests updated at once

vars == <<users, xpEvents, actions, levels, insights, plans, requests, maxConnections,
          awarded, overlapped>>

-----------------------------------------------------------------------------
Keys == {"INSIGHT_DISMISSED", "SUBSCRIPTION_ADDED"}

User == [email : Emails, totalXp : Nat, deleted : BOOLEAN]

\* The statement that comes next, what the request is about and whether it sets the
\* status ACTION_TAKEN, the experience of its award, 0 before it is known, the new
\* total, and the levels before and after it.
Request == [kind : {"signUp", "update", "delete", "insight", "plan"},
            step : {"check", "insert", "write", "writing", "begin", "action",
                    "increment", "previous", "level", "commit"},
            user : Users \cup {NULL},
            about : Emails \cup Insights \cup {NULL},
            status : BOOLEAN,
            xp : Nat \cup {NULL},
            total : Nat,
            previous : Nat \cup {NULL},
            level : Nat \cup {NULL}]

InProgress == {r \in Requests : requests[r] # NULL}
At(r, step) == requests[r] # NULL /\ requests[r].step = step
GoTo(r, step) == requests' = [requests EXCEPT ![r].step = step]
Stop(r) == requests' = [requests EXCEPT ![r] = NULL]

Live(u) == users[u] # NULL /\ ~users[u].deleted
EmailTaken(email, u) == \E v \in Users \ {u} : Live(v) /\ users[v].email = email

\* The highest level that the total reaches; there may be none.
LevelForXp(total) ==
    LET reached == {n \in DOMAIN levels : levels[n] <= total}
    IN  IF reached = {} THEN NULL
        ELSE CHOOSE n \in reached : \A m \in reached : levels[m] <= levels[n]

KeyOf(kind) == IF kind = "insight" THEN "INSIGHT_DISMISSED" ELSE "SUBSCRIPTION_ADDED"

-----------------------------------------------------------------------------
(* The pool and the locks.                                                 *)

\* A statement that waits for a row keeps its connection too.
HoldsConnection(r) ==
    requests[r].step \in {"writing", "action", "increment", "previous", "level", "commit"}

NeedsConnection(r) ==
    requests[r].step \in {"check", "insert", "write", "begin", "action", "previous", "level"}

ConnectionFree == Cardinality({r \in InProgress : HoldsConnection(r)}) < maxConnections

\* Mutant: the total is computed by the caller from a plain read.
NobodyWrites(r) == {}

\* The transactions that incremented the row of the user and are not over.
RowHolders(r) ==
    {q \in InProgress \ {r} : /\ requests[q].user = requests[r].user
                              /\ requests[q].step \in {"previous", "level", "commit"}
                              /\ requests[q].xp # NULL}

\* Mutant: whoever waits for a connection waits for ever.
WaitForEver(r) == FALSE /\ UNCHANGED vars

\* The acquire timeout: the error ends the request and its transaction.
AcquireTimesOut(r) ==
    /\ requests[r] # NULL /\ NeedsConnection(r) /\ ~ConnectionFree
    /\ Stop(r)
    /\ UNCHANGED <<users, xpEvents, actions, levels, insights, plans, awarded, overlapped>>

\* Any other error of a statement, or the end of the instance.
Fail(r) ==
    /\ requests[r] # NULL
    /\ Stop(r)
    /\ UNCHANGED <<users, xpEvents, actions, levels, insights, plans, awarded, overlapped>>

-----------------------------------------------------------------------------
(* Accounts.                                                               *)

Start(r, kind, step, user, about, status) ==
    /\ requests[r] = NULL
    /\ requests' = [requests EXCEPT ![r] =
         [kind |-> kind, step |-> step, user |-> user, about |-> about, status |-> status,
          xp |-> NULL, total |-> 0, previous |-> NULL, level |-> NULL]]
    /\ UNCHANGED <<users, xpEvents, actions, levels, insights, plans, awarded>>

SignUp(r, email) ==
    /\ Cardinality({q \in InProgress : requests[q].kind = "signUp"})
         < Cardinality({u \in Users : users[u] = NULL})
    /\ Start(r, "signUp", "check", NULL, email, FALSE)
    /\ UNCHANGED overlapped

UpdateUser(r, u, email) ==
    users[u] # NULL /\ Start(r, "update", "check", u, email, FALSE) /\ UNCHANGED overlapped

DeleteUser(r, u) ==
    users[u] # NULL /\ Start(r, "delete", "check", u, NULL, FALSE) /\ UNCHANGED overlapped

\* findByEmail, and for an account that exists getById before it.
CheckAccount(r) ==
    LET q == requests[r]
        taken == EmailTaken(q.about, q.user)
    IN  /\ At(r, "check") /\ q.kind \in {"signUp", "update", "delete"} /\ ConnectionFree
        /\ IF (q.kind # "signUp" /\ ~Live(q.user)) \/ (q.kind # "delete" /\ taken)
             THEN Stop(r)
             ELSE GoTo(r, IF q.kind = "signUp" THEN "insert" ELSE "write")
        /\ UNCHANGED <<users, xpEvents, actions, levels, insights, plans, awarded, overlapped>>

\* Mutant: no unique index on the addresses of the live accounts.
NoIndex(email, u) == FALSE

\* The partial unique index on email.
ViolatesIndex(email, u) == EmailTaken(email, u)

InsertUser(r) ==
    LET email == requests[r].about IN
    /\ At(r, "insert") /\ ConnectionFree
    /\ IF ViolatesIndex(email, NULL) THEN UNCHANGED users
       ELSE \E u \in Users : /\ users[u] = NULL
                             /\ users' = [users EXCEPT ![u] =
                                  [email |-> email, totalXp |-> 0, deleted |-> FALSE]]
    /\ Stop(r)
    /\ UNCHANGED <<xpEvents, actions, levels, insights, plans, awarded, overlapped>>

SendWrite(r) ==
    /\ At(r, "write") /\ requests[r].kind \in {"update", "delete"} /\ ConnectionFree
    /\ GoTo(r, "writing")
    /\ UNCHANGED <<users, xpEvents, actions, levels, insights, plans, awarded, overlapped>>

\* The statement of update or softDelete, once no transaction holds the row; rows
\* that were removed meanwhile are left alone.
WriteUser(r) ==
    LET q == requests[r] IN
    /\ At(r, "writing") /\ RowHolders(r) = {}
    /\ users' = IF ~Live(q.user) THEN users
                ELSE IF q.kind = "delete" THEN [users EXCEPT ![q.user].deleted = TRUE]
                ELSE IF ViolatesIndex(q.about, q.user) THEN users
                ELSE [users EXCEPT ![q.user].email = q.about]
    /\ Stop(r)
    /\ UNCHANGED <<xpEvents, actions, levels, insights, plans, awarded, overlapped>>

-----------------------------------------------------------------------------
(* Requests that award.                                                    *)

Awards == {r \in InProgress : requests[r].kind \in {"insight", "plan"}}

UpdateInsightStatus(r, i, status) ==
    /\ users[Owner[i]] # NULL
    /\ Len(xpEvents) + Cardinality(Awards) < MaxEvents
    /\ Start(r, "insight", "check", Owner[i], i, status)
    /\ overlapped' = IF \E q \in InProgress : requests[q].about = i THEN overlapped \cup {i}
                                                                    ELSE overlapped

AddSubscription(r, u) ==
    /\ users[u] # NULL
    /\ Len(xpEvents) + Cardinality(Awards) < MaxEvents /\ plans[u] < MaxEvents
    /\ Start(r, "plan", "begin", u, NULL, FALSE)
    /\ UNCHANGED overlapped

\* Mutant: every request to act on an insight is awarded.
ActionTaken(old, new) == new

IsNewlyActioned(old, new) == new /\ ~old

\* getById; which status the insight had decides about the award.
ReadInsight(r) ==
    LET q == requests[r] IN
    /\ At(r, "check") /\ q.kind = "insight" /\ ConnectionFree
    /\ requests' = [requests EXCEPT
         ![r].step = "write",
         ![r].xp = IF IsNewlyActioned(insights[q.about], q.status) THEN 0 ELSE NULL]
    /\ UNCHANGED <<users, xpEvents, actions, levels, insights, plans, awarded, overlapped>>

StoreInsightStatus(r) ==
    LET q == requests[r]
        i == q.about
    IN  /\ At(r, "write") /\ q.kind = "insight" /\ ConnectionFree
        /\ insights' = [insights EXCEPT ![i] = q.status]
        /\ awarded' = IF insights[i] THEN awarded ELSE awarded \ {i}
        /\ IF q.xp = NULL THEN Stop(r) ELSE GoTo(r, "begin")
        /\ UNCHANGED <<users, xpEvents, actions, levels, plans, overlapped>>

\* The transaction starts, that of the award or that of the subscription, whose row
\* nobody sees before the commit.
BeginTransaction(r) ==
    /\ At(r, "begin") /\ ConnectionFree
    /\ GoTo(r, "action")
    /\ UNCHANGED <<users, xpEvents, actions, levels, insights, plans, awarded, overlapped>>

\* getActiveByKey.  Without an active action there is nothing to award.
GetActiveByKey(r) ==
    LET action == actions[KeyOf(requests[r].kind)] IN
    /\ At(r, "action") /\ ConnectionFree
    /\ requests' = [requests EXCEPT
         ![r].step = IF action.active THEN "increment" ELSE "commit",
         ![r].xp = IF action.active THEN action.xp ELSE NULL]
    /\ UNCHANGED <<users, xpEvents, actions, levels, insights, plans, awarded, overlapped>>

\* Mutant: a row that is not found again is no error.
RowExists(u) == users[u] # NULL

\* rejectOnEmpty: a removed account is not found.
FoundAgain(u) == Live(u)

\* The event is inserted, the row incremented and read back.
IncrementTotalXp(r) ==
    LET q == requests[r] IN
    /\ At(r, "increment") /\ RowHolders(r) = {}
    /\ IF FoundAgain(q.user)
         THEN requests' = [requests EXCEPT ![r].step = "previous",
                                           ![r].total = users[q.user].totalXp + q.xp]
         ELSE Stop(r)
    /\ UNCHANGED <<users, xpEvents, actions, levels, insights, plans, awarded, overlapped>>

\* Mutant: the level before is that of the total that was read back.
TotalReadBack(r) == requests[r].total

PreviousTotal(r) == requests[r].total - requests[r].xp

\* getLevelForXp, twice; an error when the total reaches no level.
GetPreviousLevel(r) ==
    LET level == LevelForXp(PreviousTotal(r)) IN
    /\ At(r, "previous") /\ ConnectionFree
    /\ IF level = NULL THEN Stop(r)
       ELSE requests' = [requests EXCEPT ![r].step = "level", ![r].previous = level]
    /\ UNCHANGED <<users, xpEvents, actions, levels, insights, plans, awarded, overlapped>>

\* Mutant: the award does not run in the transaction of its request.
CommitAwardFirst(r) ==
    LET q == requests[r] IN
    /\ At(r, "level") /\ ConnectionFree
    /\ users' = [users EXCEPT ![q.user].totalXp = q.total]
    /\ xpEvents' = Append(xpEvents, [user |-> q.user, key |-> KeyOf(q.kind), xp |-> q.xp])
    /\ requests' = [requests EXCEPT ![r].step = "commit", ![r].xp = NULL]
    /\ UNCHANGED <<actions, levels, insights, plans, awarded, overlapped>>

GetNewLevel(r) ==
    LET level == LevelForXp(requests[r].total) IN
    /\ At(r, "level") /\ ConnectionFree
    /\ IF level = NULL THEN Stop(r)
       ELSE requests' = [requests EXCEPT ![r].step = "commit", ![r].level = level]
    /\ UNCHANGED <<users, xpEvents, actions, levels, insights, plans, awarded, overlapped>>

LeveledUp(r) == requests[r].level # requests[r].previous

\* Mutant: an action that is not active is stored all the same.
CommitAnyway(r) ==
    LET q == requests[r] IN
    /\ At(r, "commit")
    /\ xpEvents' = Append(xpEvents, [user |-> q.user, key |-> KeyOf(q.kind), xp |-> q.xp])
    /\ Stop(r)
    /\ UNCHANGED <<users, actions, levels, insights, plans, awarded, overlapped>>

Commit(r) ==
    LET q == requests[r] IN
    /\ At(r, "commit")
    /\ IF q.xp = NULL THEN UNCHANGED <<users, xpEvents>>
       ELSE /\ users' = [users EXCEPT ![q.user].totalXp = q.total]
            /\ xpEvents' = Append(xpEvents,
                                  [user |-> q.user, key |-> KeyOf(q.kind), xp |-> q.xp])
    /\ plans' = IF q.kind = "plan" THEN [plans EXCEPT ![q.user] = @ + 1] ELSE plans
    /\ awarded' = IF q.kind = "insight" /\ q.xp # NULL THEN awarded \cup {q.about} ELSE awarded
    /\ Stop(r)
    /\ UNCHANGED <<actions, levels, insights, overlapped>>

-----------------------------------------------------------------------------
(* An administrator.                                                       *)

UpdateXpAction(e) ==
    /\ actions' = [actions EXCEPT ![e.key] = [xp |-> e.xp, active |-> e.active]]
    /\ UNCHANGED <<users, xpEvents, levels, insights, plans, requests, awarded, overlapped>>

\* create and update of LevelService.
WriteLevel(e) ==
    /\ levels' = [n \in DOMAIN levels \cup {e.number} |->
                    IF n = e.number THEN e.xpRequired ELSE levels[n]]
    /\ UNCHANGED <<users, xpEvents, actions, insights, plans, requests, awarded, overlapped>>

-----------------------------------------------------------------------------
\* The migrations seed the first level at 0 and the actions.
Init ==
    /\ users = [u \in Users |-> NULL]
    /\ xpEvents = <<>>
    /\ actions = [k \in Keys |-> [xp |-> 1, active |-> TRUE]]
    /\ levels = SeededLevels
    /\ insights = [i \in Insights |-> FALSE]
    /\ plans = [u \in Users |-> 0]
    /\ requests = [r \in Requests |-> NULL]
    /\ maxConnections \in PoolSizes
    /\ awarded = {} /\ overlapped = {}

\* A statement that may have to wait for a row.
RowStep(r) == WriteUser(r) \/ IncrementTotalXp(r)

RequestStep(r) ==
    \/ CheckAccount(r) \/ InsertUser(r) \/ SendWrite(r)
    \/ ReadInsight(r) \/ StoreInsightStatus(r)
    \/ BeginTransaction(r) \/ GetActiveByKey(r)
    \/ GetPreviousLevel(r) \/ GetNewLevel(r)
    \/ Commit(r)
    \/ AcquireTimesOut(r)

Next ==
    /\ UNCHANGED maxConnections
    /\ \/ \E r \in Requests :
            \/ \E email \in Emails : SignUp(r, email) \/ \E u \in Users : UpdateUser(r, u, email)
            \/ \E u \in Users : DeleteUser(r, u) \/ AddSubscription(r, u)
            \/ \E i \in Insights, status \in BOOLEAN : UpdateInsightStatus(r, i, status)
            \/ RequestStep(r) \/ RowStep(r) \/ Fail(r)
       \/ \E e \in ActionEdits : UpdateXpAction(e)
       \/ \E e \in LevelEdits : WriteLevel(e)

Spec == Init /\ [][Next]_vars

-----------------------------------------------------------------------------
(* What accounts and experience must satisfy.                              *)

\* Every variable holds what its table or its request can hold.
TypeOK ==
    /\ users \in [Users -> User \cup {NULL}]
    /\ xpEvents \in Seq([user : Users, key : Keys, xp : Nat])
    /\ actions \in [Keys -> [xp : Nat, active : BOOLEAN]]
    /\ DOMAIN levels \subseteq Nat /\ \A n \in DOMAIN levels : levels[n] \in Nat
    /\ insights \in [Insights -> BOOLEAN]
    /\ plans \in [Users -> Nat]
    /\ requests \in [Requests -> Request \cup {NULL}]
    /\ maxConnections \in PoolSizes
    /\ awarded \subseteq Insights /\ overlapped \subseteq Insights

\* Where the ledger has the events of a user, and those of one action.
EventsOf(u) == {k \in DOMAIN xpEvents : xpEvents[k].user = u}
AwardsOf(u, key) == {k \in EventsOf(u) : xpEvents[k].key = key}

\* However awards overlap, fail or are edited meanwhile, the total of an account is
\* what its ledger adds up to (awardWithinTransaction, incrementTotalXp).
TotalIsSumOfLog ==
    \A u \in Users : users[u] # NULL =>
        users[u].totalXp = SumFunction([k \in EventsOf(u) |-> xpEvents[k].xp])

\* No two accounts in use have one address, whichever requests race for it
\* (UserService.create, assertEmailIsAvailable).
OneAccountPerEmail ==
    \A u, v \in Users : u # v /\ Live(u) /\ Live(v) => users[u].email # users[v].email

\* An award reports a new level exactly when this award carried the account over its
\* threshold, also when other awards of the account are under way
\* (awardWithinTransaction, as long as the levels are those of the migration).
LevelUpReported ==
    [][\A r \in Requests : Commit(r) /\ requests[r].xp # NULL /\ levels = SeededLevels =>
         LET u == requests[r].user
         IN  LeveledUp(r) <=> LevelForXp(users[u].totalXp) # LevelForXp(users'[u].totalXp)]_vars

\* The ledger of a removed account is closed, although its token still opens every
\* request (incrementTotalXp).
RemovedAccountsEarnNothing ==
    [][\A u \in Users : users[u] # NULL /\ users[u].deleted => EventsOf(u)' = EventsOf(u)]_vars

\* A subscription and its award are stored together or not at all
\* (SubscriptionService.create).
NoAwardWithoutPlan ==
    \A u \in Users : Cardinality(AwardsOf(u, "SUBSCRIPTION_ADDED")) <= plans[u]

Standings == [u \in Users |-> IF users[u] = NULL THEN "NEW"
                              ELSE IF users[u].deleted THEN "CLOSED" ELSE "OPEN"]
Totals == [u \in Users |-> IF users[u] = NULL THEN 0 ELSE users[u].totalXp]

Atomic == INSTANCE AwardLedger WITH standing <- Standings, totals <- Totals,
                                    ledger <- xpEvents

\* Whatever overlaps, fails or times out between the statements of an award, the ledger
\* and the total of an account in use change together and by the same amount, and with
\* the subscription that the award is for: the requests implement AwardLedger
\* (awardWithinTransaction, SubscriptionService.create).
AwardsAreAtomic == Atomic!Spec

\* An insight is awarded at most once each time it turns to ACTION_TAKEN, unless two
\* requests update it at once (InsightService.updateStatus).
ActionAwardedOnce ==
    [][\A r \in Requests :
         Commit(r) /\ requests[r].kind = "insight" /\ requests[r].xp # NULL =>
           requests[r].about \notin awarded \ overlapped]_vars

\* Requests never wait for each other in a circle: one that cannot go on waits for the
\* row of a transaction that can, also when all connections are held by transactions
\* that need another one (awardWithinTransaction, the acquire timeout of the pool).
NobodyIsStuck ==
    \A r \in InProgress :
        \/ ENABLED (RequestStep(r) \/ RowStep(r))
        \/ \E q \in RowHolders(r) : ENABLED RequestStep(q)
=============================================================================
