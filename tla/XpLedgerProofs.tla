--------------------------- MODULE XpLedgerProofs ---------------------------
(***************************************************************************)
(* Proofs that the ledger of experience and the totals of the accounts     *)
(* agree, for every number of accounts, requests and connections.          *)
(*                                                                         *)
(* An award that incremented a row holds it until its transaction ends, so *)
(* the total it read back is the stored one plus its own experience.  The  *)
(* invariant says so of every request; the properties follow from it.      *)
(***************************************************************************)
EXTENDS XpLedger, SumTheorems

Event == [user : Users, key : Keys, xp : Nat]

\* What a request knows at each of its statements.
WellFormed(q) ==
    /\ q.kind # "signUp" => q.user \in Users
    /\ q.kind = "signUp" => q.step \in {"check", "insert"} /\ q.user = NULL
    /\ q.kind \in {"signUp", "update"} => q.about \in Emails
    /\ q.kind \in {"update", "delete"} => q.step \in {"check", "write", "writing"}
    /\ q.kind = "insight" => q.about \in Insights /\ q.step \notin {"insert", "writing"}
    /\ q.kind = "plan" => q.step \notin {"check", "insert", "write", "writing"}
    /\ q.step \in {"increment", "previous", "level"} => q.xp \in Nat

RequestsWellFormed == \A r \in Requests : requests[r] # NULL => WellFormed(requests[r])

TypeInv == TypeOK /\ RequestsWellFormed

\* The transaction incremented the row of its user and is not over.
Incremented(r) ==
    /\ requests[r] # NULL
    /\ requests[r].step \in {"previous", "level", "commit"} /\ requests[r].xp # NULL

\* No two of them hold one row, and the row is as they read it back.
RowsAreHeld ==
    \A r \in Requests : Incremented(r) =>
        /\ Live(requests[r].user)
        /\ requests[r].total = users[requests[r].user].totalXp + requests[r].xp
        /\ \A q \in Requests : Incremented(q) /\ requests[q].user = requests[r].user => q = r

\* The levels that an award holds are those of the totals before and after it.
LevelsAreRead ==
    levels = SeededLevels =>
        \A r \in Requests : Incremented(r) =>
            /\ requests[r].step \in {"level", "commit"} =>
                 requests[r].previous = LevelForXp(requests[r].total - requests[r].xp)
            /\ requests[r].step = "commit" => requests[r].level = LevelForXp(requests[r].total)

\* What the ledger has of a row that was never inserted.
LedgerInv ==
    \A u \in Users :
        SumFunction([k \in EventsOf(u) |-> xpEvents[k].xp])
          = IF users[u] = NULL THEN 0 ELSE users[u].totalXp

\* An insight that was never updated by two requests at once has one request at most,
\* and while that one is to be awarded nobody was awarded since.
About(r, i) == requests[r] # NULL /\ requests[r].kind = "insight" /\ requests[r].about = i

OneRequestPerInsight ==
    \A i \in Insights \ overlapped : \A r \in Requests : About(r, i) =>
        /\ \A q \in Requests : About(q, i) => q = r
        /\ requests[r].step = "write" /\ requests[r].xp # NULL => ~insights[i]
        /\ requests[r].step \notin {"check", "write"} => i \notin awarded

IInv == /\ TypeInv /\ RowsAreHeld /\ LevelsAreRead /\ LedgerInv
        /\ OneRequestPerInsight
-----------------------------------------------------------------------------
(* Types.                                                                  *)

\* The highest level that a total reaches is a number: some reached level is as high
\* as the others, since none is higher than the total.
LEMMA LevelForXpType ==
  ASSUME TypeOK, NEW total \in Int
  PROVE  LevelForXp(total) \in Nat \cup {NULL}
<1> DEFINE reached == {n \in DOMAIN levels : levels[n] <= total}
           gaps == {total - levels[n] : n \in reached}
<1>1. CASE reached = {}
  BY <1>1 DEF LevelForXp
<1>2. CASE reached # {}
  <2>1. \A n \in reached : levels[n] \in Nat /\ n \in Nat /\ levels[n] <= total
    BY DEF TypeOK
  <2>2. gaps \subseteq Nat /\ gaps # {}
    <3>1. \A n \in reached : total - levels[n] \in Nat
      BY <2>1
    <3> QED
      BY <1>2, <3>1
  <2> HIDE DEF gaps
  <2>3. PICK x \in gaps : \A y \in gaps : ~ (<<y, x>> \in OpToRel(<, Nat))
    BY <2>2, NatLessThanWellFounded, WFMin
  <2>4. \A y \in gaps : ~(y < x)
    BY <2>2, <2>3 DEF OpToRel
  <2>5. PICK n \in reached : x = total - levels[n]
    BY <2>3 DEF gaps
  <2>6. \A m \in reached : levels[m] <= levels[n]
    <3> SUFFICES ASSUME NEW m \in reached PROVE levels[m] <= levels[n]
      OBVIOUS
    <3>1. total - levels[m] \in gaps
      BY DEF gaps
    <3>2. ~(total - levels[m] < total - levels[n])
      BY <2>4, <2>5, <3>1
    <3>3. levels[m] \in Nat /\ levels[n] \in Nat
      BY <2>1
    <3> QED
      BY <3>2, <3>3
  <2>7. LevelForXp(total) \in reached
    <3> DEFINE Highest(k) == \A m \in reached : levels[m] <= levels[k]
    <3>1. (CHOOSE k \in reached : Highest(k)) \in reached
      BY <2>6
    <3> QED
      BY <1>2, <3>1 DEF LevelForXp
  <2> QED
    BY <2>1, <2>7
<1> QED
  BY <1>1, <1>2

\* The empty tables have their types.
LEMMA TypeInit == ASSUME Init PROVE TypeInv
<1>1. users \in [Users -> User \cup {NULL}]
  BY DEF Init
<1>2. xpEvents \in Seq(Event)
  BY DEF Init
<1>3. actions \in [Keys -> [xp : Nat, active : BOOLEAN]]
  BY DEF Init
<1>4. DOMAIN levels \subseteq Nat /\ \A n \in DOMAIN levels : levels[n] \in Nat
  BY DEF Init, SeededLevels
<1>5. insights \in [Insights -> BOOLEAN] /\ plans \in [Users -> Nat]
  BY DEF Init
<1>6. /\ requests \in [Requests -> Request \cup {NULL}]
      /\ \A r \in Requests : requests[r] = NULL
  BY DEF Init
<1>7. maxConnections \in PoolSizes /\ awarded \subseteq Insights /\ overlapped \subseteq Insights
  BY DEF Init
<1> QED
  BY <1>1, <1>2, <1>3, <1>4, <1>5, <1>6, <1>7 DEF TypeInv, TypeOK, RequestsWellFormed, Event

\* A request that starts is well formed when its arguments are.
LEMMA StartType ==
  ASSUME TypeInv, NEW r \in Requests, NEW kind, NEW step, NEW user, NEW about, NEW status,
         Start(r, kind, step, user, about, status),
         status \in BOOLEAN, user \in Users \cup {NULL},
         about \in Emails \cup Insights \cup {NULL},
         \/ kind = "signUp" /\ step = "check" /\ user = NULL /\ about \in Emails
         \/ kind = "update" /\ step = "check" /\ user \in Users /\ about \in Emails
         \/ kind = "delete" /\ step = "check" /\ user \in Users
         \/ kind = "insight" /\ step = "check" /\ user \in Users /\ about \in Insights
         \/ kind = "plan" /\ step = "begin" /\ user \in Users
  PROVE  requests' \in [Requests -> Request \cup {NULL}] /\ RequestsWellFormed'
<1> DEFINE new == [kind |-> kind, step |-> step, user |-> user, about |-> about,
                   status |-> status, xp |-> NULL, total |-> 0, previous |-> NULL, level |-> NULL]
<1>1. new \in Request
  BY DEF Request
<1>2. WellFormed(new)
  BY DEF WellFormed
<1> HIDE DEF new
<1>3. requests' = [requests EXCEPT ![r] = new]
  BY DEF Start, new
<1> QED
  BY <1>1, <1>2, <1>3 DEF TypeInv, TypeOK, RequestsWellFormed

\* A request that stops leaves the others as they are.
LEMMA StopType ==
  ASSUME TypeInv, NEW r \in Requests, Stop(r)
  PROVE  requests' \in [Requests -> Request \cup {NULL}] /\ RequestsWellFormed'
<1>1. requests' = [requests EXCEPT ![r] = NULL]
  BY DEF Stop
<1> QED
  BY <1>1 DEF TypeInv, TypeOK, RequestsWellFormed

\* A request goes on as one that is well formed.
LEMMA AdvanceType ==
  ASSUME TypeInv, NEW r \in Requests, NEW next,
         requests' = [requests EXCEPT ![r] = next], next \in Request, WellFormed(next)
  PROVE  requests' \in [Requests -> Request \cup {NULL}] /\ RequestsWellFormed'
  BY DEF TypeInv, TypeOK, RequestsWellFormed

\* A request that only moves to its next statement stays well formed.
LEMMA GoToType ==
  ASSUME TypeInv, NEW r \in Requests, requests[r] # NULL, NEW step, GoTo(r, step),
         \/ step = "insert" /\ requests[r].kind = "signUp"
         \/ step \in {"write", "writing"} /\ requests[r].kind \in {"update", "delete"}
         \/ step \in {"begin", "action"} /\ requests[r].kind \in {"insight", "plan"}
  PROVE  requests' \in [Requests -> Request \cup {NULL}] /\ RequestsWellFormed'
<1> DEFINE next == [requests[r] EXCEPT !.step = step]
<1>1. requests[r] \in Request /\ WellFormed(requests[r])
  BY DEF TypeInv, TypeOK, RequestsWellFormed
<1>2. next \in Request
  BY <1>1 DEF Request
<1>3. WellFormed(next)
  BY <1>1 DEF WellFormed, Request
<1>4. requests' = [requests EXCEPT ![r] = next]
  BY DEF GoTo
<1> QED
  BY <1>2, <1>3, <1>4, AdvanceType

\* The ledger grows by one event at its end.
LEMMA AppendType ==
  ASSUME TypeInv, NEW e \in Event, xpEvents' = Append(xpEvents, e)
  PROVE  /\ xpEvents' \in Seq(Event)
         /\ Len(xpEvents) \in Nat /\ DOMAIN xpEvents = 1 .. Len(xpEvents)
         /\ DOMAIN xpEvents' = DOMAIN xpEvents \cup {Len(xpEvents) + 1}
         /\ Len(xpEvents) + 1 \notin DOMAIN xpEvents
         /\ xpEvents'[Len(xpEvents) + 1] = e
         /\ \A k \in DOMAIN xpEvents : xpEvents'[k] = xpEvents[k]
<1>1. xpEvents \in Seq(Event)
  BY DEF TypeInv, TypeOK, Event
<1> QED
  BY <1>1

\* What is known of the award that a commit stores.
LEMMA CommitType ==
  ASSUME IInv, NEW r \in Requests, Commit(r), requests[r].xp # NULL
  PROVE  LET q == requests[r]
             e == [user |-> q.user, key |-> KeyOf(q.kind), xp |-> q.xp]
         IN  /\ q \in Request /\ q.kind \in {"insight", "plan"}
             /\ q.user \in Users /\ q.xp \in Nat /\ e \in Event /\ Incremented(r) /\ Live(q.user)
             /\ users[q.user] \in User /\ q.total = users[q.user].totalXp + q.xp
             /\ users' = [users EXCEPT ![q.user].totalXp = q.total]
             /\ xpEvents' = Append(xpEvents, e)
<1> DEFINE q == requests[r]
<1>1. q \in Request /\ WellFormed(q) /\ q.step = "commit"
  BY DEF IInv, TypeInv, TypeOK, RequestsWellFormed, Commit, At
<1>2. q.kind \in {"insight", "plan"} /\ q.user \in Users /\ q.xp \in Nat
  BY <1>1 DEF WellFormed, Request
<1>3. Incremented(r)
  BY <1>1 DEF Incremented, Commit, At
<1>4. Live(q.user) /\ q.total = users[q.user].totalXp + q.xp
  BY <1>3 DEF IInv, RowsAreHeld
<1>5. users[q.user] \in User
  BY <1>2, <1>4 DEF IInv, TypeInv, TypeOK, Live
<1>6. KeyOf(q.kind) \in Keys
  BY DEF KeyOf, Keys
<1>7. [user |-> q.user, key |-> KeyOf(q.kind), xp |-> q.xp] \in Event
  BY <1>2, <1>6 DEF Event
<1>8. /\ users' = [users EXCEPT ![q.user].totalXp = q.total]
      /\ xpEvents' = Append(xpEvents, [user |-> q.user, key |-> KeyOf(q.kind), xp |-> q.xp])
  BY DEF Commit
<1> QED
  BY <1>1, <1>2, <1>3, <1>4, <1>5, <1>7, <1>8

\* Every step keeps the types; that of a commit rests on the row it holds.
LEMMA TypeStep ==
  ASSUME IInv, [Next]_vars
  PROVE  TypeInv'
<1> USE DEF IInv
<1> DEFINE RequestsTyped == requests' \in [Requests -> Request \cup {NULL}] /\ RequestsWellFormed'
           RestTyped == /\ users' \in [Users -> User \cup {NULL}]
                        /\ xpEvents' \in Seq(Event)
                        /\ insights' \in [Insights -> BOOLEAN] /\ plans' \in [Users -> Nat]
                        /\ awarded' \subseteq Insights /\ overlapped' \subseteq Insights
           AdminTyped == /\ actions' \in [Keys -> [xp : Nat, active : BOOLEAN]]
                         /\ DOMAIN levels' \subseteq Nat
                         /\ \A n \in DOMAIN levels' : levels'[n] \in Nat
<1>0. ASSUME RequestsTyped, RestTyped, AdminTyped, UNCHANGED maxConnections PROVE TypeInv'
  BY <1>0 DEF TypeInv, TypeOK, Event
<1>1. ASSUME UNCHANGED <<actions, levels>> PROVE AdminTyped
  BY <1>1 DEF TypeInv, TypeOK
<1>2. ASSUME UNCHANGED <<users, xpEvents, insights, plans, awarded>>,
             overlapped' \subseteq Insights
      PROVE  RestTyped
  BY <1>2 DEF TypeInv, TypeOK, Event
<1>3. overlapped \subseteq Insights /\ awarded \subseteq Insights
  BY DEF TypeInv, TypeOK
<1>4. \A i \in Insights : Owner[i] \in Users
  BY DataAssumption
<1>5. \A r \in Requests : requests[r] # NULL => requests[r] \in Request /\ WellFormed(requests[r])
  BY DEF TypeInv, TypeOK, RequestsWellFormed
<1> HIDE DEF RequestsTyped, RestTyped, AdminTyped
<1>6. CASE UNCHANGED vars
  <2>1. RequestsTyped /\ RestTyped /\ AdminTyped
    BY <1>6 DEF vars, RequestsTyped, RestTyped, AdminTyped, TypeInv, TypeOK, RequestsWellFormed, Event
  <2> QED
    BY <1>0, <1>6, <2>1 DEF vars
<1>10. ASSUME NEW r \in Requests, NEW email \in Emails, SignUp(r, email), UNCHANGED maxConnections
       PROVE  TypeInv'
  <2>1. Start(r, "signUp", "check", NULL, email, FALSE)
    BY <1>10 DEF SignUp
  <2>2. RequestsTyped
    BY <2>1, StartType DEF RequestsTyped
  <2> QED
    BY <1>0, <1>1, <1>2, <1>3, <1>10, <2>2 DEF SignUp, Start
<1>11. ASSUME NEW r \in Requests, NEW u \in Users, NEW email \in Emails, UpdateUser(r, u, email),
              UNCHANGED maxConnections
       PROVE  TypeInv'
  <2>1. Start(r, "update", "check", u, email, FALSE)
    BY <1>11 DEF UpdateUser
  <2>2. RequestsTyped
    BY <2>1, StartType DEF RequestsTyped
  <2> QED
    BY <1>0, <1>1, <1>2, <1>3, <1>11, <2>2 DEF UpdateUser, Start
<1>12. ASSUME NEW r \in Requests, NEW u \in Users, DeleteUser(r, u), UNCHANGED maxConnections
       PROVE  TypeInv'
  <2>1. Start(r, "delete", "check", u, NULL, FALSE)
    BY <1>12 DEF DeleteUser
  <2>2. RequestsTyped
    BY <2>1, StartType DEF RequestsTyped
  <2> QED
    BY <1>0, <1>1, <1>2, <1>3, <1>12, <2>2 DEF DeleteUser, Start
<1>13. ASSUME NEW r \in Requests, NEW u \in Users, AddSubscription(r, u), UNCHANGED maxConnections
       PROVE  TypeInv'
  <2>1. Start(r, "plan", "begin", u, NULL, FALSE)
    BY <1>13 DEF AddSubscription
  <2>2. RequestsTyped
    BY <2>1, StartType DEF RequestsTyped
  <2> QED
    BY <1>0, <1>1, <1>2, <1>3, <1>13, <2>2 DEF AddSubscription, Start
<1>14. ASSUME NEW r \in Requests, NEW i \in Insights, NEW status \in BOOLEAN,
              UpdateInsightStatus(r, i, status), UNCHANGED maxConnections
       PROVE  TypeInv'
  <2>1. Start(r, "insight", "check", Owner[i], i, status)
    BY <1>14 DEF UpdateInsightStatus
  <2>2. RequestsTyped
    BY <1>4, <2>1, StartType DEF RequestsTyped
  <2>3. overlapped' \subseteq Insights
    BY <1>3, <1>14 DEF UpdateInsightStatus
  <2> QED
    BY <1>0, <1>1, <1>2, <1>14, <2>2, <2>3 DEF UpdateInsightStatus, Start
<1>15. ASSUME NEW r \in Requests, CheckAccount(r), UNCHANGED maxConnections
       PROVE  TypeInv'
  <2>1. Stop(r) \/ GoTo(r, IF requests[r].kind = "signUp" THEN "insert" ELSE "write")
    BY <1>15 DEF CheckAccount
  <2>2. requests[r] # NULL /\ requests[r].kind \in {"signUp", "update", "delete"}
    BY <1>15 DEF CheckAccount, At
  <2>3. RequestsTyped
    BY <2>1, <2>2, StopType, GoToType DEF RequestsTyped
  <2> QED
    BY <1>0, <1>1, <1>2, <1>3, <1>15, <2>3 DEF CheckAccount
<1>16. ASSUME NEW r \in Requests, InsertUser(r), UNCHANGED maxConnections
       PROVE  TypeInv'
  <2>1. RequestsTyped
    BY <1>16, StopType DEF InsertUser, RequestsTyped
  <2>2. requests[r].about \in Emails
    <3>1. requests[r] # NULL /\ requests[r].step = "insert"
      BY <1>16 DEF InsertUser, At
    <3> QED
      BY <1>5, <3>1 DEF WellFormed, Request
  <2>3. users' \in [Users -> User \cup {NULL}]
    <3>1. CASE UNCHANGED users
      BY <3>1 DEF TypeInv, TypeOK
    <3>2. ASSUME NEW u \in Users, users' = [users EXCEPT ![u] =
                   [email |-> requests[r].about, totalXp |-> 0, deleted |-> FALSE]]
          PROVE  users' \in [Users -> User \cup {NULL}]
      <4>1. [email |-> requests[r].about, totalXp |-> 0, deleted |-> FALSE] \in User
        BY <2>2 DEF User
      <4> QED
        BY <3>2, <4>1 DEF TypeInv, TypeOK
    <3> QED
      BY <1>16, <3>1, <3>2 DEF InsertUser
  <2>4. RestTyped
    BY <1>16, <2>3 DEF InsertUser, RestTyped, TypeInv, TypeOK, Event
  <2> QED
    BY <1>0, <1>1, <1>16, <2>1, <2>4 DEF InsertUser
<1>17. ASSUME NEW r \in Requests, SendWrite(r), UNCHANGED maxConnections
       PROVE  TypeInv'
  <2>1. RequestsTyped
    BY <1>17, GoToType DEF SendWrite, At, RequestsTyped
  <2> QED
    BY <1>0, <1>1, <1>2, <1>3, <1>17, <2>1 DEF SendWrite
<1>18. ASSUME NEW r \in Requests, WriteUser(r), UNCHANGED maxConnections
       PROVE  TypeInv'
  <2> DEFINE q == requests[r]
  <2>1. RequestsTyped
    BY <1>18, StopType DEF WriteUser, RequestsTyped
  <2>2. q # NULL /\ q.step = "writing"
    BY <1>18 DEF WriteUser, At
  <2>3. q.kind \in {"update", "delete"} /\ q.user \in Users /\ (q.kind # "delete" => q.about \in Emails)
    BY <1>5, <2>2 DEF WellFormed, Request
  <2>4. users' \in [Users -> User \cup {NULL}]
    <3>1. CASE UNCHANGED users
      BY <3>1 DEF TypeInv, TypeOK
    <3>2. CASE Live(q.user)
      <4>1. users[q.user] \in User
        BY <2>3, <3>2 DEF Live, TypeInv, TypeOK
      <4>2. CASE q.kind = "delete" /\ users' = [users EXCEPT ![q.user].deleted = TRUE]
        <5>1. [users[q.user] EXCEPT !.deleted = TRUE] \in User
          BY <4>1 DEF User
        <5> QED
          BY <2>3, <4>2, <5>1 DEF TypeInv, TypeOK
      <4>3. CASE q.kind # "delete" /\ users' = [users EXCEPT ![q.user].email = q.about]
        <5>1. [users[q.user] EXCEPT !.email = q.about] \in User
          BY <2>3, <4>1, <4>3 DEF User
        <5> QED
          BY <2>3, <4>3, <5>1 DEF TypeInv, TypeOK
      <4> QED
        BY <1>18, <3>1, <3>2, <4>2, <4>3 DEF WriteUser
    <3> QED
      BY <1>18, <3>1, <3>2 DEF WriteUser
  <2>5. RestTyped
    BY <1>18, <2>4 DEF WriteUser, RestTyped, TypeInv, TypeOK, Event
  <2> QED
    BY <1>0, <1>1, <1>18, <2>1, <2>5 DEF WriteUser
<1>19. ASSUME NEW r \in Requests, ReadInsight(r), UNCHANGED maxConnections
       PROVE  TypeInv'
  <2> DEFINE newly == IsNewlyActioned(insights[requests[r].about], requests[r].status)
             next == [requests[r] EXCEPT !.step = "write", !.xp = IF newly THEN 0 ELSE NULL]
  <2>1. requests[r] \in Request /\ WellFormed(requests[r]) /\ requests[r].kind = "insight"
    BY <1>5, <1>19 DEF ReadInsight, At
  <2>2. requests' = [requests EXCEPT ![r] = next]
    BY <1>19 DEF ReadInsight
  <2> HIDE DEF newly
  <2>3. next \in Request
    BY <2>1 DEF Request
  <2>4. WellFormed(next)
    BY <2>1 DEF WellFormed, Request
  <2> HIDE DEF next
  <2>5. RequestsTyped
    BY <2>2, <2>3, <2>4, AdvanceType DEF RequestsTyped
  <2> QED
    BY <1>0, <1>1, <1>2, <1>3, <1>19, <2>5 DEF ReadInsight
<1>20. ASSUME NEW r \in Requests, StoreInsightStatus(r), UNCHANGED maxConnections
       PROVE  TypeInv'
  <2>1. requests[r] \in Request /\ WellFormed(requests[r]) /\ requests[r].kind = "insight"
        /\ requests[r] # NULL
    BY <1>5, <1>20 DEF StoreInsightStatus, At
  <2>2. Stop(r) \/ GoTo(r, "begin")
    BY <1>20 DEF StoreInsightStatus
  <2>3. RequestsTyped
    BY <2>1, <2>2, StopType, GoToType DEF RequestsTyped
  <2>4. requests[r].about \in Insights /\ requests[r].status \in BOOLEAN
    BY <2>1 DEF WellFormed, Request
  <2>5. insights' \in [Insights -> BOOLEAN]
    BY <1>20, <2>4 DEF StoreInsightStatus, TypeInv, TypeOK
  <2>6. awarded' \subseteq Insights
    BY <1>3, <1>20 DEF StoreInsightStatus
  <2>7. RestTyped
    BY <1>20, <2>5, <2>6 DEF StoreInsightStatus, RestTyped, TypeInv, TypeOK, Event
  <2> QED
    BY <1>0, <1>1, <1>20, <2>3, <2>7 DEF StoreInsightStatus
<1>21. ASSUME NEW r \in Requests, BeginTransaction(r), UNCHANGED maxConnections
       PROVE  TypeInv'
  <2>1. requests[r] # NULL /\ requests[r].step = "begin" /\ GoTo(r, "action")
    BY <1>21 DEF BeginTransaction, At
  <2>2. requests[r].kind \in {"insight", "plan"}
    BY <1>5, <2>1 DEF WellFormed, Request
  <2>3. RequestsTyped
    BY <2>1, <2>2, GoToType DEF RequestsTyped
  <2> QED
    BY <1>0, <1>1, <1>2, <1>3, <1>21, <2>3 DEF BeginTransaction
<1>22. ASSUME NEW r \in Requests, GetActiveByKey(r), UNCHANGED maxConnections
       PROVE  TypeInv'
  <2> DEFINE action == actions[KeyOf(requests[r].kind)]
             next == [requests[r] EXCEPT !.step = IF action.active THEN "increment" ELSE "commit",
                                         !.xp = IF action.active THEN action.xp ELSE NULL]
  <2>1. requests[r] \in Request /\ WellFormed(requests[r]) /\ requests[r].step = "action"
    BY <1>5, <1>22 DEF GetActiveByKey, At
  <2>2. requests' = [requests EXCEPT ![r] = next]
    BY <1>22 DEF GetActiveByKey
  <2>3. action.xp \in Nat
    BY DEF KeyOf, Keys, TypeInv, TypeOK
  <2> HIDE DEF action
  <2>4. next \in Request
    BY <2>1, <2>3 DEF Request
  <2>5. WellFormed(next)
    BY <2>1, <2>3 DEF WellFormed, Request
  <2> HIDE DEF next
  <2>6. RequestsTyped
    BY <2>2, <2>4, <2>5, AdvanceType DEF RequestsTyped
  <2> QED
    BY <1>0, <1>1, <1>2, <1>3, <1>22, <2>6 DEF GetActiveByKey
<1>23. ASSUME NEW r \in Requests, IncrementTotalXp(r), UNCHANGED maxConnections
       PROVE  TypeInv'
  <2> DEFINE q == requests[r]
             next == [q EXCEPT !.step = "previous", !.total = users[q.user].totalXp + q.xp]
  <2>1. q \in Request /\ WellFormed(q) /\ q.step = "increment"
    BY <1>5, <1>23 DEF IncrementTotalXp, At
  <2>2. q.user \in Users /\ q.xp \in Nat
    BY <2>1 DEF WellFormed, Request
  <2>3. RequestsTyped
    <3>1. CASE FoundAgain(q.user)
      <4>1. users[q.user].totalXp \in Nat
        BY <2>2, <3>1 DEF FoundAgain, Live, TypeInv, TypeOK, User
      <4>2. users[q.user].totalXp + q.xp \in Nat
        BY <2>2, <4>1
      <4>3. requests' = [requests EXCEPT ![r] = next]
        BY <1>23, <3>1 DEF IncrementTotalXp
      <4>4. next \in Request
        BY <2>1, <4>2 DEF Request
      <4>5. WellFormed(next)
        BY <2>1, <2>2 DEF WellFormed, Request
      <4> HIDE DEF next
      <4> QED
        BY <4>3, <4>4, <4>5, AdvanceType DEF RequestsTyped
    <3>2. CASE ~FoundAgain(q.user)
      BY <1>23, <3>2, StopType DEF IncrementTotalXp, RequestsTyped
    <3> QED
      BY <3>1, <3>2
  <2> QED
    BY <1>0, <1>1, <1>2, <1>3, <1>23, <2>3 DEF IncrementTotalXp
<1>24. ASSUME NEW r \in Requests, GetPreviousLevel(r), UNCHANGED maxConnections
       PROVE  TypeInv'
  <2> DEFINE level == LevelForXp(PreviousTotal(r))
             next == [requests[r] EXCEPT !.step = "level", !.previous = level]
  <2>1. /\ requests[r] \in Request /\ WellFormed(requests[r]) /\ requests[r].step = "previous"
        /\ requests[r].xp \in Nat /\ requests[r].total \in Nat
    BY <1>5, <1>24 DEF GetPreviousLevel, At, WellFormed, Request
  <2>2. level \in Nat \cup {NULL}
    BY <2>1, LevelForXpType DEF PreviousTotal, TypeInv
  <2>3. Stop(r) \/ requests' = [requests EXCEPT ![r] = next]
    BY <1>24 DEF GetPreviousLevel
  <2> HIDE DEF level
  <2>4. next \in Request
    BY <2>1, <2>2 DEF Request
  <2>5. WellFormed(next)
    BY <2>1 DEF WellFormed, Request
  <2> HIDE DEF next
  <2>6. RequestsTyped
    BY <2>3, <2>4, <2>5, AdvanceType, StopType DEF RequestsTyped
  <2> QED
    BY <1>0, <1>1, <1>2, <1>3, <1>24, <2>6 DEF GetPreviousLevel
<1>25. ASSUME NEW r \in Requests, GetNewLevel(r), UNCHANGED maxConnections
       PROVE  TypeInv'
  <2> DEFINE level == LevelForXp(requests[r].total)
             next == [requests[r] EXCEPT !.step = "commit", !.level = level]
  <2>1. /\ requests[r] \in Request /\ WellFormed(requests[r]) /\ requests[r].step = "level"
        /\ requests[r].total \in Nat
    BY <1>5, <1>25 DEF GetNewLevel, At, WellFormed, Request
  <2>2. level \in Nat \cup {NULL}
    BY <2>1, LevelForXpType DEF TypeInv
  <2>3. Stop(r) \/ requests' = [requests EXCEPT ![r] = next]
    BY <1>25 DEF GetNewLevel
  <2> HIDE DEF level
  <2>4. next \in Request
    BY <2>1, <2>2 DEF Request
  <2>5. WellFormed(next)
    BY <2>1 DEF WellFormed, Request
  <2> HIDE DEF next
  <2>6. RequestsTyped
    BY <2>3, <2>4, <2>5, AdvanceType, StopType DEF RequestsTyped
  <2> QED
    BY <1>0, <1>1, <1>2, <1>3, <1>25, <2>6 DEF GetNewLevel
<1>26. ASSUME NEW r \in Requests, Commit(r), UNCHANGED maxConnections
       PROVE  TypeInv'
  <2> DEFINE q == requests[r]
  <2>1. q \in Request /\ WellFormed(q) /\ q.step = "commit"
    BY <1>5, <1>26 DEF Commit, At
  <2>2. q.user \in Users /\ q.kind \in {"insight", "plan"}
    BY <2>1 DEF WellFormed, Request
  <2>3. users' \in [Users -> User \cup {NULL}] /\ xpEvents' \in Seq(Event)
    <3>1. CASE q.xp = NULL
      BY <1>26, <3>1 DEF Commit, TypeInv, TypeOK, Event
    <3>2. CASE q.xp # NULL
      <4>1. /\ users[q.user] \in User /\ q.total \in Nat
            /\ users' = [users EXCEPT ![q.user].totalXp = q.total]
            /\ [user |-> q.user, key |-> KeyOf(q.kind), xp |-> q.xp] \in Event
            /\ xpEvents' = Append(xpEvents, [user |-> q.user, key |-> KeyOf(q.kind), xp |-> q.xp])
        BY <1>26, <2>1, <3>2, CommitType DEF Request
      <4>2. [users[q.user] EXCEPT !.totalXp = q.total] \in User
        BY <4>1 DEF User
      <4>3. xpEvents' \in Seq(Event)
        BY <4>1, AppendType
      <4> QED
        BY <2>2, <4>1, <4>2, <4>3 DEF TypeInv, TypeOK
    <3> QED
      BY <3>1, <3>2
  <2>4. plans' \in [Users -> Nat]
    BY <1>26, <2>2 DEF Commit, TypeInv, TypeOK
  <2>5. awarded' \subseteq Insights
    BY <1>3, <1>26, <2>1 DEF Commit, WellFormed
  <2>6. RestTyped
    BY <1>26, <2>3, <2>4, <2>5 DEF Commit, RestTyped, TypeInv, TypeOK
  <2>7. RequestsTyped
    BY <1>26, StopType DEF Commit, RequestsTyped
  <2> QED
    BY <1>0, <1>1, <1>26, <2>6, <2>7 DEF Commit
<1>27. ASSUME NEW r \in Requests, AcquireTimesOut(r) \/ Fail(r), UNCHANGED maxConnections
       PROVE  TypeInv'
  <2>1. RequestsTyped
    BY <1>27, StopType DEF AcquireTimesOut, Fail, RequestsTyped
  <2> QED
    BY <1>0, <1>1, <1>2, <1>3, <1>27, <2>1 DEF AcquireTimesOut, Fail
<1>28. ASSUME NEW e \in ActionEdits, UpdateXpAction(e), UNCHANGED maxConnections
       PROVE  TypeInv'
  <2>1. e.key \in Keys /\ e.xp \in Nat /\ e.active \in BOOLEAN
    BY DataAssumption DEF Keys
  <2>2. actions' \in [Keys -> [xp : Nat, active : BOOLEAN]]
    BY <1>28, <2>1 DEF UpdateXpAction, TypeInv, TypeOK
  <2>3. AdminTyped
    BY <1>28, <2>2 DEF UpdateXpAction, AdminTyped, TypeInv, TypeOK
  <2>4. RequestsTyped
    BY <1>28 DEF UpdateXpAction, RequestsTyped, TypeInv, TypeOK, RequestsWellFormed
  <2> QED
    BY <1>0, <1>2, <1>3, <1>28, <2>3, <2>4 DEF UpdateXpAction
<1>29. ASSUME NEW e \in LevelEdits, WriteLevel(e), UNCHANGED maxConnections
       PROVE  TypeInv'
  <2>1. e.number \in Nat /\ e.xpRequired \in Nat
    BY DataAssumption
  <2>2. DOMAIN levels' \subseteq Nat /\ \A n \in DOMAIN levels' : levels'[n] \in Nat
    BY <1>29, <2>1 DEF WriteLevel, TypeInv, TypeOK
  <2>3. AdminTyped
    BY <1>29, <2>2 DEF WriteLevel, AdminTyped, TypeInv, TypeOK
  <2>4. RequestsTyped
    BY <1>29 DEF WriteLevel, RequestsTyped, TypeInv, TypeOK, RequestsWellFormed
  <2> QED
    BY <1>0, <1>2, <1>3, <1>29, <2>3, <2>4 DEF WriteLevel
<1> HIDE DEF IInv
<1> QED
  BY <1>6, <1>10, <1>11, <1>12, <1>13, <1>14, <1>15, <1>16, <1>17, <1>18, <1>19, <1>20, <1>21,
     <1>22, <1>23, <1>24, <1>25, <1>26, <1>27, <1>28, <1>29 DEF Next, RequestStep, RowStep

-----------------------------------------------------------------------------
(* Rows and the ledger.                                                    *)

\* Whoever writes an account or the ledger.
LEMMA LedgerSteps ==
  ASSUME [Next]_vars
  PROVE  \/ UNCHANGED <<users, xpEvents, plans>>
         \/ \E r \in Requests : InsertUser(r) \/ WriteUser(r) \/ Commit(r)
<1>1. ASSUME NEW r \in Requests, RequestStep(r) \/ RowStep(r)
      PROVE  \/ UNCHANGED <<users, xpEvents, plans>>
             \/ InsertUser(r) \/ WriteUser(r) \/ Commit(r)
  BY <1>1 DEF RequestStep, RowStep, CheckAccount, SendWrite, ReadInsight, StoreInsightStatus,
              BeginTransaction, GetActiveByKey, GetPreviousLevel, GetNewLevel, AcquireTimesOut,
              IncrementTotalXp
<1>2. ASSUME NEW r \in Requests,
             \/ \E email \in Emails : SignUp(r, email) \/ \E u \in Users : UpdateUser(r, u, email)
             \/ \E u \in Users : DeleteUser(r, u) \/ AddSubscription(r, u)
             \/ \E i \in Insights, status \in BOOLEAN : UpdateInsightStatus(r, i, status)
             \/ Fail(r)
      PROVE  UNCHANGED <<users, xpEvents, plans>>
  BY <1>2 DEF SignUp, UpdateUser, DeleteUser, AddSubscription, UpdateInsightStatus, Start, Fail
<1>3. ASSUME (\E e \in ActionEdits : UpdateXpAction(e)) \/ (\E e \in LevelEdits : WriteLevel(e))
      PROVE  UNCHANGED <<users, xpEvents, plans>>
  BY <1>3 DEF UpdateXpAction, WriteLevel
<1>4. CASE UNCHANGED vars
  BY <1>4 DEF vars
<1>5. CASE Next
  BY <1>1, <1>2, <1>3, <1>5 DEF Next
<1> QED
  BY <1>4, <1>5

\* What a write does to the row of its account, and to no other.
LEMMA WriteRow ==
  ASSUME TypeInv, NEW r \in Requests, WriteUser(r), NEW u \in Users
  PROVE  \/ users'[u] = users[u]
         \/ /\ u = requests[r].user /\ Live(u) /\ RowHolders(r) = {}
            /\ users[u] \in User /\ users'[u] \in User /\ users'[u].totalXp = users[u].totalXp
            /\ \/ users'[u].deleted
               \/ users'[u].email = requests[r].about /\ ~ViolatesIndex(requests[r].about, u)
<1>1. requests[r] \in Request /\ WellFormed(requests[r]) /\ requests[r].step = "writing"
  BY DEF WriteUser, At, TypeInv, TypeOK, RequestsWellFormed
<1>2. requests[r].user \in Users /\ (requests[r].kind # "delete" => requests[r].about \in Emails)
  BY <1>1 DEF WellFormed, Request
<1>3. users[u] \in User \cup {NULL}
  BY DEF TypeInv, TypeOK
<1>4. RowHolders(r) = {}
  BY DEF WriteUser
<1>5. CASE u # requests[r].user \/ ~Live(requests[r].user)
  BY <1>5 DEF WriteUser, TypeInv, TypeOK
<1>6. CASE u = requests[r].user /\ Live(u)
  <2>1. users[u] \in User
    BY <1>3, <1>6 DEF Live
  <2>2. CASE users' = [users EXCEPT ![u].deleted = TRUE]
    <3>1. users'[u] = [users[u] EXCEPT !.deleted = TRUE]
      BY <2>2 DEF TypeInv, TypeOK
    <3> QED
      BY <1>4, <1>6, <2>1, <3>1 DEF User
  <2>3. CASE /\ requests[r].kind # "delete" /\ ~ViolatesIndex(requests[r].about, u)
             /\ users' = [users EXCEPT ![u].email = requests[r].about]
    <3>1. users'[u] = [users[u] EXCEPT !.email = requests[r].about]
      BY <2>3 DEF TypeInv, TypeOK
    <3> QED
      BY <1>2, <1>4, <1>6, <2>1, <2>3, <3>1 DEF User
  <2>4. CASE users' = users
    BY <2>4
  <2> QED
    BY <1>6, <2>2, <2>3, <2>4 DEF WriteUser
<1> QED
  BY <1>5, <1>6

\* What an insert does to the rows.
LEMMA InsertRow ==
  ASSUME TypeInv, NEW r \in Requests, InsertUser(r), NEW u \in Users
  PROVE  \/ users'[u] = users[u]
         \/ /\ users[u] = NULL /\ users'[u] # NULL /\ users'[u].totalXp = 0
            /\ users'[u].email = requests[r].about /\ ~ViolatesIndex(requests[r].about, NULL)
            /\ \A v \in Users \ {u} : users'[v] = users[v]
<1>1. requests[r] \in Request /\ WellFormed(requests[r]) /\ requests[r].step = "insert"
  BY DEF InsertUser, At, TypeInv, TypeOK, RequestsWellFormed
<1>2. requests[r].about \in Emails
  BY <1>1 DEF WellFormed, Request
<1>3. CASE UNCHANGED users
  BY <1>3
<1>4. ASSUME ~ViolatesIndex(requests[r].about, NULL), NEW v \in Users, users[v] = NULL,
             users' = [users EXCEPT ![v] =
                         [email |-> requests[r].about, totalXp |-> 0, deleted |-> FALSE]]
      PROVE  \/ users'[u] = users[u]
             \/ /\ users[u] = NULL /\ users'[u] # NULL /\ users'[u].totalXp = 0
                /\ users'[u].email = requests[r].about
                /\ \A w \in Users \ {u} : users'[w] = users[w]
  <2> DEFINE row == [email |-> requests[r].about, totalXp |-> 0, deleted |-> FALSE]
  <2>1. row # NULL
    <3>1. row \in [email : Emails, totalXp : Nat, deleted : BOOLEAN]
      BY <1>2
    <3> HIDE DEF row
    <3> QED
      BY <3>1, DataAssumption
  <2>2. row.totalXp = 0 /\ row.email = requests[r].about
    OBVIOUS
  <2> HIDE DEF row
  <2>3. users' = [users EXCEPT ![v] = row]
    BY <1>4 DEF row
  <2> QED
    BY <1>4, <2>1, <2>2, <2>3 DEF TypeInv, TypeOK
<1> QED
  BY <1>3, <1>4 DEF InsertUser

\* The events of each user after a commit.
LEMMA CommitEvents ==
  ASSUME IInv, NEW r \in Requests, Commit(r), requests[r].xp # NULL, NEW u \in Users
  PROVE  /\ \A k \in EventsOf(u) : xpEvents'[k] = xpEvents[k]
         /\ u # requests[r].user => EventsOf(u)' = EventsOf(u)
         /\ u = requests[r].user =>
              /\ EventsOf(u)' = EventsOf(u) \cup {Len(xpEvents) + 1}
              /\ Len(xpEvents) + 1 \notin EventsOf(u)
              /\ xpEvents'[Len(xpEvents) + 1].xp = requests[r].xp
              /\ xpEvents'[Len(xpEvents) + 1].key = KeyOf(requests[r].kind)
<1> DEFINE q == requests[r]
           e == [user |-> q.user, key |-> KeyOf(q.kind), xp |-> q.xp]
<1>1. e \in Event /\ xpEvents' = Append(xpEvents, e)
  BY CommitType
<1>2. e.user = q.user /\ e.key = KeyOf(q.kind) /\ e.xp = q.xp
  OBVIOUS
<1> HIDE DEF e
<1>3. /\ DOMAIN xpEvents' = DOMAIN xpEvents \cup {Len(xpEvents) + 1}
      /\ Len(xpEvents) + 1 \notin DOMAIN xpEvents
      /\ xpEvents'[Len(xpEvents) + 1] = e
      /\ \A k \in DOMAIN xpEvents : xpEvents'[k] = xpEvents[k]
  BY <1>1, AppendType DEF IInv
<1> QED
  BY <1>2, <1>3 DEF EventsOf

\* The events of a user are finitely many, each worth a natural number.
LEMMA EventsFinite ==
  ASSUME TypeInv, NEW u \in Users
  PROVE  IsFiniteSet(EventsOf(u)) /\ \A k \in EventsOf(u) : xpEvents[k].xp \in Nat
<1>1. xpEvents \in Seq(Event) /\ Len(xpEvents) \in Nat
  BY DEF TypeInv, TypeOK, Event
<1>2. EventsOf(u) \subseteq 1 .. Len(xpEvents)
  BY <1>1 DEF EventsOf
<1>3. IsFiniteSet(1 .. Len(xpEvents))
  BY <1>1, FS_Interval
<1>4. \A k \in EventsOf(u) : xpEvents[k] \in Event
  BY <1>1 DEF EventsOf
<1>5. \A k \in EventsOf(u) : xpEvents[k].xp \in Nat
  BY <1>4 DEF Event
<1> QED
  BY <1>2, <1>3, <1>5, FS_Subset

\* The sum of the ledger of one user after a commit.
LEMMA CommitSum ==
  ASSUME IInv, NEW r \in Requests, Commit(r), requests[r].xp # NULL, NEW u \in Users
  PROVE  SumFunction([k \in EventsOf(u) |-> xpEvents[k].xp])'
           = SumFunction([k \in EventsOf(u) |-> xpEvents[k].xp])
             + (IF u = requests[r].user THEN requests[r].xp ELSE 0)
<1> DEFINE f == [k \in EventsOf(u) |-> xpEvents[k].xp]
           g == [k \in EventsOf(u)' |-> xpEvents'[k].xp]
           n == Len(xpEvents) + 1
<1>1. /\ IsFiniteSet(EventsOf(u)) /\ \A k \in EventsOf(u) : f[k] \in Int
      /\ \A k \in EventsOf(u) : f[k] \in Nat
  BY EventsFinite DEF IInv
<1>2. SumFunction(f) \in Int /\ SumFunction(f) = SumFunctionOnSet(f, EventsOf(u))
  BY <1>1, SumEquation DEF SumFunction
<1>3. SumFunction(g) = SumFunctionOnSet(g, EventsOf(u)')
  BY DEF SumFunction
<1>4. CASE u # requests[r].user
  <2>1. EventsOf(u)' = EventsOf(u) /\ \A k \in EventsOf(u) : g[k] = f[k]
    BY <1>4, CommitEvents
  <2>2. g = f
    BY <1>4, CommitEvents
  <2> QED
    BY <1>2, <1>4, <2>2
<1>5. CASE u = requests[r].user
  <2>1. /\ EventsOf(u)' = EventsOf(u) \cup {n} /\ n \notin EventsOf(u)
        /\ g[n] = requests[r].xp /\ \A k \in EventsOf(u) : g[k] = f[k]
    BY <1>5, CommitEvents
  <2>2. requests[r].xp \in Nat
    BY CommitType
  <2> HIDE DEF f, g, n
  <2>3. SumFunctionOnSet(g, EventsOf(u) \cup {n}) = g[n] + SumFunctionOnSet(g, EventsOf(u))
    <3>1. g[n] \in Int /\ \A k \in EventsOf(u) : g[k] \in Int
      BY <1>1, <2>1, <2>2
    <3> QED
      BY <1>1, <2>1, <3>1, SumAdd
  <2>4. SumFunctionOnSet(g, EventsOf(u)) = SumFunctionOnSet(f, EventsOf(u))
    BY <1>1, <2>1, SumCongruence
  <2>5. SumFunction(g) = SumFunction(f) + requests[r].xp
    BY <1>2, <1>3, <2>1, <2>2, <2>3, <2>4
  <2> QED
    BY <1>5, <2>5 DEF f, g
<1> QED
  BY <1>4, <1>5

\* The empty ledger adds up to nothing.
LEMMA LedgerInit == ASSUME Init PROVE LedgerInv
<1> SUFFICES ASSUME NEW u \in Users
             PROVE  SumFunction([k \in EventsOf(u) |-> xpEvents[k].xp]) = 0 /\ users[u] = NULL
  BY DEF LedgerInv
<1>1. EventsOf(u) = {}
  BY DEF Init, EventsOf
<1> DEFINE f == [k \in EventsOf(u) |-> xpEvents[k].xp]
<1>2. SumFunction(f) = SumFunctionOnSet(f, EventsOf(u))
  BY DEF SumFunction
<1> HIDE DEF f
<1>3. SumFunctionOnSet(f, {}) = 0
  BY FS_EmptySet, SumEquation
<1>4. users[u] = NULL
  BY DEF Init
<1> QED
  BY <1>1, <1>2, <1>3, <1>4 DEF f

\* Only the commit of an award adds to the ledger of an account and to its total, and
\* it adds the same to both, since its transaction holds the row.
LEMMA LedgerStep ==
  ASSUME IInv, [Next]_vars
  PROVE  LedgerInv'
<1> DEFINE SumOf(u) == SumFunction([k \in EventsOf(u) |-> xpEvents[k].xp])
<1> SUFFICES ASSUME NEW u \in Users
             PROVE  SumOf(u)' = IF users'[u] = NULL THEN 0 ELSE users'[u].totalXp
  BY DEF LedgerInv
<1>0. SumOf(u) = (IF users[u] = NULL THEN 0 ELSE users[u].totalXp)
  BY DEF IInv, LedgerInv
<1>t. TypeInv
  BY DEF IInv
<1>1. ASSUME UNCHANGED xpEvents PROVE SumOf(u)' = SumOf(u)
  BY <1>1 DEF EventsOf
<1>2. CASE UNCHANGED <<users, xpEvents, plans>>
  BY <1>0, <1>1, <1>2
<1>3. ASSUME NEW r \in Requests, InsertUser(r)
      PROVE  SumOf(u)' = IF users'[u] = NULL THEN 0 ELSE users'[u].totalXp
  <2>1. SumOf(u)' = SumOf(u)
    BY <1>1, <1>3 DEF InsertUser
  <2> HIDE DEF SumOf
  <2>2. \/ users'[u] = users[u]
        \/ users[u] = NULL /\ users'[u] # NULL /\ users'[u].totalXp = 0
    BY <1>t, <1>3, InsertRow
  <2> QED
    BY <1>0, <2>1, <2>2
<1>4. ASSUME NEW r \in Requests, WriteUser(r)
      PROVE  SumOf(u)' = IF users'[u] = NULL THEN 0 ELSE users'[u].totalXp
  <2>1. SumOf(u)' = SumOf(u)
    BY <1>1, <1>4 DEF WriteUser
  <2> HIDE DEF SumOf
  <2>2. NULL \notin User
    BY DataAssumption DEF User
  <2>3. \/ users'[u] = users[u]
        \/ /\ users[u] # NULL /\ users'[u] # NULL /\ users'[u].totalXp = users[u].totalXp
    BY <1>t, <1>4, <2>2, WriteRow
  <2> QED
    BY <1>0, <2>1, <2>3
<1>5. ASSUME NEW r \in Requests, Commit(r)
      PROVE  SumOf(u)' = IF users'[u] = NULL THEN 0 ELSE users'[u].totalXp
  <2> DEFINE q == requests[r]
  <2>1. CASE q.xp = NULL
    <3>1. SumOf(u)' = SumOf(u)
      BY <1>1, <1>5, <2>1 DEF Commit
    <3> HIDE DEF SumOf
    <3> QED
      BY <1>0, <1>5, <2>1, <3>1 DEF Commit
  <2>2. CASE q.xp # NULL
    <3>1. SumOf(u)' = SumOf(u) + (IF u = q.user THEN q.xp ELSE 0)
      BY <1>5, <2>2, CommitSum
    <3> HIDE DEF SumOf
    <3>2. /\ q.user \in Users /\ q.xp \in Nat /\ Live(q.user)
          /\ users[q.user] \in User /\ q.total = users[q.user].totalXp + q.xp
          /\ users' = [users EXCEPT ![q.user].totalXp = q.total] /\ q \in Request
      BY <1>5, <2>2, CommitType
    <3>3. CASE u = q.user
      <4>1. users'[u] = [users[u] EXCEPT !.totalXp = q.total]
        BY <3>2, <3>3, <1>t DEF TypeInv, TypeOK
      <4>2. q.total \in Nat
        BY <3>2 DEF Request
      <4>3. users'[u] \in User /\ users'[u].totalXp = q.total
        BY <3>2, <3>3, <4>1, <4>2 DEF User
      <4>4. users'[u] # NULL /\ users[u] # NULL
        BY <3>2, <3>3, <4>3, DataAssumption DEF User
      <4> QED
        BY <1>0, <3>1, <3>2, <3>3, <4>3, <4>4
    <3>4. CASE u # q.user
      <4>1. users'[u] = users[u]
        BY <3>2, <3>4, <1>t DEF TypeInv, TypeOK
      <4>2. users[u] # NULL => users[u].totalXp \in Nat
        BY <1>t DEF TypeInv, TypeOK, User
      <4> QED
        BY <1>0, <3>1, <3>4, <4>1, <4>2
    <3> QED
      BY <3>3, <3>4
  <2> QED
    BY <2>1, <2>2
<1> QED
  BY <1>2, <1>3, <1>4, <1>5, LedgerSteps

-----------------------------------------------------------------------------
(* Awards under way.                                                       *)

\* What a request may do.
Acts(r) ==
    \/ \E email \in Emails : SignUp(r, email) \/ \E u \in Users : UpdateUser(r, u, email)
    \/ \E u \in Users : DeleteUser(r, u) \/ AddSubscription(r, u)
    \/ \E i \in Insights, status \in BOOLEAN : UpdateInsightStatus(r, i, status)
    \/ RequestStep(r) \/ RowStep(r) \/ Fail(r)

\* A request is changed by what it does itself, and by nothing else.
LEMMA OnlyItself ==
  ASSUME TypeInv, [Next]_vars, NEW q \in Requests
  PROVE  requests'[q] = requests[q] \/ Acts(q)
<1>0. requests \in [Requests -> Request \cup {NULL}]
  BY DEF TypeInv, TypeOK
<1>1. ASSUME NEW r \in Requests, r # q, Acts(r) PROVE requests'[q] = requests[q]
  <2>1. CASE RequestStep(r) \/ RowStep(r) \/ Fail(r)
    BY <1>0, <1>1, <2>1
       DEF RequestStep, RowStep, CheckAccount, InsertUser, SendWrite, ReadInsight,
           StoreInsightStatus, BeginTransaction, GetActiveByKey, GetPreviousLevel, GetNewLevel,
           Commit, AcquireTimesOut, WriteUser, IncrementTotalXp, Fail, GoTo, Stop
  <2>2. ASSUME NEW kind, NEW step, NEW user, NEW about, NEW status,
               Start(r, kind, step, user, about, status)
        PROVE  requests'[q] = requests[q]
    BY <1>0, <1>1, <2>2 DEF Start
  <2>3. CASE \E email \in Emails : SignUp(r, email) \/ \E u \in Users : UpdateUser(r, u, email)
    BY <2>2, <2>3 DEF SignUp, UpdateUser
  <2>4. CASE \E u \in Users : DeleteUser(r, u) \/ AddSubscription(r, u)
    BY <2>2, <2>4 DEF DeleteUser, AddSubscription
  <2>5. CASE \E i \in Insights, status \in BOOLEAN : UpdateInsightStatus(r, i, status)
    BY <2>2, <2>5 DEF UpdateInsightStatus
  <2> QED
    BY <1>1, <2>1, <2>3, <2>4, <2>5 DEF Acts
<1>2. CASE UNCHANGED vars
  BY <1>2 DEF vars
<1>3. CASE Next
  <2>1. CASE \E r \in Requests : Acts(r)
    BY <1>1, <2>1
  <2>2. CASE (\E e \in ActionEdits : UpdateXpAction(e)) \/ (\E e \in LevelEdits : WriteLevel(e))
    BY <2>2 DEF UpdateXpAction, WriteLevel
  <2> QED
    BY <1>3, <2>1, <2>2 DEF Next, Acts
<1> QED
  BY <1>2, <1>3

\* An award that holds its row after a step held it before, with the same total, or has
\* just incremented it.
LEMMA AwardsKept ==
  ASSUME TypeInv, [Next]_vars, NEW q \in Requests, Incremented(q)'
  PROVE  \/ /\ Incremented(q)
            /\ requests'[q].user = requests[q].user /\ requests'[q].total = requests[q].total
            /\ requests'[q].xp = requests[q].xp
            /\ \/ requests'[q] = requests[q]
               \/ /\ requests[q].step = "previous" /\ requests'[q].step = "level"
                  /\ requests'[q].previous = LevelForXp(PreviousTotal(q))
                  /\ UNCHANGED <<users, levels>>
               \/ /\ requests[q].step = "level" /\ requests'[q].step = "commit"
                  /\ requests'[q].previous = requests[q].previous
                  /\ requests'[q].level = LevelForXp(requests[q].total)
                  /\ UNCHANGED <<users, levels>>
         \/ /\ IncrementTotalXp(q) /\ FoundAgain(requests[q].user)
            /\ requests' = [requests EXCEPT
                 ![q].step = "previous", ![q].total = users[requests[q].user].totalXp + requests[q].xp]
<1>0. requests \in [Requests -> Request \cup {NULL}]
  BY DEF TypeInv, TypeOK
<1>1. CASE requests'[q] = requests[q]
  BY <1>1 DEF Incremented
<1>2. ASSUME NEW kind, NEW step, NEW user, NEW about, NEW status,
             Start(q, kind, step, user, about, status)
      PROVE  FALSE
  BY <1>0, <1>2 DEF Start, Incremented
<1>3. ASSUME Stop(q) PROVE FALSE
  BY <1>0, <1>3 DEF Stop, Incremented
<1>4. ASSUME requests[q] # NULL, NEW step \in {"insert", "write", "writing", "begin", "action"},
             GoTo(q, step)
      PROVE  FALSE
  <2>1. requests[q] \in Request /\ requests'[q] = [requests[q] EXCEPT !.step = step]
    BY <1>0, <1>4 DEF GoTo
  <2> QED
    BY <2>1 DEF Incremented, Request
<1>5. ASSUME \/ \E email \in Emails : SignUp(q, email) \/ \E u \in Users : UpdateUser(q, u, email)
             \/ \E u \in Users : DeleteUser(q, u) \/ AddSubscription(q, u)
             \/ \E i \in Insights, status \in BOOLEAN : UpdateInsightStatus(q, i, status)
      PROVE  FALSE
  BY <1>2, <1>5 DEF SignUp, UpdateUser, DeleteUser, AddSubscription, UpdateInsightStatus
<1>6. ASSUME \/ CheckAccount(q) \/ InsertUser(q) \/ SendWrite(q) \/ StoreInsightStatus(q)
             \/ BeginTransaction(q) \/ Commit(q) \/ AcquireTimesOut(q) \/ WriteUser(q) \/ Fail(q)
      PROVE  FALSE
  BY <1>3, <1>4, <1>6 DEF CheckAccount, InsertUser, SendWrite, StoreInsightStatus,
     BeginTransaction, Commit, AcquireTimesOut, WriteUser, Fail, At
<1>7. ASSUME ReadInsight(q) PROVE FALSE
  <2>1. requests[q] \in Request /\ requests'[q].step = "write"
    BY <1>0, <1>7 DEF ReadInsight, At, Request
  <2> QED
    BY <2>1 DEF Incremented
<1>8. ASSUME GetActiveByKey(q) PROVE FALSE
  <2>1. requests[q] \in Request
    BY <1>0, <1>8 DEF GetActiveByKey, At
  <2>2. requests'[q].step = "increment" \/ requests'[q].xp = NULL
    BY <1>0, <1>8, <2>1 DEF GetActiveByKey, Request
  <2> QED
    BY <2>2 DEF Incremented
<1>9. ASSUME GetPreviousLevel(q)
      PROVE  /\ Incremented(q)
             /\ requests'[q].user = requests[q].user /\ requests'[q].total = requests[q].total
             /\ requests'[q].xp = requests[q].xp
             /\ requests[q].step = "previous" /\ requests'[q].step = "level"
             /\ requests'[q].previous = LevelForXp(PreviousTotal(q))
             /\ UNCHANGED <<users, levels>>
  <2> DEFINE level == LevelForXp(PreviousTotal(q))
  <2>1. requests[q] \in Request /\ requests[q] # NULL /\ requests[q].step = "previous"
    BY <1>0, <1>9 DEF GetPreviousLevel, At
  <2>2. requests' = [requests EXCEPT ![q].step = "level", ![q].previous = level]
    BY <1>3, <1>9 DEF GetPreviousLevel
  <2> HIDE DEF level
  <2>3. requests'[q] = [requests[q] EXCEPT !.step = "level", !.previous = level]
    BY <1>0, <2>2
  <2>4. /\ requests'[q].user = requests[q].user /\ requests'[q].total = requests[q].total
        /\ requests'[q].xp = requests[q].xp
        /\ requests'[q].step = "level" /\ requests'[q].previous = level
    BY <2>1, <2>3 DEF Request
  <2> QED
    BY <1>9, <2>1, <2>4 DEF Incremented, GetPreviousLevel, level
<1>10. ASSUME GetNewLevel(q)
       PROVE  /\ Incremented(q)
              /\ requests'[q].user = requests[q].user /\ requests'[q].total = requests[q].total
              /\ requests'[q].xp = requests[q].xp
              /\ requests[q].step = "level" /\ requests'[q].step = "commit"
              /\ requests'[q].previous = requests[q].previous
              /\ requests'[q].level = LevelForXp(requests[q].total)
              /\ UNCHANGED <<users, levels>>
  <2> DEFINE level == LevelForXp(requests[q].total)
  <2>1. requests[q] \in Request /\ requests[q] # NULL /\ requests[q].step = "level"
    BY <1>0, <1>10 DEF GetNewLevel, At
  <2>2. requests' = [requests EXCEPT ![q].step = "commit", ![q].level = level]
    BY <1>3, <1>10 DEF GetNewLevel
  <2> HIDE DEF level
  <2>3. requests'[q] = [requests[q] EXCEPT !.step = "commit", !.level = level]
    BY <1>0, <2>2
  <2>4. /\ requests'[q].user = requests[q].user /\ requests'[q].total = requests[q].total
        /\ requests'[q].xp = requests[q].xp /\ requests'[q].previous = requests[q].previous
        /\ requests'[q].step = "commit" /\ requests'[q].level = level
    BY <2>1, <2>3 DEF Request
  <2> QED
    BY <1>10, <2>1, <2>4 DEF Incremented, GetNewLevel, level
<1>11. ASSUME IncrementTotalXp(q)
       PROVE  /\ FoundAgain(requests[q].user)
              /\ requests' = [requests EXCEPT
                   ![q].step = "previous", ![q].total = users[requests[q].user].totalXp + requests[q].xp]
  BY <1>3, <1>11 DEF IncrementTotalXp
<1> QED
  BY <1>1, <1>5, <1>6, <1>7, <1>8, <1>9, <1>10, <1>11, OnlyItself DEF Acts, RequestStep, RowStep

\* The row of an award under way is changed by nobody but the award itself.
LEMMA RowKept ==
  ASSUME IInv, [Next]_vars, NEW r \in Requests, Incremented(r), Incremented(r)'
  PROVE  users'[requests[r].user] = users[requests[r].user]
<1> DEFINE u == requests[r].user
<1>1. Live(u) /\ \A q \in Requests : Incremented(q) /\ requests[q].user = u => q = r
  BY DEF IInv, RowsAreHeld
<1>2. u \in Users /\ requests \in [Requests -> Request \cup {NULL}]
  <2>1. requests[r] \in Request /\ WellFormed(requests[r])
    BY DEF Incremented, IInv, TypeInv, TypeOK, RequestsWellFormed
  <2> QED
    BY <2>1 DEF Incremented, WellFormed, Request, IInv, TypeInv, TypeOK
<1>3. CASE UNCHANGED <<users, xpEvents, plans>>
  BY <1>3
<1>4. ASSUME NEW q \in Requests, InsertUser(q) PROVE users'[u] = users[u]
  BY <1>1, <1>2, <1>4, InsertRow DEF Live, IInv
<1>5. ASSUME NEW q \in Requests, WriteUser(q) PROVE users'[u] = users[u]
  <2>1. q # r
    BY <1>5 DEF WriteUser, At, Incremented
  <2>2. u = requests[q].user => r \in RowHolders(q)
    BY <2>1 DEF RowHolders, InProgress, Incremented
  <2> QED
    BY <1>2, <1>5, <2>2, WriteRow DEF IInv
<1>6. ASSUME NEW q \in Requests, Commit(q) PROVE users'[u] = users[u]
  <2>1. q # r
    BY <1>2, <1>6 DEF Commit, Stop, Incremented
  <2>2. CASE requests[q].xp = NULL
    BY <1>6, <2>2 DEF Commit
  <2>3. CASE requests[q].xp # NULL
    <3>1. Incremented(q)
      BY <1>6, <2>3, CommitType
    <3>2. requests[q].user # u
      BY <1>1, <2>1, <3>1
    <3> QED
      BY <1>2, <1>6, <2>3, <3>2 DEF Commit, IInv, TypeInv, TypeOK
  <2> QED
    BY <2>2, <2>3
<1> QED
  BY <1>3, <1>4, <1>5, <1>6, LedgerSteps

\* An award that increments its row is the only one to hold it.
LEMMA AloneOnRow ==
  ASSUME IInv, [Next]_vars, NEW r \in Requests, IncrementTotalXp(r),
         NEW q \in Requests, q # r, Incremented(q)'
  PROVE  Incremented(q) /\ requests'[q] = requests[q] /\ requests[q].user # requests[r].user
<1>1. requests'[q] = requests[q]
  BY DEF IncrementTotalXp, Stop, IInv, TypeInv, TypeOK
<1>2. Incremented(q)
  BY <1>1 DEF Incremented
<1>3. RowHolders(r) = {}
  BY DEF IncrementTotalXp
<1> QED
  BY <1>1, <1>2, <1>3 DEF RowHolders, InProgress, Incremented

\* A row that an award incremented stays as it read it back until it commits.
LEMMA RowsAreHeldStep ==
  ASSUME IInv, [Next]_vars
  PROVE  RowsAreHeld'
<1>0. requests \in [Requests -> Request \cup {NULL}] /\ TypeInv
  BY DEF IInv, TypeInv, TypeOK
<1> SUFFICES ASSUME NEW r \in Requests, Incremented(r)'
             PROVE  /\ Live(requests[r].user)'
                    /\ requests'[r].total = users'[requests'[r].user].totalXp + requests'[r].xp
                    /\ \A q \in Requests :
                         Incremented(q)' /\ requests'[q].user = requests'[r].user => q = r
  BY DEF RowsAreHeld
<1>1. CASE IncrementTotalXp(r) /\ FoundAgain(requests[r].user)
  <2>1. /\ requests[r] \in Request
        /\ requests' = [requests EXCEPT
             ![r].step = "previous", ![r].total = users[requests[r].user].totalXp + requests[r].xp]
    BY <1>0, <1>1 DEF IncrementTotalXp, At
  <2>2. /\ requests'[r].user = requests[r].user /\ requests'[r].xp = requests[r].xp
        /\ requests'[r].total = users[requests[r].user].totalXp + requests[r].xp
    BY <1>0, <2>1 DEF Request
  <2>3. users' = users
    BY <1>1 DEF IncrementTotalXp
  <2>4. \A q \in Requests : Incremented(q)' /\ requests'[q].user = requests'[r].user => q = r
    BY <1>1, <2>2, AloneOnRow
  <2> QED
    BY <1>1, <2>2, <2>3, <2>4 DEF FoundAgain, Live
<1>2. CASE /\ Incremented(r) /\ requests'[r].user = requests[r].user
           /\ requests'[r].total = requests[r].total /\ requests'[r].xp = requests[r].xp
  <2>1. /\ Live(requests[r].user)
        /\ requests[r].total = users[requests[r].user].totalXp + requests[r].xp
        /\ \A q \in Requests : Incremented(q) /\ requests[q].user = requests[r].user => q = r
    BY <1>2 DEF IInv, RowsAreHeld
  <2>2. users'[requests[r].user] = users[requests[r].user]
    BY <1>2, RowKept
  <2>3. ASSUME NEW q \in Requests, Incremented(q)', requests'[q].user = requests'[r].user
        PROVE  q = r
    <3>1. CASE IncrementTotalXp(q) /\ FoundAgain(requests[q].user)
                 /\ requests' = [requests EXCEPT ![q].step = "previous",
                      ![q].total = users[requests[q].user].totalXp + requests[q].xp]
      <4>1. requests[q] \in Request
        BY <1>0, <3>1 DEF IncrementTotalXp, At
      <4>2. requests'[q].user = requests[q].user
        BY <1>0, <3>1, <4>1 DEF Request
      <4> QED
        BY <1>2, <2>3, <3>1, <4>2, AloneOnRow
    <3>2. CASE Incremented(q) /\ requests'[q].user = requests[q].user
      BY <1>2, <2>1, <2>3, <3>2
    <3> QED
      BY <1>0, <2>3, <3>1, <3>2, AwardsKept
  <2> QED
    BY <1>2, <2>1, <2>2, <2>3 DEF Live
<1> QED
  BY <1>0, <1>1, <1>2, AwardsKept

\* A level that was edited is never again what the migration wrote.
LEMMA SeededBefore ==
  ASSUME TypeInv, [Next]_vars, levels' = SeededLevels
  PROVE  levels = SeededLevels
<1>1. CASE UNCHANGED levels
  BY <1>1
<1>2. ASSUME NEW e \in LevelEdits, WriteLevel(e) PROVE FALSE
  <2>1. e.number \in DOMAIN levels' /\ levels'[e.number] = e.xpRequired
    BY <1>2 DEF WriteLevel
  <2>2. e.number \in DOMAIN SeededLevels /\ e.xpRequired = SeededLevels[e.number]
    BY <2>1
  <2> QED
    BY <2>2, DataAssumption
<1>3. ASSUME NEW r \in Requests, RequestStep(r) \/ RowStep(r) \/ Fail(r) PROVE UNCHANGED levels
  BY <1>3 DEF RequestStep, RowStep, CheckAccount, InsertUser, SendWrite, ReadInsight,
           StoreInsightStatus, BeginTransaction, GetActiveByKey, GetPreviousLevel, GetNewLevel,
           Commit, AcquireTimesOut, WriteUser, IncrementTotalXp, Fail
<1>4. ASSUME NEW r \in Requests,
             \/ \E email \in Emails : SignUp(r, email) \/ \E u \in Users : UpdateUser(r, u, email)
             \/ \E u \in Users : DeleteUser(r, u) \/ AddSubscription(r, u)
             \/ \E i \in Insights, status \in BOOLEAN : UpdateInsightStatus(r, i, status)
      PROVE  UNCHANGED levels
  BY <1>4 DEF SignUp, UpdateUser, DeleteUser, AddSubscription, UpdateInsightStatus, Start
<1>5. CASE UNCHANGED vars
  BY <1>5 DEF vars
<1>6. CASE Next
  <2>1. ASSUME NEW e \in ActionEdits, UpdateXpAction(e) PROVE UNCHANGED levels
    BY <2>1 DEF UpdateXpAction
  <2> QED
    BY <1>1, <1>2, <1>3, <1>4, <1>6, <2>1 DEF Next
<1> QED
  BY <1>1, <1>5, <1>6

\* What an award read of the levels stays right until the levels are edited.
LEMMA LevelsAreReadStep ==
  ASSUME IInv, [Next]_vars
  PROVE  LevelsAreRead'
<1>0. requests \in [Requests -> Request \cup {NULL}] /\ TypeInv
  BY DEF IInv, TypeInv, TypeOK
<1> SUFFICES ASSUME levels' = SeededLevels, NEW r \in Requests, Incremented(r)'
             PROVE  /\ requests'[r].step \in {"level", "commit"} =>
                         requests'[r].previous = LevelForXp(requests[r].total - requests[r].xp)'
                    /\ requests'[r].step = "commit" =>
                         requests'[r].level = LevelForXp(requests[r].total)'
  BY DEF LevelsAreRead
<1>1. levels' = levels
  BY <1>0, SeededBefore
<1>2. /\ LevelForXp(requests[r].total)' = LevelForXp(requests'[r].total)
      /\ LevelForXp(requests[r].total - requests[r].xp)' = LevelForXp(requests'[r].total - requests'[r].xp)
  BY <1>1 DEF LevelForXp
<1>3. Incremented(r) =>
        /\ requests[r].step \in {"level", "commit"} =>
             requests[r].previous = LevelForXp(requests[r].total - requests[r].xp)
        /\ requests[r].step = "commit" => requests[r].level = LevelForXp(requests[r].total)
  BY <1>0, SeededBefore DEF IInv, LevelsAreRead
<1>4. CASE IncrementTotalXp(r) /\ requests' = [requests EXCEPT
                ![r].step = "previous", ![r].total = users[requests[r].user].totalXp + requests[r].xp]
  <2>1. requests[r] \in Request
    BY <1>0, <1>4 DEF IncrementTotalXp, At
  <2>2. requests'[r].step = "previous"
    BY <1>0, <1>4, <2>1 DEF Request
  <2> QED
    BY <2>2
<1>5. CASE /\ Incremented(r) /\ requests'[r].total = requests[r].total
           /\ requests'[r].xp = requests[r].xp
           /\ \/ requests'[r] = requests[r]
              \/ /\ requests'[r].step = "level"
                 /\ requests'[r].previous = LevelForXp(PreviousTotal(r))
              \/ /\ requests[r].step = "level" /\ requests'[r].step = "commit"
                 /\ requests'[r].previous = requests[r].previous
                 /\ requests'[r].level = LevelForXp(requests[r].total)
  BY <1>2, <1>3, <1>5 DEF PreviousTotal
<1> QED
  BY <1>0, <1>4, <1>5, AwardsKept

-----------------------------------------------------------------------------
(* Insights.                                                               *)

\* A request about an insight was about it before the step, unless it starts.
LEMMA AboutKept ==
  ASSUME TypeInv, [Next]_vars, NEW q \in Requests, NEW i \in Insights, About(q, i)'
  PROVE  \/ About(q, i) /\ requests'[q] = requests[q]
         \/ About(q, i) /\ ReadInsight(q) /\ requests'[q].step = "write"
            /\ (requests'[q].xp # NULL => ~insights[i])
         \/ About(q, i) /\ StoreInsightStatus(q) /\ requests[q].xp # NULL
            /\ requests'[q].step = "begin"
         \/ /\ About(q, i) /\ requests[q].step \notin {"check", "write"}
            /\ requests'[q].step \notin {"check", "write"}
         \/ /\ requests[q] = NULL /\ requests'[q].step = "check"
            /\ \E status \in BOOLEAN : UpdateInsightStatus(q, i, status)
<1>0. requests \in [Requests -> Request \cup {NULL}]
  BY DEF TypeInv, TypeOK
<1>w. requests[q] # NULL => requests[q] \in Request /\ WellFormed(requests[q])
  BY DEF TypeInv, TypeOK, RequestsWellFormed
<1>1. CASE requests'[q] = requests[q]
  BY <1>1 DEF About
<1>2. ASSUME NEW kind \in {"signUp", "update", "delete", "plan"}, NEW step, NEW user, NEW about,
             NEW status, Start(q, kind, step, user, about, status)
      PROVE  FALSE
  BY <1>0, <1>2 DEF Start, About
<1>3. ASSUME Stop(q) PROVE FALSE
  BY <1>0, <1>3 DEF Stop, About
<1>4. ASSUME NEW j \in Insights, NEW status \in BOOLEAN, UpdateInsightStatus(q, j, status)
      PROVE  /\ requests[q] = NULL /\ requests'[q].step = "check" /\ j = i
  <2>1. /\ requests[q] = NULL
        /\ requests' = [requests EXCEPT ![q] =
             [kind |-> "insight", step |-> "check", user |-> Owner[j], about |-> j, status |-> status,
              xp |-> NULL, total |-> 0, previous |-> NULL, level |-> NULL]]
    BY <1>4 DEF UpdateInsightStatus, Start
  <2>2. requests'[q].step = "check" /\ requests'[q].about = j
    BY <1>0, <2>1
  <2> QED
    BY <2>1, <2>2 DEF About
<1>5. ASSUME \/ \E email \in Emails : SignUp(q, email) \/ \E u \in Users : UpdateUser(q, u, email)
             \/ \E u \in Users : DeleteUser(q, u) \/ AddSubscription(q, u)
      PROVE  FALSE
  BY <1>2, <1>5 DEF SignUp, UpdateUser, DeleteUser, AddSubscription
\* A step that keeps what the request is about.
<1>6. ASSUME NEW next, requests' = [requests EXCEPT ![q] = next], requests[q] # NULL,
             next.kind = requests[q].kind, next.about = requests[q].about
      PROVE  About(q, i)
  <2>1. requests'[q] = next
    BY <1>0, <1>6
  <2> QED
    BY <1>6, <2>1 DEF About
<1>7. ASSUME requests[q] # NULL, NEW step, GoTo(q, step)
      PROVE  About(q, i) /\ requests'[q].step = step
  <2> DEFINE next == [requests[q] EXCEPT !.step = step]
  <2>1. /\ requests' = [requests EXCEPT ![q] = next]
        /\ next.kind = requests[q].kind /\ next.about = requests[q].about /\ next.step = step
    BY <1>0, <1>7, <1>w DEF GoTo, Request
  <2> HIDE DEF next
  <2> QED
    BY <1>0, <1>6, <1>7, <2>1
<1>8. ASSUME \/ InsertUser(q) \/ Commit(q) \/ AcquireTimesOut(q) \/ WriteUser(q) \/ Fail(q)
      PROVE  FALSE
  BY <1>3, <1>8 DEF InsertUser, Commit, AcquireTimesOut, WriteUser, Fail
<1>9. ASSUME CheckAccount(q) \/ SendWrite(q) PROVE FALSE
  <2>1. /\ requests[q] # NULL /\ requests[q].kind \in {"signUp", "update", "delete"}
        /\ Stop(q) \/ \E step \in {"insert", "write", "writing"} : GoTo(q, step)
    BY <1>9 DEF CheckAccount, SendWrite, At
  <2>2. About(q, i)
    BY <1>3, <1>7, <2>1
  <2> QED
    BY <2>1, <2>2 DEF About
<1>10. ASSUME ReadInsight(q)
       PROVE  /\ About(q, i) /\ requests'[q].step = "write"
              /\ requests'[q].xp # NULL => ~insights[i]
  <2> DEFINE newly == IsNewlyActioned(insights[requests[q].about], requests[q].status)
             next == [requests[q] EXCEPT !.step = "write", !.xp = IF newly THEN 0 ELSE NULL]
  <2>1. requests[q] # NULL /\ requests[q] \in Request /\ requests' = [requests EXCEPT ![q] = next]
    BY <1>w, <1>10 DEF ReadInsight, At
  <2>2. newly => ~insights[requests[q].about]
    BY DEF IsNewlyActioned
  <2> HIDE DEF newly
  <2>3. /\ next.kind = requests[q].kind /\ next.about = requests[q].about /\ next.step = "write"
        /\ next.xp # NULL => newly
    BY <2>1 DEF Request
  <2> HIDE DEF next
  <2>4. About(q, i)
    BY <1>6, <2>1, <2>3
  <2>5. requests'[q] = next
    BY <1>0, <2>1
  <2> QED
    BY <2>2, <2>3, <2>4, <2>5 DEF About
<1>11. ASSUME StoreInsightStatus(q)
       PROVE  About(q, i) /\ requests[q].xp # NULL /\ requests'[q].step = "begin"
  BY <1>3, <1>7, <1>11 DEF StoreInsightStatus, At
<1>12. ASSUME BeginTransaction(q)
       PROVE  /\ About(q, i) /\ requests[q].step \notin {"check", "write"}
              /\ requests'[q].step \notin {"check", "write"}
  BY <1>7, <1>12 DEF BeginTransaction, At
<1>13. ASSUME requests[q] # NULL, requests[q].step \notin {"check", "write"},
              NEW next, requests' = [requests EXCEPT ![q] = next],
              next.kind = requests[q].kind, next.about = requests[q].about,
              next.step \notin {"check", "write"}
       PROVE  /\ About(q, i) /\ requests[q].step \notin {"check", "write"}
              /\ requests'[q].step \notin {"check", "write"}
  BY <1>0, <1>6, <1>13
<1>14. ASSUME GetActiveByKey(q)
       PROVE  /\ About(q, i) /\ requests[q].step \notin {"check", "write"}
              /\ requests'[q].step \notin {"check", "write"}
  <2> DEFINE action == actions[KeyOf(requests[q].kind)]
             next == [requests[q] EXCEPT !.step = IF action.active THEN "increment" ELSE "commit",
                                         !.xp = IF action.active THEN action.xp ELSE NULL]
  <2>1. /\ requests[q] # NULL /\ requests[q] \in Request /\ requests[q].step = "action"
        /\ requests' = [requests EXCEPT ![q] = next]
    BY <1>w, <1>14 DEF GetActiveByKey, At
  <2> HIDE DEF action
  <2>2. /\ next.kind = requests[q].kind /\ next.about = requests[q].about
        /\ next.step \notin {"check", "write"}
    BY <2>1 DEF Request
  <2> HIDE DEF next
  <2> QED
    BY <1>13, <2>1, <2>2
<1>15. ASSUME IncrementTotalXp(q)
       PROVE  /\ About(q, i) /\ requests[q].step \notin {"check", "write"}
              /\ requests'[q].step \notin {"check", "write"}
  <2> DEFINE total == users[requests[q].user].totalXp + requests[q].xp
             next == [requests[q] EXCEPT !.step = "previous", !.total = total]
  <2>1. /\ requests[q] # NULL /\ requests[q] \in Request /\ requests[q].step = "increment"
        /\ requests' = [requests EXCEPT ![q] = next]
    BY <1>w, <1>3, <1>15 DEF IncrementTotalXp, At
  <2> HIDE DEF total
  <2>2. /\ next.kind = requests[q].kind /\ next.about = requests[q].about
        /\ next.step \notin {"check", "write"}
    BY <2>1 DEF Request
  <2> HIDE DEF next
  <2> QED
    BY <1>13, <2>1, <2>2
<1>16. ASSUME GetPreviousLevel(q)
       PROVE  /\ About(q, i) /\ requests[q].step \notin {"check", "write"}
              /\ requests'[q].step \notin {"check", "write"}
  <2> DEFINE level == LevelForXp(PreviousTotal(q))
             next == [requests[q] EXCEPT !.step = "level", !.previous = level]
  <2>1. /\ requests[q] # NULL /\ requests[q] \in Request /\ requests[q].step = "previous"
        /\ requests' = [requests EXCEPT ![q] = next]
    BY <1>w, <1>3, <1>16 DEF GetPreviousLevel, At
  <2> HIDE DEF level
  <2>2. /\ next.kind = requests[q].kind /\ next.about = requests[q].about
        /\ next.step \notin {"check", "write"}
    BY <2>1 DEF Request
  <2> HIDE DEF next
  <2> QED
    BY <1>13, <2>1, <2>2
<1>17. ASSUME GetNewLevel(q)
       PROVE  /\ About(q, i) /\ requests[q].step \notin {"check", "write"}
              /\ requests'[q].step \notin {"check", "write"}
  <2> DEFINE level == LevelForXp(requests[q].total)
             next == [requests[q] EXCEPT !.step = "commit", !.level = level]
  <2>1. /\ requests[q] # NULL /\ requests[q] \in Request /\ requests[q].step = "level"
        /\ requests' = [requests EXCEPT ![q] = next]
    BY <1>w, <1>3, <1>17 DEF GetNewLevel, At
  <2> HIDE DEF level
  <2>2. /\ next.kind = requests[q].kind /\ next.about = requests[q].about
        /\ next.step \notin {"check", "write"}
    BY <2>1 DEF Request
  <2> HIDE DEF next
  <2> QED
    BY <1>13, <2>1, <2>2
<1> QED
  BY <1>1, <1>4, <1>5, <1>8, <1>9, <1>10, <1>11, <1>12, <1>14, <1>15, <1>16, <1>17, OnlyItself
     DEF Acts, RequestStep, RowStep

\* Who writes the insights, and what was awarded of them.
LEMMA InsightSteps ==
  ASSUME [Next]_vars
  PROVE  /\ overlapped \subseteq overlapped'
         /\ \/ UNCHANGED <<insights, awarded>>
            \/ \E r \in Requests : StoreInsightStatus(r) \/ (Commit(r) /\ UNCHANGED insights)
<1>1. ASSUME NEW r \in Requests, RequestStep(r) \/ RowStep(r) \/ Fail(r)
      PROVE  /\ overlapped' = overlapped
             /\ \/ UNCHANGED <<insights, awarded>>
                \/ StoreInsightStatus(r) \/ (Commit(r) /\ UNCHANGED insights)
  BY <1>1 DEF RequestStep, RowStep, CheckAccount, InsertUser, SendWrite, ReadInsight,
           StoreInsightStatus, BeginTransaction, GetActiveByKey, GetPreviousLevel, GetNewLevel,
           Commit, AcquireTimesOut, WriteUser, IncrementTotalXp, Fail
<1>2. ASSUME NEW r \in Requests,
             \/ \E email \in Emails : SignUp(r, email) \/ \E u \in Users : UpdateUser(r, u, email)
             \/ \E u \in Users : DeleteUser(r, u) \/ AddSubscription(r, u)
             \/ \E i \in Insights, status \in BOOLEAN : UpdateInsightStatus(r, i, status)
      PROVE  overlapped \subseteq overlapped' /\ UNCHANGED <<insights, awarded>>
  BY <1>2 DEF SignUp, UpdateUser, DeleteUser, AddSubscription, UpdateInsightStatus, Start
<1>3. ASSUME (\E e \in ActionEdits : UpdateXpAction(e)) \/ (\E e \in LevelEdits : WriteLevel(e))
      PROVE  overlapped' = overlapped /\ UNCHANGED <<insights, awarded>>
  BY <1>3 DEF UpdateXpAction, WriteLevel
<1>4. CASE UNCHANGED vars
  BY <1>4 DEF vars
<1>5. CASE Next
  BY <1>1, <1>2, <1>3, <1>5 DEF Next
<1> QED
  BY <1>4, <1>5

\* One request at a time decides about an insight, unless two overlap.
LEMMA OneRequestPerInsightStep ==
  ASSUME IInv, [Next]_vars
  PROVE  OneRequestPerInsight'
<1>0. TypeInv /\ requests \in [Requests -> Request \cup {NULL}] /\ insights \in [Insights -> BOOLEAN]
  BY DEF IInv, TypeInv, TypeOK
<1> SUFFICES ASSUME NEW i \in Insights, i \notin overlapped', NEW r \in Requests, About(r, i)'
             PROVE  /\ \A q \in Requests : About(q, i)' => q = r
                    /\ requests'[r].step = "write" /\ requests'[r].xp # NULL => ~insights'[i]
                    /\ requests'[r].step \notin {"check", "write"} => i \notin awarded'
  BY DEF OneRequestPerInsight
<1>1. i \notin overlapped
  BY InsightSteps
<1>2. \A q \in Requests : About(q, i) =>
        /\ \A p \in Requests : About(p, i) => p = q
        /\ requests[q].step = "write" /\ requests[q].xp # NULL => ~insights[i]
        /\ requests[q].step \notin {"check", "write"} => i \notin awarded
  BY <1>1 DEF IInv, OneRequestPerInsight
\* A request that starts finds no other one about the insight.
<1>3. ASSUME NEW q \in Requests, NEW status \in BOOLEAN, UpdateInsightStatus(q, i, status),
             NEW p \in Requests
      PROVE  ~About(p, i)
  BY <1>1, <1>3 DEF UpdateInsightStatus, About, InProgress
<1>4. ASSUME NEW q \in Requests, NEW status \in BOOLEAN, UpdateInsightStatus(q, i, status),
             NEW p \in Requests, p # q
      PROVE  ~About(p, i)'
  <2>1. requests'[p] = requests[p]
    BY <1>0, <1>4 DEF UpdateInsightStatus, Start
  <2> QED
    BY <1>3, <1>4, <2>1 DEF About
<1>5. \A q \in Requests : About(q, i)' => q = r
  <2> SUFFICES ASSUME NEW q \in Requests, About(q, i)' PROVE q = r
    OBVIOUS
  <2>1. About(q, i) \/ \E status \in BOOLEAN : UpdateInsightStatus(q, i, status)
    BY <1>0, AboutKept
  <2>2. About(r, i) \/ \E status \in BOOLEAN : UpdateInsightStatus(r, i, status)
    BY <1>0, AboutKept
  <2> QED
    BY <1>2, <1>4, <2>1, <2>2
\* Nobody else stores its status or commits its award.
<1>6. ASSUME About(r, i), ~StoreInsightStatus(r) PROVE insights'[i] = insights[i]
  <2>1. ASSUME NEW q \in Requests, StoreInsightStatus(q) PROVE insights'[i] = insights[i]
    <3>1. requests[q] # NULL /\ requests[q].kind = "insight"
      BY <2>1 DEF StoreInsightStatus, At
    <3>2. requests[q].about # i
      BY <1>2, <1>6, <2>1, <3>1 DEF About
    <3> QED
      BY <1>0, <2>1, <3>2 DEF StoreInsightStatus
  <2> QED
    BY <2>1, InsightSteps
<1>7. ASSUME About(r, i), i \notin awarded PROVE i \notin awarded'
  <2>1. ASSUME NEW q \in Requests, StoreInsightStatus(q) PROVE i \notin awarded'
    BY <1>7, <2>1 DEF StoreInsightStatus
  <2>2. ASSUME NEW q \in Requests, Commit(q) PROVE i \notin awarded'
    <3>1. requests[q] # NULL
      BY <2>2 DEF Commit, At
    <3>2. q # r
      BY <1>0, <2>2 DEF Commit, Stop, About
    <3>3. ~(requests[q].kind = "insight" /\ requests[q].about = i)
      BY <1>2, <1>7, <3>1, <3>2 DEF About
    <3> QED
      BY <1>7, <2>2, <3>3 DEF Commit
  <2> QED
    BY <1>7, <2>1, <2>2, InsightSteps
<1>8. CASE About(r, i) /\ requests'[r] = requests[r] /\ ~StoreInsightStatus(r)
  BY <1>2, <1>5, <1>6, <1>7, <1>8
<1>9. CASE About(r, i) /\ ReadInsight(r) /\ requests'[r].step = "write"
           /\ (requests'[r].xp # NULL => ~insights[i])
  BY <1>5, <1>9 DEF ReadInsight
<1>10. CASE About(r, i) /\ StoreInsightStatus(r) /\ requests'[r].step = "begin"
            /\ requests[r].xp # NULL
  <2>1. ~insights[i]
    BY <1>2, <1>10 DEF StoreInsightStatus, At
  <2>2. i \notin awarded'
    BY <1>10, <2>1 DEF StoreInsightStatus, About
  <2> QED
    BY <1>5, <1>10, <2>2
<1>11. CASE About(r, i) /\ requests[r].step \notin {"check", "write"}
            /\ requests'[r].step \notin {"check", "write"}
  BY <1>2, <1>5, <1>7, <1>11
<1>12. CASE /\ requests'[r].step = "check"
            /\ \E status \in BOOLEAN : UpdateInsightStatus(r, i, status)
  BY <1>5, <1>12
<1>13. ASSUME About(r, i), requests'[r] = requests[r], StoreInsightStatus(r) PROVE FALSE
  <2>1. requests[r] \in Request /\ requests[r].step = "write"
    BY <1>0, <1>13 DEF StoreInsightStatus, At
  <2>2. Stop(r) \/ GoTo(r, "begin")
    BY <1>13 DEF StoreInsightStatus
  <2>3. requests'[r] = NULL \/ requests'[r].step = "begin"
    BY <1>0, <2>1, <2>2 DEF Stop, GoTo, Request
  <2> QED
    BY <1>13, <2>1, <2>3 DEF About
<1> QED
  BY <1>0, <1>8, <1>9, <1>10, <1>11, <1>12, <1>13, AboutKept

-----------------------------------------------------------------------------
(* The invariant and its theorems.                                         *)

\* The invariant holds at the start.
LEMMA InvInit == ASSUME Init PROVE IInv
<1>1. TypeInv /\ LedgerInv
  BY TypeInit, LedgerInit
<1>2. \A r \in Requests : requests[r] = NULL
  BY DEF Init
<1>3. RowsAreHeld /\ LevelsAreRead /\ OneRequestPerInsight
  BY <1>2 DEF RowsAreHeld, LevelsAreRead, OneRequestPerInsight, Incremented, About
<1> QED
  BY <1>1, <1>3 DEF IInv

\* Every step keeps the invariant.
LEMMA InvStep == ASSUME IInv, [Next]_vars PROVE IInv'
  BY TypeStep, LedgerStep, RowsAreHeldStep, LevelsAreReadStep, OneRequestPerInsightStep DEF IInv

\* The invariant holds in every behaviour.
LEMMA Invariance == Spec => []IInv
  BY InvInit, InvStep, PTL DEF Spec

\* Every table and every request holds what it may hold (TypeOK).
THEOREM TypeCorrect == Spec => []TypeOK
<1>1. IInv => TypeOK
  BY DEF IInv, TypeInv
<1> QED
  BY <1>1, Invariance, PTL

\* The total of an account is what its ledger adds up to, for any number of awards that
\* overlap, fail or are edited meanwhile (awardWithinTransaction, incrementTotalXp).
THEOREM LedgerAddsUp == Spec => []TotalIsSumOfLog
<1>1. IInv => TotalIsSumOfLog
  BY DEF IInv, LedgerInv, TotalIsSumOfLog
<1> QED
  BY <1>1, Invariance, PTL

\* Whichever requests race for an address, the partial unique index lets one account in
\* use have it (UserService.create, assertEmailIsAvailable).
THEOREM EmailsAreUnique == Spec => []OneAccountPerEmail
<1>1. ASSUME Init PROVE OneAccountPerEmail
  BY <1>1 DEF Init, OneAccountPerEmail, Live
<1>2. ASSUME IInv, OneAccountPerEmail, [Next]_vars PROVE OneAccountPerEmail'
  <2>1. CASE UNCHANGED users
    BY <1>2, <2>1 DEF OneAccountPerEmail, Live
  <2>2. ASSUME NEW r \in Requests, InsertUser(r) PROVE OneAccountPerEmail'
    <3> SUFFICES ASSUME NEW u \in Users, NEW v \in Users, u # v, Live(u)', Live(v)',
                        users'[u].email = users'[v].email
                 PROVE  FALSE
      BY DEF OneAccountPerEmail
    <3>1. ASSUME NEW x \in Users, NEW y \in Users, x # y, Live(x)', Live(y)',
                 users'[x].email = users'[y].email, users'[x] # users[x]
          PROVE  FALSE
      <4>1. /\ users'[x].email = requests[r].about /\ ~ViolatesIndex(requests[r].about, NULL)
            /\ users'[y] = users[y]
        BY <1>2, <2>2, <3>1, InsertRow DEF IInv
      <4>2. Live(y) /\ users[y].email = requests[r].about /\ y # NULL
        BY <3>1, <4>1, DataAssumption DEF Live
      <4> QED
        BY <4>1, <4>2 DEF ViolatesIndex, EmailTaken
    <3>2. users'[u] = users[u] /\ users'[v] = users[v]
      BY <3>1
    <3> QED
      BY <1>2, <3>2 DEF OneAccountPerEmail, Live
  <2>3. ASSUME NEW r \in Requests, WriteUser(r) PROVE OneAccountPerEmail'
    <3> SUFFICES ASSUME NEW u \in Users, NEW v \in Users, u # v, Live(u)', Live(v)',
                        users'[u].email = users'[v].email
                 PROVE  FALSE
      BY DEF OneAccountPerEmail
    <3>1. ASSUME NEW x \in Users, NEW y \in Users, x # y, Live(x)', Live(y)',
                 users'[x].email = users'[y].email, users'[x] # users[x]
          PROVE  FALSE
      <4>1. /\ users'[x].email = requests[r].about /\ ~ViolatesIndex(requests[r].about, x)
            /\ x = requests[r].user
        BY <1>2, <2>3, <3>1, WriteRow DEF IInv, Live
      <4>2. users'[y] = users[y]
        BY <1>2, <2>3, <3>1, <4>1, WriteRow DEF IInv
      <4>3. Live(y) /\ users[y].email = requests[r].about
        BY <3>1, <4>1, <4>2 DEF Live
      <4> QED
        BY <3>1, <4>1, <4>3 DEF ViolatesIndex, EmailTaken
    <3>2. users'[u] = users[u] /\ users'[v] = users[v]
      BY <3>1
    <3> QED
      BY <1>2, <3>2 DEF OneAccountPerEmail, Live
  <2>4. ASSUME NEW r \in Requests, Commit(r), requests[r].xp # NULL PROVE OneAccountPerEmail'
    <3>1. /\ requests[r].user \in Users /\ Live(requests[r].user) /\ requests[r].total \in Nat
          /\ users[requests[r].user] \in User
          /\ users' = [users EXCEPT ![requests[r].user].totalXp = requests[r].total]
      BY <1>2, <2>4, CommitType DEF Request
    <3>2. ASSUME NEW u \in Users, Live(u)' PROVE Live(u) /\ users'[u].email = users[u].email
      <4>1. CASE u = requests[r].user
        <5>1. users'[u] = [users[u] EXCEPT !.totalXp = requests[r].total]
          BY <1>2, <3>1, <4>1 DEF IInv, TypeInv, TypeOK
        <5> QED
          BY <3>1, <4>1, <5>1 DEF User
      <4>2. CASE u # requests[r].user
        <5>1. users'[u] = users[u]
          BY <1>2, <3>1, <4>2 DEF IInv, TypeInv, TypeOK
        <5> QED
          BY <3>2, <5>1 DEF Live
      <4> QED
        BY <4>1, <4>2
    <3> QED
      BY <1>2, <3>2 DEF OneAccountPerEmail
  <2>5. ASSUME NEW r \in Requests, Commit(r), requests[r].xp = NULL PROVE UNCHANGED users
    BY <2>5 DEF Commit
  <2> QED
    BY <1>2, <2>1, <2>2, <2>3, <2>4, <2>5, LedgerSteps
<1> QED
  BY <1>1, <1>2, Invariance, PTL DEF Spec

\* A subscription and its award are committed together, so the ledger never has more of
\* them than there are subscriptions (SubscriptionService.create).
THEOREM AwardsHavePlans == Spec => []NoAwardWithoutPlan
<1> DEFINE Added(u) == AwardsOf(u, "SUBSCRIPTION_ADDED")
<1>1. ASSUME Init PROVE NoAwardWithoutPlan
  <2> SUFFICES ASSUME NEW u \in Users PROVE Cardinality(Added(u)) <= plans[u]
    BY DEF NoAwardWithoutPlan
  <2>1. Added(u) = {} /\ plans[u] = 0
    BY <1>1 DEF Init, AwardsOf, EventsOf
  <2> QED
    BY <2>1, FS_EmptySet
<1>2. ASSUME IInv, NoAwardWithoutPlan, [Next]_vars PROVE NoAwardWithoutPlan'
  <2> SUFFICES ASSUME NEW u \in Users PROVE Cardinality(Added(u)') <= plans'[u]
    BY DEF NoAwardWithoutPlan
  <2>0. Cardinality(Added(u)) <= plans[u]
    BY <1>2 DEF NoAwardWithoutPlan
  <2>1. IsFiniteSet(Added(u)) /\ Cardinality(Added(u)) \in Nat /\ plans \in [Users -> Nat]
    <3>1. Added(u) \subseteq EventsOf(u)
      BY DEF AwardsOf
    <3> QED
      BY <1>2, <3>1, EventsFinite, FS_Subset, FS_CardinalityType DEF IInv, TypeInv, TypeOK
  <2>2. ASSUME UNCHANGED <<xpEvents, plans>> PROVE Cardinality(Added(u)') <= plans'[u]
    BY <2>0, <2>2 DEF AwardsOf, EventsOf
  <2>3. ASSUME NEW r \in Requests, Commit(r) PROVE Cardinality(Added(u)') <= plans'[u]
    <3> DEFINE q == requests[r]
    <3>1. q.user \in Users /\ q.kind \in {"insight", "plan"}
      <4>1. q \in Request /\ WellFormed(q) /\ q.step = "commit"
        BY <1>2, <2>3 DEF Commit, At, IInv, TypeInv, TypeOK, RequestsWellFormed
      <4> QED
        BY <4>1 DEF WellFormed, Request
    <3>2. plans'[u] = plans[u] + (IF q.kind = "plan" /\ u = q.user THEN 1 ELSE 0)
      BY <2>1, <2>3, <3>1 DEF Commit
    <3>3. CASE q.xp = NULL
      <4>1. Added(u)' = Added(u)
        BY <2>3, <3>3 DEF Commit, AwardsOf, EventsOf
      <4> HIDE DEF Added
      <4> QED
        BY <2>0, <2>1, <3>2, <4>1
    <3>4. CASE q.xp # NULL
      <4> DEFINE n == Len(xpEvents) + 1
      <4>1. /\ \A k \in EventsOf(u) : xpEvents'[k] = xpEvents[k]
            /\ u # q.user => EventsOf(u)' = EventsOf(u)
            /\ u = q.user => /\ EventsOf(u)' = EventsOf(u) \cup {n} /\ n \notin EventsOf(u)
                             /\ xpEvents'[n].key = KeyOf(q.kind)
        BY <1>2, <2>3, <3>4, CommitEvents
      <4> HIDE DEF n
      <4>2. \/ Added(u)' = Added(u)
            \/ q.kind = "plan" /\ u = q.user /\ Added(u)' = Added(u) \cup {n} /\ n \notin Added(u)
        BY <3>1, <4>1 DEF AwardsOf, KeyOf
      <4>3. n \notin Added(u) => Cardinality(Added(u) \cup {n}) = Cardinality(Added(u)) + 1
        BY <2>1, FS_AddElement
      <4> HIDE DEF Added
      <4> QED
        BY <2>0, <2>1, <3>2, <4>2, <4>3
    <3> QED
      BY <3>3, <3>4
  <2> QED
    BY <1>2, <2>2, <2>3, LedgerSteps DEF InsertUser, WriteUser
<1> QED
  BY <1>1, <1>2, Invariance, PTL DEF Spec

\* While the levels are those of the migration, an award reports a new level exactly when
\* it carried the account over a threshold (awardWithinTransaction).
THEOREM LevelsAreReported == Spec => LevelUpReported
<1>1. ASSUME IInv, NEW r \in Requests, Commit(r), requests[r].xp # NULL, levels = SeededLevels
      PROVE  LET u == requests[r].user
             IN  LeveledUp(r) <=> LevelForXp(users[u].totalXp) # LevelForXp(users'[u].totalXp)
  <2> DEFINE q == requests[r]
             u == q.user
  <2>1. /\ q \in Request /\ u \in Users /\ q.xp \in Nat /\ Incremented(r)
        /\ users[u] \in User /\ q.total = users[u].totalXp + q.xp
        /\ users' = [users EXCEPT ![u].totalXp = q.total]
    BY <1>1, CommitType
  <2>2. q.step = "commit"
    BY <1>1 DEF Commit, At
  <2>3. q.previous = LevelForXp(q.total - q.xp) /\ q.level = LevelForXp(q.total)
    BY <1>1, <2>1, <2>2 DEF IInv, LevelsAreRead
  <2>4. users[u].totalXp \in Nat /\ q.total \in Nat
    BY <2>1 DEF User, Request
  <2>5. q.total - q.xp = users[u].totalXp
    BY <2>1, <2>4
  <2>6. users'[u] = [users[u] EXCEPT !.totalXp = q.total]
    BY <1>1, <2>1 DEF IInv, TypeInv, TypeOK
  <2>7. users'[u].totalXp = q.total
    BY <2>1, <2>6 DEF User
  <2> QED
    BY <2>3, <2>5, <2>7 DEF LeveledUp
<1>2. IInv => [\A r \in Requests : Commit(r) /\ requests[r].xp # NULL /\ levels = SeededLevels =>
         LET u == requests[r].user
         IN  LeveledUp(r) <=> LevelForXp(users[u].totalXp) # LevelForXp(users'[u].totalXp)]_vars
  BY <1>1
<1> QED
  BY <1>2, Invariance, PTL DEF LevelUpReported

\* The ledger of a removed account is closed: the award of a request with a token that
\* outlived it fails, also when the account is removed while the award is under way
\* (incrementTotalXp).
THEOREM RemovedLedgersAreClosed == Spec => RemovedAccountsEarnNothing
<1>1. ASSUME IInv, [Next]_vars, NEW u \in Users, users[u] # NULL, users[u].deleted
      PROVE  EventsOf(u)' = EventsOf(u)
  <2>1. CASE UNCHANGED xpEvents
    BY <2>1 DEF EventsOf
  <2>2. ASSUME NEW r \in Requests, Commit(r), requests[r].xp # NULL
        PROVE  EventsOf(u)' = EventsOf(u)
    <3>1. Live(requests[r].user)
      BY <1>1, <2>2, CommitType
    <3>2. u # requests[r].user
      BY <1>1, <3>1 DEF Live
    <3> QED
      BY <1>1, <2>2, <3>2, CommitEvents
  <2> QED
    BY <1>1, <2>1, <2>2, LedgerSteps DEF InsertUser, WriteUser, Commit
<1>2. ASSUME IInv, [Next]_vars
      PROVE  \A u \in Users : users[u] # NULL /\ users[u].deleted => EventsOf(u)' = EventsOf(u)
  BY <1>1, <1>2
<1> QED
  BY <1>2, Invariance, PTL DEF Spec, RemovedAccountsEarnNothing

\* One request at a time about an insight awards each change to ACTION_TAKEN once; the
\* insights that two requests updated at once are set apart (InsightService.updateStatus).
THEOREM InsightsAreAwardedOnce == Spec => ActionAwardedOnce
<1>1. ASSUME IInv, NEW r \in Requests, Commit(r), requests[r].kind = "insight",
             requests[r].about \notin overlapped
      PROVE  requests[r].about \notin awarded
  <2>1. requests[r] # NULL /\ requests[r].step = "commit" /\ WellFormed(requests[r])
    BY <1>1 DEF Commit, At, IInv, TypeInv, RequestsWellFormed
  <2>2. requests[r].about \in Insights /\ About(r, requests[r].about)
    BY <1>1, <2>1 DEF WellFormed, About
  <2> QED
    BY <1>1, <2>1, <2>2 DEF IInv, OneRequestPerInsight
<1>2. IInv => [\A r \in Requests :
         Commit(r) /\ requests[r].kind = "insight" /\ requests[r].xp # NULL =>
           requests[r].about \notin awarded \ overlapped]_vars
  BY <1>1
<1> QED
  BY <1>2, Invariance, PTL DEF ActionAwardedOnce

-----------------------------------------------------------------------------
(* The requests implement AwardLedger.                                     *)

\* What AwardLedger sees.
AwardVars == <<Standings, Totals, xpEvents, plans>>

\* An account that is inserted is opened.
LEMMA InsertOpens ==
  ASSUME TypeInv, NEW r \in Requests, InsertUser(r)
  PROVE  [Atomic!Next]_AwardVars
<1> USE DEF AwardVars
<1>1. UNCHANGED <<xpEvents, plans>>
  BY DEF InsertUser
<1>2. CASE UNCHANGED users
  BY <1>1, <1>2 DEF Standings, Totals
<1>3. ASSUME NEW v \in Users, users[v] = NULL,
             users' = [users EXCEPT ![v] =
                         [email |-> requests[r].about, totalXp |-> 0, deleted |-> FALSE]]
      PROVE  Atomic!Next
  <2> DEFINE row == [email |-> requests[r].about, totalXp |-> 0, deleted |-> FALSE]
  <2>1. row # NULL
    <3>1. requests[r] \in Request /\ WellFormed(requests[r]) /\ requests[r].step = "insert"
      BY DEF InsertUser, At, TypeInv, TypeOK, RequestsWellFormed
    <3>2. requests[r].about \in Emails
      BY <3>1 DEF WellFormed, Request
    <3>3. row \in [email : Emails, totalXp : Nat, deleted : BOOLEAN]
      BY <3>2
    <3> HIDE DEF row
    <3> QED
      BY <3>3, DataAssumption
  <2>2. row.totalXp = 0 /\ row.deleted = FALSE
    OBVIOUS
  <2> HIDE DEF row
  <2>3. users'[v] = row /\ \A u \in Users \ {v} : users'[u] = users[u]
    BY <1>3 DEF row, TypeInv, TypeOK
  <2>4. Standings[v] = "NEW" /\ Standings' = [Standings EXCEPT ![v] = "OPEN"]
    BY <1>3, <2>1, <2>2, <2>3 DEF Standings
  <2>5. Totals' = Totals
    BY <1>3, <2>1, <2>2, <2>3 DEF Totals
  <2> QED
    BY <1>1, <2>4, <2>5 DEF Atomic!Next, Atomic!Open
<1> QED
  BY <1>2, <1>3 DEF InsertUser

\* A write closes an account or leaves its standing and its total alone.
LEMMA WriteCloses ==
  ASSUME TypeInv, NEW r \in Requests, WriteUser(r)
  PROVE  [Atomic!Next]_AwardVars
<1> USE DEF AwardVars
<1> DEFINE u == requests[r].user
<1>1. UNCHANGED <<xpEvents, plans>>
  BY DEF WriteUser
<1>2. requests[r] \in Request /\ WellFormed(requests[r]) /\ requests[r].step = "writing"
  BY DEF WriteUser, At, TypeInv, TypeOK, RequestsWellFormed
<1>3. u \in Users
  BY <1>2 DEF WellFormed, Request
<1>4. users \in [Users -> User \cup {NULL}]
  BY DEF TypeInv, TypeOK
<1>5. \A v \in Users \ {u} : users'[v] = users[v]
  BY <1>3, WriteRow
<1>6. CASE users'[u] = users[u]
  BY <1>1, <1>5, <1>6 DEF Standings, Totals
<1>7. CASE /\ Live(u) /\ users[u] \in User /\ users'[u] \in User
           /\ users'[u].totalXp = users[u].totalXp
  <2>1. users[u] # NULL /\ users'[u] # NULL
    BY <1>7, DataAssumption DEF User
  <2>2. Totals' = Totals
    BY <1>5, <1>7, <2>1 DEF Totals
  <2>3. CASE users'[u].deleted
    <3>1. Standings[u] = "OPEN" /\ Standings' = [Standings EXCEPT ![u] = "CLOSED"]
      BY <1>3, <1>5, <1>7, <2>1, <2>3 DEF Standings, Live
    <3> QED
      BY <1>1, <1>3, <2>2, <3>1 DEF Atomic!Next, Atomic!Close
  <2>4. CASE ~users'[u].deleted
    <3>1. Standings' = Standings
      BY <1>3, <1>5, <1>7, <2>1, <2>4 DEF Standings, Live
    <3> QED
      BY <1>1, <2>2, <3>1
  <2> QED
    BY <2>3, <2>4
<1> QED
  BY <1>3, <1>6, <1>7, WriteRow

\* A commit is an award, a subscription, both at once or neither.
LEMMA CommitAwards ==
  ASSUME IInv, NEW r \in Requests, Commit(r)
  PROVE  [Atomic!Next]_AwardVars
<1> USE DEF AwardVars
<1> DEFINE q == requests[r]
           u == q.user
           key == KeyOf(q.kind)
<1>1. u \in Users /\ q.kind \in {"insight", "plan"}
  <2>1. q \in Request /\ WellFormed(q) /\ q.step = "commit"
    BY DEF Commit, At, IInv, TypeInv, TypeOK, RequestsWellFormed
  <2> QED
    BY <2>1 DEF WellFormed, Request
<1>2. /\ q.kind = "plan" => plans' = [plans EXCEPT ![u] = @ + 1] /\ key = "SUBSCRIPTION_ADDED"
      /\ q.kind = "insight" => plans' = plans /\ key = "INSIGHT_DISMISSED"
  BY DEF Commit, KeyOf
<1>3. CASE q.xp = NULL
  <2>1. UNCHANGED <<users, xpEvents>>
    BY <1>3 DEF Commit
  <2>2. Standings' = Standings /\ Totals' = Totals
    BY <2>1 DEF Standings, Totals
  <2> HIDE DEF q, u, key
  <2> QED
    BY <1>1, <1>2, <2>1, <2>2 DEF Atomic!Next, Atomic!AddPlan
<1>4. CASE q.xp # NULL
  <2>1. /\ q.xp \in Nat /\ Incremented(r)
        /\ users[u] \in User /\ q.total = users[u].totalXp + q.xp
        /\ users' = [users EXCEPT ![u].totalXp = q.total]
    BY <1>4, CommitType
  <2>2. xpEvents' = Append(xpEvents, [user |-> u, key |-> key, xp |-> q.xp])
    BY <1>4 DEF Commit
  <2>3. Live(u)
    BY <2>1 DEF IInv, RowsAreHeld
  <2>4. users \in [Users -> User \cup {NULL}]
    BY DEF IInv, TypeInv, TypeOK
  <2>5. users[u].totalXp \in Nat /\ q.total \in Nat
    BY <2>1 DEF User
  <2>6. users'[u] = [users[u] EXCEPT !.totalXp = q.total]
        /\ \A v \in Users \ {u} : users'[v] = users[v]
    BY <1>1, <2>1, <2>4
  <2>7. users'[u] \in User /\ users'[u].totalXp = q.total /\ users'[u].deleted = users[u].deleted
    BY <2>1, <2>5, <2>6 DEF User
  <2> HIDE DEF q, u, key
  <2>8. users[u] # NULL /\ users'[u] # NULL
    BY <2>1, <2>7, DataAssumption DEF User
  <2>9. Standings[u] = "OPEN" /\ Standings' = Standings
    BY <1>1, <2>3, <2>6, <2>7, <2>8 DEF Standings, Live
  <2>10. /\ Totals[u] = users[u].totalXp /\ Totals'[u] = q.total
         /\ Totals' = [Totals EXCEPT ![u] = q.total]
    BY <1>1, <2>6, <2>7, <2>8 DEF Totals
  <2>11. Totals'[u] - Totals[u] = q.xp /\ Totals[u] + q.xp = q.total
    BY <2>1, <2>5, <2>10
  <2>12. Atomic!Award(u, key)
    BY <2>1, <2>2, <2>9, <2>10, <2>11 DEF Atomic!Award
  <2> QED
    BY <1>1, <1>2, <2>12 DEF Atomic!Next, Atomic!AddPlan, Atomic!ActOnInsight
<1> QED
  BY <1>3, <1>4

\* The requests implement AwardLedger: an award is one step for whoever looks at accounts,
\* ledger and subscriptions, for any number of requests, accounts and connections, whatever
\* overlaps it, fails, times out or is edited meanwhile (awardWithinTransaction).
THEOREM AwardsRefine == Spec => AwardsAreAtomic
<1>1. ASSUME Init PROVE Atomic!Init
  BY <1>1 DEF Init, Atomic!Init, Standings, Totals
<1>2. ASSUME IInv, [Next]_vars PROVE [Atomic!Next]_AwardVars
  <2>1. CASE UNCHANGED <<users, xpEvents, plans>>
    BY <2>1 DEF AwardVars, Standings, Totals
  <2> QED
    BY <1>2, <2>1, LedgerSteps, InsertOpens, WriteCloses, CommitAwards DEF IInv
<1> QED
  BY <1>1, <1>2, Invariance, PTL DEF Spec, AwardsAreAtomic, Atomic!Spec, AwardVars
=============================================================================
