----------------------------- MODULE LeakResponse -----------------------------
(***************************************************************************)
(* Money leaks of one user and what the program does about them: the scan  *)
(* that follows an import, the cancellation drafts of its agent, what the  *)
(* user does with both, and the part of a disconnect that removes what     *)
(* refers to a removed subscription or charge.  src/modules/insight,       *)
(* leak-response, cancellation-agent, draft-action, subscription, and      *)
(* BankConnectionService.deleteLinkedInsights.                             *)
(*                                                                         *)
(* A scan runs in the background of an import; its queries, the inserts    *)
(* and the responses are promises that run side by side.  A request of the *)
(* user is split between its read and its write where the write depends on *)
(* what was read.  The purge runs in one database transaction, visible to  *)
(* others at its commit.                                                   *)
(*                                                                         *)
(* What a query detects depends on prices and kinds of service, which are  *)
(* left open: any active subscription may be too expensive, any two may    *)
(* offer the same; the two queries about a single charge are one.  Left    *)
(* out: bodies, savings and the rest of the metadata, what the agent       *)
(* writes, the words of an error, and the experience an action earns.      *)
(* Bounds: one kind of service has duplicates, one purge runs at a time.   *)
(***************************************************************************)
EXTENDS FiniteSets, Naturals

CONSTANTS
    Plans,          \* uuids of subscriptions rows
    Charges,        \* uuids of transactions rows
    Insights,       \* uuids of insights rows
    Scans,          \* leak scans that can run at once
    Requests,       \* requests of the user that can be unfinished at once
    Posted,         \* bound: what the insights are about that the user posts
    MaxWriters,     \* bound: scans, purges and posted insights in progress
    NULL

ASSUME BoundAssumption ==
    /\ MaxWriters \in Nat /\ IsFiniteSet(Scans) /\ IsFiniteSet(Requests)
    /\ Plans \cap Charges = {} /\ NULL \notin Plans \cup Charges
    /\ \A leak \in Posted : leak.listed = {}

VARIABLES
    subjects,   \* the state of each subscription and transaction
    insights,   \* the rows of insights, or NULL
    drafts,     \* the status of the draft of each insight, or NULL
    scans,      \* what each running scan holds, or NULL
    requests,   \* what each unfinished request has read, or NULL
    purge,      \* what the running purge holds, or NULL
    excused     \* insights that get no draft: their own response or scan failed

vars == <<subjects, insights, drafts, scans, requests, purge, excused>>

-----------------------------------------------------------------------------
Types == {"OVERPAYING", "DUPLICATE", "HIGH_SPENDING"}

\* READ is also ACTION_TAKEN.
InsightStatuses == {"UNREAD", "READ"}

\* The statuses a draft can be in; the user may ask for EXECUTED too.
DraftStatuses == {"DRAFTED", "APPROVED", "REJECTED"}

Subjects == Plans \cup Charges

\* A row that was never stored or that the user deleted is ABSENT.  CANCELLED is
\* also a requested cancellation.
SubjectStates == {"ABSENT", "ACTIVE", "CANCELLED", "STORED", "PURGED"}

\* An insight is about a subscription or a transaction, and a duplicate lists
\* every subscription of its group in its metadata.
Leak == [type : Types, about : Subjects \cup {NULL}, listed : SUBSET Plans]

Insight == [leak : Leak, status : InsightStatuses]

Steps == {"created", "agent", "store"}

\* The types whose query is not answered yet, the leaks found and not inserted
\* yet, whether one of these failed, and the responses under way.
Scan == [queries : SUBSET Types,
         candidates : SUBSET Leak,
         failed : BOOLEAN,
         todo : [Insights -> [step : Steps, leak : Leak] \cup {NULL}]]

Request == [op : {"post"}, leak : Leak]
           \cup [op : {"decide"}, id : Insights, to : DraftStatuses]

Purge == [step : {"find", "drafts", "commit"},
          doomed : SUBSET Subjects,
          found : SUBSET Insights,
          drafts : SUBSET Insights]

ASSUME RowAssumption ==
    /\ Posted \subseteq Leak
    /\ NULL \notin Insight /\ NULL \notin DraftStatuses /\ NULL \notin Request
    /\ NULL \notin Scan /\ NULL \notin [step : Steps, leak : Leak] /\ NULL \notin Purge

\* Neither soft-deleted by the user nor by a purge.
Stored(x) == subjects[x] \notin {"ABSENT", "PURGED"}
ActivePlans == {p \in Plans : subjects[p] = "ACTIVE"}
StoredCharges == {c \in Charges : subjects[c] = "STORED"}

\* The partial unique indexes of insights.
UnreadExists(leak) ==
    \E n \in Insights :
        /\ insights[n] # NULL /\ insights[n].status = "UNREAD"
        /\ insights[n].leak.type = leak.type
        /\ insights[n].leak.about = leak.about /\ leak.about # NULL

Running(r, op) == requests[r] # NULL /\ requests[r].op = op

Writers == Cardinality({s \in Scans : scans[s] # NULL})
           + Cardinality({r \in Requests : Running(r, "post")})
           + (IF purge = NULL THEN 0 ELSE 1)

\* Uuids are used again when nobody refers to them.
FreshInsight(n) ==
    /\ insights[n] = NULL
    /\ \A s \in Scans : scans[s] # NULL => scans[s].todo[n] = NULL
    /\ \A r \in Requests : Running(r, "decide") => requests[r].id # n
    /\ purge # NULL => n \notin purge.found

Mentions(leak, x) == leak.about = x \/ x \in leak.listed

FreshSubject(x) ==
    /\ ~Stored(x)
    /\ \A n \in Insights : insights[n] # NULL => ~Mentions(insights[n].leak, x)
    /\ \A s \in Scans : scans[s] # NULL =>
         /\ \A leak \in scans[s].candidates : ~Mentions(leak, x)
         /\ \A n \in Insights : scans[s].todo[n] # NULL => ~Mentions(scans[s].todo[n].leak, x)
    /\ \A r \in Requests : Running(r, "post") => ~Mentions(requests[r].leak, x)
    /\ purge # NULL => x \notin purge.doomed

Insert(n, leak) ==
    /\ FreshInsight(n)
    /\ insights' = [insights EXCEPT ![n] = [leak |-> leak, status |-> "UNREAD"]]
    /\ excused' = excused \ {n}

-----------------------------------------------------------------------------
(* The scan.                                                               *)

StartScan(s) ==
    /\ scans[s] = NULL
    /\ Writers < MaxWriters
    /\ scans' = [scans EXCEPT ![s] = [queries |-> Types, candidates |-> {},
                                      failed |-> FALSE, todo |-> [n \in Insights |-> NULL]]]
    /\ UNCHANGED <<subjects, insights, drafts, requests, purge, excused>>

\* The results the query of a type may have now.  The anchor of a group is its
\* oldest subscription, which is left open.
Detected(type) ==
    LET Found(about, listed) == [type |-> type, about |-> about, listed |-> listed]
        anchored == {d \in ActivePlans \X SUBSET ActivePlans :
                       d[1] \in d[2] /\ Cardinality(d[2]) > 1}
    IN  CASE type = "OVERPAYING" -> SUBSET {Found(p, {}) : p \in ActivePlans}
          [] type = "DUPLICATE" ->
               {{}} \cup {{Found(d[1], d[2])} : d \in anchored}
          [] type = "HIGH_SPENDING" -> SUBSET {Found(c, {}) : c \in StoredCharges}

FindLeaks(s, type) ==
    /\ scans[s] # NULL /\ type \in scans[s].queries
    /\ \E found \in Detected(type) :
         scans' = [scans EXCEPT ![s].queries = @ \ {type}, ![s].candidates = @ \cup found]
    /\ UNCHANGED <<subjects, insights, drafts, requests, purge, excused>>

\* An unread insight of the same type about the same subject makes it a no-op.
CreateInsightIdempotent(s, leak, n) ==
    /\ scans[s] # NULL /\ leak \in scans[s].candidates
    /\ IF UnreadExists(leak)
         THEN /\ scans' = [scans EXCEPT ![s].candidates = @ \ {leak}]
              /\ UNCHANGED <<insights, excused>>
         ELSE /\ Insert(n, leak)
              /\ scans' = [scans EXCEPT ![s].candidates = @ \ {leak},
                                        ![s].todo[n] = [step |-> "created", leak |-> leak]]
    /\ UNCHANGED <<subjects, drafts, requests, purge>>

\* A query or an insert throws.  The others are not stopped, but scanForUser is.
ScanFails(s) ==
    /\ scans[s] # NULL
    /\ \/ \E type \in scans[s].queries :
            scans' = [scans EXCEPT ![s].queries = @ \ {type}, ![s].failed = TRUE]
       \/ \E leak \in scans[s].candidates :
            scans' = [scans EXCEPT ![s].candidates = @ \ {leak}, ![s].failed = TRUE]
    /\ UNCHANGED <<subjects, insights, drafts, requests, purge, excused>>

Scanned(s) == scans[s] # NULL /\ scans[s].queries = {} /\ scans[s].candidates = {}

At(s, n, step) ==
    /\ Scanned(s) /\ ~scans[s].failed
    /\ scans[s].todo[n] # NULL /\ scans[s].todo[n].step = step

Settle(s, n) == scans' = [scans EXCEPT ![s].todo[n] = NULL]

\* respondToInsight, up to the subscription.
GetSubscription(s, n) ==
    LET about == scans[s].todo[n].leak.about IN
    /\ At(s, n, "created")
    /\ CASE about \notin Plans -> Settle(s, n) /\ UNCHANGED excused
         [] about \in Plans /\ Stored(about) ->
              /\ scans' = [scans EXCEPT ![s].todo[n].step = "agent"]
              /\ UNCHANGED excused
         [] OTHER -> Settle(s, n) /\ excused' = excused \cup {n}
    /\ UNCHANGED <<subjects, insights, drafts, requests, purge>>

DraftCancellation(s, n) ==
    /\ At(s, n, "agent")
    /\ scans' = [scans EXCEPT ![s].todo[n].step = "store"]
    /\ UNCHANGED <<subjects, insights, drafts, requests, purge, excused>>

\* Mutant: the responses run one after the other, and the first failure ends them.
ResponseFailsForAll(s, n) ==
    /\ \E step \in Steps : At(s, n, step)
    /\ scans' = [scans EXCEPT ![s].todo = [m \in Insights |-> NULL]]
    /\ excused' = excused \cup {n}
    /\ UNCHANGED <<subjects, insights, drafts, requests, purge>>

\* The vendor has no address to write to, the agent throws, or a statement fails.
ResponseFails(s, n) ==
    /\ \E step \in Steps : At(s, n, step)
    /\ Settle(s, n)
    /\ excused' = excused \cup {n}
    /\ UNCHANGED <<subjects, insights, drafts, requests, purge>>

\* DraftActionService.create: the foreign key needs the insight, and a draft that
\* is there already is kept.
CreateDraft(s, n) ==
    /\ At(s, n, "store")
    /\ Settle(s, n)
    /\ CASE insights[n] = NULL -> excused' = excused \cup {n} /\ UNCHANGED drafts
         [] insights[n] # NULL /\ drafts[n] # NULL -> UNCHANGED <<drafts, excused>>
         [] OTHER -> drafts' = [drafts EXCEPT ![n] = "DRAFTED"] /\ UNCHANGED excused
    /\ UNCHANGED <<subjects, insights, requests, purge>>

Forget(s) ==
    /\ scans' = [scans EXCEPT ![s] = NULL]
    /\ excused' = excused \cup {n \in Insights : scans[s].todo[n] # NULL}
    /\ UNCHANGED <<subjects, insights, drafts, requests, purge>>

\* A failed scan answers none of its insights.
EndScan(s) ==
    /\ Scanned(s)
    /\ scans[s].failed \/ \A n \in Insights : scans[s].todo[n] = NULL
    /\ Forget(s)

\* The instance that ran the scan in the background ends.
InstanceStops(s) == scans[s] # NULL /\ Forget(s)

-----------------------------------------------------------------------------
(* What the user does.                                                     *)

Begin(r, request) ==
    requests[r] = NULL /\ requests' = [requests EXCEPT ![r] = request]
Finish(r) == requests' = [requests EXCEPT ![r] = NULL]

\* A subscription appears, by the user or by an import, or a charge is imported.
Create(x) ==
    /\ FreshSubject(x)
    /\ subjects' = [subjects EXCEPT ![x] = IF x \in Plans THEN "ACTIVE" ELSE "STORED"]
    /\ UNCHANGED <<insights, drafts, scans, requests, purge, excused>>

\* SubscriptionService.delete and TransactionService.delete; insights stay.
Delete(x) ==
    /\ Stored(x)
    /\ subjects' = [subjects EXCEPT ![x] = "ABSENT"]
    /\ UNCHANGED <<insights, drafts, scans, requests, purge, excused>>

\* requestCancellation and confirmCancellation: neither of the two statuses they
\* store is ACTIVE, which is all that is asked here, and a late write of either
\* changes nothing more.
Cancel(p) ==
    /\ subjects[p] = "ACTIVE"
    /\ subjects' = [subjects EXCEPT ![p] = "CANCELLED"]
    /\ UNCHANGED <<insights, drafts, scans, requests, purge, excused>>

\* InsightService.create, up to assertReferencesBelongToUser.
PostInsight(r, leak) ==
    /\ leak.about # NULL => Stored(leak.about)
    /\ Writers < MaxWriters
    /\ Begin(r, [op |-> "post", leak |-> leak])
    /\ UNCHANGED <<subjects, insights, drafts, scans, purge, excused>>

InsertInsight(r, n) ==
    /\ Running(r, "post")
    /\ IF UnreadExists(requests[r].leak) THEN UNCHANGED <<insights, excused>>
                                         ELSE Insert(n, requests[r].leak)
    /\ Finish(r)
    /\ UNCHANGED <<subjects, drafts, scans, purge>>

\* updateStatus writes whatever the status was, so its read, which decides about
\* the reward only, is left out.  The index of unread insights may refuse it.
UpdateInsightStatus(n, to) ==
    /\ insights[n] # NULL /\ insights[n].status # to
    /\ to = "UNREAD" => ~UnreadExists(insights[n].leak)
    /\ insights' = [insights EXCEPT ![n].status = to]
    /\ UNCHANGED <<subjects, drafts, scans, requests, purge, excused>>

\* Mutant: an approved draft can be sent.
TransitionsToExecuted == [DRAFTED |-> {"APPROVED", "REJECTED"}, APPROVED |-> {"EXECUTED"},
                          REJECTED |-> {}, EXECUTED |-> {}]

\* DRAFT_ACTION_STATUS_TRANSITIONS.
Transitions == [DRAFTED |-> {"APPROVED", "REJECTED"}, APPROVED |-> {},
                REJECTED |-> {}, EXECUTED |-> {}]

UpdateDraftStatus(r, n, to) ==
    /\ drafts[n] # NULL /\ to \in Transitions[drafts[n]]
    /\ Begin(r, [op |-> "decide", id |-> n, to |-> to])
    /\ UNCHANGED <<subjects, insights, drafts, scans, purge, excused>>

StoreDraftStatus(r) ==
    LET q == requests[r] IN
    /\ Running(r, "decide")
    /\ drafts' = IF drafts[q.id] # NULL THEN [drafts EXCEPT ![q.id] = q.to] ELSE drafts
    /\ Finish(r)
    /\ UNCHANGED <<subjects, insights, scans, purge, excused>>

\* A statement fails, or the instance ends.
AbandonRequest(r) ==
    /\ requests[r] # NULL
    /\ Finish(r)
    /\ UNCHANGED <<subjects, insights, drafts, scans, purge, excused>>

-----------------------------------------------------------------------------
(* The purge.  What it removes is decided by the charges of an account.    *)

\* Soft-deletes within the transaction.  The subscriptions come from charges, so
\* the user may have deleted some already.
StartPurge(doomed) ==
    /\ purge = NULL
    /\ Writers < MaxWriters
    /\ doomed # {}
    /\ \A x \in doomed : Stored(x) \/ (x \in Plans /\ subjects[x] = "ABSENT")
    /\ purge' = [step |-> "find", doomed |-> doomed, found |-> {}, drafts |-> {}]
    /\ UNCHANGED <<subjects, insights, drafts, scans, requests, excused>>

PurgeAt(step) == purge # NULL /\ purge.step = step

\* Mutant: the subscriptions an insight lists are not looked at.
LinkedToAbout(n) == insights[n] # NULL /\ insights[n].leak.about \in purge.doomed

\* buildLinkConditions.
LinkedTo(n) ==
    /\ insights[n] # NULL
    /\ \/ insights[n].leak.about \in purge.doomed
       \/ insights[n].leak.listed \cap purge.doomed # {}

FindIdsLinkedTo ==
    /\ PurgeAt("find")
    /\ purge' = [purge EXCEPT !.step = "drafts", !.found = {n \in Insights : LinkedTo(n)}]
    /\ UNCHANGED <<subjects, insights, drafts, scans, requests, excused>>

\* Mutant: a draft the user decided on is kept.
DeleteByInsightsUndecided ==
    /\ PurgeAt("drafts")
    /\ purge' = [purge EXCEPT !.step = "commit",
                              !.drafts = {n \in purge.found : drafts[n] = "DRAFTED"}]
    /\ UNCHANGED <<subjects, insights, drafts, scans, requests, excused>>

DeleteByInsights ==
    /\ PurgeAt("drafts")
    /\ purge' = [purge EXCEPT !.step = "commit",
                              !.drafts = {n \in purge.found : drafts[n] # NULL}]
    /\ UNCHANGED <<subjects, insights, drafts, scans, requests, excused>>

\* A draft that the transaction did not delete refers to an insight it deletes.
DraftInTheWay == \E n \in purge.found : drafts[n] # NULL /\ n \notin purge.drafts

\* deleteByIds, which from here on locks the rows, and the commit.
PurgeCommit ==
    /\ PurgeAt("commit") /\ ~DraftInTheWay
    /\ subjects' = [x \in Subjects |-> IF x \in purge.doomed THEN "PURGED" ELSE subjects[x]]
    /\ insights' = [n \in Insights |-> IF n \in purge.found THEN NULL ELSE insights[n]]
    /\ drafts' = [n \in Insights |-> IF n \in purge.drafts THEN NULL ELSE drafts[n]]
    /\ purge' = NULL
    /\ UNCHANGED <<scans, requests, excused>>

\* The foreign key of a draft, or any statement that fails.
PurgeRollback ==
    /\ purge # NULL
    /\ purge' = NULL
    /\ UNCHANGED <<subjects, insights, drafts, scans, requests, excused>>

-----------------------------------------------------------------------------
Init ==
    /\ subjects = [x \in Subjects |-> "ABSENT"]
    /\ insights = [n \in Insights |-> NULL]
    /\ drafts = [n \in Insights |-> NULL]
    /\ scans = [s \in Scans |-> NULL]
    /\ requests = [r \in Requests |-> NULL]
    /\ purge = NULL
    /\ excused = {}

Responding(s, n) ==
    \/ GetSubscription(s, n)
    \/ DraftCancellation(s, n)
    \/ ResponseFails(s, n)
    \/ CreateDraft(s, n)

ScanStep(s) ==
    \/ \E type \in Types : FindLeaks(s, type)
    \/ scans[s] # NULL /\ \E leak \in scans[s].candidates, n \in Insights :
         CreateInsightIdempotent(s, leak, n)
    \/ ScanFails(s)
    \/ \E n \in Insights : Responding(s, n)
    \/ EndScan(s)

RequestStep(r) ==
    \/ \E leak \in Posted : PostInsight(r, leak)
    \/ \E n \in Insights :
         \/ InsertInsight(r, n)
         \/ \E to \in DOMAIN Transitions : UpdateDraftStatus(r, n, to)
    \/ StoreDraftStatus(r)
    \/ AbandonRequest(r)

PurgeStep ==
    \/ \E doomed \in SUBSET Subjects : StartPurge(doomed)
    \/ FindIdsLinkedTo \/ DeleteByInsights \/ PurgeCommit \/ PurgeRollback

Next ==
    \/ \E s \in Scans : StartScan(s) \/ ScanStep(s) \/ InstanceStops(s)
    \/ \E r \in Requests : RequestStep(r)
    \/ \E x \in Subjects : Create(x) \/ Delete(x)
    \/ \E p \in Plans : Cancel(p)
    \/ \E n \in Insights, to \in InsightStatuses : UpdateInsightStatus(n, to)
    \/ PurgeStep

Spec == Init /\ [][Next]_vars

-----------------------------------------------------------------------------
(* What the response to a leak must satisfy.                               *)

\* Every variable holds what its table or its process can hold; a draft is
\* never EXECUTED, so nothing is ever sent.
TypeOK ==
    /\ subjects \in [Subjects -> SubjectStates]
    /\ insights \in [Insights -> Insight \cup {NULL}]
    /\ drafts \in [Insights -> DraftStatuses \cup {NULL}]
    /\ scans \in [Scans -> Scan \cup {NULL}]
    /\ requests \in [Requests -> Request \cup {NULL}]
    /\ purge \in Purge \cup {NULL}
    /\ excused \subseteq Insights

\* Removing a subscription or a charge with its account removes every insight
\* about it and every duplicate that lists it (buildLinkConditions).
NoInsightAboutPurged ==
    \A n \in Insights : insights[n] # NULL =>
        \A x \in Subjects : Mentions(insights[n].leak, x) => subjects[x] # "PURGED"

\* No draft, decided or not, stands in the way of disconnecting an account: the
\* purge never fails on the draft of an insight it removes (deleteLinkedInsights).
DraftsNeverBlockPurge == PurgeAt("commit") => ~DraftInTheWay

\* A leak about a subscription that a scan newly stored keeps its response until
\* it has a draft, however the responses to the others end, unless its own
\* response failed, the scan failed or was cut off, or the insight was removed
\* (scanAndRespond).
NewLeaksAreAnswered ==
    [][\A s \in Scans, n \in Insights :
         (/\ scans[s] # NULL /\ scans[s].todo[n] # NULL
          /\ scans[s].todo[n].leak.about \in Plans
          /\ scans'[s] = NULL \/ scans'[s].todo[n] = NULL)
         => drafts'[n] # NULL \/ n \in excused']_vars
=============================================================================
