------------------------- MODULE LeakResponseProofs --------------------------
(***************************************************************************)
(* What LeakResponse promises holds for every number of subscriptions,     *)
(* charges, insights, scans and requests.  That a purge leaves nothing     *)
(* behind and is never stopped by a draft needs that no scan and no posted *)
(* insight overlaps it: MaxWriters = 1.                                    *)
(***************************************************************************)
EXTENDS LeakResponse, FiniteSetTheorems, TLAPS

\* What a query of the scan finds is a leak.
LEMMA DetectedType ==
  ASSUME TypeOK, NEW type \in Types, NEW found \in Detected(type)
  PROVE  found \subseteq Leak
<1> USE DEF Detected, Leak, Subjects, ActivePlans, StoredCharges
<1>1. CASE type = "OVERPAYING"
  BY <1>1
<1>2. CASE type = "DUPLICATE"
  BY <1>2
<1>3. CASE type = "HIGH_SPENDING"
  BY <1>3
<1> QED
  BY <1>1, <1>2, <1>3 DEF Types

\* A query that is answered, or that fails, leaves the responses alone.
Unanswered(s) ==
    /\ scans'[s] \in Scan /\ scans'[s].todo = scans[s].todo
    /\ scans' \in [Scans -> Scan \cup {NULL}]

LEMMA FoundType ==
  ASSUME TypeOK, NEW s \in Scans, NEW type \in Types, FindLeaks(s, type)
  PROVE  Unanswered(s)
<1> USE DEF TypeOK
<1>1. PICK found \in Detected(type) :
        scans' = [scans EXCEPT ![s].queries = @ \ {type}, ![s].candidates = @ \cup found]
  BY DEF FindLeaks
<1>2. scans[s] \in Scan /\ found \subseteq Leak
  BY DetectedType DEF FindLeaks
<1> DEFINE scan == [scans[s] EXCEPT !.queries = @ \ {type}, !.candidates = @ \cup found]
<1>3. scan \in Scan /\ scan.todo = scans[s].todo
  BY <1>2 DEF Scan
<1>4. scans' = [scans EXCEPT ![s] = scan]
  BY <1>1, <1>2 DEF Scan
<1> HIDE DEF scan
<1> QED
  BY <1>3, <1>4 DEF Unanswered

LEMMA FailedType ==
  ASSUME TypeOK, NEW s \in Scans, ScanFails(s)
  PROVE  Unanswered(s)
<1> USE DEF TypeOK
<1>1. scans[s] \in Scan
  BY DEF ScanFails
<1>2. ASSUME NEW scan \in Scan, scan.todo = scans[s].todo, scans' = [scans EXCEPT ![s] = scan]
      PROVE  Unanswered(s)
  BY <1>2 DEF Unanswered
<1>3. ASSUME NEW type \in Types,
             scans' = [scans EXCEPT ![s].queries = @ \ {type}, ![s].failed = TRUE]
      PROVE  Unanswered(s)
  <2> DEFINE scan == [scans[s] EXCEPT !.queries = @ \ {type}, !.failed = TRUE]
  <2>1. scan \in Scan /\ scan.todo = scans[s].todo
    BY <1>1 DEF Scan
  <2>2. scans' = [scans EXCEPT ![s] = scan]
    BY <1>1, <1>3 DEF Scan
  <2> HIDE DEF scan
  <2> QED
    BY <1>2, <2>1, <2>2
<1>4. ASSUME NEW leak \in scans[s].candidates,
             scans' = [scans EXCEPT ![s].candidates = @ \ {leak}, ![s].failed = TRUE]
      PROVE  Unanswered(s)
  <2> DEFINE scan == [scans[s] EXCEPT !.candidates = @ \ {leak}, !.failed = TRUE]
  <2>1. scan \in Scan /\ scan.todo = scans[s].todo
    BY <1>1 DEF Scan
  <2>2. scans' = [scans EXCEPT ![s] = scan]
    BY <1>1, <1>4 DEF Scan
  <2> HIDE DEF scan
  <2> QED
    BY <1>2, <2>1, <2>2
<1> QED
  BY <1>1, <1>3, <1>4 DEF ScanFails, Scan

\* A new insight is a row.
LEMMA InsertType ==
  ASSUME TypeOK, NEW n \in Insights, NEW leak \in Leak, Insert(n, leak)
  PROVE  insights' \in [Insights -> Insight \cup {NULL}] /\ excused' \subseteq Insights
<1>1. [leak |-> leak, status |-> "UNREAD"] \in Insight
  BY DEF Insight, InsightStatuses
<1> QED
  BY <1>1 DEF TypeOK, Insert

\* A response that goes on, or is settled, leaves the others alone.
LEMMA EntryType ==
  ASSUME TypeOK, NEW s \in Scans, NEW n \in Insights, scans[s] \in Scan,
         NEW entry \in [step : Steps, leak : Leak] \cup {NULL},
         scans' = [scans EXCEPT ![s].todo[n] = entry]
  PROVE  /\ scans'[s] \in Scan /\ scans' \in [Scans -> Scan \cup {NULL}]
         /\ scans'[s].todo[n] = entry
         /\ \A m \in Insights \ {n} : scans'[s].todo[m] = scans[s].todo[m]
<1> DEFINE todo == [scans[s].todo EXCEPT ![n] = entry]
           scan == [scans[s] EXCEPT !.todo = todo]
<1>1. /\ todo \in [Insights -> [step : Steps, leak : Leak] \cup {NULL}]
      /\ todo[n] = entry /\ \A m \in Insights \ {n} : todo[m] = scans[s].todo[m]
  BY DEF Scan
<1>2. scan \in Scan /\ scan.todo = todo
  BY <1>1 DEF Scan
<1>3. scans' = [scans EXCEPT ![s] = scan]
  BY DEF Scan, TypeOK
<1> HIDE DEF todo, scan
<1> QED
  BY <1>1, <1>2, <1>3 DEF TypeOK

LEMMA EntryStepType ==
  ASSUME TypeOK, NEW s \in Scans, NEW n \in Insights, scans[s] \in Scan,
         scans[s].todo[n] # NULL, NEW step \in Steps,
         scans' = [scans EXCEPT ![s].todo[n].step = step]
  PROVE  /\ scans'[s] \in Scan /\ scans' \in [Scans -> Scan \cup {NULL}]
         /\ scans'[s].todo[n] # NULL
         /\ \A m \in Insights \ {n} : scans'[s].todo[m] = scans[s].todo[m]
<1> DEFINE entry == [scans[s].todo[n] EXCEPT !.step = step]
<1>1. entry \in [step : Steps, leak : Leak]
  BY DEF Scan
<1>2. scans' = [scans EXCEPT ![s].todo[n] = entry]
  BY DEF Scan, TypeOK
<1>3. entry # NULL
  BY <1>1, RowAssumption
<1>4. entry \in [step : Steps, leak : Leak] \cup {NULL}
  BY <1>1
<1> HIDE DEF entry
<1>5. scans'[s] \in Scan /\ scans' \in [Scans -> Scan \cup {NULL}]
  BY <1>2, <1>4, EntryType
<1>6. scans'[s].todo[n] = entry
  BY <1>2 DEF Scan, TypeOK
<1>7. \A m \in Insights \ {n} : scans'[s].todo[m] = scans[s].todo[m]
  BY <1>2, <1>4, EntryType
<1> QED
  BY <1>3, <1>5, <1>6, <1>7

\* The responses of a scan.
LEMMA RespondingType ==
  ASSUME TypeOK, NEW s \in Scans, NEW n \in Insights, Responding(s, n)
  PROVE  TypeOK'
<1> USE RowAssumption DEF TypeOK
<1>1. scans[s] \in Scan
  BY DEF Responding, GetSubscription, DraftCancellation, ResponseFails, CreateDraft, At,
     Scanned
<1>3. ASSUME Settle(s, n)
      PROVE  scans' \in [Scans -> Scan \cup {NULL}]
  BY <1>1, <1>3, EntryType DEF Settle
<1>4. ASSUME NEW step \in Steps, scans[s].todo[n] # NULL,
             scans' = [scans EXCEPT ![s].todo[n].step = step]
      PROVE  scans' \in [Scans -> Scan \cup {NULL}]
  BY <1>1, <1>4, EntryStepType
<1>5. CASE GetSubscription(s, n)
  BY <1>3, <1>4, <1>5 DEF GetSubscription, At, Steps
<1>6. CASE DraftCancellation(s, n)
  BY <1>4, <1>6 DEF DraftCancellation, At, Steps
<1>7. CASE ResponseFails(s, n)
  BY <1>3, <1>7 DEF ResponseFails
<1>8. CASE CreateDraft(s, n)
  BY <1>3, <1>8 DEF CreateDraft, DraftStatuses
<1> QED
  BY <1>5, <1>6, <1>7, <1>8 DEF Responding

-----------------------------------------------------------------------------
\* No step stores what the tables and the processes cannot hold.
LEMMA TypeStep ==
  ASSUME TypeOK, [Next]_vars
  PROVE  TypeOK'
<1> USE RowAssumption DEF TypeOK, Finish, Begin, Running
<1>1. ASSUME NEW s \in Scans, StartScan(s)
      PROVE  TypeOK'
  <2>1. [queries |-> Types, candidates |-> {}, failed |-> FALSE,
         todo |-> [n \in Insights |-> NULL]] \in Scan
    BY DEF Scan
  <2> QED
    BY <1>1, <2>1 DEF StartScan
<1>2. ASSUME NEW s \in Scans, NEW type \in Types, FindLeaks(s, type)
      PROVE  TypeOK'
  BY <1>2, FoundType DEF FindLeaks, Unanswered
<1>3. ASSUME NEW s \in Scans, NEW leak \in scans[s].candidates, NEW n \in Insights,
             CreateInsightIdempotent(s, leak, n)
      PROVE  TypeOK'
  <2>1. scans[s] \in Scan /\ leak \in Leak
    BY <1>3 DEF CreateInsightIdempotent, Scan
  <2>2. CASE UnreadExists(leak)
    <3>1. [scans[s] EXCEPT !.candidates = @ \ {leak}] \in Scan
      BY <2>1 DEF Scan
    <3>2. scans' = [scans EXCEPT ![s] = [scans[s] EXCEPT !.candidates = @ \ {leak}]]
      BY <1>3, <2>1, <2>2 DEF CreateInsightIdempotent, Scan
    <3> QED
      BY <1>3, <2>2, <3>1, <3>2 DEF CreateInsightIdempotent
  <2>3. CASE ~UnreadExists(leak)
    <3> DEFINE todo == [scans[s].todo EXCEPT ![n] = [step |-> "created", leak |-> leak]]
               scan == [scans[s] EXCEPT !.candidates = scans[s].candidates \ {leak},
                                        !.todo = todo]
    <3>1. todo \in [Insights -> [step : Steps, leak : Leak] \cup {NULL}]
      BY <2>1 DEF Scan, Steps
    <3>2. scan \in Scan
      BY <2>1, <3>1 DEF Scan
    <3>3. scans' = [scans EXCEPT ![s] = scan]
      BY <1>3, <2>1, <2>3 DEF CreateInsightIdempotent, Scan
    <3> QED
      BY <1>3, <2>1, <2>3, <3>2, <3>3, InsertType DEF CreateInsightIdempotent
  <2> QED
    BY <2>2, <2>3
<1>4. ASSUME NEW s \in Scans, ScanFails(s)
      PROVE  TypeOK'
  BY <1>4, FailedType DEF ScanFails, Unanswered
<1>5. ASSUME NEW s \in Scans, NEW n \in Insights, Responding(s, n)
      PROVE  TypeOK'
  BY <1>5, RespondingType
<1>6. ASSUME NEW s \in Scans, EndScan(s) \/ InstanceStops(s)
      PROVE  TypeOK'
  BY <1>6 DEF EndScan, InstanceStops, Forget
<1>7. ASSUME NEW x \in Subjects, Create(x) \/ Delete(x)
      PROVE  TypeOK'
  BY <1>7 DEF Create, Delete, SubjectStates
<1>8. ASSUME NEW p \in Plans, Cancel(p)
      PROVE  TypeOK'
  BY <1>8 DEF Cancel, SubjectStates, Subjects
<1>9. ASSUME NEW r \in Requests, NEW leak \in Posted, PostInsight(r, leak)
      PROVE  TypeOK'
  <2>1. [op |-> "post", leak |-> leak] \in Request
    BY DEF Request
  <2> QED
    BY <1>9, <2>1 DEF PostInsight
<1>10. ASSUME NEW r \in Requests, NEW n \in Insights, InsertInsight(r, n)
      PROVE  TypeOK'
  <2>1. requests[r].leak \in Leak
    BY <1>10 DEF InsertInsight, Request
  <2> QED
    BY <1>10, <2>1, InsertType DEF InsertInsight
<1>11. ASSUME NEW n \in Insights, NEW to \in InsightStatuses, UpdateInsightStatus(n, to)
      PROVE  TypeOK'
  BY <1>11 DEF UpdateInsightStatus, Insight
<1>12. ASSUME NEW r \in Requests, NEW n \in Insights, NEW to \in DOMAIN Transitions,
              UpdateDraftStatus(r, n, to)
      PROVE  TypeOK'
  <2>1. to \in DraftStatuses
    BY <1>12 DEF UpdateDraftStatus, Transitions, DraftStatuses
  <2>2. [op |-> "decide", id |-> n, to |-> to] \in Request
    BY <2>1 DEF Request
  <2> QED
    BY <1>12, <2>2 DEF UpdateDraftStatus
<1>13. ASSUME NEW r \in Requests, StoreDraftStatus(r)
      PROVE  TypeOK'
  <2>1. requests[r].to \in DraftStatuses
    BY <1>13 DEF StoreDraftStatus, Request
  <2> QED
    BY <1>13, <2>1 DEF StoreDraftStatus
<1>14. ASSUME NEW r \in Requests, AbandonRequest(r)
      PROVE  TypeOK'
  BY <1>14 DEF AbandonRequest
<1>15. ASSUME NEW doomed \in SUBSET Subjects, StartPurge(doomed)
      PROVE  TypeOK'
  BY <1>15 DEF StartPurge, Purge
<1>16. ASSUME FindIdsLinkedTo \/ DeleteByInsights \/ PurgeRollback
      PROVE  TypeOK'
  <2>1. CASE PurgeRollback
    BY <2>1 DEF PurgeRollback
  <2>2. CASE FindIdsLinkedTo
    <3>1. purge \in Purge /\ {n \in Insights : LinkedTo(n)} \in SUBSET Insights
      BY <2>2 DEF FindIdsLinkedTo, PurgeAt
    <3> QED
      BY <2>2, <3>1 DEF FindIdsLinkedTo, Purge
  <2>3. CASE DeleteByInsights
    <3>1. purge \in Purge
      BY <2>3 DEF DeleteByInsights, PurgeAt
    <3>2. {n \in purge.found : drafts[n] # NULL} \in SUBSET Insights
      BY <3>1 DEF Purge
    <3> QED
      BY <2>3, <3>1, <3>2 DEF DeleteByInsights, Purge
  <2> QED
    BY <1>16, <2>1, <2>2, <2>3
<1>17. CASE PurgeCommit
  BY <1>17 DEF PurgeCommit, SubjectStates
<1>18. CASE UNCHANGED vars
  BY <1>18 DEF vars
<1> QED
  BY <1>1, <1>2, <1>3, <1>4, <1>5, <1>6, <1>7, <1>8, <1>9, <1>10, <1>11, <1>12, <1>13,
     <1>14, <1>15, <1>16, <1>17, <1>18 DEF Next, ScanStep, RequestStep, PurgeStep

\* Nothing is stored at first.
LEMMA InitType == Init => TypeOK
BY DEF Init, TypeOK, SubjectStates

\* Every variable keeps its type; in particular no draft is ever EXECUTED.
THEOREM TypeCorrect == Spec => []TypeOK
<1> QED
  BY InitType, TypeStep, PTL DEF Spec

-----------------------------------------------------------------------------
\* A response under way ends with a draft, or its insight is excused.
LEMMA AnswerStep ==
  ASSUME TypeOK, [Next]_vars, NEW s \in Scans, NEW n \in Insights,
         scans[s] # NULL, scans[s].todo[n] # NULL, scans[s].todo[n].leak.about \in Plans,
         scans'[s] = NULL \/ scans'[s].todo[n] = NULL
  PROVE  drafts'[n] # NULL \/ n \in excused'
<1> USE RowAssumption DEF TypeOK
<1>1. scans[s] \in Scan /\ scans[s].todo[n] \in [step : Steps, leak : Leak]
  BY DEF Scan
<1>2. ASSUME NEW m \in Insights, Responding(s, m)
      PROVE  drafts'[n] # NULL \/ n \in excused'
  <2>1. ASSUME Settle(s, m)
        PROVE  m = n
    <3>1. scans' = [scans EXCEPT ![s].todo[m] = NULL]
      BY <2>1 DEF Settle
    <3>2. scans'[s] \in Scan /\ \A l \in Insights \ {m} : scans'[s].todo[l] = scans[s].todo[l]
      BY <1>1, <3>1, EntryType
    <3> QED
      BY <3>2
  <2>2. ASSUME NEW step \in Steps, scans[s].todo[m] # NULL,
               scans' = [scans EXCEPT ![s].todo[m].step = step]
        PROVE  FALSE
    BY <1>1, <2>2, EntryStepType
  <2>3. CASE GetSubscription(s, m)
    BY <2>1, <2>2, <2>3 DEF GetSubscription, At, Steps
  <2>4. CASE DraftCancellation(s, m)
    BY <2>2, <2>4 DEF DraftCancellation, At, Steps
  <2>5. CASE ResponseFails(s, m)
    BY <2>1, <2>5 DEF ResponseFails
  <2>6. CASE CreateDraft(s, m)
    BY <2>1, <2>6 DEF CreateDraft, DraftStatuses
  <2> QED
    BY <1>2, <2>3, <2>4, <2>5, <2>6 DEF Responding
<1>3. ASSUME EndScan(s) \/ InstanceStops(s)
      PROVE  n \in excused'
  BY <1>3 DEF EndScan, InstanceStops, Forget
<1>4. ASSUME NEW type \in Types, FindLeaks(s, type)
      PROVE  FALSE
  BY <1>4, FoundType DEF Unanswered
<1>5. ASSUME ScanFails(s)
      PROVE  FALSE
  BY <1>5, FailedType DEF Unanswered
<1>6. ASSUME NEW leak \in scans[s].candidates, NEW m \in Insights,
             CreateInsightIdempotent(s, leak, m)
      PROVE  FALSE
  <2>1. leak \in Leak
    BY <1>1 DEF Scan
  <2>2. CASE UnreadExists(leak)
    BY <1>1, <1>6, <2>2 DEF CreateInsightIdempotent, Scan
  <2>3. CASE ~UnreadExists(leak)
    <3>1. [step |-> "created", leak |-> leak] \in [step : Steps, leak : Leak]
      BY <2>1 DEF Steps
    <3> QED
      BY <1>1, <1>6, <2>3, <3>1 DEF CreateInsightIdempotent, Scan
  <2> QED
    BY <2>2, <2>3
<1>7. ASSUME scans' = scans
      PROVE  FALSE
  BY <1>7
<1>8. ASSUME NEW z \in Scans, z # s, StartScan(z) \/ ScanStep(z) \/ InstanceStops(z)
      PROVE  FALSE
  <2>1. scans'[s] = scans[s]
    BY <1>8 DEF StartScan, ScanStep, InstanceStops, FindLeaks, CreateInsightIdempotent,
       ScanFails, Responding, GetSubscription, DraftCancellation, ResponseFails, CreateDraft,
       EndScan, Forget, Settle
  <2> QED
    BY <2>1
<1>9. ~StartScan(s)
  BY DEF StartScan
<1>10. ASSUME \/ \E r \in Requests : RequestStep(r)
              \/ \E x \in Subjects : Create(x) \/ Delete(x)
              \/ \E p \in Plans : Cancel(p)
              \/ \E m \in Insights, to \in InsightStatuses : UpdateInsightStatus(m, to)
              \/ PurgeStep
              \/ UNCHANGED vars
       PROVE  scans' = scans
  BY <1>10 DEF RequestStep, PostInsight, InsertInsight, UpdateDraftStatus, StoreDraftStatus,
     AbandonRequest, Create, Delete, Cancel, UpdateInsightStatus, PurgeStep, StartPurge,
     FindIdsLinkedTo, DeleteByInsights, PurgeCommit, PurgeRollback, vars
<1> QED
  BY <1>2, <1>3, <1>4, <1>5, <1>6, <1>7, <1>8, <1>9, <1>10 DEF Next, ScanStep

\* However the responses to the leaks of any number of scans end, each new leak about a
\* subscription gets its draft unless its own response or its scan failed.
THEOREM LeaksAreAnswered == Spec => NewLeaksAreAnswered
<1> DEFINE Answered == \A s \in Scans, n \in Insights :
             (/\ scans[s] # NULL /\ scans[s].todo[n] # NULL
              /\ scans[s].todo[n].leak.about \in Plans
              /\ scans'[s] = NULL \/ scans'[s].todo[n] = NULL)
             => drafts'[n] # NULL \/ n \in excused'
<1>1. TypeOK /\ [Next]_vars => [Answered]_vars
  BY AnswerStep
<1> QED
  BY <1>1, TypeCorrect, PTL DEF Spec, NewLeaksAreAnswered

-----------------------------------------------------------------------------
(* Purges that no scan and no posted insight overlaps; scans and posted    *)
(* insights may overlap each other, and the user may do anything else.     *)

\* While a purge runs, nothing else stores insights or drafts.
PurgeRunsAlone ==
    purge # NULL => /\ \A s \in Scans : scans[s] = NULL
                    /\ \A r \in Requests : ~Running(r, "post")

\* What a leak is about was not purged.
LiveLeak(leak) == \A x \in Subjects : Mentions(leak, x) => subjects[x] # "PURGED"

\* Nor was what a scan has found or the user is posting.
LeaksInHandAreLive ==
    /\ \A s \in Scans : scans[s] # NULL => \A leak \in scans[s].candidates : LiveLeak(leak)
    /\ \A r \in Requests : Running(r, "post") => LiveLeak(requests[r].leak)

\* What the purge found is all there is.
PurgeFoundAll ==
    purge # NULL /\ purge.step \in {"drafts", "commit"} =>
        \A n \in Insights : LinkedTo(n) => n \in purge.found

PurgeInv ==
    /\ TypeOK
    /\ PurgeRunsAlone
    /\ LeaksInHandAreLive
    /\ NoInsightAboutPurged
    /\ PurgeFoundAll
    /\ DraftsNeverBlockPurge

\* A query finds only what is there.
LEMMA DetectedAreLive ==
  ASSUME NEW type \in Types, NEW found \in Detected(type), NEW leak \in found
  PROVE  LiveLeak(leak)
<1> USE DEF Detected, LiveLeak, Mentions, ActivePlans, StoredCharges
<1>1. CASE type = "OVERPAYING"
  BY <1>1
<1>2. CASE type = "DUPLICATE"
  BY <1>2
<1>3. CASE type = "HIGH_SPENDING"
  BY <1>3
<1> QED
  BY <1>1, <1>2, <1>3 DEF Types

\* Only the commit of a purge purges.
LEMMA SubjectsStay ==
  ASSUME TypeOK, [Next]_vars, ~PurgeCommit, NEW x \in Subjects, subjects'[x] = "PURGED"
  PROVE  subjects[x] = "PURGED"
<1> USE DEF TypeOK
<1>1. ASSUME NEW y \in Subjects, Create(y) \/ Delete(y)
      PROVE  subjects[x] = "PURGED"
  BY <1>1 DEF Create, Delete
<1>2. ASSUME NEW p \in Plans, Cancel(p)
      PROVE  subjects[x] = "PURGED"
  BY <1>2 DEF Cancel
<1>3. ASSUME NEW s \in Scans, StartScan(s) \/ ScanStep(s) \/ InstanceStops(s)
      PROVE  subjects[x] = "PURGED"
  BY <1>3 DEF StartScan, ScanStep, InstanceStops, FindLeaks, CreateInsightIdempotent, ScanFails,
     Responding, GetSubscription, DraftCancellation, ResponseFails, CreateDraft, EndScan, Forget
<1>4. ASSUME \/ \E r \in Requests : RequestStep(r)
             \/ \E n \in Insights, to \in InsightStatuses : UpdateInsightStatus(n, to)
             \/ PurgeStep
             \/ UNCHANGED vars
      PROVE  subjects[x] = "PURGED"
  BY <1>4 DEF RequestStep, PostInsight, InsertInsight, UpdateDraftStatus, StoreDraftStatus,
     AbandonRequest, UpdateInsightStatus, PurgeStep, StartPurge, FindIdsLinkedTo,
     DeleteByInsights, PurgeRollback, vars
<1> QED
  BY <1>1, <1>2, <1>3, <1>4 DEF Next

\* A scan gains candidates by its queries alone.
LEMMA CandidatesStay ==
  ASSUME TypeOK, [Next]_vars, NEW s \in Scans, scans'[s] # NULL,
         NEW leak \in scans'[s].candidates
  PROVE  \/ scans[s] # NULL /\ leak \in scans[s].candidates
         \/ \E type \in Types : (FindLeaks(s, type) /\ LiveLeak(leak))
<1> DEFINE Kept == scans[s] # NULL /\ leak \in scans[s].candidates
<1> USE DEF TypeOK
<1>1. ASSUME NEW z \in Scans, StartScan(z)
      PROVE  Kept
  BY <1>1 DEF StartScan
<1>2. ASSUME NEW z \in Scans, NEW type \in Types, FindLeaks(z, type)
      PROVE  Kept \/ (FindLeaks(s, type) /\ LiveLeak(leak))
  <2>1. PICK found \in Detected(type) :
          scans' = [scans EXCEPT ![z].queries = @ \ {type}, ![z].candidates = @ \cup found]
    BY <1>2 DEF FindLeaks
  <2>2. scans[z] # NULL /\ scans[z] \in Scan
    BY <1>2 DEF FindLeaks
  <2>3. CASE z = s
    <3>1. leak \in scans[s].candidates \cup found
      BY <2>1, <2>2, <2>3 DEF Scan
    <3>2. ASSUME leak \in found
          PROVE  LiveLeak(leak)
      BY <3>2, DetectedAreLive
    <3> QED
      BY <1>2, <2>2, <2>3, <3>1, <3>2
  <2>4. CASE z # s
    <3>1. scans'[s] = scans[s]
      BY <1>2, <2>4 DEF FindLeaks
    <3>2. Kept
      BY <3>1
    <3> QED
      BY <3>2
  <2> QED
    BY <2>3, <2>4
<1>3. ASSUME NEW z \in Scans, NEW l \in scans[z].candidates, NEW n \in Insights,
             CreateInsightIdempotent(z, l, n)
      PROVE  Kept
  BY <1>3 DEF CreateInsightIdempotent, Scan
<1>4. ASSUME NEW z \in Scans, ScanFails(z)
      PROVE  Kept
  <2>1. scans[z] # NULL /\ scans[z] \in Scan
    BY <1>4 DEF ScanFails
  <2>2. ASSUME NEW type \in scans[z].queries,
               scans' = [scans EXCEPT ![z].queries = @ \ {type}, ![z].failed = TRUE]
        PROVE  Kept
    BY <2>1, <2>2 DEF Scan
  <2>3. ASSUME NEW l \in scans[z].candidates,
               scans' = [scans EXCEPT ![z].candidates = @ \ {l}, ![z].failed = TRUE]
        PROVE  Kept
    BY <2>1, <2>3 DEF Scan
  <2> QED
    BY <1>4, <2>2, <2>3 DEF ScanFails
<1>5. ASSUME NEW z \in Scans, NEW n \in Insights, Responding(z, n)
      PROVE  Kept
  <2>1. scans[z] # NULL /\ scans[z] \in Scan
    BY <1>5 DEF Responding, GetSubscription, DraftCancellation, ResponseFails, CreateDraft, At,
       Scanned
  <2>2. ASSUME Settle(z, n)
        PROVE  Kept
    BY <2>1, <2>2 DEF Settle, Scan
  <2>3. ASSUME NEW step \in Steps, scans' = [scans EXCEPT ![z].todo[n].step = step]
        PROVE  Kept
    BY <2>1, <2>3 DEF Scan
  <2> QED
    BY <1>5, <2>2, <2>3 DEF Responding, GetSubscription, DraftCancellation, ResponseFails,
       CreateDraft, Steps
<1>6. ASSUME NEW z \in Scans, EndScan(z) \/ InstanceStops(z)
      PROVE  Kept
  BY <1>6 DEF EndScan, InstanceStops, Forget
<1>7. ASSUME \/ \E r \in Requests : RequestStep(r)
             \/ \E x \in Subjects : Create(x) \/ Delete(x)
             \/ \E p \in Plans : Cancel(p)
             \/ \E n \in Insights, to \in InsightStatuses : UpdateInsightStatus(n, to)
             \/ PurgeStep
             \/ UNCHANGED vars
      PROVE  Kept
  BY <1>7 DEF RequestStep, PostInsight, InsertInsight, UpdateDraftStatus, StoreDraftStatus,
     AbandonRequest, Create, Delete, Cancel, UpdateInsightStatus, PurgeStep, StartPurge,
     FindIdsLinkedTo, DeleteByInsights, PurgeCommit, PurgeRollback, vars
<1> QED
  BY <1>1, <1>2, <1>3, <1>4, <1>5, <1>6, <1>7 DEF Next, ScanStep

\* The user posts only what is stored.
LEMMA PostedStay ==
  ASSUME TypeOK, [Next]_vars, NEW r \in Requests, Running(r, "post")',
         Running(r, "post") => LiveLeak(requests[r].leak)
  PROVE  LiveLeak(requests'[r].leak)
<1> USE DEF Running
<1>1. ASSUME NEW q \in Requests, NEW leak \in Posted, PostInsight(q, leak)
      PROVE  LiveLeak(requests'[r].leak)
  <2>1. requests' = [requests EXCEPT ![q] = [op |-> "post", leak |-> leak]]
    BY <1>1 DEF PostInsight, Begin
  <2>2. LiveLeak(leak)
    BY <1>1, BoundAssumption DEF PostInsight, LiveLeak, Mentions, Stored, Subjects
  <2> QED
    BY <2>1, <2>2 DEF TypeOK
<1>2. ASSUME NEW q \in Requests, NEW n \in Insights, NEW to \in DOMAIN Transitions,
             UpdateDraftStatus(q, n, to)
      PROVE  LiveLeak(requests'[r].leak)
  BY <1>2 DEF UpdateDraftStatus, Begin, TypeOK
<1>3. ASSUME NEW q \in Requests,
             \/ \E n \in Insights : InsertInsight(q, n)
             \/ StoreDraftStatus(q)
             \/ AbandonRequest(q)
      PROVE  LiveLeak(requests'[r].leak)
  BY <1>3 DEF InsertInsight, StoreDraftStatus, AbandonRequest, Finish, TypeOK
<1>4. ASSUME NEW s \in Scans, StartScan(s) \/ ScanStep(s) \/ InstanceStops(s)
      PROVE  LiveLeak(requests'[r].leak)
  BY <1>4 DEF StartScan, ScanStep, InstanceStops, FindLeaks, CreateInsightIdempotent, ScanFails,
     Responding, GetSubscription, DraftCancellation, ResponseFails, CreateDraft, EndScan, Forget
<1>5. ASSUME \/ \E x \in Subjects : Create(x) \/ Delete(x)
             \/ \E p \in Plans : Cancel(p)
             \/ \E n \in Insights, to \in InsightStatuses : UpdateInsightStatus(n, to)
             \/ PurgeStep
             \/ UNCHANGED vars
      PROVE  LiveLeak(requests'[r].leak)
  BY <1>5 DEF Create, Delete, Cancel, UpdateInsightStatus, PurgeStep, StartPurge,
     FindIdsLinkedTo, DeleteByInsights, PurgeCommit, PurgeRollback, vars
<1> QED
  BY <1>1, <1>2, <1>3, <1>4, <1>5 DEF Next, RequestStep

\* Purging leaves nobody with a leak in hand, and nothing else purges.
LEMMA InHandStep ==
  ASSUME PurgeInv, [Next]_vars
  PROVE  LeaksInHandAreLive'
<1> USE DEF PurgeInv, LiveLeak
<1>1. CASE PurgeCommit
  <2>1. \A s \in Scans : scans'[s] = NULL
    BY <1>1 DEF PurgeCommit, PurgeAt, PurgeRunsAlone
  <2>2. \A r \in Requests : ~Running(r, "post")'
    BY <1>1 DEF PurgeCommit, PurgeAt, PurgeRunsAlone, Running
  <2> QED
    BY <2>1, <2>2 DEF LeaksInHandAreLive
<1>2. CASE ~PurgeCommit
  <2>1. ASSUME NEW leak, LiveLeak(leak)
        PROVE  LiveLeak(leak)'
    BY <1>2, <2>1, SubjectsStay DEF Mentions
  <2>2. ASSUME NEW s \in Scans, scans'[s] # NULL, NEW leak \in scans'[s].candidates
        PROVE  LiveLeak(leak)'
    <3>1. LiveLeak(leak)
      BY <2>2, CandidatesStay DEF LeaksInHandAreLive
    <3> QED
      BY <2>1, <3>1
  <2>3. ASSUME NEW r \in Requests, Running(r, "post")'
        PROVE  LiveLeak(requests[r].leak)'
    <3>1. LiveLeak(requests'[r].leak)
      BY <2>3, PostedStay DEF LeaksInHandAreLive
    <3> QED
      BY <2>1, <3>1
  <2> QED
    BY <2>2, <2>3 DEF LeaksInHandAreLive
<1> QED
  BY <1>1, <1>2

\* An insight is inserted about a leak in hand, or keeps its leak.
LEMMA InsightsStay ==
  ASSUME TypeOK, LeaksInHandAreLive, [Next]_vars, NEW n \in Insights, insights'[n] # NULL
  PROVE  \/ insights[n] # NULL /\ insights'[n].leak = insights[n].leak
         \/ purge = NULL /\ LiveLeak(insights'[n].leak)
         \/ ~PurgeRunsAlone
<1> USE DEF TypeOK
<1> DEFINE Kept == insights[n] # NULL /\ insights'[n].leak = insights[n].leak
           Stays == \/ Kept
                    \/ purge = NULL /\ LiveLeak(insights'[n].leak)
                    \/ ~PurgeRunsAlone
<1>1. ASSUME NEW s \in Scans, NEW leak \in scans[s].candidates, NEW m \in Insights,
             CreateInsightIdempotent(s, leak, m)
      PROVE  Stays
  <2>1. scans[s] # NULL /\ LiveLeak(leak)
    BY <1>1 DEF CreateInsightIdempotent, LeaksInHandAreLive
  <2>2. CASE purge # NULL
    BY <2>1, <2>2 DEF PurgeRunsAlone
  <2>3. CASE purge = NULL
    BY <1>1, <2>1, <2>3 DEF CreateInsightIdempotent, Insert
  <2> QED
    BY <2>2, <2>3
<1>2. ASSUME NEW r \in Requests, NEW m \in Insights, InsertInsight(r, m)
      PROVE  Stays
  <2>1. Running(r, "post") /\ LiveLeak(requests[r].leak)
    BY <1>2 DEF InsertInsight, LeaksInHandAreLive
  <2>2. CASE purge # NULL
    BY <2>1, <2>2 DEF PurgeRunsAlone
  <2>3. CASE purge = NULL
    BY <1>2, <2>1, <2>3 DEF InsertInsight, Insert
  <2> QED
    BY <2>2, <2>3
<1>3. ASSUME NEW m \in Insights, NEW to \in InsightStatuses, UpdateInsightStatus(m, to)
      PROVE  Kept
  BY <1>3 DEF UpdateInsightStatus, Insight
<1>4. CASE PurgeCommit
  BY <1>4 DEF PurgeCommit
<1>5. ASSUME NEW s \in Scans, StartScan(s) \/ InstanceStops(s) \/ ScanStep(s)
      PROVE  Stays
  <2>1. ASSUME \/ StartScan(s) \/ InstanceStops(s) \/ EndScan(s) \/ ScanFails(s)
               \/ \E type \in Types : FindLeaks(s, type)
               \/ \E m \in Insights : Responding(s, m)
        PROVE  Kept
    BY <2>1 DEF StartScan, InstanceStops, FindLeaks, ScanFails, Responding, GetSubscription,
       DraftCancellation, ResponseFails, CreateDraft, EndScan, Forget
  <2>2. ASSUME \E leak \in scans[s].candidates, m \in Insights :
                 CreateInsightIdempotent(s, leak, m)
        PROVE  Stays
    BY <1>1, <2>2
  <2> QED
    BY <1>5, <2>1, <2>2 DEF ScanStep
<1>6. ASSUME \/ \E x \in Subjects : Create(x) \/ Delete(x)
             \/ \E p \in Plans : Cancel(p)
             \/ \E doomed \in SUBSET Subjects : StartPurge(doomed)
             \/ FindIdsLinkedTo \/ DeleteByInsights \/ PurgeRollback
             \/ UNCHANGED vars
      PROVE  Kept
  BY <1>6 DEF Create, Delete, Cancel, StartPurge, FindIdsLinkedTo, DeleteByInsights,
     PurgeRollback, vars
<1>7. ASSUME NEW r \in Requests, RequestStep(r)
      PROVE  Stays
  <2>1. ASSUME \/ \E leak \in Posted : PostInsight(r, leak)
               \/ \E m \in Insights, to \in DOMAIN Transitions : UpdateDraftStatus(r, m, to)
               \/ StoreDraftStatus(r) \/ AbandonRequest(r)
        PROVE  Kept
    BY <2>1 DEF PostInsight, UpdateDraftStatus, StoreDraftStatus, AbandonRequest
  <2>2. ASSUME \E m \in Insights : InsertInsight(r, m)
        PROVE  Stays
    BY <1>2, <2>2
  <2> QED
    BY <1>7, <2>1, <2>2 DEF RequestStep
<1>8. CASE PurgeStep
  BY <1>4, <1>6, <1>8 DEF PurgeStep
<1> QED
  BY <1>3, <1>5, <1>6, <1>7, <1>8 DEF Next

\* What the insights are about survives every step of a purge.
LEMMA InsightsStep ==
  ASSUME PurgeInv, [Next]_vars
  PROVE  NoInsightAboutPurged'
<1> SUFFICES ASSUME NEW n \in Insights, insights'[n] # NULL,
                    NEW x \in Subjects, Mentions(insights'[n].leak, x)
             PROVE  subjects'[x] # "PURGED"
  BY DEF NoInsightAboutPurged
<1> USE DEF PurgeInv
<1>1. CASE PurgeCommit
  <2>1. insights'[n] = insights[n] /\ n \notin purge.found /\ purge # NULL /\ purge.step = "commit"
    BY <1>1 DEF PurgeCommit, PurgeAt
  <2>2. ~LinkedTo(n)
    BY <2>1 DEF PurgeFoundAll
  <2>3. x \notin purge.doomed
    BY <2>1, <2>2 DEF LinkedTo, Mentions
  <2>4. subjects'[x] = subjects[x]
    BY <1>1, <2>3 DEF PurgeCommit
  <2> QED
    BY <2>1, <2>4 DEF NoInsightAboutPurged
<1>2. CASE ~PurgeCommit
  <2>1. subjects[x] # "PURGED"
    BY InsightsStay DEF NoInsightAboutPurged, LiveLeak
  <2> QED
    BY <1>2, <2>1, SubjectsStay
<1> QED
  BY <1>1, <1>2

\* A purge in progress stays in the step it is in, or finds or deletes now.
LEMMA PurgeMoves ==
  ASSUME TypeOK, [Next]_vars, purge' # NULL, purge'.step \in {"drafts", "commit"}
  PROVE  purge # NULL /\ (purge' = purge \/ FindIdsLinkedTo \/ DeleteByInsights)
<1>1. ASSUME \/ \E s \in Scans : StartScan(s) \/ InstanceStops(s) \/ ScanStep(s)
             \/ \E r \in Requests : RequestStep(r)
             \/ \E x \in Subjects : Create(x) \/ Delete(x)
             \/ \E p \in Plans : Cancel(p)
             \/ \E n \in Insights, to \in InsightStatuses : UpdateInsightStatus(n, to)
             \/ UNCHANGED vars
      PROVE  purge' = purge
  BY <1>1 DEF StartScan, InstanceStops, ScanStep, FindLeaks, CreateInsightIdempotent, ScanFails,
     Responding, GetSubscription, DraftCancellation, ResponseFails, CreateDraft, EndScan, Forget,
     RequestStep, PostInsight, InsertInsight, UpdateDraftStatus, StoreDraftStatus,
     AbandonRequest, Create, Delete, Cancel, UpdateInsightStatus, vars
<1>2. CASE PurgeStep
  BY <1>2 DEF PurgeStep, StartPurge, FindIdsLinkedTo, DeleteByInsights, PurgeCommit,
     PurgeRollback, PurgeAt
<1> QED
  BY <1>1, <1>2 DEF Next

\* No insight appears behind the back of the purge.
LEMMA FoundStep ==
  ASSUME PurgeInv, [Next]_vars
  PROVE  PurgeFoundAll'
<1> SUFFICES ASSUME purge' # NULL, purge'.step \in {"drafts", "commit"},
                    NEW n \in Insights, LinkedTo(n)'
             PROVE  n \in purge'.found
  BY DEF PurgeFoundAll
<1> USE DEF PurgeInv
<1>1. purge # NULL /\ (purge' = purge \/ FindIdsLinkedTo \/ DeleteByInsights)
  BY PurgeMoves
<1>2. insights[n] # NULL /\ insights'[n].leak = insights[n].leak
  BY <1>1, InsightsStay DEF LinkedTo
<1>3. CASE purge' = purge
  <2>1. LinkedTo(n)
    BY <1>2, <1>3 DEF LinkedTo
  <2> QED
    BY <1>1, <1>3, <2>1 DEF PurgeFoundAll
<1>4. CASE FindIdsLinkedTo
  <2>1. purge \in Purge
    BY <1>1 DEF TypeOK
  <2>2. purge'.found = {m \in Insights : LinkedTo(m)} /\ purge'.doomed = purge.doomed
    BY <1>4, <2>1 DEF FindIdsLinkedTo, Purge
  <2>3. LinkedTo(n)
    BY <1>2, <2>2 DEF LinkedTo
  <2> QED
    BY <2>2, <2>3
<1>5. CASE DeleteByInsights
  <2>1. purge \in Purge /\ purge.step = "drafts"
    BY <1>1, <1>5 DEF TypeOK, DeleteByInsights, PurgeAt
  <2>2. purge'.found = purge.found /\ purge'.doomed = purge.doomed
    BY <1>5, <2>1 DEF DeleteByInsights, Purge
  <2>3. LinkedTo(n)
    BY <1>2, <2>2 DEF LinkedTo
  <2> QED
    BY <1>1, <2>1, <2>2, <2>3 DEF PurgeFoundAll
<1> QED
  BY <1>1, <1>3, <1>4, <1>5

\* A draft appears by a scan alone.
LEMMA DraftsStay ==
  ASSUME TypeOK, PurgeRunsAlone, [Next]_vars, purge # NULL,
         NEW n \in Insights, drafts'[n] # NULL
  PROVE  drafts[n] # NULL
<1>1. ASSUME NEW s \in Scans, StartScan(s) \/ InstanceStops(s) \/ ScanStep(s)
      PROVE  drafts[n] # NULL
  <2>1. CASE \E m \in Insights : CreateDraft(s, m)
    BY <2>1 DEF CreateDraft, At, Scanned, PurgeRunsAlone
  <2>2. CASE UNCHANGED drafts
    BY <2>2
  <2> QED
    BY <1>1, <2>1, <2>2 DEF StartScan, InstanceStops, ScanStep, FindLeaks,
       CreateInsightIdempotent, ScanFails, Responding, GetSubscription, DraftCancellation,
       ResponseFails, EndScan, Forget
<1>2. ASSUME NEW r \in Requests, RequestStep(r)
      PROVE  drafts[n] # NULL
  <2>1. CASE StoreDraftStatus(r)
    BY <2>1 DEF StoreDraftStatus, TypeOK
  <2>2. CASE UNCHANGED drafts
    BY <2>2
  <2> QED
    BY <1>2, <2>1, <2>2 DEF RequestStep, PostInsight, InsertInsight, UpdateDraftStatus,
       AbandonRequest
<1>3. ASSUME \/ \E x \in Subjects : Create(x) \/ Delete(x)
             \/ \E p \in Plans : Cancel(p)
             \/ \E m \in Insights, to \in InsightStatuses : UpdateInsightStatus(m, to)
             \/ PurgeStep
             \/ UNCHANGED vars
      PROVE  drafts[n] # NULL
  BY <1>3 DEF Create, Delete, Cancel, UpdateInsightStatus, PurgeStep, StartPurge,
     FindIdsLinkedTo, DeleteByInsights, PurgeCommit, PurgeRollback, vars
<1> QED
  BY <1>1, <1>2, <1>3 DEF Next

\* Nor does a draft.
LEMMA DraftsStep ==
  ASSUME PurgeInv, [Next]_vars
  PROVE  DraftsNeverBlockPurge'
<1> USE DEF PurgeInv
<1> SUFFICES ASSUME purge' # NULL, purge'.step = "commit",
                    NEW n \in purge'.found, drafts'[n] # NULL
             PROVE  n \in purge'.drafts
  BY DEF DraftsNeverBlockPurge, DraftInTheWay, PurgeAt
<1>1. purge # NULL /\ (purge' = purge \/ FindIdsLinkedTo \/ DeleteByInsights)
  BY PurgeMoves
<1>2. purge \in Purge
  BY <1>1 DEF TypeOK
<1>3. CASE purge' = purge
  <2>1. n \in Insights
    BY <1>2, <1>3 DEF Purge
  <2>2. drafts[n] # NULL
    BY <1>1, <2>1, DraftsStay
  <2> QED
    BY <1>3, <2>2 DEF DraftsNeverBlockPurge, DraftInTheWay, PurgeAt
<1>4. CASE FindIdsLinkedTo
  BY <1>2, <1>4 DEF FindIdsLinkedTo, Purge
<1>5. CASE DeleteByInsights
  BY <1>2, <1>5 DEF DeleteByInsights, Purge
<1> QED
  BY <1>1, <1>3, <1>4, <1>5

\* A purge that runs alone keeps the invariant, and so does every other step.
LEMMA PurgeStepInv ==
  ASSUME PurgeInv, PurgeRunsAlone', [Next]_vars
  PROVE  PurgeInv'
<1> USE DEF PurgeInv
<1>1. TypeOK'
  BY TypeStep
<1>2. LeaksInHandAreLive'
  BY InHandStep
<1>3. NoInsightAboutPurged' /\ PurgeFoundAll' /\ DraftsNeverBlockPurge'
  BY InsightsStep, FoundStep, DraftsStep
<1> QED
  BY <1>1, <1>2, <1>3

\* At first there is no purge and nothing to purge.
LEMMA PurgeInitInv ==
  ASSUME Init
  PROVE  PurgeInv
<1>1. TypeOK
  BY InitType
<1> QED
  BY <1>1 DEF Init, PurgeInv, PurgeRunsAlone, LeaksInHandAreLive, NoInsightAboutPurged,
     PurgeFoundAll, DraftsNeverBlockPurge, PurgeAt, Running

\* When no scan and no posted insight overlaps a purge, it leaves no insight about a
\* subscription or a charge that it removed, whether the insight is about it or lists
\* it; scans and posted insights may overlap each other (buildLinkConditions).
THEOREM NothingAboutPurged == Spec /\ []PurgeRunsAlone => []NoInsightAboutPurged
<1>1. Init => PurgeInv
  BY PurgeInitInv
<1>2. PurgeInv /\ PurgeRunsAlone' /\ [Next]_vars => PurgeInv'
  BY PurgeStepInv
<1>3. PurgeInv => NoInsightAboutPurged
  BY DEF PurgeInv
<1> QED
  BY <1>1, <1>2, <1>3, PTL DEF Spec

\* Nor does such a purge ever fail on the draft of an insight it removes, whatever
\* the user decided about the draft meanwhile (deleteLinkedInsights).
THEOREM DraftsOutOfTheWay == Spec /\ []PurgeRunsAlone => []DraftsNeverBlockPurge
<1>1. Init => PurgeInv
  BY PurgeInitInv
<1>2. PurgeInv /\ PurgeRunsAlone' /\ [Next]_vars => PurgeInv'
  BY PurgeStepInv
<1>3. PurgeInv => DraftsNeverBlockPurge
  BY DEF PurgeInv
<1> QED
  BY <1>1, <1>2, <1>3, PTL DEF Spec

-----------------------------------------------------------------------------
(* The bound of MCLeaks.cfg keeps purges apart from the rest.              *)

\* With one writer at a time, whoever begins to write is alone.
LEMMA FirstWriterIsAlone ==
  ASSUME MaxWriters = 1, Writers < MaxWriters
  PROVE  /\ purge = NULL
         /\ \A s \in Scans : scans[s] = NULL
         /\ \A r \in Requests : ~Running(r, "post")
<1> DEFINE busy == {s \in Scans : scans[s] # NULL}
           posting == {r \in Requests : Running(r, "post")}
<1>1. IsFiniteSet(busy) /\ IsFiniteSet(posting)
  BY BoundAssumption, FS_Subset
<1>2. Cardinality(busy) \in Nat /\ Cardinality(posting) \in Nat
  BY <1>1, FS_CardinalityType
<1>3. Cardinality(busy) + Cardinality(posting) + (IF purge = NULL THEN 0 ELSE 1) < 1
  BY DEF Writers
<1>4. Cardinality(busy) = 0 /\ Cardinality(posting) = 0 /\ purge = NULL
  BY <1>2, <1>3
<1>5. busy = {} /\ posting = {}
  BY <1>1, <1>4, FS_EmptySet
<1> QED
  BY <1>4, <1>5

\* The purge never shares its time.
LEMMA AloneStep ==
  ASSUME MaxWriters = 1, TypeOK, PurgeRunsAlone, [Next]_vars
  PROVE  PurgeRunsAlone'
<1> USE DEF PurgeRunsAlone, Running
<1>1. ASSUME NEW s \in Scans, StartScan(s)
      PROVE  PurgeRunsAlone'
  BY <1>1, FirstWriterIsAlone DEF StartScan
<1>2. ASSUME NEW s \in Scans, ScanStep(s) \/ InstanceStops(s)
      PROVE  PurgeRunsAlone'
  <2>1. scans[s] # NULL /\ UNCHANGED purge
    BY <1>2 DEF ScanStep, InstanceStops, FindLeaks, CreateInsightIdempotent, ScanFails,
       Responding, GetSubscription, DraftCancellation, ResponseFails, CreateDraft, At,
       Scanned, EndScan, Forget
  <2> QED
    BY <2>1
<1>3. ASSUME NEW r \in Requests, RequestStep(r)
      PROVE  PurgeRunsAlone'
  <2>1. ASSUME NEW leak \in Posted, PostInsight(r, leak)
        PROVE  PurgeRunsAlone'
    BY <2>1, FirstWriterIsAlone DEF PostInsight
  <2>2. ASSUME NEW n \in Insights, InsertInsight(r, n)
        PROVE  PurgeRunsAlone'
    BY <2>2 DEF InsertInsight, Finish
  <2>3. ASSUME NEW n \in Insights, NEW to \in DOMAIN Transitions, UpdateDraftStatus(r, n, to)
        PROVE  PurgeRunsAlone'
    <3>1. UNCHANGED <<scans, purge>> /\ \A q \in Requests \ {r} : requests'[q] = requests[q]
      BY <2>3 DEF UpdateDraftStatus, Begin
    <3>2. requests' = [requests EXCEPT ![r] = [op |-> "decide", id |-> n, to |-> to]]
      BY <2>3 DEF UpdateDraftStatus, Begin
    <3>3. ~Running(r, "post")'
      BY <3>2 DEF TypeOK
    <3> QED
      BY <3>1, <3>3
  <2>4. CASE StoreDraftStatus(r) \/ AbandonRequest(r)
    BY <2>4 DEF StoreDraftStatus, AbandonRequest, Finish, TypeOK
  <2> QED
    BY <1>3, <2>1, <2>2, <2>3, <2>4 DEF RequestStep
<1>4. ASSUME \/ \E x \in Subjects : Create(x) \/ Delete(x)
             \/ \E p \in Plans : Cancel(p)
             \/ \E n \in Insights, to \in InsightStatuses : UpdateInsightStatus(n, to)
             \/ UNCHANGED vars
      PROVE  PurgeRunsAlone'
  <2>1. UNCHANGED <<scans, requests, purge>>
    BY <1>4 DEF Create, Delete, Cancel, UpdateInsightStatus, vars
  <2> QED
    BY <2>1
<1>5. ASSUME NEW doomed \in SUBSET Subjects, StartPurge(doomed)
      PROVE  PurgeRunsAlone'
  BY <1>5, FirstWriterIsAlone DEF StartPurge
<1>6. ASSUME FindIdsLinkedTo \/ DeleteByInsights \/ PurgeCommit \/ PurgeRollback
      PROVE  PurgeRunsAlone'
  <2>1. purge # NULL /\ UNCHANGED <<scans, requests>>
    BY <1>6 DEF FindIdsLinkedTo, DeleteByInsights, PurgeCommit, PurgeRollback, PurgeAt
  <2> QED
    BY <2>1
<1> QED
  BY <1>1, <1>2, <1>3, <1>4, <1>5, <1>6 DEF Next, PurgeStep

\* With one writer at a time both hold, whatever the other constants are: this is
\* what MCLeaks.cfg checks on its instance.
COROLLARY OneWriterSuffices ==
  MaxWriters = 1 => (Spec => [](NoInsightAboutPurged /\ DraftsNeverBlockPurge))
<1> SUFFICES ASSUME MaxWriters = 1
             PROVE  Spec => [](NoInsightAboutPurged /\ DraftsNeverBlockPurge)
  OBVIOUS
<1>1. Init => PurgeRunsAlone
  BY DEF Init, PurgeRunsAlone
<1>2. TypeOK /\ PurgeRunsAlone /\ [Next]_vars => PurgeRunsAlone'
  BY AloneStep
<1> QED
  BY <1>1, <1>2, TypeCorrect, NothingAboutPurged, DraftsOutOfTheWay, PTL DEF Spec

-----------------------------------------------------------------------------
(* What the user decided about a draft.                                    *)

\* No two decisions about one draft overlap.
DecisionsApart ==
    \A q, r \in Requests :
        Running(q, "decide") /\ Running(r, "decide") /\ requests[q].id = requests[r].id
            => q = r

\* A decision that is not stored yet is about a draft that nobody decided on, or that a
\* purge has removed meanwhile.
UndecidedWhileDeciding ==
    \A r \in Requests : Running(r, "decide") =>
        drafts[requests[r].id] = "DRAFTED" \/ drafts[requests[r].id] = NULL

\* A draft the user decided on keeps that status until it is removed with its insight.
DecisionsAreFinal ==
    [][\A n \in Insights :
         drafts[n] \in {"APPROVED", "REJECTED"} /\ drafts'[n] # NULL
             => drafts'[n] = drafts[n]]_vars

\* Requests start and end one by one, and only a decision is stored.
LEMMA DecidingStep ==
  ASSUME TypeOK, DecisionsApart, UndecidedWhileDeciding, [Next]_vars
  PROVE  /\ UndecidedWhileDeciding'
         /\ \A n \in Insights :
              drafts[n] \in {"APPROVED", "REJECTED"} /\ drafts'[n] # NULL
                  => drafts'[n] = drafts[n]
<1> DEFINE Final == \A n \in Insights :
              drafts[n] \in {"APPROVED", "REJECTED"} /\ drafts'[n] # NULL
                  => drafts'[n] = drafts[n]
<1> USE RowAssumption DEF TypeOK, UndecidedWhileDeciding, Running
<1>1. ASSUME NEW s \in Scans, StartScan(s) \/ InstanceStops(s) \/ ScanStep(s)
      PROVE  UndecidedWhileDeciding' /\ Final
  <2>1. UNCHANGED requests
    BY <1>1 DEF StartScan, InstanceStops, ScanStep, FindLeaks, CreateInsightIdempotent,
       ScanFails, Responding, GetSubscription, DraftCancellation, ResponseFails, CreateDraft,
       EndScan, Forget
  <2>2. ASSUME NEW m \in Insights, CreateDraft(s, m)
        PROVE  UndecidedWhileDeciding' /\ Final
    <3>1. \/ UNCHANGED drafts
          \/ drafts[m] = NULL /\ drafts' = [drafts EXCEPT ![m] = "DRAFTED"]
      BY <2>2 DEF CreateDraft
    <3>2. \A r \in Requests : Running(r, "decide") => requests[r].id \in Insights
      BY DEF Request
    <3> QED
      BY <2>1, <3>1, <3>2 DEF DraftStatuses
  <2>3. CASE UNCHANGED drafts
    BY <2>1, <2>3
  <2> QED
    BY <1>1, <2>2, <2>3 DEF StartScan, InstanceStops, ScanStep, FindLeaks,
       CreateInsightIdempotent, ScanFails, Responding, GetSubscription, DraftCancellation,
       ResponseFails, EndScan, Forget
<1>2. ASSUME NEW r \in Requests, NEW leak \in Posted, PostInsight(r, leak)
      PROVE  UndecidedWhileDeciding' /\ Final
  BY <1>2 DEF PostInsight, Begin
<1>3. ASSUME NEW r \in Requests, NEW n \in Insights, NEW to \in DOMAIN Transitions,
             UpdateDraftStatus(r, n, to)
      PROVE  UndecidedWhileDeciding' /\ Final
  <2>1. drafts[n] = "DRAFTED"
    BY <1>3 DEF UpdateDraftStatus, Transitions, DraftStatuses
  <2> QED
    BY <1>3, <2>1 DEF UpdateDraftStatus, Begin
<1>4. ASSUME NEW r \in Requests, StoreDraftStatus(r)
      PROVE  UndecidedWhileDeciding' /\ Final
  <2>1. requests[r] \in Request /\ requests[r].op = "decide"
    BY <1>4 DEF StoreDraftStatus
  <2>2. requests[r].id \in Insights
    BY <2>1 DEF Request
  <2>3. /\ drafts' = IF drafts[requests[r].id] # NULL
                      THEN [drafts EXCEPT ![requests[r].id] = requests[r].to] ELSE drafts
        /\ requests' = [requests EXCEPT ![r] = NULL]
    BY <1>4 DEF StoreDraftStatus, Finish
  <2>4. ASSUME NEW q \in Requests, Running(q, "decide")'
        PROVE  /\ Running(q, "decide") /\ requests'[q] = requests[q]
               /\ requests[q].id # requests[r].id
    BY <2>1, <2>3, <2>4 DEF DecisionsApart
  <2> QED
    BY <2>1, <2>2, <2>3, <2>4
<1>5. ASSUME NEW r \in Requests, (\E n \in Insights : InsertInsight(r, n)) \/ AbandonRequest(r)
      PROVE  UndecidedWhileDeciding' /\ Final
  BY <1>5 DEF InsertInsight, AbandonRequest, Finish
<1>6. ASSUME \/ \E x \in Subjects : Create(x) \/ Delete(x)
             \/ \E p \in Plans : Cancel(p)
             \/ \E n \in Insights, to \in InsightStatuses : UpdateInsightStatus(n, to)
             \/ UNCHANGED vars
      PROVE  UndecidedWhileDeciding' /\ Final
  BY <1>6 DEF Create, Delete, Cancel, UpdateInsightStatus, vars
<1>7. CASE PurgeStep
  <2>1. UNCHANGED requests
    BY <1>7 DEF PurgeStep, StartPurge, FindIdsLinkedTo, DeleteByInsights, PurgeCommit,
       PurgeRollback
  <2>2. \A n \in Insights : drafts'[n] = drafts[n] \/ drafts'[n] = NULL
    BY <1>7 DEF PurgeStep, StartPurge, FindIdsLinkedTo, DeleteByInsights, PurgeCommit,
       PurgeRollback
  <2>3. \A r \in Requests : Running(r, "decide") => requests[r].id \in Insights
    BY DEF Request
  <2> QED
    BY <2>1, <2>2, <2>3
<1> QED
  BY <1>1, <1>2, <1>3, <1>4, <1>5, <1>6, <1>7 DEF Next, RequestStep

\* When no two decisions about one draft overlap, what the user decided about a draft
\* stands until the draft is removed with its insight, whatever scans, purges and other
\* requests do (DRAFT_ACTION_STATUS_TRANSITIONS, updateStatus).
THEOREM DecisionsStand == Spec /\ []DecisionsApart => DecisionsAreFinal
<1>1. Init => UndecidedWhileDeciding
  BY DEF Init, UndecidedWhileDeciding, Running
<1>2. TypeOK /\ DecisionsApart /\ UndecidedWhileDeciding /\ [Next]_vars
        => UndecidedWhileDeciding'
  BY DecidingStep
<1>3. TypeOK /\ DecisionsApart /\ UndecidedWhileDeciding /\ [Next]_vars
        => [\A n \in Insights :
              drafts[n] \in {"APPROVED", "REJECTED"} /\ drafts'[n] # NULL
                  => drafts'[n] = drafts[n]]_vars
  BY DecidingStep
<1> QED
  BY <1>1, <1>2, <1>3, TypeCorrect, PTL DEF Spec, DecisionsAreFinal
=============================================================================
