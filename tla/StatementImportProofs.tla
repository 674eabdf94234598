------------------------ MODULE StatementImportProofs ------------------------
(***************************************************************************)
(* What StatementImport promises about one import holds for every number   *)
(* of connections, imports, charges, plans and vendors, whatever the banks *)
(* posted, and for any number of pipelines and purges side by side.  What  *)
(* it promises about several tasks is proved as long as some of them, that *)
(* the code does not keep apart, do not overlap: two pipelines, or a       *)
(* pipeline and a purge.                                                   *)
(***************************************************************************)
EXTENDS StatementImport, FiniteSetTheorems, TLAPS

\* The charges an import still has.
ChargesOf(i) == {t.charge : t \in TransactionsOf(i)}

\* A pipeline works on a stored import; one that ended has a pipeline only to finish
\* or to handle a crash.
PipelinesAreOpen ==
    \A i \in Imports : pipelines[i] # NULL =>
        /\ imports[i] # NULL
        /\ imports[i].status \in Terminal => pipelines[i].step \in {"complete", "fail"}

\* An import has no charge before its insert, and only prepared ones after it.
StoredWasPrepared ==
    \A i \in Imports :
        /\ imports[i] = NULL => TransactionsOf(i) = {}
        /\ pipelines[i] # NULL =>
             /\ pipelines[i].step \in {"read", "plans", "insert"} => TransactionsOf(i) = {}
             /\ pipelines[i].step \in {"detect", "confirm", "subscribe"} =>
                  ChargesOf(i) \subseteq pipelines[i].prepared

\* An import stores a charge in one row.
OneRowPerCharge ==
    \A t, u \in transactions : t.import = u.import /\ t.charge = u.charge => t = u

\* The count of a completed import covers its charges.
CountCovers ==
    \A i \in Imports : imports[i] # NULL /\ imports[i].status = "COMPLETED" =>
        Cardinality(ChargesOf(i)) <= imports[i].count

IInv ==
    /\ TypeOK
    /\ PipelinesAreOpen
    /\ StoredWasPrepared
    /\ OneRowPerCharge
    /\ CountCovers
-----------------------------------------------------------------------------
\* A new import and one that was undone have a count.
LEMMA ZeroCounts == 0 \in 0 .. Cardinality(Charges)
BY DataAssumption, FS_CardinalityType

\* Going on to the next vendor leaves a pipeline.
LEMMA ConfirmedType ==
  ASSUME pipelines \in [Imports -> Pipeline \cup {NULL}],
         NEW i \in Imports, pipelines[i] \in Pipeline, Confirmed(i)
  PROVE  pipelines' \in [Imports -> Pipeline \cup {NULL}]
<1> DEFINE p == pipelines[i]
           q == [p EXCEPT !.step = "confirm", !.match = NULL, !.vendor = NULL,
                          !.vendors = p.vendors \ {p.vendor}]
<1>1. q \in Pipeline
  BY DEF Pipeline
<1>2. pipelines' = [pipelines EXCEPT ![i] = q]
  BY DEF Confirmed, Pipeline
<1> QED
  BY <1>1, <1>2

\* An import that completes is still a row, and so is one that was undone.
LEMMA CompletedType ==
  ASSUME TypeOK, PipelinesAreOpen, NEW i \in Imports, Complete(i)
  PROVE  /\ imports[i] \in Import /\ imports'[i] \in Import /\ imports'[i] # NULL
         /\ \A j \in Imports \ {i} : imports'[j] = imports[j]
         /\ imports' \in [Imports -> Import \cup {NULL}]
<1> USE NullAssumption, DataAssumption DEF TypeOK, At
<1>1. pipelines[i] \in Pipeline /\ imports[i] \in Import
  BY DEF Complete, PipelinesAreOpen
<1>2. Cardinality(pipelines[i].prepared) \in 0 .. Cardinality(Charges)
  BY <1>1, FS_Subset, FS_CardinalityType DEF Pipeline
<1>3. imports'[i] \in Import
  BY <1>1, <1>2 DEF Complete, Import, Terminal
<1> QED
  BY <1>1, <1>3 DEF Complete

LEMMA UndoneType ==
  ASSUME TypeOK, NEW i \in Imports, Undo(i)
  PROVE  /\ imports[i] \in Import /\ imports'[i] \in Import /\ imports'[i] # NULL
         /\ \A j \in Imports \ {i} : imports'[j] = imports[j]
         /\ imports' \in [Imports -> Import \cup {NULL}]
<1>1. imports[i] \in Import
  BY DEF Undo, TypeOK
<1>2. imports'[i] \in Import
  BY <1>1, ZeroCounts DEF Undo, TypeOK, Import
<1> QED
  BY <1>1, <1>2, NullAssumption DEF Undo, TypeOK

\* The foreign key leaves the rows of the imports of a purged connection.
LEMMA UnlinkedType ==
  ASSUME TypeOK, NEW k \in Connections, PurgeCommit(k), NEW i \in Imports, imports[i] # NULL
  PROVE  imports'[i] \in Import /\ imports'[i] # NULL
<1>1. imports[i] \in Import
  BY DEF TypeOK
<1>2. [imports[i] EXCEPT !.connection = NULL] \in Import
  BY <1>1 DEF Import
<1> QED
  BY <1>1, <1>2, NullAssumption DEF PurgeCommit, TypeOK, SoftDeleteByIds

\* No step stores what the tables and the processes cannot hold.
LEMMA TypeStep ==
  ASSUME TypeOK, PipelinesAreOpen, [Next]_vars
  PROVE  TypeOK'
<1> USE NullAssumption, DataAssumption DEF TypeOK, At, Stop
<1>1. ASSUME NEW k \in Connections, NEW i \in Imports,
             NEW rows \in SUBSET {c \in Charges : Source[c] = k}, StartBankImport(k, i, rows)
      PROVE  TypeOK'
  <2>1. [connection |-> k, status |-> "PROCESSING", count |-> 0] \in Import
    BY ZeroCounts DEF Import
  <2>2. [step |-> "read", rows |-> rows, prepared |-> {}, seen |-> [v \in Vendors |-> NULL],
         vendors |-> {}, vendor |-> NULL, match |-> NULL] \in Pipeline
    BY DEF Pipeline
  <2> QED
    BY <1>1, <2>1, <2>2 DEF StartBankImport
<1>2. ASSUME NEW i \in Imports, LoadDedupeState(i)
      PROVE  TypeOK'
  <2>1. pipelines[i] \in Pipeline
    BY <1>2 DEF LoadDedupeState, FindExistingExternalIds, GetExistingDedupeKeys
  <2>2. PICK kept \in SUBSET pipelines[i].rows :
          pipelines' = [pipelines EXCEPT ![i].step = "plans", ![i].prepared = kept]
    BY <1>2 DEF LoadDedupeState, Prepared, FindExistingExternalIds, GetExistingDedupeKeys
  <2>3. [pipelines[i] EXCEPT !.step = "plans", !.prepared = kept] \in Pipeline
    BY <2>1, <2>2 DEF Pipeline
  <2>4. pipelines' = [pipelines EXCEPT ![i] = [pipelines[i] EXCEPT !.step = "plans",
                                                                   !.prepared = kept]]
    BY <2>1, <2>2 DEF Pipeline
  <2> QED
    BY <1>2, <2>3, <2>4 DEF LoadDedupeState, FindExistingExternalIds, GetExistingDedupeKeys
<1>3. ASSUME NEW i \in Imports, GetActiveByVendor(i)
      PROVE  TypeOK'
  <2>1. pipelines[i] \in Pipeline
    BY <1>3 DEF GetActiveByVendor
  <2>2. PICK seen \in [Vendors -> Plans \cup {NULL}] :
          pipelines' = [pipelines EXCEPT ![i].step = "insert", ![i].seen = seen]
    BY <1>3 DEF GetActiveByVendor
  <2>3. [pipelines[i] EXCEPT !.step = "insert", !.seen = seen] \in Pipeline
    BY <2>1 DEF Pipeline
  <2>4. pipelines' = [pipelines EXCEPT ![i] = [pipelines[i] EXCEPT !.step = "insert",
                                                                   !.seen = seen]]
    BY <2>1, <2>2 DEF Pipeline
  <2> QED
    BY <1>3, <2>3, <2>4 DEF GetActiveByVendor
<1>4. ASSUME NEW i \in Imports, BulkCreateForImport(i)
      PROVE  TypeOK'
  BY <1>4 DEF BulkCreateForImport, Pipeline, Transaction, FindExistingExternalIds
<1>5. ASSUME NEW i \in Imports, DetectRecurrence(i)
      PROVE  TypeOK'
  <2>1. pipelines[i] \in Pipeline
    BY <1>5 DEF DetectRecurrence
  <2>2. PICK vendors \in SUBSET Vendors :
          pipelines' = [pipelines EXCEPT ![i].step = "confirm", ![i].vendors = vendors]
    <3> DEFINE candidates == {v \in {VendorOf[c] : c \in pipelines[i].prepared} :
                                pipelines[i].seen[v] = NULL}
               found == {v \in candidates :
                           Cardinality({t \in transactions : VendorOf[t.charge] = v})
                             >= MinCharges}
    <3>1. found \in SUBSET Vendors
      BY <2>1 DEF Pipeline
    <3>2. pipelines' = [pipelines EXCEPT ![i].step = "confirm", ![i].vendors = found]
      BY <1>5 DEF DetectRecurrence
    <3> QED
      BY <3>1, <3>2
  <2>3. [pipelines[i] EXCEPT !.step = "confirm", !.vendors = vendors] \in Pipeline
    BY <2>1 DEF Pipeline
  <2>4. pipelines' = [pipelines EXCEPT ![i] = [pipelines[i] EXCEPT !.step = "confirm",
                                                                   !.vendors = vendors]]
    BY <2>1, <2>2 DEF Pipeline
  <2> QED
    BY <1>5, <2>3, <2>4 DEF DetectRecurrence
<1>6. ASSUME NEW i \in Imports, NEW v \in Vendors, FindActiveMatch(i, v)
      PROVE  TypeOK'
  <2>1. pipelines[i] \in Pipeline
    BY <1>6 DEF FindActiveMatch
  <2>2. PICK match \in Plans \cup {NULL} :
          pipelines' = [pipelines EXCEPT ![i].step = "subscribe", ![i].vendor = v,
                                         ![i].match = match]
    BY <1>6 DEF FindActiveMatch, ActivePlans
  <2>3. [pipelines[i] EXCEPT !.step = "subscribe", !.vendor = v, !.match = match] \in Pipeline
    BY <2>1 DEF Pipeline
  <2>4. pipelines' = [pipelines EXCEPT ![i] =
                        [pipelines[i] EXCEPT !.step = "subscribe", !.vendor = v,
                                             !.match = match]]
    BY <2>1, <2>2 DEF Pipeline
  <2> QED
    BY <1>6, <2>3, <2>4 DEF FindActiveMatch
<1>7. ASSUME NEW i \in Imports, NEW plan \in Plans, CreateSubscriptionFromRecurrence(i, plan)
      PROVE  TypeOK'
  <2>1. pipelines[i] \in Pipeline
    BY <1>7 DEF CreateSubscriptionFromRecurrence
  <2>2. pipelines' \in [Imports -> Pipeline \cup {NULL}]
    BY <1>7, <2>1, ConfirmedType DEF CreateSubscriptionFromRecurrence
  <2>3. pipelines[i].vendor \in Vendors \cup {NULL}
    BY <2>1 DEF Pipeline
  <2>4. \A t \in Transaction : [t EXCEPT !.plan = plan] \in Transaction
    BY DEF Transaction
  <2> QED
    BY <1>7, <2>2, <2>3, <2>4 DEF CreateSubscriptionFromRecurrence
<1>8. ASSUME NEW i \in Imports, SubscriptionFails(i)
      PROVE  TypeOK'
  <2>1. pipelines[i] \in Pipeline
    BY <1>8 DEF SubscriptionFails
  <2>2. pipelines' \in [Imports -> Pipeline \cup {NULL}]
    BY <1>8, <2>1, ConfirmedType DEF SubscriptionFails
  <2> QED
    BY <1>8, <2>2 DEF SubscriptionFails
<1>9. ASSUME NEW i \in Imports, Complete(i)
      PROVE  TypeOK'
  <2>1. pipelines[i] \in Pipeline
    BY <1>9 DEF Complete
  <2> QED
    BY <1>9, <2>1, CompletedType DEF Complete, Pipeline
<1>10. ASSUME NEW i \in Imports, Finish(i) \/ InstanceStops(i)
      PROVE  TypeOK'
  BY <1>10 DEF Finish, InstanceStops
<1>11. ASSUME NEW i \in Imports, PipelineThrows(i)
      PROVE  TypeOK'
  BY <1>11 DEF PipelineThrows, Pipeline
<1>12. ASSUME NEW i \in Imports, FailImport(i)
      PROVE  TypeOK'
  BY <1>12 DEF FailImport, PipelinesAreOpen, Import, Terminal
<1>13. ASSUME NEW i \in Imports, Undo(i)
      PROVE  TypeOK'
  BY <1>13, UndoneType DEF Undo, Transaction
<1>14. ASSUME NEW t \in transactions, DeleteTransaction(t)
      PROVE  TypeOK'
  BY <1>14 DEF DeleteTransaction
<1>15. ASSUME NEW k \in Connections, Connect(k) \/ PurgeRollback(k)
      PROVE  TypeOK'
  BY <1>15 DEF Connect, PurgeRollback
<1>16. ASSUME NEW k \in Connections, Disconnect(k)
      PROVE  TypeOK'
  BY <1>16 DEF Disconnect, Purge, FindIdsByBankConnection
<1>17. ASSUME NEW k \in Connections, PurgeCharges(k)
      PROVE  TypeOK'
  <2> DEFINE billed == {t \in transactions : t.import \in purges[k].imports}
             deleted == {<<t.charge, t.import>> : t \in billed}
             plans == {t.plan : t \in billed} \ {NULL}
  <2>1. purges[k] \in Purge
    BY <1>17 DEF PurgeCharges, FindByImports, CollectSubscriptionIds
  <2>2. deleted \in SUBSET (Charges \X Imports) /\ plans \in SUBSET Plans
    BY DEF Transaction
  <2>3. [purges[k] EXCEPT !.step = "charged", !.deleted = deleted, !.plans = plans] \in Purge
    BY <2>1, <2>2 DEF Purge
  <2>4. purges' = [purges EXCEPT ![k].step = "charged", ![k].deleted = deleted,
                                 ![k].plans = plans]
    BY <1>17 DEF PurgeCharges, FindByImports, CollectSubscriptionIds
  <2>5. purges' = [purges EXCEPT ![k] = [purges[k] EXCEPT !.step = "charged",
                                           !.deleted = deleted, !.plans = plans]]
    BY <2>1, <2>4 DEF Purge
  <2>6. UNCHANGED <<connected, imports, transactions, subscriptions, pipelines, cutOff>>
    BY <1>17 DEF PurgeCharges, FindByImports, CollectSubscriptionIds
  <2> HIDE DEF deleted, plans
  <2> QED
    BY <2>3, <2>5, <2>6
<1>18. ASSUME NEW k \in Connections, FindOrphanedPlans(k)
      PROVE  TypeOK'
  <2>1. purges[k] \in Purge
    BY <1>18 DEF FindOrphanedPlans, SoftDeleteByIds, FindChargedSubscriptionIds
  <2>2. PICK plans \in SUBSET Plans :
          purges' = [purges EXCEPT ![k].step = "commit", ![k].plans = plans]
    BY <1>18, <2>1 DEF FindOrphanedPlans, Purge, Transaction, SoftDeleteByIds,
       FindChargedSubscriptionIds
  <2>3. [purges[k] EXCEPT !.step = "commit", !.plans = plans] \in Purge
    BY <2>1 DEF Purge
  <2>4. purges' = [purges EXCEPT ![k] = [purges[k] EXCEPT !.step = "commit", !.plans = plans]]
    BY <2>1, <2>2 DEF Purge
  <2>5. UNCHANGED <<connected, imports, transactions, subscriptions, pipelines, cutOff>>
    BY <1>18 DEF FindOrphanedPlans, SoftDeleteByIds, FindChargedSubscriptionIds
  <2>6. purges' \in [Connections -> Purge \cup {NULL}]
    BY <2>3, <2>4
  <2> QED
    BY <2>5, <2>6
<1>19. ASSUME NEW k \in Connections, PurgeCommit(k)
      PROVE  TypeOK'
  BY <1>19, UnlinkedType DEF PurgeCommit, SoftDeleteByIds
<1>20. CASE UNCHANGED vars
  BY <1>20 DEF vars
<1> QED
  BY <1>1, <1>2, <1>3, <1>4, <1>5, <1>6, <1>7, <1>8, <1>9, <1>10, <1>11, <1>12, <1>13,
     <1>14, <1>15, <1>16, <1>17, <1>18, <1>19, <1>20 DEF Next, PipelineStep, PurgeStep

-----------------------------------------------------------------------------
\* Pipelines keep to imports that are open.
LEMMA OpenStep ==
  ASSUME TypeOK, PipelinesAreOpen, [Next]_vars
  PROVE  PipelinesAreOpen'
<1> USE NullAssumption DEF TypeOK, PipelinesAreOpen, At, Stop, Terminal
<1>1. ASSUME NEW k \in Connections, NEW i \in Imports, NEW rows \in SUBSET Charges,
             StartBankImport(k, i, rows)
      PROVE  PipelinesAreOpen'
  BY <1>1, ZeroCounts DEF StartBankImport, Import
<1>2. ASSUME NEW i \in Imports,
             \/ LoadDedupeState(i) \/ GetActiveByVendor(i) \/ BulkCreateForImport(i)
             \/ DetectRecurrence(i) \/ PipelineThrows(i)
             \/ \E v \in Vendors : FindActiveMatch(i, v)
      PROVE  PipelinesAreOpen'
  <2>1. /\ pipelines[i] # NULL /\ imports' = imports
        /\ \A j \in Imports \ {i} : pipelines'[j] = pipelines[j]
        /\ pipelines[i].step = "complete" => pipelines'[i].step = "fail"
        /\ pipelines[i].step # "fail"
        /\ pipelines'[i].step = "fail" \/ pipelines[i].step \notin {"complete", "fail"}
    <3>1. CASE \/ LoadDedupeState(i) \/ GetActiveByVendor(i)
               \/ \E v \in Vendors : FindActiveMatch(i, v)
      BY <3>1 DEF LoadDedupeState, GetActiveByVendor, FindActiveMatch, Pipeline,
         FindExistingExternalIds, GetExistingDedupeKeys
    <3>2. CASE BulkCreateForImport(i)
      BY <3>2 DEF BulkCreateForImport, Pipeline, FindExistingExternalIds
    <3>3. CASE DetectRecurrence(i) \/ PipelineThrows(i)
      BY <3>3 DEF DetectRecurrence, PipelineThrows, Pipeline
    <3> QED
      BY <1>2, <3>1, <3>2, <3>3
  <2> QED
    BY <2>1
<1>3. ASSUME NEW i \in Imports,
             SubscriptionFails(i) \/ \E plan \in Plans : CreateSubscriptionFromRecurrence(i, plan)
      PROVE  PipelinesAreOpen'
  <2>1. /\ pipelines[i] # NULL /\ pipelines[i].step = "subscribe" /\ imports' = imports
        /\ \A j \in Imports \ {i} : pipelines'[j] = pipelines[j]
    BY <1>3 DEF SubscriptionFails, CreateSubscriptionFromRecurrence, Confirmed
  <2> QED
    BY <2>1
<1>4. ASSUME NEW i \in Imports, Complete(i)
      PROVE  PipelinesAreOpen'
  <2>1. /\ pipelines'[i].step = "complete"
        /\ \A j \in Imports \ {i} : pipelines'[j] = pipelines[j]
    BY <1>4 DEF Complete, Pipeline
  <2> QED
    BY <1>4, <2>1, CompletedType
<1>5. ASSUME NEW i \in Imports, Finish(i) \/ InstanceStops(i)
      PROVE  PipelinesAreOpen'
  BY <1>5 DEF Finish, InstanceStops
<1>6. ASSUME NEW i \in Imports, FailImport(i)
      PROVE  PipelinesAreOpen'
  BY <1>6 DEF FailImport, Import
<1>7. ASSUME NEW i \in Imports, Undo(i)
      PROVE  PipelinesAreOpen'
  BY <1>7, UndoneType DEF Undo, Import
<1>8. ASSUME NEW k \in Connections, PurgeCommit(k)
      PROVE  PipelinesAreOpen'
  BY <1>8, UnlinkedType DEF PurgeCommit, Import, SoftDeleteByIds
<1>9. ASSUME \/ \E t \in transactions : DeleteTransaction(t)
             \/ \E k \in Connections : \/ Connect(k) \/ Disconnect(k) \/ PurgeCharges(k)
                                       \/ FindOrphanedPlans(k) \/ PurgeRollback(k)
             \/ UNCHANGED vars
      PROVE  PipelinesAreOpen'
  <2>1. UNCHANGED <<imports, pipelines>>
    BY <1>9 DEF DeleteTransaction, Connect, Disconnect, PurgeCharges, FindOrphanedPlans,
       PurgeRollback, vars, FindIdsByBankConnection, FindByImports, CollectSubscriptionIds,
          SoftDeleteByIds, FindChargedSubscriptionIds
  <2> QED
    BY <2>1
<1> QED
  BY <1>1, <1>2, <1>3, <1>4, <1>5, <1>6, <1>7, <1>8, <1>9 DEF Next, PipelineStep, PurgeStep

-----------------------------------------------------------------------------
\* Whatever is not an insert only takes charges away or links them to a plan.
Relinks ==
    \A t \in transactions' : \E u \in transactions : u.import = t.import /\ u.charge = t.charge

\* And it never makes two rows of one.
LEMMA OnlyInsertAdds ==
  ASSUME TypeOK, OneRowPerCharge, [Next]_vars
  PROVE  \/ Relinks /\ OneRowPerCharge'
         \/ \E i \in Imports : BulkCreateForImport(i)
<1> USE DEF TypeOK, OneRowPerCharge, Relinks
<1>1. ASSUME NEW i \in Imports, NEW plan \in Plans, CreateSubscriptionFromRecurrence(i, plan)
      PROVE  Relinks /\ OneRowPerCharge'
  <2> DEFINE link(t) == IF t.plan = NULL /\ VendorOf[t.charge] = pipelines[i].vendor
                          THEN [t EXCEPT !.plan = plan] ELSE t
  <2>1. transactions' = {link(t) : t \in transactions}
    BY <1>1 DEF CreateSubscriptionFromRecurrence
  <2>2. \A t \in transactions : link(t).import = t.import /\ link(t).charge = t.charge
    BY DEF Transaction
  <2> HIDE DEF link
  <2> QED
    BY <2>1, <2>2
<1>2. ASSUME transactions' \subseteq transactions
      PROVE  Relinks /\ OneRowPerCharge'
  BY <1>2
<1>3. ASSUME NEW i \in Imports,
             \/ LoadDedupeState(i) \/ GetActiveByVendor(i) \/ DetectRecurrence(i)
             \/ SubscriptionFails(i) \/ Complete(i) \/ Finish(i) \/ PipelineThrows(i)
             \/ FailImport(i) \/ InstanceStops(i) \/ Undo(i)
             \/ \E v \in Vendors : FindActiveMatch(i, v)
      PROVE  transactions' \subseteq transactions
  BY <1>3 DEF LoadDedupeState, GetActiveByVendor, DetectRecurrence, SubscriptionFails,
     Complete, Finish, PipelineThrows, FailImport, InstanceStops, Undo, FindActiveMatch,
        FindExistingExternalIds, GetExistingDedupeKeys
<1>4. ASSUME \/ \E t \in transactions : DeleteTransaction(t)
             \/ \E k \in Connections : Connect(k) \/ Disconnect(k) \/ PurgeStep(k)
             \/ \E k \in Connections, i \in Imports, rows \in SUBSET Charges :
                  StartBankImport(k, i, rows)
             \/ UNCHANGED vars
      PROVE  transactions' \subseteq transactions
  BY <1>4 DEF DeleteTransaction, Connect, Disconnect, PurgeStep, PurgeCharges,
     FindOrphanedPlans, PurgeCommit, PurgeRollback, StartBankImport, vars,
        FindIdsByBankConnection, FindByImports, CollectSubscriptionIds, SoftDeleteByIds,
        FindChargedSubscriptionIds
<1> QED
  BY <1>1, <1>2, <1>3, <1>4 DEF Next, PipelineStep

\* The charges of an import are those of its rows.
LEMMA ChargesOfRows ==
  ASSUME NEW i \in Imports, NEW c
  PROVE  c \in ChargesOf(i) <=> \E t \in transactions : t.import = i /\ t.charge = c
BY DEF ChargesOf, TransactionsOf

\* A relinked import has no charge it had not before.
LEMMA RelinkedCharges ==
  ASSUME Relinks, NEW i \in Imports
  PROVE  /\ ChargesOf(i)' \subseteq ChargesOf(i)
         /\ TransactionsOf(i) = {} => TransactionsOf(i)' = {}
BY DEF Relinks, ChargesOf, TransactionsOf

\* An insert stores what was prepared, for the import of its pipeline alone.
LEMMA InsertedCharges ==
  ASSUME TypeOK, OneRowPerCharge, StoredWasPrepared, NEW i \in Imports,
         BulkCreateForImport(i)
  PROVE  /\ OneRowPerCharge'
         /\ ChargesOf(i)' \subseteq pipelines[i].prepared
         /\ pipelines'[i].step = "fail" => TransactionsOf(i)' = {}
         /\ \A j \in Imports \ {i} : TransactionsOf(j)' = TransactionsOf(j)
<1> USE DEF TypeOK, At
<1> DEFINE new == {[charge |-> c, import |-> i, plan |-> pipelines[i].seen[VendorOf[c]]]
                     : c \in pipelines[i].prepared}
<1>1. pipelines[i] \in Pipeline /\ TransactionsOf(i) = {}
  BY DEF BulkCreateForImport, StoredWasPrepared, FindExistingExternalIds
<1>2. CASE UNCHANGED transactions
  BY <1>1, <1>2 DEF OneRowPerCharge, ChargesOf, TransactionsOf
<1>3. CASE transactions' = transactions \cup new /\ pipelines'[i].step = "detect"
  <2>1. \A t \in new : t.import = i /\ t.charge \in pipelines[i].prepared
    OBVIOUS
  <2>2. \A t, u \in new : t.charge = u.charge => t = u
    OBVIOUS
  <2>3. \A t \in transactions : t.import # i
    BY <1>1 DEF TransactionsOf
  <2> HIDE DEF new
  <2>4. OneRowPerCharge'
    BY <1>3, <2>1, <2>2, <2>3 DEF OneRowPerCharge
  <2> QED
    BY <1>3, <2>1, <2>3, <2>4 DEF ChargesOf, TransactionsOf
<1> QED
  BY <1>1, <1>2, <1>3 DEF BulkCreateForImport, Pipeline, FindExistingExternalIds

-----------------------------------------------------------------------------
\* A pipeline has not inserted yet, or has and keeps what it prepared.
Before(i) == pipelines[i] # NULL /\ pipelines[i].step \in {"read", "plans", "insert"}
After(i) == pipelines[i] # NULL /\ pipelines[i].step \in {"detect", "confirm", "subscribe"}

\* Only an insert takes a pipeline from before to after.
LEMMA PipelineMoves ==
  ASSUME TypeOK, PipelinesAreOpen, [Next]_vars, NEW j \in Imports,
         \A i \in Imports : ~BulkCreateForImport(i)
  PROVE  /\ imports'[j] = NULL => imports[j] = NULL
         /\ Before(j)' => Before(j) \/ imports[j] = NULL
         /\ After(j)' => After(j) /\ pipelines'[j].prepared = pipelines[j].prepared
<1> DEFINE Moves == /\ imports'[j] = NULL => imports[j] = NULL
                    /\ Before(j)' => Before(j) \/ imports[j] = NULL
                    /\ After(j)' => /\ After(j)
                                    /\ pipelines'[j].prepared = pipelines[j].prepared
<1> USE NullAssumption DEF TypeOK, At, Stop, Before, After
<1>1. ASSUME NEW k \in Connections, NEW i \in Imports, NEW rows \in SUBSET Charges,
             StartBankImport(k, i, rows)
      PROVE  Moves
  BY <1>1, ZeroCounts DEF StartBankImport, Import
<1>2. ASSUME NEW i \in Imports,
             \/ LoadDedupeState(i) \/ GetActiveByVendor(i) \/ DetectRecurrence(i)
             \/ PipelineThrows(i) \/ \E v \in Vendors : FindActiveMatch(i, v)
      PROVE  Moves
  <2>1. UNCHANGED imports /\ pipelines[i] \in Pipeline
    BY <1>2 DEF LoadDedupeState, GetActiveByVendor, DetectRecurrence, PipelineThrows,
       FindActiveMatch, FindExistingExternalIds, GetExistingDedupeKeys
  <2>2. \A l \in Imports \ {i} : pipelines'[l] = pipelines[l]
    BY <1>2 DEF LoadDedupeState, GetActiveByVendor, DetectRecurrence, PipelineThrows,
       FindActiveMatch, FindExistingExternalIds, GetExistingDedupeKeys
  <2>3. \/ pipelines[i].step \in {"read", "plans"} /\ pipelines'[i].step \in {"plans", "insert"}
        \/ /\ pipelines[i].step \in {"detect", "confirm"}
           /\ pipelines'[i].step \in {"confirm", "subscribe"}
           /\ pipelines'[i].prepared = pipelines[i].prepared
        \/ pipelines'[i].step = "fail"
    <3>1. CASE LoadDedupeState(i)
      <4>1. PICK kept : pipelines' = [pipelines EXCEPT ![i].step = "plans", ![i].prepared = kept]
        BY <3>1 DEF LoadDedupeState, FindExistingExternalIds, GetExistingDedupeKeys
      <4> QED
        BY <2>1, <3>1, <4>1 DEF LoadDedupeState, Pipeline, FindExistingExternalIds,
           GetExistingDedupeKeys
    <3>2. CASE GetActiveByVendor(i)
      <4>1. PICK seen : pipelines' = [pipelines EXCEPT ![i].step = "insert", ![i].seen = seen]
        BY <3>2 DEF GetActiveByVendor
      <4> QED
        BY <2>1, <3>2, <4>1 DEF GetActiveByVendor, Pipeline
    <3>3. CASE DetectRecurrence(i)
      BY <2>1, <3>3 DEF DetectRecurrence, Pipeline
    <3>4. ASSUME NEW v \in Vendors, FindActiveMatch(i, v)
          PROVE  /\ pipelines[i].step \in {"detect", "confirm"}
                 /\ pipelines'[i].step \in {"confirm", "subscribe"}
                 /\ pipelines'[i].prepared = pipelines[i].prepared
      BY <2>1, <3>4 DEF FindActiveMatch, Pipeline
    <3>5. CASE PipelineThrows(i)
      BY <2>1, <3>5 DEF PipelineThrows, Pipeline
    <3> QED
      BY <1>2, <3>1, <3>2, <3>3, <3>4, <3>5
  <2> QED
    BY <2>1, <2>2, <2>3
<1>3. ASSUME NEW i \in Imports,
             SubscriptionFails(i) \/ \E plan \in Plans : CreateSubscriptionFromRecurrence(i, plan)
      PROVE  Moves
  <2>1. At(i, "subscribe") /\ Confirmed(i) /\ UNCHANGED imports
    BY <1>3 DEF SubscriptionFails, CreateSubscriptionFromRecurrence
  <2> QED
    BY <2>1 DEF Confirmed, Pipeline
<1>4. ASSUME NEW i \in Imports, Complete(i)
      PROVE  Moves
  <2>1. /\ pipelines'[i].step = "complete"
        /\ \A l \in Imports \ {i} : pipelines'[l] = pipelines[l]
    BY <1>4 DEF Complete, Pipeline
  <2> QED
    BY <1>4, <2>1, CompletedType
<1>5. ASSUME NEW i \in Imports, Finish(i) \/ InstanceStops(i) \/ FailImport(i)
      PROVE  Moves
  BY <1>5 DEF Finish, InstanceStops, FailImport, PipelinesAreOpen, Import, Terminal
<1>6. ASSUME NEW i \in Imports, Undo(i)
      PROVE  Moves
  BY <1>6, UndoneType DEF Undo
<1>7. ASSUME NEW k \in Connections, PurgeCommit(k)
      PROVE  Moves
  BY <1>7, UnlinkedType DEF PurgeCommit, SoftDeleteByIds
<1>8. ASSUME \/ \E t \in transactions : DeleteTransaction(t)
             \/ \E k \in Connections : \/ Connect(k) \/ Disconnect(k) \/ PurgeCharges(k)
                                       \/ FindOrphanedPlans(k) \/ PurgeRollback(k)
             \/ UNCHANGED vars
      PROVE  Moves
  BY <1>8 DEF DeleteTransaction, Connect, Disconnect, PurgeCharges, FindOrphanedPlans,
     PurgeRollback, vars, FindIdsByBankConnection, FindByImports, CollectSubscriptionIds,
        SoftDeleteByIds, FindChargedSubscriptionIds
<1> QED
  BY <1>1, <1>2, <1>3, <1>4, <1>5, <1>6, <1>7, <1>8 DEF Next, PipelineStep, PurgeStep

\* Charges are stored only by the insert of what was prepared.
LEMMA StoredStep ==
  ASSUME TypeOK, PipelinesAreOpen, OneRowPerCharge, StoredWasPrepared, [Next]_vars
  PROVE  StoredWasPrepared'
<1>1. CASE \A i \in Imports : ~BulkCreateForImport(i)
  <2>1. Relinks
    BY <1>1, OnlyInsertAdds
  <2> QED
    BY <1>1, <2>1, RelinkedCharges, PipelineMoves DEF StoredWasPrepared, Before, After
<1>2. ASSUME NEW i \in Imports, BulkCreateForImport(i)
      PROVE  StoredWasPrepared'
  <2>1. /\ imports' = imports /\ imports[i] # NULL
        /\ \A j \in Imports \ {i} : pipelines'[j] = pipelines[j]
        /\ pipelines'[i].step \in {"detect", "fail"}
        /\ pipelines'[i].prepared = pipelines[i].prepared
    BY <1>2 DEF BulkCreateForImport, PipelinesAreOpen, TypeOK, At, Pipeline, FindExistingExternalIds
  <2>2. \A j \in Imports \ {i} : ChargesOf(j)' = ChargesOf(j)
    BY <1>2, InsertedCharges DEF ChargesOf
  <2> QED
    BY <1>2, <2>1, <2>2, InsertedCharges DEF StoredWasPrepared
<1> QED
  BY <1>1, <1>2

-----------------------------------------------------------------------------
\* An import has finitely many charges.
LEMMA FinitelyMany ==
  ASSUME TypeOK, NEW i \in Imports, NEW S \in SUBSET ChargesOf(i)
  PROVE  /\ IsFiniteSet(ChargesOf(i)) /\ IsFiniteSet(S)
         /\ Cardinality(ChargesOf(i)) \in Nat /\ Cardinality(S) \in Nat
         /\ Cardinality(S) <= Cardinality(ChargesOf(i))
<1>1. ChargesOf(i) \in SUBSET Charges
  BY DEF ChargesOf, TransactionsOf, TypeOK, Transaction
<1> QED
  BY <1>1, DataAssumption, FS_Subset, FS_CardinalityType

\* Who writes the rows of imports.
LEMMA ImportsChange ==
  ASSUME [Next]_vars
  PROVE  \/ UNCHANGED imports
         \/ \E i \in Imports : Complete(i) \/ Undo(i) \/ FailImport(i)
         \/ \E k \in Connections, i \in Imports :
              \E rows \in SUBSET {c \in Charges : Source[c] = k} : StartBankImport(k, i, rows)
         \/ \E k \in Connections : PurgeCommit(k)
<1>1. ASSUME NEW i \in Imports, PipelineStep(i) \/ InstanceStops(i)
      PROVE  UNCHANGED imports \/ Complete(i) \/ FailImport(i)
  BY <1>1 DEF PipelineStep, LoadDedupeState, GetActiveByVendor, BulkCreateForImport,
     DetectRecurrence, FindActiveMatch, CreateSubscriptionFromRecurrence,
     SubscriptionFails, Finish, PipelineThrows, InstanceStops, FindExistingExternalIds,
        GetExistingDedupeKeys
<1>2. ASSUME \/ \E t \in transactions : DeleteTransaction(t)
             \/ \E k \in Connections : \/ Connect(k) \/ Disconnect(k) \/ PurgeCharges(k)
                                       \/ FindOrphanedPlans(k) \/ PurgeRollback(k)
             \/ UNCHANGED vars
      PROVE  UNCHANGED imports
  BY <1>2 DEF DeleteTransaction, Connect, Disconnect, PurgeCharges, FindOrphanedPlans,
     PurgeRollback, vars, FindIdsByBankConnection, FindByImports, CollectSubscriptionIds,
        SoftDeleteByIds, FindChargedSubscriptionIds
<1> QED
  BY <1>1, <1>2 DEF Next, PurgeStep

\* An import is completed with the count of what it prepared; then its charges can
\* only become fewer, and an undo leaves none.
LEMMA CountStep ==
  ASSUME IInv, [Next]_vars
  PROVE  CountCovers'
<1> USE NullAssumption DEF IInv, TypeOK
<1> SUFFICES ASSUME NEW j \in Imports, imports'[j] # NULL, imports'[j].status = "COMPLETED"
             PROVE  Cardinality(ChargesOf(j)') <= imports'[j].count
  BY DEF CountCovers
<1>1. ASSUME imports'[j] = imports[j] \/ imports'[j] = [imports[j] EXCEPT !.connection = NULL],
             imports[j] # NULL, ChargesOf(j)' \subseteq ChargesOf(j)
      PROVE  Cardinality(ChargesOf(j)') <= imports'[j].count
  <2>1. imports[j].status = "COMPLETED" /\ imports'[j].count = imports[j].count
    BY <1>1 DEF Import
  <2>2. imports[j].count \in Nat
    BY <1>1 DEF Import
  <2> QED
    BY <1>1, <2>1, <2>2, FinitelyMany DEF CountCovers
<1>2. ASSUME NEW i \in Imports, BulkCreateForImport(i)
      PROVE  Cardinality(ChargesOf(j)') <= imports'[j].count
  <2>1. UNCHANGED imports /\ pipelines[i] # NULL /\ pipelines[i].step = "insert"
    BY <1>2 DEF BulkCreateForImport, At, FindExistingExternalIds
  <2>2. j # i
    BY <2>1 DEF PipelinesAreOpen, Terminal
  <2>3. ChargesOf(j)' = ChargesOf(j)
    BY <1>2, <2>2, InsertedCharges DEF ChargesOf
  <2> QED
    BY <1>1, <2>1, <2>3
<1>3. CASE \A i \in Imports : ~BulkCreateForImport(i)
  <2>1. Relinks /\ ChargesOf(j)' \subseteq ChargesOf(j)
    BY <1>3, OnlyInsertAdds, RelinkedCharges
  <2>2. ASSUME NEW i \in Imports, Complete(i)
        PROVE  Cardinality(ChargesOf(j)') <= imports'[j].count
    <3>1. CASE i = j
      <4>1. /\ imports[j] \in Import /\ pipelines[j] \in Pipeline
            /\ imports'[j].count = Cardinality(pipelines[j].prepared)
        BY <2>2, <3>1 DEF Complete, At, PipelinesAreOpen, Import
      <4>2. ChargesOf(j)' \in SUBSET pipelines[j].prepared
        BY <2>1, <2>2, <3>1 DEF Complete, At, StoredWasPrepared
      <4> QED
        BY <4>1, <4>2, DataAssumption, FS_Subset DEF Pipeline
    <3>2. CASE i # j
      BY <1>1, <2>1, <2>2, <3>2 DEF Complete
    <3> QED
      BY <3>1, <3>2
  <2>3. ASSUME NEW i \in Imports, Undo(i)
        PROVE  Cardinality(ChargesOf(j)') <= imports'[j].count
    <3>1. CASE i = j
      <4>1. imports'[j].count = 0 /\ ChargesOf(j)' = {}
        BY <2>3, <3>1 DEF Undo, Import, ChargesOf, TransactionsOf
      <4> QED
        BY <4>1, FS_EmptySet
    <3>2. CASE i # j
      BY <1>1, <2>1, <2>3, <3>2 DEF Undo
    <3> QED
      BY <3>1, <3>2
  <2>4. ASSUME NEW i \in Imports, FailImport(i)
        PROVE  Cardinality(ChargesOf(j)') <= imports'[j].count
    BY <1>1, <2>1, <2>4 DEF FailImport, Import, PipelinesAreOpen, At
  <2>5. ASSUME NEW k \in Connections, NEW i \in Imports, NEW rows \in SUBSET Charges,
               StartBankImport(k, i, rows)
        PROVE  Cardinality(ChargesOf(j)') <= imports'[j].count
    BY <1>1, <2>1, <2>5 DEF StartBankImport
  <2>6. ASSUME NEW k \in Connections, PurgeCommit(k)
        PROVE  Cardinality(ChargesOf(j)') <= imports'[j].count
    BY <1>1, <2>1, <2>6 DEF PurgeCommit, SoftDeleteByIds
  <2>7. ASSUME UNCHANGED imports
        PROVE  Cardinality(ChargesOf(j)') <= imports'[j].count
    BY <1>1, <2>1, <2>7
  <2> QED
    BY <2>2, <2>3, <2>4, <2>5, <2>6, <2>7, ImportsChange
<1> QED
  BY <1>2, <1>3

-----------------------------------------------------------------------------
\* Nothing is stored at first.
LEMMA InitIInv ==
  Init => IInv
BY DEF Init, IInv, TypeOK, PipelinesAreOpen, StoredWasPrepared, TransactionsOf,
   OneRowPerCharge, CountCovers

\* Every step keeps what was promised.
LEMMA NextIInv ==
  IInv /\ [Next]_vars => IInv'
<1> SUFFICES ASSUME IInv, [Next]_vars
             PROVE  IInv'
  OBVIOUS
<1>1. TypeOK' /\ PipelinesAreOpen' /\ StoredWasPrepared' /\ CountCovers'
  BY TypeStep, OpenStep, StoredStep, CountStep DEF IInv
<1>2. OneRowPerCharge'
  BY OnlyInsertAdds, InsertedCharges DEF IInv
<1> QED
  BY <1>1, <1>2 DEF IInv

\* However pipelines, undos and purges interleave, every reachable state satisfies
\* the inductive invariant.
THEOREM Invariance == Spec => []IInv
<1> QED
  BY InitIInv, NextIInv, PTL DEF Spec

\* Every variable keeps its type.
THEOREM TypeCorrect == Spec => []TypeOK
<1>1. IInv => TypeOK
  BY DEF IInv
<1> QED
  BY <1>1, Invariance, PTL

\* A completed import never shows fewer charges than it has, and an undone one stays
\* empty, whatever other pipelines link or purge of them.
THEOREM CountsAreKept == Spec => []CompletedCountsCharges
<1>1. ASSUME IInv, NEW i \in Imports, imports[i] # NULL, imports[i].status = "COMPLETED"
      PROVE  Cardinality(TransactionsOf(i)) <= imports[i].count
  <2> DEFINE chargeOf == [t \in TransactionsOf(i) |-> t.charge]
  <2>1. chargeOf \in Injection(TransactionsOf(i), ChargesOf(i))
    BY <1>1 DEF IInv, OneRowPerCharge, ChargesOf, TransactionsOf, Injection, IsInjective
  <2>2. IsFiniteSet(ChargesOf(i)) /\ Cardinality(ChargesOf(i)) \in Nat
    BY <1>1, FinitelyMany DEF IInv
  <2>3. /\ IsFiniteSet(TransactionsOf(i))
        /\ Cardinality(TransactionsOf(i)) <= Cardinality(ChargesOf(i))
    BY <2>1, <2>2, FS_Injection
  <2>4. Cardinality(ChargesOf(i)) <= imports[i].count /\ imports[i].count \in Nat
    BY <1>1 DEF IInv, CountCovers, TypeOK, Import
  <2> QED
    BY <2>2, <2>3, <2>4, FS_CardinalityType
<1>2. IInv => CompletedCountsCharges
  BY <1>1 DEF CompletedCountsCharges
<1> QED
  BY <1>2, Invariance, PTL

\* A row of statement_imports is never removed, and its status is final once it ended.
LEMMA StatusStays ==
  ASSUME TypeOK, PipelinesAreOpen, [Next]_vars, NEW i \in Imports, imports[i] # NULL
  PROVE  /\ imports'[i] # NULL
         /\ imports[i].status \in Terminal => imports'[i].status = imports[i].status
<1> DEFINE Stays == /\ imports'[i] # NULL
                    /\ imports[i].status \in Terminal => imports'[i].status = imports[i].status
<1> USE NullAssumption
<1>1. CASE imports' = imports
  BY <1>1
<1>2. ASSUME NEW j \in Imports, Complete(j)
      PROVE  Stays
  BY <1>2, CompletedType DEF Complete
<1>3. ASSUME NEW j \in Imports, Undo(j)
      PROVE  Stays
  <2>1. imports'[j] # NULL /\ imports[j] \in Import
    BY <1>3, UndoneType
  <2> QED
    BY <1>3, <2>1 DEF TypeOK, Undo, Import
<1>4. ASSUME NEW j \in Imports, FailImport(j)
      PROVE  Stays
  <2>1. imports[j] \in Import /\ imports[j] # NULL
    BY <1>4 DEF FailImport, At, PipelinesAreOpen, TypeOK
  <2>2. [imports[j] EXCEPT !.status = "FAILED"] \in Import
    BY <2>1 DEF Import, Terminal
  <2> QED
    BY <1>4, <2>1, <2>2 DEF TypeOK, FailImport
<1>5. ASSUME NEW k \in Connections, NEW j \in Imports, NEW rows \in SUBSET Charges,
             StartBankImport(k, j, rows)
      PROVE  Stays
  BY <1>5 DEF TypeOK, StartBankImport
<1>6. ASSUME NEW k \in Connections, PurgeCommit(k)
      PROVE  Stays
  <2>1. imports'[i] # NULL
    BY <1>6, UnlinkedType
  <2> QED
    BY <1>6, <2>1 DEF TypeOK, PurgeCommit, Import, SoftDeleteByIds
<1> QED
  BY <1>1, <1>2, <1>3, <1>4, <1>5, <1>6, ImportsChange

\* An import that ended keeps its status and gains no charge, although its own pipeline,
\* the handler of its crash and every other pipeline may still be at work.
THEOREM EndedFrozen == Spec => EndedImportsAreFrozen
<1> DEFINE Frozen == \A i \in Imports :
             imports[i] # NULL /\ imports[i].status \in Terminal =>
               /\ imports'[i].status = imports[i].status
               /\ \A t \in transactions' : t.import = i =>
                    \E u \in transactions : u.import = i /\ u.charge = t.charge
<1>1. ASSUME IInv, [Next]_vars
      PROVE  Frozen
  <2> SUFFICES ASSUME NEW i \in Imports, imports[i] # NULL, imports[i].status \in Terminal
               PROVE  /\ imports'[i].status = imports[i].status
                      /\ \A t \in transactions' : t.import = i =>
                           \E u \in transactions : u.import = i /\ u.charge = t.charge
    OBVIOUS
  <2>1. imports'[i].status = imports[i].status
    BY <1>1, StatusStays DEF IInv
  <2>2. ASSUME Relinks
        PROVE  \A t \in transactions' : t.import = i =>
                 \E u \in transactions : u.import = i /\ u.charge = t.charge
    BY <2>2 DEF Relinks
  <2>3. ASSUME NEW j \in Imports, BulkCreateForImport(j)
        PROVE  \A t \in transactions' : t.import = i =>
                 \E u \in transactions : u.import = i /\ u.charge = t.charge
    <3>1. j # i
      BY <1>1, <2>3 DEF IInv, PipelinesAreOpen, BulkCreateForImport, At, FindExistingExternalIds
    <3>2. TransactionsOf(i)' = TransactionsOf(i)
      BY <1>1, <2>3, <3>1, InsertedCharges DEF IInv
    <3> QED
      BY <3>2 DEF TransactionsOf
  <2> QED
    BY <1>1, <2>1, <2>2, <2>3, OnlyInsertAdds DEF IInv
<1>2. IInv /\ [Next]_vars => [Frozen]_vars
  BY <1>1
<1> QED
  BY <1>2, Invariance, PTL DEF Spec, EndedImportsAreFrozen

-----------------------------------------------------------------------------
(* What holds as long as certain tasks do not overlap.                     *)

\* No two pipelines run at once; purges may.
OnePipeline ==
    \A i, j \in Imports : pipelines[i] # NULL /\ pipelines[j] # NULL => i = j

\* No pipeline runs while a purge does; two pipelines may, and two purges.
ApartFromPurges ==
    \A i \in Imports, k \in Connections : ~(pipelines[i] # NULL /\ purges[k] # NULL)

\* What a pipeline is to insert clashes with nothing stored and not with itself.
NothingTwice ==
    /\ ChargeStoredOnce
    /\ \A i \in Imports : pipelines[i] # NULL =>
         /\ \A c, d \in pipelines[i].prepared : c # d => ~Clash(c, d)
         /\ pipelines[i].step \in {"plans", "insert"} =>
              \A c \in pipelines[i].prepared, t \in transactions : ~Clash(c, t.charge)

\* A stored charge belongs to an import of its own account, which is connected; a purge
\* knows the imports of its account and, once it looked, their charges.
AccountsAreWhole ==
    /\ \A t \in transactions :
         /\ imports[t.import] # NULL /\ imports[t.import].connection = Source[t.charge]
         /\ Source[t.charge] \in connected
    /\ \A i \in Imports : pipelines[i] # NULL =>
         /\ imports[i] # NULL /\ imports[i].connection \in connected
         /\ pipelines[i].prepared \subseteq pipelines[i].rows
         /\ \A c \in pipelines[i].rows : Source[c] = imports[i].connection
    /\ \A k \in Connections : purges[k] # NULL =>
         /\ purges[k].imports = {i \in Imports : imports[i] # NULL /\ imports[i].connection = k}
         /\ purges[k].step # "charges" =>
              \A t \in transactions : t.import \in purges[k].imports =>
                <<t.charge, t.import>> \in purges[k].deleted

\* The plans that a pipeline holds are stored, and those that a purge is to remove are
\* billed by nothing that it leaves.
PlansAreHeld ==
    /\ BilledPlansAreKept
    /\ \A i \in Imports : pipelines[i] # NULL =>
         /\ \A v \in Vendors : pipelines[i].seen[v] # NULL =>
              subscriptions[pipelines[i].seen[v]] # NULL
         /\ pipelines[i].match # NULL => subscriptions[pipelines[i].match] # NULL
         /\ pipelines[i].step = "subscribe" => pipelines[i].vendor \in Vendors
    /\ \A k \in Connections : purges[k] # NULL /\ purges[k].step = "commit" =>
         \A t \in transactions : <<t.charge, t.import>> \notin purges[k].deleted =>
           t.plan \notin purges[k].plans

\* What a step makes of the rows of a pipeline that is still there after it.
LEMMA PreparedMoves ==
  ASSUME TypeOK, [Next]_vars, NEW j \in Imports, pipelines'[j] # NULL
  PROVE  \/ /\ pipelines[j] # NULL /\ pipelines'[j].rows = pipelines[j].rows
            /\ pipelines'[j].prepared = pipelines[j].prepared
            /\ \/ pipelines'[j] = pipelines[j]
               \/ pipelines'[j].step \notin {"read", "plans", "insert"}
               \/ pipelines[j].step = "plans" /\ pipelines'[j].step = "insert"
         \/ LoadDedupeState(j)
         \/ /\ pipelines'[j].prepared = {} /\ pipelines'[j].step = "read"
            /\ \E k \in Connections : \E rows \in SUBSET {c \in Charges : Source[c] = k} :
                 StartBankImport(k, j, rows) /\ pipelines'[j].rows = rows
<1> DEFINE Kept == /\ pipelines[j] # NULL /\ pipelines'[j].rows = pipelines[j].rows
                   /\ pipelines'[j].prepared = pipelines[j].prepared
                   /\ \/ pipelines'[j] = pipelines[j]
                      \/ pipelines'[j].step \notin {"read", "plans", "insert"}
                      \/ pipelines[j].step = "plans" /\ pipelines'[j].step = "insert"
<1> USE DEF TypeOK, At, Stop
<1>1. ASSUME NEW k \in Connections, NEW i \in Imports,
             NEW rows \in SUBSET {c \in Charges : Source[c] = k}, StartBankImport(k, i, rows)
      PROVE  Kept \/ /\ pipelines'[j].prepared = {} /\ pipelines'[j].step = "read"
                     /\ StartBankImport(k, j, rows) /\ pipelines'[j].rows = rows
  <2>1. CASE i = j
    BY <1>1, <2>1 DEF StartBankImport
  <2>2. CASE i # j
    BY <1>1, <2>2 DEF StartBankImport
  <2> QED
    BY <2>1, <2>2
<1>2. ASSUME NEW i \in Imports, i # j, PipelineStep(i) \/ InstanceStops(i) \/ Undo(i)
      PROVE  pipelines'[j] = pipelines[j]
  BY <1>2 DEF PipelineStep, LoadDedupeState, GetActiveByVendor, BulkCreateForImport,
     DetectRecurrence, FindActiveMatch, CreateSubscriptionFromRecurrence, Confirmed,
     SubscriptionFails, Complete, Finish, PipelineThrows, FailImport, InstanceStops, Undo,
        FindExistingExternalIds, GetExistingDedupeKeys
<1>3. CASE LoadDedupeState(j)
  BY <1>3
<1>4. CASE GetActiveByVendor(j)
  <2>1. pipelines[j] \in Pipeline /\ pipelines[j].step = "plans" /\ pipelines[j] # NULL
    BY <1>4 DEF GetActiveByVendor
  <2>2. PICK seen : pipelines' = [pipelines EXCEPT ![j].step = "insert", ![j].seen = seen]
    BY <1>4 DEF GetActiveByVendor
  <2> QED
    BY <2>1, <2>2 DEF Pipeline
<1>5. CASE \/ BulkCreateForImport(j) \/ DetectRecurrence(j) \/ PipelineThrows(j) \/ Complete(j)
           \/ \E v \in Vendors : FindActiveMatch(j, v)
  <2>1. pipelines[j] \in Pipeline /\ pipelines[j] # NULL
    BY <1>5 DEF BulkCreateForImport, DetectRecurrence, PipelineThrows, Complete,
       FindActiveMatch, FindExistingExternalIds
  <2>2. pipelines'[j].rows = pipelines[j].rows /\ pipelines'[j].prepared = pipelines[j].prepared
        /\ pipelines'[j].step \notin {"read", "plans", "insert"}
    <3>1. CASE BulkCreateForImport(j) \/ PipelineThrows(j) \/ Complete(j)
      BY <2>1, <3>1 DEF BulkCreateForImport, PipelineThrows, Complete, Pipeline,
         FindExistingExternalIds
    <3>2. CASE DetectRecurrence(j)
      BY <2>1, <3>2 DEF DetectRecurrence, Pipeline
    <3>3. ASSUME NEW v \in Vendors, FindActiveMatch(j, v)
          PROVE  /\ pipelines'[j].rows = pipelines[j].rows
                 /\ pipelines'[j].prepared = pipelines[j].prepared
                 /\ pipelines'[j].step = "subscribe"
      BY <2>1, <3>3 DEF FindActiveMatch, Pipeline
    <3> QED
      BY <1>5, <3>1, <3>2, <3>3
  <2> QED
    BY <2>1, <2>2
<1>6. CASE SubscriptionFails(j) \/ \E plan \in Plans : CreateSubscriptionFromRecurrence(j, plan)
  <2>1. pipelines[j] \in Pipeline /\ pipelines[j] # NULL /\ Confirmed(j)
    BY <1>6 DEF SubscriptionFails, CreateSubscriptionFromRecurrence
  <2>2. pipelines'[j].rows = pipelines[j].rows /\ pipelines'[j].prepared = pipelines[j].prepared
        /\ pipelines'[j].step = "confirm"
    BY <2>1 DEF Confirmed, Pipeline
  <2> QED
    BY <2>1, <2>2
<1>7. CASE Finish(j) \/ FailImport(j) \/ InstanceStops(j)
  BY <1>7 DEF Finish, FailImport, InstanceStops
<1>8. ASSUME \/ \E t \in transactions : DeleteTransaction(t)
             \/ \E k \in Connections : Connect(k) \/ Disconnect(k) \/ PurgeStep(k)
             \/ Undo(j)
             \/ UNCHANGED vars
      PROVE  pipelines' = pipelines
  BY <1>8 DEF DeleteTransaction, Connect, Disconnect, PurgeStep, PurgeCharges,
     FindOrphanedPlans, PurgeCommit, PurgeRollback, Undo, vars, FindIdsByBankConnection,
        FindByImports, CollectSubscriptionIds, SoftDeleteByIds, FindChargedSubscriptionIds
<1> HIDE DEF Kept
<1>9. ASSUME pipelines'[j] = pipelines[j] PROVE Kept
  BY <1>9 DEF Kept
<1> QED
  BY <1>1, <1>2, <1>3, <1>4, <1>5, <1>6, <1>7, <1>8, <1>9 DEF Next, PipelineStep, Kept

\* A clash is mutual.
LEMMA ClashIsMutual == ASSUME NEW c, NEW d PROVE Clash(c, d) <=> Clash(d, c)
BY DEF Clash

\* The rows that an insert adds.
LEMMA InsertedRows ==
  ASSUME TypeOK, NEW i \in Imports, BulkCreateForImport(i), NEW t \in transactions'
  PROVE  \/ t \in transactions
         \/ /\ t.import = i /\ t.charge \in pipelines[i].prepared
            /\ t = [charge |-> t.charge, import |-> i,
               plan |-> pipelines[i].seen[VendorOf[t.charge]]]
<1>1. CASE transactions' = transactions
  BY <1>1
<1>2. CASE transactions' = transactions \cup
             {[charge |-> c, import |-> i, plan |-> pipelines[i].seen[VendorOf[c]]]
                : c \in pipelines[i].prepared}
  BY <1>2
<1> QED
  BY <1>1, <1>2 DEF BulkCreateForImport, FindExistingExternalIds

\* One pipeline at a time stores nothing twice, as nothing is stored between what it
\* read and what it inserts.
LEMMA NothingTwiceStep ==
  ASSUME IInv, NothingTwice, OnePipeline, [Next]_vars
  PROVE  NothingTwice'
<1> USE DEF IInv
<1>1. ASSUME NEW j \in Imports, pipelines'[j] # NULL
      PROVE  \A c, d \in pipelines'[j].prepared : c # d => ~Clash(c, d)
  <2>1. CASE LoadDedupeState(j)
    <3>1. PICK kept, new : /\ kept \in Prepared(new)
                           /\ pipelines' = [pipelines EXCEPT ![j].step = "plans",
                                                             ![j].prepared = kept]
      BY <2>1 DEF LoadDedupeState, FindExistingExternalIds, GetExistingDedupeKeys
    <3>2. pipelines'[j].prepared = kept
      BY <2>1, <3>1 DEF LoadDedupeState, At, TypeOK, Pipeline, FindExistingExternalIds,
         GetExistingDedupeKeys
    <3> QED
      BY <3>1, <3>2 DEF Prepared
  <2> QED
    BY <1>1, <2>1, PreparedMoves DEF NothingTwice
<1>2. CASE \A i \in Imports : ~BulkCreateForImport(i)
  <2>1. Relinks /\ OneRowPerCharge'
    BY <1>2, OnlyInsertAdds
  <2>2. ChargeStoredOnce'
    BY <2>1 DEF Relinks, OneRowPerCharge, NothingTwice, ChargeStoredOnce
  <2>3. ASSUME NEW j \in Imports, pipelines'[j] # NULL, pipelines'[j].step \in {"plans", "insert"},
               NEW c \in pipelines'[j].prepared, NEW t \in transactions'
        PROVE  ~Clash(c, t.charge)
    <3>1. PICK u \in transactions : u.charge = t.charge
      BY <2>1 DEF Relinks
    <3>2. CASE LoadDedupeState(j)
      <4> DEFINE new == {x \in pipelines[j].rows :
                           /\ ExternalId[x] \notin FindExistingExternalIds
                           /\ DedupeKey[x] \notin GetExistingDedupeKeys}
      <4>1. PICK kept \in Prepared(new) :
              pipelines' = [pipelines EXCEPT ![j].step = "plans", ![j].prepared = kept]
        BY <3>2 DEF LoadDedupeState, FindExistingExternalIds, GetExistingDedupeKeys
      <4>2. pipelines'[j].prepared = kept
        BY <3>2, <4>1 DEF LoadDedupeState, At, TypeOK, Pipeline, FindExistingExternalIds,
           GetExistingDedupeKeys
      <4>3. c \in new
        BY <2>3, <4>1, <4>2 DEF Prepared
      <4> QED
        BY <3>1, <4>3 DEF Clash, FindExistingExternalIds, GetExistingDedupeKeys
    <3> QED
      BY <2>3, <3>1, <3>2, PreparedMoves DEF NothingTwice
  <2> QED
    BY <1>1, <2>2, <2>3 DEF NothingTwice
<1>3. ASSUME NEW i \in Imports, BulkCreateForImport(i)
      PROVE  NothingTwice'
  <2>1. pipelines[i] # NULL /\ pipelines[i].step = "insert"
    BY <1>3 DEF BulkCreateForImport, At, FindExistingExternalIds
  <2>2. ASSUME NEW t \in transactions', NEW u \in transactions', t # u
        PROVE  ~Clash(t.charge, u.charge)
    <3>1. CASE t \in transactions /\ u \in transactions
      BY <2>2, <3>1 DEF NothingTwice, ChargeStoredOnce
    <3>2. CASE t \notin transactions /\ u \in transactions
      BY <1>3, <2>1, <2>2, <3>2, InsertedRows DEF NothingTwice
    <3>3. CASE t \in transactions /\ u \notin transactions
      BY <1>3, <2>1, <2>2, <3>3, InsertedRows, ClashIsMutual DEF NothingTwice
    <3>4. CASE t \notin transactions /\ u \notin transactions
      <4>1. t.charge # u.charge
        BY <1>3, <2>2, <3>4, InsertedRows
      <4> QED
        BY <1>3, <2>1, <2>2, <3>4, <4>1, InsertedRows DEF NothingTwice
    <3> QED
      BY <3>1, <3>2, <3>3, <3>4
  <2>3. \A j \in Imports : pipelines'[j] # NULL => pipelines'[j].step \notin {"plans", "insert"}
    <3> SUFFICES ASSUME NEW j \in Imports, pipelines'[j] # NULL
                 PROVE  pipelines'[j].step \notin {"plans", "insert"}
      OBVIOUS
    <3>1. \A l \in Imports \ {i} : pipelines'[l] = pipelines[l]
      BY <1>3 DEF BulkCreateForImport, TypeOK, FindExistingExternalIds
    <3>2. j = i
      BY <2>1, <3>1 DEF OnePipeline
    <3> QED
      BY <1>3, <3>2 DEF BulkCreateForImport, At, TypeOK, Pipeline, FindExistingExternalIds
  <2> QED
    BY <1>1, <2>2, <2>3 DEF NothingTwice, ChargeStoredOnce
<1> QED
  BY <1>2, <1>3

\* As long as no two pipelines run at once, no charge is stored twice: two stored charges
\* differ in their identifiers and in date or amount (formatRow).
THEOREM ChargesAreStoredOnce == Spec /\ []OnePipeline => []ChargeStoredOnce
<1>1. Init => NothingTwice
  BY DEF Init, NothingTwice, ChargeStoredOnce
<1>2. IInv /\ NothingTwice /\ OnePipeline /\ [Next]_vars => NothingTwice'
  BY NothingTwiceStep
<1>3. NothingTwice => ChargeStoredOnce
  BY DEF NothingTwice
<1> QED
  BY <1>1, <1>2, <1>3, Invariance, PTL DEF Spec

\* Who changes the connection of an import, and who takes one from the user.
LEMMA ConnectionsKept ==
  ASSUME TypeOK, PipelinesAreOpen, [Next]_vars,
         \A k \in Connections : ~PurgeCommit(k),
         \A k \in Connections, i \in Imports :
           \A rows \in SUBSET {c \in Charges : Source[c] = k} : ~StartBankImport(k, i, rows)
  PROVE  /\ connected \subseteq connected'
         /\ \A i \in Imports :
              /\ imports'[i] = NULL <=> imports[i] = NULL
              /\ imports[i] # NULL => imports'[i].connection = imports[i].connection
<1> USE NullAssumption DEF TypeOK
<1>1. connected \subseteq connected'
  <2>1. ASSUME NEW i \in Imports, PipelineStep(i) \/ InstanceStops(i) \/ Undo(i)
        PROVE  connected' = connected
    BY <2>1 DEF PipelineStep, LoadDedupeState, GetActiveByVendor, BulkCreateForImport,
       DetectRecurrence, FindActiveMatch, CreateSubscriptionFromRecurrence,
       SubscriptionFails, Complete, Finish, PipelineThrows, FailImport, InstanceStops, Undo,
          FindExistingExternalIds, GetExistingDedupeKeys
  <2>2. ASSUME \/ \E t \in transactions : DeleteTransaction(t)
               \/ \E k \in Connections : \/ Connect(k) \/ Disconnect(k) \/ PurgeCharges(k)
                                         \/ FindOrphanedPlans(k) \/ PurgeRollback(k)
               \/ UNCHANGED vars
        PROVE  connected \subseteq connected'
    BY <2>2 DEF DeleteTransaction, Connect, Disconnect, PurgeCharges, FindOrphanedPlans,
       PurgeRollback, vars, FindIdsByBankConnection, FindByImports, CollectSubscriptionIds,
          SoftDeleteByIds, FindChargedSubscriptionIds
  <2> QED
    BY <2>1, <2>2 DEF Next, PurgeStep
<1>2. ASSUME NEW i \in Imports, NEW j \in Imports, Complete(j) \/ Undo(j) \/ FailImport(j)
      PROVE  /\ imports'[i] = NULL <=> imports[i] = NULL
             /\ imports[i] # NULL => imports'[i].connection = imports[i].connection
  <2>1. CASE Complete(j)
    <3>1. imports[j] \in Import /\ imports'[j] # NULL
          /\ \A l \in Imports \ {j} : imports'[l] = imports[l]
      BY <2>1, CompletedType
    <3>2. imports'[j].connection = imports[j].connection
      BY <2>1, <3>1 DEF Complete, Import
    <3> QED
      BY <3>1, <3>2
  <2>2. CASE Undo(j)
    <3>1. imports[j] \in Import /\ imports'[j] # NULL
          /\ \A l \in Imports \ {j} : imports'[l] = imports[l]
      BY <2>2, UndoneType
    <3>2. imports'[j].connection = imports[j].connection
      BY <2>2, <3>1 DEF Undo, Import
    <3> QED
      BY <3>1, <3>2
  <2>3. CASE FailImport(j)
    <3>1. imports[j] \in Import
      BY <2>3 DEF FailImport, At, PipelinesAreOpen
    <3>2. [imports[j] EXCEPT !.status = "FAILED"] \in Import
      BY <3>1 DEF Import, Terminal
    <3>3. [imports[j] EXCEPT !.status = "FAILED"].connection = imports[j].connection
      BY <3>1 DEF Import
    <3>4. \/ imports' = imports
          \/ imports' = [imports EXCEPT ![j] = [imports[j] EXCEPT !.status = "FAILED"]]
      BY <2>3 DEF FailImport
    <3> QED
      BY <3>1, <3>2, <3>3, <3>4
  <2> QED
    BY <1>2, <2>1, <2>2, <2>3
<1> QED
  BY <1>1, <1>2, ImportsChange

\* What a step makes of a purge that is still there after it.
LEMMA PurgeMoves ==
  ASSUME TypeOK, [Next]_vars, NEW k \in Connections, purges'[k] # NULL
  PROVE  \/ purges'[k] = purges[k]
         \/ Disconnect(k) \/ PurgeCharges(k) \/ FindOrphanedPlans(k)
<1> USE DEF TypeOK
<1>1. ASSUME NEW i \in Imports, PipelineStep(i) \/ InstanceStops(i) \/ Undo(i)
      PROVE  purges' = purges
  BY <1>1 DEF PipelineStep, LoadDedupeState, GetActiveByVendor, BulkCreateForImport,
     DetectRecurrence, FindActiveMatch, CreateSubscriptionFromRecurrence,
     SubscriptionFails, Complete, Finish, PipelineThrows, FailImport, InstanceStops, Undo,
        FindExistingExternalIds, GetExistingDedupeKeys
<1>2. ASSUME NEW l \in Connections, \/ Connect(l) \/ PurgeCommit(l) \/ PurgeRollback(l)
                                    \/ \E i \in Imports, rows \in SUBSET Charges :
                                         StartBankImport(l, i, rows)
      PROVE  purges'[k] = purges[k]
  BY <1>2 DEF Connect, PurgeCommit, PurgeRollback, StartBankImport, SoftDeleteByIds
<1>3. ASSUME NEW l \in Connections, l # k,
             Disconnect(l) \/ PurgeCharges(l) \/ FindOrphanedPlans(l)
      PROVE  purges'[k] = purges[k]
  BY <1>3 DEF Disconnect, PurgeCharges, FindOrphanedPlans, FindIdsByBankConnection,
     FindByImports, CollectSubscriptionIds, SoftDeleteByIds, FindChargedSubscriptionIds
<1>4. ASSUME (\E t \in transactions : DeleteTransaction(t)) \/ UNCHANGED vars
      PROVE  purges' = purges
  BY <1>4 DEF DeleteTransaction, vars
<1> QED
  BY <1>1, <1>2, <1>3, <1>4 DEF Next, PurgeStep

\* An account that is disconnected while no pipeline runs leaves none of its charges
\* behind: the purge knows its imports, and no import gains a charge meanwhile.
LEMMA AccountsAreWholeStep ==
  ASSUME IInv, AccountsAreWhole, ApartFromPurges, ApartFromPurges', [Next]_vars
  PROVE  AccountsAreWhole'
<1> USE DEF IInv
<1>t. \A t \in transactions : t.import \in Imports /\ t.charge \in Charges
  BY DEF TypeOK, Transaction
<1>1. ASSUME NEW k \in Connections, PurgeCommit(k) PROVE AccountsAreWhole'
  <2>1. \A i \in Imports : pipelines'[i] = NULL
    BY <1>1 DEF PurgeCommit, ApartFromPurges, SoftDeleteByIds
  <2>2. /\ transactions' = {t \in transactions : <<t.charge, t.import>> \notin purges[k].deleted}
        /\ connected' = connected \ {k}
        /\ purges' = [purges EXCEPT ![k] = NULL]
        /\ purges[k] # NULL /\ purges[k].step = "commit"
    BY <1>1 DEF PurgeCommit, SoftDeleteByIds
  <2>3. \A i \in Imports :
          /\ imports[i] = NULL => imports'[i] = NULL
          /\ imports[i] # NULL =>
               /\ imports'[i] # NULL
               /\ imports'[i].connection = IF imports[i].connection = k THEN NULL
                                           ELSE imports[i].connection
    <3> SUFFICES ASSUME NEW i \in Imports
                 PROVE  /\ imports[i] = NULL => imports'[i] = NULL
                        /\ imports[i] # NULL =>
                             /\ imports'[i] # NULL
                             /\ imports'[i].connection = IF imports[i].connection = k THEN NULL
                                                         ELSE imports[i].connection
      OBVIOUS
    <3>1. imports'[i] = IF imports[i] # NULL /\ imports[i].connection = k
                          THEN [imports[i] EXCEPT !.connection = NULL] ELSE imports[i]
      BY <1>1 DEF PurgeCommit, SoftDeleteByIds
    <3>2. imports[i] # NULL => imports[i] \in Import /\ imports'[i] # NULL
      BY <1>1, UnlinkedType DEF TypeOK
    <3> QED
      BY <3>1, <3>2 DEF Import
  <2>4. \A t \in transactions' : t \in transactions /\ imports[t.import].connection # k
    BY <1>t, <2>2 DEF AccountsAreWhole
  <2>5. \A t \in transactions' :
          /\ imports'[t.import] # NULL /\ imports'[t.import].connection = Source[t.charge]
          /\ Source[t.charge] \in connected'
    BY <1>t, <2>2, <2>3, <2>4 DEF AccountsAreWhole
  <2>6. ASSUME NEW l \in Connections, purges'[l] # NULL
        PROVE  /\ purges'[l].imports
                    = {i \in Imports : imports'[i] # NULL /\ imports'[i].connection = l}
               /\ purges'[l].step # "charges" =>
                    \A t \in transactions' : t.import \in purges'[l].imports =>
                      <<t.charge, t.import>> \in purges'[l].deleted
    <3>1. l # k /\ purges'[l] = purges[l]
      BY <2>2, <2>6 DEF TypeOK
    <3>2. \A i \in Imports : imports'[i] # NULL /\ imports'[i].connection = l
                             <=> imports[i] # NULL /\ imports[i].connection = l
      BY <2>3, <3>1, NullAssumption
    <3> QED
      BY <2>2, <2>6, <3>1, <3>2 DEF AccountsAreWhole
  <2> QED
    BY <2>1, <2>5, <2>6 DEF AccountsAreWhole
<1>2. ASSUME NEW k \in Connections, NEW i \in Imports,
             NEW rows \in SUBSET {c \in Charges : Source[c] = k}, StartBankImport(k, i, rows)
      PROVE  AccountsAreWhole'
  <2>1. /\ k \in connected /\ connected' = connected /\ imports[i] = NULL
        /\ transactions' = transactions /\ purges' = purges
        /\ imports'[i] # NULL /\ imports'[i].connection = k
        /\ pipelines'[i] # NULL /\ pipelines'[i].rows = rows /\ pipelines'[i].prepared = {}
        /\ \A j \in Imports \ {i} : imports'[j] = imports[j] /\ pipelines'[j] = pipelines[j]
    <3> DEFINE row == [connection |-> k, status |-> "PROCESSING", count |-> 0]
               task == [step |-> "read", rows |-> rows, prepared |-> {},
                        seen |-> [v \in Vendors |-> NULL], vendors |-> {},
                        vendor |-> NULL, match |-> NULL]
    <3>1. row \in Import /\ row.connection = k
      BY ZeroCounts DEF Import
    <3>2. task \in Pipeline /\ task.rows = rows /\ task.prepared = {}
      BY DEF Pipeline
    <3>3. imports' = [imports EXCEPT ![i] = row] /\ pipelines' = [pipelines EXCEPT ![i] = task]
      BY <1>2 DEF StartBankImport
    <3> HIDE DEF row, task
    <3>4. row # NULL /\ task # NULL
      BY <3>1, <3>2, NullAssumption
    <3>5. /\ k \in connected /\ connected' = connected /\ imports[i] = NULL
          /\ transactions' = transactions /\ purges' = purges
      BY <1>2 DEF StartBankImport
    <3> QED
      BY <3>1, <3>2, <3>3, <3>4, <3>5 DEF TypeOK
  <2>2. \A l \in Connections : purges'[l] = NULL
    BY <2>1 DEF ApartFromPurges
  <2>3. \A t \in transactions : t.import # i
    BY <2>1 DEF AccountsAreWhole
  <2>4. \A t \in transactions' :
          /\ imports'[t.import] # NULL /\ imports'[t.import].connection = Source[t.charge]
          /\ Source[t.charge] \in connected'
    BY <1>t, <2>1, <2>3 DEF AccountsAreWhole
  <2>5. \A j \in Imports : pipelines'[j] # NULL =>
          /\ imports'[j] # NULL /\ imports'[j].connection \in connected'
          /\ pipelines'[j].prepared \subseteq pipelines'[j].rows
          /\ \A c \in pipelines'[j].rows : Source[c] = imports'[j].connection
    BY <2>1 DEF AccountsAreWhole
  <2> QED
    BY <2>2, <2>4, <2>5 DEF AccountsAreWhole
<1>3. ASSUME \A k \in Connections : ~PurgeCommit(k),
             \A k \in Connections, i \in Imports :
               \A rows \in SUBSET {c \in Charges : Source[c] = k} : ~StartBankImport(k, i, rows)
      PROVE  AccountsAreWhole'
  <2>1. /\ connected \subseteq connected'
        /\ \A i \in Imports :
             /\ imports'[i] = NULL <=> imports[i] = NULL
             /\ imports[i] # NULL => imports'[i].connection = imports[i].connection
    BY <1>3, ConnectionsKept
  <2>2. ASSUME NEW t \in transactions'
        PROVE  /\ imports'[t.import] # NULL /\ imports'[t.import].connection = Source[t.charge]
               /\ Source[t.charge] \in connected'
    <3>1. CASE \E u \in transactions : u.import = t.import /\ u.charge = t.charge
      BY <1>t, <2>1, <3>1 DEF AccountsAreWhole
    <3>2. ASSUME NEW i \in Imports, BulkCreateForImport(i), t.import = i,
                 t.charge \in pipelines[i].prepared
          PROVE  /\ imports'[t.import] # NULL /\ imports'[t.import].connection = Source[t.charge]
                 /\ Source[t.charge] \in connected'
      BY <2>1, <3>2 DEF AccountsAreWhole, BulkCreateForImport, At, FindExistingExternalIds
    <3> QED
      BY <2>2, <3>1, <3>2, OnlyInsertAdds, InsertedRows DEF Relinks
  <2>3. ASSUME NEW j \in Imports, pipelines'[j] # NULL
        PROVE  /\ imports'[j] # NULL /\ imports'[j].connection \in connected'
               /\ pipelines'[j].prepared \subseteq pipelines'[j].rows
               /\ \A c \in pipelines'[j].rows : Source[c] = imports'[j].connection
    <3>1. CASE LoadDedupeState(j)
      <4> DEFINE new == {x \in pipelines[j].rows :
                           /\ ExternalId[x] \notin FindExistingExternalIds
                           /\ DedupeKey[x] \notin GetExistingDedupeKeys}
      <4>1. PICK kept \in Prepared(new) :
              pipelines' = [pipelines EXCEPT ![j].step = "plans", ![j].prepared = kept]
        BY <3>1 DEF LoadDedupeState, FindExistingExternalIds, GetExistingDedupeKeys
      <4>2. /\ pipelines'[j].prepared = kept /\ pipelines'[j].rows = pipelines[j].rows
            /\ pipelines[j] # NULL
        BY <3>1, <4>1 DEF LoadDedupeState, At, TypeOK, Pipeline, FindExistingExternalIds,
           GetExistingDedupeKeys
      <4>3. kept \subseteq pipelines[j].rows
        BY <4>1 DEF Prepared
      <4> QED
        BY <2>1, <4>2, <4>3 DEF AccountsAreWhole
    <3>2. CASE /\ pipelines[j] # NULL /\ pipelines'[j].rows = pipelines[j].rows
               /\ pipelines'[j].prepared = pipelines[j].prepared
      BY <2>1, <3>2 DEF AccountsAreWhole
    <3> QED
      BY <1>3, <2>3, <3>1, <3>2, PreparedMoves
  <2>4. ASSUME NEW k \in Connections, purges'[k] # NULL
        PROVE  /\ purges'[k].imports
                    = {i \in Imports : imports'[i] # NULL /\ imports'[i].connection = k}
               /\ purges'[k].step # "charges" =>
                    \A t \in transactions' : t.import \in purges'[k].imports =>
                      <<t.charge, t.import>> \in purges'[k].deleted
    <3>1. {i \in Imports : imports'[i] # NULL /\ imports'[i].connection = k}
            = {i \in Imports : imports[i] # NULL /\ imports[i].connection = k}
      BY <2>1
    <3>2. \A t \in transactions' : \E u \in transactions : u.import = t.import /\ u.charge = t.charge
      <4>1. \A i \in Imports : ~BulkCreateForImport(i)
        BY <2>4 DEF BulkCreateForImport, At, ApartFromPurges, FindExistingExternalIds
      <4> QED
        BY <4>1, OnlyInsertAdds DEF Relinks
    <3>3. CASE purges'[k] = purges[k]
      BY <2>4, <3>1, <3>2, <3>3 DEF AccountsAreWhole
    <3>4. CASE Disconnect(k)
      <4>1. /\ purges'[k].imports
                 = {i \in Imports : imports[i] # NULL /\ imports[i].connection = k}
            /\ purges'[k].step = "charges"
        BY <3>4 DEF Disconnect, TypeOK, FindIdsByBankConnection
      <4> QED
        BY <3>1, <4>1
    <3>5. CASE PurgeCharges(k)
      <4> DEFINE found == {t \in transactions : t.import \in purges[k].imports}
                 deleted == {<<t.charge, t.import>> : t \in found}
                 plans == {t.plan : t \in found} \ {NULL}
      <4>1. /\ purges[k] \in Purge /\ purges[k] # NULL /\ transactions' = transactions
            /\ purges' = [purges EXCEPT ![k].step = "charged", ![k].deleted = deleted,
                                        ![k].plans = plans]
        BY <3>5 DEF PurgeCharges, TypeOK, FindByImports, CollectSubscriptionIds
      <4>2. \A t \in transactions : t.import \in purges[k].imports =>
              <<t.charge, t.import>> \in deleted
        OBVIOUS
      <4> HIDE DEF deleted, plans
      <4>3. purges'[k].imports = purges[k].imports /\ purges'[k].deleted = deleted
        BY <4>1 DEF TypeOK, Purge
      <4> QED
        BY <3>1, <4>1, <4>2, <4>3 DEF AccountsAreWhole
    <3>6. CASE FindOrphanedPlans(k)
      <4>1. /\ purges[k] \in Purge /\ purges[k] # NULL /\ purges[k].step = "charged"
            /\ transactions' = transactions
        BY <3>6 DEF FindOrphanedPlans, TypeOK, SoftDeleteByIds, FindChargedSubscriptionIds
      <4>2. purges'[k].imports = purges[k].imports /\ purges'[k].deleted = purges[k].deleted
        BY <3>6, <4>1 DEF FindOrphanedPlans, TypeOK, Purge, SoftDeleteByIds,
           FindChargedSubscriptionIds
      <4> QED
        BY <3>1, <4>1, <4>2 DEF AccountsAreWhole
    <3> QED
      BY <2>4, <3>3, <3>4, <3>5, <3>6, PurgeMoves
  <2> QED
    BY <2>2, <2>3, <2>4 DEF AccountsAreWhole
<1> QED
  BY <1>1, <1>2, <1>3

\* As long as no pipeline runs while a purge does, disconnecting an account leaves none of
\* its transactions behind (disconnect).
THEOREM NothingIsLeftBehind == Spec /\ []ApartFromPurges => []NoChargeLeftBehind
<1>1. Init => AccountsAreWhole
  BY DEF Init, AccountsAreWhole
<1>2. IInv /\ AccountsAreWhole /\ ApartFromPurges /\ ApartFromPurges' /\ [Next]_vars
        => AccountsAreWhole'
  BY AccountsAreWholeStep
<1>3. AccountsAreWhole => NoChargeLeftBehind
  BY DEF AccountsAreWhole, NoChargeLeftBehind
<1> QED
  BY <1>1, <1>2, <1>3, Invariance, PTL DEF Spec

\* A step that leaves the plans and the purges alone, adds no row that bills a plan, and
\* lets pipelines hold only what they held or what is stored.
LEMMA PlansStayHeld ==
  ASSUME PlansAreHeld,
         subscriptions' = subscriptions,
         \A t \in transactions' :
           \E u \in transactions : u.charge = t.charge /\ u.import = t.import /\ u.plan = t.plan,
         \A i \in Imports : pipelines'[i] # NULL =>
           \/ /\ pipelines[i] # NULL /\ pipelines'[i].seen = pipelines[i].seen
              /\ pipelines'[i].match = pipelines[i].match \/ pipelines'[i].match = NULL
              /\ \/ pipelines'[i].step # "subscribe"
                 \/ /\ pipelines[i].step = "subscribe"
                    /\ pipelines'[i].vendor = pipelines[i].vendor
           \/ /\ \A v \in Vendors : pipelines'[i].seen[v] # NULL =>
                   subscriptions[pipelines'[i].seen[v]] # NULL
              /\ pipelines'[i].match # NULL => subscriptions[pipelines'[i].match] # NULL
              /\ pipelines'[i].step = "subscribe" => pipelines'[i].vendor \in Vendors,
         \A k \in Connections : purges'[k] # NULL /\ purges'[k].step = "commit" =>
           \/ purges'[k] = purges[k]
           \/ \A t \in transactions' : <<t.charge, t.import>> \notin purges'[k].deleted =>
                t.plan \notin purges'[k].plans
  PROVE  PlansAreHeld'
<1>1. BilledPlansAreKept'
  BY DEF PlansAreHeld, BilledPlansAreKept
<1>2. ASSUME NEW i \in Imports, pipelines'[i] # NULL
      PROVE  /\ \A v \in Vendors : pipelines'[i].seen[v] # NULL =>
                  subscriptions'[pipelines'[i].seen[v]] # NULL
             /\ pipelines'[i].match # NULL => subscriptions'[pipelines'[i].match] # NULL
             /\ pipelines'[i].step = "subscribe" => pipelines'[i].vendor \in Vendors
  BY <1>2 DEF PlansAreHeld
<1>3. ASSUME NEW k \in Connections, purges'[k] # NULL, purges'[k].step = "commit",
             NEW t \in transactions', <<t.charge, t.import>> \notin purges'[k].deleted
      PROVE  t.plan \notin purges'[k].plans
  BY <1>3 DEF PlansAreHeld
<1> QED
  BY <1>1, <1>2, <1>3 DEF PlansAreHeld

\* What a pipeline holds and what a purge removes stay apart.
LEMMA PlansAreHeldStep ==
  ASSUME IInv, PlansAreHeld, ApartFromPurges, [Next]_vars
  PROVE  PlansAreHeld'
<1> USE NullAssumption DEF IInv, TypeOK
<1>t. \A t \in transactions : t \in Transaction
  OBVIOUS
<1>1. ASSUME NEW k \in Connections, NEW i \in Imports,
             NEW rows \in SUBSET {c \in Charges : Source[c] = k}, StartBankImport(k, i, rows)
      PROVE  PlansAreHeld'
  <2> DEFINE task == [step |-> "read", rows |-> rows, prepared |-> {},
                      seen |-> [v \in Vendors |-> NULL], vendors |-> {},
                      vendor |-> NULL, match |-> NULL]
  <2>1. /\ pipelines' = [pipelines EXCEPT ![i] = task]
        /\ UNCHANGED <<transactions, subscriptions, purges>>
    BY <1>1 DEF StartBankImport
  <2>2. /\ \A v \in Vendors : task.seen[v] = NULL
        /\ task.match = NULL /\ task.step = "read"
    OBVIOUS
  <2> HIDE DEF task
  <2>3. ASSUME NEW j \in Imports
        PROVE  pipelines'[j] = pipelines[j] \/ pipelines'[j] = task
    BY <2>1
  <2> QED
    BY <2>1, <2>2, <2>3, PlansStayHeld
<1>2. ASSUME NEW i \in Imports,
             LoadDedupeState(i) \/ DetectRecurrence(i) \/ PipelineThrows(i) \/ Complete(i)
      PROVE  PlansAreHeld'
  <2>1. /\ pipelines[i] # NULL /\ UNCHANGED <<transactions, subscriptions, purges>>
        /\ \A j \in Imports \ {i} : pipelines'[j] = pipelines[j]
    BY <1>2 DEF LoadDedupeState, DetectRecurrence, PipelineThrows, Complete, At,
       FindExistingExternalIds, GetExistingDedupeKeys
  <2>2. /\ pipelines'[i].seen = pipelines[i].seen /\ pipelines'[i].match = pipelines[i].match
        /\ pipelines'[i].step # "subscribe"
    <3>1. CASE LoadDedupeState(i)
      BY <3>1 DEF LoadDedupeState, Pipeline, At, FindExistingExternalIds, GetExistingDedupeKeys
    <3>2. CASE DetectRecurrence(i)
      BY <3>2 DEF DetectRecurrence, Pipeline, At
    <3>3. CASE PipelineThrows(i) \/ Complete(i)
      BY <3>3 DEF PipelineThrows, Complete, Pipeline, At
    <3> QED
      BY <1>2, <3>1, <3>2, <3>3
  <2> QED
    BY <2>1, <2>2, PlansStayHeld
<1>3. ASSUME NEW i \in Imports, GetActiveByVendor(i)
      PROVE  PlansAreHeld'
  <2>1. PICK seen \in [Vendors -> Plans \cup {NULL}] :
          /\ \A v \in Vendors : seen[v] # NULL => seen[v] \in ActivePlans(v)
          /\ pipelines' = [pipelines EXCEPT ![i].step = "insert", ![i].seen = seen]
    BY <1>3 DEF GetActiveByVendor
  <2>2. /\ pipelines[i] # NULL /\ pipelines[i] \in Pipeline
        /\ UNCHANGED <<transactions, subscriptions, purges>>
        /\ \A j \in Imports \ {i} : pipelines'[j] = pipelines[j]
        /\ pipelines'[i].seen = seen /\ pipelines'[i].match = pipelines[i].match
        /\ pipelines'[i].step = "insert"
    BY <1>3, <2>1 DEF GetActiveByVendor, At, Pipeline
  <2>3. \A v \in Vendors : seen[v] # NULL => subscriptions[seen[v]] # NULL
    BY <2>1 DEF ActivePlans
  <2>4. pipelines[i].match # NULL => subscriptions[pipelines[i].match] # NULL
    BY <2>2 DEF PlansAreHeld
  <2> QED
    BY <2>2, <2>3, <2>4, PlansStayHeld
<1>4. ASSUME NEW i \in Imports, BulkCreateForImport(i)
      PROVE  PlansAreHeld'
  <2>1. /\ pipelines[i] # NULL /\ pipelines[i] \in Pipeline
        /\ UNCHANGED <<subscriptions, purges>>
        /\ \A j \in Imports \ {i} : pipelines'[j] = pipelines[j]
        /\ pipelines'[i].seen = pipelines[i].seen /\ pipelines'[i].match = pipelines[i].match
        /\ pipelines'[i].step \in {"fail", "detect"}
    BY <1>4 DEF BulkCreateForImport, At, Pipeline, FindExistingExternalIds
  <2>2. \A k \in Connections : purges'[k] = NULL
    BY <2>1 DEF ApartFromPurges
  <2>3. \A t \in transactions' : t.plan # NULL => subscriptions'[t.plan] # NULL
    <3> TAKE t \in transactions'
    <3>1. CASE t \in transactions
      BY <2>1, <3>1 DEF PlansAreHeld, BilledPlansAreKept
    <3>2. CASE t.charge \in pipelines[i].prepared
               /\ t = [charge |-> t.charge, import |-> i,
                  plan |-> pipelines[i].seen[VendorOf[t.charge]]]
      <4>1. t.plan = pipelines[i].seen[VendorOf[t.charge]]
        BY <3>2
      <4>2. VendorOf[t.charge] \in Vendors
        BY <2>1, <3>2, DataAssumption DEF Pipeline
      <4> QED
        BY <2>1, <4>1, <4>2 DEF PlansAreHeld
    <3> QED
      BY <1>4, <3>1, <3>2, InsertedRows
  <2>4. \A j \in Imports : pipelines'[j] # NULL =>
          /\ pipelines[j] # NULL /\ pipelines'[j].seen = pipelines[j].seen
          /\ pipelines'[j].match = pipelines[j].match
          /\ pipelines'[j].step = "subscribe" => pipelines'[j].vendor \in Vendors
    BY <2>1 DEF PlansAreHeld
  <2> QED
    BY <2>1, <2>2, <2>3, <2>4 DEF PlansAreHeld, BilledPlansAreKept
<1>5. ASSUME NEW i \in Imports, NEW v \in Vendors, FindActiveMatch(i, v)
      PROVE  PlansAreHeld'
  <2>1. PICK match \in IF ActivePlans(v) = {} THEN {NULL} ELSE ActivePlans(v) :
          pipelines' = [pipelines EXCEPT ![i].step = "subscribe", ![i].vendor = v,
                                         ![i].match = match]
    BY <1>5 DEF FindActiveMatch
  <2>2. /\ pipelines[i] # NULL /\ pipelines[i] \in Pipeline
        /\ UNCHANGED <<transactions, subscriptions, purges>>
        /\ \A j \in Imports \ {i} : pipelines'[j] = pipelines[j]
        /\ pipelines'[i].seen = pipelines[i].seen /\ pipelines'[i].match = match
        /\ pipelines'[i].vendor = v
    BY <1>5, <2>1 DEF FindActiveMatch, At, Pipeline
  <2>3. match # NULL => subscriptions[match] # NULL
    BY <2>1 DEF ActivePlans
  <2>4. \A w \in Vendors : pipelines[i].seen[w] # NULL => subscriptions[pipelines[i].seen[w]] # NULL
    BY <2>2 DEF PlansAreHeld
  <2> QED
    BY <2>2, <2>3, <2>4, PlansStayHeld
<1>c. ASSUME NEW i \in Imports, pipelines[i] # NULL, Confirmed(i)
      PROVE  /\ pipelines'[i].seen = pipelines[i].seen /\ pipelines'[i].match = NULL
             /\ pipelines'[i].step = "confirm"
             /\ \A j \in Imports \ {i} : pipelines'[j] = pipelines[j]
  BY <1>c DEF Confirmed, Pipeline
<1>6. ASSUME NEW i \in Imports, SubscriptionFails(i)
      PROVE  PlansAreHeld'
  <2>1. /\ pipelines[i] # NULL /\ Confirmed(i)
        /\ UNCHANGED <<transactions, subscriptions, purges>>
    BY <1>6 DEF SubscriptionFails, At
  <2> QED
    BY <1>c, <2>1, PlansStayHeld
<1>7. ASSUME NEW i \in Imports, NEW plan \in Plans, CreateSubscriptionFromRecurrence(i, plan)
      PROVE  PlansAreHeld'
  <2> DEFINE link(t) == IF t.plan = NULL /\ VendorOf[t.charge] = pipelines[i].vendor
                          THEN [t EXCEPT !.plan = plan] ELSE t
  <2>1. /\ pipelines[i] # NULL /\ pipelines[i].step = "subscribe" /\ Confirmed(i)
        /\ purges' = purges /\ transactions' = {link(t) : t \in transactions}
    BY <1>7 DEF CreateSubscriptionFromRecurrence, At
  <2>2. \A k \in Connections : purges'[k] = NULL
    BY <2>1 DEF ApartFromPurges
  <2>3. /\ subscriptions'[plan] # NULL
        /\ \A p \in Plans : subscriptions[p] # NULL => subscriptions'[p] # NULL
    <3>1. CASE pipelines[i].match = NULL
      <4>1. /\ pipelines[i].vendor \in Vendors
            /\ subscriptions' = [subscriptions EXCEPT ![plan] = pipelines[i].vendor]
        BY <1>7, <2>1, <3>1 DEF CreateSubscriptionFromRecurrence, PlansAreHeld
      <4> QED
        BY <4>1
    <3>2. CASE pipelines[i].match # NULL
      BY <1>7, <2>1, <3>2 DEF CreateSubscriptionFromRecurrence, PlansAreHeld
    <3> QED
      BY <3>1, <3>2
  <2>4. \A t \in transactions' : t.plan # NULL => subscriptions'[t.plan] # NULL
    <3> TAKE u \in transactions'
    <3>1. PICK t \in transactions : u = link(t)
      BY <2>1
    <3>2. t \in Transaction /\ (t.plan # NULL => t.plan \in Plans /\ subscriptions[t.plan] # NULL)
      BY <1>t DEF PlansAreHeld, BilledPlansAreKept, Transaction
    <3>3. u.plan = plan \/ u.plan = t.plan
      BY <3>1, <3>2 DEF Transaction
    <3> QED
      BY <2>3, <3>2, <3>3
  <2>5. ASSUME NEW j \in Imports, pipelines'[j] # NULL
        PROVE  /\ \A v \in Vendors : pipelines'[j].seen[v] # NULL =>
                    subscriptions'[pipelines'[j].seen[v]] # NULL
               /\ pipelines'[j].match # NULL => subscriptions'[pipelines'[j].match] # NULL
               /\ pipelines'[j].step = "subscribe" => pipelines'[j].vendor \in Vendors
    <3>1. /\ pipelines[j] # NULL /\ pipelines[j] \in Pipeline
          /\ pipelines'[j].seen = pipelines[j].seen
          /\ pipelines'[j].match = NULL \/ pipelines'[j].match = pipelines[j].match
          /\ pipelines'[j].step = "subscribe" => pipelines'[j] = pipelines[j]
      BY <1>c, <2>1, <2>5
    <3>2. /\ \A v \in Vendors : pipelines[j].seen[v] \in Plans \cup {NULL}
          /\ pipelines[j].match \in Plans \cup {NULL}
      BY <3>1 DEF Pipeline
    <3> QED
      BY <2>3, <3>1, <3>2 DEF PlansAreHeld
  <2> QED
    BY <2>2, <2>4, <2>5 DEF PlansAreHeld, BilledPlansAreKept
<1>8. ASSUME NEW i \in Imports, Finish(i) \/ FailImport(i) \/ InstanceStops(i)
      PROVE  PlansAreHeld'
  <2>1. /\ UNCHANGED <<transactions, subscriptions, purges>>
        /\ \A j \in Imports : pipelines'[j] # NULL => pipelines'[j] = pipelines[j]
    BY <1>8 DEF Finish, FailImport, InstanceStops, Stop
  <2> QED
    BY <2>1, PlansStayHeld
<1>9. ASSUME \/ \E i \in Imports : Undo(i)
             \/ \E t \in transactions : DeleteTransaction(t)
             \/ \E k \in Connections : Connect(k)
             \/ UNCHANGED vars
      PROVE  PlansAreHeld'
  <2>1. /\ UNCHANGED <<subscriptions, pipelines, purges>>
        /\ transactions' \subseteq transactions
    BY <1>9 DEF Undo, DeleteTransaction, Connect, vars
  <2> QED
    BY <2>1, PlansStayHeld
<1>10. ASSUME NEW k \in Connections, Disconnect(k) \/ PurgeCharges(k) \/ PurgeRollback(k)
       PROVE  PlansAreHeld'
  <2>1. /\ UNCHANGED <<transactions, subscriptions, pipelines>>
        /\ \A l \in Connections \ {k} : purges'[l] = purges[l]
    BY <1>10 DEF Disconnect, PurgeCharges, PurgeRollback, FindIdsByBankConnection,
       FindByImports, CollectSubscriptionIds
  <2>2. purges'[k] = NULL \/ purges'[k].step # "commit"
    <3>1. CASE Disconnect(k) \/ PurgeRollback(k)
      BY <3>1 DEF Disconnect, PurgeRollback, FindIdsByBankConnection
    <3>2. CASE PurgeCharges(k)
      <4>1. PICK deleted, plans :
              purges' = [purges EXCEPT ![k] = [@ EXCEPT !.step = "charged",
                                                        !.deleted = deleted, !.plans = plans]]
        BY <3>2 DEF PurgeCharges, FindByImports, CollectSubscriptionIds
      <4>2. purges[k] \in Purge
        BY <3>2 DEF PurgeCharges, FindByImports, CollectSubscriptionIds
      <4> HIDE DEF Purge
      <4>3. [purges[k] EXCEPT !.step = "charged", !.deleted = deleted, !.plans = plans].step
              = "charged"
        BY <4>2 DEF Purge
      <4> QED
        BY <4>1, <4>3
    <3> QED
      BY <1>10, <3>1, <3>2
  <2> QED
    BY <2>1, <2>2, PlansStayHeld
<1>11. ASSUME NEW k \in Connections, FindOrphanedPlans(k)
       PROVE  PlansAreHeld'
  <2> DEFINE left == {t \in transactions : <<t.charge, t.import>> \notin purges[k].deleted}
             kept == purges[k].plans \ {t.plan : t \in left}
  <2>1. /\ purges[k] \in Purge
        /\ UNCHANGED <<transactions, subscriptions, pipelines>>
        /\ purges' = [purges EXCEPT ![k] = [@ EXCEPT !.step = "commit", !.plans = kept]]
        /\ \A l \in Connections \ {k} : purges'[l] = purges[l]
    BY <1>11 DEF FindOrphanedPlans, SoftDeleteByIds, FindChargedSubscriptionIds
  <2>2. \A t \in transactions : <<t.charge,
     t.import>> \notin purges[k].deleted => t.plan \notin kept
    OBVIOUS
  <2> HIDE DEF kept
  <2>3. purges'[k].deleted = purges[k].deleted /\ purges'[k].plans = kept
    BY <2>1 DEF Purge
  <2> QED
    BY <2>1, <2>2, <2>3, PlansStayHeld
<1>12. ASSUME NEW k \in Connections, PurgeCommit(k)
       PROVE  PlansAreHeld'
  <2>1. \A i \in Imports : pipelines'[i] = NULL
    BY <1>12 DEF PurgeCommit, ApartFromPurges, SoftDeleteByIds
  <2>2. /\ purges[k] # NULL /\ purges[k].step = "commit"
        /\ transactions' = {t \in transactions : <<t.charge, t.import>> \notin purges[k].deleted}
        /\ purges' = [purges EXCEPT ![k] = NULL]
        /\ subscriptions' = [p \in Plans |-> IF p \in purges[k].plans THEN NULL
                                             ELSE subscriptions[p]]
    BY <1>12 DEF PurgeCommit, SoftDeleteByIds
  <2>3. ASSUME NEW t \in transactions', t.plan # NULL
        PROVE  subscriptions'[t.plan] # NULL
    <3>1. t \in transactions /\ t.plan \in Plans /\ t.plan \notin purges[k].plans
      BY <2>2, <2>3 DEF PlansAreHeld, Transaction
    <3> QED
      BY <2>2, <2>3, <3>1 DEF PlansAreHeld, BilledPlansAreKept
  <2>4. ASSUME NEW l \in Connections, purges'[l] # NULL, purges'[l].step = "commit",
               NEW t \in transactions', <<t.charge, t.import>> \notin purges'[l].deleted
        PROVE  t.plan \notin purges'[l].plans
    <3>1. purges'[l] = purges[l] /\ t \in transactions
      BY <2>2, <2>4
    <3> QED
      BY <2>4, <3>1 DEF PlansAreHeld
  <2> QED
    BY <2>1, <2>3, <2>4 DEF PlansAreHeld, BilledPlansAreKept
<1> QED
  BY <1>1, <1>2, <1>3, <1>4, <1>5, <1>6, <1>7, <1>8, <1>9, <1>10, <1>11, <1>12
     DEF Next, PipelineStep, PurgeStep

\* As long as no pipeline runs while a purge does, a subscription that is billed on
\* another account survives a disconnect (findOrphanedSubscriptionIds).
THEOREM BilledPlansSurvive == Spec /\ []ApartFromPurges => []BilledPlansAreKept
<1>1. Init => PlansAreHeld
  BY DEF Init, PlansAreHeld, BilledPlansAreKept
<1>2. IInv /\ PlansAreHeld /\ ApartFromPurges /\ [Next]_vars => PlansAreHeld'
  BY PlansAreHeldStep
<1>3. PlansAreHeld => BilledPlansAreKept
  BY DEF PlansAreHeld
<1> QED
  BY <1>1, <1>2, <1>3, Invariance, PTL DEF Spec

-----------------------------------------------------------------------------
\* One task at a time.
OneTask == OnePipeline /\ ApartFromPurges
           /\ \A k, l \in Connections : purges[k] # NULL /\ purges[l] # NULL => k = l

\* One task at a time is what the bound of one task in progress means.
LEMMA OneTaskStep ==
  ASSUME MaxBusy = 1, TypeOK, OneTask, [Next]_vars
  PROVE  OneTask'
<1> USE DEF TypeOK, OneTask, OnePipeline, ApartFromPurges
<1>1. ASSUME Busy < MaxBusy
      PROVE  (\A i \in Imports : pipelines[i] = NULL) /\ (\A k \in Connections : purges[k] = NULL)
  <2> DEFINE Running == {i \in Imports : pipelines[i] # NULL}
             Purging == {k \in Connections : purges[k] # NULL}
  <2>1. ASSUME NEW i \in Running PROVE FALSE
    <3>1. Running = {i} /\ Purging = {}
      BY <2>1
    <3>2. Cardinality(Running) = 1 /\ Cardinality(Purging) = 0
      BY <3>1, FS_Singleton, FS_EmptySet
    <3> QED
      BY <1>1, <3>2 DEF Busy
  <2>2. ASSUME NEW k \in Purging PROVE FALSE
    <3>1. Running = {} /\ Purging = {k}
      BY <2>1, <2>2
    <3>2. Cardinality(Running) = 0 /\ Cardinality(Purging) = 1
      BY <3>1, FS_Singleton, FS_EmptySet
    <3> QED
      BY <1>1, <3>2 DEF Busy
  <2> QED
    BY <2>1, <2>2
<1>2. ASSUME NEW k \in Connections, NEW i \in Imports,
             NEW rows \in SUBSET {c \in Charges : Source[c] = k}, StartBankImport(k, i, rows)
      PROVE  OneTask'
  BY <1>1, <1>2 DEF StartBankImport
<1>3. ASSUME NEW k \in Connections, Disconnect(k)
      PROVE  OneTask'
  BY <1>1, <1>3 DEF Disconnect, FindIdsByBankConnection
<1>4. CASE /\ \A k \in Connections, i \in Imports :
                \A rows \in SUBSET {c \in Charges : Source[c] = k} : ~StartBankImport(k, i, rows)
           /\ \A k \in Connections : ~Disconnect(k)
  <2>1. \A i \in Imports : pipelines'[i] # NULL => pipelines[i] # NULL
    BY <1>4, PreparedMoves DEF LoadDedupeState, At, FindExistingExternalIds, GetExistingDedupeKeys
  <2>2. \A k \in Connections : purges'[k] # NULL => purges[k] # NULL
    BY <1>4, PurgeMoves DEF PurgeCharges, FindOrphanedPlans, FindByImports,
       CollectSubscriptionIds, SoftDeleteByIds, FindChargedSubscriptionIds
  <2> QED
    BY <2>1, <2>2
<1> QED
  BY <1>2, <1>3, <1>4

\* With one task at a time the three hold whatever the other constants are: this is what
\* the serial run checks on its instance.
THEOREM SerialImports ==
  MaxBusy = 1 => (Spec => [](ChargeStoredOnce /\ NoChargeLeftBehind /\ BilledPlansAreKept))
<1> SUFFICES ASSUME MaxBusy = 1
             PROVE  Spec => [](ChargeStoredOnce /\ NoChargeLeftBehind /\ BilledPlansAreKept)
  OBVIOUS
<1>1. Init => OneTask
  BY DEF Init, OneTask, OnePipeline, ApartFromPurges
<1>2. IInv /\ OneTask /\ [Next]_vars => OneTask'
  BY OneTaskStep DEF IInv
<1>3. OneTask => OnePipeline /\ ApartFromPurges
  BY DEF OneTask
<1> QED
  BY <1>1, <1>2, <1>3, Invariance, ChargesAreStoredOnce, NothingIsLeftBehind,
     BilledPlansSurvive, PTL DEF Spec

-----------------------------------------------------------------------------
(* How an import ends.                                                     *)

\* The vendors of all charges there are.
ChargedVendors == {VendorOf[c] : c \in Charges}

\* The statements a pipeline has ahead of it, two more for every vendor.
Ahead == [read |-> 7, plans |-> 6, insert |-> 5, detect |-> 4, confirm |-> 3, subscribe |-> 2,
          complete |-> 2, fail |-> 1]

\* The vendors a pipeline may still have to confirm.
VendorsLeft(p) ==
    IF p.step \in {"read", "plans", "insert", "detect"} THEN Cardinality(ChargedVendors)
    ELSE IF p.step \in {"confirm", "subscribe"} THEN Cardinality(p.vendors)
    ELSE 0

\* How far a pipeline is from its end.
StepsLeft(i) ==
    IF pipelines[i] = NULL THEN 0
    ELSE Ahead[pipelines[i].step] + 2 * VendorsLeft(pipelines[i])

\* Every step of a pipeline brings its end nearer, and nothing that others do takes it
\* further away (runBankImportPipeline).
PipelinesRunDown ==
    [][\A i \in Imports :
         /\ PipelineStep(i) => StepsLeft(i)' < StepsLeft(i)
         /\ imports[i] # NULL => StepsLeft(i)' <= StepsLeft(i)]_vars

\* An import that is still PROCESSING has a pipeline, unless its instance ended
\* (startBankImport, failImport).
NoImportIsForgotten ==
    \A i \in Imports :
        imports[i] # NULL /\ imports[i].status = "PROCESSING" =>
            pipelines[i] # NULL \/ i \in cutOff

\* A pipeline goes on to its enrichment only after its import ended.
CompletedHasEnded ==
    \A i \in Imports : At(i, "complete") => imports[i].status \in Terminal

\* A pipeline confirms vendors of charges, and subscribes to one of those it has left.
VendorsAreKnown ==
    \A i \in Imports : pipelines[i] # NULL =>
        /\ pipelines[i].vendors \subseteq ChargedVendors
        /\ pipelines[i].step = "subscribe" => pipelines[i].vendor \in pipelines[i].vendors

\* There are finitely many vendors to confirm.
LEMMA FewVendors ==
  ASSUME NEW V \in SUBSET ChargedVendors
  PROVE  /\ IsFiniteSet(V) /\ Cardinality(V) \in Nat /\ Cardinality(ChargedVendors) \in Nat
         /\ Cardinality(V) <= Cardinality(ChargedVendors)
<1> DEFINE f == [c \in Charges |-> VendorOf[c]]
<1>1. f \in Surjection(Charges, ChargedVendors)
  BY DEF Surjection, ChargedVendors
<1>2. IsFiniteSet(ChargedVendors)
  BY <1>1, DataAssumption, FS_Surjection
<1> QED
  BY <1>2, FS_Subset, FS_CardinalityType

\* The ways a pipeline goes on.
GoesOn(p, q) ==
    \/ p.step = "read" /\ q.step = "plans" /\ q.vendors = p.vendors
    \/ p.step = "plans" /\ q.step = "insert" /\ q.vendors = p.vendors
    \/ p.step = "insert" /\ q.step = "detect" /\ q.vendors = p.vendors
    \/ p.step = "detect" /\ q.step = "confirm" /\ q.vendors \subseteq ChargedVendors
    \/ p.step = "confirm" /\ q.step = "subscribe" /\ q.vendors = p.vendors
       /\ q.vendor \in q.vendors
    \/ p.step = "subscribe" /\ q.step = "confirm" /\ q.vendors = p.vendors \ {p.vendor}
    \/ p.step = "confirm" /\ q.step = "complete" /\ q.vendors = p.vendors /\ p.vendors = {}
    \/ p.step \notin {"subscribe", "fail"} /\ q.step = "fail" /\ q.vendors = p.vendors

\* A step of a pipeline takes it on or ends it, and leaves the other pipelines alone.
LEMMA OwnMoves ==
  ASSUME TypeOK, NEW i \in Imports, PipelineStep(i)
  PROVE  /\ pipelines[i] # NULL /\ pipelines[i] \in Pipeline
         /\ \A j \in Imports \ {i} : pipelines'[j] = pipelines[j]
         /\ cutOff' = cutOff
         /\ \/ Finish(i) \/ FailImport(i)
            \/ /\ pipelines'[i] # NULL /\ GoesOn(pipelines[i], pipelines'[i])
               /\ \/ Complete(i)
                  \/ imports' = imports /\ pipelines'[i].step # "complete"
<1> DEFINE Moved == /\ pipelines[i] # NULL /\ pipelines[i] \in Pipeline
                    /\ \A j \in Imports \ {i} : pipelines'[j] = pipelines[j]
                    /\ cutOff' = cutOff
           p == pipelines[i]
           On(q) == /\ GoesOn(p, q) /\ q \in Pipeline
                    /\ pipelines' = [pipelines EXCEPT ![i] = q]
                    /\ imports' = imports /\ q.step # "complete"
<1> USE NullAssumption DEF TypeOK, At, Stop
<1>1. Moved
  BY DEF PipelineStep, LoadDedupeState, GetActiveByVendor, BulkCreateForImport,
     DetectRecurrence, FindActiveMatch, CreateSubscriptionFromRecurrence, Confirmed,
     SubscriptionFails, Complete, Finish, PipelineThrows, FailImport,
     FindExistingExternalIds, GetExistingDedupeKeys
<1>2. CASE LoadDedupeState(i)
  <2>1. PICK kept \in SUBSET p.rows :
          pipelines' = [pipelines EXCEPT ![i].step = "plans", ![i].prepared = kept]
    BY <1>2 DEF LoadDedupeState, Prepared, FindExistingExternalIds, GetExistingDedupeKeys
  <2>2. On([p EXCEPT !.step = "plans", !.prepared = kept])
    BY <1>1, <1>2, <2>1 DEF LoadDedupeState, GoesOn, Pipeline, FindExistingExternalIds,
       GetExistingDedupeKeys
  <2> QED
    BY <1>1, <2>2
<1>3. CASE GetActiveByVendor(i)
  <2>1. PICK seen \in [Vendors -> Plans \cup {NULL}] :
          pipelines' = [pipelines EXCEPT ![i].step = "insert", ![i].seen = seen]
    BY <1>3 DEF GetActiveByVendor
  <2>2. On([p EXCEPT !.step = "insert", !.seen = seen])
    BY <1>1, <1>3, <2>1 DEF GetActiveByVendor, GoesOn, Pipeline
  <2> QED
    BY <1>1, <2>2
<1>4. CASE BulkCreateForImport(i)
  <2>1. PICK s \in {"fail", "detect"} : pipelines' = [pipelines EXCEPT ![i].step = s]
    BY <1>4 DEF BulkCreateForImport, FindExistingExternalIds
  <2>2. On([p EXCEPT !.step = s])
    BY <1>1, <1>4, <2>1 DEF BulkCreateForImport, GoesOn, Pipeline, FindExistingExternalIds
  <2> QED
    BY <1>1, <2>2
<1>5. CASE DetectRecurrence(i)
  <2> DEFINE candidates == {v \in {VendorOf[c] : c \in p.prepared} : p.seen[v] = NULL}
             found == {v \in candidates :
                         Cardinality({t \in transactions : VendorOf[t.charge] = v})
                           >= MinCharges}
  <2>1. found \in SUBSET Vendors /\ found \subseteq ChargedVendors
    BY <1>1, DataAssumption DEF Pipeline, ChargedVendors
  <2>2. pipelines' = [pipelines EXCEPT ![i].step = "confirm", ![i].vendors = found]
    BY <1>5 DEF DetectRecurrence
  <2>3. p.step = "detect" /\ imports' = imports
    BY <1>5 DEF DetectRecurrence
  <2> HIDE DEF found
  <2>4. On([p EXCEPT !.step = "confirm", !.vendors = found])
    BY <1>1, <2>1, <2>2, <2>3 DEF GoesOn, Pipeline
  <2> QED
    BY <1>1, <2>4
<1>6. ASSUME NEW v \in Vendors, FindActiveMatch(i, v)
      PROVE  \E q : On(q)
  <2>1. PICK match \in Plans \cup {NULL} :
          pipelines' = [pipelines EXCEPT ![i].step = "subscribe", ![i].vendor = v,
                                         ![i].match = match]
    BY <1>6 DEF FindActiveMatch, ActivePlans
  <2>2. On([p EXCEPT !.step = "subscribe", !.vendor = v, !.match = match])
    BY <1>1, <1>6, <2>1 DEF FindActiveMatch, GoesOn, Pipeline
  <2> QED
    BY <2>2
<1>7. CASE SubscriptionFails(i) \/ \E plan \in Plans : CreateSubscriptionFromRecurrence(i, plan)
  <2>1. p.step = "subscribe" /\ Confirmed(i) /\ imports' = imports
    BY <1>7 DEF SubscriptionFails, CreateSubscriptionFromRecurrence
  <2>2. On([p EXCEPT !.step = "confirm", !.match = NULL, !.vendor = NULL,
                     !.vendors = p.vendors \ {p.vendor}])
    BY <1>1, <2>1 DEF Confirmed, GoesOn, Pipeline
  <2> QED
    BY <1>1, <2>2
<1>8. CASE Complete(i)
  <2>1. pipelines'[i] = [p EXCEPT !.step = "complete"]
    BY <1>1, <1>8 DEF Complete
  <2>2. pipelines'[i] \in Pipeline
    BY <1>1, <2>1 DEF Pipeline
  <2>3. GoesOn(p, pipelines'[i])
    BY <1>1, <1>8, <2>1 DEF Complete, GoesOn, Pipeline
  <2>4. pipelines'[i] # NULL
    BY <2>2
  <2> QED
    BY <1>1, <1>8, <2>3, <2>4
<1>9. CASE PipelineThrows(i)
  <2>1. On([p EXCEPT !.step = "fail"])
    BY <1>1, <1>9 DEF PipelineThrows, GoesOn, Pipeline
  <2> QED
    BY <1>1, <2>1
<1>10. ASSUME NEW q, On(q)
       PROVE  /\ pipelines'[i] # NULL /\ GoesOn(pipelines[i], pipelines'[i])
              /\ imports' = imports /\ pipelines'[i].step # "complete"
  BY <1>10
<1> QED
  BY <1>1, <1>2, <1>3, <1>4, <1>5, <1>6, <1>7, <1>8, <1>9, <1>10 DEF PipelineStep

\* What else happens to a pipeline: it is started, or cut off.
LEMMA OthersMoves ==
  ASSUME TypeOK, [Next]_vars, NEW i \in Imports, \A j \in Imports : ~PipelineStep(j)
  PROVE  \/ pipelines'[i] = pipelines[i] /\ cutOff \subseteq cutOff'
         \/ InstanceStops(i)
         \/ /\ imports[i] = NULL
            /\ \E k \in Connections : \E rows \in SUBSET {c \in Charges : Source[c] = k} :
                 StartBankImport(k, i, rows)
<1> USE DEF TypeOK, Stop
<1>1. ASSUME NEW k \in Connections, NEW j \in Imports,
             NEW rows \in SUBSET {c \in Charges : Source[c] = k}, StartBankImport(k, j, rows)
      PROVE  \/ pipelines'[i] = pipelines[i] /\ cutOff' = cutOff
             \/ StartBankImport(k, i, rows) /\ imports[i] = NULL
  <2>1. CASE i = j
    BY <1>1, <2>1 DEF StartBankImport
  <2>2. CASE i # j
    BY <1>1, <2>2 DEF StartBankImport
  <2> QED
    BY <2>1, <2>2
<1>2. ASSUME NEW j \in Imports, InstanceStops(j)
      PROVE  \/ pipelines'[i] = pipelines[i] /\ cutOff \subseteq cutOff'
             \/ InstanceStops(i)
  <2>1. CASE i = j
    BY <1>2, <2>1
  <2>2. CASE i # j
    BY <1>2, <2>2 DEF InstanceStops
  <2> QED
    BY <2>1, <2>2
<1>3. ASSUME \/ \E t \in transactions : DeleteTransaction(t)
             \/ \E k \in Connections : Connect(k) \/ Disconnect(k) \/ PurgeStep(k)
             \/ \E j \in Imports : Undo(j)
             \/ UNCHANGED vars
      PROVE  pipelines' = pipelines /\ cutOff' = cutOff
  BY <1>3 DEF DeleteTransaction, Connect, Disconnect, PurgeStep, PurgeCharges,
     FindOrphanedPlans, PurgeCommit, PurgeRollback, Undo, vars, FindIdsByBankConnection,
     FindByImports, CollectSubscriptionIds, SoftDeleteByIds, FindChargedSubscriptionIds
<1> QED
  BY <1>1, <1>2, <1>3 DEF Next

\* The vendors of a pipeline come from the charges it was given.
LEMMA VendorsStep ==
  ASSUME TypeOK, VendorsAreKnown, [Next]_vars
  PROVE  VendorsAreKnown'
<1> SUFFICES ASSUME NEW i \in Imports, pipelines'[i] # NULL
             PROVE  /\ pipelines'[i].vendors \subseteq ChargedVendors
                    /\ pipelines'[i].step = "subscribe" =>
                         pipelines'[i].vendor \in pipelines'[i].vendors
  BY DEF VendorsAreKnown
<1>1. ASSUME NEW k \in Connections, NEW rows \in SUBSET {c \in Charges : Source[c] = k},
             StartBankImport(k, i, rows)
      PROVE  pipelines'[i].vendors = {} /\ pipelines'[i].step = "read"
  BY <1>1 DEF StartBankImport, TypeOK
<1>2. CASE pipelines'[i] = pipelines[i]
  BY <1>2 DEF VendorsAreKnown
<1>3. CASE PipelineStep(i)
  <2>1. pipelines[i] # NULL /\ GoesOn(pipelines[i], pipelines'[i])
    BY <1>3, OwnMoves DEF Finish, FailImport, Stop, TypeOK
  <2>2. pipelines[i].vendors \subseteq ChargedVendors
    BY <2>1 DEF VendorsAreKnown
  <2> QED
    BY <2>1, <2>2 DEF GoesOn
<1>4. CASE InstanceStops(i)
  BY <1>4 DEF InstanceStops, Stop, TypeOK
<1>5. ASSUME NEW j \in Imports, j # i, PipelineStep(j)
      PROVE  pipelines'[i] = pipelines[i]
  BY <1>5, OwnMoves
<1> QED
  BY <1>1, <1>2, <1>3, <1>4, <1>5, OthersMoves

\* A pipeline that goes on has fewer statements ahead of it.
LEMMA NearerToItsEnd ==
  ASSUME NEW p \in Pipeline, NEW q, GoesOn(p, q), p.vendors \subseteq ChargedVendors,
         p.step = "subscribe" => p.vendor \in p.vendors
  PROVE  Ahead[q.step] + 2 * VendorsLeft(q) < Ahead[p.step] + 2 * VendorsLeft(p)
<1>1. /\ IsFiniteSet(p.vendors) /\ Cardinality(p.vendors) \in Nat
      /\ Cardinality(ChargedVendors) \in Nat
  BY FewVendors
<1>2. CASE p.step = "detect" /\ q.step = "confirm" /\ q.vendors \subseteq ChargedVendors
  <2>1. Cardinality(q.vendors) \in Nat /\ Cardinality(q.vendors) <= Cardinality(ChargedVendors)
    BY <1>2, FewVendors
  <2> QED
    BY <1>1, <1>2, <2>1 DEF Ahead, VendorsLeft
<1>3. CASE p.step = "subscribe" /\ q.step = "confirm" /\ q.vendors = p.vendors \ {p.vendor}
  <2> DEFINE V == p.vendors
             v == p.vendor
  <2>1. v \in V /\ IsFiniteSet(V)
    BY <1>1, <1>3
  <2> HIDE DEF V, v
  <2>2. Cardinality(V \ {v}) = Cardinality(V) - 1
    BY <2>1, FS_RemoveElement
  <2>3. Cardinality(q.vendors) = Cardinality(p.vendors) - 1
    BY <1>3, <2>2 DEF V, v
  <2> QED
    BY <1>1, <1>3, <2>3 DEF Ahead, VendorsLeft
<1>4. CASE p.step = "confirm" /\ q.step = "complete" /\ p.vendors = {}
  BY <1>1, <1>4 DEF Ahead, VendorsLeft
<1>5. CASE p.step \notin {"subscribe", "fail"} /\ q.step = "fail"
  <2>1. Ahead[p.step] \in Nat /\ Ahead[p.step] > 1
    BY <1>5 DEF Ahead, Pipeline
  <2>2. VendorsLeft(p) \in Nat
    BY <1>1 DEF VendorsLeft
  <2>3. VendorsLeft(q) = 0 /\ Ahead[q.step] = 1
    BY <1>5 DEF VendorsLeft, Ahead
  <2> QED
    BY <2>1, <2>2, <2>3
<1>6. CASE p.step = "confirm" /\ q.step = "subscribe" /\ q.vendors = p.vendors
  BY <1>1, <1>6 DEF Ahead, VendorsLeft
<1>7. CASE \/ p.step = "read" /\ q.step = "plans"
           \/ p.step = "plans" /\ q.step = "insert"
           \/ p.step = "insert" /\ q.step = "detect"
  BY <1>1, <1>7 DEF Ahead, VendorsLeft
<1>8. \/ p.step = "detect" /\ q.step = "confirm" /\ q.vendors \subseteq ChargedVendors
      \/ p.step = "subscribe" /\ q.step = "confirm" /\ q.vendors = p.vendors \ {p.vendor}
      \/ p.step = "confirm" /\ q.step = "complete" /\ p.vendors = {}
      \/ p.step \notin {"subscribe", "fail"} /\ q.step = "fail"
      \/ p.step = "confirm" /\ q.step = "subscribe" /\ q.vendors = p.vendors
      \/ p.step = "read" /\ q.step = "plans"
      \/ p.step = "plans" /\ q.step = "insert"
      \/ p.step = "insert" /\ q.step = "detect"
  BY DEF GoesOn
<1> QED
  BY <1>2, <1>3, <1>4, <1>5, <1>6, <1>7, <1>8

\* The distance of a running pipeline is a positive number.
LEMMA DistanceIsPositive ==
  ASSUME TypeOK, VendorsAreKnown, NEW i \in Imports, pipelines[i] # NULL
  PROVE  StepsLeft(i) \in Nat /\ StepsLeft(i) > 0
<1>1. pipelines[i] \in Pipeline /\ pipelines[i].vendors \subseteq ChargedVendors
  BY DEF TypeOK, VendorsAreKnown
<1>2. VendorsLeft(pipelines[i]) \in Nat
  BY <1>1, FewVendors DEF VendorsLeft
<1>3. Ahead[pipelines[i].step] \in Nat /\ Ahead[pipelines[i].step] > 0
  BY <1>1 DEF Pipeline, Ahead
<1>4. StepsLeft(i) = Ahead[pipelines[i].step] + 2 * VendorsLeft(pipelines[i])
  BY DEF StepsLeft
<1> QED
  BY <1>2, <1>3, <1>4

\* Every pipeline takes finitely many steps, however many vendors it confirms and whatever
\* overlaps it: there is no cycle in which an import could stay PROCESSING.
THEOREM PipelinesEnd == Spec => PipelinesRunDown
<1> DEFINE Nearer == \A i \in Imports :
                        /\ PipelineStep(i) => StepsLeft(i)' < StepsLeft(i)
                        /\ imports[i] # NULL => StepsLeft(i)' <= StepsLeft(i)
<1>1. Init => VendorsAreKnown
  BY DEF Init, VendorsAreKnown
<1>2. IInv /\ VendorsAreKnown /\ [Next]_vars => VendorsAreKnown'
  BY VendorsStep DEF IInv
<1>3. ASSUME IInv, VendorsAreKnown, [Next]_vars
      PROVE  Nearer
  <2> SUFFICES ASSUME NEW i \in Imports
               PROVE  /\ PipelineStep(i) => StepsLeft(i)' < StepsLeft(i)
                      /\ imports[i] # NULL => StepsLeft(i)' <= StepsLeft(i)
    OBVIOUS
  <2> USE DEF IInv
  <2>1. /\ pipelines[i] = NULL => StepsLeft(i) = 0
        /\ pipelines[i] # NULL => StepsLeft(i) \in Nat /\ StepsLeft(i) > 0
        /\ pipelines'[i] = NULL => StepsLeft(i)' = 0
        /\ pipelines'[i] = pipelines[i] => StepsLeft(i)' = StepsLeft(i)
    BY <1>3, DistanceIsPositive DEF StepsLeft
  <2>2. ASSUME PipelineStep(i)
        PROVE  StepsLeft(i)' < StepsLeft(i) /\ pipelines[i] # NULL
               /\ StepsLeft(i)' <= StepsLeft(i)
    <3>1. pipelines[i] # NULL /\ pipelines[i] \in Pipeline
      BY <1>3, <2>2, OwnMoves
    <3>2. CASE pipelines'[i] = NULL
      BY <2>1, <3>1, <3>2
    <3>3. CASE pipelines'[i] # NULL /\ GoesOn(pipelines[i], pipelines'[i])
      <4>1. StepsLeft(i)' < StepsLeft(i)
        BY <1>3, <3>1, <3>3, NearerToItsEnd DEF StepsLeft, VendorsAreKnown
      <4>2. StepsLeft(i)' \in Nat
        <5>1. TypeOK' /\ VendorsAreKnown'
          BY <1>3, VendorsStep, NextIInv
        <5>2. pipelines'[i] \in Pipeline /\ pipelines'[i].vendors \subseteq ChargedVendors
          BY <3>3, <5>1 DEF TypeOK, VendorsAreKnown
        <5>3. VendorsLeft(pipelines'[i]) \in Nat
          BY <5>2, FewVendors DEF VendorsLeft
        <5>4. Ahead[pipelines'[i].step] \in Nat
          BY <5>2 DEF Pipeline, Ahead
        <5>5. StepsLeft(i)' = Ahead[pipelines'[i].step] + 2 * VendorsLeft(pipelines'[i])
          BY <3>3 DEF StepsLeft
        <5> QED
          BY <5>3, <5>4, <5>5
      <4> QED
        BY <2>1, <3>1, <4>1, <4>2
    <3>4. Finish(i) \/ FailImport(i) => pipelines'[i] = NULL
      BY <1>3 DEF Finish, FailImport, Stop, TypeOK
    <3> QED
      BY <1>3, <2>2, <3>2, <3>3, <3>4, OwnMoves
  <2>3. ASSUME imports[i] # NULL, pipelines'[i] = pipelines[i] \/ InstanceStops(i)
        PROVE  StepsLeft(i)' <= StepsLeft(i)
    <3>1. CASE pipelines'[i] = pipelines[i]
      <4>1. StepsLeft(i) \in Nat
        BY <2>1
      <4> QED
        BY <2>1, <3>1, <4>1
    <3>2. CASE InstanceStops(i)
      <4>1. pipelines'[i] = NULL /\ pipelines[i] # NULL
        BY <1>3, <3>2 DEF InstanceStops, Stop, TypeOK
      <4> QED
        BY <2>1, <4>1
    <3> QED
      BY <2>3, <3>1, <3>2
  <2>4. ASSUME imports[i] # NULL, ~PipelineStep(i)
        PROVE  pipelines'[i] = pipelines[i] \/ InstanceStops(i)
    <3>1. ASSUME NEW j \in Imports, PipelineStep(j)
          PROVE  pipelines'[i] = pipelines[i]
      BY <1>3, <2>4, <3>1, OwnMoves
    <3> QED
      BY <1>3, <2>4, <3>1, OthersMoves
  <2> QED
    BY <2>2, <2>3, <2>4
<1>4. IInv /\ VendorsAreKnown /\ [Next]_vars => [Nearer]_vars
  BY <1>3
<1> QED
  BY <1>1, <1>2, <1>4, Invariance, PTL DEF Spec, PipelinesRunDown

\* Who is PROCESSING keeps a pipeline, and a pipeline that goes on to its enrichment has
\* ended its import.
LEMMA NotForgottenStep ==
  ASSUME TypeOK, PipelinesAreOpen, TypeOK', CompletedHasEnded, NoImportIsForgotten, [Next]_vars
  PROVE  CompletedHasEnded' /\ NoImportIsForgotten'
<1> USE NullAssumption DEF At
<1>1. ASSUME NEW i \in Imports, imports[i] # NULL, imports[i].status \in Terminal
      PROVE  imports'[i] # NULL /\ imports'[i].status = imports[i].status
  BY <1>1, StatusStays
<1>2. ASSUME NEW i \in Imports, imports'[i] # NULL, imports'[i].status = "PROCESSING",
             imports[i] # NULL
      PROVE  imports[i].status = "PROCESSING"
  <2>1. imports[i] \in Import
    BY <1>2 DEF TypeOK
  <2> QED
    BY <1>1, <1>2, <2>1 DEF Import, Terminal
<1>3. ASSUME NEW i \in Imports,
             pipelines'[i] = pipelines[i] /\ cutOff \subseteq cutOff'
               /\ (imports[i] = NULL => imports'[i] = NULL)
      PROVE  /\ pipelines'[i] # NULL /\ pipelines'[i].step = "complete" =>
                  imports'[i].status \in Terminal
             /\ imports'[i] # NULL /\ imports'[i].status = "PROCESSING" =>
                  pipelines'[i] # NULL \/ i \in cutOff'
  <2>1. pipelines[i] # NULL => imports[i] # NULL
    BY DEF PipelinesAreOpen
  <2> QED
    BY <1>1, <1>2, <1>3, <2>1 DEF CompletedHasEnded, NoImportIsForgotten
<1>4. ASSUME NEW i \in Imports, PipelineStep(i)
      PROVE  /\ pipelines'[i] # NULL /\ pipelines'[i].step = "complete" =>
                  imports'[i].status \in Terminal
             /\ imports'[i] # NULL /\ imports'[i].status = "PROCESSING" =>
                  pipelines'[i] # NULL \/ i \in cutOff'
  <2>1. CASE Finish(i)
    <3>1. imports[i].status \in Terminal /\ imports' = imports /\ pipelines'[i] = NULL
      BY <2>1 DEF Finish, Stop, CompletedHasEnded, TypeOK
    <3> QED
      BY <3>1 DEF Terminal
  <2>2. CASE FailImport(i)
    <3>1. pipelines'[i] = NULL /\ imports[i] # NULL /\ imports[i] \in Import
      BY <2>2 DEF FailImport, Stop, TypeOK, PipelinesAreOpen
    <3>2. imports'[i].status \in Terminal
      BY <2>2, <3>1 DEF FailImport, TypeOK, Import, Terminal
    <3> QED
      BY <3>1, <3>2 DEF Terminal
  <2>3. CASE Complete(i)
    <3>1. pipelines'[i] \in Pipeline \/ pipelines'[i] = NULL
      BY DEF TypeOK
    <3>2. imports[i] # NULL /\ imports[i] \in Import
      BY <2>3 DEF Complete, TypeOK, PipelinesAreOpen
    <3>3. imports'[i].status \in Terminal
      BY <2>3, <3>2 DEF Complete, TypeOK, Import, Terminal
    <3> QED
      BY <3>3 DEF Terminal
  <2>4. CASE pipelines'[i] # NULL /\ pipelines'[i].step # "complete"
    BY <2>4
  <2> QED
    BY <1>4, <2>1, <2>2, <2>3, <2>4, OwnMoves
<1>5. ASSUME NEW i \in Imports, InstanceStops(i)
      PROVE  pipelines'[i] = NULL /\ i \in cutOff'
  BY <1>5 DEF InstanceStops, Stop, TypeOK
<1>6. ASSUME NEW k \in Connections, NEW i \in Imports,
             NEW rows \in SUBSET {c \in Charges : Source[c] = k}, StartBankImport(k, i, rows)
      PROVE  pipelines'[i].step = "read"
             /\ pipelines'[i] # NULL
  <2>1. [step |-> "read", rows |-> rows, prepared |-> {}, seen |-> [v \in Vendors |-> NULL],
         vendors |-> {}, vendor |-> NULL, match |-> NULL] \in Pipeline
    BY DEF Pipeline
  <2> QED
    BY <1>6, <2>1 DEF StartBankImport, TypeOK
<1>7. ASSUME NEW i \in Imports, imports[i] = NULL, ~PipelineStep(i),
             \A k \in Connections : \A rows \in SUBSET {c \in Charges : Source[c] = k} :
                ~StartBankImport(k, i, rows)
      PROVE  imports'[i] = NULL
  <2>1. ASSUME NEW k \in Connections, NEW j \in Imports,
               NEW rows \in SUBSET {c \in Charges : Source[c] = k}, StartBankImport(k, j, rows)
        PROVE  imports'[i] = NULL
    <3>1. i # j
      BY <1>7, <2>1
    <3> QED
      BY <1>7, <2>1, <3>1 DEF StartBankImport, TypeOK
  <2>2. ASSUME NEW j \in Imports, Complete(j) \/ Undo(j) \/ FailImport(j)
        PROVE  imports'[i] = NULL
    <3>1. i # j \/ imports[j] # NULL
      BY <1>7, <2>2 DEF Undo, PipelineStep
    <3> QED
      BY <1>7, <2>2, <3>1 DEF Complete, Undo, FailImport, PipelinesAreOpen, TypeOK, PipelineStep
  <2>3. ASSUME NEW k \in Connections, PurgeCommit(k)
        PROVE  imports'[i] = NULL
    BY <1>7, <2>3 DEF PurgeCommit, SoftDeleteByIds
  <2> QED
    BY <1>7, <2>1, <2>2, <2>3, ImportsChange
<1>8. ASSUME NEW i \in Imports, NEW j \in Imports, j # i, PipelineStep(j)
      PROVE  /\ pipelines'[i] = pipelines[i] /\ cutOff \subseteq cutOff'
             /\ imports[i] = NULL => imports'[i] = NULL
  <2>1. pipelines'[i] = pipelines[i] /\ cutOff' = cutOff
    BY <1>8, OwnMoves
  <2>2. imports'[i] = imports[i]
    BY <1>8 DEF PipelineStep, LoadDedupeState, GetActiveByVendor, BulkCreateForImport,
       DetectRecurrence, FindActiveMatch, CreateSubscriptionFromRecurrence,
       SubscriptionFails, Complete, Finish, PipelineThrows, FailImport, TypeOK,
       FindExistingExternalIds, GetExistingDedupeKeys
  <2> QED
    BY <2>1, <2>2
<1>9. ASSUME NEW i \in Imports
      PROVE  /\ pipelines'[i] # NULL /\ pipelines'[i].step = "complete" =>
                  imports'[i].status \in Terminal
             /\ imports'[i] # NULL /\ imports'[i].status = "PROCESSING" =>
                  pipelines'[i] # NULL \/ i \in cutOff'
  <2>1. CASE PipelineStep(i)
    BY <1>4, <2>1
  <2>2. CASE InstanceStops(i)
    BY <1>5, <2>2
  <2>3. CASE \E k \in Connections : \E rows \in SUBSET {c \in Charges : Source[c] = k} :
               StartBankImport(k, i, rows)
    BY <1>6, <2>3
  <2>4. CASE \E j \in Imports \ {i} : PipelineStep(j)
    BY <1>3, <1>8, <2>4
  <2>5. CASE /\ pipelines'[i] = pipelines[i] /\ cutOff \subseteq cutOff' /\ ~PipelineStep(i)
             /\ ~ \E k \in Connections : \E rows \in SUBSET {c \in Charges : Source[c] = k} :
                    StartBankImport(k, i, rows)
    BY <1>3, <1>7, <2>5
  <2>6. \/ \E j \in Imports : PipelineStep(j)
        \/ pipelines'[i] = pipelines[i] /\ cutOff \subseteq cutOff'
        \/ InstanceStops(i)
        \/ \E k \in Connections : \E rows \in SUBSET {c \in Charges : Source[c] = k} :
             StartBankImport(k, i, rows)
    BY OthersMoves
  <2> QED
    BY <2>1, <2>2, <2>3, <2>4, <2>5, <2>6
<1> QED
  BY <1>9 DEF CompletedHasEnded, NoImportIsForgotten

\* An import that is not COMPLETED or FAILED yet has a pipeline that will end it, as long as
\* the instance that ran it goes on: with PipelinesEnd, this is why imports end.
THEOREM ImportsAreNotForgotten == Spec => []NoImportIsForgotten
<1>1. Init => CompletedHasEnded /\ NoImportIsForgotten
  BY DEF Init, CompletedHasEnded, NoImportIsForgotten, At
<1>2. IInv /\ IInv' /\ CompletedHasEnded /\ NoImportIsForgotten /\ [Next]_vars
        => CompletedHasEnded' /\ NoImportIsForgotten'
  BY NotForgottenStep DEF IInv
<1> QED
  BY <1>1, <1>2, Invariance, PTL DEF Spec
====
