--------------------------- MODULE StatementImport ---------------------------
(***************************************************************************)
(* Bank imports of one user, their background pipelines, and the purge     *)
(* that disconnecting a bank runs: src/modules/statement-import, with what *)
(* it calls in src/modules/transaction and src/modules/subscription, and   *)
(* BankConnectionService.disconnect.                                       *)
(*                                                                         *)
(* A pipeline runs after the request that started it was answered, so it   *)
(* overlaps other pipelines, an undo and a disconnect.  Every SQL          *)
(* statement, and every commit of several, is a step.  The purge works     *)
(* inside a database transaction: it sees its own deletions at once and    *)
(* the others see them at the commit.                                      *)
(*                                                                         *)
(* A charge is something the bank posted; its external id, its             *)
(* (date, amount) key and its vendor are given.  All charges of a vendor   *)
(* are at the price of its plan.  Left out: the texts of row errors, the   *)
(* classifier and the cadence rules behind a recurrence, the promotion of  *)
(* vendors, the insights (deleted with the purge), the enrichment that     *)
(* follows a finished import, and what the user edits by hand other than   *)
(* by deleting a transaction.                                              *)
(***************************************************************************)
EXTENDS FiniteSets, Integers

CONSTANTS
    Connections,    \* bank_connections rows the user starts with
    Imports,        \* uuids of statement_imports rows
    Charges,        \* what the banks posted
    Plans,          \* uuids of subscriptions rows
    Vendors,
    Source,         \* the connection whose account a charge was posted on
    ExternalId,     \* the identifier the bank gave it, or NULL
    DedupeKey,      \* its (date, amount)
    VendorOf,
    MinCharges,     \* charges that make a vendor recurring
    MaxBusy,        \* bound: pipelines and purges in progress at once
    MaxStops,       \* bound: pipelines cut off by the end of their instance
    NULL

ASSUME DataAssumption ==
    /\ Source \in [Charges -> Connections]
    /\ VendorOf \in [Charges -> Vendors]
    /\ DOMAIN ExternalId = Charges /\ DOMAIN DedupeKey = Charges
    /\ IsFiniteSet(Charges)
    /\ MinCharges \in Nat /\ MaxBusy \in Nat /\ MaxStops \in Nat

VARIABLES
    connected,      \* the rows of bank_connections
    imports,        \* the rows of statement_imports, or NULL
    transactions,   \* the transactions that are not deleted
    subscriptions,  \* the vendor of each active subscription, or NULL
    pipelines,      \* what each running pipeline holds, or NULL
    purges,         \* what each running purge holds, or NULL
    cutOff          \* imports whose pipeline was cut off

vars == <<connected, imports, transactions, subscriptions, pipelines, purges, cutOff>>

-----------------------------------------------------------------------------
Terminal == {"COMPLETED", "FAILED"}

Import == [connection : Connections \cup {NULL},
           status : Terminal \cup {"PROCESSING"},
           count : 0 .. Cardinality(Charges)]

Transaction == [charge : Charges, import : Imports, plan : Plans \cup {NULL}]

\* The next step of a pipeline, the rows it was given, those it will insert or
\* has inserted, the plan it saw for each vendor, the vendors it still has to
\* confirm, and the subscription that findActiveMatch returned.
Pipeline == [step : {"read", "plans", "insert", "detect", "confirm", "subscribe",
                     "complete", "fail"},
             rows : SUBSET Charges,
             prepared : SUBSET Charges,
             seen : [Vendors -> Plans \cup {NULL}],
             vendors : SUBSET Vendors,
             vendor : Vendors \cup {NULL},
             match : Plans \cup {NULL}]

Purge == [step : {"charges", "charged", "commit"},
          imports : SUBSET Imports,
          deleted : SUBSET (Charges \X Imports),
          plans : SUBSET Plans]

ASSUME NullAssumption ==
    /\ NULL \notin Import /\ NULL \notin Pipeline /\ NULL \notin Purge
    /\ NULL \notin Connections /\ NULL \notin Vendors

\* formatRow drops the second of two such charges.
Clash(c, d) ==
    \/ ExternalId[c] # NULL /\ ExternalId[c] = ExternalId[d]
    \/ DedupeKey[c] = DedupeKey[d]

\* The results of walking through the new rows in some order.
Prepared(new) ==
    {kept \in SUBSET new :
        /\ \A c, d \in kept : c # d => ~Clash(c, d)
        /\ \A c \in new \ kept : \E d \in kept : Clash(c, d)}

Busy == Cardinality({i \in Imports : pipelines[i] # NULL})
        + Cardinality({k \in Connections : purges[k] # NULL})

At(i, step) == pipelines[i] # NULL /\ pipelines[i].step = step
Stop(i) == pipelines' = [pipelines EXCEPT ![i] = NULL]
ActivePlans(v) == {p \in Plans : subscriptions[p] = v}
TransactionsOf(i) == {t \in transactions : t.import = i}

\* The queries and the deletion by id, as the repositories have them.
FindExistingExternalIds == {ExternalId[t.charge] : t \in transactions} \ {NULL}
GetExistingDedupeKeys == {DedupeKey[t.charge] : t \in transactions}
FindIdsByBankConnection(k) == {i \in Imports : imports[i] # NULL /\ imports[i].connection = k}
FindByImports(ids) == {t \in transactions : t.import \in ids}
CollectSubscriptionIds(charges) == {t.plan : t \in charges} \ {NULL}
SoftDeleteByIds(deleted) == {t \in transactions : <<t.charge, t.import>> \notin deleted}
FindChargedSubscriptionIds(left) == {t.plan : t \in left}

-----------------------------------------------------------------------------
(* The pipeline.                                                           *)

StartBankImport(k, i, rows) ==
    /\ k \in connected
    /\ imports[i] = NULL
    /\ Busy < MaxBusy
    /\ imports' = [imports EXCEPT ![i] =
                     [connection |-> k, status |-> "PROCESSING", count |-> 0]]
    /\ pipelines' = [pipelines EXCEPT ![i] =
                     [step |-> "read", rows |-> rows, prepared |-> {},
                      seen |-> [v \in Vendors |-> NULL], vendors |-> {},
                      vendor |-> NULL, match |-> NULL]]
    /\ UNCHANGED <<connected, transactions, subscriptions, purges, cutOff>>

\* Mutant: only the external ids are compared with what is stored.
LoadDedupeStateByIdOnly(i) ==
    LET new == {c \in pipelines[i].rows : ExternalId[c] \notin FindExistingExternalIds}
    IN  /\ At(i, "read")
        /\ \E kept \in Prepared(new) :
              pipelines' = [pipelines EXCEPT ![i].step = "plans",
                                             ![i].prepared = kept]
        /\ UNCHANGED <<connected, imports, transactions, subscriptions, purges, cutOff>>

\* loadDedupeState; which of two clashing rows comes first is left open.
LoadDedupeState(i) ==
    LET new == {c \in pipelines[i].rows : /\ ExternalId[c] \notin FindExistingExternalIds
                                          /\ DedupeKey[c] \notin GetExistingDedupeKeys}
    IN  /\ At(i, "read")
        /\ \E kept \in Prepared(new) :
              pipelines' = [pipelines EXCEPT ![i].step = "plans",
                                             ![i].prepared = kept]
        /\ UNCHANGED <<connected, imports, transactions, subscriptions, purges, cutOff>>

\* getActiveByVendor; which active plan of a vendor is the oldest is left open.
GetActiveByVendor(i) ==
    /\ At(i, "plans")
    /\ \E seen \in [Vendors -> Plans \cup {NULL}] :
         /\ \A v \in Vendors :
              IF v \in {VendorOf[c] : c \in pipelines[i].rows} /\ ActivePlans(v) # {}
                THEN seen[v] \in ActivePlans(v) ELSE seen[v] = NULL
         /\ pipelines' = [pipelines EXCEPT ![i].step = "insert", ![i].seen = seen]
    /\ UNCHANGED <<connected, imports, transactions, subscriptions, purges, cutOff>>

\* One INSERT for all rows, refused as a whole by the unique index on the
\* external id.
BulkCreateForImport(i) ==
    LET p == pipelines[i] IN
    /\ At(i, "insert")
    /\ IF \E c \in p.prepared : ExternalId[c] \in FindExistingExternalIds
         THEN /\ pipelines' = [pipelines EXCEPT ![i].step = "fail"]
              /\ UNCHANGED transactions
         ELSE /\ pipelines' = [pipelines EXCEPT ![i].step = "detect"]
              /\ transactions' = transactions \cup
                   {[charge |-> c, import |-> i, plan |-> p.seen[VendorOf[c]]] : c \in p.prepared}
    /\ UNCHANGED <<connected, imports, subscriptions, purges, cutOff>>

\* A vendor of an inserted charge that had no plan is confirmed by the charges
\* stored by now, from whatever import.
DetectRecurrence(i) ==
    LET p == pipelines[i]
        candidates == {v \in {VendorOf[c] : c \in p.prepared} : p.seen[v] = NULL}
        history(v) == Cardinality({t \in transactions : VendorOf[t.charge] = v})
    IN  /\ At(i, "detect")
        /\ pipelines' = [pipelines EXCEPT
                           ![i].step = "confirm",
                           ![i].vendors = {v \in candidates : history(v) >= MinCharges}]
        /\ UNCHANGED <<connected, imports, transactions, subscriptions, purges, cutOff>>

\* findActiveMatch, the first statement of findOrCreateForImport.
FindActiveMatch(i, v) ==
    /\ At(i, "confirm")
    /\ v \in pipelines[i].vendors
    /\ \E match \in IF ActivePlans(v) = {} THEN {NULL} ELSE ActivePlans(v) :
         pipelines' = [pipelines EXCEPT ![i].step = "subscribe", ![i].vendor = v,
                                        ![i].match = match]
    /\ UNCHANGED <<connected, imports, transactions, subscriptions, purges, cutOff>>

FreshPlan(p) ==
    /\ subscriptions[p] = NULL
    /\ \A t \in transactions : t.plan # p
    /\ \A i \in Imports : pipelines[i] # NULL =>
         pipelines[i].match # p /\ \A v \in Vendors : pipelines[i].seen[v] # p

Confirmed(i) ==
    pipelines' = [pipelines EXCEPT ![i].step = "confirm", ![i].match = NULL,
                                   ![i].vendor = NULL,
                                   ![i].vendors = @ \ {pipelines[i].vendor}]

\* The commit of createSubscriptionFromRecurrence: the plan, when none matched,
\* and its link to every charge of the vendor that has none.
CreateSubscriptionFromRecurrence(i, plan) ==
    LET p == pipelines[i]
        link(t) == IF t.plan = NULL /\ VendorOf[t.charge] = p.vendor
                     THEN [t EXCEPT !.plan = plan] ELSE t
    IN  /\ At(i, "subscribe")
        /\ IF p.match = NULL
             THEN /\ FreshPlan(plan)
                  /\ subscriptions' = [subscriptions EXCEPT ![plan] = p.vendor]
             ELSE plan = p.match /\ UNCHANGED subscriptions
        /\ transactions' = {link(t) : t \in transactions}
        /\ Confirmed(i)
        /\ UNCHANGED <<connected, imports, purges, cutOff>>

\* The transaction fails and the next candidate is tried.
SubscriptionFails(i) ==
    /\ At(i, "subscribe")
    /\ Confirmed(i)
    /\ UNCHANGED <<connected, imports, transactions, subscriptions, purges, cutOff>>

\* updateStatus refuses an import that already ended.  Only the pipeline of an
\* import writes its status, so its read and its write are one step.
Complete(i) ==
    LET p == pipelines[i] IN
    /\ At(i, "confirm") /\ p.vendors = {}
    /\ imports[i].status \notin Terminal
    /\ imports' = [imports EXCEPT
         ![i].status = IF p.rows # {} /\ p.prepared = {} THEN "FAILED" ELSE "COMPLETED",
         ![i].count = IF p.rows # {} /\ p.prepared = {} THEN @ ELSE Cardinality(p.prepared)]
    /\ pipelines' = [pipelines EXCEPT ![i].step = "complete"]
    /\ UNCHANGED <<connected, transactions, subscriptions, purges, cutOff>>

\* The row is read once more, and the pipeline goes on to its enrichment.
Finish(i) ==
    /\ At(i, "complete")
    /\ Stop(i)
    /\ UNCHANGED <<connected, imports, transactions, subscriptions, purges, cutOff>>

\* Mutant: nobody catches what the background pipeline throws.
PipelineThrowsUncaught(i) ==
    /\ pipelines[i] # NULL
    /\ pipelines[i].step \notin {"subscribe", "fail"}
    /\ Stop(i)
    /\ UNCHANGED <<connected, imports, transactions, subscriptions, purges, cutOff>>

\* A statement of the pipeline fails outside the places that catch it.
PipelineThrows(i) ==
    /\ pipelines[i] # NULL
    /\ pipelines[i].step \notin {"subscribe", "fail"}
    /\ pipelines' = [pipelines EXCEPT ![i].step = "fail"]
    /\ UNCHANGED <<connected, imports, transactions, subscriptions, purges, cutOff>>

\* Mutant: updateStatus does not ask whether the import already ended.
FailImportUnchecked(i) ==
    /\ At(i, "fail")
    /\ imports' = [imports EXCEPT ![i].status = "FAILED"]
    /\ Stop(i)
    /\ UNCHANGED <<connected, transactions, subscriptions, purges, cutOff>>

FailImport(i) ==
    /\ At(i, "fail")
    /\ imports' = IF imports[i].status \in Terminal THEN imports
                    ELSE [imports EXCEPT ![i].status = "FAILED"]
    /\ Stop(i)
    /\ UNCHANGED <<connected, transactions, subscriptions, purges, cutOff>>

\* The instance that ran the pipeline in the background ends, or the statement
\* of failImport fails, which is only logged.
InstanceStops(i) ==
    /\ pipelines[i] # NULL
    /\ Cardinality(cutOff) < MaxStops
    /\ cutOff' = cutOff \cup {i}
    /\ Stop(i)
    /\ UNCHANGED <<connected, imports, transactions, subscriptions, purges>>

-----------------------------------------------------------------------------
(* What the user does.                                                     *)

\* Mutant: the count is reset and the charges stay.
UndoCountOnly(i) ==
    /\ imports[i] # NULL
    /\ imports[i].status # "PROCESSING"
    /\ imports' = [imports EXCEPT ![i].count = 0]
    /\ UNCHANGED <<connected, transactions, subscriptions, pipelines, purges, cutOff>>

\* A terminal status is for ever, so the check and the commit are one step.
Undo(i) ==
    /\ imports[i] # NULL
    /\ imports[i].status # "PROCESSING"
    /\ transactions' = transactions \ TransactionsOf(i)
    /\ imports' = [imports EXCEPT ![i].count = 0]
    /\ UNCHANGED <<connected, subscriptions, pipelines, purges, cutOff>>

DeleteTransaction(t) ==
    /\ t \in transactions
    /\ transactions' = transactions \ {t}
    /\ UNCHANGED <<connected, imports, subscriptions, pipelines, purges, cutOff>>

\* The user connects the same account again.  The row has another uuid, but no
\* import and no process refers to the old one any more.
Connect(k) ==
    /\ k \notin connected
    /\ connected' = connected \cup {k}
    /\ UNCHANGED <<imports, transactions, subscriptions, pipelines, purges, cutOff>>

\* Mutant: only the imports that completed are purged.
DisconnectCompletedOnly(k) ==
    /\ k \in connected
    /\ purges[k] = NULL
    /\ Busy < MaxBusy
    /\ purges' = [purges EXCEPT ![k] =
         [step |-> "charges",
          imports |-> {i \in Imports : imports[i] # NULL /\ imports[i].connection = k
                                        /\ imports[i].status = "COMPLETED"},
          deleted |-> {}, plans |-> {}]]
    /\ UNCHANGED <<connected, imports, transactions, subscriptions, pipelines, cutOff>>

\* disconnect, up to findIdsByBankConnection.
Disconnect(k) ==
    /\ k \in connected
    /\ purges[k] = NULL
    /\ Busy < MaxBusy
    /\ purges' = [purges EXCEPT ![k] =
         [step |-> "charges",
          imports |-> FindIdsByBankConnection(k),
          deleted |-> {}, plans |-> {}]]
    /\ UNCHANGED <<connected, imports, transactions, subscriptions, pipelines, cutOff>>

\* Mutant: charges without a subscription are not left out.
PurgeChargesWithNull(k) ==
    LET found == FindByImports(purges[k].imports) IN
    /\ purges[k] # NULL /\ purges[k].step = "charges"
    /\ purges' = [purges EXCEPT ![k].step = "charged",
                                ![k].deleted = {<<t.charge, t.import>> : t \in found},
                                ![k].plans = {t.plan : t \in found}]
    /\ UNCHANGED <<connected, imports, transactions, subscriptions, pipelines, cutOff>>

\* findByImports, collectSubscriptionIds, and softDeleteByIds.
PurgeCharges(k) ==
    LET found == FindByImports(purges[k].imports) IN
    /\ purges[k] # NULL /\ purges[k].step = "charges"
    /\ purges' = [purges EXCEPT ![k].step = "charged",
                                ![k].deleted = {<<t.charge, t.import>> : t \in found},
                                ![k].plans = CollectSubscriptionIds(found)]
    /\ UNCHANGED <<connected, imports, transactions, subscriptions, pipelines, cutOff>>

\* Mutant: every subscription that was billed is removed.
FindOrphanedPlansAll(k) ==
    /\ purges[k] # NULL /\ purges[k].step = "charged"
    /\ purges' = [purges EXCEPT ![k].step = "commit"]
    /\ UNCHANGED <<connected, imports, transactions, subscriptions, pipelines, cutOff>>

\* findChargedSubscriptionIds, within the transaction, and findOrphanedSubscriptionIds.
FindOrphanedPlans(k) ==
    LET left == SoftDeleteByIds(purges[k].deleted) IN
    /\ purges[k] # NULL /\ purges[k].step = "charged"
    /\ purges' = [purges EXCEPT ![k].step = "commit",
                                ![k].plans = @ \ FindChargedSubscriptionIds(left)]
    /\ UNCHANGED <<connected, imports, transactions, subscriptions, pipelines, cutOff>>

\* The foreign key of statement_imports is ON DELETE SET NULL.
PurgeCommit(k) ==
    LET u == purges[k] IN
    /\ purges[k] # NULL /\ purges[k].step = "commit"
    /\ transactions' = SoftDeleteByIds(u.deleted)
    /\ subscriptions' = [p \in Plans |-> IF p \in u.plans THEN NULL ELSE subscriptions[p]]
    /\ connected' = connected \ {k}
    /\ imports' = [i \in Imports |->
         IF imports[i] # NULL /\ imports[i].connection = k
           THEN [imports[i] EXCEPT !.connection = NULL] ELSE imports[i]]
    /\ purges' = [purges EXCEPT ![k] = NULL]
    /\ UNCHANGED <<pipelines, cutOff>>

PurgeRollback(k) ==
    /\ purges[k] # NULL
    /\ purges' = [purges EXCEPT ![k] = NULL]
    /\ UNCHANGED <<connected, imports, transactions, subscriptions, pipelines, cutOff>>

-----------------------------------------------------------------------------
Init ==
    /\ connected = Connections
    /\ imports = [i \in Imports |-> NULL]
    /\ transactions = {}
    /\ subscriptions = [p \in Plans |-> NULL]
    /\ pipelines = [i \in Imports |-> NULL]
    /\ purges = [k \in Connections |-> NULL]
    /\ cutOff = {}

PipelineStep(i) ==
    \/ LoadDedupeState(i)
    \/ GetActiveByVendor(i)
    \/ BulkCreateForImport(i)
    \/ DetectRecurrence(i)
    \/ \E v \in Vendors : FindActiveMatch(i, v)
    \/ \E plan \in Plans : CreateSubscriptionFromRecurrence(i, plan)
    \/ SubscriptionFails(i)
    \/ Complete(i)
    \/ Finish(i)
    \/ PipelineThrows(i)
    \/ FailImport(i)

PurgeStep(k) ==
    \/ PurgeCharges(k)
    \/ FindOrphanedPlans(k)
    \/ PurgeCommit(k)
    \/ PurgeRollback(k)

Next ==
    \/ \E k \in Connections, i \in Imports :
         \E rows \in SUBSET {c \in Charges : Source[c] = k} : StartBankImport(k, i, rows)
    \/ \E i \in Imports : PipelineStep(i) \/ InstanceStops(i) \/ Undo(i)
    \/ \E t \in transactions : DeleteTransaction(t)
    \/ \E k \in Connections : Connect(k) \/ Disconnect(k) \/ PurgeStep(k)

Spec == Init /\ [][Next]_vars

\* A pipeline whose instance goes on takes its next step.
FairSpec == Spec /\ \A i \in Imports : WF_vars(PipelineStep(i))

-----------------------------------------------------------------------------
(* What imports and disconnecting must satisfy.                            *)

\* Every variable holds what its table or its process can hold.
TypeOK ==
    /\ connected \subseteq Connections
    /\ imports \in [Imports -> Import \cup {NULL}]
    /\ transactions \subseteq Transaction
    /\ subscriptions \in [Plans -> Vendors \cup {NULL}]
    /\ pipelines \in [Imports -> Pipeline \cup {NULL}]
    /\ purges \in [Connections -> Purge \cup {NULL}]
    /\ cutOff \subseteq Imports

\* An import that ended keeps its status and gains no charge, whatever its
\* pipeline and the handler of its crash still do (updateStatus, failImport).
EndedImportsAreFrozen ==
    [][\A i \in Imports :
         imports[i] # NULL /\ imports[i].status \in Terminal =>
           /\ imports'[i].status = imports[i].status
           /\ \A t \in transactions' : t.import = i =>
                \E u \in transactions : u.import = i /\ u.charge = t.charge]_vars

\* A completed import never shows fewer charges than it still has; so an import
\* that was undone, whose count is zero, stays empty (undo).
CompletedCountsCharges ==
    \A i \in Imports : imports[i] # NULL /\ imports[i].status = "COMPLETED" =>
        Cardinality(TransactionsOf(i)) <= imports[i].count

\* No charge is stored twice: two stored charges differ in their external ids
\* and in date or amount (formatRow).  Needs one pipeline at a time.
ChargeStoredOnce ==
    \A t, u \in transactions : t # u => ~Clash(t.charge, u.charge)

\* Disconnecting leaves no transaction of the account behind (disconnect).
NoChargeLeftBehind ==
    \A t \in transactions : Source[t.charge] \in connected

\* A subscription that is billed on another account is kept when one account is
\* disconnected (findOrphanedSubscriptionIds).
BilledPlansAreKept ==
    \A t \in transactions : t.plan # NULL => subscriptions[t.plan] # NULL

\* An import whose background work crashes does not stay in PROCESSING, unless
\* the crash took the handler of the crash with it (failImport).
ImportsEnd ==
    \A i \in Imports :
        imports[i] # NULL ~> \/ imports[i] # NULL /\ imports[i].status \in Terminal
                            \/ i \in cutOff
=============================================================================
