-------------------------- MODULE SubscriptionPlans --------------------------
(***************************************************************************)
(* The subscriptions of one user and the charges billed to them:           *)
(* src/modules/subscription and src/modules/transaction, and the part of   *)
(* the pipeline of StatementImportService that links and confirms.         *)
(*                                                                         *)
(* A handler is a chain of SQL statements with anything in between; while  *)
(* it is unfinished it is a record in `calls' that holds what it read.     *)
(* The transaction that confirms a recurrence reads the active match and   *)
(* then writes; what it writes is seen at once, when it commits.           *)
(*                                                                         *)
(* The rows of a statement are those that the dedupe check let through     *)
(* (StatementImport), their vendors are resolved (VendorCatalog), and the  *)
(* experience of a new subscription is granted with it (XpLedger).  Left   *)
(* out: the dates of the next charge and of a cancellation, its e-mail     *)
(* address, currencies, the categories and the months of a summary.        *)
(***************************************************************************)
EXTENDS Recurrence

CONSTANTS
    Vendors,
    Profiles,           \* how the classifier can have described the vendors
    Plans,              \* ids of subscriptions, in the order of their creation
    Charges,            \* ids of transactions
    Statements,         \* what an import can bring: sequences of rows
    Payments,           \* the charges that the user can enter
    NewPlans, Edits,    \* what the user can say of a subscription
    Calls,              \* handlers that can be part-way through at once
    MaxOperations,      \* bound: the handlers that are ever begun
    NULL,
    Gone                \* a row that is soft-deleted: no query returns it

Kinds == {"ONE_OFF", "SUBSCRIPTION", "ESSENTIAL_BILL"}
Statuses == {"ACTIVE", "CANCELLATION_REQUESTED", "CANCELLED"}

Profile == [kind : Kinds, excluded : BOOLEAN, cycle : BillingCycles \cup {NULL}]

\* A row of a statement; `standing' when its description has the bank's marker.
StatementRow == [vendor : Vendors, day : Nat, amount : Nat, standing : BOOLEAN]

\* What proves, or confirms, a subscription of a vendor.
ProvedPrice == [cycle : BillingCycles, amount : Nat]

\* `edited' when the user changed it: its charges may be at an earlier price.
Plan == [vendor : Vendors \cup {NULL}, amount : Nat, cycle : BillingCycles,
         status : Statuses, edited : BOOLEAN]

\* `chosen' when the user said which subscription it belongs to.
Charge == [vendor : Vendors, day : Nat, amount : Nat,
           plan : Plans \cup {NULL}, chosen : BOOLEAN]

ASSUME PlansAssumption ==
    /\ Plans \subseteq Nat /\ Charges \subseteq Nat /\ MaxOperations \in Nat
    /\ Profiles \subseteq [Vendors -> Profile]
    /\ Statements \subseteq Seq(StatementRow)
    /\ Payments \subseteq [vendor : Vendors, day : Nat, amount : Nat]
    /\ NewPlans \subseteq [vendor : Vendors \cup {NULL}, amount : Nat, cycle : BillingCycles]
    /\ \A edit \in Edits :
         /\ DOMAIN edit \subseteq {"vendor", "amount", "cycle"}
         /\ "vendor" \in DOMAIN edit => edit.vendor \in Vendors
         /\ "amount" \in DOMAIN edit => edit.amount \in Nat
         /\ "cycle" \in DOMAIN edit => edit.cycle \in BillingCycles
    /\ IsFiniteSet(Plans) /\ IsFiniteSet(Charges)

ASSUME RowAssumption ==
    /\ NULL # Gone
    /\ NULL \notin Plan /\ NULL \notin Charge /\ NULL \notin ProvedPrice
    /\ Gone \notin Plan /\ Gone \notin Charge
    /\ NULL \notin Plans /\ NULL \notin Charges /\ NULL \notin Edits /\ NULL \notin Payments
    /\ NULL \notin [id : Plans, amount : Nat]
    /\ NULL \notin [total : Nat, unlinked : Nat] /\ NULL \notin [Plans -> Nat]

VARIABLES
    profile,        \* of each vendor, as the imports find it
    plans,          \* the subscriptions: a row, Gone, or NULL
    charges,        \* the transactions: a row, Gone, or NULL
    calls,          \* what each unfinished handler holds, or NULL
    operations      \* how many were begun

vars == <<profile, plans, charges, calls, operations>>

-----------------------------------------------------------------------------
Found(table, id) == table[id] \notin {NULL, Gone}
Rows(table) == {id \in DOMAIN table : Found(table, id)}
Unused(table) == {id \in DOMAIN table : table[id] = NULL}

Active(p) == Found(plans, p) /\ plans[p].status = "ACTIVE"
ActiveOf(v) == {p \in Plans : Active(p) /\ plans[p].vendor = v}
Unlinked(ch) == Found(charges, ch) /\ charges[ch].plan = NULL

\* What the statement after the first needs.  A member that a handler has no use for
\* is NULL or empty: `op' names its next statement, `alone' says that no other handler
\* was part-way through since it began.
Call == [op : {"store", "detect", "match", "confirm", "edit", "request", "cancel",
               "remove", "record", "attach", "delete", "summarise", "findPlans", "answer"},
         alone : BOOLEAN,
         rows : Seq(StatementRow),
         price : [Vendors -> [id : Plans, amount : Nat] \cup {NULL}],
         todo : SUBSET [row : Nat, vendor : Vendors, cycle : BillingCycles, amount : Nat],
         plan : Plans \cup {NULL},
         charge : Charges \cup {NULL},
         change : Edits \cup Payments \cup {NULL},
         spend : [total : Nat, unlinked : Nat] \cup {NULL},
         billed : [Plans -> Nat] \cup {NULL},
         summary : [unlinked : Nat, billed : [Plans -> Nat]] \cup {NULL}]

NewCall(op) == [op |-> op, alone |-> \A c \in Calls : calls[c] = NULL, rows |-> <<>>,
                price |-> [v \in Vendors |-> NULL], todo |-> {}, plan |-> NULL,
                charge |-> NULL, change |-> NULL, spend |-> NULL, billed |-> NULL,
                summary |-> NULL]

NotAlone(d) == IF calls[d] = NULL THEN NULL ELSE [calls[d] EXCEPT !.alone = FALSE]

Begin(c, call) ==
    /\ calls[c] = NULL
    /\ operations < MaxOperations
    /\ operations' = operations + 1
    /\ calls' = [d \in Calls |-> IF d = c THEN call ELSE NotAlone(d)]

Running(c, op) == calls[c] # NULL /\ calls[c].op = op
Continue(c, call) == calls' = [calls EXCEPT ![c] = call] /\ UNCHANGED operations
Finish(c) == Continue(c, NULL)

\* A handler with a single statement that writes.
AtOnce ==
    /\ operations < MaxOperations
    /\ operations' = operations + 1
    /\ calls' = [d \in Calls |-> NotAlone(d)]

\* UPDATE and soft DELETE of a row by id, which pass over a row that is gone.
UpdatePlan(p, row) == plans' = [plans EXCEPT ![p] = IF Found(plans, p) THEN row ELSE @]
UpdateCharge(ch, row) ==
    charges' = [charges EXCEPT ![ch] = IF Found(charges, ch) THEN row ELSE @]
SoftDelete(table, id) == [table EXCEPT ![id] = IF Found(table, id) THEN Gone ELSE @]

-----------------------------------------------------------------------------
(* The pipeline of an import.                                              *)

\* getActiveByVendor: the oldest active subscription of a vendor, with its price.
ActiveByVendor ==
    [v \in Vendors |-> IF ActiveOf(v) = {} THEN NULL
                       ELSE [id |-> Min(ActiveOf(v)), amount |-> plans[Min(ActiveOf(v))].amount]]

ResolveChargedSubscriptionId(amount, price) ==
    IF price # NULL /\ IsWithinAmountTolerance(amount, price.amount) THEN price.id ELSE NULL

StartImport(c, rows) ==
    /\ Begin(c, [NewCall("store") EXCEPT !.rows = rows, !.price = ActiveByVendor])
    /\ UNCHANGED <<profile, plans, charges>>

\* formatRow: the row as it is inserted.
Prepared(call, row) ==
    [vendor |-> row.vendor, day |-> row.day, amount |-> row.amount, chosen |-> FALSE,
     plan |-> ResolveChargedSubscriptionId(row.amount, call.price[row.vendor])]

\* One INSERT of all the rows.
StoreCharges(c) ==
    LET rows == calls[c].rows
        free == Unused(charges)
    IN  /\ Running(c, "store")
        /\ Len(rows) <= Cardinality(free)
        /\ LET slot == SetToSortSeq(free, <)
           IN  charges' = [ch \in Charges |->
                 IF \E k \in DOMAIN rows : slot[k] = ch
                   THEN Prepared(calls[c], rows[CHOOSE k \in DOMAIN rows : slot[k] = ch])
                   ELSE charges[ch]]
        /\ Continue(c, [calls[c] EXCEPT !.op = "detect"])
        /\ UNCHANGED <<profile, plans>>

IsSubscriptionCandidate(v) == profile[v].kind # "ESSENTIAL_BILL" /\ ~profile[v].excluded

\* Mutant: the charges of a vendor are judged although it has a subscription.
AnyCandidateRow(call, row) ==
    /\ Prepared(call, row).plan = NULL
    /\ IsSubscriptionCandidate(row.vendor)

IsCandidateRow(call, row) ==
    /\ Prepared(call, row).plan = NULL
    /\ call.price[row.vendor] = NULL
    /\ IsSubscriptionCandidate(row.vendor)

CandidateRows(call) == {k \in DOMAIN call.rows : IsCandidateRow(call, call.rows[k])}

StandingOrders(call, v) ==
    Restrict(call.rows, {k \in CandidateRows(call) :
                           call.rows[k].vendor = v /\ call.rows[k].standing})

\* collectRecurrenceCandidates: each vendor once, by the first of its rows.
Candidates(call) ==
    {k \in CandidateRows(call) :
        \A j \in CandidateRows(call) : call.rows[j].vendor = call.rows[k].vendor => k <= j}

HistoryOf(v) ==
    {[id |-> ch, day |-> charges[ch].day, amount |-> charges[ch].amount] :
        ch \in {ch \in Rows(charges) : charges[ch].vendor = v}}

\* What a candidate can be confirmed with, or NULL when nothing proves it.
RecurrencesOf(call, v) ==
    LET standing == StandingOrders(call, v)
        cycle == IF profile[v].cycle = NULL THEN DefaultBillingCycle ELSE profile[v].cycle
        Detected(history) == DetectRecurrence(history, RequiredChargeCount(profile[v].kind))
    IN  IF DOMAIN standing # {}
          THEN {[cycle |-> cycle, amount |-> LatestCharge(standing).amount]}
          ELSE UNION {IF Detected(s) = {} THEN {NULL} ELSE Detected(s) :
                        s \in Chronological(HistoryOf(v))}

\* resolveRecurrences: one query for the charges of all the candidates.
ResolveRecurrences(c) ==
    LET rows == calls[c].rows
        candidates == Candidates(calls[c])
        Options(k) == RecurrencesOf(calls[c], rows[k].vendor)
    IN  /\ Running(c, "detect")
        /\ \E found \in [candidates -> UNION {Options(k) : k \in candidates}] :
             /\ \A k \in candidates : found[k] \in Options(k)
             /\ Continue(c, [calls[c] EXCEPT
                  !.op = "match", !.rows = <<>>, !.price = [v \in Vendors |-> NULL],
                  !.todo = {[row |-> k, vendor |-> rows[k].vendor,
                             cycle |-> found[k].cycle, amount |-> found[k].amount] :
                               k \in {k \in candidates : found[k] # NULL}}])
        /\ UNCHANGED <<profile, plans, charges>>

\* The recurrence that comes next, in the order of the statement.
Upcoming(call) == CHOOSE r \in call.todo : \A other \in call.todo : r.row <= other.row

ActiveMatches(r) ==
    {p \in ActiveOf(r.vendor) : plans[p].amount = r.amount /\ plans[p].cycle = r.cycle}

\* createSubscriptionFromRecurrence, its first statement: findActiveMatch.
FindActiveMatch(c) ==
    LET matches == ActiveMatches(Upcoming(calls[c])) IN
    /\ Running(c, "match")
    /\ calls[c].todo # {}
    /\ \E p \in IF matches = {} THEN {NULL} ELSE matches :
         Continue(c, [calls[c] EXCEPT !.op = "confirm", !.plan = p])
    /\ UNCHANGED <<profile, plans, charges>>

NewPlan(v, amount, cycle) ==
    [vendor |-> v, amount |-> amount, cycle |-> cycle, status |-> "ACTIVE", edited |-> FALSE]

\* Mutant: everything the vendor charged goes to the new subscription.
LinkAllVendorCharges(v, p, amount) ==
    charges' = [ch \in Charges |->
        IF Unlinked(ch) /\ charges[ch].vendor = v
          THEN [charges[ch] EXCEPT !.plan = p, !.chosen = FALSE] ELSE charges[ch]]

LinkUnassignedVendorCharges(v, p, amount) ==
    charges' = [ch \in Charges |->
        IF Unlinked(ch) /\ charges[ch].vendor = v
             /\ charges[ch].amount \in AmountToleranceRange(amount)
          THEN [charges[ch] EXCEPT !.plan = p, !.chosen = FALSE] ELSE charges[ch]]

NextCandidate(c) ==
    Continue(c, [calls[c] EXCEPT !.op = "match", !.plan = NULL,
                                 !.todo = @ \ {Upcoming(calls[c])}])

\* The rest of the transaction: create unless there was a match, link, commit.
ConfirmRecurrence(c) ==
    LET r == Upcoming(calls[c])
        p == IF calls[c].plan # NULL THEN calls[c].plan ELSE Min(Unused(plans))
    IN  /\ Running(c, "confirm")
        /\ IF calls[c].plan # NULL THEN UNCHANGED plans
           ELSE /\ Unused(plans) # {}
                /\ plans' = [plans EXCEPT ![p] = NewPlan(r.vendor, r.amount, r.cycle)]
        /\ LinkUnassignedVendorCharges(r.vendor, p, r.amount)
        /\ NextCandidate(c)
        /\ UNCHANGED profile

\* A failure rolls back this candidate only and goes on with the next.
RollBackRecurrence(c) ==
    /\ Running(c, "confirm")
    /\ NextCandidate(c)
    /\ UNCHANGED <<profile, plans, charges>>

EndImport(c) ==
    /\ Running(c, "match")
    /\ calls[c].todo = {}
    /\ Finish(c)
    /\ UNCHANGED <<profile, plans, charges>>

-----------------------------------------------------------------------------
(* The user and the subscriptions.                                         *)

CreatePlan(new) ==
    /\ Unused(plans) # {}
    /\ plans' = [plans EXCEPT ![Min(Unused(plans))] = NewPlan(new.vendor, new.amount, new.cycle)]
    /\ AtOnce
    /\ UNCHANGED <<profile, charges>>

StartOnPlan(c, op, p, change) ==
    /\ Found(plans, p)
    /\ Begin(c, [NewCall(op) EXCEPT !.plan = p, !.change = change])
    /\ UNCHANGED <<profile, plans, charges>>

EditPlan(c, p, edit) == StartOnPlan(c, "edit", p, edit)

\* Mutant: what the user does not mention is cleared.
EditPlanStoreClears(c) ==
    LET p == calls[c].plan
        edit == calls[c].change
    IN  /\ Running(c, "edit")
        /\ UpdatePlan(p, [f \in DOMAIN plans[p] |-> IF f = "edited" THEN TRUE
                            ELSE IF f \in DOMAIN edit THEN edit[f] ELSE NULL])
        /\ Finish(c)
        /\ UNCHANGED <<profile, charges>>

EditPlanStore(c) ==
    LET p == calls[c].plan
        edit == calls[c].change
    IN  /\ Running(c, "edit")
        /\ UpdatePlan(p, [f \in DOMAIN plans[p] |-> IF f = "edited" THEN TRUE
                            ELSE IF f \in DOMAIN edit THEN edit[f] ELSE plans[p][f]])
        /\ Finish(c)
        /\ UNCHANGED <<profile, charges>>

\* Mutant: only a subscription whose cancellation was requested is refused.
RequestCancellationAgain(c, p) ==
    /\ Found(plans, p) /\ plans[p].status # "CANCELLATION_REQUESTED"
    /\ StartOnPlan(c, "request", p, NULL)

RequestCancellation(c, p) == Active(p) /\ StartOnPlan(c, "request", p, NULL)

RequestCancellationStore(c) ==
    LET p == calls[c].plan IN
    /\ Running(c, "request")
    /\ UpdatePlan(p, [plans[p] EXCEPT !.status = "CANCELLATION_REQUESTED"])
    /\ Finish(c)
    /\ UNCHANGED <<profile, charges>>

ConfirmCancellation(c, p) ==
    /\ Found(plans, p) /\ plans[p].status # "CANCELLED"
    /\ StartOnPlan(c, "cancel", p, NULL)

ConfirmCancellationStore(c) ==
    LET p == calls[c].plan IN
    /\ Running(c, "cancel")
    /\ UpdatePlan(p, [plans[p] EXCEPT !.status = "CANCELLED"])
    /\ Finish(c)
    /\ UNCHANGED <<profile, charges>>

RemovePlan(c, p) == StartOnPlan(c, "remove", p, NULL)

RemovePlanStore(c) ==
    /\ Running(c, "remove")
    /\ plans' = SoftDelete(plans, calls[c].plan)
    /\ Finish(c)
    /\ UNCHANGED <<profile, charges>>

-----------------------------------------------------------------------------
(* The user and the charges.                                               *)

Recorded(payment, p) ==
    [vendor |-> payment.vendor, day |-> payment.day, amount |-> payment.amount,
     plan |-> p, chosen |-> p # NULL]

RecordCharge(payment) ==
    /\ Unused(charges) # {}
    /\ charges' = [charges EXCEPT ![Min(Unused(charges))] = Recorded(payment, NULL)]
    /\ AtOnce
    /\ UNCHANGED <<profile, plans>>

\* With a subscription, which is looked up first, whatever its vendor.
RecordChargeOf(c, payment, p) == StartOnPlan(c, "record", p, payment)

RecordChargeStore(c) ==
    /\ Running(c, "record")
    /\ Unused(charges) # {}
    /\ charges' = [charges EXCEPT ![Min(Unused(charges))] =
                     Recorded(calls[c].change, calls[c].plan)]
    /\ Finish(c)
    /\ UNCHANGED <<profile, plans>>

AttachSubscription(c, ch, p) ==
    /\ Found(charges, ch)
    /\ p # NULL => Found(plans, p)
    /\ Begin(c, [NewCall("attach") EXCEPT !.charge = ch, !.plan = p])
    /\ UNCHANGED <<profile, plans, charges>>

AttachSubscriptionStore(c) ==
    LET ch == calls[c].charge
        p == calls[c].plan
    IN  /\ Running(c, "attach")
        /\ UpdateCharge(ch, [charges[ch] EXCEPT !.plan = p, !.chosen = (p # NULL)])
        /\ Finish(c)
        /\ UNCHANGED <<profile, plans>>

DeleteCharge(c, ch) ==
    /\ Found(charges, ch)
    /\ Begin(c, [NewCall("delete") EXCEPT !.charge = ch])
    /\ UNCHANGED <<profile, plans, charges>>

DeleteChargeStore(c) ==
    /\ Running(c, "delete")
    /\ charges' = SoftDelete(charges, calls[c].charge)
    /\ Finish(c)
    /\ UNCHANGED <<profile, plans>>

-----------------------------------------------------------------------------
(* The summary: two queries side by side, then one for the subscriptions.  *)

AmountOf(ids) == SumFunction([ch \in ids |-> charges[ch].amount])

CategorySpend ==
    [total |-> AmountOf(Rows(charges)),
     unlinked |-> AmountOf({ch \in Rows(charges) : charges[ch].plan = NULL})]

SubscriptionCharges ==
    [p \in Plans |-> AmountOf({ch \in Rows(charges) : charges[ch].plan = p})]

\* Mutant: the charges of a subscription that is gone are left out.
WithoutOrphans(spend, billed) ==
    [unlinked |-> spend.unlinked,
     billed |-> [p \in Plans |-> IF Found(plans, p) THEN billed[p] ELSE 0]]

\* A charge whose subscription was deleted since counts as regular spend.
ToTransactionSummary(spend, billed) ==
    [unlinked |-> spend.unlinked
                    + SumFunction([p \in Plans |-> IF Found(plans, p) THEN 0 ELSE billed[p]]),
     billed |-> [p \in Plans |-> IF Found(plans, p) THEN billed[p] ELSE 0]]

GetSummary(c) ==
    /\ Begin(c, NewCall("summarise"))
    /\ UNCHANGED <<profile, plans, charges>>

\* The answers of the two queries arrive in either order.
Summarise(c, call) ==
    /\ Running(c, "summarise")
    /\ Continue(c, [call EXCEPT !.op = IF call.spend # NULL /\ call.billed # NULL
                                         THEN "findPlans" ELSE "summarise"])
    /\ UNCHANGED <<profile, plans, charges>>

GetCategorySpend(c) ==
    /\ Running(c, "summarise") /\ calls[c].spend = NULL
    /\ Summarise(c, [calls[c] EXCEPT !.spend = CategorySpend])

GetSubscriptionCharges(c) ==
    /\ Running(c, "summarise") /\ calls[c].billed = NULL
    /\ Summarise(c, [calls[c] EXCEPT !.billed = SubscriptionCharges])

FindPlansOfSummary(c) ==
    /\ Running(c, "findPlans")
    /\ Continue(c, [calls[c] EXCEPT
         !.op = "answer", !.summary = ToTransactionSummary(calls[c].spend, calls[c].billed)])
    /\ UNCHANGED <<profile, plans, charges>>

AnswerSummary(c) ==
    /\ Running(c, "answer")
    /\ Finish(c)
    /\ UNCHANGED <<profile, plans, charges>>

-----------------------------------------------------------------------------
\* The database fails the next statement, or the instance stops.
AbandonCall(c) ==
    /\ calls[c] # NULL
    /\ Finish(c)
    /\ UNCHANGED <<profile, plans, charges>>

Init ==
    /\ profile \in Profiles
    /\ plans = [p \in Plans |-> NULL]
    /\ charges = [ch \in Charges |-> NULL]
    /\ calls = [c \in Calls |-> NULL]
    /\ operations = 0

ImportStep(c) ==
    \/ \E rows \in Statements : StartImport(c, rows)
    \/ StoreCharges(c)
    \/ ResolveRecurrences(c)
    \/ FindActiveMatch(c)
    \/ ConfirmRecurrence(c)
    \/ RollBackRecurrence(c)
    \/ EndImport(c)

PlanStep(c) ==
    \/ \E p \in Plans :
         \/ \E edit \in Edits : EditPlan(c, p, edit)
         \/ RequestCancellation(c, p)
         \/ ConfirmCancellation(c, p)
         \/ RemovePlan(c, p)
    \/ EditPlanStore(c)
    \/ RequestCancellationStore(c)
    \/ ConfirmCancellationStore(c)
    \/ RemovePlanStore(c)

ChargeStep(c) ==
    \/ \E payment \in Payments, p \in Plans : RecordChargeOf(c, payment, p)
    \/ \E ch \in Charges : \E p \in Plans \cup {NULL} : AttachSubscription(c, ch, p)
    \/ \E ch \in Charges : DeleteCharge(c, ch)
    \/ RecordChargeStore(c)
    \/ AttachSubscriptionStore(c)
    \/ DeleteChargeStore(c)

SummaryStep(c) ==
    \/ GetSummary(c)
    \/ GetCategorySpend(c)
    \/ GetSubscriptionCharges(c)
    \/ FindPlansOfSummary(c)
    \/ AnswerSummary(c)

Next ==
    \/ \E c \in Calls :
         ImportStep(c) \/ PlanStep(c) \/ ChargeStep(c) \/ SummaryStep(c) \/ AbandonCall(c)
    \/ \E new \in NewPlans : CreatePlan(new)
    \/ \E payment \in Payments : RecordCharge(payment)

Spec == Init /\ [][Next]_vars

-----------------------------------------------------------------------------
\* Every variable holds what the tables and the handlers can hold.
TypeOK ==
    /\ profile \in Profiles
    /\ plans \in [Plans -> Plan \cup {NULL, Gone}]
    /\ charges \in [Charges -> Charge \cup {NULL, Gone}]
    /\ calls \in [Calls -> Call \cup {NULL}]
    /\ operations \in 0 .. MaxOperations

\* A charge that an import linked was made at the vendor of the subscription and at
\* its price, give or take 15% and the rounding to whole cents, whichever of its two
\* ways linked it: in memory against the price read when it began
\* (resolveChargedSubscriptionId), or by the range in SQL (linkUnassignedVendorCharges).
\* Charges the user attached and prices the user changed are exempt.
LinkedAtPrice ==
    \A ch \in Rows(charges) :
        LET p == charges[ch].plan IN
        p # NULL /\ ~charges[ch].chosen /\ Found(plans, p) /\ ~plans[p].edited =>
            /\ charges[ch].vendor = plans[p].vendor
            /\ 100 * Difference(charges[ch].amount, plans[p].amount)
                 <= 15 * plans[p].amount + 50

\* When its two queries saw the same charges, a summary counts each amount once, as
\* regular spend or under a subscription, also when a subscription is deleted before
\* the third query looks for it (toTransactionSummary).
SummaryAddsUp ==
    \A c \in Calls :
        /\ Running(c, "answer")
        /\ calls[c].spend.total = calls[c].spend.unlinked + SumFunction(calls[c].billed)
        => calls[c].summary.unlinked + SumFunction(calls[c].summary.billed) = calls[c].spend.total

-----------------------------------------------------------------------------
(* What it is for charges to prove a subscription, said without the steps  *)
(* by which the program finds out.                                         *)

NearTo(history, anchor) == {h \in history : IsWithinAmountTolerance(h.amount, anchor.amount)}

\* The k-th amount of a group, from the lowest.
Ranked(group, k) ==
    CHOOSE a \in {h.amount : h \in group} :
        /\ Cardinality({h \in group : h.amount < a}) < k
        /\ Cardinality({h \in group : h.amount <= a}) >= k

Steady(group) ==
    LET n == Cardinality(group)
        median == Ranked(group, (n + 1) \div 2) + Ranked(group, n \div 2 + 1)
    IN  \A h \in group : 100 * Difference(2 * h.amount, median) <= 15 * median

Gaps(group) ==
    UNION {{b.day - a.day : b \in {b \in group :
               a.day < b.day /\ ~\E h \in group : a.day < h.day /\ h.day < b.day}} : a \in group}

OncePerCycle(group, cycle, tolerance) ==
    /\ \A a, b \in group : a # b => a.day # b.day
    /\ \A g \in Gaps(group) :
          /\ Difference(g, BillingCycleWindows[cycle].expected) <= tolerance
          /\ \A f \in Gaps(group) : g - f <= BillingCycleWindows[cycle].spread

ProvedBy(group, required, r) ==
    LET n == Cardinality(group)
        window == BillingCycleWindows[r.cycle]
        identical == \A a, b \in group : a.amount = b.amount
    IN  /\ n >= 2 /\ Steady(group)
        /\ \E last \in group : last.amount = r.amount /\ \A h \in group : h.day <= last.day
        /\ \/ n >= required /\ OncePerCycle(group, r.cycle, window.tolerance)
           \/ /\ n < required /\ identical
              /\ OncePerCycle(group, r.cycle, Least(3, window.tolerance))

Detects(c) == Running(c, "detect") /\ calls'[c] # NULL /\ calls'[c].op = "match"

ByHistory(call) ==
    {v \in {call.rows[k].vendor : k \in Candidates(call)} : DOMAIN StandingOrders(call, v) = {}}

Recurring(call, v) ==
    {[cycle |-> r.cycle, amount |-> r.amount] : r \in {r \in call.todo : r.vendor = v}}

\* An import takes a vendor for a subscription only if the user's own charges prove it:
\* a largest group of similar amounts, at a steady price, once per cycle and at a steady
\* interval, with the price of its last charge (detectRecurrence).
RecurrencesAreProved ==
    [][\A c \in Calls : Detects(c) =>
         \A v \in ByHistory(calls[c]) : \A r \in Recurring(calls'[c], v) :
             \E anchor \in HistoryOf(v) :
                 LET group == NearTo(HistoryOf(v), anchor) IN
                 /\ \A other \in HistoryOf(v) :
                       Cardinality(NearTo(HistoryOf(v), other)) <= Cardinality(group)
                 /\ ProvedBy(group, RequiredChargeCount(profile[v].kind), r)]_vars

\* Incidental purchases at a vendor never mask its plan: when the charges that prove a
\* subscription outnumber every other group of similar amounts, the import that judges
\* the vendor finds it, whatever else was bought there (findLargestAmountGroup).
SteadyPlansAreFound ==
    [][\A c \in Calls : Detects(c) =>
         \A v \in ByHistory(calls[c]) : \A anchor \in HistoryOf(v) :
             LET group == NearTo(HistoryOf(v), anchor)
                 amounts == {h.amount : h \in group}
             IN  (\A other \in HistoryOf(v) :
                    LET rival == NearTo(HistoryOf(v), other) IN
                    rival # group => Cardinality(rival) < Cardinality(group))
                 => \A r \in [cycle : BillingCycles, amount : amounts] :
                      ProvedBy(group, RequiredChargeCount(profile[v].kind), r)
                        => r \in Recurring(calls'[c], v)]_vars

\* An import that no other handler overlaps never gives a vendor that has an active
\* subscription another one, however its charges would read: the subscriptions read when
\* it began keep the vendor out of the candidates until the confirming transactions
\* (collectRecurrenceCandidates, findActiveMatch).
LoneImportAddsNoSecondPlan ==
    [][\A c \in Calls : calls[c] # NULL /\ calls[c].alone /\ ConfirmRecurrence(c) =>
         \A p \in Unused(plans) : plans'[p] # NULL => ActiveOf(plans'[p].vendor) = {}]_vars

\* A cancelled subscription comes back to life only through a request for its
\* cancellation that was already part-way through when it was confirmed
\* (requestCancellation, confirmCancellation).
CancelledStaysCancelled ==
    [][\A p \in Plans :
         Found(plans, p) /\ plans[p].status = "CANCELLED" =>
            \/ plans'[p] = Gone
            \/ plans'[p].status = "CANCELLED"
            \/ \E c \in Calls : Running(c, "request") /\ ~calls[c].alone /\ calls'[c] = NULL]_vars

\* One tolerance decides both which charges prove a subscription and which charges
\* belong to it (amount-tolerance.utility.ts): when an import confirms what the history
\* of a vendor proves, the charges that prove it are linked.
EvidenceIsLinked ==
    [][\A c \in Calls : Running(c, "confirm") /\ calls[c].alone /\ plans' # plans =>
         LET r == Upcoming(calls[c])
             history == HistoryOf(r.vendor)
         IN  ProvedBy(history, RequiredChargeCount(profile[r.vendor].kind),
                      [cycle |-> r.cycle, amount |-> r.amount])
             => \A h \in history : charges'[h.id].plan # NULL]_vars
=============================================================================
