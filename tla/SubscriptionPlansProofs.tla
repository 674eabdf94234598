------------------------ MODULE SubscriptionPlansProofs ------------------------
(***************************************************************************)
(* Proofs about SubscriptionPlans, for any sets of vendors, subscriptions, *)
(* charges and statements and any number of handlers.                      *)
(***************************************************************************)
EXTENDS SubscriptionPlans, SumTheorems, TLAPS

Ops == {"store", "detect", "match", "confirm", "edit", "request", "cancel",
        "remove", "record", "attach", "delete", "summarise", "findPlans", "answer"}

-----------------------------------------------------------------------------
(* The operators.                                                          *)

\* A set of numbers has a least one, which is what Min chooses.
LEMMA LeastIsOne ==
  ASSUME NEW S, S \subseteq Nat, S # {}
  PROVE  Min(S) \in S /\ \A y \in S : Min(S) <= y
<1>1. PICK x \in S : \A y \in S : ~ (<<y, x>> \in OpToRel(<, Nat))
  BY NatLessThanWellFounded, WFMin
<1>2. \A y \in S : x <= y
  <2> TAKE y \in S
  <2>1. x \in Nat /\ y \in Nat
    OBVIOUS
  <2>2. ~(y < x)
    BY <1>1, <2>1 DEF OpToRel
  <2> QED
    BY <2>1, <2>2
<1> QED
  BY <1>2 DEF Min

\* The positions of a sequence are finitely many numbers.
LEMMA Positions == ASSUME NEW n \in Nat PROVE IsFiniteSet(1 .. n) /\ 1 .. n \subseteq Nat
  BY FS_Interval

\* Among finitely many numbers one is as high as the others: none is above their sum.
LEMMA HighestExists ==
  ASSUME NEW P, IsFiniteSet(P), P # {}, NEW f, \A k \in P : f[k] \in Nat
  PROVE  \E k \in P : \A j \in P : f[j] <= f[k]
<1> DEFINE sum == SumFunctionOnSet(f, P)
           gaps == {sum - f[k] : k \in P}
<1>1. ASSUME NEW k \in P PROVE sum - f[k] \in Nat /\ sum \in Nat /\ f[k] \in Nat
  <2>1. IsFiniteSet(P \ {k}) /\ \A j \in P \ {k} : f[j] \in Nat
    BY FS_Subset
  <2>2. sum = f[k] + SumFunctionOnSet(f, P \ {k})
    BY SumRemove
  <2>3. SumFunctionOnSet(f, P \ {k}) \in Nat /\ f[k] \in Nat
    BY <2>1, SumNat
  <2> HIDE DEF sum
  <2> QED
    BY <2>2, <2>3
<1> HIDE DEF sum
<1>2. gaps \subseteq Nat /\ gaps # {}
  BY <1>1
<1> HIDE DEF gaps
<1>3. PICK k \in P : Min(gaps) = sum - f[k]
  BY <1>2, LeastIsOne DEF gaps
<1>4. \A j \in P : sum - f[k] <= sum - f[j]
  BY <1>2, <1>3, LeastIsOne DEF gaps
<1> QED
  BY <1>1, <1>4

\* The last position of a group is one of it.
LEMMA GreatestIsOne ==
  ASSUME NEW S, S \subseteq Nat, IsFiniteSet(S), S # {}
  PROVE  Max(S) \in S /\ \A y \in S : y <= Max(S)
<1> DEFINE f == [k \in S |-> k]
<1>1. \E k \in S : \A j \in S : f[j] <= f[k]
  <2>1. \A k \in S : f[k] \in Nat
    OBVIOUS
  <2> HIDE DEF f
  <2> QED
    BY <2>1, HighestExists
<1>2. \E k \in S : \A j \in S : k >= j
  BY <1>1
<1> QED
  BY <1>2 DEF Max

\* The price that a history proves is one of its amounts.
LEMMA DetectedPrice ==
  ASSUME NEW S, IsFiniteSet(S), \A h \in S : h.amount \in Nat,
         NEW history \in Chronological(S), NEW required \in Nat
  PROVE  DetectRecurrence(history, required) \subseteq ProvedPrice
<1> DEFINE group == LargestAmountGroup(history)
           rule == EvidenceRule(group, required)
<1>1. /\ DOMAIN history = 1 .. Cardinality(S) /\ Cardinality(S) \in Nat
      /\ \A k \in DOMAIN history : history[k].amount \in Nat
  BY FS_CardinalityType DEF Chronological, SetToSeqs
<1>2. DOMAIN group \subseteq DOMAIN history /\ \A k \in DOMAIN group : group[k] = history[k]
  <2>1. CASE history = <<>>
    BY <2>1 DEF LargestAmountGroup
  <2>2. CASE history # <<>>
    BY <2>2 DEF LargestAmountGroup, GroupAround, Restrict
  <2> QED
    BY <2>1, <2>2
<1>3. IsFiniteSet(DOMAIN group) /\ DOMAIN group \subseteq Nat
  <2>1. IsFiniteSet(DOMAIN history) /\ DOMAIN history \subseteq Nat
    BY <1>1, Positions
  <2> QED
    BY <1>2, <2>1, FS_Subset
<1>4. rule.required \in Nat
  BY DEF EvidenceRule, IdenticalAmount
<1> HIDE DEF group, rule
<1>5. CASE Size(group) < Most(rule.required, MinChargesForCadence) \/ ~HasStableAmount(group)
  BY <1>5 DEF DetectRecurrence, group, rule
<1>6. CASE ~(Size(group) < Most(rule.required, MinChargesForCadence) \/ ~HasStableAmount(group))
  <2>1. DOMAIN group # {}
    BY <1>4, <1>6, FS_EmptySet DEF Size, Most, MinChargesForCadence
  <2>2. group[Max(DOMAIN group)].amount \in Nat
    BY <1>1, <1>2, <1>3, <2>1, GreatestIsOne
  <2>3. DetectRecurrence(history, required) =
          {[cycle |-> cycle, amount |-> group[Max(DOMAIN group)].amount] :
             cycle \in MatchingCycles(GapsInDays(group), rule.tight)}
    BY <1>6 DEF DetectRecurrence, group, rule
  <2>4. MatchingCycles(GapsInDays(group), rule.tight) \subseteq BillingCycles
    BY DEF MatchingCycles
  <2> QED
    BY <2>2, <2>3, <2>4 DEF ProvedPrice
<1> QED
  BY <1>5, <1>6

\* The latest of the charges is one of them.
LEMMA LatestIsOne ==
  ASSUME NEW P, P \subseteq Nat, IsFiniteSet(P), P # {},
         NEW rows, DOMAIN rows = P, \A k \in P : rows[k].day \in Nat
  PROVE  \E k \in P : LatestCharge(rows) = rows[k]
<1> DEFINE f == [k \in P |-> rows[k].day]
           latest == {k \in P : \A j \in P : rows[j].day <= rows[k].day}
<1>1. \A k \in P : f[k] \in Nat
  OBVIOUS
<1> HIDE DEF f
<1>2. \E k \in P : \A j \in P : f[j] <= f[k]
  BY <1>1, HighestExists
<1>3. latest # {} /\ latest \subseteq Nat
  BY <1>2 DEF f
<1>4. Min(latest) \in latest
  BY <1>3, LeastIsOne
<1> QED
  BY <1>4 DEF LatestCharge

-----------------------------------------------------------------------------
(* Types.                                                                  *)

\* What the constants are, and what NULL and Gone are not.
LEMMA Constants ==
    /\ Plans \subseteq Nat /\ Charges \subseteq Nat /\ MaxOperations \in Nat
    /\ IsFiniteSet(Plans) /\ IsFiniteSet(Charges)
    /\ NULL # Gone
    /\ NULL \notin Plan /\ NULL \notin Charge /\ NULL \notin ProvedPrice
    /\ Gone \notin Plan /\ Gone \notin Charge
    /\ NULL \notin Plans /\ NULL \notin Charges
    /\ NULL \notin Edits /\ NULL \notin Payments
    /\ NULL \notin [id : Plans, amount : Nat]
    /\ NULL \notin [total : Nat, unlinked : Nat] /\ NULL \notin [Plans -> Nat]
  BY PlansAssumption, RowAssumption

\* Charges with a day and an amount, as the table has them.
Dated(S) == IsFiniteSet(S) /\ \A h \in S : h.day \in Nat /\ h.amount \in Nat

\* The charges of a user at a vendor are finitely many, with a day and an amount.
LEMMA HistoryIsDated == ASSUME TypeOK, NEW v \in Vendors PROVE Dated(HistoryOf(v))
<1> DEFINE ids == {ch \in Rows(charges) : charges[ch].vendor = v}
           history == HistoryOf(v)
<1>1. \A ch \in Rows(charges) : ch \in Charges /\ charges[ch] \in Charge
  BY DEF TypeOK, Rows, Found
<1>2. IsFiniteSet(ids)
  BY <1>1, Constants, FS_Subset
<1>3. history = {[id |-> ch, day |-> charges[ch].day, amount |-> charges[ch].amount] : ch \in ids}
  BY DEF HistoryOf
<1>4. \A h \in history : h.day \in Nat /\ h.amount \in Nat
  BY <1>1, <1>3 DEF Charge
<1> HIDE DEF ids
<1>5. IsFiniteSet(history)
  <2> DEFINE g == [ch \in ids |-> [id |-> ch, day |-> charges[ch].day,
                                   amount |-> charges[ch].amount]]
  <2>1. g \in Surjection(ids, history)
    BY <1>3 DEF Surjection
  <2> HIDE DEF g, history
  <2> QED
    BY <1>2, <2>1, FS_Surjection
<1> QED
  BY <1>4, <1>5 DEF Dated

\* What a candidate is confirmed with has a cycle and a price.
LEMMA RecurrencesType ==
  ASSUME TypeOK, NEW c \in Calls, calls[c] # NULL, NEW v \in Vendors
  PROVE  RecurrencesOf(calls[c], v) \subseteq ProvedPrice \cup {NULL}
<1> DEFINE standing == StandingOrders(calls[c], v)
           rows == calls[c].rows
           cycle == IF profile[v].cycle = NULL THEN DefaultBillingCycle ELSE profile[v].cycle
<1>1. rows \in Seq(StatementRow)
  BY DEF TypeOK, Call
<1>2. profile[v] \in Profile
  BY PlansAssumption DEF TypeOK
<1>3. cycle \in BillingCycles
  BY <1>2 DEF Profile, DefaultBillingCycle, BillingCycles
<1>4. CASE DOMAIN standing # {}
  <2>1. /\ DOMAIN standing \subseteq DOMAIN rows
        /\ \A k \in DOMAIN standing : standing[k] = rows[k]
    BY DEF StandingOrders, Restrict, CandidateRows
  <2>2. /\ DOMAIN rows = 1 .. Len(rows) /\ Len(rows) \in Nat
        /\ \A k \in DOMAIN rows : rows[k] \in StatementRow
    BY <1>1
  <2>3. IsFiniteSet(DOMAIN standing) /\ DOMAIN standing \subseteq Nat
    <3>1. IsFiniteSet(DOMAIN rows) /\ DOMAIN rows \subseteq Nat
      BY <2>2, Positions
    <3> QED
      BY <2>1, <3>1, FS_Subset
  <2>4. \A k \in DOMAIN standing : standing[k].day \in Nat /\ standing[k].amount \in Nat
    BY <2>1, <2>2 DEF StatementRow
  <2> HIDE DEF standing
  <2>5. LatestCharge(standing).amount \in Nat
    BY <1>4, <2>3, <2>4, LatestIsOne
  <2> HIDE DEF cycle
  <2>6. RecurrencesOf(calls[c], v) = {[cycle |-> cycle, amount |-> LatestCharge(standing).amount]}
    BY <1>4 DEF RecurrencesOf, standing, cycle
  <2> QED
    BY <1>3, <2>5, <2>6 DEF ProvedPrice
<1>5. CASE DOMAIN standing = {}
  <2> DEFINE history == HistoryOf(v)
             required == RequiredChargeCount(profile[v].kind)
  <2>1. IsFiniteSet(history) /\ \A h \in history : h.amount \in Nat
    BY HistoryIsDated DEF Dated
  <2>2. required \in Nat
    BY DEF RequiredChargeCount, RequiredCharges
  <2> HIDE DEF history, required, standing
  <2>3. \A s \in Chronological(history) : DetectRecurrence(s, required) \subseteq ProvedPrice
    BY <2>1, <2>2, DetectedPrice
  <2>4. RecurrencesOf(calls[c], v) =
          UNION {IF DetectRecurrence(s, required) = {} THEN {NULL} ELSE DetectRecurrence(s, required) :
                   s \in Chronological(history)}
    BY <1>5 DEF RecurrencesOf, standing, history, required
  <2> QED
    BY <2>3, <2>4
<1> QED
  BY <1>4, <1>5

-----------------------------------------------------------------------------
(* The inductive invariant.                                                *)

\* A summary and the totals it was put together from count the same amounts.
Balanced(call) ==
    call.summary.unlinked + SumFunction(call.summary.billed)
      = call.spend.unlinked + SumFunction(call.billed)

\* What the next statement of a handler needs was put into its record.
Carries(call) ==
    /\ call.op \in {"edit", "request", "cancel", "remove", "record"} => call.plan \in Plans
    /\ call.op = "edit" => call.change \in Edits
    /\ call.op = "record" => call.change \in Payments
    /\ call.op \in {"attach", "delete"} => call.charge \in Charges
    /\ call.op = "confirm" => call.todo # {}
    /\ call.op \in {"findPlans", "answer"} => call.spend # NULL /\ call.billed # NULL
    /\ call.op = "answer" =>
         call.summary \in [unlinked : Nat, billed : [Plans -> Nat]] /\ Balanced(call)

CallsCarry == \A c \in Calls : calls[c] # NULL => Carries(calls[c])

TypesHold == TypeOK /\ CallsCarry

\* A subscription that was once read has a row, and still has the vendor and the price
\* that were read, unless it is gone or the user changed it.
StillSays(table, p, v, amount) ==
    /\ table[p] # NULL
    /\ Found(table, p) /\ ~table[p].edited => table[p].vendor = v /\ table[p].amount = amount

Knows(table, call) ==
    /\ call.plan # NULL => table[call.plan] # NULL
    /\ \A v \in Vendors : call.price[v] # NULL =>
         StillSays(table, call.price[v].id, v, call.price[v].amount)
    /\ call.op = "confirm" /\ call.plan # NULL =>
         StillSays(table, call.plan, Upcoming(call).vendor, Upcoming(call).amount)

CallsKnow == \A c \in Calls : calls[c] # NULL => Knows(plans, calls[c])

\* The price of a subscription is the one that a charge was linked at.
AtPrice(amount, price) == 100 * Difference(amount, price) <= 15 * price + 50

\* A charge is linked to a subscription that has a row, and at its price.
Fits(table, row) ==
    row.plan # NULL =>
        /\ table[row.plan] # NULL
        /\ ~row.chosen /\ Found(table, row.plan) /\ ~table[row.plan].edited =>
             row.vendor = table[row.plan].vendor /\ AtPrice(row.amount, table[row.plan].amount)

ChargesFit == \A ch \in Rows(charges) : Fits(plans, charges[ch])

LinksHold == TypesHold /\ CallsKnow /\ ChargesFit

ActiveIn(table, p) == Found(table, p) /\ table[p].status = "ACTIVE"
ActiveOfIn(table, v) == {p \in Plans : ActiveIn(table, p) /\ table[p].vendor = v}

\* What a handler read and no other has changed since.
Fresh(table, call) ==
    /\ call.op = "request" => ActiveIn(table, call.plan)
    /\ call.op \in {"store", "detect"} =>
         \A v \in Vendors : call.price[v] = NULL => ActiveOfIn(table, v) = {}
    /\ call.op \in {"match", "confirm"} =>
         /\ \A r \in call.todo : ActiveOfIn(table, r.vendor) = {}
         /\ \A r, s \in call.todo : r.vendor = s.vendor => r = s

AloneIsFresh ==
    \A c \in Calls : calls[c] # NULL /\ calls[c].alone =>
        (\A d \in Calls \ {c} : calls[d] = NULL) /\ Fresh(plans, calls[c])

LoneHolds == TypesHold /\ AloneIsFresh

-----------------------------------------------------------------------------
(* Types are kept by every step.                                           *)

LEMMA NewCallType ==
  ASSUME NEW op \in Ops
  PROVE  NewCall(op) \in Call /\ NewCall(op).op = op
  BY DEF NewCall, Call, Ops

\* A record that differs in `alone' only is of the same type and carries the same.
LEMMA NotAloneCarries ==
  ASSUME TypesHold, NEW d \in Calls
  PROVE  NotAlone(d) \in Call \cup {NULL} /\ (NotAlone(d) # NULL => Carries(NotAlone(d)))
<1>1. CASE calls[d] = NULL
  BY <1>1 DEF NotAlone
<1>2. CASE calls[d] # NULL
  <2> DEFINE other == [calls[d] EXCEPT !.alone = FALSE]
  <2>1. calls[d] \in Call /\ Carries(calls[d])
    BY <1>2 DEF TypesHold, TypeOK, CallsCarry
  <2>2. /\ other \in Call
        /\ other.op = calls[d].op /\ other.plan = calls[d].plan
        /\ other.change = calls[d].change /\ other.charge = calls[d].charge
        /\ other.todo = calls[d].todo /\ other.spend = calls[d].spend
        /\ other.billed = calls[d].billed /\ other.summary = calls[d].summary
    BY <2>1 DEF Call
  <2> HIDE DEF other
  <2>3. Carries(other)
    BY <2>1, <2>2 DEF Carries, Balanced
  <2> QED
    BY <1>2, <2>2, <2>3 DEF NotAlone, other
<1> QED
  BY <1>1, <1>2

\* The tables after a step, and the handlers after one begins, goes on or ends.
TablesType ==
    /\ profile' \in Profiles
    /\ plans' \in [Plans -> Plan \cup {NULL, Gone}]
    /\ charges' \in [Charges -> Charge \cup {NULL, Gone}]

LEMMA TablesUnchanged ==
  ASSUME TypesHold, UNCHANGED <<profile, plans, charges>>
  PROVE  TablesType
  BY DEF TypesHold, TypeOK, TablesType

LEMMA BeginType ==
  ASSUME TypesHold, TablesType, NEW c \in Calls, NEW call \in Call, Carries(call), Begin(c, call)
  PROVE  TypesHold'
<1>1. operations' \in 0 .. MaxOperations
  BY Constants DEF TypesHold, TypeOK, Begin
<1>2. \A d \in Calls : calls'[d] \in Call \cup {NULL} /\ (calls'[d] # NULL => Carries(calls'[d]))
  BY NotAloneCarries DEF Begin
<1>3. calls' \in [Calls -> Call \cup {NULL}]
  BY <1>2 DEF Begin
<1> QED
  BY <1>1, <1>2, <1>3 DEF TypesHold, TypeOK, TablesType, CallsCarry

LEMMA AtOnceType ==
  ASSUME TypesHold, TablesType, AtOnce
  PROVE  TypesHold'
<1>1. operations' \in 0 .. MaxOperations
  BY Constants DEF TypesHold, TypeOK, AtOnce
<1>2. \A d \in Calls : calls'[d] \in Call \cup {NULL} /\ (calls'[d] # NULL => Carries(calls'[d]))
  BY NotAloneCarries DEF AtOnce
<1>3. calls' \in [Calls -> Call \cup {NULL}]
  BY <1>2 DEF AtOnce
<1> QED
  BY <1>1, <1>2, <1>3 DEF TypesHold, TypeOK, TablesType, CallsCarry

LEMMA ContinueType ==
  ASSUME TypesHold, TablesType, NEW c \in Calls, NEW call \in Call \cup {NULL},
         call # NULL => Carries(call), Continue(c, call)
  PROVE  TypesHold'
<1>1. operations' \in 0 .. MaxOperations
  BY DEF TypesHold, TypeOK, Continue
<1>2. calls' \in [Calls -> Call \cup {NULL}]
  BY DEF TypesHold, TypeOK, Continue
<1>3. \A d \in Calls : calls'[d] = IF d = c THEN call ELSE calls[d]
  BY DEF TypesHold, TypeOK, Continue
<1>4. CallsCarry'
  BY <1>3 DEF TypesHold, CallsCarry
<1> QED
  BY <1>1, <1>2, <1>4 DEF TypesHold, TypeOK, TablesType

LEMMA FinishType ==
  ASSUME TypesHold, TablesType, NEW c \in Calls, Finish(c)
  PROVE  TypesHold'
<1>1. Continue(c, NULL)
  BY DEF Finish
<1> QED
  BY <1>1, ContinueType

LEMMA RunningType ==
  ASSUME TypesHold, NEW c \in Calls, calls[c] # NULL
  PROVE  calls[c] \in Call /\ Carries(calls[c])
  BY DEF TypesHold, TypeOK, CallsCarry

\* The first of the candidates that are left.
LEMMA UpcomingIsOne ==
  ASSUME NEW call \in Call, call.todo # {}
  PROVE  Upcoming(call) \in call.todo
<1> DEFINE rows == {r.row : r \in call.todo}
<1>1. call.todo \subseteq [row : Nat, vendor : Vendors, cycle : BillingCycles, amount : Nat]
  BY DEF Call
<1>2. rows \subseteq Nat /\ rows # {}
  BY <1>1
<1> HIDE DEF rows
<1>3. PICK r \in call.todo : r.row = Min(rows)
  BY <1>2, LeastIsOne DEF rows
<1>4. \A other \in call.todo : r.row <= other.row
  BY <1>2, <1>3, LeastIsOne DEF rows
<1> QED
  BY <1>4 DEF Upcoming

LEMMA UpcomingType ==
  ASSUME NEW call \in Call, call.todo # {}
  PROVE  Upcoming(call) \in [row : Nat, vendor : Vendors, cycle : BillingCycles, amount : Nat]
<1>1. call.todo \subseteq [row : Nat, vendor : Vendors, cycle : BillingCycles, amount : Nat]
  BY DEF Call
<1> QED
  BY <1>1, UpcomingIsOne

\* A row is inserted at an id that was never used.
LEMMA UnusedIsOne ==
  ASSUME TypeOK
  PROVE  /\ Unused(plans) # {} => Min(Unused(plans)) \in Unused(plans)
         /\ Unused(charges) # {} => Min(Unused(charges)) \in Unused(charges)
         /\ Unused(plans) \subseteq Plans /\ Unused(charges) \subseteq Charges
<1>1. Unused(plans) \subseteq Plans /\ Unused(charges) \subseteq Charges
  BY DEF TypeOK, Unused
<1>2. Unused(plans) \subseteq Nat /\ Unused(charges) \subseteq Nat
  BY <1>1, Constants
<1> QED
  BY <1>1, <1>2, LeastIsOne

LEMMA FoundType ==
  ASSUME TypeOK
  PROVE  /\ \A p \in Plans : Found(plans, p) => plans[p] \in Plan
         /\ \A ch \in Charges : Found(charges, ch) => charges[ch] \in Charge
         /\ Rows(charges) \subseteq Charges
         /\ \A ch \in Rows(charges) : charges[ch] \in Charge
  BY DEF TypeOK, Found, Rows

\* What the in-memory check links a charge to is a subscription.
LEMMA PreparedType ==
  ASSUME NEW call \in Call, NEW row \in StatementRow
  PROVE  Prepared(call, row) \in Charge
<1>1. call.price[row.vendor] \in [id : Plans, amount : Nat] \cup {NULL}
  BY DEF Call, StatementRow
<1>2. ResolveChargedSubscriptionId(row.amount, call.price[row.vendor]) \in Plans \cup {NULL}
  BY <1>1 DEF ResolveChargedSubscriptionId
<1> QED
  BY <1>2 DEF Prepared, Charge, StatementRow

LEMMA ActiveByVendorType ==
  ASSUME TypeOK
  PROVE  ActiveByVendor \in [Vendors -> [id : Plans, amount : Nat] \cup {NULL}]
<1>1. ASSUME NEW v \in Vendors, ActiveOf(v) # {}
      PROVE  Min(ActiveOf(v)) \in ActiveOf(v) /\ Min(ActiveOf(v)) \in Plans
             /\ plans[Min(ActiveOf(v))].amount \in Nat
  <2>1. ActiveOf(v) \subseteq Plans /\ ActiveOf(v) \subseteq Nat
    BY Constants DEF ActiveOf
  <2>2. Min(ActiveOf(v)) \in ActiveOf(v)
    BY <1>1, <2>1, LeastIsOne
  <2>3. plans[Min(ActiveOf(v))] \in Plan
    BY <2>1, <2>2, FoundType DEF ActiveOf, Active
  <2> QED
    BY <2>1, <2>2, <2>3 DEF Plan
<1> QED
  BY <1>1 DEF ActiveByVendor

\* The steps of an import.
LEMMA StartImportType ==
  ASSUME TypesHold, NEW c \in Calls, NEW rows \in Statements, StartImport(c, rows)
  PROVE  TypesHold'
<1> DEFINE call == [NewCall("store") EXCEPT !.rows = rows, !.price = ActiveByVendor]
<1>1. ActiveByVendor \in [Vendors -> [id : Plans, amount : Nat] \cup {NULL}]
  BY ActiveByVendorType DEF TypesHold
<1>2. rows \in Seq(StatementRow)
  BY PlansAssumption
<1>3. call \in Call /\ call.op = "store"
  <2>1. NewCall("store") \in Call /\ NewCall("store").op = "store"
    BY NewCallType DEF Ops
  <2> QED
    BY <1>1, <1>2, <2>1 DEF Call
<1>4. Begin(c, call) /\ UNCHANGED <<profile, plans, charges>>
  BY DEF StartImport
<1> HIDE DEF call
<1>5. Carries(call)
  BY <1>3 DEF Carries
<1> QED
  BY <1>3, <1>4, <1>5, TablesUnchanged, BeginType

LEMMA StoreChargesType ==
  ASSUME TypesHold, NEW c \in Calls, StoreCharges(c)
  PROVE  TypesHold'
<1> DEFINE rows == calls[c].rows
           slot == SetToSortSeq(Unused(charges), <)
           At(ch) == CHOOSE k \in DOMAIN rows : slot[k] = ch
           call == [calls[c] EXCEPT !.op = "detect"]
<1>1. calls[c] \in Call
  BY RunningType DEF StoreCharges, Running
<1>2. call \in Call /\ call.op = "detect"
  BY <1>1 DEF Call
<1>3. \A k \in DOMAIN rows : Prepared(calls[c], rows[k]) \in Charge
  <2>1. \A k \in DOMAIN rows : rows[k] \in StatementRow
    BY <1>1 DEF Call
  <2> QED
    BY <1>1, <2>1, PreparedType
<1>4. charges' \in [Charges -> Charge \cup {NULL, Gone}]
  <2>1. \A ch \in Charges : (\E k \in DOMAIN rows : slot[k] = ch) => At(ch) \in DOMAIN rows
    OBVIOUS
  <2>2. charges' = [ch \in Charges |-> IF \E k \in DOMAIN rows : slot[k] = ch
                      THEN Prepared(calls[c], rows[At(ch)]) ELSE charges[ch]]
    BY DEF StoreCharges
  <2>3. charges \in [Charges -> Charge \cup {NULL, Gone}]
    BY DEF TypesHold, TypeOK
  <2> HIDE DEF rows, slot, At
  <2> QED
    BY <1>3, <2>1, <2>2, <2>3
<1>5. TablesType
  BY <1>4 DEF StoreCharges, TablesType, TypesHold, TypeOK
<1>6. Continue(c, call)
  BY DEF StoreCharges
<1> HIDE DEF call
<1>7. Carries(call)
  BY <1>2 DEF Carries
<1> QED
  BY <1>2, <1>5, <1>6, <1>7, ContinueType

\* What the import has found is confirmed with a cycle and a price.
LEMMA FoundRecurrences ==
  ASSUME TypesHold, NEW c \in Calls, ResolveRecurrences(c)
  PROVE  \E found, call :
           /\ \A k \in Candidates(calls[c]) :
                /\ found[k] \in RecurrencesOf(calls[c], calls[c].rows[k].vendor)
                /\ found[k] \in ProvedPrice \cup {NULL}
           /\ call \in Call /\ call.op = "match" /\ call.alone = calls[c].alone
           /\ call.plan = calls[c].plan /\ call.price = [v \in Vendors |-> NULL]
           /\ call.todo = {[row |-> k, vendor |-> calls[c].rows[k].vendor,
                            cycle |-> found[k].cycle, amount |-> found[k].amount] :
                              k \in {k \in Candidates(calls[c]) : found[k] # NULL}}
           /\ Continue(c, call)
<1> DEFINE rows == calls[c].rows
           candidates == Candidates(calls[c])
           Options(k) == RecurrencesOf(calls[c], rows[k].vendor)
           Todo(found) == {[row |-> k, vendor |-> rows[k].vendor,
                            cycle |-> found[k].cycle, amount |-> found[k].amount] :
                              k \in {k \in candidates : found[k] # NULL}}
<1>1. calls[c] # NULL /\ calls[c] \in Call
  BY RunningType DEF ResolveRecurrences, Running
<1>2. PICK found \in [candidates -> UNION {Options(k) : k \in candidates}] :
        /\ \A k \in candidates : found[k] \in Options(k)
        /\ Continue(c, [calls[c] EXCEPT
             !.op = "match", !.rows = <<>>, !.price = [v \in Vendors |-> NULL],
             !.todo = Todo(found)])
  BY DEF ResolveRecurrences
<1> DEFINE todo == Todo(found)
           none == [v \in Vendors |-> NULL]
           call == [calls[c] EXCEPT !.op = "match", !.rows = <<>>, !.price = none, !.todo = todo]
<1>3. candidates \subseteq Nat /\ \A k \in candidates : rows[k].vendor \in Vendors
  <2>1. rows \in Seq(StatementRow) /\ candidates \subseteq DOMAIN rows
    BY <1>1 DEF Call, Candidates, CandidateRows
  <2>2. \A k \in DOMAIN rows : k \in Nat /\ rows[k] \in StatementRow
    BY <2>1
  <2> QED
    BY <2>1, <2>2 DEF StatementRow
<1>4. \A k \in candidates : found[k] \in ProvedPrice \cup {NULL}
  <2> TAKE k \in candidates
  <2>1. rows[k].vendor \in Vendors
    BY <1>3
  <2>2. Options(k) \subseteq ProvedPrice \cup {NULL}
    BY <1>1, <2>1, RecurrencesType DEF TypesHold
  <2> QED
    BY <1>2, <2>2
<1>5. todo \subseteq [row : Nat, vendor : Vendors, cycle : BillingCycles, amount : Nat]
  <2> HIDE DEF candidates, rows
  <2>1. \A k \in candidates : found[k] # NULL =>
          [row |-> k, vendor |-> rows[k].vendor, cycle |-> found[k].cycle, amount |-> found[k].amount]
            \in [row : Nat, vendor : Vendors, cycle : BillingCycles, amount : Nat]
    BY <1>3, <1>4 DEF ProvedPrice
  <2> QED
    BY <2>1
<1>6. Continue(c, call)
  BY <1>2
<1>7. todo = {[row |-> k, vendor |-> calls[c].rows[k].vendor,
               cycle |-> found[k].cycle, amount |-> found[k].amount] :
                 k \in {k \in Candidates(calls[c]) : found[k] # NULL}}
  OBVIOUS
<1>8. none \in [Vendors -> [id : Plans, amount : Nat] \cup {NULL}] /\ <<>> \in Seq(StatementRow)
  OBVIOUS
<1> HIDE DEF todo, none, candidates, rows, Options, Todo
<1>9. /\ call \in Call /\ call.op = "match"
      /\ call.alone = calls[c].alone
      /\ call.plan = calls[c].plan /\ call.price = none
      /\ call.todo = todo
  BY <1>1, <1>5, <1>8 DEF Call
<1> HIDE DEF call
<1> QED
  BY <1>2, <1>4, <1>6, <1>7, <1>9 DEF none, candidates, Options, rows

LEMMA ResolveRecurrencesType ==
  ASSUME TypesHold, NEW c \in Calls, ResolveRecurrences(c)
  PROVE  TypesHold'
<1>1. PICK found, call : call \in Call /\ call.op = "match" /\ Continue(c, call)
  BY FoundRecurrences
<1>2. Carries(call)
  BY <1>1 DEF Carries
<1>3. TablesType
  BY TablesUnchanged DEF ResolveRecurrences
<1> QED
  BY <1>1, <1>2, <1>3, ContinueType

LEMMA FindActiveMatchType ==
  ASSUME TypesHold, NEW c \in Calls, FindActiveMatch(c)
  PROVE  TypesHold'
<1>1. calls[c] \in Call /\ calls[c].todo # {}
  BY RunningType DEF FindActiveMatch, Running
<1>2. PICK p \in Plans \cup {NULL} : Continue(c, [calls[c] EXCEPT !.op = "confirm", !.plan = p])
  <2>1. ActiveMatches(Upcoming(calls[c])) \subseteq Plans
    BY DEF ActiveMatches, ActiveOf
  <2> QED
    BY <2>1 DEF FindActiveMatch
<1> DEFINE call == [calls[c] EXCEPT !.op = "confirm", !.plan = p]
<1>3. call \in Call /\ call.op = "confirm" /\ call.todo # {}
  BY <1>1, <1>2 DEF Call
<1>4. Continue(c, call)
  BY <1>2
<1> HIDE DEF call
<1>5. Carries(call)
  BY <1>3 DEF Carries
<1>6. TablesType
  BY TablesUnchanged DEF FindActiveMatch
<1> QED
  BY <1>3, <1>4, <1>5, <1>6, ContinueType

\* After a candidate comes the next one.
LEMMA NextCandidateType ==
  ASSUME TypesHold, TablesType, NEW c \in Calls, calls[c] # NULL, NextCandidate(c)
  PROVE  TypesHold'
<1> DEFINE call == [calls[c] EXCEPT !.op = "match", !.plan = NULL,
                                    !.todo = @ \ {Upcoming(calls[c])}]
<1>1. calls[c] \in Call
  BY RunningType
<1>2. call \in Call /\ call.op = "match"
  BY <1>1 DEF Call
<1>3. Continue(c, call)
  BY DEF NextCandidate
<1> HIDE DEF call
<1>4. Carries(call)
  BY <1>2 DEF Carries
<1> QED
  BY <1>2, <1>3, <1>4, ContinueType

\* The subscription that a candidate is linked to, and what it is confirmed with.
LEMMA ConfirmedPlan ==
  ASSUME TypesHold, NEW c \in Calls, ConfirmRecurrence(c)
  PROVE  \E p \in Plans, r \in [row : Nat, vendor : Vendors, cycle : BillingCycles, amount : Nat] :
           /\ calls[c] \in Call /\ calls[c] # NULL /\ calls[c].op = "confirm"
           /\ r = Upcoming(calls[c]) /\ r \in calls[c].todo
           /\ \/ p = calls[c].plan /\ calls[c].plan # NULL /\ UNCHANGED plans
              \/ /\ calls[c].plan = NULL /\ p \in Unused(plans)
                 /\ plans' = [plans EXCEPT ![p] = NewPlan(r.vendor, r.amount, r.cycle)]
           /\ LinkUnassignedVendorCharges(r.vendor, p, r.amount)
           /\ NextCandidate(c)
<1> DEFINE p == IF calls[c].plan # NULL THEN calls[c].plan ELSE Min(Unused(plans))
           r == Upcoming(calls[c])
<1>1. calls[c] # NULL /\ calls[c].op = "confirm"
  BY DEF ConfirmRecurrence, Running
<1>2. calls[c] \in Call /\ calls[c].todo # {}
  BY <1>1, RunningType DEF Carries
<1>3. r \in [row : Nat, vendor : Vendors, cycle : BillingCycles, amount : Nat] /\ r \in calls[c].todo
  BY <1>2, UpcomingType, UpcomingIsOne
<1>4. calls[c].plan = NULL => Unused(plans) # {}
  BY DEF ConfirmRecurrence
<1>5. calls[c].plan = NULL => p \in Unused(plans) /\ p \in Plans
  BY <1>4, UnusedIsOne DEF TypesHold
<1>6. p \in Plans
  BY <1>2, <1>5 DEF Call
<1>7. /\ LinkUnassignedVendorCharges(r.vendor, p, r.amount)
      /\ NextCandidate(c)
      /\ \/ p = calls[c].plan /\ calls[c].plan # NULL /\ UNCHANGED plans
         \/ /\ calls[c].plan = NULL
            /\ plans' = [plans EXCEPT ![p] = NewPlan(r.vendor, r.amount, r.cycle)]
  BY DEF ConfirmRecurrence
<1> HIDE DEF p, r
<1> QED
  BY <1>1, <1>2, <1>3, <1>5, <1>6, <1>7 DEF r

LEMMA NewPlanType ==
  ASSUME NEW v \in Vendors \cup {NULL}, NEW amount \in Nat, NEW cycle \in BillingCycles
  PROVE  NewPlan(v, amount, cycle) \in Plan
  BY DEF NewPlan, Plan, Statuses

LEMMA LinkType ==
  ASSUME TypesHold, NEW v, NEW p \in Plans, NEW amount, LinkUnassignedVendorCharges(v, p, amount)
  PROVE  charges' \in [Charges -> Charge \cup {NULL, Gone}]
<1>1. \A ch \in Charges : Unlinked(ch) => [charges[ch] EXCEPT !.plan = p, !.chosen = FALSE] \in Charge
  BY FoundType DEF TypesHold, Unlinked, Charge
<1>2. charges \in [Charges -> Charge \cup {NULL, Gone}]
  BY DEF TypesHold, TypeOK
<1> QED
  BY <1>1, <1>2 DEF LinkUnassignedVendorCharges

LEMMA ConfirmRecurrenceType ==
  ASSUME TypesHold, NEW c \in Calls, ConfirmRecurrence(c)
  PROVE  TypesHold'
<1>1. PICK p \in Plans, r \in [row : Nat, vendor : Vendors, cycle : BillingCycles, amount : Nat] :
        /\ calls[c] # NULL
        /\ \/ UNCHANGED plans
           \/ plans' = [plans EXCEPT ![p] = NewPlan(r.vendor, r.amount, r.cycle)]
        /\ LinkUnassignedVendorCharges(r.vendor, p, r.amount)
        /\ NextCandidate(c)
  BY ConfirmedPlan
<1>2. NewPlan(r.vendor, r.amount, r.cycle) \in Plan
  BY NewPlanType
<1>3. plans' \in [Plans -> Plan \cup {NULL, Gone}]
  BY <1>1, <1>2 DEF TypesHold, TypeOK
<1>4. charges' \in [Charges -> Charge \cup {NULL, Gone}]
  BY <1>1, LinkType
<1>5. profile' \in Profiles
  BY DEF ConfirmRecurrence, TypesHold, TypeOK
<1> QED
  BY <1>1, <1>3, <1>4, <1>5, NextCandidateType DEF TablesType

LEMMA ImportType ==
  ASSUME TypesHold, NEW c \in Calls, ImportStep(c)
  PROVE  TypesHold'
<1>1. ASSUME NEW rows \in Statements, StartImport(c, rows) PROVE TypesHold'
  BY <1>1, StartImportType
<1>2. CASE RollBackRecurrence(c)
  BY <1>2, TablesUnchanged, NextCandidateType DEF RollBackRecurrence, Running
<1>3. CASE EndImport(c)
  BY <1>3, TablesUnchanged, FinishType DEF EndImport
<1> QED
  BY <1>1, <1>2, <1>3, StoreChargesType, ResolveRecurrencesType, FindActiveMatchType,
     ConfirmRecurrenceType DEF ImportStep

\* The user and the subscriptions.
LEMMA StartOnPlanType ==
  ASSUME TypesHold, NEW c \in Calls, NEW p \in Plans,
         NEW op \in {"edit", "request", "cancel", "remove", "record"},
         NEW change \in Edits \cup Payments \cup {NULL},
         op = "edit" => change \in Edits, op = "record" => change \in Payments,
         StartOnPlan(c, op, p, change)
  PROVE  TypesHold'
<1> DEFINE call == [NewCall(op) EXCEPT !.plan = p, !.change = change]
<1>1. call \in Call /\ call.op = op /\ call.plan = p /\ call.change = change
  <2>1. NewCall(op) \in Call /\ NewCall(op).op = op
    BY NewCallType DEF Ops
  <2> QED
    BY <2>1 DEF Call
<1>2. Begin(c, call) /\ UNCHANGED <<profile, plans, charges>>
  BY DEF StartOnPlan
<1> HIDE DEF call
<1>3. Carries(call)
  BY <1>1 DEF Carries
<1> QED
  BY <1>1, <1>2, <1>3, TablesUnchanged, BeginType

LEMMA UpdatePlanType ==
  ASSUME TypesHold, NEW p \in Plans, NEW row, Found(plans, p) => row \in Plan, UpdatePlan(p, row),
         UNCHANGED <<profile, charges>>
  PROVE  TablesType
  BY DEF TypesHold, TypeOK, UpdatePlan, TablesType

\* An edit sets what it mentions and keeps the rest.
LEMMA EditedRow ==
  ASSUME NEW old \in Plan, NEW edit \in Edits, NEW row,
         row = [f \in DOMAIN old |-> IF f = "edited" THEN TRUE
                  ELSE IF f \in DOMAIN edit THEN edit[f] ELSE old[f]]
  PROVE  row \in Plan /\ row.edited = TRUE /\ row.status = old.status
<1>1. DOMAIN old = {"vendor", "amount", "cycle", "status", "edited"}
  BY DEF Plan
<1>2. /\ DOMAIN edit \subseteq {"vendor", "amount", "cycle"}
      /\ "vendor" \in DOMAIN edit => edit.vendor \in Vendors
      /\ "amount" \in DOMAIN edit => edit.amount \in Nat
      /\ "cycle" \in DOMAIN edit => edit.cycle \in BillingCycles
  BY PlansAssumption
<1>3. /\ DOMAIN row = {"vendor", "amount", "cycle", "status", "edited"}
      /\ \A f \in {"vendor", "amount", "cycle", "status", "edited"} :
           row[f] = IF f = "edited" THEN TRUE
                      ELSE IF f \in DOMAIN edit THEN edit[f] ELSE old[f]
  BY <1>1
<1>4. /\ old.vendor \in Vendors \cup {NULL} /\ old.amount \in Nat /\ old.cycle \in BillingCycles
      /\ old.status \in Statuses
  BY DEF Plan
<1>5. row.edited = TRUE /\ row.status = old.status
  BY <1>2, <1>3
<1>6. row.vendor \in Vendors \cup {NULL} /\ row.amount \in Nat /\ row.cycle \in BillingCycles
  BY <1>2, <1>3, <1>4
<1>7. row = [vendor |-> row.vendor, amount |-> row.amount, cycle |-> row.cycle,
             status |-> row.status, edited |-> row.edited]
  <2>1. row = [f \in {"vendor", "amount", "cycle", "status", "edited"} |-> row[f]]
    BY <1>1
  <2> QED
    BY <1>3, <2>1
<1> QED
  BY <1>4, <1>5, <1>6, <1>7 DEF Plan

LEMMA PlanStepType ==
  ASSUME TypesHold, NEW c \in Calls, PlanStep(c)
  PROVE  TypesHold'
<1>1. ASSUME NEW p \in Plans, NEW edit \in Edits, EditPlan(c, p, edit) PROVE TypesHold'
  BY <1>1, StartOnPlanType DEF EditPlan
<1>2. ASSUME NEW p \in Plans, RequestCancellation(c, p) PROVE TypesHold'
  BY <1>2, StartOnPlanType DEF RequestCancellation
<1>3. ASSUME NEW p \in Plans, ConfirmCancellation(c, p) PROVE TypesHold'
  BY <1>3, StartOnPlanType DEF ConfirmCancellation
<1>4. ASSUME NEW p \in Plans, RemovePlan(c, p) PROVE TypesHold'
  BY <1>4, StartOnPlanType DEF RemovePlan
<1> DEFINE p == calls[c].plan
<1>5. CASE EditPlanStore(c)
  <2>1. p \in Plans /\ calls[c].change \in Edits
    BY <1>5, RunningType DEF EditPlanStore, Running, Carries
  <2> DEFINE row == [f \in DOMAIN plans[p] |-> IF f = "edited" THEN TRUE
                       ELSE IF f \in DOMAIN calls[c].change THEN calls[c].change[f] ELSE plans[p][f]]
  <2>2. UpdatePlan(p, row) /\ Finish(c) /\ UNCHANGED <<profile, charges>>
    BY <1>5 DEF EditPlanStore
  <2>3. Found(plans, p) => row \in Plan
    BY <2>1, FoundType, EditedRow DEF TypesHold
  <2> HIDE DEF row, p
  <2> QED
    BY <2>1, <2>2, <2>3, UpdatePlanType, FinishType
<1>6. CASE RequestCancellationStore(c)
  <2>1. p \in Plans
    BY <1>6, RunningType DEF RequestCancellationStore, Running, Carries
  <2> DEFINE row == [plans[p] EXCEPT !.status = "CANCELLATION_REQUESTED"]
  <2>2. UpdatePlan(p, row) /\ Finish(c) /\ UNCHANGED <<profile, charges>>
    BY <1>6 DEF RequestCancellationStore
  <2>3. Found(plans, p) => row \in Plan
    BY <2>1, FoundType DEF TypesHold, Plan, Statuses
  <2> HIDE DEF row, p
  <2> QED
    BY <2>1, <2>2, <2>3, UpdatePlanType, FinishType
<1>7. CASE ConfirmCancellationStore(c)
  <2>1. p \in Plans
    BY <1>7, RunningType DEF ConfirmCancellationStore, Running, Carries
  <2> DEFINE row == [plans[p] EXCEPT !.status = "CANCELLED"]
  <2>2. UpdatePlan(p, row) /\ Finish(c) /\ UNCHANGED <<profile, charges>>
    BY <1>7 DEF ConfirmCancellationStore
  <2>3. Found(plans, p) => row \in Plan
    BY <2>1, FoundType DEF TypesHold, Plan, Statuses
  <2> HIDE DEF row, p
  <2> QED
    BY <2>1, <2>2, <2>3, UpdatePlanType, FinishType
<1>8. CASE RemovePlanStore(c)
  <2>1. TablesType
    BY <1>8 DEF RemovePlanStore, SoftDelete, TablesType, TypesHold, TypeOK
  <2> QED
    BY <1>8, <2>1, FinishType DEF RemovePlanStore
<1> QED
  BY <1>1, <1>2, <1>3, <1>4, <1>5, <1>6, <1>7, <1>8 DEF PlanStep

\* The user and the charges.
LEMMA RecordedType ==
  ASSUME NEW payment \in Payments, NEW p \in Plans \cup {NULL}
  PROVE  Recorded(payment, p) \in Charge
  BY PlansAssumption DEF Recorded, Charge

LEMMA InsertChargeType ==
  ASSUME TypesHold, NEW row \in Charge, Unused(charges) # {},
         charges' = [charges EXCEPT ![Min(Unused(charges))] = row],
         UNCHANGED <<profile, plans>>
  PROVE  TablesType
  BY UnusedIsOne DEF TypesHold, TypeOK, TablesType

LEMMA ChargeStepType ==
  ASSUME TypesHold, NEW c \in Calls, ChargeStep(c)
  PROVE  TypesHold'
<1>1. ASSUME NEW payment \in Payments, NEW p \in Plans, RecordChargeOf(c, payment, p)
      PROVE  TypesHold'
  BY <1>1, StartOnPlanType DEF RecordChargeOf
<1>2. ASSUME NEW ch \in Charges, NEW p \in Plans \cup {NULL}, AttachSubscription(c, ch, p)
      PROVE  TypesHold'
  <2> DEFINE call == [NewCall("attach") EXCEPT !.charge = ch, !.plan = p]
  <2>1. NewCall("attach") \in Call /\ NewCall("attach").op = "attach"
    BY NewCallType DEF Ops
  <2>2. call \in Call /\ call.op = "attach" /\ call.charge = ch
    BY <2>1 DEF Call
  <2>3. Begin(c, call) /\ UNCHANGED <<profile, plans, charges>>
    BY <1>2 DEF AttachSubscription
  <2> HIDE DEF call
  <2>4. Carries(call)
    BY <2>2 DEF Carries
  <2> QED
    BY <2>2, <2>3, <2>4, TablesUnchanged, BeginType
<1>3. ASSUME NEW ch \in Charges, DeleteCharge(c, ch) PROVE TypesHold'
  <2> DEFINE call == [NewCall("delete") EXCEPT !.charge = ch]
  <2>1. NewCall("delete") \in Call /\ NewCall("delete").op = "delete"
    BY NewCallType DEF Ops
  <2>2. call \in Call /\ call.op = "delete" /\ call.charge = ch
    BY <2>1 DEF Call
  <2>3. Begin(c, call) /\ UNCHANGED <<profile, plans, charges>>
    BY <1>3 DEF DeleteCharge
  <2> HIDE DEF call
  <2>4. Carries(call)
    BY <2>2 DEF Carries
  <2> QED
    BY <2>2, <2>3, <2>4, TablesUnchanged, BeginType
<1>4. CASE RecordChargeStore(c)
  <2>1. calls[c].plan \in Plans /\ calls[c].change \in Payments
    BY <1>4, RunningType DEF RecordChargeStore, Running, Carries
  <2>2. Recorded(calls[c].change, calls[c].plan) \in Charge
    BY <2>1, RecordedType
  <2> QED
    BY <1>4, <2>2, InsertChargeType, FinishType DEF RecordChargeStore
<1>5. CASE AttachSubscriptionStore(c)
  <2> DEFINE ch == calls[c].charge
             row == [charges[ch] EXCEPT !.plan = calls[c].plan, !.chosen = (calls[c].plan # NULL)]
  <2>1. ch \in Charges /\ calls[c].plan \in Plans \cup {NULL}
    BY <1>5, RunningType DEF AttachSubscriptionStore, Running, Carries, Call
  <2>2. Found(charges, ch) => row \in Charge
    BY <2>1, FoundType DEF TypesHold, Charge
  <2>3. UpdateCharge(ch, row) /\ Finish(c) /\ UNCHANGED <<profile, plans>>
    BY <1>5 DEF AttachSubscriptionStore
  <2> HIDE DEF ch, row
  <2>4. TablesType
    BY <2>1, <2>2, <2>3 DEF UpdateCharge, TablesType, TypesHold, TypeOK
  <2> QED
    BY <2>3, <2>4, FinishType
<1>6. CASE DeleteChargeStore(c)
  <2>1. TablesType
    BY <1>6 DEF DeleteChargeStore, SoftDelete, TablesType, TypesHold, TypeOK
  <2> QED
    BY <1>6, <2>1, FinishType DEF DeleteChargeStore
<1> QED
  BY <1>1, <1>2, <1>3, <1>4, <1>5, <1>6 DEF ChargeStep

\* A total of the charges in some rows is a number.
LEMMA TotalType ==
  ASSUME TypeOK, NEW ids \in SUBSET Rows(charges)
  PROVE  AmountOf(ids) \in Nat
<1> DEFINE amount == [ch \in ids |-> charges[ch].amount]
<1>1. IsFiniteSet(ids)
  BY FoundType, Constants, FS_Subset
<1>2. \A ch \in ids : amount[ch] \in Nat
  BY FoundType DEF Charge
<1>3. AmountOf(ids) = SumFunctionOnSet(amount, ids)
  BY DEF AmountOf, SumFunction
<1> HIDE DEF amount
<1> QED
  BY <1>1, <1>2, <1>3, SumNat

\* A summary has the amounts of the totals it is made of, whatever became of the
\* subscriptions.
LEMMA SummaryBalances ==
  ASSUME NEW spend \in [total : Nat, unlinked : Nat], NEW billed \in [Plans -> Nat],
         NEW summary, summary = ToTransactionSummary(spend, billed)
  PROVE  /\ summary \in [unlinked : Nat, billed : [Plans -> Nat]]
         /\ summary.unlinked + SumFunction(summary.billed) = spend.unlinked + SumFunction(billed)
<1> DEFINE orphans == [p \in Plans |-> IF Found(plans, p) THEN 0 ELSE billed[p]]
           kept == [p \in Plans |-> IF Found(plans, p) THEN billed[p] ELSE 0]
<1>1. /\ orphans \in [Plans -> Nat] /\ kept \in [Plans -> Nat]
      /\ \A p \in Plans : billed[p] = orphans[p] + kept[p]
  OBVIOUS
<1>2. summary = [unlinked |-> spend.unlinked + SumFunction(orphans), billed |-> kept]
  BY DEF ToTransactionSummary
<1> HIDE DEF orphans, kept
<1>3. /\ SumFunction(orphans) = SumFunctionOnSet(orphans, Plans)
      /\ SumFunction(kept) = SumFunctionOnSet(kept, Plans)
      /\ SumFunction(billed) = SumFunctionOnSet(billed, Plans)
  BY <1>1 DEF SumFunction
<1>4. SumFunctionOnSet(orphans, Plans) \in Nat /\ SumFunctionOnSet(kept, Plans) \in Nat
  BY <1>1, Constants, SumNat
<1>5. SumFunctionOnSet(billed, Plans)
        = SumFunctionOnSet(orphans, Plans) + SumFunctionOnSet(kept, Plans)
  <2>1. \A p \in Plans : orphans[p] \in Int /\ kept[p] \in Int /\ billed[p] = orphans[p] + kept[p]
    BY <1>1
  <2>2. IsFiniteSet(Plans)
    BY Constants
  <2> QED
    BY ONLY <2>1, <2>2, SumSplit
<1>6. spend.unlinked \in Nat
  OBVIOUS
<1>7. spend.unlinked + SumFunction(orphans) \in Nat
  BY <1>3, <1>4, <1>6
<1>8. summary.unlinked = spend.unlinked + SumFunction(orphans) /\ summary.billed = kept
  BY <1>2
<1> QED
  BY <1>1, <1>2, <1>3, <1>4, <1>5, <1>6, <1>7, <1>8

LEMMA SummariseType ==
  ASSUME TypesHold, NEW c \in Calls, NEW call \in Call, call.op = "summarise", Summarise(c, call)
  PROVE  TypesHold'
<1> DEFINE next == IF call.spend # NULL /\ call.billed # NULL THEN "findPlans" ELSE "summarise"
           later == [call EXCEPT !.op = next]
<1>1. next \in {"findPlans", "summarise"}
      /\ (next = "findPlans" => call.spend # NULL /\ call.billed # NULL)
  OBVIOUS
<1> HIDE DEF next
<1>2. /\ later \in Call /\ later.op = next
      /\ later.spend = call.spend /\ later.billed = call.billed
  BY <1>1 DEF Call
<1>3. Continue(c, later) /\ UNCHANGED <<profile, plans, charges>>
  BY DEF Summarise, next
<1> HIDE DEF later
<1>4. Carries(later)
  BY <1>1, <1>2 DEF Carries
<1> QED
  BY <1>2, <1>3, <1>4, TablesUnchanged, ContinueType

LEMMA SummaryStepType ==
  ASSUME TypesHold, NEW c \in Calls, SummaryStep(c)
  PROVE  TypesHold'
<1>1. CASE GetSummary(c)
  <2>1. NewCall("summarise") \in Call /\ NewCall("summarise").op = "summarise"
    BY NewCallType DEF Ops
  <2>2. Carries(NewCall("summarise"))
    BY <2>1 DEF Carries
  <2> QED
    BY <1>1, <2>1, <2>2, TablesUnchanged, BeginType DEF GetSummary
<1>2. CASE GetCategorySpend(c)
  <2> DEFINE call == [calls[c] EXCEPT !.spend = CategorySpend]
  <2>1. calls[c] \in Call /\ calls[c].op = "summarise"
    BY <1>2, RunningType DEF GetCategorySpend, Running
  <2>2. CategorySpend \in [total : Nat, unlinked : Nat]
    BY TotalType DEF CategorySpend, TypesHold
  <2>3. call \in Call /\ call.op = "summarise"
    BY <2>1, <2>2 DEF Call
  <2>4. Summarise(c, call)
    BY <1>2 DEF GetCategorySpend
  <2> HIDE DEF call
  <2> QED
    BY <2>3, <2>4, SummariseType
<1>3. CASE GetSubscriptionCharges(c)
  <2> DEFINE call == [calls[c] EXCEPT !.billed = SubscriptionCharges]
  <2>1. calls[c] \in Call /\ calls[c].op = "summarise"
    BY <1>3, RunningType DEF GetSubscriptionCharges, Running
  <2>2. SubscriptionCharges \in [Plans -> Nat]
    BY TotalType DEF SubscriptionCharges, TypesHold
  <2>3. call \in Call /\ call.op = "summarise"
    BY <2>1, <2>2 DEF Call
  <2>4. Summarise(c, call)
    BY <1>3 DEF GetSubscriptionCharges
  <2> HIDE DEF call
  <2> QED
    BY <2>3, <2>4, SummariseType
<1>4. CASE FindPlansOfSummary(c)
  <2> DEFINE summary == ToTransactionSummary(calls[c].spend, calls[c].billed)
             call == [calls[c] EXCEPT !.op = "answer", !.summary = summary]
  <2>1. /\ calls[c] \in Call /\ calls[c].spend \in [total : Nat, unlinked : Nat]
        /\ calls[c].billed \in [Plans -> Nat] /\ calls[c].spend # NULL /\ calls[c].billed # NULL
    BY <1>4, RunningType DEF FindPlansOfSummary, Running, Call, Carries
  <2>2. /\ summary \in [unlinked : Nat, billed : [Plans -> Nat]]
        /\ summary.unlinked + SumFunction(summary.billed)
             = calls[c].spend.unlinked + SumFunction(calls[c].billed)
    BY <2>1, SummaryBalances
  <2>3. Continue(c, call) /\ UNCHANGED <<profile, plans, charges>>
    BY <1>4 DEF FindPlansOfSummary
  <2> HIDE DEF summary
  <2>4. /\ call \in Call /\ call.op = "answer" /\ call.summary = summary
        /\ call.spend = calls[c].spend /\ call.billed = calls[c].billed
    BY <2>1, <2>2 DEF Call
  <2> HIDE DEF call
  <2>5. Carries(call)
    BY <2>1, <2>2, <2>4 DEF Carries, Balanced
  <2> QED
    BY <2>3, <2>4, <2>5, TablesUnchanged, ContinueType
<1>5. CASE AnswerSummary(c)
  BY <1>5, TablesUnchanged, FinishType DEF AnswerSummary
<1> QED
  BY <1>1, <1>2, <1>3, <1>4, <1>5 DEF SummaryStep

LEMMA NextTypes ==
  ASSUME TypesHold, [Next]_vars
  PROVE  TypesHold'
<1>1. ASSUME NEW c \in Calls, AbandonCall(c) PROVE TypesHold'
  BY <1>1, TablesUnchanged, FinishType DEF AbandonCall
<1>2. ASSUME NEW new \in NewPlans, CreatePlan(new) PROVE TypesHold'
  <2>1. NewPlan(new.vendor, new.amount, new.cycle) \in Plan
    BY PlansAssumption, NewPlanType
  <2>2. TablesType
    BY <1>2, <2>1, UnusedIsOne DEF CreatePlan, TablesType, TypesHold, TypeOK
  <2> QED
    BY <1>2, <2>2, AtOnceType DEF CreatePlan
<1>3. ASSUME NEW payment \in Payments, RecordCharge(payment) PROVE TypesHold'
  <2>1. Recorded(payment, NULL) \in Charge
    BY RecordedType
  <2>2. TablesType
    BY <1>3, <2>1, InsertChargeType DEF RecordCharge
  <2> QED
    BY <1>3, <2>2, AtOnceType DEF RecordCharge
<1>4. CASE UNCHANGED vars
  BY <1>4 DEF vars, TypesHold, TypeOK, CallsCarry
<1> QED
  BY <1>1, <1>2, <1>3, <1>4, ImportType, PlanStepType, ChargeStepType, SummaryStepType DEF Next

LEMMA InitTypes == Init => TypesHold
<1> SUFFICES ASSUME Init PROVE TypesHold
  OBVIOUS
<1>1. TypeOK
  BY Constants DEF Init, TypeOK
<1>2. CallsCarry
  BY DEF Init, CallsCarry
<1> QED
  BY <1>1, <1>2 DEF TypesHold

LEMMA AlwaysTypes == Spec => []TypesHold
  BY InitTypes, NextTypes, PTL DEF Spec

\* Every variable of the module keeps its type, whatever the statements, the handlers
\* and their order.
THEOREM TypeCorrect == Spec => []TypeOK
<1>1. TypesHold => TypeOK
  BY DEF TypesHold
<1> QED
  BY <1>1, AlwaysTypes, PTL

\* A summary counts each amount once (toTransactionSummary): the amounts of the
\* subscriptions that are gone when it looks for them go to the regular spend.
THEOREM SummariesAddUp == Spec => []SummaryAddsUp
<1>1. TypesHold => SummaryAddsUp
  BY DEF TypesHold, CallsCarry, Carries, Balanced, SummaryAddsUp, Running
<1> QED
  BY <1>1, AlwaysTypes, PTL

-----------------------------------------------------------------------------
(* The charges that an import linked are at the price of the subscription. *)

\* What a step may change of a subscription that the user has not changed.
PlansKeep ==
    \A p \in Plans : plans[p] # NULL =>
        /\ plans'[p] # NULL
        /\ Found(plans', p) /\ ~plans'[p].edited =>
             /\ Found(plans, p) /\ ~plans[p].edited
             /\ plans'[p].vendor = plans[p].vendor /\ plans'[p].amount = plans[p].amount

LEMMA InsertKeeps ==
  ASSUME TypesHold, NEW p \in Unused(plans), NEW row, plans' = [plans EXCEPT ![p] = row]
  PROVE  PlansKeep
  BY DEF TypesHold, TypeOK, Unused, PlansKeep, Found

LEMMA UpdateKeeps ==
  ASSUME TypesHold, NEW p \in Plans, NEW row, UpdatePlan(p, row),
         Found(plans, p) =>
           /\ row \in Plan
           /\ ~row.edited => /\ ~plans[p].edited /\ row.vendor = plans[p].vendor
                             /\ row.amount = plans[p].amount
  PROVE  PlansKeep
<1>1. plans \in [Plans -> Plan \cup {NULL, Gone}]
  BY DEF TypesHold, TypeOK
<1>2. plans' = [plans EXCEPT ![p] = IF Found(plans, p) THEN row ELSE @]
  BY DEF UpdatePlan
<1>3. Found(plans, p) => row # NULL
  BY Constants
<1> QED
  BY <1>1, <1>2, <1>3 DEF PlansKeep, Found

LEMMA NextKeeps ==
  ASSUME TypesHold, [Next]_vars
  PROVE  PlansKeep
<1>1. CASE UNCHANGED plans
  BY <1>1 DEF PlansKeep, Found
<1>2. ASSUME NEW new \in NewPlans, CreatePlan(new) PROVE PlansKeep
  BY <1>2, UnusedIsOne, InsertKeeps DEF CreatePlan, TypesHold
<1>3. ASSUME NEW c \in Calls, ConfirmRecurrence(c) PROVE PlansKeep
  BY <1>1, <1>3, ConfirmedPlan, InsertKeeps
<1>4. ASSUME NEW c \in Calls, EditPlanStore(c) PROVE PlansKeep
  <2> DEFINE p == calls[c].plan
             row == [f \in DOMAIN plans[p] |-> IF f = "edited" THEN TRUE
                       ELSE IF f \in DOMAIN calls[c].change THEN calls[c].change[f] ELSE plans[p][f]]
  <2>1. p \in Plans /\ calls[c].change \in Edits
    BY <1>4, RunningType DEF EditPlanStore, Running, Carries
  <2>2. UpdatePlan(p, row)
    BY <1>4 DEF EditPlanStore
  <2>3. ASSUME Found(plans, p) PROVE row \in Plan /\ row.edited = TRUE
    <3>1. plans[p] \in Plan
      BY <2>1, <2>3, FoundType DEF TypesHold
    <3> HIDE DEF p
    <3> QED
      BY <2>1, <3>1, EditedRow
  <2> HIDE DEF row, p
  <2> QED
    BY <2>1, <2>2, <2>3, UpdateKeeps
<1>5. ASSUME NEW c \in Calls, NEW status \in Statuses, calls[c].plan \in Plans,
             UpdatePlan(calls[c].plan, [plans[calls[c].plan] EXCEPT !.status = status])
      PROVE  PlansKeep
  <2> DEFINE p == calls[c].plan
             row == [plans[p] EXCEPT !.status = status]
  <2>1. Found(plans, p) => /\ row \in Plan /\ row.edited = plans[p].edited
                           /\ row.vendor = plans[p].vendor /\ row.amount = plans[p].amount
    BY <1>5, FoundType DEF TypesHold, Plan
  <2>2. UpdatePlan(p, row) /\ p \in Plans
    BY <1>5
  <2> HIDE DEF row, p
  <2> QED
    BY <2>1, <2>2, UpdateKeeps
<1>6. ASSUME NEW c \in Calls, RequestCancellationStore(c) PROVE PlansKeep
  <2>1. calls[c].plan \in Plans
    BY <1>6, RunningType DEF RequestCancellationStore, Running, Carries
  <2> QED
    BY <1>5, <1>6, <2>1 DEF RequestCancellationStore, Statuses
<1>7. ASSUME NEW c \in Calls, ConfirmCancellationStore(c) PROVE PlansKeep
  <2>1. calls[c].plan \in Plans
    BY <1>7, RunningType DEF ConfirmCancellationStore, Running, Carries
  <2> QED
    BY <1>5, <1>7, <2>1 DEF ConfirmCancellationStore, Statuses
<1>8. ASSUME NEW c \in Calls, RemovePlanStore(c) PROVE PlansKeep
  BY <1>8, Constants DEF RemovePlanStore, SoftDelete, Found, PlansKeep, TypesHold, TypeOK
<1>9. ASSUME NEW c \in Calls, ImportStep(c) PROVE PlansKeep
  BY <1>1, <1>3, <1>9 DEF ImportStep, StartImport, StoreCharges, ResolveRecurrences,
     FindActiveMatch, RollBackRecurrence, EndImport
<1>10. ASSUME NEW c \in Calls, PlanStep(c) PROVE PlansKeep
  BY <1>1, <1>4, <1>6, <1>7, <1>8, <1>10 DEF PlanStep, EditPlan, RequestCancellation,
     ConfirmCancellation, RemovePlan, StartOnPlan
<1>11. ASSUME NEW c \in Calls, ChargeStep(c) PROVE PlansKeep
  BY <1>1, <1>11 DEF ChargeStep, RecordChargeOf, StartOnPlan, AttachSubscription, DeleteCharge,
     RecordChargeStore, AttachSubscriptionStore, DeleteChargeStore
<1>12. ASSUME NEW c \in Calls, SummaryStep(c) PROVE PlansKeep
  BY <1>1, <1>12 DEF SummaryStep, GetSummary, GetCategorySpend, GetSubscriptionCharges,
     Summarise, FindPlansOfSummary, AnswerSummary
<1> QED
  BY <1>1, <1>2, <1>9, <1>10, <1>11, <1>12 DEF Next, vars, AbandonCall, RecordCharge

\* What a handler knows of the subscriptions outlives the steps of the others.
LEMMA KnowsKept ==
  ASSUME PlansKeep, NEW call \in Call, Knows(plans, call), call.op = "confirm" => call.todo # {}
  PROVE  Knows(plans', call)
<1>1. ASSUME NEW p \in Plans, NEW v, NEW amount, StillSays(plans, p, v, amount)
      PROVE  StillSays(plans', p, v, amount)
  BY <1>1 DEF PlansKeep, StillSays
<1>2. call.plan # NULL => call.plan \in Plans
  BY DEF Call
<1>3. \A v \in Vendors : call.price[v] # NULL => call.price[v].id \in Plans
  BY DEF Call
<1>4. call.plan # NULL => plans'[call.plan] # NULL
  BY <1>2 DEF Knows, PlansKeep
<1>5. \A v \in Vendors : call.price[v] # NULL =>
         StillSays(plans', call.price[v].id, v, call.price[v].amount)
  BY <1>1, <1>3 DEF Knows
<1>6. call.op = "confirm" /\ call.plan # NULL =>
         StillSays(plans', call.plan, Upcoming(call).vendor, Upcoming(call).amount)
  BY <1>1, <1>2 DEF Knows
<1> QED
  BY <1>4, <1>5, <1>6 DEF Knows

\* Nor does it depend on their being alone.
LEMMA NotAloneKnows ==
  ASSUME LinksHold, NEW d \in Calls, calls[d] # NULL, Knows(plans', calls[d])
  PROVE  Knows(plans', NotAlone(d))
<1> DEFINE other == [calls[d] EXCEPT !.alone = FALSE]
<1>1. /\ other.op = calls[d].op /\ other.plan = calls[d].plan /\ other.price = calls[d].price
      /\ other.todo = calls[d].todo
  BY RunningType DEF LinksHold, Call
<1>2. NotAlone(d) = other
  BY DEF NotAlone
<1> HIDE DEF other
<1>3. Upcoming(other) = Upcoming(calls[d])
  BY <1>1 DEF Upcoming
<1> QED
  BY <1>1, <1>2, <1>3 DEF Knows

LEMMA OthersKnow ==
  ASSUME LinksHold, PlansKeep, NEW d \in Calls
  PROVE  /\ calls[d] # NULL => Knows(plans', calls[d])
         /\ NotAlone(d) # NULL => Knows(plans', NotAlone(d))
<1>1. CASE calls[d] = NULL
  BY <1>1 DEF NotAlone
<1>2. CASE calls[d] # NULL
  <2>1. Knows(plans, calls[d])
    BY <1>2 DEF LinksHold, CallsKnow
  <2>2. calls[d] \in Call /\ (calls[d].op = "confirm" => calls[d].todo # {})
    BY <1>2, RunningType DEF LinksHold, Carries
  <2> QED
    BY <1>2, <2>1, <2>2, KnowsKept, NotAloneKnows
<1> QED
  BY <1>1, <1>2

LEMMA BeginKnows ==
  ASSUME LinksHold, PlansKeep, NEW c \in Calls, NEW call, Knows(plans', call), Begin(c, call)
  PROVE  CallsKnow'
  BY OthersKnow DEF Begin, CallsKnow

LEMMA AtOnceKnows ==
  ASSUME LinksHold, PlansKeep, AtOnce
  PROVE  CallsKnow'
  BY OthersKnow DEF AtOnce, CallsKnow

LEMMA ContinueKnows ==
  ASSUME LinksHold, PlansKeep, NEW c \in Calls, NEW call, call # NULL => Knows(plans', call),
         Continue(c, call)
  PROVE  CallsKnow'
<1>1. \A d \in Calls : calls'[d] = IF d = c THEN call ELSE calls[d]
  BY DEF LinksHold, TypesHold, TypeOK, Continue
<1> QED
  BY <1>1, OthersKnow DEF CallsKnow

LEMMA FinishKnows ==
  ASSUME LinksHold, PlansKeep, NEW c \in Calls, Finish(c)
  PROVE  CallsKnow'
<1>1. Continue(c, NULL)
  BY DEF Finish
<1> QED
  BY <1>1, ContinueKnows

\* The handlers that begin know what they read, and those that go on what they knew.
LEMMA ActiveByVendorKnown ==
  ASSUME TypesHold, NEW v \in Vendors, ActiveByVendor[v] # NULL
  PROVE  StillSays(plans, ActiveByVendor[v].id, v, ActiveByVendor[v].amount)
<1> DEFINE p == Min(ActiveOf(v))
<1>1. ActiveOf(v) # {} /\ ActiveByVendor[v] = [id |-> p, amount |-> plans[p].amount]
  BY DEF ActiveByVendor
<1>2. ActiveOf(v) \subseteq Nat
  BY Constants DEF ActiveOf
<1>3. p \in ActiveOf(v)
  BY <1>1, <1>2, LeastIsOne
<1> HIDE DEF p
<1>4. Found(plans, p) /\ plans[p].vendor = v
  BY <1>3 DEF ActiveOf, Active
<1> QED
  BY <1>1, <1>4 DEF StillSays, Found

LEMMA ImportKnows ==
  ASSUME LinksHold, PlansKeep, NEW c \in Calls, ImportStep(c)
  PROVE  CallsKnow'
<1>t. TypesHold
  BY DEF LinksHold
<1>1. ASSUME NEW rows \in Statements, StartImport(c, rows) PROVE CallsKnow'
  <2> DEFINE call == [NewCall("store") EXCEPT !.rows = rows, !.price = ActiveByVendor]
  <2>1. call.op = "store" /\ call.plan = NULL /\ call.price = ActiveByVendor
    BY DEF NewCall
  <2>2. Begin(c, call) /\ UNCHANGED plans
    BY <1>1 DEF StartImport
  <2> HIDE DEF call
  <2>3. \A v \in Vendors : call.price[v] # NULL =>
          StillSays(plans', call.price[v].id, v, call.price[v].amount)
    BY <1>t, <2>1, <2>2, ActiveByVendorKnown
  <2>4. Knows(plans', call)
    BY <2>1, <2>3 DEF Knows
  <2> QED
    BY <2>2, <2>4, BeginKnows
<1>2. CASE StoreCharges(c)
  <2> DEFINE call == [calls[c] EXCEPT !.op = "detect"]
  <2>1. calls[c] # NULL /\ calls[c] \in Call
    BY <1>2, <1>t, RunningType DEF StoreCharges, Running
  <2>2. call.op = "detect" /\ call.plan = calls[c].plan /\ call.price = calls[c].price
    BY <2>1 DEF Call
  <2>3. Continue(c, call)
    BY <1>2 DEF StoreCharges
  <2> HIDE DEF call
  <2>4. Knows(plans', call)
    BY <2>1, <2>2, OthersKnow DEF Knows
  <2> QED
    BY <2>3, <2>4, ContinueKnows
<1>3. CASE ResolveRecurrences(c)
  <2>1. PICK found, call :
          /\ call.op = "match" /\ call.plan = calls[c].plan
          /\ call.price = [v \in Vendors |-> NULL] /\ Continue(c, call)
    BY <1>3, <1>t, FoundRecurrences
  <2>2. calls[c] # NULL
    BY <1>3 DEF ResolveRecurrences, Running
  <2>3. Knows(plans', call)
    BY <2>1, <2>2, OthersKnow DEF Knows
  <2> QED
    BY <2>1, <2>3, ContinueKnows
<1>4. CASE FindActiveMatch(c)
  <2>1. calls[c] # NULL /\ calls[c] \in Call /\ calls[c].todo # {} /\ UNCHANGED plans
    BY <1>4, <1>t, RunningType DEF FindActiveMatch, Running
  <2> DEFINE r == Upcoming(calls[c])
  <2>2. PICK p \in ActiveMatches(r) \cup {NULL} :
          Continue(c, [calls[c] EXCEPT !.op = "confirm", !.plan = p])
    BY <1>4 DEF FindActiveMatch
  <2> DEFINE call == [calls[c] EXCEPT !.op = "confirm", !.plan = p]
  <2>3. /\ call.op = "confirm" /\ call.plan = p /\ call.price = calls[c].price
        /\ call.todo = calls[c].todo
    BY <2>1 DEF Call
  <2>4. Upcoming(call) = r
    BY <2>3 DEF Upcoming
  <2>5. Continue(c, call)
    BY <2>2
  <2> HIDE DEF call, r
  <2>6. p # NULL => StillSays(plans', p, r.vendor, r.amount)
    BY <2>1, <2>2 DEF ActiveMatches, ActiveOf, Active, StillSays, Found
  <2>7. \A v \in Vendors : call.price[v] # NULL =>
          StillSays(plans', call.price[v].id, v, call.price[v].amount)
    BY <2>1, <2>3, OthersKnow DEF Knows
  <2>8. Knows(plans', call)
    BY <2>3, <2>4, <2>6, <2>7 DEF Knows, StillSays
  <2> QED
    BY <2>5, <2>8, ContinueKnows
<1>5. ASSUME calls[c] # NULL, NextCandidate(c) PROVE CallsKnow'
  <2> DEFINE call == [calls[c] EXCEPT !.op = "match", !.plan = NULL,
                                      !.todo = @ \ {Upcoming(calls[c])}]
  <2>1. calls[c] \in Call
    BY <1>5, <1>t, RunningType
  <2>2. call.op = "match" /\ call.plan = NULL /\ call.price = calls[c].price
    BY <2>1 DEF Call
  <2>3. Continue(c, call)
    BY <1>5 DEF NextCandidate
  <2> HIDE DEF call
  <2>4. Knows(plans', call)
    BY <1>5, <2>2, OthersKnow DEF Knows
  <2> QED
    BY <2>3, <2>4, ContinueKnows
<1>6. CASE ConfirmRecurrence(c) \/ RollBackRecurrence(c)
  BY <1>5, <1>6 DEF ConfirmRecurrence, RollBackRecurrence, Running
<1>7. CASE EndImport(c)
  BY <1>7, FinishKnows DEF EndImport
<1> QED
  BY <1>1, <1>2, <1>3, <1>4, <1>6, <1>7 DEF ImportStep

LEMMA StartOnPlanKnows ==
  ASSUME LinksHold, PlansKeep, NEW c \in Calls, NEW p, NEW change,
         NEW op \in {"edit", "request", "cancel", "remove", "record"},
         StartOnPlan(c, op, p, change)
  PROVE  CallsKnow'
<1> DEFINE call == [NewCall(op) EXCEPT !.plan = p, !.change = change]
<1>1. call.op = op /\ call.plan = p /\ call.price = [v \in Vendors |-> NULL]
  BY DEF NewCall
<1>2. Begin(c, call) /\ UNCHANGED plans /\ Found(plans, p)
  BY DEF StartOnPlan
<1> HIDE DEF call
<1>3. Knows(plans', call)
  BY <1>1, <1>2 DEF Knows, Found
<1> QED
  BY <1>2, <1>3, BeginKnows

LEMMA PlanStepKnows ==
  ASSUME LinksHold, PlansKeep, NEW c \in Calls, PlanStep(c)
  PROVE  CallsKnow'
<1>1. ASSUME NEW p \in Plans, NEW edit \in Edits, EditPlan(c, p, edit) PROVE CallsKnow'
  BY <1>1, StartOnPlanKnows DEF EditPlan
<1>2. ASSUME NEW p \in Plans, RequestCancellation(c, p) PROVE CallsKnow'
  BY <1>2, StartOnPlanKnows DEF RequestCancellation
<1>3. ASSUME NEW p \in Plans, ConfirmCancellation(c, p) PROVE CallsKnow'
  BY <1>3, StartOnPlanKnows DEF ConfirmCancellation
<1>4. ASSUME NEW p \in Plans, RemovePlan(c, p) PROVE CallsKnow'
  BY <1>4, StartOnPlanKnows DEF RemovePlan
<1>5. Finish(c) => CallsKnow'
  BY FinishKnows
<1> QED
  BY <1>1, <1>2, <1>3, <1>4, <1>5 DEF PlanStep, EditPlanStore, RequestCancellationStore,
     ConfirmCancellationStore, RemovePlanStore

LEMMA ChargeStepKnows ==
  ASSUME LinksHold, PlansKeep, NEW c \in Calls, ChargeStep(c)
  PROVE  CallsKnow'
<1>1. ASSUME NEW payment \in Payments, NEW p \in Plans, RecordChargeOf(c, payment, p)
      PROVE  CallsKnow'
  BY <1>1, StartOnPlanKnows DEF RecordChargeOf
<1>2. ASSUME NEW ch \in Charges, NEW p \in Plans \cup {NULL}, AttachSubscription(c, ch, p)
      PROVE  CallsKnow'
  <2> DEFINE call == [NewCall("attach") EXCEPT !.charge = ch, !.plan = p]
  <2>1. call.op = "attach" /\ call.plan = p /\ call.price = [v \in Vendors |-> NULL]
    BY DEF NewCall
  <2>2. Begin(c, call) /\ UNCHANGED plans /\ (p # NULL => Found(plans, p))
    BY <1>2 DEF AttachSubscription
  <2> HIDE DEF call
  <2>3. Knows(plans', call)
    BY <2>1, <2>2 DEF Knows, Found
  <2> QED
    BY <2>2, <2>3, BeginKnows
<1>3. ASSUME NEW ch \in Charges, DeleteCharge(c, ch) PROVE CallsKnow'
  <2> DEFINE call == [NewCall("delete") EXCEPT !.charge = ch]
  <2>1. call.op = "delete" /\ call.plan = NULL /\ call.price = [v \in Vendors |-> NULL]
    BY DEF NewCall
  <2>2. Begin(c, call)
    BY <1>3 DEF DeleteCharge
  <2> HIDE DEF call
  <2>3. Knows(plans', call)
    BY <2>1 DEF Knows
  <2> QED
    BY <2>2, <2>3, BeginKnows
<1>4. Finish(c) => CallsKnow'
  BY FinishKnows
<1> QED
  BY <1>1, <1>2, <1>3, <1>4 DEF ChargeStep, RecordChargeStore, AttachSubscriptionStore,
     DeleteChargeStore

LEMMA SummaryStepKnows ==
  ASSUME LinksHold, PlansKeep, NEW c \in Calls, SummaryStep(c)
  PROVE  CallsKnow'
<1>t. TypesHold
  BY DEF LinksHold
<1>1. CASE GetSummary(c)
  <2>1. /\ NewCall("summarise").op = "summarise" /\ NewCall("summarise").plan = NULL
        /\ NewCall("summarise").price = [v \in Vendors |-> NULL]
    BY DEF NewCall
  <2>2. Knows(plans', NewCall("summarise"))
    BY <2>1 DEF Knows
  <2> QED
    BY <1>1, <2>2, BeginKnows DEF GetSummary
<1>2. ASSUME calls[c] # NULL, NEW call, Continue(c, call), call.plan = calls[c].plan,
             call.price = calls[c].price, call.op # "confirm"
      PROVE  CallsKnow'
  <2>1. Knows(plans', call)
    BY <1>2, OthersKnow DEF Knows
  <2> QED
    BY <1>2, <2>1, ContinueKnows
<1>3. ASSUME calls[c] # NULL, NEW call \in Call, Summarise(c, call), call.plan = calls[c].plan,
             call.price = calls[c].price
      PROVE  CallsKnow'
  <2> DEFINE next == IF call.spend # NULL /\ call.billed # NULL THEN "findPlans" ELSE "summarise"
             later == [call EXCEPT !.op = next]
  <2>1. next # "confirm"
    OBVIOUS
  <2>2. Continue(c, later)
    BY <1>3 DEF Summarise
  <2> HIDE DEF next
  <2>3. later.op = next /\ later.plan = call.plan /\ later.price = call.price
    BY DEF Call
  <2> HIDE DEF later
  <2> QED
    BY <1>2, <1>3, <2>1, <2>2, <2>3
<1>4. CASE GetCategorySpend(c)
  <2> DEFINE call == [calls[c] EXCEPT !.spend = CategorySpend]
  <2>1. calls[c] \in Call /\ calls[c] # NULL
    BY <1>4, <1>t, RunningType DEF GetCategorySpend, Running
  <2>2. CategorySpend \in [total : Nat, unlinked : Nat]
    BY <1>t, TotalType DEF CategorySpend, TypesHold
  <2>3. call \in Call /\ call.plan = calls[c].plan /\ call.price = calls[c].price
    BY <2>1, <2>2 DEF Call
  <2>4. Summarise(c, call)
    BY <1>4 DEF GetCategorySpend
  <2> HIDE DEF call
  <2> QED
    BY <1>3, <2>1, <2>3, <2>4
<1>5. CASE GetSubscriptionCharges(c)
  <2> DEFINE call == [calls[c] EXCEPT !.billed = SubscriptionCharges]
  <2>1. calls[c] \in Call /\ calls[c] # NULL
    BY <1>5, <1>t, RunningType DEF GetSubscriptionCharges, Running
  <2>2. SubscriptionCharges \in [Plans -> Nat]
    BY <1>t, TotalType DEF SubscriptionCharges, TypesHold
  <2>3. call \in Call /\ call.plan = calls[c].plan /\ call.price = calls[c].price
    BY <2>1, <2>2 DEF Call
  <2>4. Summarise(c, call)
    BY <1>5 DEF GetSubscriptionCharges
  <2> HIDE DEF call
  <2> QED
    BY <1>3, <2>1, <2>3, <2>4
<1>6. CASE FindPlansOfSummary(c)
  <2> DEFINE summary == ToTransactionSummary(calls[c].spend, calls[c].billed)
             call == [calls[c] EXCEPT !.op = "answer", !.summary = summary]
  <2>1. calls[c] \in Call /\ calls[c] # NULL
    BY <1>6, <1>t, RunningType DEF FindPlansOfSummary, Running
  <2>2. Continue(c, call)
    BY <1>6 DEF FindPlansOfSummary
  <2> HIDE DEF summary
  <2>3. call.op = "answer" /\ call.plan = calls[c].plan /\ call.price = calls[c].price
    BY <2>1 DEF Call
  <2> HIDE DEF call
  <2> QED
    BY <1>2, <2>1, <2>2, <2>3
<1>7. CASE AnswerSummary(c)
  BY <1>7, FinishKnows DEF AnswerSummary
<1> QED
  BY <1>1, <1>4, <1>5, <1>6, <1>7 DEF SummaryStep

LEMMA NextKnows ==
  ASSUME LinksHold, [Next]_vars
  PROVE  CallsKnow'
<1>1. PlansKeep
  BY NextKeeps DEF LinksHold
<1>2. ASSUME NEW c \in Calls, AbandonCall(c) PROVE CallsKnow'
  BY <1>1, <1>2, FinishKnows DEF AbandonCall
<1>3. AtOnce => CallsKnow'
  BY <1>1, AtOnceKnows
<1>4. CASE UNCHANGED vars
  BY <1>4 DEF vars, LinksHold, CallsKnow
<1> QED
  BY <1>1, <1>2, <1>3, <1>4, ImportKnows, PlanStepKnows, ChargeStepKnows, SummaryStepKnows
     DEF Next, CreatePlan, RecordCharge

\* A charge that fits goes on fitting, and the others of a step have to fit anew.
LEMMA FitsKept ==
  ASSUME PlansKeep, NEW row \in Charge, Fits(plans, row)
  PROVE  Fits(plans', row)
<1>1. row.plan \in Plans \cup {NULL}
  BY DEF Charge
<1> QED
  BY <1>1 DEF Fits, PlansKeep

LEMMA ChargesStillFit ==
  ASSUME LinksHold, PlansKeep, DOMAIN charges' = Charges,
         \A ch \in Charges : Found(charges', ch) =>
            \/ charges'[ch] = charges[ch]
            \/ Fits(plans', charges'[ch])
  PROVE  ChargesFit'
<1>1. ASSUME NEW ch \in Rows(charges)' PROVE Fits(plans', charges'[ch])
  <2>1. ch \in Charges /\ Found(charges', ch)
    BY <1>1 DEF Rows, Found
  <2>2. CASE charges'[ch] = charges[ch]
    <3>1. Found(charges, ch) /\ ch \in Rows(charges)
      BY <2>1, <2>2 DEF Found, Rows, LinksHold, TypesHold, TypeOK
    <3>2. charges[ch] \in Charge /\ Fits(plans, charges[ch])
      BY <3>1, FoundType DEF LinksHold, TypesHold, ChargesFit
    <3>3. Fits(plans', charges[ch])
      BY <3>2, FitsKept
    <3> QED
      BY <2>2, <3>3
  <2> QED
    BY <2>1, <2>2
<1> QED
  BY <1>1 DEF ChargesFit

\* The range of amounts in SQL is the tolerance of the check in memory, but for the
\* rounding of its ends.
LEMMA RangeIsTolerance ==
  ASSUME NEW amount \in Nat, NEW price \in Nat, amount \in AmountToleranceRange(price)
  PROVE  AtPrice(amount, price)
<1>1. ToMoney(85 * price) <= amount /\ amount <= ToMoney(115 * price)
  <2>1. 85 * price + 50 \in Int /\ 115 * price + 50 \in Int
    OBVIOUS
  <2> QED
    BY <2>1 DEF AmountToleranceRange, ToMoney
<1>2. 100 * amount <= 115 * price + 50
  BY <1>1 DEF ToMoney
<1>3. 85 * price + 50 < 100 * amount + 100
  BY <1>1 DEF ToMoney
<1>4. CASE amount < price
  <2>1. Difference(amount, price) = price - amount
    BY <1>4 DEF Difference, Most, Least
  <2> QED
    BY <1>3, <2>1 DEF AtPrice
<1>5. CASE ~(amount < price)
  <2>1. Difference(amount, price) = amount - price
    BY <1>5 DEF Difference, Most, Least
  <2> QED
    BY <1>2, <2>1 DEF AtPrice
<1> QED
  BY <1>4, <1>5

LEMMA ToleranceIsClose ==
  ASSUME NEW amount \in Nat, NEW price \in Nat, IsWithinAmountTolerance(amount, price)
  PROVE  AtPrice(amount, price)
<1>1. Difference(amount, price) \in Int
  BY DEF Difference, Most, Least
<1> QED
  BY <1>1 DEF IsWithinAmountTolerance, AtPrice

\* What the check in memory links is at the price that was read when the import began.
LEMMA PreparedFits ==
  ASSUME LinksHold, NEW c \in Calls, calls[c] # NULL, NEW row \in StatementRow
  PROVE  Fits(plans, Prepared(calls[c], row))
<1> DEFINE price == calls[c].price[row.vendor]
           new == Prepared(calls[c], row)
<1>1. calls[c] \in Call /\ Knows(plans, calls[c])
  BY RunningType DEF LinksHold, CallsKnow
<1>2. row.vendor \in Vendors /\ row.amount \in Nat /\ price \in [id : Plans, amount : Nat] \cup {NULL}
  BY <1>1 DEF StatementRow, Call
<1>3. /\ new.vendor = row.vendor /\ new.amount = row.amount
      /\ new.plan = ResolveChargedSubscriptionId(row.amount, price)
  BY DEF Prepared
<1>4. price # NULL => StillSays(plans, price.id, row.vendor, price.amount)
  BY <1>1, <1>2 DEF Knows
<1> HIDE DEF price, new
<1>5. ASSUME new.plan # NULL
      PROVE  /\ new.plan = price.id /\ AtPrice(row.amount, price.amount)
             /\ StillSays(plans, price.id, row.vendor, price.amount)
  <2>1. price # NULL /\ IsWithinAmountTolerance(row.amount, price.amount) /\ new.plan = price.id
    BY <1>3, <1>5 DEF ResolveChargedSubscriptionId
  <2>2. price.amount \in Nat
    BY <1>2, <2>1
  <2> QED
    BY <1>2, <1>4, <2>1, <2>2, ToleranceIsClose
<1>6. Fits(plans, new)
  BY <1>3, <1>5 DEF Fits, StillSays
<1> QED
  BY <1>6 DEF new

\* And what the statement in SQL links is at the price of the candidate.
LEMMA LinkedFits ==
  ASSUME LinksHold, NEW c \in Calls, ConfirmRecurrence(c), NEW ch \in Charges,
         Found(charges', ch), charges'[ch] # charges[ch]
  PROVE  Fits(plans', charges'[ch])
<1>t. TypesHold
  BY DEF LinksHold
<1>1. PICK p \in Plans, r \in [row : Nat, vendor : Vendors, cycle : BillingCycles, amount : Nat] :
        /\ calls[c] # NULL /\ calls[c].op = "confirm" /\ r = Upcoming(calls[c])
        /\ \/ p = calls[c].plan /\ calls[c].plan # NULL /\ UNCHANGED plans
           \/ p \in Unused(plans) /\ plans' = [plans EXCEPT ![p] = NewPlan(r.vendor, r.amount, r.cycle)]
        /\ LinkUnassignedVendorCharges(r.vendor, p, r.amount)
  BY <1>t, ConfirmedPlan
<1>2. StillSays(plans', p, r.vendor, r.amount)
  <2>1. CASE p = calls[c].plan /\ calls[c].plan # NULL /\ UNCHANGED plans
    BY <1>1, <2>1 DEF LinksHold, CallsKnow, Knows
  <2>2. CASE plans' = [plans EXCEPT ![p] = NewPlan(r.vendor, r.amount, r.cycle)]
    <3>1. plans'[p] = NewPlan(r.vendor, r.amount, r.cycle)
      BY <1>t, <2>2 DEF TypesHold, TypeOK
    <3>2. plans'[p] \in Plan /\ plans'[p].vendor = r.vendor /\ plans'[p].amount = r.amount
      BY <3>1, NewPlanType DEF NewPlan
    <3> QED
      BY <3>2, Constants DEF StillSays
  <2> QED
    BY <1>1, <2>1, <2>2
<1>3. /\ Unlinked(ch) /\ charges[ch].vendor = r.vendor
      /\ charges[ch].amount \in AmountToleranceRange(r.amount)
      /\ charges'[ch] = [charges[ch] EXCEPT !.plan = p, !.chosen = FALSE]
  BY <1>1 DEF LinkUnassignedVendorCharges
<1>4. charges[ch] \in Charge
  BY <1>t, <1>3, FoundType DEF Unlinked, TypesHold
<1>5. /\ charges'[ch].plan = p /\ charges'[ch].vendor = r.vendor
      /\ charges'[ch].amount = charges[ch].amount /\ charges[ch].amount \in Nat
  BY <1>3, <1>4 DEF Charge
<1>6. AtPrice(charges'[ch].amount, r.amount)
  BY <1>3, <1>5, RangeIsTolerance
<1> QED
  BY <1>2, <1>5, <1>6 DEF Fits, StillSays

\* The charges that the user links, and those that are linked to nothing, are exempt.
LEMMA ChosenFits ==
  ASSUME NEW row, row.plan # NULL => row.chosen /\ plans'[row.plan] # NULL
  PROVE  Fits(plans', row)
  BY DEF Fits

LEMMA StoredFit ==
  ASSUME LinksHold, PlansKeep, NEW c \in Calls, StoreCharges(c)
  PROVE  ChargesFit'
<1> DEFINE rows == calls[c].rows
           slot == SetToSortSeq(Unused(charges), <)
           At(ch) == CHOOSE k \in DOMAIN rows : slot[k] = ch
<1>1. calls[c] # NULL /\ calls[c] \in Call /\ UNCHANGED plans
  BY RunningType DEF StoreCharges, Running, LinksHold
<1>2. \A k \in DOMAIN rows : Fits(plans, Prepared(calls[c], rows[k]))
  <2>1. \A k \in DOMAIN rows : rows[k] \in StatementRow
    BY <1>1 DEF Call
  <2> QED
    BY <1>1, <2>1, PreparedFits
<1>3. charges' = [ch \in Charges |-> IF \E k \in DOMAIN rows : slot[k] = ch
                    THEN Prepared(calls[c], rows[At(ch)]) ELSE charges[ch]]
  BY DEF StoreCharges
<1>4. \A ch \in Charges : (\E k \in DOMAIN rows : slot[k] = ch) => At(ch) \in DOMAIN rows
  OBVIOUS
<1> HIDE DEF rows, slot, At
<1>5. \A ch \in Charges : charges'[ch] = charges[ch] \/ Fits(plans, charges'[ch])
  BY <1>2, <1>3, <1>4
<1>6. \A ch \in Charges : charges'[ch] = charges[ch] \/ Fits(plans', charges'[ch])
  BY <1>1, <1>5
<1>7. DOMAIN charges' = Charges
  BY <1>3
<1> QED
  BY <1>6, <1>7, ChargesStillFit

LEMMA NextFits ==
  ASSUME LinksHold, [Next]_vars
  PROVE  ChargesFit'
<1>t. TypesHold /\ PlansKeep /\ TypesHold'
  BY NextKeeps, NextTypes DEF LinksHold
<1>d. DOMAIN charges' = Charges
  BY <1>t DEF TypesHold, TypeOK
<1>1. CASE UNCHANGED charges
  BY <1>1, <1>t, <1>d, ChargesStillFit
<1>2. ASSUME NEW c \in Calls, StoreCharges(c) PROVE ChargesFit'
  BY <1>2, <1>t, StoredFit
<1>3. ASSUME NEW c \in Calls, ConfirmRecurrence(c) PROVE ChargesFit'
  BY <1>3, <1>t, <1>d, LinkedFits, ChargesStillFit
<1>4. ASSUME NEW payment \in Payments, RecordCharge(payment) PROVE ChargesFit'
  <2> DEFINE n == Min(Unused(charges))
             row == Recorded(payment, NULL)
  <2>1. charges' = [charges EXCEPT ![n] = row]
    BY <1>4 DEF RecordCharge
  <2>2. Fits(plans', row)
    BY ChosenFits DEF Recorded
  <2> HIDE DEF n, row
  <2>3. \A ch \in Charges : charges'[ch] = charges[ch] \/ Fits(plans', charges'[ch])
    BY <1>t, <2>1, <2>2 DEF TypesHold, TypeOK
  <2> QED
    BY <1>t, <1>d, <2>3, ChargesStillFit
<1>5. ASSUME NEW c \in Calls, RecordChargeStore(c) PROVE ChargesFit'
  <2> DEFINE n == Min(Unused(charges))
             row == Recorded(calls[c].change, calls[c].plan)
  <2>1. charges' = [charges EXCEPT ![n] = row] /\ UNCHANGED plans /\ calls[c] # NULL
    BY <1>5 DEF RecordChargeStore, Running
  <2>2. calls[c].plan # NULL => plans'[calls[c].plan] # NULL
    BY <2>1 DEF LinksHold, CallsKnow, Knows
  <2>3. row.plan = calls[c].plan /\ row.chosen = (calls[c].plan # NULL)
    BY DEF Recorded
  <2> HIDE DEF n, row
  <2>4. Fits(plans', row)
    BY <2>2, <2>3, ChosenFits
  <2>5. \A ch \in Charges : charges'[ch] = charges[ch] \/ Fits(plans', charges'[ch])
    BY <1>t, <2>1, <2>4 DEF TypesHold, TypeOK
  <2> QED
    BY <1>t, <1>d, <2>5, ChargesStillFit
<1>6. ASSUME NEW c \in Calls, AttachSubscriptionStore(c) PROVE ChargesFit'
  <2> DEFINE n == calls[c].charge
             row == [charges[n] EXCEPT !.plan = calls[c].plan, !.chosen = (calls[c].plan # NULL)]
  <2>1. /\ charges' = [charges EXCEPT ![n] = IF Found(charges, n) THEN row ELSE @]
        /\ UNCHANGED plans /\ calls[c] # NULL
    BY <1>6 DEF AttachSubscriptionStore, Running, UpdateCharge
  <2>2. calls[c].plan # NULL => plans'[calls[c].plan] # NULL
    BY <2>1 DEF LinksHold, CallsKnow, Knows
  <2>3. n \in Charges
    BY <1>6, <1>t, RunningType DEF AttachSubscriptionStore, Running, Carries
  <2>4. ASSUME Found(charges, n) PROVE Fits(plans', row)
    <3>1. charges[n] \in Charge
      BY <1>t, <2>3, <2>4, FoundType DEF TypesHold
    <3>2. row.plan = calls[c].plan /\ row.chosen = (calls[c].plan # NULL)
      BY <3>1 DEF Charge
    <3> HIDE DEF row
    <3> QED
      BY <2>2, <3>2, ChosenFits
  <2> HIDE DEF n, row
  <2>5. \A ch \in Charges : charges'[ch] = charges[ch] \/ Fits(plans', charges'[ch])
    BY <1>t, <2>1, <2>3, <2>4 DEF TypesHold, TypeOK
  <2> QED
    BY <1>t, <1>d, <2>5, ChargesStillFit
<1>7. ASSUME NEW c \in Calls, DeleteChargeStore(c) PROVE ChargesFit'
  <2>1. \A ch \in Charges : Found(charges', ch) => charges'[ch] = charges[ch]
    BY <1>7, <1>t DEF DeleteChargeStore, SoftDelete, Found, TypesHold, TypeOK
  <2> QED
    BY <1>t, <1>d, <2>1, ChargesStillFit
<1>8. ASSUME NEW c \in Calls, ImportStep(c) PROVE ChargesFit'
  BY <1>1, <1>2, <1>3, <1>8 DEF ImportStep, StartImport, ResolveRecurrences,
     FindActiveMatch, RollBackRecurrence, EndImport
<1>9. ASSUME NEW c \in Calls, PlanStep(c) PROVE ChargesFit'
  BY <1>1, <1>9 DEF PlanStep, EditPlan, RequestCancellation, ConfirmCancellation, RemovePlan,
     StartOnPlan, EditPlanStore, RequestCancellationStore, ConfirmCancellationStore,
     RemovePlanStore
<1>10. ASSUME NEW c \in Calls, ChargeStep(c) PROVE ChargesFit'
  BY <1>1, <1>5, <1>6, <1>7, <1>10 DEF ChargeStep, RecordChargeOf, StartOnPlan,
     AttachSubscription, DeleteCharge
<1>11. ASSUME NEW c \in Calls, SummaryStep(c) PROVE ChargesFit'
  BY <1>1, <1>11 DEF SummaryStep, GetSummary, GetCategorySpend, GetSubscriptionCharges,
     Summarise, FindPlansOfSummary, AnswerSummary
<1> QED
  BY <1>1, <1>4, <1>8, <1>9, <1>10, <1>11 DEF Next, vars, AbandonCall, CreatePlan

LEMMA AlwaysLinks == Spec => []LinksHold
<1>1. Init => LinksHold
  <2> SUFFICES ASSUME Init PROVE LinksHold
    OBVIOUS
  <2>1. CallsKnow /\ ChargesFit
    BY DEF Init, CallsKnow, ChargesFit, Rows, Found
  <2> QED
    BY <2>1, InitTypes DEF LinksHold
<1>2. LinksHold /\ [Next]_vars => LinksHold'
  <2> SUFFICES ASSUME LinksHold, [Next]_vars PROVE LinksHold'
    OBVIOUS
  <2>1. TypesHold' /\ CallsKnow' /\ ChargesFit'
    BY NextTypes, NextKnows, NextFits DEF LinksHold
  <2> QED
    BY <2>1 DEF LinksHold
<1> QED
  BY <1>1, <1>2, PTL DEF Spec

\* The charges that an import linked, in memory or in SQL, are of the vendor and at the
\* price of the subscription, whatever happened between the price it read and its write.
THEOREM ChargesLinkedAtPrice == Spec => []LinkedAtPrice
<1>1. ASSUME LinksHold PROVE LinkedAtPrice
  BY <1>1 DEF LinksHold, ChargesFit, Fits, AtPrice, LinkedAtPrice
<1> QED
  BY <1>1, AlwaysLinks, PTL

-----------------------------------------------------------------------------
(* What a handler that runs alone has read is still so when it writes.     *)

LEMMA ActiveAgrees ==
  /\ \A p : Active(p) = ActiveIn(plans, p)
  /\ \A v : ActiveOf(v) = ActiveOfIn(plans, v)
  BY DEF Active, ActiveIn, ActiveOf, ActiveOfIn

LEMMA NotAloneIsNot ==
  ASSUME TypesHold, NEW d \in Calls, NotAlone(d) # NULL
  PROVE  NotAlone(d).alone = FALSE
<1>1. calls[d] # NULL /\ NotAlone(d) = [calls[d] EXCEPT !.alone = FALSE]
  BY DEF NotAlone
<1>2. calls[d] \in Call
  BY <1>1, RunningType
<1> QED
  BY <1>1, <1>2 DEF Call

LEMMA BeginFresh ==
  ASSUME LoneHolds, NEW c \in Calls, NEW call, Begin(c, call),
         call.alone = \A d \in Calls : calls[d] = NULL, Fresh(plans', call)
  PROVE  AloneIsFresh'
<1>1. /\ calls' = [d \in Calls |-> IF d = c THEN call ELSE NotAlone(d)]
      /\ TypesHold
  BY DEF Begin, LoneHolds
<1>2. \A d \in Calls \ {c} : calls'[d] # NULL => calls'[d].alone = FALSE
  BY <1>1, NotAloneIsNot
<1>3. call.alone => \A d \in Calls \ {c} : calls'[d] = NULL
  BY <1>1 DEF NotAlone
<1>4. calls'[c] = call
  BY <1>1
<1> QED
  BY <1>2, <1>3, <1>4 DEF AloneIsFresh

LEMMA AtOnceFresh ==
  ASSUME LoneHolds, AtOnce
  PROVE  AloneIsFresh'
<1>1. \A d \in Calls : calls'[d] # NULL => calls'[d].alone = FALSE
  BY NotAloneIsNot DEF AtOnce, LoneHolds
<1> QED
  BY <1>1 DEF AloneIsFresh

LEMMA ContinueFresh ==
  ASSUME LoneHolds, NEW c \in Calls, calls[c] # NULL, NEW call, Continue(c, call),
         call # NULL => call.alone = calls[c].alone,
         call # NULL /\ calls[c].alone /\ Fresh(plans, calls[c]) => Fresh(plans', call)
  PROVE  AloneIsFresh'
<1>1. \A d \in Calls : calls'[d] = IF d = c THEN call ELSE calls[d]
  BY DEF LoneHolds, TypesHold, TypeOK, Continue
<1>2. ASSUME NEW d \in Calls, calls'[d] # NULL, calls'[d].alone
      PROVE  (\A e \in Calls \ {d} : calls'[e] = NULL) /\ Fresh(plans', calls'[d])
  <2>1. d = c
    BY <1>1, <1>2 DEF LoneHolds, AloneIsFresh
  <2>2. calls'[d] = call /\ call # NULL /\ calls[c].alone
    BY <1>1, <1>2, <2>1
  <2>3. (\A e \in Calls \ {c} : calls[e] = NULL) /\ Fresh(plans, calls[c])
    BY <2>2 DEF LoneHolds, AloneIsFresh
  <2> QED
    BY <1>1, <2>1, <2>2, <2>3
<1> QED
  BY <1>2 DEF AloneIsFresh

LEMMA FinishFresh ==
  ASSUME LoneHolds, NEW c \in Calls, calls[c] # NULL, Finish(c)
  PROVE  AloneIsFresh'
<1>1. Continue(c, NULL)
  BY DEF Finish
<1> QED
  BY <1>1, ContinueFresh

LEMMA ImportFresh ==
  ASSUME LoneHolds, NEW c \in Calls, ImportStep(c)
  PROVE  AloneIsFresh'
<1>t. TypesHold
  BY DEF LoneHolds
<1>1. ASSUME NEW rows \in Statements, StartImport(c, rows) PROVE AloneIsFresh'
  <2> DEFINE call == [NewCall("store") EXCEPT !.rows = rows, !.price = ActiveByVendor]
             alone == \A d \in Calls : calls[d] = NULL
  <2>1. call.op = "store" /\ call.alone = alone /\ call.price = ActiveByVendor
    BY DEF NewCall
  <2>2. Begin(c, call) /\ UNCHANGED plans
    BY <1>1 DEF StartImport
  <2> HIDE DEF call
  <2>3. \A v \in Vendors : ActiveByVendor[v] = NULL => ActiveOf(v) = {}
    <3> SUFFICES ASSUME NEW v \in Vendors, ActiveOf(v) # {} PROVE ActiveByVendor[v] # NULL
      OBVIOUS
    <3> DEFINE row == [id |-> Min(ActiveOf(v)), amount |-> plans[Min(ActiveOf(v))].amount]
    <3>1. ActiveByVendor[v] = row
      BY DEF ActiveByVendor
    <3>2. Min(ActiveOf(v)) \in ActiveOf(v)
      BY Constants, LeastIsOne DEF ActiveOf
    <3>3. Min(ActiveOf(v)) \in Plans /\ plans[Min(ActiveOf(v))] \in Plan
      BY <1>t, <3>2, FoundType DEF ActiveOf, Active, TypesHold
    <3>4. row \in [id : Plans, amount : Nat]
      BY <3>3 DEF Plan
    <3> QED
      BY <3>1, <3>4, Constants
  <2>4. Fresh(plans', call)
    BY <2>1, <2>2, <2>3, ActiveAgrees DEF Fresh
  <2> QED
    BY <2>1, <2>2, <2>4, BeginFresh
<1>2. CASE StoreCharges(c)
  <2> DEFINE call == [calls[c] EXCEPT !.op = "detect"]
  <2>1. calls[c] # NULL /\ calls[c].op = "store" /\ calls[c] \in Call /\ UNCHANGED plans
    BY <1>2, <1>t, RunningType DEF StoreCharges, Running
  <2>2. call.op = "detect" /\ call.alone = calls[c].alone /\ call.price = calls[c].price
    BY <2>1 DEF Call
  <2>3. Continue(c, call)
    BY <1>2 DEF StoreCharges
  <2> HIDE DEF call
  <2>4. Fresh(plans, calls[c]) => Fresh(plans', call)
    BY <2>1, <2>2 DEF Fresh
  <2> QED
    BY <2>1, <2>2, <2>3, <2>4, ContinueFresh
<1>3. CASE ResolveRecurrences(c)
  <2>1. /\ calls[c] # NULL /\ calls[c].op = "detect" /\ calls[c] \in Call /\ UNCHANGED plans
    BY <1>3, <1>t, RunningType DEF ResolveRecurrences, Running
  <2> DEFINE rows == calls[c].rows
             candidates == Candidates(calls[c])
  <2>2. PICK found, call :
          /\ call.op = "match" /\ call.alone = calls[c].alone
          /\ call.todo = {[row |-> k, vendor |-> rows[k].vendor,
                           cycle |-> found[k].cycle, amount |-> found[k].amount] :
                             k \in {k \in candidates : found[k] # NULL}}
          /\ Continue(c, call)
    BY <1>3, <1>t, FoundRecurrences
  <2>3. /\ candidates \subseteq Nat
        /\ \A k \in candidates : rows[k].vendor \in Vendors /\ calls[c].price[rows[k].vendor] = NULL
    <3>1. rows \in Seq(StatementRow) /\ candidates \subseteq DOMAIN rows
      BY <2>1 DEF Call, Candidates, CandidateRows
    <3>2. \A k \in DOMAIN rows : k \in Nat /\ rows[k] \in StatementRow
      BY <3>1
    <3> QED
      BY <3>1, <3>2 DEF StatementRow, Candidates, CandidateRows, IsCandidateRow
  <2>4. \A j, k \in candidates : rows[j].vendor = rows[k].vendor => j = k
    <3> TAKE j, k \in candidates
    <3>1. rows[j].vendor = rows[k].vendor => j <= k /\ k <= j
      BY DEF Candidates
    <3> QED
      BY <2>3, <3>1
  <2> HIDE DEF candidates, rows
  <2>5. \A r, s \in call.todo : r.vendor = s.vendor => r = s
    BY <2>2, <2>4
  <2>6. ASSUME Fresh(plans, calls[c]) PROVE \A r \in call.todo : ActiveOfIn(plans, r.vendor) = {}
    <3>1. \A v \in Vendors : calls[c].price[v] = NULL => ActiveOfIn(plans, v) = {}
      BY <2>1, <2>6 DEF Fresh
    <3> QED
      BY <2>2, <2>3, <3>1
  <2>7. Fresh(plans, calls[c]) => Fresh(plans', call)
    BY <2>1, <2>2, <2>5, <2>6 DEF Fresh
  <2> QED
    BY <2>1, <2>2, <2>7, ContinueFresh
<1>4. CASE FindActiveMatch(c)
  <2>1. calls[c] # NULL /\ calls[c].op = "match" /\ calls[c] \in Call /\ UNCHANGED plans
    BY <1>4, <1>t, RunningType DEF FindActiveMatch, Running
  <2>2. PICK p : Continue(c, [calls[c] EXCEPT !.op = "confirm", !.plan = p])
    BY <1>4 DEF FindActiveMatch
  <2> DEFINE call == [calls[c] EXCEPT !.op = "confirm", !.plan = p]
  <2>3. call.op = "confirm" /\ call.alone = calls[c].alone /\ call.todo = calls[c].todo
    BY <2>1 DEF Call
  <2>4. Continue(c, call)
    BY <2>2
  <2> HIDE DEF call
  <2>5. Fresh(plans, calls[c]) => Fresh(plans', call)
    BY <2>1, <2>3 DEF Fresh
  <2> QED
    BY <2>1, <2>3, <2>4, <2>5, ContinueFresh
<1>5. ASSUME calls[c] # NULL, calls[c].op = "confirm", NextCandidate(c),
             \A r \in calls[c].todo \ {Upcoming(calls[c])} :
                Fresh(plans, calls[c]) => ActiveOfIn(plans', r.vendor) = {}
      PROVE  AloneIsFresh'
  <2> DEFINE call == [calls[c] EXCEPT !.op = "match", !.plan = NULL,
                                      !.todo = @ \ {Upcoming(calls[c])}]
  <2>1. calls[c] \in Call
    BY <1>5, <1>t, RunningType
  <2>2. /\ call.op = "match" /\ call.alone = calls[c].alone
        /\ call.todo = calls[c].todo \ {Upcoming(calls[c])}
    BY <2>1 DEF Call
  <2>3. Continue(c, call)
    BY <1>5 DEF NextCandidate
  <2> HIDE DEF call
  <2>4. Fresh(plans, calls[c]) => Fresh(plans', call)
    BY <1>5, <2>2 DEF Fresh
  <2> QED
    BY <1>5, <2>2, <2>3, <2>4, ContinueFresh
<1>6. CASE ConfirmRecurrence(c)
  <2>1. PICK p \in Plans, r \in [row : Nat, vendor : Vendors, cycle : BillingCycles, amount : Nat] :
          /\ calls[c] # NULL /\ calls[c].op = "confirm"
          /\ r = Upcoming(calls[c]) /\ r \in calls[c].todo
          /\ \/ UNCHANGED plans
             \/ plans' = [plans EXCEPT ![p] = NewPlan(r.vendor, r.amount, r.cycle)]
          /\ NextCandidate(c)
    BY <1>6, <1>t, ConfirmedPlan
  <2>2. ASSUME NEW s \in calls[c].todo \ {r}, Fresh(plans, calls[c])
        PROVE  ActiveOfIn(plans', s.vendor) = {}
    <3>1. s.vendor # r.vendor /\ ActiveOfIn(plans, s.vendor) = {}
      BY <2>1, <2>2 DEF Fresh
    <3>2. ASSUME plans' = [plans EXCEPT ![p] = NewPlan(r.vendor, r.amount, r.cycle)],
                 NEW q \in ActiveOfIn(plans', s.vendor)
          PROVE  FALSE
      <4>1. plans' = [o \in Plans |-> IF o = p THEN NewPlan(r.vendor, r.amount, r.cycle) ELSE plans[o]]
        BY <1>t, <3>2 DEF TypesHold, TypeOK
      <4>2. q \in Plans /\ plans'[q].vendor = s.vendor /\ ActiveIn(plans', q)
        BY <3>2 DEF ActiveOfIn
      <4>3. NewPlan(r.vendor, r.amount, r.cycle).vendor = r.vendor
        BY DEF NewPlan
      <4>4. q # p /\ plans'[q] = plans[q]
        BY <3>1, <4>1, <4>2, <4>3
      <4>5. q \in ActiveOfIn(plans, s.vendor)
        BY <4>2, <4>4 DEF ActiveOfIn, ActiveIn, Found
      <4> QED
        BY <3>1, <4>5
    <3> QED
      BY <2>1, <3>1, <3>2
  <2> QED
    BY <1>5, <2>1, <2>2
<1>7. CASE RollBackRecurrence(c)
  <2>1. calls[c] # NULL /\ calls[c].op = "confirm" /\ NextCandidate(c) /\ UNCHANGED plans
    BY <1>7 DEF RollBackRecurrence, Running
  <2>2. \A r \in calls[c].todo : Fresh(plans, calls[c]) => ActiveOfIn(plans', r.vendor) = {}
    BY <2>1 DEF Fresh
  <2> QED
    BY <1>5, <2>1, <2>2
<1>8. CASE EndImport(c)
  BY <1>8, FinishFresh DEF EndImport, Running
<1> QED
  BY <1>1, <1>2, <1>3, <1>4, <1>6, <1>7, <1>8 DEF ImportStep

LEMMA StartOnPlanFresh ==
  ASSUME LoneHolds, NEW c \in Calls, NEW p \in Plans, NEW change,
         NEW op \in {"edit", "request", "cancel", "remove", "record"},
         op = "request" => Active(p), StartOnPlan(c, op, p, change)
  PROVE  AloneIsFresh'
<1> DEFINE call == [NewCall(op) EXCEPT !.plan = p, !.change = change]
           alone == \A d \in Calls : calls[d] = NULL
<1>1. call.op = op /\ call.plan = p /\ call.alone = alone
  BY DEF NewCall
<1>2. Begin(c, call) /\ UNCHANGED plans
  BY DEF StartOnPlan
<1> HIDE DEF call
<1>3. Fresh(plans', call)
  BY <1>1, <1>2, ActiveAgrees DEF Fresh
<1> QED
  BY <1>1, <1>2, <1>3, BeginFresh

LEMMA PlanStepFresh ==
  ASSUME LoneHolds, NEW c \in Calls, PlanStep(c)
  PROVE  AloneIsFresh'
<1>1. ASSUME NEW p \in Plans, NEW edit \in Edits, EditPlan(c, p, edit) PROVE AloneIsFresh'
  BY <1>1, StartOnPlanFresh DEF EditPlan
<1>2. ASSUME NEW p \in Plans, RequestCancellation(c, p) PROVE AloneIsFresh'
  BY <1>2, StartOnPlanFresh DEF RequestCancellation
<1>3. ASSUME NEW p \in Plans, ConfirmCancellation(c, p) PROVE AloneIsFresh'
  BY <1>3, StartOnPlanFresh DEF ConfirmCancellation
<1>4. ASSUME NEW p \in Plans, RemovePlan(c, p) PROVE AloneIsFresh'
  BY <1>4, StartOnPlanFresh DEF RemovePlan
<1>5. calls[c] # NULL /\ Finish(c) => AloneIsFresh'
  BY FinishFresh
<1> QED
  BY <1>1, <1>2, <1>3, <1>4, <1>5 DEF PlanStep, EditPlanStore, RequestCancellationStore,
     ConfirmCancellationStore, RemovePlanStore, Running

LEMMA ChargeStepFresh ==
  ASSUME LoneHolds, NEW c \in Calls, ChargeStep(c)
  PROVE  AloneIsFresh'
<1> DEFINE alone == \A d \in Calls : calls[d] = NULL
<1>1. ASSUME NEW payment \in Payments, NEW p \in Plans, RecordChargeOf(c, payment, p)
      PROVE  AloneIsFresh'
  BY <1>1, StartOnPlanFresh DEF RecordChargeOf
<1>2. ASSUME NEW ch \in Charges, NEW p \in Plans \cup {NULL}, AttachSubscription(c, ch, p)
      PROVE  AloneIsFresh'
  <2> DEFINE call == [NewCall("attach") EXCEPT !.charge = ch, !.plan = p]
  <2>1. call.op = "attach" /\ call.alone = alone
    BY DEF NewCall
  <2>2. Begin(c, call)
    BY <1>2 DEF AttachSubscription
  <2> HIDE DEF call
  <2>3. Fresh(plans', call)
    BY <2>1 DEF Fresh
  <2> QED
    BY <2>1, <2>2, <2>3, BeginFresh
<1>3. ASSUME NEW ch \in Charges, DeleteCharge(c, ch) PROVE AloneIsFresh'
  <2> DEFINE call == [NewCall("delete") EXCEPT !.charge = ch]
  <2>1. call.op = "delete" /\ call.alone = alone
    BY DEF NewCall
  <2>2. Begin(c, call)
    BY <1>3 DEF DeleteCharge
  <2> HIDE DEF call
  <2>3. Fresh(plans', call)
    BY <2>1 DEF Fresh
  <2> QED
    BY <2>1, <2>2, <2>3, BeginFresh
<1>4. calls[c] # NULL /\ Finish(c) => AloneIsFresh'
  BY FinishFresh
<1> QED
  BY <1>1, <1>2, <1>3, <1>4 DEF ChargeStep, RecordChargeStore, AttachSubscriptionStore,
     DeleteChargeStore, Running

LEMMA SummaryStepFresh ==
  ASSUME LoneHolds, NEW c \in Calls, SummaryStep(c)
  PROVE  AloneIsFresh'
<1> DEFINE alone == \A d \in Calls : calls[d] = NULL
<1>t. TypesHold
  BY DEF LoneHolds
<1>1. CASE GetSummary(c)
  <2>1. NewCall("summarise").op = "summarise" /\ NewCall("summarise").alone = alone
    BY DEF NewCall
  <2>2. Fresh(plans', NewCall("summarise"))
    BY <2>1 DEF Fresh
  <2> QED
    BY <1>1, <2>1, <2>2, BeginFresh DEF GetSummary
<1>2. ASSUME calls[c] # NULL, NEW call, Continue(c, call), call.alone = calls[c].alone,
             call.op \in {"summarise", "findPlans", "answer"}
      PROVE  AloneIsFresh'
  <2>1. Fresh(plans', call)
    BY <1>2 DEF Fresh
  <2> QED
    BY <1>2, <2>1, ContinueFresh
<1>3. ASSUME calls[c] # NULL, NEW call \in Call, Summarise(c, call), call.alone = calls[c].alone
      PROVE  AloneIsFresh'
  <2> DEFINE next == IF call.spend # NULL /\ call.billed # NULL THEN "findPlans" ELSE "summarise"
             later == [call EXCEPT !.op = next]
  <2>1. next \in {"summarise", "findPlans"}
    OBVIOUS
  <2>2. Continue(c, later)
    BY <1>3 DEF Summarise
  <2> HIDE DEF next
  <2>3. later.op = next /\ later.alone = call.alone
    BY DEF Call
  <2> HIDE DEF later
  <2> QED
    BY <1>2, <1>3, <2>1, <2>2, <2>3
<1>4. CASE GetCategorySpend(c)
  <2> DEFINE call == [calls[c] EXCEPT !.spend = CategorySpend]
  <2>1. calls[c] \in Call /\ calls[c] # NULL
    BY <1>4, <1>t, RunningType DEF GetCategorySpend, Running
  <2>2. CategorySpend \in [total : Nat, unlinked : Nat]
    BY <1>t, TotalType DEF CategorySpend, TypesHold
  <2>3. call \in Call /\ call.alone = calls[c].alone
    BY <2>1, <2>2 DEF Call
  <2>4. Summarise(c, call)
    BY <1>4 DEF GetCategorySpend
  <2> HIDE DEF call
  <2> QED
    BY <1>3, <2>1, <2>3, <2>4
<1>5. CASE GetSubscriptionCharges(c)
  <2> DEFINE call == [calls[c] EXCEPT !.billed = SubscriptionCharges]
  <2>1. calls[c] \in Call /\ calls[c] # NULL
    BY <1>5, <1>t, RunningType DEF GetSubscriptionCharges, Running
  <2>2. SubscriptionCharges \in [Plans -> Nat]
    BY <1>t, TotalType DEF SubscriptionCharges, TypesHold
  <2>3. call \in Call /\ call.alone = calls[c].alone
    BY <2>1, <2>2 DEF Call
  <2>4. Summarise(c, call)
    BY <1>5 DEF GetSubscriptionCharges
  <2> HIDE DEF call
  <2> QED
    BY <1>3, <2>1, <2>3, <2>4
<1>6. CASE FindPlansOfSummary(c)
  <2> DEFINE summary == ToTransactionSummary(calls[c].spend, calls[c].billed)
             call == [calls[c] EXCEPT !.op = "answer", !.summary = summary]
  <2>1. calls[c] \in Call /\ calls[c] # NULL
    BY <1>6, <1>t, RunningType DEF FindPlansOfSummary, Running
  <2>2. Continue(c, call)
    BY <1>6 DEF FindPlansOfSummary
  <2> HIDE DEF summary
  <2>3. call.op = "answer" /\ call.alone = calls[c].alone
    BY <2>1 DEF Call
  <2> HIDE DEF call
  <2> QED
    BY <1>2, <2>1, <2>2, <2>3
<1>7. CASE AnswerSummary(c)
  BY <1>7, FinishFresh DEF AnswerSummary, Running
<1> QED
  BY <1>1, <1>4, <1>5, <1>6, <1>7 DEF SummaryStep

LEMMA AlwaysLone == Spec => []LoneHolds
<1>1. Init => LoneHolds
  <2> SUFFICES ASSUME Init PROVE LoneHolds
    OBVIOUS
  <2>1. AloneIsFresh
    BY DEF Init, AloneIsFresh
  <2> QED
    BY <2>1, InitTypes DEF LoneHolds
<1>2. LoneHolds /\ [Next]_vars => LoneHolds'
  <2> SUFFICES ASSUME LoneHolds, [Next]_vars PROVE LoneHolds'
    OBVIOUS
  <2>1. TypesHold'
    BY NextTypes DEF LoneHolds
  <2>2. ASSUME NEW c \in Calls, AbandonCall(c) PROVE AloneIsFresh'
    BY <2>2, FinishFresh DEF AbandonCall
  <2>3. ASSUME UNCHANGED vars PROVE AloneIsFresh'
    <3>1. calls' = calls /\ plans' = plans
      BY <2>3 DEF vars
    <3> QED
      BY <3>1 DEF LoneHolds, AloneIsFresh
  <2>4. AtOnce => AloneIsFresh'
    BY AtOnceFresh
  <2>5. \A c \in Calls :
          ImportStep(c) \/ PlanStep(c) \/ ChargeStep(c) \/ SummaryStep(c) => AloneIsFresh'
    BY ImportFresh, PlanStepFresh, ChargeStepFresh, SummaryStepFresh
  <2>6. AloneIsFresh'
    BY <2>2, <2>3, <2>4, <2>5 DEF Next, CreatePlan, RecordCharge
  <2> QED
    BY <2>1, <2>6 DEF LoneHolds
<1> QED
  BY <1>1, <1>2, PTL DEF Spec

\* An import that no other handler overlaps adds no subscription to a vendor that has an
\* active one, because the vendor is not among its candidates
\* (collectRecurrenceCandidates), each of which it confirms once.
THEOREM NoSecondPlan == Spec => LoneImportAddsNoSecondPlan
<1>1. ASSUME LoneHolds, NEW c \in Calls, calls[c] # NULL, calls[c].alone, ConfirmRecurrence(c),
             NEW p \in Unused(plans), plans'[p] # NULL
      PROVE  ActiveOf(plans'[p].vendor) = {}
  <2>t. TypesHold
    BY <1>1 DEF LoneHolds
  <2>1. PICK q \in Plans, r \in [row : Nat, vendor : Vendors, cycle : BillingCycles, amount : Nat] :
          /\ calls[c].op = "confirm" /\ r \in calls[c].todo
          /\ \/ UNCHANGED plans
             \/ plans' = [plans EXCEPT ![q] = NewPlan(r.vendor, r.amount, r.cycle)]
    BY <1>1, <2>t, ConfirmedPlan
  <2>2. p \in Plans /\ plans[p] = NULL
    BY <2>t DEF Unused, TypesHold, TypeOK
  <2>3. plans'[p] = NewPlan(r.vendor, r.amount, r.cycle)
    BY <1>1, <2>t, <2>1, <2>2 DEF TypesHold, TypeOK
  <2>4. plans'[p].vendor = r.vendor
    BY <2>3 DEF NewPlan
  <2>5. ActiveOfIn(plans, r.vendor) = {}
    BY <1>1, <2>1 DEF LoneHolds, AloneIsFresh, Fresh
  <2> QED
    BY <2>4, <2>5, ActiveAgrees
<1>2. LoneHolds => [\A c \in Calls : calls[c] # NULL /\ calls[c].alone /\ ConfirmRecurrence(c) =>
         \A p \in Unused(plans) : plans'[p] # NULL => ActiveOf(plans'[p].vendor) = {}]_vars
  BY <1>1
<1> QED
  BY <1>2, AlwaysLone, PTL DEF LoneImportAddsNoSecondPlan

-----------------------------------------------------------------------------
(* Cancelled subscriptions.                                                *)

\* No step but the late answer to a request brings a cancelled subscription back.
LEMMA CancelledStep ==
  ASSUME LoneHolds, [Next]_vars, NEW p \in Plans, Found(plans, p), plans[p].status = "CANCELLED"
  PROVE  \/ plans'[p] = Gone
         \/ plans'[p].status = "CANCELLED"
         \/ \E c \in Calls : Running(c, "request") /\ ~calls[c].alone /\ calls'[c] = NULL
<1> DEFINE Kept == \/ plans'[p] = Gone
                   \/ plans'[p].status = "CANCELLED"
                   \/ \E c \in Calls : Running(c, "request") /\ ~calls[c].alone /\ calls'[c] = NULL
<1>t. TypesHold /\ plans \in [Plans -> Plan \cup {NULL, Gone}]
      /\ calls \in [Calls -> Call \cup {NULL}]
  BY DEF LoneHolds, TypesHold, TypeOK
<1>1. CASE UNCHANGED plans
  BY <1>1
<1>2. ASSUME NEW q \in Unused(plans), NEW row, plans' = [plans EXCEPT ![q] = row] PROVE Kept
  BY <1>t, <1>2 DEF Unused, Found
<1>3. ASSUME NEW new \in NewPlans, CreatePlan(new) PROVE Kept
  BY <1>t, <1>2, <1>3, UnusedIsOne DEF CreatePlan, TypesHold
<1>4. ASSUME NEW c \in Calls, ConfirmRecurrence(c) PROVE Kept
  BY <1>t, <1>1, <1>2, <1>4, ConfirmedPlan
<1>5. ASSUME NEW c \in Calls, EditPlanStore(c) PROVE Kept
  <2> DEFINE q == calls[c].plan
             row == [f \in DOMAIN plans[q] |-> IF f = "edited" THEN TRUE
                       ELSE IF f \in DOMAIN calls[c].change THEN calls[c].change[f] ELSE plans[q][f]]
  <2>1. q \in Plans /\ calls[c].change \in Edits
    BY <1>t, <1>5, RunningType DEF EditPlanStore, Running, Carries
  <2>2. plans' = [plans EXCEPT ![q] = IF Found(plans, q) THEN row ELSE @]
    BY <1>5 DEF EditPlanStore, UpdatePlan
  <2>3. ASSUME Found(plans, q) PROVE row.status = plans[q].status
    <3>1. plans[q] \in Plan
      BY <1>t, <2>1, <2>3, FoundType DEF TypesHold
    <3> DEFINE old == plans[q]
               edit == calls[c].change
    <3>2. row = [f \in DOMAIN old |-> IF f = "edited" THEN TRUE
                   ELSE IF f \in DOMAIN edit THEN edit[f] ELSE old[f]]
      OBVIOUS
    <3>3. old \in Plan /\ edit \in Edits
      BY <2>1, <3>1
    <3> HIDE DEF q, row, old, edit
    <3>4. row.status = old.status
      BY <3>2, <3>3, EditedRow
    <3> QED
      BY <3>4 DEF old
  <2> HIDE DEF row, q
  <2> QED
    BY <1>t, <2>1, <2>2, <2>3
<1>6. ASSUME NEW c \in Calls, RequestCancellationStore(c) PROVE Kept
  <2>1. Running(c, "request") /\ calls'[c] = NULL
    BY <1>t, <1>6 DEF RequestCancellationStore, Finish, Continue
  <2>2. CASE ~calls[c].alone
    BY <2>1, <2>2
  <2>3. CASE calls[c].alone
    <3> DEFINE q == calls[c].plan
               row == [plans[q] EXCEPT !.status = "CANCELLATION_REQUESTED"]
    <3>1. plans' = [plans EXCEPT ![q] = IF Found(plans, q) THEN row ELSE @]
      BY <1>6 DEF RequestCancellationStore, UpdatePlan
    <3>2. plans[q].status = "ACTIVE"
      BY <2>1, <2>3 DEF LoneHolds, AloneIsFresh, Fresh, ActiveIn, Running
    <3> HIDE DEF row, q
    <3>3. q # p
      BY <3>2
    <3> QED
      BY <1>t, <3>1, <3>3
  <2> QED
    BY <2>2, <2>3
<1>7. ASSUME NEW c \in Calls, ConfirmCancellationStore(c) PROVE Kept
  <2> DEFINE q == calls[c].plan
             row == [plans[q] EXCEPT !.status = "CANCELLED"]
  <2>1. plans' = [plans EXCEPT ![q] = IF Found(plans, q) THEN row ELSE @]
    BY <1>7 DEF ConfirmCancellationStore, UpdatePlan
  <2>2. q = p => row.status = "CANCELLED"
    BY <1>t, FoundType DEF TypesHold, Plan
  <2> HIDE DEF row, q
  <2> QED
    BY <1>t, <2>1, <2>2
<1>8. ASSUME NEW c \in Calls, RemovePlanStore(c) PROVE Kept
  BY <1>t, <1>8 DEF RemovePlanStore, SoftDelete
<1>9. ASSUME NEW c \in Calls, ImportStep(c) PROVE Kept
  BY <1>1, <1>4, <1>9 DEF ImportStep, StartImport, StoreCharges, ResolveRecurrences,
     FindActiveMatch, RollBackRecurrence, EndImport
<1>10. ASSUME NEW c \in Calls, PlanStep(c) PROVE Kept
  BY <1>1, <1>5, <1>6, <1>7, <1>8, <1>10 DEF PlanStep, EditPlan, RequestCancellation,
     ConfirmCancellation, RemovePlan, StartOnPlan
<1>11. ASSUME NEW c \in Calls, ChargeStep(c) PROVE Kept
  BY <1>1, <1>11 DEF ChargeStep, RecordChargeOf, StartOnPlan, AttachSubscription, DeleteCharge,
     RecordChargeStore, AttachSubscriptionStore, DeleteChargeStore
<1>12. ASSUME NEW c \in Calls, SummaryStep(c) PROVE Kept
  BY <1>1, <1>12 DEF SummaryStep, GetSummary, GetCategorySpend, GetSubscriptionCharges,
     Summarise, FindPlansOfSummary, AnswerSummary
<1>13. Kept
  BY <1>1, <1>3, <1>9, <1>10, <1>11, <1>12 DEF Next, vars, AbandonCall, RecordCharge
<1> QED
  BY <1>13

\* A cancelled subscription stays cancelled or is removed, unless a request for its
\* cancellation was part-way through, beside another handler, when it was confirmed
\* (requestCancellation reads the status in one statement and writes it in another).
THEOREM CancelledStays == Spec => CancelledStaysCancelled
<1>1. LoneHolds /\ [Next]_vars => [\A p \in Plans :
         Found(plans, p) /\ plans[p].status = "CANCELLED" =>
            \/ plans'[p] = Gone
            \/ plans'[p].status = "CANCELLED"
            \/ \E c \in Calls : Running(c, "request") /\ ~calls[c].alone /\ calls'[c] = NULL]_vars
  BY CancelledStep
<1> QED
  BY <1>1, AlwaysLone, PTL DEF CancelledStaysCancelled, Spec

-----------------------------------------------------------------------------
(* Sorting.                                                                *)

\* What comes before k in the order of f, of two equal ones the lower position.
Before(D, f, k) == {j \in D : f[j] < f[k] \/ (f[j] = f[k] /\ j < k)}

\* Finitely many positions can be sorted: each at the number of those before it.
LEMMA SortedExists ==
  ASSUME NEW D, D \subseteq Nat, IsFiniteSet(D), NEW f, \A k \in D : f[k] \in Nat
  PROVE  \E s \in SetToSeqs(D) : \A j, k \in DOMAIN s : j < k => f[s[j]] <= f[s[k]]
<1> DEFINE n == Cardinality(D)
           B(k) == Before(D, f, k)
           rank == [k \in D |-> Cardinality(B(k)) + 1]
<1>1. n \in Nat /\ IsFiniteSet(1 .. n) /\ Cardinality(1 .. n) = n
  BY FS_CardinalityType, FS_Interval
<1>2. ASSUME NEW k \in D
      PROVE  IsFiniteSet(B(k)) /\ Cardinality(B(k)) \in Nat /\ rank[k] \in 1 .. n
  <2>1. B(k) \subseteq D \ {k}
    BY DEF Before
  <2>2. IsFiniteSet(D \ {k}) /\ Cardinality(D \ {k}) = n - 1
    BY FS_RemoveElement
  <2>3. IsFiniteSet(B(k)) /\ Cardinality(B(k)) <= n - 1
    BY <2>1, <2>2, FS_Subset
  <2>4. Cardinality(B(k)) \in Nat
    BY <2>3, FS_CardinalityType
  <2> HIDE DEF B, n
  <2> QED
    BY <1>1, <2>3, <2>4
<1>3. ASSUME NEW j \in D, NEW k \in D, j \in B(k)
      PROVE  rank[j] < rank[k]
  <2>1. B(j) \cup {j} \subseteq B(k) /\ j \notin B(j)
    <3>1. j \in Nat /\ k \in Nat /\ f[j] \in Nat /\ f[k] \in Nat
      OBVIOUS
    <3>2. ASSUME NEW x \in B(j) PROVE x \in B(k)
      <4>1. x \in D /\ x \in Nat /\ f[x] \in Nat
        BY DEF Before
      <4>2. f[x] < f[j] \/ (f[x] = f[j] /\ x < j)
        BY DEF Before
      <4>3. f[j] < f[k] \/ (f[j] = f[k] /\ j < k)
        BY <1>3 DEF Before
      <4>4. f[x] < f[k] \/ (f[x] = f[k] /\ x < k)
        BY <3>1, <4>1, <4>2, <4>3
      <4> QED
        BY <4>1, <4>4 DEF Before
    <3>3. j \notin B(j)
      BY <3>1 DEF Before
    <3> QED
      BY <1>3, <3>2, <3>3
  <2>2. IsFiniteSet(B(j)) /\ IsFiniteSet(B(k))
    BY <1>2
  <2>3. Cardinality(B(j) \cup {j}) = Cardinality(B(j)) + 1
    BY <2>1, <2>2, FS_AddElement
  <2>4. Cardinality(B(j)) + 1 <= Cardinality(B(k))
    BY <2>1, <2>2, <2>3, FS_Subset
  <2>5. Cardinality(B(j)) \in Nat /\ Cardinality(B(k)) \in Nat
    BY <1>2
  <2> HIDE DEF B
  <2> QED
    BY <2>4, <2>5
<1>4. \A j, k \in D : j # k => j \in B(k) \/ k \in B(j)
  BY DEF Before
<1>5. \A k \in D : rank[k] \in 1 .. n
  BY <1>2
<1>6. DOMAIN rank = D
  OBVIOUS
<1> HIDE DEF rank, n
<1>7. rank \in [D -> 1 .. n]
  <2>1. rank = [k \in D |-> rank[k]]
    BY DEF rank
  <2> QED
    BY <1>5, <2>1
<1>8. rank \in Surjection(D, 1 .. n)
  <2>1. \A j, k \in D : rank[j] = rank[k] => j = k
    <3> SUFFICES ASSUME NEW j \in D, NEW k \in D, j # k PROVE rank[j] # rank[k]
      OBVIOUS
    <3>1. rank[j] < rank[k] \/ rank[k] < rank[j]
      BY <1>3, <1>4
    <3> QED
      BY <1>5, <3>1
  <2>2. rank \in Injection(D, 1 .. n)
    BY <1>7, <2>1 DEF Injection, IsInjective
  <2> QED
    BY <1>1, <2>2, FS_Injection DEF n
<1> DEFINE s == [i \in 1 .. n |-> CHOOSE k \in D : rank[k] = i]
<1>9. \A i \in 1 .. n : s[i] \in D /\ rank[s[i]] = i
  BY <1>8 DEF Surjection
<1>10. DOMAIN s = 1 .. n /\ s \in [1 .. n -> D]
  BY <1>9
<1> HIDE DEF s
<1>11. s \in SetToSeqs(D)
  <2>1. \A i, j \in 1 .. n : i # j => s[i] # s[j]
    BY <1>9
  <2> QED
    BY <1>10, <2>1 DEF SetToSeqs, n
<1>12. ASSUME NEW i \in DOMAIN s, NEW j \in DOMAIN s, i < j
       PROVE  f[s[i]] <= f[s[j]]
  <2>1. s[i] \in D /\ s[j] \in D /\ rank[s[i]] = i /\ rank[s[j]] = j /\ i \in Nat /\ j \in Nat
    BY <1>9, <1>10, <1>1
  <2>2. s[i] # s[j] /\ ~(rank[s[j]] < rank[s[i]])
    BY <1>12, <2>1
  <2>3. s[i] \in B(s[j])
    BY <1>3, <1>4, <2>1, <2>2
  <2>4. f[s[i]] < f[s[j]] \/ f[s[i]] = f[s[j]]
    BY <2>3 DEF Before
  <2>5. f[s[i]] \in Nat /\ f[s[j]] \in Nat
    BY <2>1
  <2> QED
    BY <2>4, <2>5
<1> QED
  BY <1>11, <1>12

\* A bijection carries a part of its range over with its size.
LEMMA PartSize ==
  ASSUME NEW A, NEW T, IsFiniteSet(A), NEW g \in Bijection(A, T), NEW X, X \subseteq T
  PROVE  /\ IsFiniteSet(X) /\ IsFiniteSet({a \in A : g[a] \in X})
         /\ Cardinality(X) = Cardinality({a \in A : g[a] \in X})
<1> DEFINE P == {a \in A : g[a] \in X}
           r == [a \in P |-> g[a]]
<1>1. IsFiniteSet(P)
  BY FS_Subset
<1>2. r \in Bijection(P, X)
  BY DEF Bijection, Injection, Surjection, IsInjective
<1>3. ExistsBijection(P, X)
  BY <1>2 DEF ExistsBijection
<1> HIDE DEF P, r
<1>4. IsFiniteSet(X) /\ Cardinality(X) = Cardinality(P)
  BY <1>1, <1>3, FS_Bijection
<1> QED
  BY <1>1, <1>4 DEF P

\* An enumeration of as many as there are has them all.
LEMMA SeqsAreBijections ==
  ASSUME NEW S, IsFiniteSet(S), NEW s \in SetToSeqs(S)
  PROVE  /\ s \in Bijection(1 .. Cardinality(S), S) /\ DOMAIN s = 1 .. Cardinality(S)
         /\ Cardinality(S) \in Nat
<1> DEFINE n == Cardinality(S)
<1>1. n \in Nat /\ IsFiniteSet(1 .. n) /\ Cardinality(1 .. n) = n
  BY FS_CardinalityType, FS_Interval
<1>2. s \in Injection(1 .. n, S)
  BY DEF SetToSeqs, Injection, IsInjective
<1>3. s \in Surjection(1 .. n, S)
  BY <1>1, <1>2, FS_Injection
<1> QED
  BY <1>1, <1>2, <1>3 DEF Bijection, Injection

-----------------------------------------------------------------------------
(* A group of a history and the set of its charges.                        *)

\* The group has each charge of T at one position, in the order of their days.
Enumerates(group, T) ==
    /\ DOMAIN group \subseteq Nat /\ IsFiniteSet(DOMAIN group)
    /\ group \in Bijection(DOMAIN group, T)
    /\ \A h \in T : h.day \in Nat /\ h.amount \in Nat
    /\ \A j, k \in DOMAIN group : j < k => group[j].day <= group[k].day

\* A group is as large as its set.
LEMMA EnumeratedSize ==
  ASSUME NEW group, NEW T, Enumerates(group, T)
  PROVE  /\ IsFiniteSet(T) /\ Cardinality(T) \in Nat /\ Size(group) = Cardinality(T)
         /\ T # {} => DOMAIN group # {} /\ Cardinality(T) >= 1
<1>1. ExistsBijection(DOMAIN group, T)
  BY DEF Enumerates, ExistsBijection
<1>2. IsFiniteSet(T) /\ Cardinality(T) = Size(group)
  BY <1>1, FS_Bijection DEF Enumerates, Size
<1>3. Cardinality(T) \in Nat /\ (Cardinality(T) = 0 <=> T = {})
  BY <1>2, FS_CardinalityType, FS_EmptySet
<1>4. T # {} => DOMAIN group # {}
  BY DEF Enumerates, Bijection, Surjection
<1> QED
  BY <1>2, <1>3, <1>4

\* The charges of a group by amount.
LEMMA SortedGroup ==
  ASSUME NEW group, NEW T, Enumerates(group, T)
  PROVE  LET s == ByAmount(group)
             n == Cardinality(T)
         IN  /\ s \in [1 .. n -> DOMAIN group]
             /\ [k \in 1 .. n |-> group[s[k]]] \in Bijection(1 .. n, T)
             /\ \A j, k \in 1 .. n : j < k => group[s[j]].amount <= group[s[k]].amount
<1> DEFINE D == DOMAIN group
           f == [k \in D |-> group[k].amount]
           s == ByAmount(group)
           n == Cardinality(T)
           g == [k \in 1 .. n |-> group[s[k]]]
<1>1. \A k \in D : group[k] \in T /\ f[k] \in Nat /\ f[k] = group[k].amount
  BY DEF Enumerates, Bijection, Injection
<1>2. D \subseteq Nat /\ IsFiniteSet(D)
  BY DEF Enumerates
<1> HIDE DEF f
<1>3. \E r \in SetToSeqs(D) : \A j, k \in DOMAIN r : j < k => f[r[j]] <= f[r[k]]
  BY <1>1, <1>2, SortedExists
<1>4. PICK r \in SetToSeqs(D) : \A j, k \in DOMAIN r : j < k => f[r[j]] <= f[r[k]]
  BY <1>3
<1>5. r \in [DOMAIN r -> D]
  BY <1>2, <1>4, SeqsAreBijections DEF Bijection, Injection
<1>6. \A j, k \in DOMAIN r : j < k => group[r[j]].amount <= group[r[k]].amount
  BY <1>1, <1>4, <1>5
<1>7. s \in SetToSeqs(D) /\ \A j, k \in DOMAIN s : j < k => group[s[j]].amount <= group[s[k]].amount
  BY <1>4, <1>6 DEF ByAmount
<1> HIDE DEF s
<1>8. Cardinality(D) = n
  BY EnumeratedSize DEF Size
<1>9. s \in Bijection(1 .. n, D) /\ DOMAIN s = 1 .. n
  BY <1>2, <1>7, <1>8, SeqsAreBijections
<1>10. s \in [1 .. n -> D]
  BY <1>9 DEF Bijection, Injection
<1>11. g \in Bijection(1 .. n, T)
  <2>1. g \in [1 .. n -> T]
    BY <1>1, <1>10
  <2>2. \A j, k \in 1 .. n : g[j] = g[k] => j = k
    BY <1>9, <1>10 DEF Enumerates, Bijection, Injection, IsInjective
  <2>3. \A h \in T : \E k \in 1 .. n : g[k] = h
    <3> TAKE h \in T
    <3>1. PICK d \in D : group[d] = h
      BY DEF Enumerates, Bijection, Surjection
    <3>2. PICK k \in 1 .. n : s[k] = d
      BY <1>9 DEF Bijection, Surjection
    <3> QED
      BY <3>1, <3>2
  <2> HIDE DEF g
  <2> QED
    BY <2>1, <2>2, <2>3 DEF Bijection, Injection, Surjection, IsInjective
<1> QED
  BY <1>7, <1>9, <1>10, <1>11 DEF s

\* The amount at a position of the sorted group has that rank in the set.
LEMMA RankedIsSorted ==
  ASSUME NEW group, NEW T, Enumerates(group, T), NEW k \in 1 .. Cardinality(T)
  PROVE  /\ Ranked(T, k) = group[ByAmount(group)[k]].amount
         /\ Ranked(T, k) \in Nat
<1> DEFINE n == Cardinality(T)
           g == [j \in 1 .. n |-> group[ByAmount(group)[j]]]
           a == group[ByAmount(group)[k]].amount
           amounts == {h.amount : h \in T}
           Under(x) == {h \in T : h.amount < x}
           UpTo(x) == {h \in T : h.amount <= x}
           Is(x) == Cardinality(Under(x)) < k /\ Cardinality(UpTo(x)) >= k
<1>1. n \in Nat /\ IsFiniteSet(T) /\ IsFiniteSet(1 .. n) /\ k \in Nat /\ k >= 1
  BY EnumeratedSize, FS_Interval
<1>2. /\ g \in Bijection(1 .. n, T)
      /\ \A i, j \in 1 .. n : i < j => g[i].amount <= g[j].amount
      /\ a = g[k].amount
  BY SortedGroup
<1> HIDE DEF g, n, a
<1>3. /\ \A j \in 1 .. n : g[j] \in T /\ g[j].amount \in Nat
      /\ \A h \in T : h.amount \in Nat
  BY <1>2 DEF Enumerates, Bijection, Injection
<1>4. k \in 1 .. n /\ a \in Nat /\ a \in amounts
  BY <1>2, <1>3 DEF n
<1>5. ASSUME NEW X, X \subseteq T
      PROVE  /\ IsFiniteSet(X) /\ Cardinality(X) \in Nat
             /\ Cardinality(X) = Cardinality({j \in 1 .. n : g[j] \in X})
  <2>1. IsFiniteSet(X) /\ Cardinality(X) = Cardinality({j \in 1 .. n : g[j] \in X})
    BY <1>1, <1>2, <1>5, PartSize
  <2> QED
    BY <2>1, FS_CardinalityType
<1>6. Cardinality(Under(a)) < k
  <2>1. ASSUME NEW j \in 1 .. n, g[j] \in Under(a) PROVE j \in 1 .. (k - 1)
    <3>1. g[j].amount < g[k].amount
      BY <1>2, <2>1
    <3>2. ~(k < j) /\ j # k
      BY <1>2, <1>3, <1>4, <3>1
    <3> QED
      BY <1>1, <3>2
  <2>2. {j \in 1 .. n : g[j] \in Under(a)} \subseteq 1 .. (k - 1)
    BY <2>1
  <2>3. IsFiniteSet(1 .. (k - 1)) /\ Cardinality(1 .. (k - 1)) = k - 1
    BY <1>1, FS_Interval
  <2>4. Cardinality({j \in 1 .. n : g[j] \in Under(a)}) <= k - 1
    BY <2>2, <2>3, FS_Subset
  <2>5. /\ Cardinality(Under(a)) \in Nat
        /\ Cardinality(Under(a)) = Cardinality({j \in 1 .. n : g[j] \in Under(a)})
    BY <1>5
  <2> HIDE DEF Under
  <2> QED
    BY <1>1, <2>4, <2>5
<1>7. Cardinality(UpTo(a)) >= k
  <2>1. ASSUME NEW j \in 1 .. k PROVE j \in 1 .. n /\ g[j] \in UpTo(a)
    <3>1. j \in 1 .. n
      BY <1>1, <1>4
    <3>2. j = k \/ j < k
      BY <1>1
    <3>3. g[j].amount <= a
      BY <1>2, <1>3, <1>4, <3>1, <3>2
    <3> QED
      BY <1>3, <3>1, <3>3
  <2>2. 1 .. k \subseteq {j \in 1 .. n : g[j] \in UpTo(a)}
    BY <2>1
  <2>3. Cardinality(1 .. k) = k /\ IsFiniteSet({j \in 1 .. n : g[j] \in UpTo(a)})
    BY <1>1, FS_Interval, FS_Subset
  <2>4. k <= Cardinality({j \in 1 .. n : g[j] \in UpTo(a)})
    BY <2>2, <2>3, FS_Subset
  <2>5. /\ Cardinality(UpTo(a)) \in Nat
        /\ Cardinality(UpTo(a)) = Cardinality({j \in 1 .. n : g[j] \in UpTo(a)})
    BY <1>5
  <2> HIDE DEF UpTo
  <2> QED
    BY <1>1, <2>4, <2>5
<1>8. ASSUME NEW x \in amounts, NEW y \in amounts, x < y, Is(x), Is(y) PROVE FALSE
  <2>1. x \in Nat /\ y \in Nat
    BY <1>3
  <2>2. UpTo(x) \subseteq Under(y)
    BY <1>3, <1>8, <2>1
  <2>3. Cardinality(UpTo(x)) <= Cardinality(Under(y))
    <3>1. IsFiniteSet(Under(y))
      BY <1>5
    <3> HIDE DEF Under, UpTo
    <3> QED
      BY <2>2, <3>1, FS_Subset
  <2>4. Cardinality(UpTo(x)) \in Nat /\ Cardinality(Under(y)) \in Nat
    BY <1>5
  <2> HIDE DEF UpTo, Under
  <2> QED
    BY <1>1, <1>8, <2>3, <2>4
<1>9. Ranked(T, k) \in amounts /\ Is(Ranked(T, k))
  BY <1>4, <1>6, <1>7 DEF Ranked
<1>10. Ranked(T, k) \in Nat
  BY <1>3, <1>9
<1> HIDE DEF amounts, Is
<1>11. Ranked(T, k) = a
  <2>1. Is(a)
    BY <1>6, <1>7 DEF Is
  <2> QED
    BY <1>4, <1>8, <1>9, <1>10, <2>1
<1> QED
  BY <1>10, <1>11 DEF a

\* The median of the program is the mean of the two in the middle, by rank.
LEMMA MedianIsRanked ==
  ASSUME NEW group, NEW T, Enumerates(group, T), T # {}
  PROVE  LET n == Cardinality(T) IN
         /\ TwiceMedian(group) = Ranked(T, (n + 1) \div 2) + Ranked(T, n \div 2 + 1)
         /\ TwiceMedian(group) \in Nat
<1> DEFINE n == Cardinality(T)
           m == n \div 2
           A(k) == group[ByAmount(group)[k]].amount
<1>1. n \in Nat /\ n >= 1 /\ Size(group) = n
  BY EnumeratedSize
<1>2. \A k \in 1 .. n : Ranked(T, k) = A(k) /\ A(k) \in Nat
  BY RankedIsSorted
<1>3. TwiceMedian(group) = IF n % 2 = 0 THEN A(m) + A(m + 1) ELSE 2 * A(m + 1)
  BY <1>1 DEF TwiceMedian
<1> HIDE DEF n, A
<1>4. CASE n % 2 = 0
  <2>1. (n + 1) \div 2 = m /\ m \in 1 .. n /\ m + 1 \in 1 .. n
    BY <1>1, <1>4
  <2>2. /\ Ranked(T, m) = A(m) /\ A(m) \in Nat
        /\ Ranked(T, m + 1) = A(m + 1) /\ A(m + 1) \in Nat
    BY <1>2, <2>1
  <2> HIDE DEF m
  <2> QED
    BY <1>3, <1>4, <2>1, <2>2 DEF n, m
<1>5. CASE n % 2 # 0
  <2>1. (n + 1) \div 2 = m + 1 /\ m + 1 \in 1 .. n
    BY <1>1, <1>5
  <2>2. Ranked(T, m + 1) = A(m + 1) /\ A(m + 1) \in Nat
    BY <1>2, <2>1
  <2> HIDE DEF m
  <2> QED
    BY <1>3, <1>5, <2>1, <2>2 DEF n, m
<1> QED
  BY <1>4, <1>5

\* Where the charges of a group are, its amounts and days are those of the set.
LEMMA EnumeratedCharges ==
  ASSUME NEW group, NEW T, Enumerates(group, T)
  PROVE  /\ \A k \in DOMAIN group : /\ k \in Nat /\ group[k] \in T
                                    /\ group[k].day \in Nat /\ group[k].amount \in Nat
         /\ \A h \in T : \E k \in DOMAIN group : group[k] = h
         /\ \A j, k \in DOMAIN group : group[j] = group[k] => j = k
         /\ \A j, k \in DOMAIN group : j <= k => group[j].day <= group[k].day
<1>1. /\ \A k \in DOMAIN group : /\ k \in Nat /\ group[k] \in T
                                 /\ group[k].day \in Nat /\ group[k].amount \in Nat
      /\ \A h \in T : \E k \in DOMAIN group : group[k] = h
      /\ \A j, k \in DOMAIN group : group[j] = group[k] => j = k
  BY DEF Enumerates, Bijection, Injection, Surjection, IsInjective
<1>2. ASSUME NEW j \in DOMAIN group, NEW k \in DOMAIN group, j <= k
      PROVE  group[j].day <= group[k].day
  <2>1. j = k \/ j < k
    BY <1>1, <1>2
  <2>2. CASE j = k
    BY <1>1, <2>2
  <2>3. CASE j < k
    BY <2>3 DEF Enumerates
  <2> QED
    BY <2>1, <2>2, <2>3
<1> QED
  BY <1>1, <1>2

\* One amount in the group is one amount in the set (hasIdenticalAmount).
LEMMA IdenticalAgrees ==
  ASSUME NEW group, NEW T, Enumerates(group, T)
  PROVE  HasIdenticalAmount(group) <=> \A a, b \in T : a.amount = b.amount
  BY EnumeratedCharges DEF HasIdenticalAmount

\* A stable amount in the group is a steady price in the set (hasStableAmount).
LEMMA SteadyAgrees ==
  ASSUME NEW group, NEW T, Enumerates(group, T), T # {}
  PROVE  HasStableAmount(group) <=> Steady(T)
<1> DEFINE Close(h) == 100 * Difference(2 * h.amount, TwiceMedian(group)) <= 15 * TwiceMedian(group)
<1>1. Steady(T) <=> \A h \in T : Close(h)
  BY MedianIsRanked DEF Steady
<1>2. HasStableAmount(group) <=> \A k \in DOMAIN group : Close(group[k])
  BY DEF HasStableAmount
<1> HIDE DEF Close
<1> QED
  BY <1>1, <1>2, EnumeratedCharges

\* The charge at the last position is one of the last day.
LEMMA LastIsLatest ==
  ASSUME NEW group, NEW T, Enumerates(group, T), T # {}
  PROVE  LET last == group[Max(DOMAIN group)] IN
         last \in T /\ \A h \in T : h.day <= last.day
<1>1. DOMAIN group # {} /\ DOMAIN group \subseteq Nat /\ IsFiniteSet(DOMAIN group)
  BY EnumeratedSize DEF Enumerates
<1>2. Max(DOMAIN group) \in DOMAIN group /\ \A k \in DOMAIN group : k <= Max(DOMAIN group)
  BY <1>1, GreatestIsOne
<1> QED
  BY <1>2, EnumeratedCharges

-----------------------------------------------------------------------------
(* The days between charges.                                               *)

\* The position before k in the group.
Preceding(group, k) == Max({j \in DOMAIN group : j < k})

\* Every position but the first has one before it, and none is between them.
LEMMA PrecedingIsNext ==
  ASSUME NEW group, NEW T, Enumerates(group, T), NEW k \in DOMAIN group \ {Min(DOMAIN group)}
  PROVE  /\ Preceding(group, k) \in DOMAIN group /\ Preceding(group, k) < k
         /\ \A j \in DOMAIN group : j < k => j <= Preceding(group, k)
<1> DEFINE lower == {j \in DOMAIN group : j < k}
<1>1. DOMAIN group \subseteq Nat /\ IsFiniteSet(DOMAIN group)
  BY DEF Enumerates
<1>2. Min(DOMAIN group) \in DOMAIN group /\ Min(DOMAIN group) <= k
  BY <1>1, LeastIsOne
<1>3. Min(DOMAIN group) \in lower
  BY <1>1, <1>2
<1>4. IsFiniteSet(lower) /\ lower \subseteq Nat
  BY <1>1, FS_Subset
<1>5. Max(lower) \in lower /\ \A j \in lower : j <= Max(lower)
  <2> HIDE DEF lower
  <2> QED
    BY <1>3, <1>4, GreatestIsOne
<1> QED
  BY <1>5 DEF Preceding

\* A position above another one has one before it.
LEMMA AboveIsNotFirst ==
  ASSUME NEW group, NEW T, Enumerates(group, T),
         NEW i \in DOMAIN group, NEW k \in DOMAIN group, i < k
  PROVE  k # Min(DOMAIN group)
<1>1. DOMAIN group \subseteq Nat
  BY DEF Enumerates
<1>2. Min(DOMAIN group) <= i
  BY <1>1, LeastIsOne
<1> QED
  BY <1>1, <1>2

\* The gaps that the program takes, by position.
LEMMA GapsByPosition ==
  ASSUME NEW group
  PROVE  GapsInDays(group) = {group[k].day - group[Preceding(group, k)].day :
                                k \in DOMAIN group \ {Min(DOMAIN group)}}
  BY DEF GapsInDays, Preceding

DistinctDays(T) == \A a, b \in T : a # b => a.day # b.day

\* Without two charges on one day the gaps by position are those between days.
LEMMA GapsAgree ==
  ASSUME NEW group, NEW T, Enumerates(group, T), DistinctDays(T)
  PROVE  GapsInDays(group) = Gaps(T)
<1> DEFINE D == DOMAIN group
<1>1. /\ \A k \in D : k \in Nat /\ group[k] \in T /\ group[k].day \in Nat
      /\ \A h \in T : \E k \in D : group[k] = h
      /\ \A j, k \in D : group[j] = group[k] => j = k
      /\ \A j, k \in D : j <= k => group[j].day <= group[k].day
  BY EnumeratedCharges
<1>2. \A j, k \in D : j < k => group[j].day < group[k].day
  <2> SUFFICES ASSUME NEW j \in D, NEW k \in D, j < k PROVE group[j].day < group[k].day
    OBVIOUS
  <2>1. group[j] # group[k] /\ j <= k
    BY <1>1
  <2>2. group[j].day # group[k].day /\ group[j].day <= group[k].day
    BY <1>1, <2>1 DEF DistinctDays
  <2> QED
    BY <1>1, <2>2
<1>3. ASSUME NEW k \in D \ {Min(D)}
      PROVE  group[k].day - group[Preceding(group, k)].day \in Gaps(T)
  <2> DEFINE p == Preceding(group, k)
             a == group[p]
             b == group[k]
  <2>1. p \in D /\ p < k /\ \A j \in D : j < k => j <= p
    BY <1>3, PrecedingIsNext
  <2>2. a \in T /\ b \in T /\ a.day < b.day
    BY <1>1, <1>2, <2>1
  <2>3. ASSUME NEW h \in T, a.day < h.day, h.day < b.day PROVE FALSE
    <3>1. PICK j \in D : group[j] = h
      BY <1>1
    <3>2. j < k \/ k <= j
      BY <1>1
    <3>3. CASE j < k
      <4>1. h.day <= a.day
        BY <1>1, <2>1, <3>1, <3>3
      <4> QED
        BY <1>1, <2>1, <2>3, <3>1, <4>1
    <3>4. CASE k <= j
      <4>1. b.day <= h.day
        BY <1>1, <3>1, <3>4
      <4> QED
        BY <1>1, <2>3, <3>1, <4>1
    <3> QED
      BY <3>2, <3>3, <3>4
  <2> HIDE DEF a, b
  <2>4. b.day - a.day \in Gaps(T)
    BY <2>2, <2>3 DEF Gaps
  <2> QED
    BY <2>4 DEF a, b
<1>4. ASSUME NEW a \in T, NEW b \in T, a.day < b.day,
             ~\E h \in T : a.day < h.day /\ h.day < b.day
      PROVE  b.day - a.day \in GapsInDays(group)
  <2>1. PICK i \in D : group[i] = a
    BY <1>1
  <2>2. PICK k \in D : group[k] = b
    BY <1>1
  <2>3. i < k
    <3>1. k <= i => b.day <= a.day
      BY <1>1, <2>1, <2>2
    <3>2. i \in Nat /\ k \in Nat /\ a.day \in Nat /\ b.day \in Nat
      BY <1>1, <2>1, <2>2
    <3> QED
      BY <1>4, <3>1, <3>2
  <2>4. k \in D \ {Min(D)}
    BY <2>3, AboveIsNotFirst
  <2> DEFINE p == Preceding(group, k)
  <2>5. p \in D /\ p < k /\ i <= p
    BY <2>3, <2>4, PrecedingIsNext
  <2> HIDE DEF p
  <2>6. p = i
    <3>1. ASSUME i < p PROVE FALSE
      <4>1. a.day < group[p].day /\ group[p].day < b.day /\ group[p] \in T
        BY <1>1, <1>2, <2>1, <2>2, <2>5, <3>1
      <4> QED
        BY <1>4, <4>1
    <3>2. i \in Nat /\ p \in Nat
      BY <1>1, <2>5
    <3> QED
      BY <2>5, <3>1, <3>2
  <2> QED
    BY <2>1, <2>2, <2>4, <2>6, GapsByPosition DEF p
<1>5. Gaps(T) \subseteq GapsInDays(group)
  BY <1>4 DEF Gaps
<1>6. GapsInDays(group) \subseteq Gaps(T)
  BY <1>3, GapsByPosition
<1> QED
  BY <1>5, <1>6

\* Two charges on one day leave a gap of no days.
LEMMA SameDayGap ==
  ASSUME NEW group, NEW T, Enumerates(group, T), ~DistinctDays(T)
  PROVE  0 \in GapsInDays(group)
<1> DEFINE D == DOMAIN group
<1>1. /\ \A k \in D : k \in Nat /\ group[k] \in T /\ group[k].day \in Nat
      /\ \A h \in T : \E k \in D : group[k] = h
      /\ \A j, k \in D : j <= k => group[j].day <= group[k].day
  BY EnumeratedCharges
<1>2. PICK a \in T, b \in T : a # b /\ a.day = b.day
  BY DEF DistinctDays
<1>3. PICK x \in D : group[x] = a
  BY <1>1
<1>4. PICK y \in D : group[y] = b
  BY <1>1
<1>5. x # y /\ x \in Nat /\ y \in Nat /\ group[x].day = group[y].day
  BY <1>1, <1>2, <1>3, <1>4
<1>6. ASSUME NEW i \in D, NEW k \in D, i < k, group[i].day = group[k].day
      PROVE  0 \in GapsInDays(group)
  <2>1. k \in D \ {Min(D)}
    BY <1>6, AboveIsNotFirst
  <2> DEFINE p == Preceding(group, k)
  <2>2. p \in D /\ p < k /\ i <= p
    BY <1>6, <2>1, PrecedingIsNext
  <2>3. p <= k
    BY <1>1, <2>2
  <2>4. group[k].day - group[p].day = 0
    BY <1>1, <1>6, <2>2, <2>3
  <2> QED
    BY <2>1, <2>4, GapsByPosition
<1> QED
  BY <1>5, <1>6

\* A group of two or more charges has a gap, and all gaps are whole days.
LEMMA GapsAreDays ==
  ASSUME NEW group, NEW T, Enumerates(group, T)
  PROVE  /\ GapsInDays(group) \subseteq Nat
         /\ Cardinality(T) >= 2 => GapsInDays(group) # {}
<1> DEFINE D == DOMAIN group
<1>1. \A k \in D \ {Min(D)} : group[k].day - group[Preceding(group, k)].day \in Nat
  <2> TAKE k \in D \ {Min(D)}
  <2> DEFINE p == Preceding(group, k)
  <2>1. p \in D /\ p < k
    BY PrecedingIsNext
  <2>2. group[p].day <= group[k].day /\ group[p].day \in Nat /\ group[k].day \in Nat
    BY <2>1, EnumeratedCharges
  <2> QED
    BY <2>2
<1>2. ASSUME Cardinality(T) >= 2 PROVE D \ {Min(D)} # {}
  <2>1. Cardinality(D) >= 2 /\ IsFiniteSet(D)
    BY <1>2, EnumeratedSize DEF Size, Enumerates
  <2>2. SUFFICES ASSUME D \ {Min(D)} = {} PROVE FALSE
    OBVIOUS
  <2>3. D \subseteq {Min(D)}
    BY <2>2
  <2>4. IsFiniteSet({Min(D)}) /\ Cardinality({Min(D)}) = 1
    BY FS_Singleton
  <2>5. Cardinality(D) <= 1 /\ Cardinality(D) \in Nat
    BY <2>1, <2>3, <2>4, FS_Subset, FS_CardinalityType
  <2> HIDE DEF D
  <2> QED
    BY <2>1, <2>5
<1> QED
  BY <1>1, <1>2, GapsByPosition

-----------------------------------------------------------------------------
(* The evidence.                                                           *)

\* Each cycle has its window, less wide than it is long, and apart from the others.
LEMMA Windows ==
  /\ \A c \in BillingCycles :
       LET window == BillingCycleWindows[c] IN
       /\ window.expected \in Nat /\ window.tolerance \in Nat /\ window.spread \in Nat
       /\ window.tolerance < window.expected
  /\ \A c, d \in BillingCycles : \A gap \in Nat :
       /\ IsWithinWindow(gap, BillingCycleWindows[c], FALSE)
       /\ IsWithinWindow(gap, BillingCycleWindows[d], FALSE)
       => c = d
<1>1. /\ BillingCycleWindows["WEEKLY"] = [expected |-> 7, tolerance |-> 2, spread |-> 4]
      /\ BillingCycleWindows["MONTHLY"] = [expected |-> 30, tolerance |-> 5, spread |-> 6]
      /\ BillingCycleWindows["QUARTERLY"] = [expected |-> 90, tolerance |-> 10, spread |-> 10]
      /\ BillingCycleWindows["YEARLY"] = [expected |-> 365, tolerance |-> 15, spread |-> 14]
  BY DEF BillingCycleWindows
<1>2. ASSUME NEW c \in BillingCycles
      PROVE  LET window == BillingCycleWindows[c] IN
             /\ window.expected \in Nat /\ window.tolerance \in Nat /\ window.spread \in Nat
             /\ window.tolerance < window.expected
  BY <1>1 DEF BillingCycles
<1> DEFINE Within(c, gap) == IsWithinWindow(gap, BillingCycleWindows[c], FALSE)
           Around(c, gap) == \/ c = "WEEKLY" /\ gap \in 5 .. 9
                             \/ c = "MONTHLY" /\ gap \in 25 .. 35
                             \/ c = "QUARTERLY" /\ gap \in 80 .. 100
                             \/ c = "YEARLY" /\ gap \in 350 .. 380
<1>3. ASSUME NEW c \in BillingCycles, NEW gap \in Nat, Within(c, gap)
      PROVE  Around(c, gap)
  <2>1. CASE c = "WEEKLY"
    BY <1>1, <1>3, <2>1 DEF IsWithinWindow, Difference, Most, Least
  <2>2. CASE c = "MONTHLY"
    BY <1>1, <1>3, <2>2 DEF IsWithinWindow, Difference, Most, Least
  <2>3. CASE c = "QUARTERLY"
    BY <1>1, <1>3, <2>3 DEF IsWithinWindow, Difference, Most, Least
  <2>4. CASE c = "YEARLY"
    BY <1>1, <1>3, <2>4 DEF IsWithinWindow, Difference, Most, Least
  <2> QED
    BY <2>1, <2>2, <2>3, <2>4 DEF BillingCycles
<1>4. ASSUME NEW c \in BillingCycles, NEW d \in BillingCycles, NEW gap \in Nat,
             Within(c, gap), Within(d, gap)
      PROVE  c = d
  <2>1. Around(c, gap) /\ Around(d, gap)
    <3> HIDE DEF Within, Around
    <3> QED
      BY <1>3, <1>4
  <2> QED
    BY <2>1
<1> QED
  BY <1>2, <1>4

\* How far a gap may be off: when the amounts are identical and few, no more than 3 days.
Slack(cycle, tight) ==
    LET tolerance == BillingCycleWindows[cycle].tolerance
    IN  IF tight THEN Least(3, tolerance) ELSE tolerance

\* A gap is in a window when it is off by the slack at most; gaps of no days are in none.
LEMMA WithinSlack ==
  ASSUME NEW cycle \in BillingCycles, NEW tight \in BOOLEAN
  PROVE  /\ \A gap \in Nat :
              IsWithinWindow(gap, BillingCycleWindows[cycle], tight)
                <=> Difference(gap, BillingCycleWindows[cycle].expected) <= Slack(cycle, tight)
         /\ ~IsWithinWindow(0, BillingCycleWindows[cycle], tight)
         /\ \A gap \in Nat : IsWithinWindow(gap, BillingCycleWindows[cycle], tight)
              => IsWithinWindow(gap, BillingCycleWindows[cycle], FALSE)
<1> DEFINE e == BillingCycleWindows[cycle].expected
           t == BillingCycleWindows[cycle].tolerance
<1>1. e \in Nat /\ t \in Nat /\ t < e
  BY Windows
<1>2. IdenticalAmount.tolerance = 3
  BY DEF IdenticalAmount
<1>3. \A gap \in Nat : IsWithinWindow(gap, BillingCycleWindows[cycle], tight)
                         <=> Difference(gap, e) <= IF tight THEN Least(t, 3) ELSE t
  BY <1>2 DEF IsWithinWindow
<1>4. \A gap \in Nat : IsWithinWindow(gap, BillingCycleWindows[cycle], FALSE)
                         <=> Difference(gap, e) <= t
  BY <1>2 DEF IsWithinWindow
<1>5. Slack(cycle, tight) = IF tight THEN Least(3, t) ELSE t
  BY DEF Slack
<1> HIDE DEF e, t
<1>6. Least(t, 3) = Least(3, t) /\ Least(t, 3) <= t /\ Least(t, 3) \in Nat
  BY <1>1 DEF Least
<1>7. Difference(0, e) = e
  BY <1>1 DEF Difference, Most, Least
<1>8. ~IsWithinWindow(0, BillingCycleWindows[cycle], tight)
  BY <1>1, <1>3, <1>6, <1>7
<1>9. \A gap \in Nat : Difference(gap, e) \in Int
  BY <1>1 DEF Difference, Most, Least
<1>10. ASSUME NEW gap \in Nat
       PROVE  /\ IsWithinWindow(gap, BillingCycleWindows[cycle], tight)
                   <=> Difference(gap, e) <= Slack(cycle, tight)
              /\ IsWithinWindow(gap, BillingCycleWindows[cycle], tight)
                   => IsWithinWindow(gap, BillingCycleWindows[cycle], FALSE)
  <2>1. CASE tight
    <3>1. /\ IsWithinWindow(gap, BillingCycleWindows[cycle], tight) <=> Difference(gap, e) <= Least(t, 3)
          /\ Slack(cycle, tight) = Least(t, 3)
      BY <1>3, <1>5, <1>6, <2>1
    <3>2. Difference(gap, e) <= Least(t, 3) => Difference(gap, e) <= t
      BY <1>1, <1>6, <1>9
    <3> QED
      BY <1>4, <3>1, <3>2
  <2>2. CASE ~tight
    BY <1>3, <1>4, <1>5, <2>2
  <2> QED
    BY <2>1, <2>2
<1> QED
  BY <1>8, <1>10 DEF e

\* The gaps fit a cycle when the charges come once in each of its periods
\* (fitsBillingCycle, hasConsistentGaps).
LEMMA FitsAgree ==
  ASSUME NEW group, NEW T, Enumerates(group, T), NEW cycle \in BillingCycles,
         NEW tight \in BOOLEAN
  PROVE  FitsBillingCycle(GapsInDays(group), BillingCycleWindows[cycle], tight)
           <=> OncePerCycle(T, cycle, Slack(cycle, tight))
<1> DEFINE gaps == GapsInDays(group)
           window == BillingCycleWindows[cycle]
<1>1. gaps \subseteq Nat
  BY GapsAreDays
<1>2. \A gap \in gaps : IsWithinWindow(gap, window, tight)
                          <=> Difference(gap, window.expected) <= Slack(cycle, tight)
  BY <1>1, WithinSlack
<1>3. CASE DistinctDays(T)
  <2>1. gaps = Gaps(T)
    BY <1>3, GapsAgree
  <2>2. OncePerCycle(T, cycle, Slack(cycle, tight)) <=>
          \A g \in gaps : /\ Difference(g, window.expected) <= Slack(cycle, tight)
                          /\ \A f \in gaps : g - f <= window.spread
    BY <1>3, <2>1 DEF OncePerCycle, DistinctDays
  <2> HIDE DEF gaps, window
  <2> QED
    BY <1>2, <2>2 DEF FitsBillingCycle, HasConsistentGaps, gaps, window
<1>4. CASE ~DistinctDays(T)
  <2>1. 0 \in gaps
    BY <1>4, SameDayGap
  <2>2. ~FitsBillingCycle(gaps, window, tight)
    BY <2>1, WithinSlack DEF FitsBillingCycle
  <2>3. ~OncePerCycle(T, cycle, Slack(cycle, tight))
    BY <1>4 DEF OncePerCycle, DistinctDays
  <2> QED
    BY <2>2, <2>3
<1> QED
  BY <1>3, <1>4

-----------------------------------------------------------------------------
(* What the history of a vendor proves.                                    *)

\* What the program detects in a group is what the charges of the group prove
\* (detectRecurrence): it asks for as many charges as the kind of the vendor requires,
\* or for two with a tight billing day when there are fewer of one amount.
LEMMA DetectAgrees ==
  ASSUME NEW history, NEW T, Enumerates(LargestAmountGroup(history), T), T # {},
         NEW required \in Nat, NEW r \in ProvedPrice
  PROVE  r \in DetectRecurrence(history, required) <=> ProvedBy(T, required, r)
<1> DEFINE group == LargestAmountGroup(history)
           n == Cardinality(T)
           identical == \A a, b \in T : a.amount = b.amount
           last == group[Max(DOMAIN group)]
           rule == EvidenceRule(group, required)
           Once(tolerance) == OncePerCycle(T, r.cycle, tolerance)
           whole == BillingCycleWindows[r.cycle].tolerance
           latest == \E h \in T : h.amount = r.amount /\ \A g \in T : g.day <= h.day
<1>1. /\ n \in Nat /\ Size(group) = n
      /\ HasIdenticalAmount(group) <=> identical
      /\ HasStableAmount(group) <=> Steady(T)
  BY EnumeratedSize, IdenticalAgrees, SteadyAgrees
<1>2. rule = IF n < required /\ identical THEN [required |-> 2, tight |-> TRUE]
                                          ELSE [required |-> required, tight |-> FALSE]
  <2> HIDE DEF n, identical, group
  <2> QED
    BY <1>1 DEF EvidenceRule, IdenticalAmount
<1>3. r.cycle \in BillingCycles /\ r = [cycle |-> r.cycle, amount |-> r.amount]
  BY DEF ProvedPrice
<1>4. last \in T /\ \A h \in T : h.day <= last.day
  BY LastIsLatest
<1>5. DistinctDays(T) => (latest <=> last.amount = r.amount)
  <2>1. last.amount = r.amount => latest
    BY <1>4
  <2>2. ASSUME DistinctDays(T), NEW h \in T, h.amount = r.amount, \A g \in T : g.day <= h.day
        PROVE  last.amount = r.amount
    <3>1. h.day <= last.day /\ last.day <= h.day /\ h.day \in Nat /\ last.day \in Nat
      BY <1>4, <2>2 DEF Enumerates
    <3>2. h.day = last.day
      <4> HIDE DEF last
      <4> QED
        BY <3>1
    <3> QED
      BY <1>4, <2>2, <3>2 DEF DistinctDays
  <2> HIDE DEF last
  <2> QED
    BY <2>1, <2>2
<1>6. \A t : Once(t) => DistinctDays(T)
  BY DEF OncePerCycle, DistinctDays
<1>7. rule.tight \in BOOLEAN /\ rule.required \in Nat
  BY <1>2
<1>8. r \in DetectRecurrence(history, required) <=>
        /\ ~(n < Most(rule.required, 2)) /\ Steady(T)
        /\ r.amount = last.amount /\ Once(Slack(r.cycle, rule.tight))
  <2> DEFINE cycles == MatchingCycles(GapsInDays(group), rule.tight)
  <2>1. DetectRecurrence(history, required) =
          IF n < Most(rule.required, 2) \/ ~Steady(T) THEN {}
          ELSE {[cycle |-> c, amount |-> last.amount] : c \in cycles}
    BY <1>1 DEF DetectRecurrence, MinChargesForCadence
  <2>2. r.cycle \in cycles <=> Once(Slack(r.cycle, rule.tight))
    BY <1>3, <1>7, FitsAgree DEF MatchingCycles
  <2>3. r \in {[cycle |-> c, amount |-> last.amount] : c \in cycles}
          <=> r.cycle \in cycles /\ r.amount = last.amount
    <3> HIDE DEF cycles, last
    <3> QED
      BY <1>3
  <2> HIDE DEF cycles, last, n, rule, Once
  <2> QED
    BY <2>1, <2>2, <2>3
<1>9. ProvedBy(T, required, r) <=>
        /\ n >= 2 /\ Steady(T) /\ latest
        /\ \/ n >= required /\ Once(whole)
           \/ n < required /\ identical /\ Once(Least(3, whole))
  BY DEF ProvedBy
<1> HIDE DEF n, identical, last, rule, Once, latest, group
<1>10. CASE n < required /\ identical
  <2>1. rule.required = 2 /\ rule.tight = TRUE
    BY <1>2, <1>10
  <2>2. Slack(r.cycle, rule.tight) = Least(3, whole)
    BY <2>1 DEF Slack
  <2>3. ~(n < Most(rule.required, 2)) <=> n >= 2
    BY <1>1, <2>1 DEF Most
  <2>4. ~(n >= required)
    BY <1>1, <1>10
  <2> QED
    BY <1>5, <1>6, <1>8, <1>9, <1>10, <2>2, <2>3, <2>4
<1>11. CASE ~(n < required /\ identical)
  <2>1. rule.required = required /\ rule.tight = FALSE
    BY <1>2, <1>11
  <2>2. Slack(r.cycle, rule.tight) = whole
    BY <2>1 DEF Slack
  <2>3. ~(n < Most(rule.required, 2)) <=> n >= 2 /\ n >= required
    BY <1>1, <2>1 DEF Most
  <2> QED
    BY <1>5, <1>6, <1>8, <1>9, <1>11, <2>2, <2>3
<1> QED
  BY <1>10, <1>11

\* Two cycles never fit the same charges, so a history proves one recurrence at most
\* (matchBillingCycle).
LEMMA OneRecurrence ==
  ASSUME NEW history, NEW T, Enumerates(LargestAmountGroup(history), T),
         NEW required \in Nat, NEW r \in DetectRecurrence(history, required),
         NEW q \in DetectRecurrence(history, required)
  PROVE  r = q
<1> DEFINE group == LargestAmountGroup(history)
           rule == EvidenceRule(group, required)
           gaps == GapsInDays(group)
           amount == group[Max(DOMAIN group)].amount
<1>1. rule.tight \in BOOLEAN /\ rule.required \in Nat
  BY DEF EvidenceRule, IdenticalAmount
<1>2. /\ ~(Size(group) < Most(rule.required, 2))
      /\ \E c \in MatchingCycles(gaps, rule.tight) : r = [cycle |-> c, amount |-> amount]
      /\ \E c \in MatchingCycles(gaps, rule.tight) : q = [cycle |-> c, amount |-> amount]
  BY DEF DetectRecurrence, MinChargesForCadence
<1>3. Cardinality(T) >= 2
  <2>1. Size(group) = Cardinality(T) /\ Cardinality(T) \in Nat
    BY EnumeratedSize
  <2> HIDE DEF group, rule
  <2> QED
    BY <1>1, <1>2, <2>1 DEF Most
<1>4. PICK gap \in gaps : gap \in Nat
  BY <1>3, GapsAreDays
<1>5. ASSUME NEW c \in MatchingCycles(gaps, rule.tight)
      PROVE  c \in BillingCycles /\ IsWithinWindow(gap, BillingCycleWindows[c], FALSE)
  <2>1. c \in BillingCycles /\ IsWithinWindow(gap, BillingCycleWindows[c], rule.tight)
    BY <1>4, <1>5 DEF MatchingCycles, FitsBillingCycle
  <2> HIDE DEF rule
  <2> QED
    BY <1>1, <1>4, <2>1, WithinSlack
<1>6. ASSUME NEW c \in MatchingCycles(gaps, rule.tight), NEW d \in MatchingCycles(gaps, rule.tight)
      PROVE  c = d
  BY <1>4, <1>5, Windows
<1> HIDE DEF gaps, rule, amount
<1> QED
  BY <1>2, <1>6

\* The group that the program takes is that of the charges near to one of them, and no
\* charge has more near to it (findLargestAmountGroup).
LEMMA LargestGroup ==
  ASSUME NEW S, Dated(S), S # {}, NEW history \in Chronological(S)
  PROVE  \E anchor \in S :
           /\ Enumerates(LargestAmountGroup(history), NearTo(S, anchor))
           /\ anchor \in NearTo(S, anchor)
           /\ \A other \in S : Cardinality(NearTo(S, other)) <= Cardinality(NearTo(S, anchor))
<1> DEFINE n == Cardinality(S)
           D == 1 .. n
           P(k) == {j \in D : IsWithinAmountTolerance(history[j].amount, history[k].amount)}
           G(k) == GroupAround(history, k)
           N(k) == NearTo(S, history[k])
<1>1. /\ history \in Bijection(D, S) /\ DOMAIN history = D /\ n \in Nat
      /\ \A j, k \in D : j < k => history[j].day <= history[k].day
  BY SeqsAreBijections DEF Chronological, Dated
<1>2. D \subseteq Nat /\ IsFiniteSet(D)
  BY <1>1, Positions
<1> HIDE DEF D, n
<1>3. /\ \A k \in D : history[k] \in S
      /\ \A h \in S : \E k \in D : history[k] = h
      /\ \A j, k \in D : history[j] = history[k] => j = k
  BY <1>1 DEF Bijection, Injection, Surjection, IsInjective
<1>4. ASSUME NEW k \in D
      PROVE  Enumerates(G(k), N(k)) /\ Size(G(k)) = Cardinality(N(k)) /\ Size(G(k)) \in Nat
  <2>1. DOMAIN G(k) = P(k) /\ \A j \in P(k) : G(k)[j] = history[j]
    BY <1>1 DEF GroupAround, Restrict
  <2>2. P(k) \subseteq Nat /\ IsFiniteSet(P(k))
    BY <1>2, FS_Subset
  <2>3. G(k) = [j \in P(k) |-> history[j]]
    BY <1>1 DEF GroupAround, Restrict
  <2>4. G(k) \in [P(k) -> N(k)]
    BY <1>3, <2>3 DEF NearTo
  <2>5. \A h \in N(k) : \E j \in P(k) : G(k)[j] = h
    BY <1>3, <2>1 DEF NearTo
  <2>6. \A i, j \in P(k) : G(k)[i] = G(k)[j] => i = j
    BY <1>3, <2>1
  <2>7. \A i, j \in P(k) : i < j => G(k)[i].day <= G(k)[j].day
    BY <1>1, <2>1
  <2>8. \A h \in N(k) : h.day \in Nat /\ h.amount \in Nat
    BY DEF NearTo, Dated
  <2> HIDE DEF G, P, N
  <2>9. G(k) \in Bijection(P(k), N(k))
    BY <2>4, <2>5, <2>6 DEF Bijection, Injection, Surjection, IsInjective
  <2>10. Enumerates(G(k), N(k))
    BY <2>1, <2>2, <2>7, <2>8, <2>9 DEF Enumerates
  <2> QED
    BY <2>10, EnumeratedSize
<1> DEFINE size == [k \in D |-> Size(GroupAround(history, k))]
           largest == {k \in D : \A j \in D : size[j] <= size[k]}
<1>5. \A k \in D : size[k] = Cardinality(N(k)) /\ size[k] \in Nat
  BY <1>4
<1>6. D # {}
  BY <1>3
<1>7. LargestAmountGroup(history) = GroupAround(history, Max(largest))
  <2>1. history # <<>>
    BY <1>1, <1>6
  <2> QED
    BY <1>1, <2>1 DEF LargestAmountGroup
<1> HIDE DEF size
<1>8. largest # {}
  BY <1>2, <1>5, <1>6, HighestExists
<1>9. IsFiniteSet(largest) /\ largest \subseteq Nat
  BY <1>2, FS_Subset
<1>10. Max(largest) \in largest
  <2> HIDE DEF largest
  <2> QED
    BY <1>8, <1>9, GreatestIsOne
<1> DEFINE k == Max(largest)
           anchor == history[k]
<1>11. k \in D /\ \A j \in D : size[j] <= size[k]
  BY <1>10
<1> HIDE DEF k, largest
<1>12. anchor \in S /\ Enumerates(LargestAmountGroup(history), NearTo(S, anchor))
  BY <1>3, <1>4, <1>7, <1>11 DEF k
<1>13. anchor \in NearTo(S, anchor)
  <2>1. anchor.amount \in Nat
    BY <1>12 DEF Dated
  <2> HIDE DEF anchor
  <2>2. IsWithinAmountTolerance(anchor.amount, anchor.amount)
    BY <2>1 DEF IsWithinAmountTolerance, Difference, Most, Least
  <2> QED
    BY <1>12, <2>2 DEF NearTo
<1>14. ASSUME NEW other \in S
       PROVE  Cardinality(NearTo(S, other)) <= Cardinality(NearTo(S, anchor))
  <2>1. PICK j \in D : history[j] = other
    BY <1>3
  <2>2. size[j] <= size[k]
    BY <1>11
  <2>3. size[j] = Cardinality(NearTo(S, other)) /\ size[k] = Cardinality(NearTo(S, anchor))
    BY <1>5, <1>11, <2>1
  <2> QED
    BY <2>2, <2>3
<1> HIDE DEF anchor
<1> QED
  BY <1>12, <1>13, <1>14

\* No charges prove nothing.
LEMMA NothingDetected ==
  ASSUME NEW history \in Chronological({}), NEW required \in Nat
  PROVE  DetectRecurrence(history, required) = {}
<1> DEFINE rule == EvidenceRule(LargestAmountGroup(history), required)
<1>1. Cardinality({}) = 0
  BY FS_EmptySet
<1>2. history = <<>>
  BY <1>1 DEF Chronological, SetToSeqs
<1>3. Size(LargestAmountGroup(history)) = 0
  BY <1>1, <1>2 DEF LargestAmountGroup, Size
<1>4. rule.required \in Nat
  BY DEF EvidenceRule, IdenticalAmount
<1>5. 0 < Most(rule.required, 2)
  <2> HIDE DEF rule
  <2> QED
    BY <1>4 DEF Most
<1> QED
  BY <1>3, <1>5 DEF DetectRecurrence, MinChargesForCadence

\* A recurrence that is detected is proved by a largest group, and is the only one.
LEMMA DetectedIsProved ==
  ASSUME NEW S, Dated(S), NEW history \in Chronological(S), NEW required \in Nat,
         NEW r \in DetectRecurrence(history, required)
  PROVE  /\ DetectRecurrence(history, required) = {r}
         /\ \E anchor \in S :
              /\ \A other \in S : Cardinality(NearTo(S, other)) <= Cardinality(NearTo(S, anchor))
              /\ ProvedBy(NearTo(S, anchor), required, r)
<1>1. S # {}
  BY NothingDetected
<1>2. PICK anchor \in S :
        /\ Enumerates(LargestAmountGroup(history), NearTo(S, anchor))
        /\ anchor \in NearTo(S, anchor)
        /\ \A other \in S : Cardinality(NearTo(S, other)) <= Cardinality(NearTo(S, anchor))
  BY <1>1, LargestGroup
<1>3. r \in ProvedPrice
  BY DetectedPrice DEF Dated
<1>4. ProvedBy(NearTo(S, anchor), required, r)
  BY <1>2, <1>3, DetectAgrees
<1>5. DetectRecurrence(history, required) = {r}
  BY <1>2, OneRecurrence
<1> QED
  BY <1>2, <1>4, <1>5

\* What is proved by a group larger than every other is detected, in whatever order the
\* charges of a day come.
LEMMA ProvedIsDetected ==
  ASSUME NEW S, Dated(S), NEW history \in Chronological(S), NEW required \in Nat,
         NEW anchor \in S,
         \A other \in S : NearTo(S, other) # NearTo(S, anchor)
           => Cardinality(NearTo(S, other)) < Cardinality(NearTo(S, anchor)),
         NEW r \in ProvedPrice, ProvedBy(NearTo(S, anchor), required, r)
  PROVE  r \in DetectRecurrence(history, required)
<1>1. PICK a \in S :
        /\ Enumerates(LargestAmountGroup(history), NearTo(S, a))
        /\ a \in NearTo(S, a)
        /\ \A other \in S : Cardinality(NearTo(S, other)) <= Cardinality(NearTo(S, a))
  BY LargestGroup
<1>2. NearTo(S, a) = NearTo(S, anchor)
  <2>1. Cardinality(NearTo(S, a)) \in Nat /\ Cardinality(NearTo(S, anchor)) \in Nat
    <3>1. IsFiniteSet(NearTo(S, a)) /\ IsFiniteSet(NearTo(S, anchor))
      BY FS_Subset DEF NearTo, Dated
    <3> QED
      BY <3>1, FS_CardinalityType
  <2>2. Cardinality(NearTo(S, anchor)) <= Cardinality(NearTo(S, a))
    BY <1>1
  <2>3. ~(Cardinality(NearTo(S, a)) < Cardinality(NearTo(S, anchor)))
    BY <2>1, <2>2
  <2> QED
    BY <2>3
<1> QED
  BY <1>1, <1>2, DetectAgrees

-----------------------------------------------------------------------------
(* What an import confirms.                                                *)

\* Only resolveRecurrences goes on to match what it found.
LEMMA OnlyResolveDetects ==
  ASSUME TypesHold, Next, NEW c \in Calls, Detects(c)
  PROVE  ResolveRecurrences(c)
<1>1. Running(c, "detect") /\ calls'[c] # NULL /\ calls'[c].op # "detect"
  BY DEF Detects
<1>2. calls[c] # NULL /\ calls[c] \in Call /\ calls[c].op = "detect"
  BY <1>1, RunningType DEF Running
<1>3. ASSUME calls'[c] = calls[c] \/ calls'[c] = NotAlone(c) PROVE FALSE
  <2>1. NotAlone(c).op = "detect"
    BY <1>2 DEF NotAlone, Call
  <2> QED
    BY <1>1, <1>2, <1>3, <2>1
<1>4. ASSUME NEW d \in Calls, NEW call, Begin(d, call) PROVE FALSE
  <2>1. d # c
    BY <1>2, <1>4 DEF Begin
  <2>2. calls'[c] = NotAlone(c)
    BY <1>4, <2>1 DEF Begin
  <2> QED
    BY <1>3, <2>2
<1>5. ASSUME AtOnce PROVE FALSE
  BY <1>3, <1>5 DEF AtOnce
<1>6. ASSUME NEW d \in Calls, NEW call, Continue(d, call) PROVE d = c
  <2>1. d # c => calls'[c] = calls[c]
    BY <1>6 DEF Continue, TypesHold, TypeOK
  <2> QED
    BY <1>3, <2>1
<1>7. ASSUME NEW d \in Calls, NEW call, NEW op, Running(d, op), op # "detect", Continue(d, call)
      PROVE  FALSE
  BY <1>2, <1>6, <1>7 DEF Running
<1>8. ASSUME NEW d \in Calls, ImportStep(d) PROVE ResolveRecurrences(c)
  <2>1. ASSUME NEW rows, StartImport(d, rows) PROVE FALSE
    BY <1>4, <2>1 DEF StartImport
  <2>2. ~StoreCharges(d)
    BY <1>7 DEF StoreCharges
  <2>3. ~FindActiveMatch(d)
    BY <1>7 DEF FindActiveMatch
  <2>4. ~ConfirmRecurrence(d) /\ ~RollBackRecurrence(d)
    BY <1>7 DEF ConfirmRecurrence, RollBackRecurrence, NextCandidate
  <2>5. ~EndImport(d)
    BY <1>7 DEF EndImport, Finish
  <2>6. ResolveRecurrences(d) => d = c
    BY <1>6 DEF ResolveRecurrences
  <2> QED
    BY <1>8, <2>1, <2>2, <2>3, <2>4, <2>5, <2>6 DEF ImportStep
<1>9. ASSUME NEW d \in Calls, PlanStep(d) PROVE FALSE
  <2>1. ASSUME NEW op, NEW p, NEW change, StartOnPlan(d, op, p, change) PROVE FALSE
    BY <1>4, <2>1 DEF StartOnPlan
  <2>2. /\ \A p, edit : ~EditPlan(d, p, edit)
        /\ \A p : ~RequestCancellation(d, p) /\ ~ConfirmCancellation(d, p) /\ ~RemovePlan(d, p)
    BY <2>1 DEF EditPlan, RequestCancellation, ConfirmCancellation, RemovePlan
  <2>3. ~EditPlanStore(d) /\ ~RequestCancellationStore(d)
    BY <1>7 DEF EditPlanStore, RequestCancellationStore, Finish
  <2>4. ~ConfirmCancellationStore(d) /\ ~RemovePlanStore(d)
    BY <1>7 DEF ConfirmCancellationStore, RemovePlanStore, Finish
  <2> QED
    BY <1>9, <2>2, <2>3, <2>4 DEF PlanStep
<1>10. ASSUME NEW d \in Calls, ChargeStep(d) PROVE FALSE
  <2>1. \A payment, p : ~RecordChargeOf(d, payment, p)
    BY <1>4 DEF RecordChargeOf, StartOnPlan
  <2>2. \A ch, p : ~AttachSubscription(d, ch, p)
    BY <1>4 DEF AttachSubscription
  <2>3. \A ch : ~DeleteCharge(d, ch)
    BY <1>4 DEF DeleteCharge
  <2>4. ~RecordChargeStore(d) /\ ~AttachSubscriptionStore(d) /\ ~DeleteChargeStore(d)
    BY <1>7 DEF RecordChargeStore, AttachSubscriptionStore, DeleteChargeStore, Finish
  <2> QED
    BY <1>10, <2>1, <2>2, <2>3, <2>4 DEF ChargeStep
<1>11. ASSUME NEW d \in Calls, SummaryStep(d) PROVE FALSE
  <2>1. ~GetSummary(d)
    BY <1>4 DEF GetSummary
  <2>2. \A call : ~Summarise(d, call)
    BY <1>7 DEF Summarise
  <2>3. ~GetCategorySpend(d) /\ ~GetSubscriptionCharges(d)
    BY <2>2 DEF GetCategorySpend, GetSubscriptionCharges
  <2>4. ~FindPlansOfSummary(d) /\ ~AnswerSummary(d)
    BY <1>7 DEF FindPlansOfSummary, AnswerSummary, Finish
  <2> QED
    BY <1>11, <2>1, <2>3, <2>4 DEF SummaryStep
<1>12. ASSUME NEW d \in Calls, AbandonCall(d) PROVE FALSE
  <2>1. Continue(d, NULL) /\ d = c
    BY <1>6, <1>12 DEF AbandonCall, Finish
  <2>2. calls'[c] = NULL
    BY <2>1 DEF Continue, TypesHold, TypeOK
  <2> QED
    BY <1>1, <2>2
<1>13. (\A new \in NewPlans : ~CreatePlan(new)) /\ \A payment \in Payments : ~RecordCharge(payment)
  BY <1>5 DEF CreatePlan, RecordCharge
<1> QED
  BY <1>8, <1>9, <1>10, <1>11, <1>12, <1>13 DEF Next

\* What an import confirms a vendor with is what one chronological reading of the user's
\* charges at it detects (resolveRecurrences).
LEMMA RecurringIsDetected ==
  ASSUME TypesHold, Next, NEW c \in Calls, Detects(c), NEW v \in ByHistory(calls[c])
  PROVE  /\ Dated(HistoryOf(v)) /\ RequiredChargeCount(profile[v].kind) \in Nat
         /\ \E history \in Chronological(HistoryOf(v)) :
              Recurring(calls'[c], v)
                = DetectRecurrence(history, RequiredChargeCount(profile[v].kind))
<1> DEFINE rows == calls[c].rows
           candidates == Candidates(calls[c])
           required == RequiredChargeCount(profile[v].kind)
           Todo(f) == {[row |-> k, vendor |-> rows[k].vendor,
                        cycle |-> f[k].cycle, amount |-> f[k].amount] :
                          k \in {k \in candidates : f[k] # NULL}}
<1>1. calls[c] # NULL /\ calls[c] \in Call
  BY RunningType DEF Detects, Running
<1>2. candidates \subseteq Nat /\ \A k \in candidates : rows[k].vendor \in Vendors
  <2>1. rows \in Seq(StatementRow) /\ candidates \subseteq DOMAIN rows
    BY <1>1 DEF Call, Candidates, CandidateRows
  <2>2. \A k \in DOMAIN rows : k \in Nat /\ rows[k] \in StatementRow
    BY <2>1
  <2> QED
    BY <2>1, <2>2 DEF StatementRow
<1>3. PICK k \in candidates : rows[k].vendor = v
  BY DEF ByHistory
<1>4. v \in Vendors /\ DOMAIN StandingOrders(calls[c], v) = {}
  BY <1>2, <1>3 DEF ByHistory
<1>5. Dated(HistoryOf(v)) /\ required \in Nat
  BY <1>4, HistoryIsDated DEF TypesHold, RequiredChargeCount, RequiredCharges
<1>6. \A j \in candidates : rows[j].vendor = v => j = k
  <2>1. \A j \in candidates : rows[j].vendor = v => j <= k /\ k <= j
    BY <1>3 DEF Candidates
  <2> HIDE DEF candidates, rows
  <2> QED
    BY <1>2, <2>1
<1>7. ResolveRecurrences(c)
  BY OnlyResolveDetects
<1>8. PICK found, call :
        /\ \A j \in candidates : /\ found[j] \in RecurrencesOf(calls[c], rows[j].vendor)
                                 /\ found[j] \in ProvedPrice \cup {NULL}
        /\ call.todo = Todo(found)
        /\ Continue(c, call)
  BY <1>7, FoundRecurrences
<1>9. calls'[c].todo = Todo(found)
  BY <1>8 DEF Continue, TypesHold, TypeOK
<1>10. PICK history \in Chronological(HistoryOf(v)) :
         found[k] \in IF DetectRecurrence(history, required) = {} THEN {NULL}
                      ELSE DetectRecurrence(history, required)
  <2>1. found[k] \in RecurrencesOf(calls[c], v)
    BY <1>3, <1>8
  <2> QED
    BY <1>4, <2>1 DEF RecurrencesOf
<1> DEFINE detected == DetectRecurrence(history, required)
<1>11. Recurring(calls'[c], v) = IF found[k] = NULL THEN {} ELSE {found[k]}
  <2>1. \A r \in Todo(found) : r.vendor = v =>
          found[k] # NULL /\ r.cycle = found[k].cycle /\ r.amount = found[k].amount
    BY <1>6
  <2>2. ASSUME found[k] # NULL PROVE \E r \in Todo(found) : r.vendor = v
    <3> DEFINE r == [row |-> k, vendor |-> rows[k].vendor,
                     cycle |-> found[k].cycle, amount |-> found[k].amount]
    <3>1. r \in Todo(found) /\ r.vendor = v
      BY <1>3, <2>2
    <3> QED
      BY <3>1
  <2>3. found[k] # NULL => found[k] = [cycle |-> found[k].cycle, amount |-> found[k].amount]
    BY <1>3, <1>8 DEF ProvedPrice
  <2> HIDE DEF Todo, rows, candidates
  <2>4. CASE found[k] = NULL
    BY <1>9, <2>1, <2>4 DEF Recurring
  <2>5. CASE found[k] # NULL
    <3>1. \A x \in Recurring(calls'[c], v) : x = found[k]
      BY <1>9, <2>1, <2>3, <2>5 DEF Recurring
    <3>2. found[k] \in Recurring(calls'[c], v)
      <4>1. PICK r \in Todo(found) : r.vendor = v
        BY <2>2, <2>5
      <4>2. found[k] = [cycle |-> r.cycle, amount |-> r.amount]
        BY <2>1, <2>3, <2>5, <4>1
      <4> QED
        BY <1>9, <4>1, <4>2 DEF Recurring
    <3> QED
      BY <2>5, <3>1, <3>2
  <2> QED
    BY <2>4, <2>5
<1>12. Recurring(calls'[c], v) = detected
  <2>1. detected \subseteq ProvedPrice
    BY <1>5, DetectedPrice DEF Dated
  <2> HIDE DEF detected, required, candidates, rows
  <2>2. CASE detected = {}
    BY <1>10, <1>11, <2>2 DEF detected
  <2>3. CASE detected # {}
    <3>1. found[k] \in detected /\ found[k] # NULL
      BY <1>10, <2>1, <2>3, RowAssumption DEF detected
    <3>2. detected = {found[k]}
      BY <1>5, <3>1, DetectedIsProved DEF detected
    <3> QED
      BY <1>11, <3>1, <3>2
  <2> QED
    BY <2>2, <2>3
<1> QED
  BY <1>5, <1>12

\* No import takes a vendor for a subscription that the user's own charges do not prove
\* (detectRecurrence), whatever handlers are part-way through beside it.
THEOREM RecurrencesProved == Spec => RecurrencesAreProved
<1> DEFINE Proved == \A c \in Calls : Detects(c) =>
         \A v \in ByHistory(calls[c]) : \A r \in Recurring(calls'[c], v) :
             \E anchor \in HistoryOf(v) :
                 LET group == NearTo(HistoryOf(v), anchor) IN
                 /\ \A other \in HistoryOf(v) :
                       Cardinality(NearTo(HistoryOf(v), other)) <= Cardinality(group)
                 /\ ProvedBy(group, RequiredChargeCount(profile[v].kind), r)
<1>1. ASSUME TypesHold, Next PROVE Proved
  <2> SUFFICES ASSUME NEW c \in Calls, Detects(c), NEW v \in ByHistory(calls[c]),
                      NEW r \in Recurring(calls'[c], v)
               PROVE  \E anchor \in HistoryOf(v) :
                        /\ \A other \in HistoryOf(v) :
                             Cardinality(NearTo(HistoryOf(v), other))
                               <= Cardinality(NearTo(HistoryOf(v), anchor))
                        /\ ProvedBy(NearTo(HistoryOf(v), anchor),
                                    RequiredChargeCount(profile[v].kind), r)
    OBVIOUS
  <2>1. PICK history \in Chronological(HistoryOf(v)) :
          Recurring(calls'[c], v)
            = DetectRecurrence(history, RequiredChargeCount(profile[v].kind))
    BY <1>1, RecurringIsDetected
  <2>2. Dated(HistoryOf(v)) /\ RequiredChargeCount(profile[v].kind) \in Nat
    BY <1>1, RecurringIsDetected
  <2> QED
    BY <2>1, <2>2, DetectedIsProved
<1>2. TypesHold /\ [Next]_vars => [Proved]_vars
  BY <1>1
<1> QED
  BY <1>2, AlwaysTypes, PTL DEF RecurrencesAreProved, Spec

\* An import finds what the user's charges prove by a group of similar amounts larger
\* than every other, whatever else was bought at the vendor, in whatever order the
\* database returns the charges of a day (findLargestAmountGroup).
THEOREM SteadyPlansFound == Spec => SteadyPlansAreFound
<1> DEFINE Finds == \A c \in Calls : Detects(c) =>
         \A v \in ByHistory(calls[c]) : \A anchor \in HistoryOf(v) :
             LET group == NearTo(HistoryOf(v), anchor)
                 amounts == {h.amount : h \in group}
             IN  (\A other \in HistoryOf(v) :
                    LET rival == NearTo(HistoryOf(v), other) IN
                    rival # group => Cardinality(rival) < Cardinality(group))
                 => \A r \in [cycle : BillingCycles, amount : amounts] :
                      ProvedBy(group, RequiredChargeCount(profile[v].kind), r)
                        => r \in Recurring(calls'[c], v)
<1>1. ASSUME TypesHold, Next PROVE Finds
  <2> SUFFICES ASSUME NEW c \in Calls, Detects(c), NEW v \in ByHistory(calls[c]),
                      NEW anchor \in HistoryOf(v),
                      \A other \in HistoryOf(v) :
                        NearTo(HistoryOf(v), other) # NearTo(HistoryOf(v), anchor)
                          => Cardinality(NearTo(HistoryOf(v), other))
                               < Cardinality(NearTo(HistoryOf(v), anchor)),
                      NEW r \in [cycle : BillingCycles,
                                 amount : {h.amount : h \in NearTo(HistoryOf(v), anchor)}],
                      ProvedBy(NearTo(HistoryOf(v), anchor),
                               RequiredChargeCount(profile[v].kind), r)
               PROVE  r \in Recurring(calls'[c], v)
    OBVIOUS
  <2>1. PICK history \in Chronological(HistoryOf(v)) :
          Recurring(calls'[c], v)
            = DetectRecurrence(history, RequiredChargeCount(profile[v].kind))
    BY <1>1, RecurringIsDetected
  <2>2. Dated(HistoryOf(v)) /\ RequiredChargeCount(profile[v].kind) \in Nat
    BY <1>1, RecurringIsDetected
  <2>3. r \in ProvedPrice
    <3>1. \A h \in NearTo(HistoryOf(v), anchor) : h.amount \in Nat
      BY <2>2 DEF Dated, NearTo
    <3> QED
      BY <3>1 DEF ProvedPrice
  <2> QED
    BY <2>1, <2>2, <2>3, ProvedIsDetected
<1>2. TypesHold /\ [Next]_vars => [Finds]_vars
  BY <1>1
<1> QED
  BY <1>2, AlwaysTypes, PTL DEF SteadyPlansAreFound, Spec
=============================================================================
