------------------------------ MODULE Recurrence ------------------------------
(***************************************************************************)
(* How the charges of a user at one vendor prove a subscription:           *)
(* src/modules/transaction/utilities.  A charge is a record with its day   *)
(* and its amount in the smallest unit of the currency; the currency goes  *)
(* with the amount and no condition reads it.                              *)
(*                                                                         *)
(* The program multiplies by 0.15 in floating point.  Here the tolerance   *)
(* is exact, so the amounts of an instance must keep off its boundary.     *)
(***************************************************************************)
EXTENDS Integers, Sequences, SequencesExt, FiniteSets

BillingCycles == {"WEEKLY", "MONTHLY", "QUARTERLY", "YEARLY"}
DefaultBillingCycle == "MONTHLY"

BillingCycleWindows ==
    [WEEKLY    |-> [expected |-> 7,   tolerance |-> 2,  spread |-> 4],
     MONTHLY   |-> [expected |-> 30,  tolerance |-> 5,  spread |-> 6],
     QUARTERLY |-> [expected |-> 90,  tolerance |-> 10, spread |-> 10],
     YEARLY    |-> [expected |-> 365, tolerance |-> 15, spread |-> 14]]

MinChargesForCadence == 2
RequiredCharges == [AI_FLAGGED |-> 2, UNFLAGGED |-> 3]
IdenticalAmount == [required |-> 2, tolerance |-> 3]

-----------------------------------------------------------------------------
Least(a, b) == IF a < b THEN a ELSE b
Most(a, b) == IF a > b THEN a ELSE b
Difference(a, b) == Most(a, b) - Least(a, b)

IsWithinAmountTolerance(amount, anchor) == 100 * Difference(amount, anchor) <= 15 * anchor

\* toFixed: hundredths of the smallest unit, rounded to whole units.
ToMoney(hundredths) == (hundredths + 50) \div 100

AmountToleranceRange(anchor) == ToMoney(85 * anchor) .. ToMoney(115 * anchor)

\* The database returns the charges in no order, so those of one day can come either way.
Chronological(charges) ==
    {s \in SetToSeqs(charges) : \A j, k \in DOMAIN s : j < k => s[j].day <= s[k].day}

\* Mutant: the cadence is looked for in everything the vendor charged.
AllCharges(history) == history

\* A group is the history restricted to the positions of its charges.
GroupAround(history, k) ==
    Restrict(history, {j \in DOMAIN history :
                         IsWithinAmountTolerance(history[j].amount, history[k].amount)})

Size(group) == Cardinality(DOMAIN group)

\* Of equally large groups the last one wins.
LargestAmountGroup(history) ==
    LET size == [k \in DOMAIN history |-> Size(GroupAround(history, k))]
        largest == {k \in DOMAIN history : \A j \in DOMAIN history : size[j] <= size[k]}
    IN  IF history = <<>> THEN <<>> ELSE GroupAround(history, Max(largest))

\* The positions of a group, from the lowest amount to the highest.
ByAmount(group) ==
    CHOOSE s \in SetToSeqs(DOMAIN group) :
        \A j, k \in DOMAIN s : j < k => group[s[j]].amount <= group[s[k]].amount

\* Twice the median, so that the mean of the two in the middle is a whole number.
TwiceMedian(group) ==
    LET sorted == ByAmount(group)
        middle == Size(group) \div 2
    IN  IF Size(group) % 2 = 0 THEN group[sorted[middle]].amount + group[sorted[middle + 1]].amount
                               ELSE 2 * group[sorted[middle + 1]].amount

HasStableAmount(group) ==
    LET median == TwiceMedian(group)
    IN  \A k \in DOMAIN group : 100 * Difference(2 * group[k].amount, median) <= 15 * median

HasIdenticalAmount(group) == \A j, k \in DOMAIN group : group[j].amount = group[k].amount

\* The charges that are required, and whether the billing day has to be a tight one.
EvidenceRule(group, required) ==
    IF Size(group) < required /\ HasIdenticalAmount(group)
      THEN [required |-> IdenticalAmount.required, tight |-> TRUE]
      ELSE [required |-> required, tight |-> FALSE]

\* The days between the charges that follow each other.
GapsInDays(group) ==
    {group[k].day - group[Max({j \in DOMAIN group : j < k})].day :
        k \in DOMAIN group \ {Min(DOMAIN group)}}

IsWithinWindow(gap, window, tight) ==
    Difference(gap, window.expected) <=
        IF tight THEN Least(window.tolerance, IdenticalAmount.tolerance) ELSE window.tolerance

\* Mutant: gaps that are off to either side are still one cadence.
AnyGaps(gaps, window) == TRUE

HasConsistentGaps(gaps, window) ==
    \A longest, shortest \in gaps : longest - shortest <= window.spread

FitsBillingCycle(gaps, window, tight) ==
    /\ \A gap \in gaps : IsWithinWindow(gap, window, tight)
    /\ HasConsistentGaps(gaps, window)

\* No gap is within the windows of two cycles.
MatchingCycles(gaps, tight) ==
    {cycle \in BillingCycles : FitsBillingCycle(gaps, BillingCycleWindows[cycle], tight)}

\* The recurrence that a chronological history proves, in a set, or the empty set.
DetectRecurrence(history, required) ==
    LET group == LargestAmountGroup(history)
        rule == EvidenceRule(group, required)
    IN  IF Size(group) < Most(rule.required, MinChargesForCadence) \/ ~HasStableAmount(group)
          THEN {}
          ELSE {[cycle |-> cycle, amount |-> group[Max(DOMAIN group)].amount] :
                  cycle \in MatchingCycles(GapsInDays(group), rule.tight)}

RequiredChargeCount(kind) ==
    IF kind = "SUBSCRIPTION" THEN RequiredCharges.AI_FLAGGED ELSE RequiredCharges.UNFLAGGED

\* pickLatestCharge over charges in the order of a statement: a later one replaces the
\* one before, one of the same day does not.
LatestCharge(charges) ==
    charges[Min({k \in DOMAIN charges : \A j \in DOMAIN charges : charges[j].day <= charges[k].day})]
=============================================================================
