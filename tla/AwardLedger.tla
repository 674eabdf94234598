----------------------------- MODULE AwardLedger -----------------------------
(***************************************************************************)
(* What awards promise, however many statements, transactions and          *)
(* connections XpLedger needs for one: an award is an entry of the ledger  *)
(* and the same amount on the total of an account in use, at once, and     *)
(* comes together with what it is for.                                     *)
(***************************************************************************)
EXTENDS Naturals, Sequences

CONSTANT Users

VARIABLES
    standing,   \* whether the account of each user is NEW, OPEN or CLOSED
    totals,     \* the experience of each account
    ledger,     \* every award there was, in order
    plans       \* how many subscriptions each user has added

Init ==
    /\ standing = [u \in Users |-> "NEW"]
    /\ totals = [u \in Users |-> 0]
    /\ ledger = <<>>
    /\ plans = [u \in Users |-> 0]

Open(u) ==
    /\ standing[u] = "NEW"
    /\ standing' = [standing EXCEPT ![u] = "OPEN"]
    /\ UNCHANGED <<totals, ledger, plans>>

Close(u) ==
    /\ standing[u] = "OPEN"
    /\ standing' = [standing EXCEPT ![u] = "CLOSED"]
    /\ UNCHANGED <<totals, ledger, plans>>

\* The entry says what the total has gained.
Award(u, key) ==
    LET xp == totals'[u] - totals[u] IN
    /\ standing[u] = "OPEN"
    /\ xp \in Nat
    /\ totals' = [totals EXCEPT ![u] = @ + xp]
    /\ ledger' = Append(ledger, [user |-> u, key |-> key, xp |-> xp])
    /\ UNCHANGED standing

\* Without an active action there is nothing to award.
AddPlan(u) ==
    /\ plans' = [plans EXCEPT ![u] = @ + 1]
    /\ Award(u, "SUBSCRIPTION_ADDED") \/ UNCHANGED <<standing, totals, ledger>>

ActOnInsight(u) == Award(u, "INSIGHT_DISMISSED") /\ UNCHANGED plans

Next == \E u \in Users : Open(u) \/ Close(u) \/ AddPlan(u) \/ ActOnInsight(u)

Spec == Init /\ [][Next]_<<standing, totals, ledger, plans>>
=============================================================================
