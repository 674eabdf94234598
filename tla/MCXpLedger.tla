----------------------------- MODULE MCXpLedger ------------------------------
(* Two requests over a pool that is, or is not, too small for both.          *)
EXTENDS XpLedger, TLC

CONSTANTS u1, u2, insight

MCSymmetry == Permutations(Requests)
MCOwner == [i \in {insight} |-> u1]
MCActionEdits == {[key |-> "SUBSCRIPTION_ADDED", xp |-> 1, active |-> FALSE]}
MCLevelEdits == {[number |-> 1, xpRequired |-> 1]}
=============================================================================
