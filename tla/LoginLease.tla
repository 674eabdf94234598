------------------------------ MODULE LoginLease ------------------------------
(***************************************************************************)
(* What the claims of BankConnection promise the bank, whatever the API    *)
(* does to get there: each time the user enters a login, it is in the      *)
(* hands of one scrape at a time.  A scrape gets a login that nobody       *)
(* holds, and holds it until it ends, has been at it for so long that it   *)
(* is taken for dead, or the user enters the login again.                  *)
(***************************************************************************)
CONSTANTS Logins, Scrapes

VARIABLE holders    \* the scrapes that each login is in the hands of

Init == holders = [login \in Logins |-> {}]

Acquire(login, s) ==
    /\ holders[login] = {}
    /\ \A other \in Logins : s \notin holders[other]
    /\ holders' = [holders EXCEPT ![login] = {s}]

\* Scrapes that were given their login at the same time are taken for dead together.
Lose(S) == holders' = [login \in Logins |-> holders[login] \ S]

\* What was handed out before no longer counts.
Enter(login) == holders' = [holders EXCEPT ![login] = {}]

Next ==
    \/ \E login \in Logins, s \in Scrapes : Acquire(login, s)
    \/ \E S \in SUBSET Scrapes : Lose(S)
    \/ \E login \in Logins : Enter(login)

Spec == Init /\ [][Next]_holders
=============================================================================
