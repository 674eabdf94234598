---------------------------- MODULE MCLeakResponse ----------------------------
EXTENDS LeakResponse, TLC

\* The user posts what a scan may find as well.
MCPosted == [type : {"OVERPAYING"}, about : Plans, listed : {{}}]
              \cup [type : {"HIGH_SPENDING"}, about : Charges, listed : {{}}]

Symmetry == UNION {Permutations(S) : S \in {Plans, Charges, Insights, Scans, Requests}}

\* No action reads `excused', and while a response is under way its insight is
\* not in it.
Visible == <<subjects, insights, drafts, scans, requests, purge>>
=============================================================================
