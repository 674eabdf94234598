--------------------------- MODULE MCBankConnection ---------------------------
EXTENDS BankConnectionProperties, TLC

Symmetry == UNION {Permutations(S) : S \in {ConnIds, Logins, Codes, Workers, Calls}}

\* What the properties of the overlapping run depend on.  No action reads `imported',
\* `awarded', `rejected' or `handedOut', and the login and the age of a scrape count only
\* while it holds the login; what is known of a refused login goes to `rejected' alone.
Holding(w) == IF sessions[w] = NULL THEN NULL
              ELSE [id |-> sessions[w].id,
                    login |-> IF HoldsLogin(w, sessions[w].login) THEN sessions[w].login
                                                                   ELSE NULL,
                    age |-> IF HoldsLogin(w, sessions[w].login) THEN sessions[w].age
                                                                 ELSE NULL]
Reporting(c) == IF Unfinished(c, {"fail"}) THEN [calls[c] EXCEPT !.login = NULL]
                ELSE calls[c]
Visible == <<connection, [w \in Workers |-> Holding(w)], [c \in Calls |-> Reporting(c)]>>
=============================================================================
