----------------------- MODULE BankConnectionProperties -----------------------
(***************************************************************************)
(* What the life of a bank login must satisfy.                             *)
(***************************************************************************)
EXTENDS BankConnection

\* Every variable holds what the table, the worker and the handlers can hold.
TypeOK ==
    /\ connection \in Row \cup {NULL}
    /\ sessions \in [Workers -> Session \cup {NULL}]
    /\ calls \in [Calls -> Call \cup {NULL}]
    /\ imported \subseteq ConnIds
    /\ awarded \subseteq ConnIds
    /\ rejected \subseteq Logins
    /\ handedOut \subseteq Codes

FreshSession(w) == sessions[w] # NULL /\ sessions[w].age <= StaleClaim

\* A live scrape that has the login as the user entered it last.
HoldsLogin(w, login) ==
    FreshSession(w) /\ ~sessions[w].renewed /\ sessions[w].login = login

\* The bank never sees one login used by two scrapes that the API still takes
\* for live, unless the user entered the login again in between: a claim
\* excludes every other claim until StaleClaim has passed or a new entry is
\* stored, whatever reports, disconnects and late writes come between
\* (bank-connection.repository.ts, claim).
OneScraperPerLogin ==
    \A v, w \in Workers : \A login \in Logins :
        HoldsLogin(v, login) /\ HoldsLogin(w, login) => v = w

\* A row in flight says since when, or the abandoned-claim condition would
\* never match it: neither the scheduler nor the user, who is refused while a
\* sync runs, could ever get it out again.
InFlightHasAttempt ==
    connection # NULL /\ connection.status \in InFlight
        => connection.attemptAge # NULL

\* A connection is called synced only when the import of its transactions was
\* started: a report that fails half-way leaves no row that looks synced.
SyncedMeansImported ==
    connection # NULL /\ connection.syncAge # NULL => connection.id \in imported

-----------------------------------------------------------------------------
(* What the invariants above need to be inductive.                         *)

Typing == {"create", "reenter"}

\* An unfinished handler carries what its next statement writes.
CallsCarry ==
    \A c \in Calls : calls[c] # NULL =>
        /\ calls[c].op # "create" => calls[c].id \in ConnIds
        /\ calls[c].op \in Typing \cup {"fail"} => calls[c].login \in Logins
        /\ calls[c].op \in {"submitOtp", "takeOtp"} => calls[c].otp \in Codes
        /\ calls[c].op = "fail" => calls[c].outcome \in {"FAILED", "INVALID_CREDENTIALS"}

\* A late write that puts the row back in flight finds it claimed once.
LateWritesFindClaim ==
    \A c \in Calls :
        calls[c] # NULL /\ calls[c].op \in {"requestOtp", "takeOtp"} /\ Stored(calls[c].id)
            => connection.attemptAge # NULL

\* A scrape that has the login of the row as it was entered last was claimed
\* no later than the row was last claimed, and the row has not been reset since.
SessionsFollowRow ==
    \A w \in Workers :
        /\ sessions[w] # NULL
        /\ ~sessions[w].renewed
        /\ connection # NULL
        /\ connection.login = sessions[w].login
        => /\ connection.status # "PENDING_VALIDATION"
           /\ connection.attemptAge # NULL
           /\ sessions[w].age > StaleClaim \/ sessions[w].age >= connection.attemptAge

ActivationsImported ==
    \A c \in Calls :
        calls[c] # NULL /\ calls[c].op = "activate" => calls[c].id \in imported

IInv ==
    /\ TypeOK /\ CallsCarry
    /\ InFlightHasAttempt /\ LateWritesFindClaim
    /\ SessionsFollowRow /\ OneScraperPerLogin
    /\ ActivationsImported /\ SyncedMeansImported

-----------------------------------------------------------------------------
\* A code is handed out once: no takeOtp call returns a code that an earlier
\* one returned (takeOtp).
CodeHandedOutOnce ==
    [][\A c \in Calls : TakeOtpClear(c) => calls[c].otp \notin handedOut]_vars

\* A login the worker reported as refused by the bank is not handed to the
\* worker again until the user enters it once more
\* (BANK_CONNECTION_STATUS_BY_FAILURE).
RejectedLoginNotRetried ==
    [][ClaimPending \/ ClaimScheduled => connection.login \notin rejected]_vars

\* Only the first successful sync of a connection earns the experience, also
\* when the login is entered again (awardFirstConnection).
FirstSyncAwardedOnce ==
    [][\A c \in Calls : AwardFirstConnection(c) => calls[c].id \notin awarded]_vars

-----------------------------------------------------------------------------
(* When they hold.  Two handlers of the worker that overlap on one row can  *)
(* break each of them (MCRejectedRetry.cfg); what the user does may overlap *)
(* freely, with those handlers and among itself.                            *)

Unfinished(c, ops) == calls[c] # NULL /\ calls[c].op \in ops

\* The worker polls for a code again only when its last poll was answered.
OnePoll ==
    \A c, d \in Calls :
        Unfinished(c, {"takeOtp"}) /\ Unfinished(d, {"takeOtp"}) => c = d

\* While a failure is being reported, the worker reports nothing else.
FailuresReportedAlone ==
    \A c, d \in Calls :
        /\ Unfinished(c, {"fail"})
        /\ Unfinished(d, {"requestOtp", "takeOtp", "startImport", "activate", "fail"})
        => c = d

\* A success is not reported while another report of a success is on its way.
OneSuccessReport ==
    \A c, d \in Calls :
        /\ Unfinished(c, {"startImport", "activate"})
        /\ Unfinished(d, {"startImport", "activate"})
        => c = d

\* The API runs one handler at a time, as in MCBankConnectionSerial.cfg.
OneHandler == \A c, d \in Calls : c = d

(* What the three properties need to be inductive under them.              *)

\* A code that is still to be handed out is in one place: in the handler that stores
\* it, or in the row and in the poll that read it there.
CodesAreNew ==
    /\ connection # NULL => connection.otp \notin handedOut
    /\ \A c \in Calls :
         Unfinished(c, {"submitOtp", "takeOtp"}) => calls[c].otp \notin handedOut
    /\ \A c \in Calls : Unfinished(c, {"submitOtp"}) =>
         /\ connection # NULL => connection.otp # calls[c].otp
         /\ \A d \in Calls \ {c} : calls[d] # NULL => calls[d].otp # calls[c].otp
    /\ \A c \in Calls :
         Unfinished(c, {"takeOtp"}) /\ connection # NULL /\ connection.otp = calls[c].otp
             => Stored(calls[c].id)

\* A refused login is at rest, and no handler is about to set it in motion.
RefusedIsAtRest ==
    /\ connection # NULL /\ connection.login \in rejected
         => connection.status = "INVALID_CREDENTIALS"
    /\ \A c \in Calls :
         /\ Unfinished(c, {"requestOtp", "takeOtp", "startImport", "activate", "fail"})
         /\ Stored(calls[c].id)
         => connection.login \notin rejected

\* The award of a connection comes after its first sync and once.
AwardFollowsSync ==
    /\ connection # NULL /\ connection.id \in awarded => connection.syncAge # NULL
    /\ \A c \in Calls : Unfinished(c, {"startImport", "activate"}) /\ calls[c].firstSync =>
         /\ calls[c].id \notin awarded
         /\ \A d \in Calls : Unfinished(d, {"award"}) => calls[d].id # calls[c].id
    /\ \A c \in Calls : Unfinished(c, {"award"}) =>
         /\ calls[c].id \notin awarded
         /\ Stored(calls[c].id) => connection.syncAge # NULL
         /\ \A d \in Calls \ {c} : Unfinished(d, {"award"}) => calls[d].id # calls[c].id

-----------------------------------------------------------------------------
(* The claims implement a lease of the login.                              *)

Holders == [login \in Logins |-> {w \in Workers : HoldsLogin(w, login)}]

Lease == INSTANCE LoginLease WITH Scrapes <- Workers, holders <- Holders

\* A claim hands out a login only when no scrape that is still taken for live was
\* handed it since it was last entered, under this row or an earlier one; nothing but a
\* claim puts a login in anyone's hands, and nothing but a new entry takes it from a
\* live scrape: the API keeps to the lease that LoginLease specifies
\* (bank-connection.repository.ts, claim).
ClaimsAreLeases == Lease!Spec

-----------------------------------------------------------------------------
\* A connection whose login the bank has not refused keeps being scraped: it
\* is claimed again and again, however many workers crash holding it, reports
\* get lost or come late, and handlers stop half-way.
KeepsBeingScraped ==
    []<>(\/ connection = NULL
         \/ connection.status = "INVALID_CREDENTIALS"
         \/ connection.status \in InFlight /\ connection.attemptAge = 0)

\* What KeepsBeingScraped needs of every state: when no window holds a row back any
\* more, a claim matches it, in whatever state a lost report or a late write left it.
WindowsPassed ==
    /\ connection.syncAge # NULL => connection.syncAge > MinSyncInterval
    /\ connection.attemptAge # NULL => connection.attemptAge > MinSyncInterval

ClaimableInTheEnd ==
    connection # NULL /\ WindowsPassed /\ connection.status # "INVALID_CREDENTIALS"
        => PendingValidation \/ DueForSync \/ AbandonedClaim
=============================================================================
