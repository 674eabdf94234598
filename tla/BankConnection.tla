--------------------------- MODULE BankConnection ---------------------------
(***************************************************************************)
(* The life of one (user, company) bank login, as the API keeps it:        *)
(* src/modules/bank-connection.  The table has a unique index on           *)
(* (user_id, company), so there is at most one row; its uuid changes when  *)
(* the user disconnects and connects again.                                *)
(*                                                                         *)
(* The API runs as many serverless instances over one database, so a       *)
(* handler is a chain of single SQL statements with anything in between.   *)
(* A handler that has read the row and not yet written it is a record in   *)
(* `calls', holding what it read.  The scraper worker is a separate        *)
(* program: a session is a scrape it was handed by a claim, and nothing    *)
(* is assumed of the order, the number or the lateness of its reports.     *)
(*                                                                         *)
(* Distinct rows never meet: the bulk UPDATE of a claim locks and          *)
(* re-checks them one by one, so the claim is modelled for the one row.    *)
(* The same credentials under another user's account are another row too.  *)
(* Left out: lastError, loginHint, the summary the client gets back, the   *)
(* notifications, encryption, and validation of the submitted fields.      *)
(***************************************************************************)
EXTENDS Naturals

CONSTANTS
    ConnIds,            \* uuids of bank_connections rows
    Logins,             \* credentials the user may enter, the same ones again too
    Codes,              \* SMS codes, one member per submission
    Workers,            \* scrapes the worker can have open at once
    Calls,              \* handlers that can be part-way through at once
    MinSyncInterval,    \* BANK_SYNC_WINDOWS, in ticks of the clock
    StaleClaim,
    OtpTtl,
    NULL

ASSUME WindowAssumption ==
    /\ MinSyncInterval \in Nat /\ StaleClaim \in Nat /\ OtpTtl \in Nat
    /\ StaleClaim < MinSyncInterval

VARIABLES
    connection,     \* the row, or NULL
    sessions,       \* what each scrape of the worker was handed, or NULL
    calls,          \* what each unfinished handler read, or NULL
    imported,       \* ids with a row in statement_imports
    awarded,        \* ids whose BANK_CONNECTED experience was granted
    rejected,       \* logins whose refusal was stored since they were entered
    handedOut       \* codes some takeOtp call has returned

vars == <<connection, sessions, calls, imported, awarded, rejected, handedOut>>

-----------------------------------------------------------------------------
(* The data.  Instants are kept as ages, which stop growing once they are  *)
(* older than every window they are compared with.                         *)

Statuses == {"PENDING_VALIDATION", "SYNCING", "AWAITING_OTP", "ACTIVE",
             "FAILED", "INVALID_CREDENTIALS"}
InFlight == {"SYNCING", "AWAITING_OTP"}
\* Mutant: a refused login is retried with the failed ones.
SchedulableEvenRefused == {"ACTIVE", "FAILED", "INVALID_CREDENTIALS"}

Schedulable == {"ACTIVE", "FAILED"}

FailureStatus == [UNKNOWN             |-> "FAILED",
                  OTP_TIMEOUT         |-> "FAILED",
                  ACCOUNT_BLOCKED     |-> "INVALID_CREDENTIALS",
                  INVALID_CREDENTIALS |-> "INVALID_CREDENTIALS"]
Failures == {"UNKNOWN", "OTP_TIMEOUT", "ACCOUNT_BLOCKED", "INVALID_CREDENTIALS"}

SyncAges == 0 .. MinSyncInterval + 1
SessionAges == 0 .. StaleClaim + 1
OtpAges == 0 .. OtpTtl + 1

Row == [id          : ConnIds,
        status      : Statuses,
        login       : Logins,
        otp         : Codes \cup {NULL},
        otpAge      : OtpAges \cup {NULL},
        attemptAge  : SyncAges \cup {NULL},
        syncAge     : SyncAges \cup {NULL}]

\* `renewed' is history, which no action reads: the login was entered once
\* more since the scrape was handed it.
Session == [id : ConnIds, login : Logins, age : SessionAges, renewed : BOOLEAN]

\* The next statement of an unfinished handler names the handler.  A member
\* that a handler has no use for is NULL.
WorkerOps == {"requestOtp", "takeOtp", "startImport", "activate", "award", "fail"}
UserOps == {"create", "reenter", "disconnect", "submitOtp"}

Call == [op         : WorkerOps \cup UserOps,
         id         : ConnIds \cup {NULL},
         login      : Logins \cup {NULL},
         otp        : Codes \cup {NULL},
         outcome    : Statuses \cup {NULL},
         firstSync  : BOOLEAN]

ASSUME NullAssumption ==
    /\ NULL \notin ConnIds /\ NULL \notin Logins /\ NULL \notin Codes
    /\ NULL \notin Nat /\ NULL \notin Statuses
    /\ NULL \notin Row /\ NULL \notin Session /\ NULL \notin Call

NewCall(op, id) == [op |-> op, id |-> id, login |-> NULL, otp |-> NULL,
                    outcome |-> NULL, firstSync |-> FALSE]

-----------------------------------------------------------------------------
(* An identity is fresh when nobody refers to it; what the history says    *)
(* of its earlier bearer is forgotten when it is used again.               *)

Stored(id) == connection # NULL /\ connection.id = id

FreshId(id) ==
    /\ ~Stored(id)
    /\ \A w \in Workers : sessions[w] # NULL => sessions[w].id # id
    /\ \A c \in Calls : calls[c] # NULL => calls[c].id # id

FreshCode(o) ==
    /\ connection # NULL => connection.otp # o
    /\ \A c \in Calls : calls[c] # NULL => calls[c].otp # o

-----------------------------------------------------------------------------
(* Statements shared by the handlers.                                      *)

\* An UPDATE ... WHERE id = :id changes nothing when the row is gone.
UpdateRow(id, row) == connection' = IF Stored(id) THEN row ELSE connection

Begin(c, call) == calls[c] = NULL /\ calls' = [calls EXCEPT ![c] = call]
Running(c, op) == calls[c] # NULL /\ calls[c].op = op
Finish(c) == calls' = [calls EXCEPT ![c] = NULL]
Continue(c, op) == calls' = [calls EXCEPT ![c].op = op]

NotInFlight == connection # NULL /\ connection.status \notin InFlight

\* What getInFlight asks of a worker's call.
GetInFlight(w) ==
    /\ sessions[w] # NULL
    /\ Stored(sessions[w].id)
    /\ connection.status \in InFlight

-----------------------------------------------------------------------------
(* What the user does.                                                     *)

\* A login that is stored anew counts as not refused yet, and the scrapes
\* that have it were handed it before.
StoreLogin(login) ==
    /\ rejected' = rejected \ {login}
    /\ sessions' = [w \in Workers |->
         IF sessions[w] # NULL /\ sessions[w].login = login
           THEN [sessions[w] EXCEPT !.renewed = TRUE] ELSE sessions[w]]

Connect(c, login) ==
    /\ connection = NULL \/ NotInFlight
    /\ IF connection = NULL
         THEN Begin(c, [NewCall("create", NULL) EXCEPT !.login = login])
         ELSE Begin(c, [NewCall("reenter", connection.id) EXCEPT !.login = login])
    /\ UNCHANGED <<connection, sessions, imported, awarded, rejected, handedOut>>

\* The unique index refuses a second row for the same user and company.
ConnectCreate(c, id) ==
    /\ Running(c, "create")
    /\ IF connection = NULL
         THEN /\ FreshId(id)
              /\ connection' = [id |-> id, status |-> "PENDING_VALIDATION",
                                login |-> calls[c].login, otp |-> NULL,
                                otpAge |-> NULL, attemptAge |-> NULL,
                                syncAge |-> NULL]
              /\ imported' = imported \ {id}
              /\ awarded' = awarded \ {id}
              /\ StoreLogin(calls[c].login)
         ELSE UNCHANGED <<connection, sessions, imported, awarded, rejected>>
    /\ Finish(c)
    /\ UNCHANGED handedOut

\* Mutant: entering the login again starts the sync history over.
ConnectReenterForgetsSync(c) ==
    /\ Running(c, "reenter")
    /\ UpdateRow(calls[c].id,
                 [connection EXCEPT !.otp = NULL, !.otpAge = NULL,
                                    !.login = calls[c].login, !.syncAge = NULL,
                                    !.status = "PENDING_VALIDATION"])
    /\ IF Stored(calls[c].id) THEN StoreLogin(calls[c].login)
                              ELSE UNCHANGED <<sessions, rejected>>
    /\ Finish(c)
    /\ UNCHANGED <<imported, awarded, handedOut>>

ConnectReenter(c) ==
    /\ Running(c, "reenter")
    /\ UpdateRow(calls[c].id,
                 [connection EXCEPT !.otp = NULL, !.otpAge = NULL,
                                    !.login = calls[c].login,
                                    !.status = "PENDING_VALIDATION"])
    /\ IF Stored(calls[c].id) THEN StoreLogin(calls[c].login)
                              ELSE UNCHANGED <<sessions, rejected>>
    /\ Finish(c)
    /\ UNCHANGED <<imported, awarded, handedOut>>

Disconnect(c) ==
    /\ NotInFlight
    /\ Begin(c, NewCall("disconnect", connection.id))
    /\ UNCHANGED <<connection, sessions, imported, awarded, rejected, handedOut>>

\* The commit of the purge; the row is not looked at again.
DisconnectCommit(c) ==
    /\ Running(c, "disconnect")
    /\ UpdateRow(calls[c].id, NULL)
    /\ Finish(c)
    /\ UNCHANGED <<sessions, imported, awarded, rejected, handedOut>>

IsOtpExpired == connection.otpAge # NULL => connection.otpAge > OtpTtl

SubmitOtp(c, code) ==
    /\ FreshCode(code)
    /\ connection # NULL
    /\ connection.status = "AWAITING_OTP"
    /\ ~IsOtpExpired
    /\ Begin(c, [NewCall("submitOtp", connection.id) EXCEPT !.otp = code])
    /\ handedOut' = handedOut \ {code}
    /\ UNCHANGED <<connection, sessions, imported, awarded, rejected>>

SubmitOtpStore(c) ==
    /\ Running(c, "submitOtp")
    /\ UpdateRow(calls[c].id, [connection EXCEPT !.otp = calls[c].otp])
    /\ Finish(c)
    /\ UNCHANGED <<sessions, imported, awarded, rejected, handedOut>>

-----------------------------------------------------------------------------
(* What the worker does.                                                   *)

PendingValidation == connection.status = "PENDING_VALIDATION"

DueForSync ==
    /\ connection.status \in Schedulable
    /\ connection.syncAge # NULL => connection.syncAge > MinSyncInterval
    /\ connection.attemptAge # NULL => connection.attemptAge > MinSyncInterval

\* Mutant: a claim is taken for abandoned one instant too early.
AbandonedClaimTooEarly ==
    /\ connection.status \in InFlight
    /\ connection.attemptAge # NULL
    /\ connection.attemptAge >= StaleClaim

\* Mutant: only a running scrape is taken for abandoned, not a waiting one.
AbandonedClaimSyncingOnly ==
    /\ connection.status = "SYNCING"
    /\ connection.attemptAge # NULL
    /\ connection.attemptAge > StaleClaim

AbandonedClaim ==
    /\ connection.status \in InFlight
    /\ connection.attemptAge # NULL
    /\ connection.attemptAge > StaleClaim

\* Mutant: the claim does not record when it was made.
ClaimRowUndated ==
    /\ connection' = [connection EXCEPT !.otp = NULL, !.status = "SYNCING"]
    /\ \/ \E w \in Workers :
            /\ sessions[w] = NULL
            /\ sessions' = [sessions EXCEPT ![w] =
                 [id |-> connection.id, login |-> connection.login, age |-> 0,
                  renewed |-> FALSE]]
       \/ UNCHANGED sessions
    /\ UNCHANGED <<calls, imported, awarded, rejected, handedOut>>

\* One UPDATE ... RETURNING.  The response opens a session in some idle
\* worker, or is lost on the way.
ClaimRow ==
    /\ connection' = [connection EXCEPT !.attemptAge = 0, !.otp = NULL,
                                        !.status = "SYNCING"]
    /\ \/ \E w \in Workers :
            /\ sessions[w] = NULL
            /\ sessions' = [sessions EXCEPT ![w] =
                 [id |-> connection.id, login |-> connection.login, age |-> 0,
                  renewed |-> FALSE]]
       \/ UNCHANGED sessions
    /\ UNCHANGED <<calls, imported, awarded, rejected, handedOut>>

ClaimPending == connection # NULL /\ PendingValidation /\ ClaimRow
ClaimScheduled == connection # NULL /\ (DueForSync \/ AbandonedClaim) /\ ClaimRow

\* The first statement of each report: getInFlight, by id alone.
RequestOtp(c, w) ==
    /\ GetInFlight(w)
    /\ Begin(c, NewCall("requestOtp", connection.id))
    /\ UNCHANGED <<connection, sessions, imported, awarded, rejected, handedOut>>

RequestOtpFlag(c) ==
    /\ Running(c, "requestOtp")
    /\ UpdateRow(calls[c].id, [connection EXCEPT !.otp = NULL, !.otpAge = 0,
                                                 !.status = "AWAITING_OTP"])
    /\ Finish(c)
    /\ UNCHANGED <<sessions, imported, awarded, rejected, handedOut>>

TakeOtp(c, w) ==
    /\ GetInFlight(w)
    /\ connection.otp # NULL
    /\ Begin(c, [NewCall("takeOtp", connection.id) EXCEPT !.otp = connection.otp])
    /\ UNCHANGED <<connection, sessions, imported, awarded, rejected, handedOut>>

\* Mutant: the code stays in the row.
TakeOtpClearKeepsCode(c) ==
    /\ Running(c, "takeOtp")
    /\ UpdateRow(calls[c].id, [connection EXCEPT !.otpAge = NULL, !.status = "SYNCING"])
    /\ handedOut' = handedOut \cup {calls[c].otp}
    /\ Finish(c)
    /\ UNCHANGED <<sessions, imported, awarded, rejected>>

\* Clears the row and returns the code that was read before.
TakeOtpClear(c) ==
    /\ Running(c, "takeOtp")
    /\ UpdateRow(calls[c].id, [connection EXCEPT !.otp = NULL, !.otpAge = NULL,
                                                 !.status = "SYNCING"])
    /\ handedOut' = handedOut \cup {calls[c].otp}
    /\ Finish(c)
    /\ UNCHANGED <<sessions, imported, awarded, rejected>>

ReportSuccess(c, w) ==
    /\ GetInFlight(w)
    /\ Begin(c, [NewCall("startImport", connection.id)
                   EXCEPT !.firstSync = (connection.syncAge = NULL)])
    /\ UNCHANGED <<connection, sessions, imported, awarded, rejected, handedOut>>

\* The import row references the connection, so a row that is gone fails it.
ReportSuccessImport(c) ==
    /\ Running(c, "startImport")
    /\ IF Stored(calls[c].id)
         THEN imported' = imported \cup {calls[c].id} /\ Continue(c, "activate")
         ELSE Finish(c) /\ UNCHANGED imported
    /\ UNCHANGED <<connection, sessions, awarded, rejected, handedOut>>

ReportSuccessActivate(c) ==
    /\ Running(c, "activate")
    /\ UpdateRow(calls[c].id, [connection EXCEPT !.otp = NULL, !.otpAge = NULL,
                                                 !.syncAge = 0,
                                                 !.status = "ACTIVE"])
    /\ IF calls[c].firstSync THEN Continue(c, "award") ELSE Finish(c)
    /\ UNCHANGED <<sessions, imported, awarded, rejected, handedOut>>

\* A failed award is logged only, which is AbandonCall below.
AwardFirstConnection(c) ==
    /\ Running(c, "award")
    /\ awarded' = awarded \cup {calls[c].id}
    /\ Finish(c)
    /\ UNCHANGED <<connection, sessions, imported, rejected, handedOut>>

\* Mutant: the reason itself is stored as the status.
ReportFailureUnmapped(c, w, reason) ==
    /\ GetInFlight(w)
    /\ Begin(c, [NewCall("fail", connection.id) EXCEPT !.outcome = reason,
                                                       !.login = sessions[w].login])
    /\ UNCHANGED <<connection, sessions, imported, awarded, rejected, handedOut>>

ReportFailure(c, w, reason) ==
    /\ GetInFlight(w)
    /\ Begin(c, [NewCall("fail", connection.id)
                   EXCEPT !.outcome = FailureStatus[reason],
                          !.login = sessions[w].login])
    /\ UNCHANGED <<connection, sessions, imported, awarded, rejected, handedOut>>

\* A refusal that finds no row is dropped: the user has disconnected.
ReportFailureStore(c) ==
    LET status == calls[c].outcome IN
    /\ Running(c, "fail")
    /\ UpdateRow(calls[c].id, [connection EXCEPT !.otp = NULL, !.otpAge = NULL,
                                                 !.status = status])
    /\ rejected' = IF status = "INVALID_CREDENTIALS" /\ Stored(calls[c].id)
                     THEN rejected \cup {calls[c].login} ELSE rejected
    /\ Finish(c)
    /\ UNCHANGED <<sessions, imported, awarded, handedOut>>

-----------------------------------------------------------------------------
(* What goes wrong, and the clock.                                         *)

\* The database fails the next statement, or the instance stops.
AbandonCall(c) ==
    /\ calls[c] # NULL
    /\ Finish(c)
    /\ UNCHANGED <<connection, sessions, imported, awarded, rejected, handedOut>>

\* The worker closes the browser: done, given up or crashed.
EndSession(w) ==
    /\ sessions[w] # NULL
    /\ sessions' = [sessions EXCEPT ![w] = NULL]
    /\ UNCHANGED <<connection, calls, imported, awarded, rejected, handedOut>>

Older(age, window) == IF age = NULL \/ age > window THEN age ELSE age + 1

Tick ==
    /\ connection' = IF connection = NULL THEN NULL
         ELSE [connection EXCEPT !.otpAge = Older(@, OtpTtl),
                                 !.attemptAge = Older(@, MinSyncInterval),
                                 !.syncAge = Older(@, MinSyncInterval)]
    /\ sessions' = [w \in Workers |->
         IF sessions[w] = NULL THEN NULL
         ELSE [sessions[w] EXCEPT !.age = Older(@, StaleClaim)]]
    /\ UNCHANGED <<calls, imported, awarded, rejected, handedOut>>

-----------------------------------------------------------------------------
Init ==
    /\ connection = NULL
    /\ sessions = [w \in Workers |-> NULL]
    /\ calls = [c \in Calls |-> NULL]
    /\ imported = {} /\ awarded = {} /\ rejected = {} /\ handedOut = {}

UserStep(c) ==
    \/ \E login \in Logins : Connect(c, login)
    \/ \E id \in ConnIds : ConnectCreate(c, id)
    \/ ConnectReenter(c)
    \/ Disconnect(c)
    \/ DisconnectCommit(c)
    \/ \E code \in Codes : SubmitOtp(c, code)
    \/ SubmitOtpStore(c)

WorkerStep(c) ==
    \/ \E w \in Workers :
         \/ RequestOtp(c, w)
         \/ TakeOtp(c, w)
         \/ ReportSuccess(c, w)
         \/ \E reason \in Failures : ReportFailure(c, w, reason)
    \/ RequestOtpFlag(c)
    \/ TakeOtpClear(c)
    \/ ReportSuccessImport(c)
    \/ ReportSuccessActivate(c)
    \/ AwardFirstConnection(c)
    \/ ReportFailureStore(c)

Next ==
    \/ \E c \in Calls : UserStep(c) \/ WorkerStep(c) \/ AbandonCall(c)
    \/ ClaimPending
    \/ ClaimScheduled
    \/ \E w \in Workers : EndSession(w)
    \/ Tick

Spec == Init /\ [][Next]_vars

\* The clock runs, the scheduler of the worker keeps asking for work, and no
\* browser stays open for ever.  No handler is assumed to finish.
FairSpec ==
    /\ Spec
    /\ WF_vars(Tick)
    /\ \A w \in Workers : WF_vars(EndSession(w))
    /\ WF_vars(ClaimPending)
    /\ WF_vars(ClaimScheduled)
=============================================================================
