------------------------ MODULE BankConnectionProofs ------------------------
(***************************************************************************)
(* The invariants of BankConnectionProperties hold for every number of     *)
(* workers, handlers, rows, logins and codes and for every choice of the   *)
(* windows with StaleClaim < MinSyncInterval.  IInv is inductive: each of  *)
(* its parts has a lemma with one step per action.  The action properties  *)
(* hold under hypotheses on which handlers overlap, and the refinement of  *)
(* LoginLease follows from IInv.                                           *)
(***************************************************************************)
EXTENDS BankConnectionProperties, TLAPS

\* The clock of a claim, of a code request and of a session starts at zero.
LEMMA ZeroIsAnAge ==
  0 \in SyncAges /\ 0 \in OtpAges /\ 0 \in SessionAges
BY WindowAssumption DEF SyncAges, OtpAges, SessionAges

\* Growing older stays within the bound of the window, and an instant that is
\* known stays known.
LEMMA OlderType ==
  ASSUME NEW bound \in Nat, NEW age \in (0 .. bound + 1) \cup {NULL}
  PROVE  /\ Older(age, bound) \in (0 .. bound + 1) \cup {NULL}
         /\ age # NULL => /\ Older(age, bound) # NULL
                          /\ Older(age, bound) \in 0 .. bound + 1
BY NullAssumption DEF Older

\* What a claim hands to a scrape is the login as it was entered last.
LEMMA SessionType ==
  ASSUME NEW id \in ConnIds, NEW login \in Logins
  PROVE  [id |-> id, login |-> login, age |-> 0, renewed |-> FALSE] \in Session
<1>1. FALSE \in BOOLEAN
  OBVIOUS
<1> QED
  BY <1>1, ZeroIsAnAge, Zenon DEF Session

\* Storing a login keeps the type of what it marks.
LEMMA StoreType ==
  ASSUME TypeOK, NEW login \in Logins, StoreLogin(login)
  PROVE  sessions' \in [Workers -> Session \cup {NULL}] /\ rejected' \subseteq Logins
<1>1. ASSUME NEW s \in Session
      PROVE  [s EXCEPT !.renewed = TRUE] \in Session
  BY <1>1 DEF Session
<1>2. rejected' \subseteq Logins
  BY DEF StoreLogin, TypeOK
<1>3. ASSUME NEW w \in Workers
      PROVE  sessions'[w] \in Session \cup {NULL}
  BY <1>1, <1>3 DEF StoreLogin, TypeOK
<1>4. sessions' = [w \in Workers |-> sessions'[w]]
  BY DEF StoreLogin
<1> QED
  BY <1>2, <1>3, <1>4

-----------------------------------------------------------------------------
\* No step puts into a variable what the table, the worker or a handler cannot
\* hold, and every handler carries what its next statement writes.
LEMMA TypeStep ==
  ASSUME TypeOK, CallsCarry, [Next]_vars
  PROVE  TypeOK' /\ CallsCarry'
<1> USE NullAssumption, ZeroIsAnAge DEF TypeOK, CallsCarry
<1>1. ASSUME NEW c \in Calls, NEW login \in Logins, Connect(c, login)
     PROVE  TypeOK' /\ CallsCarry'
  <2>1. CASE connection = NULL
    <3>1. calls' = [calls EXCEPT ![c] =
                      [NewCall("create", NULL) EXCEPT !.login = login]]
      BY <1>1, <2>1 DEF Connect, Begin
    <3>2. [NewCall("create", NULL) EXCEPT !.login = login] \in Call
      BY DEF NewCall, Call, WorkerOps, UserOps
    <3> QED
      BY <1>1, <3>1, <3>2 DEF Connect, NewCall, Typing
  <2>2. CASE NotInFlight
    <3>1. calls' = [calls EXCEPT ![c] =
                      [NewCall("reenter", connection.id) EXCEPT !.login = login]]
      BY <1>1, <2>2 DEF Connect, Begin, NotInFlight
    <3>2. [NewCall("reenter", connection.id) EXCEPT !.login = login] \in Call
      BY <2>2 DEF NewCall, Call, WorkerOps, UserOps, NotInFlight, Row
    <3> QED
      BY <1>1, <2>2, <3>1, <3>2 DEF Connect, NewCall, Typing, NotInFlight, Row
  <2> QED
    BY <1>1, <2>1, <2>2 DEF Connect
<1>2. ASSUME NEW c \in Calls, NEW id \in ConnIds, ConnectCreate(c, id)
     PROVE  TypeOK' /\ CallsCarry'
  <2>1. calls[c].login \in Logins
    BY <1>2 DEF ConnectCreate, Running, Typing
  <2>2. sessions' \in [Workers -> Session \cup {NULL}] /\ rejected' \subseteq Logins
    BY <1>2, <2>1, StoreType DEF ConnectCreate
  <2>3. connection' \in Row \cup {NULL}
    BY <1>2, <2>1 DEF ConnectCreate, Row, Statuses
  <2> QED
    BY <1>2, <2>2, <2>3 DEF ConnectCreate, Running, Finish, Typing
<1>3. ASSUME NEW c \in Calls, ConnectReenter(c)
     PROVE  TypeOK' /\ CallsCarry'
  <2>1. calls[c].login \in Logins
    BY <1>3 DEF ConnectReenter, Running, Typing
  <2>2. sessions' \in [Workers -> Session \cup {NULL}] /\ rejected' \subseteq Logins
    BY <1>3, <2>1, StoreType DEF ConnectReenter
  <2>3. connection' \in Row \cup {NULL}
    BY <1>3, <2>1 DEF ConnectReenter, UpdateRow, Stored, Row, Statuses
  <2> QED
    BY <1>3, <2>2, <2>3 DEF ConnectReenter, Running, Finish, Typing
<1>4. ASSUME NEW c \in Calls, Disconnect(c)
     PROVE  TypeOK' /\ CallsCarry'
  BY <1>4 DEF Disconnect, Begin, NewCall, NotInFlight, Typing, Row, Call,
     Statuses, WorkerOps, UserOps
<1>5. ASSUME NEW c \in Calls, DisconnectCommit(c)
     PROVE  TypeOK' /\ CallsCarry'
  BY <1>5 DEF DisconnectCommit, UpdateRow, Stored, Running, Finish, Typing,
     Row, Call, Statuses, WorkerOps, UserOps
<1>6. ASSUME NEW c \in Calls, NEW code \in Codes, SubmitOtp(c, code)
     PROVE  TypeOK' /\ CallsCarry'
  <2>1. calls' = [calls EXCEPT ![c] =
                    [NewCall("submitOtp", connection.id) EXCEPT !.otp = code]]
    BY <1>6 DEF SubmitOtp, Begin
  <2>2. [NewCall("submitOtp", connection.id) EXCEPT !.otp = code] \in Call
    BY <1>6 DEF SubmitOtp, NewCall, Call, WorkerOps, UserOps, Row
  <2> QED
    BY <1>6, <2>1, <2>2 DEF SubmitOtp, NewCall, Typing, Row
<1>7. ASSUME NEW c \in Calls, SubmitOtpStore(c)
     PROVE  TypeOK' /\ CallsCarry'
  BY <1>7 DEF SubmitOtpStore, UpdateRow, Stored, Running, Finish, Typing, Row,
     Call, Statuses, WorkerOps, UserOps
<1>8. ASSUME NEW c \in Calls, NEW w \in Workers, RequestOtp(c, w)
     PROVE  TypeOK' /\ CallsCarry'
  BY <1>8 DEF RequestOtp, Begin, NewCall, GetInFlight, Stored, Typing, Row,
     Call, Statuses, WorkerOps, UserOps
<1>9. ASSUME NEW c \in Calls, NEW w \in Workers, TakeOtp(c, w)
     PROVE  TypeOK' /\ CallsCarry'
  BY <1>9 DEF TakeOtp, Begin, NewCall, GetInFlight, Stored, Typing, Row, Call,
     Statuses, WorkerOps, UserOps
<1>10. ASSUME NEW c \in Calls, NEW w \in Workers, ReportSuccess(c, w)
     PROVE  TypeOK' /\ CallsCarry'
  BY <1>10 DEF ReportSuccess, Begin, NewCall, GetInFlight, Stored, Typing, Row,
     Call, Statuses, WorkerOps, UserOps
<1>11. ASSUME NEW c \in Calls, NEW w \in Workers, NEW reason \in Failures,
            ReportFailure(c, w, reason)
     PROVE  TypeOK' /\ CallsCarry'
  <2> DEFINE call == [NewCall("fail", connection.id)
                        EXCEPT !.outcome = FailureStatus[reason],
                               !.login = sessions[w].login]
  <2>1. FailureStatus[reason] \in {"FAILED", "INVALID_CREDENTIALS"}
    BY DEF FailureStatus, Failures
  <2>2. sessions[w].login \in Logins /\ connection.id \in ConnIds
    BY <1>11 DEF ReportFailure, GetInFlight, Stored, Session, Row
  <2>3. calls' = [calls EXCEPT ![c] = call]
    BY <1>11 DEF ReportFailure, Begin
  <2>4. /\ call \in Call /\ call.op = "fail" /\ call.id \in ConnIds
        /\ call.login \in Logins
        /\ call.outcome \in {"FAILED", "INVALID_CREDENTIALS"}
    BY <2>1, <2>2 DEF NewCall, Call, WorkerOps, UserOps, Statuses
  <2> HIDE DEF call
  <2> QED
    BY <1>11, <2>3, <2>4 DEF ReportFailure, Typing
<1>12. ASSUME NEW c \in Calls, RequestOtpFlag(c)
     PROVE  TypeOK' /\ CallsCarry'
  <2>1. connection' \in Row \cup {NULL}
    BY <1>12 DEF RequestOtpFlag, UpdateRow, Stored, Row, Statuses
  <2> QED
    BY <1>12, <2>1 DEF RequestOtpFlag, Finish
<1>13. ASSUME NEW c \in Calls, TakeOtpClear(c)
     PROVE  TypeOK' /\ CallsCarry'
  BY <1>13 DEF TakeOtpClear, UpdateRow, Stored, Running, Finish, Typing, Row,
     Call, Statuses, WorkerOps, UserOps
<1>14. ASSUME NEW c \in Calls, ReportSuccessImport(c)
     PROVE  TypeOK' /\ CallsCarry'
  BY <1>14 DEF ReportSuccessImport, Stored, Running, Finish, Continue, Typing,
     Row, Call, Statuses, WorkerOps, UserOps
<1>15. ASSUME NEW c \in Calls, ReportSuccessActivate(c)
     PROVE  TypeOK' /\ CallsCarry'
  <2>1. connection' \in Row \cup {NULL}
    BY <1>15 DEF ReportSuccessActivate, UpdateRow, Stored, Row, Statuses
  <2> QED
    BY <1>15, <2>1 DEF ReportSuccessActivate, Finish, Continue, Running, Call,
                      WorkerOps, Typing
<1>16. ASSUME NEW c \in Calls, AwardFirstConnection(c)
     PROVE  TypeOK' /\ CallsCarry'
  BY <1>16 DEF AwardFirstConnection, Running, Finish, Typing, Row, Call,
     Statuses, WorkerOps, UserOps
<1>17. ASSUME NEW c \in Calls, ReportFailureStore(c)
     PROVE  TypeOK' /\ CallsCarry'
  BY <1>17 DEF ReportFailureStore, UpdateRow, Stored, Running, Finish, Typing,
     Row, Call, Statuses, WorkerOps, UserOps
<1>18. ASSUME NEW c \in Calls, AbandonCall(c)
     PROVE  TypeOK' /\ CallsCarry'
  BY <1>18 DEF AbandonCall, Finish, Typing, Row, Call, Statuses, WorkerOps,
     UserOps
<1>19. ASSUME ClaimPending \/ ClaimScheduled
     PROVE  TypeOK' /\ CallsCarry'
  <2>1. connection # NULL /\ ClaimRow
    BY <1>19 DEF ClaimPending, ClaimScheduled
  <2>2. connection' \in Row
    BY <2>1 DEF ClaimRow, Row, Statuses
  <2>3. sessions' \in [Workers -> Session \cup {NULL}]
    <3>1. connection.id \in ConnIds /\ connection.login \in Logins
      BY <2>1 DEF Row
    <3> QED
      BY <2>1, <3>1, SessionType DEF ClaimRow
  <2> QED
    BY <2>1, <2>2, <2>3 DEF ClaimRow
<1>20. ASSUME NEW w \in Workers, EndSession(w)
     PROVE  TypeOK' /\ CallsCarry'
  BY <1>20 DEF EndSession, Typing, Row, Call, Statuses, WorkerOps, UserOps
<1>21. ASSUME Tick
     PROVE  TypeOK' /\ CallsCarry'
  <2>1. ASSUME connection # NULL
        PROVE  connection' \in Row
    <3>1. Older(connection.otpAge, OtpTtl) \in OtpAges \cup {NULL}
      BY <2>1, OlderType, WindowAssumption DEF Row, OtpAges
    <3>2. Older(connection.attemptAge, MinSyncInterval) \in SyncAges \cup {NULL}
      BY <2>1, OlderType, WindowAssumption DEF Row, SyncAges
    <3>3. Older(connection.syncAge, MinSyncInterval) \in SyncAges \cup {NULL}
      BY <2>1, OlderType, WindowAssumption DEF Row, SyncAges
    <3> QED
      BY <1>21, <2>1, <3>1, <3>2, <3>3 DEF Tick, Row
  <2>2. ASSUME NEW w \in Workers, sessions[w] # NULL
        PROVE  [sessions[w] EXCEPT !.age = Older(@, StaleClaim)] \in Session
    <3>1. Older(sessions[w].age, StaleClaim) \in SessionAges
      BY <2>2, OlderType, WindowAssumption DEF Session, SessionAges
    <3> QED
      BY <2>2, <3>1 DEF Session
  <2> QED
    BY <1>21, <2>1, <2>2 DEF Tick
<1>22. ASSUME UNCHANGED vars
     PROVE  TypeOK' /\ CallsCarry'
  BY <1>22 DEF vars
<1> QED
  BY <1>1, <1>2, <1>3, <1>4, <1>5, <1>6, <1>7, <1>8, <1>9, <1>10,
      <1>11, <1>12, <1>13, <1>14, <1>15, <1>16, <1>17, <1>18, <1>19, <1>20,
      <1>21, <1>22 DEF Next, UserStep, WorkerStep

-----------------------------------------------------------------------------
\* A row in flight keeps the instant of its claim.
LEMMA ClaimStep ==
  ASSUME IInv, Next, TypeOK', CallsCarry'
  PROVE  InFlightHasAttempt' /\ LateWritesFindClaim'
<1> USE NullAssumption DEF IInv, TypeOK, InFlightHasAttempt,
     LateWritesFindClaim, InFlight, Stored
<1>1. ASSUME NEW c \in Calls, NEW login \in Logins, Connect(c, login)
     PROVE  InFlightHasAttempt' /\ LateWritesFindClaim'
  BY <1>1 DEF Connect, Begin, NewCall, NotInFlight, CallsCarry,
     Row, Call
<1>2. ASSUME NEW c \in Calls, NEW id \in ConnIds, ConnectCreate(c, id)
     PROVE  InFlightHasAttempt' /\ LateWritesFindClaim'
  BY <1>2 DEF ConnectCreate, Running, Finish, FreshId, Stored, CallsCarry, Row,
     Call
<1>3. ASSUME NEW c \in Calls, ConnectReenter(c)
     PROVE  InFlightHasAttempt' /\ LateWritesFindClaim'
  BY <1>3 DEF ConnectReenter, UpdateRow, Stored, Running, Finish, CallsCarry,
     Row, Call
<1>4. ASSUME NEW c \in Calls, Disconnect(c)
     PROVE  InFlightHasAttempt' /\ LateWritesFindClaim'
  BY <1>4 DEF Disconnect, Begin, NewCall, NotInFlight, CallsCarry, Row, Call
<1>5. ASSUME NEW c \in Calls, DisconnectCommit(c)
     PROVE  InFlightHasAttempt' /\ LateWritesFindClaim'
  BY <1>5 DEF DisconnectCommit, UpdateRow, Stored, Running, Finish, CallsCarry,
     Row, Call
<1>6. ASSUME NEW c \in Calls, NEW code \in Codes, SubmitOtp(c, code)
     PROVE  InFlightHasAttempt' /\ LateWritesFindClaim'
  BY <1>6 DEF SubmitOtp, Begin, NewCall, FreshCode, CallsCarry, Row, Call
<1>7. ASSUME NEW c \in Calls, SubmitOtpStore(c)
     PROVE  InFlightHasAttempt' /\ LateWritesFindClaim'
  BY <1>7 DEF SubmitOtpStore, UpdateRow, Stored, Running, Finish, CallsCarry,
     Row, Call
<1>8. ASSUME NEW c \in Calls, NEW w \in Workers, RequestOtp(c, w)
     PROVE  InFlightHasAttempt' /\ LateWritesFindClaim'
  BY <1>8 DEF RequestOtp, Begin, NewCall, GetInFlight, Stored, CallsCarry, Row,
     Call
<1>9. ASSUME NEW c \in Calls, NEW w \in Workers, TakeOtp(c, w)
     PROVE  InFlightHasAttempt' /\ LateWritesFindClaim'
  BY <1>9 DEF TakeOtp, Begin, NewCall, GetInFlight, Stored, CallsCarry, Row,
     Call
<1>10. ASSUME NEW c \in Calls, NEW w \in Workers, ReportSuccess(c, w)
     PROVE  InFlightHasAttempt' /\ LateWritesFindClaim'
  BY <1>10 DEF ReportSuccess, Begin, NewCall, GetInFlight, Stored, CallsCarry,
     Row, Call
<1>11. ASSUME NEW c \in Calls, NEW w \in Workers, NEW reason \in Failures,
            ReportFailure(c, w, reason)
     PROVE  InFlightHasAttempt' /\ LateWritesFindClaim'
  BY <1>11 DEF ReportFailure, Begin, NewCall, GetInFlight, Stored, CallsCarry,
     Row, Call
<1>12. ASSUME NEW c \in Calls, RequestOtpFlag(c)
     PROVE  InFlightHasAttempt' /\ LateWritesFindClaim'
  BY <1>12 DEF RequestOtpFlag, UpdateRow, Stored, Running, Finish, CallsCarry,
     Row, Call
<1>13. ASSUME NEW c \in Calls, TakeOtpClear(c)
     PROVE  InFlightHasAttempt' /\ LateWritesFindClaim'
  BY <1>13 DEF TakeOtpClear, UpdateRow, Stored, Running, Finish, CallsCarry,
     Row, Call
<1>14. ASSUME NEW c \in Calls, ReportSuccessImport(c)
     PROVE  InFlightHasAttempt' /\ LateWritesFindClaim'
  BY <1>14 DEF ReportSuccessImport, Stored, Running, Finish, Continue,
     CallsCarry, Row, Call
<1>15. ASSUME NEW c \in Calls, ReportSuccessActivate(c)
     PROVE  InFlightHasAttempt' /\ LateWritesFindClaim'
  BY <1>15 DEF ReportSuccessActivate, UpdateRow, Stored, Running, Finish,
     Continue, CallsCarry, Row, Call
<1>16. ASSUME NEW c \in Calls, AwardFirstConnection(c)
     PROVE  InFlightHasAttempt' /\ LateWritesFindClaim'
  BY <1>16 DEF AwardFirstConnection, Running, Finish, CallsCarry, Row, Call
<1>17. ASSUME NEW c \in Calls, ReportFailureStore(c)
     PROVE  InFlightHasAttempt' /\ LateWritesFindClaim'
  BY <1>17 DEF ReportFailureStore, UpdateRow, Stored, Running, Finish,
     CallsCarry, Row, Call
<1>18. ASSUME NEW c \in Calls, AbandonCall(c)
     PROVE  InFlightHasAttempt' /\ LateWritesFindClaim'
  BY <1>18 DEF AbandonCall, Finish, CallsCarry, Row, Call
<1>19. ASSUME ClaimPending \/ ClaimScheduled
     PROVE  InFlightHasAttempt' /\ LateWritesFindClaim'
  <2>1. /\ connection # NULL /\ connection \in Row /\ calls' = calls
        /\ connection' = [connection EXCEPT !.attemptAge = 0, !.otp = NULL,
                                            !.status = "SYNCING"]
    BY <1>19 DEF ClaimPending, ClaimScheduled, ClaimRow
  <2>2. connection'.attemptAge = 0 /\ connection'.id = connection.id
    BY <2>1 DEF Row
  <2> QED
    BY <2>1, <2>2
<1>20. ASSUME NEW w \in Workers, EndSession(w)
     PROVE  InFlightHasAttempt' /\ LateWritesFindClaim'
  BY <1>20 DEF EndSession, CallsCarry, Row, Call
<1>21. ASSUME Tick
     PROVE  InFlightHasAttempt' /\ LateWritesFindClaim'
  <2>1. connection # NULL /\ connection.attemptAge # NULL
          => connection'.attemptAge # NULL
    BY <1>21, OlderType, WindowAssumption DEF Tick, Row, SyncAges
  <2> QED
    BY <1>21, <2>1 DEF Tick, Stored, Row
<1> QED
  BY <1>1, <1>2, <1>3, <1>4, <1>5, <1>6, <1>7, <1>8, <1>9, <1>10,
      <1>11, <1>12, <1>13, <1>14, <1>15, <1>16, <1>17, <1>18, <1>19, <1>20,
      <1>21 DEF Next, UserStep, WorkerStep

-----------------------------------------------------------------------------
\* Storing a login marks every scrape that has it.
LEMMA StoreMarks ==
  ASSUME TypeOK, NEW login, StoreLogin(login), NEW w \in Workers,
         sessions'[w] # NULL, sessions'[w].login = login
  PROVE  sessions'[w].renewed
<1>1. sessions[w] # NULL => sessions[w] \in Session
  BY DEF TypeOK
<1>2. CASE sessions[w] # NULL /\ sessions[w].login = login
  <2>1. sessions'[w] = [sessions[w] EXCEPT !.renewed = TRUE]
    BY <1>2 DEF StoreLogin
  <2> QED
    BY <1>1, <1>2, <2>1 DEF Session
<1>3. CASE ~(sessions[w] # NULL /\ sessions[w].login = login)
  BY <1>3 DEF StoreLogin
<1> QED
  BY <1>2, <1>3

\* A scrape that uses the login of the row is never ahead of it.
LEMMA FollowStep ==
  ASSUME IInv, Next, TypeOK'
  PROVE  SessionsFollowRow'
<1> USE NullAssumption DEF IInv, TypeOK, SessionsFollowRow, Stored
<1>1. ASSUME NEW c \in Calls, NEW login \in Logins, Connect(c, login)
     PROVE  SessionsFollowRow'
  BY <1>1 DEF Connect, Begin, NewCall, NotInFlight, FreshId,
     CallsCarry, Typing, Row, Session, Call
<1>2. ASSUME NEW c \in Calls, NEW id \in ConnIds, ConnectCreate(c, id)
     PROVE  SessionsFollowRow'
  <2>1. CASE connection = NULL
    <3>1. connection'.login = calls[c].login /\ StoreLogin(calls[c].login)
      BY <1>2, <2>1 DEF ConnectCreate
    <3> QED
      BY <3>1, StoreMarks
  <2>2. CASE connection # NULL
    BY <1>2, <2>2 DEF ConnectCreate
  <2> QED
    BY <2>1, <2>2
<1>3. ASSUME NEW c \in Calls, ConnectReenter(c)
     PROVE  SessionsFollowRow'
  <2>1. CASE Stored(calls[c].id)
    <3>1. connection'.login = calls[c].login /\ StoreLogin(calls[c].login)
      BY <1>3, <2>1 DEF ConnectReenter, UpdateRow, Row
    <3> QED
      BY <3>1, StoreMarks
  <2>2. CASE ~Stored(calls[c].id)
    BY <1>3, <2>2 DEF ConnectReenter, UpdateRow
  <2> QED
    BY <2>1, <2>2
<1>4. ASSUME NEW c \in Calls, Disconnect(c)
     PROVE  SessionsFollowRow'
  BY <1>4 DEF Disconnect, Begin, NewCall, NotInFlight, FreshId, CallsCarry,
     Typing, Row, Session, Call
<1>5. ASSUME NEW c \in Calls, DisconnectCommit(c)
     PROVE  SessionsFollowRow'
  BY <1>5 DEF DisconnectCommit, UpdateRow, Stored, Running, Finish, FreshId,
     CallsCarry, Typing, Row, Session, Call
<1>6. ASSUME NEW c \in Calls, NEW code \in Codes, SubmitOtp(c, code)
     PROVE  SessionsFollowRow'
  BY <1>6 DEF SubmitOtp, Begin, NewCall, FreshCode, FreshId, CallsCarry,
     Typing, Row, Session, Call
<1>7. ASSUME NEW c \in Calls, SubmitOtpStore(c)
     PROVE  SessionsFollowRow'
  BY <1>7 DEF SubmitOtpStore, UpdateRow, Stored, Running, Finish, FreshId,
     CallsCarry, Typing, Row, Session, Call
<1>8. ASSUME NEW c \in Calls, NEW w \in Workers, RequestOtp(c, w)
     PROVE  SessionsFollowRow'
  BY <1>8 DEF RequestOtp, Begin, NewCall, GetInFlight, Stored, FreshId,
     CallsCarry, Typing, Row, Session, Call
<1>9. ASSUME NEW c \in Calls, NEW w \in Workers, TakeOtp(c, w)
     PROVE  SessionsFollowRow'
  BY <1>9 DEF TakeOtp, Begin, NewCall, GetInFlight, Stored, FreshId,
     CallsCarry, Typing, Row, Session, Call
<1>10. ASSUME NEW c \in Calls, NEW w \in Workers, ReportSuccess(c, w)
     PROVE  SessionsFollowRow'
  BY <1>10 DEF ReportSuccess, Begin, NewCall, GetInFlight, Stored, FreshId,
     CallsCarry, Typing, Row, Session, Call
<1>11. ASSUME NEW c \in Calls, NEW w \in Workers, NEW reason \in Failures,
            ReportFailure(c, w, reason)
     PROVE  SessionsFollowRow'
  BY <1>11 DEF ReportFailure, Begin, NewCall, GetInFlight, Stored, FreshId,
     CallsCarry, Typing, Row, Session, Call
<1>12. ASSUME NEW c \in Calls, RequestOtpFlag(c)
     PROVE  SessionsFollowRow'
  BY <1>12 DEF RequestOtpFlag, UpdateRow, Stored, Running, Finish, FreshId,
     CallsCarry, Typing, Row, Session, Call
<1>13. ASSUME NEW c \in Calls, TakeOtpClear(c)
     PROVE  SessionsFollowRow'
  BY <1>13 DEF TakeOtpClear, UpdateRow, Stored, Running, Finish, FreshId,
     CallsCarry, Typing, Row, Session, Call
<1>14. ASSUME NEW c \in Calls, ReportSuccessImport(c)
     PROVE  SessionsFollowRow'
  BY <1>14 DEF ReportSuccessImport, Stored, Running, Finish, Continue, FreshId,
     CallsCarry, Typing, Row, Session, Call
<1>15. ASSUME NEW c \in Calls, ReportSuccessActivate(c)
     PROVE  SessionsFollowRow'
  BY <1>15 DEF ReportSuccessActivate, UpdateRow, Stored, Running, Finish,
     Continue, FreshId, CallsCarry, Typing, Row, Session, Call
<1>16. ASSUME NEW c \in Calls, AwardFirstConnection(c)
     PROVE  SessionsFollowRow'
  BY <1>16 DEF AwardFirstConnection, Running, Finish, FreshId, CallsCarry,
     Typing, Row, Session, Call
<1>17. ASSUME NEW c \in Calls, ReportFailureStore(c)
     PROVE  SessionsFollowRow'
  BY <1>17 DEF ReportFailureStore, UpdateRow, Stored, Running, Finish, FreshId,
     CallsCarry, Typing, Row, Session, Call
<1>18. ASSUME NEW c \in Calls, AbandonCall(c)
     PROVE  SessionsFollowRow'
  BY <1>18 DEF AbandonCall, Finish, FreshId, CallsCarry, Typing,
     Row, Session, Call
<1>19. ASSUME ClaimPending \/ ClaimScheduled
     PROVE  SessionsFollowRow'
  <2>1. /\ connection \in Row /\ connection'.attemptAge = 0
        /\ connection'.status = "SYNCING"
    BY <1>19 DEF ClaimPending, ClaimScheduled, ClaimRow, Row
  <2>2. ASSUME NEW w \in Workers, sessions'[w] # NULL
        PROVE  sessions'[w].age >= 0
    BY <2>2, WindowAssumption DEF Session, SessionAges
  <2> QED
    BY <2>1, <2>2
<1>20. ASSUME NEW w \in Workers, EndSession(w)
     PROVE  SessionsFollowRow'
  BY <1>20 DEF EndSession, FreshId, CallsCarry, Typing, Row,
     Session, Call
<1>21. ASSUME Tick
     PROVE  SessionsFollowRow'
  <2> SUFFICES ASSUME NEW w \in Workers,
                      sessions'[w] # NULL, ~sessions'[w].renewed,
                      connection' # NULL, connection'.login = sessions'[w].login
               PROVE  /\ connection'.status # "PENDING_VALIDATION"
                      /\ connection'.attemptAge # NULL
                      /\ \/ sessions'[w].age > StaleClaim
                         \/ sessions'[w].age >= connection'.attemptAge
    OBVIOUS
  <2>1. /\ sessions[w] # NULL /\ sessions[w] \in Session
        /\ sessions'[w] = [sessions[w] EXCEPT !.age = Older(@, StaleClaim)]
    BY <1>21 DEF Tick
  <2>2. connection # NULL /\ connection \in Row
    BY <1>21 DEF Tick, Stored
  <2>3. /\ connection'.id = connection.id /\ connection'.login = connection.login
        /\ connection'.status = connection.status
        /\ connection'.attemptAge = Older(connection.attemptAge, MinSyncInterval)
    BY <1>21, <2>2 DEF Tick, Row
  <2>4. /\ sessions'[w].renewed = sessions[w].renewed /\ sessions'[w].login = sessions[w].login
        /\ sessions'[w].age = Older(sessions[w].age, StaleClaim)
    BY <2>1 DEF Session
  <2>5. /\ connection.status # "PENDING_VALIDATION"
        /\ connection.attemptAge # NULL
        /\ sessions[w].age > StaleClaim \/ sessions[w].age >= connection.attemptAge
    BY <2>1, <2>2, <2>3, <2>4 DEF Stored
  <2>6. sessions[w].age \in Nat /\ connection.attemptAge \in Nat
    BY <2>1, <2>2, <2>5, WindowAssumption DEF Session, Row, SessionAges, SyncAges
  <2> QED
    BY <2>3, <2>4, <2>5, <2>6, WindowAssumption DEF Older
<1> QED
  BY <1>1, <1>2, <1>3, <1>4, <1>5, <1>6, <1>7, <1>8, <1>9, <1>10,
      <1>11, <1>12, <1>13, <1>14, <1>15, <1>16, <1>17, <1>18, <1>19, <1>20,
      <1>21 DEF Next, UserStep, WorkerStep

-----------------------------------------------------------------------------
(* Who holds a login.                                                      *)

\* A step that neither hands out nor takes back a login, nor lets another one in.
KeepsLogin ==
    /\ sessions' = sessions
    /\ connection' # NULL => /\ connection # NULL
                             /\ connection'.id = connection.id
                             /\ connection'.login = connection.login

\* Only the clock, a claim, a scrape that ends and a login that is typed do more.
LEMMA StepShape ==
  ASSUME TypeOK, Next
  PROVE  \/ KeepsLogin
         \/ \E c \in Calls : ConnectReenter(c) \/ \E id \in ConnIds : ConnectCreate(c, id)
         \/ ClaimPending \/ ClaimScheduled
         \/ \E w \in Workers : EndSession(w)
         \/ Tick
<1> USE NullAssumption DEF TypeOK, KeepsLogin, Row
<1>1. ASSUME NEW c \in Calls,
             \/ \E login \in Logins : Connect(c, login)
             \/ Disconnect(c)
             \/ \E code \in Codes : SubmitOtp(c, code)
             \/ \E w \in Workers : \/ RequestOtp(c, w) \/ TakeOtp(c, w) \/ ReportSuccess(c, w)
                                   \/ \E reason \in Failures : ReportFailure(c, w, reason)
             \/ ReportSuccessImport(c)
             \/ AwardFirstConnection(c)
             \/ AbandonCall(c)
      PROVE  KeepsLogin
  BY <1>1 DEF Connect, Disconnect, SubmitOtp, RequestOtp, TakeOtp, ReportSuccess,
     ReportFailure, ReportSuccessImport, AwardFirstConnection, AbandonCall
<1>2. ASSUME NEW c \in Calls,
             \/ DisconnectCommit(c) \/ SubmitOtpStore(c) \/ RequestOtpFlag(c)
             \/ TakeOtpClear(c) \/ ReportSuccessActivate(c) \/ ReportFailureStore(c)
      PROVE  KeepsLogin
  BY <1>2 DEF DisconnectCommit, SubmitOtpStore, RequestOtpFlag, TakeOtpClear,
     ReportSuccessActivate, ReportFailureStore, UpdateRow, Stored
<1> QED
  BY <1>1, <1>2 DEF Next, UserStep, WorkerStep

-----------------------------------------------------------------------------
\* Storing a login takes it from everybody who was handed it before.
LEMMA StoreTakesBack ==
  ASSUME TypeOK, NEW login \in Logins, StoreLogin(login)
  PROVE  \A v \in Workers : \A l \in Logins :
           HoldsLogin(v, l)' <=> HoldsLogin(v, l) /\ l # login
<1> TAKE v \in Workers
<1> TAKE l \in Logins
<1> USE NullAssumption DEF HoldsLogin, FreshSession
<1>1. sessions[v] \in Session \cup {NULL}
  BY DEF TypeOK
<1>2. CASE sessions[v] # NULL /\ sessions[v].login = login
  <2>1. sessions'[v] = [sessions[v] EXCEPT !.renewed = TRUE]
    BY <1>2 DEF StoreLogin
  <2>2. sessions'[v].renewed
    BY <1>1, <1>2, <2>1 DEF Session
  <2> QED
    BY <1>2, <2>2
<1>3. CASE ~(sessions[v] # NULL /\ sessions[v].login = login)
  <2>1. sessions'[v] = sessions[v]
    BY <1>3 DEF StoreLogin
  <2> QED
    BY <1>3, <2>1
<1> QED
  BY <1>2, <1>3

\* Time and the end of a scrape take logins back, and give none.
LEMMA TickTakesBack ==
  ASSUME TypeOK, Tick
  PROVE  \A v \in Workers : \A l \in Logins : HoldsLogin(v, l)' => HoldsLogin(v, l)
<1> SUFFICES ASSUME NEW v \in Workers, NEW l \in Logins, HoldsLogin(v, l)'
             PROVE  HoldsLogin(v, l)
  OBVIOUS
<1>1. sessions[v] # NULL /\ sessions[v] \in Session
  BY DEF Tick, HoldsLogin, FreshSession, TypeOK
<1>2. /\ sessions'[v].age = Older(sessions[v].age, StaleClaim)
      /\ sessions'[v].login = sessions[v].login
      /\ sessions'[v].renewed = sessions[v].renewed
  BY <1>1 DEF Tick, Session
<1>3. sessions[v].age \in Nat /\ StaleClaim \in Nat
  BY <1>1, WindowAssumption DEF Session, SessionAges
<1>4. sessions[v].age <= StaleClaim
  BY <1>2, <1>3, NullAssumption DEF HoldsLogin, FreshSession, Older
<1> QED
  BY <1>1, <1>2, <1>4 DEF HoldsLogin, FreshSession

LEMMA EndTakesBack ==
  ASSUME TypeOK, NEW w \in Workers, EndSession(w)
  PROVE  \A v \in Workers : \A l \in Logins : HoldsLogin(v, l)' => HoldsLogin(v, l)
BY DEF EndSession, HoldsLogin, FreshSession, TypeOK

\* Nobody holds the login of the row when a claim finds it: whoever was handed it since
\* it was entered is stale by then.
LEMMA ClaimFindsNobody ==
  ASSUME TypeOK, SessionsFollowRow, ClaimPending \/ ClaimScheduled, NEW v \in Workers
  PROVE  ~HoldsLogin(v, connection.login)
<1> SUFFICES ASSUME HoldsLogin(v, connection.login)
             PROVE  FALSE
  OBVIOUS
<1> USE NullAssumption, WindowAssumption DEF TypeOK, HoldsLogin, FreshSession, Row, Session,
      SyncAges, SessionAges
<1>1. connection \in Row /\ sessions[v] \in Session
  BY DEF ClaimPending, ClaimScheduled
<1>2. /\ connection.status # "PENDING_VALIDATION"
      /\ connection.attemptAge # NULL
      /\ sessions[v].age >= connection.attemptAge
  BY <1>1 DEF SessionsFollowRow
<1>3. connection.attemptAge > StaleClaim
  BY <1>1, <1>2 DEF ClaimPending, ClaimScheduled, PendingValidation, DueForSync, AbandonedClaim
<1> QED
  BY <1>1, <1>2, <1>3

\* Only the scrape whose session a claim opens gets a login, the one of the row.
LEMMA ClaimHandsOut ==
  ASSUME TypeOK, connection # NULL, NEW w \in Workers,
         sessions[w] = NULL,
         sessions' = [sessions EXCEPT ![w] =
                        [id |-> connection.id, login |-> connection.login, age |-> 0,
                         renewed |-> FALSE]]
  PROVE  \A v \in Workers : \A l \in Logins :
           HoldsLogin(v, l)' <=> IF v = w THEN l = connection.login ELSE HoldsLogin(v, l)
<1> TAKE v \in Workers
<1> TAKE l \in Logins
<1> USE NullAssumption DEF TypeOK, HoldsLogin, FreshSession
<1>1. CASE v = w
  <2>1. sessions'[v] = [id |-> connection.id, login |-> connection.login, age |-> 0,
                        renewed |-> FALSE]
    BY <1>1
  <2>2. sessions'[v] \in Session
    BY <2>1, SessionType DEF Row
  <2>3. sessions'[v] # NULL
    BY <2>2
  <2>4. sessions'[v].age <= StaleClaim /\ sessions'[v].login = connection.login
    BY <2>1, WindowAssumption
  <2>5. ~sessions'[v].renewed
    BY <2>1
  <2> QED
    BY <1>1, <2>3, <2>4, <2>5
<1>2. CASE v # w
  <2>1. sessions'[v] = sessions[v]
    BY <1>2
  <2> QED
    BY <1>2, <2>1
<1> QED
  BY <1>1, <1>2

\* A claim meets no live scrape that holds the login, and every other step only ever
\* takes logins back.
LEMMA ScraperStep ==
  ASSUME IInv, Next
  PROVE  OneScraperPerLogin'
<1> USE DEF IInv
<1>1. ASSUME \A v \in Workers : \A l \in Logins : HoldsLogin(v, l)' => HoldsLogin(v, l)
      PROVE  OneScraperPerLogin'
  BY <1>1 DEF OneScraperPerLogin
<1>2. ASSUME sessions' = sessions
      PROVE  OneScraperPerLogin'
  BY <1>1, <1>2 DEF HoldsLogin, FreshSession
<1>3. CASE KeepsLogin
  BY <1>2, <1>3 DEF KeepsLogin
<1>4. ASSUME NEW c \in Calls, ConnectReenter(c)
      PROVE  OneScraperPerLogin'
  <2>1. calls[c].login \in Logins
    BY <1>4 DEF ConnectReenter, Running, CallsCarry, Typing
  <2> QED
    BY <1>1, <1>2, <1>4, <2>1, StoreTakesBack DEF ConnectReenter
<1>5. ASSUME NEW c \in Calls, NEW id \in ConnIds, ConnectCreate(c, id)
      PROVE  OneScraperPerLogin'
  <2>1. calls[c].login \in Logins
    BY <1>5 DEF ConnectCreate, Running, CallsCarry, Typing
  <2> QED
    BY <1>1, <1>2, <1>5, <2>1, StoreTakesBack DEF ConnectCreate
<1>6. CASE ClaimPending \/ ClaimScheduled
  <2>1. connection # NULL /\ ClaimRow
    BY <1>6 DEF ClaimPending, ClaimScheduled
  <2>2. ASSUME NEW w \in Workers, sessions[w] = NULL,
               sessions' = [sessions EXCEPT ![w] =
                              [id |-> connection.id, login |-> connection.login, age |-> 0,
                               renewed |-> FALSE]]
        PROVE  OneScraperPerLogin'
    BY <1>6, <2>1, <2>2, ClaimHandsOut, ClaimFindsNobody DEF OneScraperPerLogin
  <2> QED
    BY <1>2, <2>1, <2>2 DEF ClaimRow
<1>7. ASSUME NEW w \in Workers, EndSession(w)
      PROVE  OneScraperPerLogin'
  BY <1>1, <1>7, EndTakesBack
<1>8. CASE Tick
  BY <1>1, <1>8, TickTakesBack
<1> QED
  BY <1>3, <1>4, <1>5, <1>6, <1>7, <1>8, StepShape

-----------------------------------------------------------------------------
\* A connection becomes synced after its import was started.
LEMMA ImportStep ==
  ASSUME IInv, Next, TypeOK'
  PROVE  ActivationsImported' /\ SyncedMeansImported'
<1> USE NullAssumption DEF IInv, TypeOK, ActivationsImported,
     SyncedMeansImported
<1>1. ASSUME NEW c \in Calls, NEW login \in Logins, Connect(c, login)
     PROVE  ActivationsImported' /\ SyncedMeansImported'
  BY <1>1 DEF Connect, Begin, NewCall, NotInFlight, FreshId, Row,
     Call
<1>2. ASSUME NEW c \in Calls, NEW id \in ConnIds, ConnectCreate(c, id)
     PROVE  ActivationsImported' /\ SyncedMeansImported'
  BY <1>2 DEF ConnectCreate, Running, Finish, FreshId, Stored, Row, Call
<1>3. ASSUME NEW c \in Calls, ConnectReenter(c)
     PROVE  ActivationsImported' /\ SyncedMeansImported'
  BY <1>3 DEF ConnectReenter, UpdateRow, Stored, Running, Finish, FreshId, Row,
     Call
<1>4. ASSUME NEW c \in Calls, Disconnect(c)
     PROVE  ActivationsImported' /\ SyncedMeansImported'
  BY <1>4 DEF Disconnect, Begin, NewCall, NotInFlight, FreshId, Row, Call
<1>5. ASSUME NEW c \in Calls, DisconnectCommit(c)
     PROVE  ActivationsImported' /\ SyncedMeansImported'
  BY <1>5 DEF DisconnectCommit, UpdateRow, Stored, Running, Finish, FreshId,
     Row, Call
<1>6. ASSUME NEW c \in Calls, NEW code \in Codes, SubmitOtp(c, code)
     PROVE  ActivationsImported' /\ SyncedMeansImported'
  BY <1>6 DEF SubmitOtp, Begin, NewCall, FreshCode, FreshId, Row, Call
<1>7. ASSUME NEW c \in Calls, SubmitOtpStore(c)
     PROVE  ActivationsImported' /\ SyncedMeansImported'
  BY <1>7 DEF SubmitOtpStore, UpdateRow, Stored, Running, Finish, FreshId, Row,
     Call
<1>8. ASSUME NEW c \in Calls, NEW w \in Workers, RequestOtp(c, w)
     PROVE  ActivationsImported' /\ SyncedMeansImported'
  BY <1>8 DEF RequestOtp, Begin, NewCall, GetInFlight, Stored, FreshId, Row,
     Call
<1>9. ASSUME NEW c \in Calls, NEW w \in Workers, TakeOtp(c, w)
     PROVE  ActivationsImported' /\ SyncedMeansImported'
  BY <1>9 DEF TakeOtp, Begin, NewCall, GetInFlight, Stored, FreshId, Row, Call
<1>10. ASSUME NEW c \in Calls, NEW w \in Workers, ReportSuccess(c, w)
     PROVE  ActivationsImported' /\ SyncedMeansImported'
  BY <1>10 DEF ReportSuccess, Begin, NewCall, GetInFlight, Stored, FreshId,
     Row, Call
<1>11. ASSUME NEW c \in Calls, NEW w \in Workers, NEW reason \in Failures,
            ReportFailure(c, w, reason)
     PROVE  ActivationsImported' /\ SyncedMeansImported'
  BY <1>11 DEF ReportFailure, Begin, NewCall, GetInFlight, Stored, FreshId,
     Row, Call
<1>12. ASSUME NEW c \in Calls, RequestOtpFlag(c)
     PROVE  ActivationsImported' /\ SyncedMeansImported'
  BY <1>12 DEF RequestOtpFlag, UpdateRow, Stored, Running, Finish, FreshId,
     Row, Call
<1>13. ASSUME NEW c \in Calls, TakeOtpClear(c)
     PROVE  ActivationsImported' /\ SyncedMeansImported'
  BY <1>13 DEF TakeOtpClear, UpdateRow, Stored, Running, Finish, FreshId, Row,
     Call
<1>14. ASSUME NEW c \in Calls, ReportSuccessImport(c)
     PROVE  ActivationsImported' /\ SyncedMeansImported'
  BY <1>14 DEF ReportSuccessImport, Stored, Running, Finish, Continue, FreshId,
     Row, Call
<1>15. ASSUME NEW c \in Calls, ReportSuccessActivate(c)
     PROVE  ActivationsImported' /\ SyncedMeansImported'
  BY <1>15 DEF ReportSuccessActivate, UpdateRow, Stored, Running, Finish,
     Continue, FreshId, Row, Call
<1>16. ASSUME NEW c \in Calls, AwardFirstConnection(c)
     PROVE  ActivationsImported' /\ SyncedMeansImported'
  BY <1>16 DEF AwardFirstConnection, Running, Finish, FreshId, Row, Call
<1>17. ASSUME NEW c \in Calls, ReportFailureStore(c)
     PROVE  ActivationsImported' /\ SyncedMeansImported'
  BY <1>17 DEF ReportFailureStore, UpdateRow, Stored, Running, Finish, FreshId,
     Row, Call
<1>18. ASSUME NEW c \in Calls, AbandonCall(c)
     PROVE  ActivationsImported' /\ SyncedMeansImported'
  BY <1>18 DEF AbandonCall, Finish, FreshId, Row, Call
<1>19. ASSUME ClaimPending \/ ClaimScheduled
     PROVE  ActivationsImported' /\ SyncedMeansImported'
  BY <1>19 DEF ClaimPending, ClaimScheduled, ClaimRow, FreshId, Row, Call
<1>20. ASSUME NEW w \in Workers, EndSession(w)
     PROVE  ActivationsImported' /\ SyncedMeansImported'
  BY <1>20 DEF EndSession, FreshId, Row, Call
<1>21. ASSUME Tick
     PROVE  ActivationsImported' /\ SyncedMeansImported'
  <2>1. connection # NULL /\ connection'.syncAge # NULL => connection.syncAge # NULL
    BY <1>21 DEF Tick, Row, Older
  <2> QED
    BY <1>21, <2>1 DEF Tick, Row
<1> QED
  BY <1>1, <1>2, <1>3, <1>4, <1>5, <1>6, <1>7, <1>8, <1>9, <1>10,
      <1>11, <1>12, <1>13, <1>14, <1>15, <1>16, <1>17, <1>18, <1>19, <1>20,
      <1>21 DEF Next, UserStep, WorkerStep

-----------------------------------------------------------------------------
\* Nothing is stored, handed out or running at first.
LEMMA InitIInv ==
  Init => IInv
BY NullAssumption
   DEF Init, IInv, TypeOK, CallsCarry, InFlightHasAttempt, LateWritesFindClaim,
       SessionsFollowRow, OneScraperPerLogin, HoldsLogin, FreshSession,
       ActivationsImported, SyncedMeansImported

\* The inductive step.
LEMMA NextIInv ==
  IInv /\ [Next]_vars => IInv'
<1>1. ASSUME IInv, Next
      PROVE  IInv'
  <2>1. TypeOK' /\ CallsCarry'
    BY <1>1, TypeStep DEF IInv
  <2> QED
    BY <1>1, <2>1, ClaimStep, FollowStep, ScraperStep, ImportStep
       DEF IInv
<1>2. ASSUME IInv, UNCHANGED vars
      PROVE  IInv'
  BY <1>2
     DEF vars, IInv, TypeOK, CallsCarry, InFlightHasAttempt, LateWritesFindClaim,
         SessionsFollowRow, OneScraperPerLogin, HoldsLogin, FreshSession,
         ActivationsImported, SyncedMeansImported, Stored
<1> QED
  BY <1>1, <1>2

\* Every reachable state satisfies the inductive invariant.
THEOREM Invariance == Spec => []IInv
<1> QED
  BY InitIInv, NextIInv, PTL DEF Spec

\* Every variable keeps its type.
THEOREM TypeCorrect == Spec => []TypeOK
<1>1. IInv => TypeOK
  BY DEF IInv
<1> QED
  BY <1>1, Invariance, PTL

\* However claims, reconnects and late writes interleave, the bank never sees
\* one login used by two scrapes that are both younger than StaleClaim.
THEOREM MutualExclusion == Spec => []OneScraperPerLogin
<1>1. IInv => OneScraperPerLogin
  BY DEF IInv
<1> QED
  BY <1>1, Invariance, PTL

\* A row in flight always says since when, so an abandoned claim is never
\* beyond the reach of the scheduler.
THEOREM AbandonedClaimsAreDated == Spec => []InFlightHasAttempt
<1>1. IInv => InFlightHasAttempt
  BY DEF IInv
<1> QED
  BY <1>1, Invariance, PTL

\* A report that stops half-way never leaves a connection that looks synced
\* and has no import.
THEOREM SyncIsImported == Spec => []SyncedMeansImported
<1>1. IInv => SyncedMeansImported
  BY DEF IInv
<1> QED
  BY <1>1, Invariance, PTL

-----------------------------------------------------------------------------
(* What overlapping handlers of the worker can break, and handlers of the  *)
(* user cannot.                                                            *)

\* The clock leaves everything of the row but its ages alone.
LEMMA TickKeepsRow ==
  ASSUME TypeOK, Tick, connection # NULL
  PROVE  /\ connection' # NULL
         /\ connection'.id = connection.id
         /\ connection'.login = connection.login
         /\ connection'.status = connection.status
         /\ connection'.otp = connection.otp
         /\ connection.syncAge # NULL => connection'.syncAge # NULL
<1>1. connection \in Row
  BY DEF TypeOK
<1>2. Older(connection.otpAge, OtpTtl) \in OtpAges \cup {NULL}
  BY <1>1, OlderType, WindowAssumption DEF Row, OtpAges
<1>3. Older(connection.attemptAge, MinSyncInterval) \in SyncAges \cup {NULL}
  BY <1>1, OlderType, WindowAssumption DEF Row, SyncAges
<1>4. /\ Older(connection.syncAge, MinSyncInterval) \in SyncAges \cup {NULL}
      /\ connection.syncAge # NULL => Older(connection.syncAge, MinSyncInterval) # NULL
  BY <1>1, OlderType, WindowAssumption DEF Row, SyncAges
<1>5. connection' = [connection EXCEPT !.otpAge = Older(@, OtpTtl),
                                       !.attemptAge = Older(@, MinSyncInterval),
                                       !.syncAge = Older(@, MinSyncInterval)]
  BY DEF Tick
<1>6. connection' \in Row
  BY <1>1, <1>2, <1>3, <1>4, <1>5 DEF Row
<1> QED
  BY <1>1, <1>4, <1>5, <1>6, NullAssumption DEF Row

\* A claim leaves the identity, the login and the last sync of the row alone.
LEMMA ClaimKeepsRow ==
  ASSUME TypeOK, ClaimPending \/ ClaimScheduled
  PROVE  /\ connection # NULL /\ connection' # NULL
         /\ connection'.id = connection.id
         /\ connection'.login = connection.login
         /\ connection'.otp = NULL
         /\ connection'.syncAge = connection.syncAge
         /\ connection.status # "INVALID_CREDENTIALS"
         /\ UNCHANGED <<calls, imported, awarded, rejected, handedOut>>
<1>1. connection # NULL /\ connection \in Row /\ ClaimRow
  BY DEF ClaimPending, ClaimScheduled, TypeOK
<1>2. connection' = [connection EXCEPT !.attemptAge = 0, !.otp = NULL,
                                       !.status = "SYNCING"]
  BY <1>1 DEF ClaimRow
<1>3. connection' \in Row
  BY <1>1, <1>2, ZeroIsAnAge DEF Row, Statuses
<1>4. connection.status # "INVALID_CREDENTIALS"
  BY DEF ClaimPending, ClaimScheduled, PendingValidation, DueForSync, AbandonedClaim,
         Schedulable, InFlight
<1>5. /\ connection'.id = connection.id
      /\ connection'.login = connection.login
      /\ connection'.otp = NULL
      /\ connection'.syncAge = connection.syncAge
  BY <1>1, <1>2 DEF Row
<1> QED
  BY <1>1, <1>3, <1>4, <1>5, NullAssumption DEF ClaimRow

\* A connection that becomes active stays the row it was and has a sync.
LEMMA ActivationKeepsRow ==
  ASSUME TypeOK, NEW c \in Calls, ReportSuccessActivate(c), Stored(calls[c].id)
  PROVE  /\ connection' # NULL
         /\ connection'.id = connection.id
         /\ connection'.syncAge # NULL
<1>1. connection # NULL /\ connection \in Row
  BY DEF Stored, TypeOK
<1>2. connection' = [connection EXCEPT !.otp = NULL, !.otpAge = NULL,
                                       !.syncAge = 0, !.status = "ACTIVE"]
  BY DEF ReportSuccessActivate, UpdateRow
<1>3. connection' \in Row
  BY <1>1, <1>2, ZeroIsAnAge DEF Row, Statuses
<1>4. connection'.id = connection.id /\ connection'.syncAge = 0
  BY <1>1, <1>2 DEF Row
<1> QED
  BY <1>3, <1>4, NullAssumption


\* A code moves from its handler to the row, from the row to the poll that read it and
\* from there to the worker, so a code that was handed out is in none of them.
LEMMA CodeStep ==
  ASSUME OnePoll, OnePoll', IInv, CodesAreNew,
         Next, TypeOK', CallsCarry'
  PROVE  CodesAreNew'
<1> USE NullAssumption DEF IInv, TypeOK, CallsCarry, OnePoll, CodesAreNew, Unfinished, Stored
<1>1. ASSUME NEW c \in Calls, NEW login \in Logins, Connect(c, login)
     PROVE  CodesAreNew'
  BY <1>1
     DEF Connect, Begin, NewCall, NotInFlight, Row, Call
<1>2. ASSUME NEW c \in Calls, NEW id \in ConnIds, ConnectCreate(c, id)
     PROVE  CodesAreNew'
  BY <1>2
     DEF ConnectCreate, Running, Finish, FreshId, Row, Call
<1>3. ASSUME NEW c \in Calls, ConnectReenter(c)
     PROVE  CodesAreNew'
  BY <1>3
     DEF ConnectReenter, UpdateRow, Running, Finish, Row, Call
<1>4. ASSUME NEW c \in Calls, Disconnect(c)
     PROVE  CodesAreNew'
  BY <1>4
     DEF Disconnect, Begin, NewCall, NotInFlight, Row, Call
<1>5. ASSUME NEW c \in Calls, DisconnectCommit(c)
     PROVE  CodesAreNew'
  BY <1>5
     DEF DisconnectCommit, UpdateRow, Running, Finish, Row, Call
<1>6. ASSUME NEW c \in Calls, NEW code \in Codes, SubmitOtp(c, code)
     PROVE  CodesAreNew'
  BY <1>6
     DEF SubmitOtp, Begin, NewCall, FreshCode, Row, Call
<1>7. ASSUME NEW c \in Calls, SubmitOtpStore(c)
     PROVE  CodesAreNew'
  BY <1>7
     DEF SubmitOtpStore, UpdateRow, Running, Finish, Row, Call
<1>8. ASSUME NEW c \in Calls, NEW w \in Workers, RequestOtp(c, w)
     PROVE  CodesAreNew'
  BY <1>8
     DEF RequestOtp, Begin, NewCall, GetInFlight, Row, Call
<1>9. ASSUME NEW c \in Calls, NEW w \in Workers, TakeOtp(c, w)
     PROVE  CodesAreNew'
  BY <1>9
     DEF TakeOtp, Begin, NewCall, GetInFlight, Row, Call
<1>10. ASSUME NEW c \in Calls, NEW w \in Workers, ReportSuccess(c, w)
     PROVE  CodesAreNew'
  BY <1>10
     DEF ReportSuccess, Begin, NewCall, GetInFlight, Row, Call
<1>11. ASSUME NEW c \in Calls, NEW w \in Workers, NEW reason \in Failures,
            ReportFailure(c, w, reason)
     PROVE  CodesAreNew'
  BY <1>11
     DEF ReportFailure, Begin, NewCall, GetInFlight, Row, Call
<1>12. ASSUME NEW c \in Calls, RequestOtpFlag(c)
     PROVE  CodesAreNew'
  BY <1>12
     DEF RequestOtpFlag, UpdateRow, Running, Finish, Row, Call
<1>13. ASSUME NEW c \in Calls, TakeOtpClear(c)
     PROVE  CodesAreNew'
  BY <1>13
     DEF TakeOtpClear, UpdateRow, Running, Finish, Row, Call
<1>14. ASSUME NEW c \in Calls, ReportSuccessImport(c)
     PROVE  CodesAreNew'
  BY <1>14
     DEF ReportSuccessImport, Running, Finish, Continue, Row, Call
<1>15. ASSUME NEW c \in Calls, ReportSuccessActivate(c)
     PROVE  CodesAreNew'
  BY <1>15
     DEF ReportSuccessActivate, UpdateRow, Running, Finish, Continue, Row, Call
<1>16. ASSUME NEW c \in Calls, AwardFirstConnection(c)
     PROVE  CodesAreNew'
  BY <1>16
     DEF AwardFirstConnection, Running, Finish, Row, Call
<1>17. ASSUME NEW c \in Calls, ReportFailureStore(c)
     PROVE  CodesAreNew'
  BY <1>17
     DEF ReportFailureStore, UpdateRow, Running, Finish, Row, Call
<1>18. ASSUME NEW c \in Calls, AbandonCall(c)
     PROVE  CodesAreNew'
  BY <1>18
     DEF AbandonCall, Finish, Row, Call
<1>19. ASSUME ClaimPending \/ ClaimScheduled
     PROVE  CodesAreNew'
  BY <1>19, ClaimKeepsRow
<1>20. ASSUME NEW w \in Workers, EndSession(w)
     PROVE  CodesAreNew'
  BY <1>20 DEF EndSession, Row, Call
<1>21. ASSUME Tick
     PROVE  CodesAreNew'
  <2>1. /\ connection = NULL => connection' = NULL
        /\ UNCHANGED <<calls, imported, awarded, rejected, handedOut>>
    BY <1>21 DEF Tick
  <2> QED
    BY <1>21, <2>1, TickKeepsRow
<1> QED
  BY <1>1, <1>2, <1>3, <1>4, <1>5, <1>6, <1>7, <1>8, <1>9, <1>10,
      <1>11, <1>12, <1>13, <1>14, <1>15, <1>16, <1>17, <1>18, <1>19, <1>20,
      <1>21 DEF Next, UserStep, WorkerStep

\* A refused login stays at rest until it is typed again: the handler that would set it
\* in motion would have to overlap the report of the refusal.
LEMMA RefusalStep ==
  ASSUME FailuresReportedAlone, FailuresReportedAlone', IInv, RefusedIsAtRest,
         Next, TypeOK', CallsCarry'
  PROVE  RefusedIsAtRest'
<1> USE NullAssumption DEF IInv, TypeOK, CallsCarry, FailuresReportedAlone, RefusedIsAtRest, Unfinished, Stored, Typing, InFlight
<1>1. ASSUME NEW c \in Calls, NEW login \in Logins, Connect(c, login)
     PROVE  RefusedIsAtRest'
  BY <1>1
     DEF Connect, Begin, NewCall, NotInFlight, Row, Call
<1>2. ASSUME NEW c \in Calls, NEW id \in ConnIds, ConnectCreate(c, id)
     PROVE  RefusedIsAtRest'
  BY <1>2
     DEF ConnectCreate, StoreLogin, Running, Finish, FreshId, Row, Call
<1>3. ASSUME NEW c \in Calls, ConnectReenter(c)
     PROVE  RefusedIsAtRest'
  BY <1>3
     DEF ConnectReenter, StoreLogin, UpdateRow, Running, Finish, Row, Call
<1>4. ASSUME NEW c \in Calls, Disconnect(c)
     PROVE  RefusedIsAtRest'
  BY <1>4
     DEF Disconnect, Begin, NewCall, NotInFlight, Row, Call
<1>5. ASSUME NEW c \in Calls, DisconnectCommit(c)
     PROVE  RefusedIsAtRest'
  BY <1>5
     DEF DisconnectCommit, UpdateRow, Running, Finish, Row, Call
<1>6. ASSUME NEW c \in Calls, NEW code \in Codes, SubmitOtp(c, code)
     PROVE  RefusedIsAtRest'
  BY <1>6
     DEF SubmitOtp, Begin, NewCall, FreshCode, Row, Call
<1>7. ASSUME NEW c \in Calls, SubmitOtpStore(c)
     PROVE  RefusedIsAtRest'
  BY <1>7
     DEF SubmitOtpStore, UpdateRow, Running, Finish, Row, Call
<1>8. ASSUME NEW c \in Calls, NEW w \in Workers, RequestOtp(c, w)
     PROVE  RefusedIsAtRest'
  BY <1>8
     DEF RequestOtp, Begin, NewCall, GetInFlight, Row, Call
<1>9. ASSUME NEW c \in Calls, NEW w \in Workers, TakeOtp(c, w)
     PROVE  RefusedIsAtRest'
  BY <1>9
     DEF TakeOtp, Begin, NewCall, GetInFlight, Row, Call
<1>10. ASSUME NEW c \in Calls, NEW w \in Workers, ReportSuccess(c, w)
     PROVE  RefusedIsAtRest'
  BY <1>10
     DEF ReportSuccess, Begin, NewCall, GetInFlight, Row, Call
<1>11. ASSUME NEW c \in Calls, NEW w \in Workers, NEW reason \in Failures,
            ReportFailure(c, w, reason)
     PROVE  RefusedIsAtRest'
  <2>1. /\ sessions[w] # NULL /\ Stored(sessions[w].id) /\ connection.status \in InFlight
        /\ calls[c] = NULL /\ connection' = connection /\ rejected' = rejected
        /\ \A d \in Calls \ {c} : calls'[d] = calls[d]
        /\ calls'[c].op = "fail" /\ calls'[c].id = connection.id
        /\ calls'[c].login = sessions[w].login
    BY <1>11 DEF ReportFailure, Begin, NewCall, GetInFlight
  <2>2. connection.login \notin rejected
    BY <2>1
  <2> QED
    BY <2>1, <2>2
<1>12. ASSUME NEW c \in Calls, RequestOtpFlag(c)
     PROVE  RefusedIsAtRest'
  BY <1>12
     DEF RequestOtpFlag, UpdateRow, Running, Finish, Row, Call
<1>13. ASSUME NEW c \in Calls, TakeOtpClear(c)
     PROVE  RefusedIsAtRest'
  BY <1>13
     DEF TakeOtpClear, UpdateRow, Running, Finish, Row, Call
<1>14. ASSUME NEW c \in Calls, ReportSuccessImport(c)
     PROVE  RefusedIsAtRest'
  BY <1>14
     DEF ReportSuccessImport, Running, Finish, Continue, Row, Call
<1>15. ASSUME NEW c \in Calls, ReportSuccessActivate(c)
     PROVE  RefusedIsAtRest'
  BY <1>15
     DEF ReportSuccessActivate, UpdateRow, Running, Finish, Continue, Row, Call
<1>16. ASSUME NEW c \in Calls, AwardFirstConnection(c)
     PROVE  RefusedIsAtRest'
  BY <1>16
     DEF AwardFirstConnection, Running, Finish, Row, Call
<1>17. ASSUME NEW c \in Calls, ReportFailureStore(c)
     PROVE  RefusedIsAtRest'
  BY <1>17
     DEF ReportFailureStore, UpdateRow, Running, Finish, Row, Call
<1>18. ASSUME NEW c \in Calls, AbandonCall(c)
     PROVE  RefusedIsAtRest'
  BY <1>18
     DEF AbandonCall, Finish, Row, Call
<1>19. ASSUME ClaimPending \/ ClaimScheduled
     PROVE  RefusedIsAtRest'
  BY <1>19, ClaimKeepsRow
<1>20. ASSUME NEW w \in Workers, EndSession(w)
     PROVE  RefusedIsAtRest'
  BY <1>20 DEF EndSession, Row, Call
<1>21. ASSUME Tick
     PROVE  RefusedIsAtRest'
  <2>1. /\ connection = NULL => connection' = NULL
        /\ UNCHANGED <<calls, imported, awarded, rejected, handedOut>>
    BY <1>21 DEF Tick
  <2> QED
    BY <1>21, <2>1, TickKeepsRow
<1> QED
  BY <1>1, <1>2, <1>3, <1>4, <1>5, <1>6, <1>7, <1>8, <1>9, <1>10,
      <1>11, <1>12, <1>13, <1>14, <1>15, <1>16, <1>17, <1>18, <1>19, <1>20,
      <1>21 DEF Next, UserStep, WorkerStep

\* An award marks the connection that its sync has dated, and no other award of it is
\* on its way.
LEMMA AwardStep ==
  ASSUME OneSuccessReport, OneSuccessReport', IInv, AwardFollowsSync,
         Next, TypeOK', CallsCarry'
  PROVE  AwardFollowsSync'
<1> USE NullAssumption DEF IInv, TypeOK, CallsCarry, OneSuccessReport, AwardFollowsSync, Unfinished, Stored
<1>1. ASSUME NEW c \in Calls, NEW login \in Logins, Connect(c, login)
     PROVE  AwardFollowsSync'
  BY <1>1
     DEF Connect, Begin, NewCall, NotInFlight, Row, Call
<1>2. ASSUME NEW c \in Calls, NEW id \in ConnIds, ConnectCreate(c, id)
     PROVE  AwardFollowsSync'
  BY <1>2
     DEF ConnectCreate, Running, Finish, FreshId, Row, Call
<1>3. ASSUME NEW c \in Calls, ConnectReenter(c)
     PROVE  AwardFollowsSync'
  BY <1>3
     DEF ConnectReenter, UpdateRow, Running, Finish, Row, Call
<1>4. ASSUME NEW c \in Calls, Disconnect(c)
     PROVE  AwardFollowsSync'
  BY <1>4
     DEF Disconnect, Begin, NewCall, NotInFlight, Row, Call
<1>5. ASSUME NEW c \in Calls, DisconnectCommit(c)
     PROVE  AwardFollowsSync'
  BY <1>5
     DEF DisconnectCommit, UpdateRow, Running, Finish, Row, Call
<1>6. ASSUME NEW c \in Calls, NEW code \in Codes, SubmitOtp(c, code)
     PROVE  AwardFollowsSync'
  BY <1>6
     DEF SubmitOtp, Begin, NewCall, FreshCode, Row, Call
<1>7. ASSUME NEW c \in Calls, SubmitOtpStore(c)
     PROVE  AwardFollowsSync'
  BY <1>7
     DEF SubmitOtpStore, UpdateRow, Running, Finish, Row, Call
<1>8. ASSUME NEW c \in Calls, NEW w \in Workers, RequestOtp(c, w)
     PROVE  AwardFollowsSync'
  BY <1>8
     DEF RequestOtp, Begin, NewCall, GetInFlight, Row, Call
<1>9. ASSUME NEW c \in Calls, NEW w \in Workers, TakeOtp(c, w)
     PROVE  AwardFollowsSync'
  BY <1>9
     DEF TakeOtp, Begin, NewCall, GetInFlight, Row, Call
<1>10. ASSUME NEW c \in Calls, NEW w \in Workers, ReportSuccess(c, w)
     PROVE  AwardFollowsSync'
  BY <1>10
     DEF ReportSuccess, Begin, NewCall, GetInFlight, Row, Call
<1>11. ASSUME NEW c \in Calls, NEW w \in Workers, NEW reason \in Failures,
            ReportFailure(c, w, reason)
     PROVE  AwardFollowsSync'
  BY <1>11
     DEF ReportFailure, Begin, NewCall, GetInFlight, Row, Call
<1>12. ASSUME NEW c \in Calls, RequestOtpFlag(c)
     PROVE  AwardFollowsSync'
  BY <1>12
     DEF RequestOtpFlag, UpdateRow, Running, Finish, Row, Call
<1>13. ASSUME NEW c \in Calls, TakeOtpClear(c)
     PROVE  AwardFollowsSync'
  BY <1>13
     DEF TakeOtpClear, UpdateRow, Running, Finish, Row, Call
<1>14. ASSUME NEW c \in Calls, ReportSuccessImport(c)
     PROVE  AwardFollowsSync'
  BY <1>14
     DEF ReportSuccessImport, Running, Finish, Continue, Row, Call
<1>15. ASSUME NEW c \in Calls, ReportSuccessActivate(c)
     PROVE  AwardFollowsSync'
  BY <1>15, ActivationKeepsRow
     DEF ReportSuccessActivate, UpdateRow, Running, Finish, Continue, Call
<1>16. ASSUME NEW c \in Calls, AwardFirstConnection(c)
     PROVE  AwardFollowsSync'
  BY <1>16
     DEF AwardFirstConnection, Running, Finish, Row, Call
<1>17. ASSUME NEW c \in Calls, ReportFailureStore(c)
     PROVE  AwardFollowsSync'
  BY <1>17
     DEF ReportFailureStore, UpdateRow, Running, Finish, Row, Call
<1>18. ASSUME NEW c \in Calls, AbandonCall(c)
     PROVE  AwardFollowsSync'
  BY <1>18
     DEF AbandonCall, Finish, Row, Call
<1>19. ASSUME ClaimPending \/ ClaimScheduled
     PROVE  AwardFollowsSync'
  BY <1>19, ClaimKeepsRow
<1>20. ASSUME NEW w \in Workers, EndSession(w)
     PROVE  AwardFollowsSync'
  BY <1>20 DEF EndSession, Row, Call
<1>21. ASSUME Tick
     PROVE  AwardFollowsSync'
  <2>1. /\ connection = NULL => connection' = NULL
        /\ UNCHANGED <<calls, imported, awarded, rejected, handedOut>>
    BY <1>21 DEF Tick
  <2> QED
    BY <1>21, <2>1, TickKeepsRow
<1> QED
  BY <1>1, <1>2, <1>3, <1>4, <1>5, <1>6, <1>7, <1>8, <1>9, <1>10,
      <1>11, <1>12, <1>13, <1>14, <1>15, <1>16, <1>17, <1>18, <1>19, <1>20,
      <1>21 DEF Next, UserStep, WorkerStep

\* At first there is no row and no handler.
LEMMA InitHandlers ==
  Init => CodesAreNew /\ RefusedIsAtRest /\ AwardFollowsSync
BY DEF Init, CodesAreNew, RefusedIsAtRest, AwardFollowsSync, Unfinished

\* Nothing of the three invariants changes in a step that changes nothing.
LEMMA StutterHandlers ==
  ASSUME UNCHANGED vars
  PROVE  /\ CodesAreNew => CodesAreNew'
         /\ RefusedIsAtRest => RefusedIsAtRest'
         /\ AwardFollowsSync => AwardFollowsSync'
BY DEF vars, CodesAreNew, RefusedIsAtRest, AwardFollowsSync, Unfinished, Stored

\* No code is handed out by two calls of takeOtp when the worker does not poll again before
\* its last poll was answered, whatever the user does meanwhile and whatever claims, reports,
\* crashes and stops half-way come between (takeOtp).
THEOREM CodesAreHandedOutOnce == Spec /\ []OnePoll => CodeHandedOutOnce
<1>1. ASSUME OnePoll, OnePoll', IInv, CodesAreNew, [Next]_vars
      PROVE  CodesAreNew'
  <2>1. TypeOK' /\ CallsCarry'
    BY <1>1, TypeStep DEF IInv
  <2> QED
    BY <1>1, <2>1, CodeStep, StutterHandlers
<1>2. CodesAreNew => (\A c \in Calls : TakeOtpClear(c) => calls[c].otp \notin handedOut)
  BY DEF CodesAreNew, TakeOtpClear, Running, Unfinished
<1> QED
  BY <1>1, <1>2, InitHandlers, Invariance, PTL DEF Spec, CodeHandedOutOnce

\* Neither the scheduler nor a pending validation claims a login that the bank refused until
\* the user types it again, when the worker reports nothing else while it reports a failure;
\* the user may enter logins, disconnect and submit codes at the same time
\* (BANK_CONNECTION_STATUS_BY_FAILURE).
THEOREM RefusedLoginsStay == Spec /\ []FailuresReportedAlone => RejectedLoginNotRetried
<1>1. ASSUME FailuresReportedAlone, FailuresReportedAlone', IInv, RefusedIsAtRest, [Next]_vars
      PROVE  RefusedIsAtRest'
  <2>1. TypeOK' /\ CallsCarry'
    BY <1>1, TypeStep DEF IInv
  <2> QED
    BY <1>1, <2>1, RefusalStep, StutterHandlers
<1>2. IInv /\ RefusedIsAtRest
        => (ClaimPending \/ ClaimScheduled => connection.login \notin rejected)
  BY ClaimKeepsRow DEF IInv, RefusedIsAtRest
<1> QED
  BY <1>1, <1>2, InitHandlers, Invariance, PTL DEF Spec, RejectedLoginNotRetried

\* A connection is awarded for its first sync and never again, also when its login is entered
\* anew, when no two reports of a success overlap; every other handler may overlap them
\* (awardFirstConnection).
THEOREM FirstSyncsAreAwardedOnce == Spec /\ []OneSuccessReport => FirstSyncAwardedOnce
<1>1. ASSUME OneSuccessReport, OneSuccessReport', IInv, AwardFollowsSync, [Next]_vars
      PROVE  AwardFollowsSync'
  <2>1. TypeOK' /\ CallsCarry'
    BY <1>1, TypeStep DEF IInv
  <2> QED
    BY <1>1, <2>1, AwardStep, StutterHandlers
<1>2. AwardFollowsSync
        => (\A c \in Calls : AwardFirstConnection(c) => calls[c].id \notin awarded)
  BY DEF AwardFollowsSync, AwardFirstConnection, Running, Unfinished
<1> QED
  BY <1>1, <1>2, InitHandlers, Invariance, PTL DEF Spec, FirstSyncAwardedOnce

\* One handler at a time is enough for the three: what MCBankConnectionSerial.cfg checks on
\* two logins and two scrapes.
COROLLARY OneHandlerSuffices ==
  ASSUME OneHandler
  PROVE  Spec => CodeHandedOutOnce /\ RejectedLoginNotRetried /\ FirstSyncAwardedOnce
<1>1. [](OnePoll /\ FailuresReportedAlone /\ OneSuccessReport)
  <2>1. OneHandler => OnePoll /\ FailuresReportedAlone /\ OneSuccessReport
    BY DEF OneHandler, OnePoll, FailuresReportedAlone, OneSuccessReport
  <2> QED
    BY <2>1, PTL
<1> QED
  BY <1>1, CodesAreHandedOutOnce, RefusedLoginsStay, FirstSyncsAreAwardedOnce, PTL

-----------------------------------------------------------------------------
(* The part of KeepsBeingScraped that is about states.                     *)

\* Once the windows have passed, a row whose login was not refused is matched by the pending
\* claim or by the scheduled one, whatever was lost, came late or stopped half-way before
\* (pendingValidation, dueForSync, abandonedClaim).
THEOREM NobodyIsLeftOut == Spec => []ClaimableInTheEnd
<1>1. IInv => ClaimableInTheEnd
  <2> SUFFICES ASSUME IInv, connection # NULL, WindowsPassed,
                      connection.status # "INVALID_CREDENTIALS"
               PROVE  PendingValidation \/ DueForSync \/ AbandonedClaim
    BY DEF ClaimableInTheEnd
  <2>1. connection \in Row
    BY DEF IInv, TypeOK
  <2>2. CASE connection.status = "PENDING_VALIDATION"
    BY <2>2 DEF PendingValidation
  <2>3. CASE connection.status \in Schedulable
    BY <2>3 DEF DueForSync, WindowsPassed
  <2>4. CASE connection.status \in InFlight
    <3>1. connection.attemptAge # NULL
      BY <2>4 DEF IInv, InFlightHasAttempt
    <3>2. connection.attemptAge \in Nat /\ connection.attemptAge > MinSyncInterval
      BY <2>1, <3>1, WindowAssumption DEF Row, SyncAges, WindowsPassed
    <3>3. connection.attemptAge > StaleClaim
      BY <3>2, WindowAssumption
    <3> QED
      BY <2>4, <3>1, <3>3 DEF AbandonedClaim
  <2> QED
    BY <2>1, <2>2, <2>3, <2>4 DEF Row, Statuses, Schedulable, InFlight
<1> QED
  BY <1>1, Invariance, PTL

-----------------------------------------------------------------------------
(* The claims implement the lease of LoginLease.                           *)

\* The live scrapes that have a login as it was entered last.
LEMMA HoldersOf ==
  ASSUME NEW login \in Logins
  PROVE  Holders[login] = {w \in Workers : HoldsLogin(w, login)}
BY DEF Holders

\* A claim that reaches a worker acquires the login, one whose answer is lost does not.
LEMMA ClaimAcquires ==
  ASSUME IInv, ClaimPending \/ ClaimScheduled
  PROVE  [Lease!Next]_Holders
<1> DEFINE login == connection.login
<1> USE NullAssumption DEF IInv
<1>1. connection # NULL /\ ClaimRow /\ login \in Logins
  BY DEF ClaimPending, ClaimScheduled, TypeOK, Row
<1>2. CASE UNCHANGED sessions
  BY <1>2 DEF Holders, HoldsLogin, FreshSession
<1>3. ASSUME NEW w \in Workers, sessions[w] = NULL,
             sessions' = [sessions EXCEPT ![w] =
                            [id |-> connection.id, login |-> connection.login, age |-> 0,
                             renewed |-> FALSE]]
      PROVE  Lease!Acquire(login, w)
  <2>1. Holders[login] = {}
    BY <1>1, ClaimFindsNobody, HoldersOf
  <2>2. \A other \in Logins : w \notin Holders[other]
    BY <1>3 DEF Holders, HoldsLogin, FreshSession
  <2>3. ASSUME NEW l \in Logins
        PROVE  {v \in Workers : HoldsLogin(v, l)'} = IF l = login THEN {w} ELSE Holders[l]
    <3>1. \A v \in Workers : HoldsLogin(v, l)' <=> IF v = w THEN l = login ELSE HoldsLogin(v, l)
      BY <1>1, <1>3, ClaimHandsOut
    <3> QED
      BY <2>1, <2>2, <3>1, HoldersOf
  <2>4. Holders' = [Holders EXCEPT ![login] = {w}]
    BY <2>3 DEF Holders
  <2> QED
    BY <2>1, <2>2, <2>4 DEF Lease!Acquire
<1> QED
  BY <1>1, <1>2, <1>3 DEF ClaimRow, Lease!Next

\* The clock and the end of a scrape only ever take logins back.
LEMMA OthersLose ==
  ASSUME \A v \in Workers : \A l \in Logins : HoldsLogin(v, l)' => HoldsLogin(v, l),
         \A v \in Workers : \A k, l \in Logins :
             HoldsLogin(v, k)' /\ HoldsLogin(v, l) => k = l
  PROVE  Lease!Next
<1> DEFINE S == {v \in Workers : \A l \in Logins : ~HoldsLogin(v, l)'}
<1>1. ASSUME NEW l \in Logins
      PROVE  {v \in Workers : HoldsLogin(v, l)'} = Holders[l] \ S
  BY HoldersOf
<1>2. Holders' = [l \in Logins |-> Holders[l] \ S]
  BY <1>1 DEF Holders
<1>3. S \in SUBSET Workers
  OBVIOUS
<1> QED
  BY <1>2, <1>3 DEF Lease!Next, Lease!Lose

\* A login that is stored is entered.
LEMMA StoreEnters ==
  ASSUME TypeOK, NEW login \in Logins, StoreLogin(login)
  PROVE  Lease!Next
<1>1. ASSUME NEW l \in Logins
      PROVE  {v \in Workers : HoldsLogin(v, l)'} = IF l = login THEN {} ELSE Holders[l]
  BY StoreTakesBack, HoldersOf
<1>2. Holders' = [Holders EXCEPT ![login] = {}]
  BY <1>1 DEF Holders
<1> QED
  BY <1>2 DEF Lease!Next, Lease!Enter

\* Every step of the login's life is one of the lease or leaves it alone.
LEMMA StepIsLease ==
  ASSUME IInv, [Next]_vars
  PROVE  [Lease!Next]_Holders
<1> USE DEF IInv
<1>1. ASSUME UNCHANGED sessions
      PROVE  [Lease!Next]_Holders
  BY <1>1 DEF Holders, HoldsLogin, FreshSession
<1>2. CASE KeepsLogin
  BY <1>1, <1>2 DEF KeepsLogin
<1>3. ASSUME NEW c \in Calls, ConnectReenter(c)
      PROVE  [Lease!Next]_Holders
  <2>1. calls[c].login \in Logins
    BY <1>3 DEF ConnectReenter, Running, CallsCarry, Typing
  <2> QED
    BY <1>1, <1>3, <2>1, StoreEnters DEF ConnectReenter
<1>4. ASSUME NEW c \in Calls, NEW id \in ConnIds, ConnectCreate(c, id)
      PROVE  [Lease!Next]_Holders
  <2>1. calls[c].login \in Logins
    BY <1>4 DEF ConnectCreate, Running, CallsCarry, Typing
  <2> QED
    BY <1>1, <1>4, <2>1, StoreEnters DEF ConnectCreate
<1>5. CASE ClaimPending \/ ClaimScheduled
  BY <1>5, ClaimAcquires
<1>6. ASSUME NEW w \in Workers, EndSession(w)
      PROVE  Lease!Next
  <2>1. \A v \in Workers : \A k, l \in Logins :
           HoldsLogin(v, k)' /\ HoldsLogin(v, l) => k = l
    BY <1>6, EndTakesBack DEF HoldsLogin
  <2> QED
    BY <1>6, <2>1, EndTakesBack, OthersLose
<1>7. CASE Tick
  <2>1. \A v \in Workers : \A k, l \in Logins :
           HoldsLogin(v, k)' /\ HoldsLogin(v, l) => k = l
    BY <1>7, TickTakesBack DEF HoldsLogin
  <2> QED
    BY <1>7, <2>1, TickTakesBack, OthersLose
<1>8. CASE UNCHANGED vars
  BY <1>1, <1>8 DEF vars
<1> QED
  BY <1>2, <1>3, <1>4, <1>5, <1>6, <1>7, <1>8, StepShape

\* The claims keep to the lease: for any number of scrapes, handlers, rows and logins
\* and any windows with StaleClaim < MinSyncInterval, only a claim puts a login in
\* anyone's hands, and only when no live scrape was handed it since it was last entered.
THEOREM LeaseRefinement == Spec => ClaimsAreLeases
<1>1. Init => Lease!Init
  BY DEF Init, Lease!Init, Holders, HoldsLogin, FreshSession
<1> QED
  BY <1>1, StepIsLease, Invariance, PTL DEF Spec, ClaimsAreLeases, Lease!Spec
=============================================================================
