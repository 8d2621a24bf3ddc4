------------------------- MODULE AuthService_proofs -------------------------
(***************************************************************************)
(* Proofs about AuthService, for any number of concurrent requests, any    *)
(* lockout limit and any bound on sessions, requests and versions.         *)
(***************************************************************************)
EXTENDS AuthService, SequenceTheorems, TLAPS

-----------------------------------------------------------------------------
(* The invariant *)

Account == [pass : Nat, locked : BOOLEAN, attempts : Nat, secret : Nat, enabled : BOOLEAN]
SessionRecord == [revoked : BOOLEAN, stale : BOOLEAN, pass : Nat, chain : Nat]

(* A copy of the account that may be written back: at the limit only if locked. *)
Safe(u) == u \in Account /\ (u.attempts >= MaxFailed => u.locked)

(* The requests that carry a copy of the account, a session, a secret. *)
UserSteps == {"recordFailed", "recordFailedDB", "reset", "resetDB", "loginSession", "lastLogin",
              "lock", "unlock"}
SessionSteps == {"refreshUser", "rotate", "reissue", "touch"}
SecretSteps == {"saveSecret", "saveCodes"}

(* What a request in flight carries, where ids is the set of session ids. *)
Carries(r, ids) ==
  /\ "pc" \in DOMAIN r
  /\ r.pc \in UserSteps => r \in [pc : UserSteps, user : Account] /\ Safe(r.user)
  /\ r.pc \in SessionSteps => r \in [pc : SessionSteps, s : ids]
  /\ r.pc \in SecretSteps => r \in [pc : SecretSteps, secret : Nat]

SessionIds == DOMAIN sessions

WorkInv == /\ work = [w \in Workers |-> work[w]]
           /\ \A w \in Workers : Carries(work[w], SessionIds)

(* Not only the two stored accounts are safe, but every copy a request holds *)
(* and may still write back.                                                 *)
AuthInv == /\ Safe(cache) /\ Safe(db)
           /\ sessions \in Seq(SessionRecord)
           /\ pending \in Nat /\ secrets \in Nat
           /\ WorkInv

-----------------------------------------------------------------------------
(* Steps of one request *)

(* A request that takes up what it may carry keeps the requests well-formed, *)
(* as session ids are never withdrawn.                                       *)
LEMMA WorkStep ==
  ASSUME WorkInv, NEW w \in Workers, NEW r, work' = [work EXCEPT ![w] = r],
         Carries(r, SessionIds'), SessionIds \subseteq SessionIds'
  PROVE  WorkInv'
BY DEF WorkInv, Carries, SessionIds

(* A request that goes on with what it holds stays well-formed. *)
LEMMA GoToStep ==
  ASSUME WorkInv, NEW w \in Workers, NEW pc, GoTo(w, pc),
         \/ work[w].pc \in UserSteps /\ pc \in UserSteps
         \/ work[w].pc \in SessionSteps /\ pc \in SessionSteps
         \/ work[w].pc \in SecretSteps /\ pc \in SecretSteps
         \/ pc \notin UserSteps \cup SessionSteps \cup SecretSteps,
         SessionIds \subseteq SessionIds'
  PROVE  WorkInv'
<1> DEFINE r == [work[w] EXCEPT !.pc = pc]
<1>1. work' = [work EXCEPT ![w] = r]
  BY DEF GoTo, WorkInv
<1>2. Carries(r, SessionIds')
  BY DEF WorkInv, Carries, UserSteps, SessionSteps, SecretSteps
<1> QED BY <1>1, <1>2, WorkStep

(* Requests begin and end. *)
LEMMA BeginStep ==
  ASSUME WorkInv, NEW w \in Workers, NEW r, Begin(w, r), Carries(r, SessionIds'), SessionIds \subseteq SessionIds'
  PROVE  WorkInv'
BY WorkStep DEF Begin

(* These requests hold no copy of the account and no session. *)
LEMMA IdleCarries ==
  ASSUME NEW ids
  PROVE  /\ Carries(Idle, ids)
         /\ Carries([pc |-> "newPassword"], ids)
         /\ Carries([pc |-> "revokeAll"], ids)
         /\ Carries([pc |-> "disableCache"], ids)
BY DEF Carries, Idle, UserSteps, SessionSteps, SecretSteps

(* A request that returns leaves the requests well-formed. *)
LEMMA EndStep ==
  ASSUME WorkInv, NEW w \in Workers, End(w), SessionIds \subseteq SessionIds'
  PROVE  WorkInv'
BY WorkStep, IdleCarries DEF End

(* The changes of an account keep it safe. *)
LEMMA SafeChanges ==
  ASSUME MaxFailed \in Nat \ {0}, NEW u, Safe(u)
  PROVE  /\ Safe(FailedUser(u)) /\ Safe(ResetUser(u)) /\ Safe(UnlockedCopy(u))
         /\ Safe([u EXCEPT !.locked = TRUE])
         /\ \A v \in Nat : Safe(WithSecret(u, v)) /\ Safe([u EXCEPT !.pass = v])
<1>0. u \in Account /\ u.attempts \in Nat
  BY DEF Safe, Account
<1>1. Safe(FailedUser(u))
  <2> DEFINE n == u.attempts + 1
  <2>1. n \in Nat /\ (u.locked \/ n >= MaxFailed) \in BOOLEAN
    BY <1>0
  <2>2. /\ FailedUser(u) \in Account
        /\ FailedUser(u).attempts = n
        /\ FailedUser(u).locked = (u.locked \/ n >= MaxFailed)
    BY <1>0, <2>1 DEF Account, FailedUser
  <2> HIDE DEF n
  <2> QED BY <2>2, Zenon DEF Safe
<1>2. Safe(ResetUser(u)) /\ Safe(UnlockedCopy(u))
  <2>1. /\ ResetUser(u) \in Account /\ ResetUser(u).attempts = 0
        /\ UnlockedCopy(u) \in Account /\ UnlockedCopy(u).attempts = 0
    BY <1>0 DEF Account, ResetUser, UnlockedCopy
  <2>2. ~(0 >= MaxFailed)
    OBVIOUS
  <2> QED BY <2>1, <2>2, Zenon DEF Safe
<1>4. Safe([u EXCEPT !.locked = TRUE])
  BY <1>0 DEF Safe, Account
<1>3. ASSUME NEW v \in Nat PROVE Safe(WithSecret(u, v)) /\ Safe([u EXCEPT !.pass = v])
  BY DEF Safe, Account, WithSecret
<1> QED BY <1>1, <1>2, <1>3, <1>4

(* UpdateUser with a safe copy keeps the cache and the table safe. *)
LEMMA UpdateUserSafe ==
  ASSUME Safe(cache), Safe(db), NEW u, Safe(u), NEW ok, UpdateUser(u, ok)
  PROVE  Safe(cache)' /\ Safe(db)'
BY DEF Safe, Account, UpdateUser

(* The changes of the session table add ids and revoke, and never undo a     *)
(* revocation.                                                               *)
Later(old, new) ==
  /\ new \in Seq(SessionRecord)
  /\ DOMAIN old \subseteq DOMAIN new
  /\ \A s \in DOMAIN old : old[s].revoked => new[s].revoked

(* What the handlers do to the session table is such a change. *)
LEMMA SessionChanges ==
  ASSUME sessions \in Seq(SessionRecord)
  PROVE  /\ Later(sessions, sessions)
         /\ \A s : Later(sessions, [sessions EXCEPT ![s].revoked = TRUE])
         /\ \A s : \A b \in BOOLEAN : Later(sessions, [sessions EXCEPT ![s].stale = b])
         /\ Later(sessions, [s \in DOMAIN sessions |-> [sessions[s] EXCEPT !.revoked = TRUE]])
         /\ \A r \in SessionRecord : Later(sessions, Append(sessions, r))
<1>0. sessions \in [1..Len(sessions) -> SessionRecord] /\ Len(sessions) \in Nat
      /\ DOMAIN sessions = 1..Len(sessions)
  BY LenProperties, ElementOfSeq
<1>1. Later(sessions, sessions)
  BY DEF Later
<1>2. ASSUME NEW s PROVE Later(sessions, [sessions EXCEPT ![s].revoked = TRUE])
  <2>1. [sessions EXCEPT ![s].revoked = TRUE] \in [1..Len(sessions) -> SessionRecord]
    BY <1>0 DEF SessionRecord
  <2> QED BY <1>0, <2>1, SeqDef DEF Later, SessionRecord
<1>3. ASSUME NEW s, NEW b \in BOOLEAN PROVE Later(sessions, [sessions EXCEPT ![s].stale = b])
  <2>1. [sessions EXCEPT ![s].stale = b] \in [1..Len(sessions) -> SessionRecord]
    BY <1>0 DEF SessionRecord
  <2> QED BY <1>0, <2>1, SeqDef DEF Later, SessionRecord
<1>4. Later(sessions, [s \in DOMAIN sessions |-> [sessions[s] EXCEPT !.revoked = TRUE]])
  <2> DEFINE new == [s \in DOMAIN sessions |-> [sessions[s] EXCEPT !.revoked = TRUE]]
  <2>1. new \in [1..Len(sessions) -> SessionRecord]
    BY <1>0 DEF SessionRecord
  <2> QED BY <1>0, <2>1, SeqDef DEF Later, SessionRecord
<1>5. ASSUME NEW r \in SessionRecord PROVE Later(sessions, Append(sessions, r))
  <2>1. /\ Append(sessions, r) \in Seq(SessionRecord)
        /\ Len(Append(sessions, r)) = Len(sessions) + 1
        /\ \A i \in 1..Len(sessions) : Append(sessions, r)[i] = sessions[i]
    BY AppendProperties
  <2>2. DOMAIN Append(sessions, r) = 1..(Len(sessions) + 1)
    BY <2>1, LenProperties
  <2> QED BY <1>0, <2>1, <2>2 DEF Later
<1> QED BY <1>1, <1>2, <1>3, <1>4, <1>5

-----------------------------------------------------------------------------
(* The requests one by one *)

(* What a step must establish. *)
StepOK == /\ Safe(cache)' /\ Safe(db)' /\ Later(sessions, sessions')
          /\ (pending \in Nat)' /\ (secrets \in Nat)' /\ WorkInv'

(* A request that carries a safe copy, or a session id. *)
LEMMA NewRequests ==
  ASSUME NEW ids
  PROVE  /\ \A pc \in UserSteps \cup {"idle"} : \A u : Safe(u) => Carries([pc |-> pc, user |-> u], ids)
         /\ \A pc \in SessionSteps \cup {"revokeAll"}, s \in ids : Carries([pc |-> pc, s |-> s], ids)
         /\ \A v \in Nat : Carries([pc |-> "saveSecret", secret |-> v], ids)
<1>1. ASSUME NEW pc \in UserSteps \cup {"idle"}, NEW u, Safe(u)
      PROVE  Carries([pc |-> pc, user |-> u], ids)
  BY <1>1 DEF Carries, Safe, UserSteps, SessionSteps, SecretSteps
<1>2. ASSUME NEW pc \in SessionSteps \cup {"revokeAll"}, NEW s \in ids
      PROVE  Carries([pc |-> pc, s |-> s], ids)
  BY DEF Carries, UserSteps, SessionSteps, SecretSteps
<1>3. ASSUME NEW v \in Nat PROVE Carries([pc |-> "saveSecret", secret |-> v], ids)
  BY DEF Carries, UserSteps, SessionSteps, SecretSteps
<1> QED BY <1>1, <1>2, <1>3

(* The first step of every handler. *)
LEMMA RequestSteps ==
  ASSUME MaxFailed \in Nat \ {0}, AuthInv, NEW w \in Workers, Request(w)
  PROVE  StepOK
<1>0. /\ Safe(cache) /\ Safe(db) /\ sessions \in Seq(SessionRecord)
      /\ pending \in Nat /\ secrets \in Nat /\ WorkInv
  BY DEF AuthInv
<1>s. Later(sessions, sessions)
  BY <1>0, SessionChanges
<1> DEFINE Only(r) == Begin(w, r) /\ UNCHANGED <<cache, db, codes, sessions, pending, secrets, locked>>
<1>a. ASSUME NEW r, Only(r), Carries(r, SessionIds) PROVE StepOK
  <2>1. SessionIds' = SessionIds
    BY <1>a DEF SessionIds
  <2>2. WorkInv'
    BY <1>0, <1>a, <2>1, BeginStep
  <2> QED BY <1>0, <1>s, <1>a, <2>2 DEF StepOK, Safe
<1>1. ASSUME NEW pass, NEW code, Login(w, pass, code) PROVE StepOK
  <2>1. LoginOutcome(cache, pass, code) \in UserSteps \cup {"idle"}
    BY DEF LoginOutcome, UserSteps
  <2>2. Carries([pc |-> LoginOutcome(cache, pass, code), user |-> cache], SessionIds)
    BY <1>0, <2>1, NewRequests
  <2> QED BY <1>1, <1>a, <2>2 DEF Login
<1>2. ASSUME LockUser(w) PROVE StepOK
  <2>1. Carries([pc |-> "lock", user |-> [cache EXCEPT !.locked = TRUE]], SessionIds)
    BY <1>0, SafeChanges, NewRequests DEF UserSteps
  <2> QED BY <1>2, <1>a, <2>1 DEF LockUser
<1>3. ASSUME UnlockUser(w) PROVE StepOK
  <2>1. Carries([pc |-> "unlock", user |-> UnlockedCopy(cache)], SessionIds)
    BY <1>0, SafeChanges, NewRequests DEF UserSteps
  <2> QED BY <1>3, <1>a, <2>1 DEF UnlockUser
<1>4. ASSUME LogoutAll(w) PROVE StepOK
  BY <1>4, <1>a, IdleCarries DEF LogoutAll
<1>5. ASSUME NEW old, ChangePassword(w, old) PROVE StepOK
  BY <1>5, <1>a, IdleCarries DEF ChangePassword
<1>6. ASSUME NEW s \in DOMAIN sessions, Logout(w, s) PROVE StepOK
  <2>1. Later(sessions, sessions')
    BY <1>0, <1>6, SessionChanges DEF Logout, RevokeSession
  <2>2. WorkInv'
    BY <1>0, <1>6, <2>1, BeginStep, IdleCarries DEF Logout, Later, SessionIds
  <2> QED BY <1>0, <1>6, <2>1, <2>2 DEF Logout, StepOK, Safe
<1>7. ASSUME NEW s \in DOMAIN sessions, ValidateRequest(w, s) PROVE StepOK
  <2>1. Carries([pc |-> "touch", s |-> s], SessionIds)
    BY NewRequests DEF SessionSteps, SessionIds
  <2> QED BY <1>7, <1>a, <2>1, IdleCarries DEF ValidateRequest
<1>8. ASSUME NEW s \in DOMAIN sessions, NEW right \in BOOLEAN, RefreshTokens(w, s, right) PROVE StepOK
  <2>1. Carries([pc |-> IF right THEN "refreshUser" ELSE "revokeAll", s |-> s], SessionIds)
    BY NewRequests DEF SessionSteps, SessionIds
  <2> QED BY <1>8, <1>a, <2>1, IdleCarries DEF RefreshTokens
<1>9. ASSUME BeginTOTPSetup(w) PROVE StepOK
  <2>1. WorkInv'
    BY <1>0, <1>9, BeginStep, IdleCarries DEF BeginTOTPSetup, SessionIds
  <2> QED BY <1>0, <1>s, <1>9, <2>1 DEF BeginTOTPSetup, StepOK, Safe
<1>10. ASSUME NEW code \in 1..MaxVersion, ConfirmTOTPSetup(w, code) PROVE StepOK
  <2>1. code \in Nat
    OBVIOUS
  <2>2. Carries([pc |-> "saveSecret", secret |-> code], SessionIds)
    BY <2>1, NewRequests
  <2> QED BY <1>10, <1>a, <2>2, IdleCarries DEF ConfirmTOTPSetup
<1>11. ASSUME NEW ok \in BOOLEAN, DisableTOTPSetup(w, ok) PROVE StepOK
  <2>1. WorkInv'
    BY <1>0, <1>11, BeginStep, IdleCarries DEF DisableTOTPSetup, SessionIds
  <2>2. Safe(db)'
    BY <1>0, <1>11, SafeChanges DEF DisableTOTPSetup
  <2> QED BY <1>0, <1>s, <1>11, <2>1, <2>2 DEF DisableTOTPSetup, StepOK, Safe
<1> QED BY <1>1, <1>2, <1>3, <1>4, <1>5, <1>6, <1>7, <1>8, <1>9, <1>10, <1>11 DEF Request

(* The steps of a handler after its first. *)
LEMMA StoreCallSteps ==
  ASSUME MaxFailed \in Nat \ {0}, AuthInv, NEW w \in Workers, StoreCall(w)
  PROVE  StepOK
<1>0. /\ Safe(cache) /\ Safe(db) /\ sessions \in Seq(SessionRecord)
      /\ pending \in Nat /\ secrets \in Nat /\ WorkInv
      /\ cache \in Account /\ cache.pass \in Nat
  BY DEF AuthInv, Safe, Account
<1>s. Later(sessions, sessions)
  BY <1>0, SessionChanges
<1>u. work[w].pc \in UserSteps => Safe(work[w].user) /\ work[w].user \in Account
  BY <1>0 DEF WorkInv, Carries
<1>k. work[w].pc \in SecretSteps => work[w].secret \in Nat
  BY <1>0 DEF WorkInv, Carries
<1>i. work[w].pc \in SessionSteps => work[w].s \in DOMAIN sessions
  BY <1>0 DEF WorkInv, Carries, SessionIds
<1>1. ASSUME RecordFailedLogin(w) PROVE StepOK
  <2>1. Safe(FailedUser(cache))
    BY <1>0, SafeChanges
  <2>2. Carries([pc |-> "recordFailedDB", user |-> FailedUser(cache)], SessionIds)
    BY <2>1, NewRequests DEF UserSteps
  <2>3. WorkInv'
    BY <1>0, <1>1, <2>2, WorkStep DEF RecordFailedLogin, SessionIds
  <2> QED BY <1>0, <1>s, <1>1, <2>1, <2>3 DEF RecordFailedLogin, StepOK, Safe
<1>2. ASSUME ResetFailedLogin(w) PROVE StepOK
  <2>1. Safe(cache)'
    BY <1>0, <1>2, SafeChanges DEF ResetFailedLogin
  <2>2. WorkInv'
    BY <1>0, <1>2, GoToStep DEF ResetFailedLogin, At, SessionIds, UserSteps
  <2> QED BY <1>0, <1>s, <1>2, <2>1, <2>2 DEF ResetFailedLogin, StepOK, Safe
<1>3. ASSUME RevokeAll(w) PROVE StepOK
  <2>1. Later(sessions, sessions')
    BY <1>0, <1>3, SessionChanges DEF RevokeAll, RevokeAllUserSessions
  <2>2. WorkInv'
    BY <1>0, <1>3, <2>1, EndStep DEF RevokeAll, Later, SessionIds
  <2> QED BY <1>0, <1>3, <2>1, <2>2 DEF RevokeAll, StepOK, Safe
<1>4. ASSUME RefreshUser(w) PROVE StepOK
  <2>1. WorkInv'
    BY <1>0, <1>4, EndStep, GoToStep DEF RefreshUser, At, SessionIds, SessionSteps
  <2> QED BY <1>0, <1>s, <1>4, <2>1 DEF RefreshUser, StepOK, Safe
<1>5. ASSUME TouchSession(w) PROVE StepOK
  <2>1. Later(sessions, sessions')
    BY <1>0, <1>5, SessionChanges DEF TouchSession
  <2>2. WorkInv'
    BY <1>0, <1>5, <2>1, EndStep DEF TouchSession, Later, SessionIds
  <2> QED BY <1>0, <1>5, <2>1, <2>2 DEF TouchSession, StepOK, Safe
<1>6. ASSUME DisableCache(w) PROVE StepOK
  <2>1. Safe(cache)'
    BY <1>0, <1>6, SafeChanges DEF DisableCache
  <2>2. WorkInv'
    BY <1>0, <1>6, GoToStep DEF DisableCache, SessionIds, UserSteps, SessionSteps, SecretSteps
  <2> QED BY <1>0, <1>s, <1>6, <2>1, <2>2 DEF DisableCache, StepOK, Safe
<1>7. ASSUME NEW ok \in BOOLEAN, RecordFailedLoginDB(w, ok) PROVE StepOK
  <2>1. Safe(work[w].user) /\ work[w].user \in Account
    BY <1>7, <1>u DEF RecordFailedLoginDB, At, UserSteps
  <2>2. Safe(db)'
    BY <1>0, <1>7, <2>1 DEF RecordFailedLoginDB, Safe, Account
  <2>3. WorkInv'
    BY <1>0, <1>7, EndStep DEF RecordFailedLoginDB, SessionIds
  <2> QED BY <1>0, <1>s, <1>7, <2>2, <2>3 DEF RecordFailedLoginDB, StepOK, Safe
<1>8. ASSUME NEW ok \in BOOLEAN, ResetFailedLoginDB(w, ok) PROVE StepOK
  <2>1. Safe(db)'
    BY <1>0, <1>8, SafeChanges DEF ResetFailedLoginDB
  <2>2. WorkInv'
    BY <1>0, <1>8, GoToStep DEF ResetFailedLoginDB, At, SessionIds, UserSteps
  <2> QED BY <1>0, <1>s, <1>8, <2>1, <2>2 DEF ResetFailedLoginDB, StepOK, Safe
<1>9. ASSUME NEW ok \in BOOLEAN, LoginSession(w, ok) PROVE StepOK
  <2>1. work[w].user.pass \in Nat
    BY <1>9, <1>u DEF LoginSession, At, UserSteps, Account
  <2>2. Later(sessions, sessions')
    <3>1. Len(sessions) + 1 \in Nat
      BY <1>0, LenProperties
    <3>2. [revoked |-> FALSE, stale |-> FALSE, pass |-> work[w].user.pass, chain |-> Len(sessions) + 1]
            \in SessionRecord
      BY <2>1, <3>1 DEF SessionRecord
    <3> QED BY <1>0, <1>s, <1>9, <3>2, SessionChanges DEF LoginSession, CreateSession
  <2>3. WorkInv'
    BY <1>0, <1>9, <2>2, GoToStep, EndStep DEF LoginSession, At, Later, SessionIds, UserSteps
  <2> QED BY <1>0, <1>9, <2>2, <2>3 DEF LoginSession, StepOK, Safe
<1>10. ASSUME NEW ok \in BOOLEAN, LastLogin(w, ok) PROVE StepOK
  <2>1. Safe(cache)' /\ Safe(db)'
    BY <1>0, <1>10, <1>u, UpdateUserSafe DEF LastLogin, At, UserSteps
  <2>2. WorkInv'
    BY <1>0, <1>10, EndStep DEF LastLogin, SessionIds
  <2> QED BY <1>0, <1>s, <1>10, <2>1, <2>2 DEF LastLogin, StepOK
<1>11. ASSUME NEW ok \in BOOLEAN, LockUserWrite(w, ok) PROVE StepOK
  <2>1. Safe(cache)' /\ Safe(db)'
    BY <1>0, <1>11, <1>u, UpdateUserSafe DEF LockUserWrite, At, UserSteps
  <2>2. WorkInv'
    BY <1>0, <1>11, GoToStep DEF LockUserWrite, SessionIds, UserSteps, SessionSteps, SecretSteps
  <2> QED BY <1>0, <1>s, <1>11, <2>1, <2>2 DEF LockUserWrite, StepOK
<1>12. ASSUME NEW ok \in BOOLEAN, UnlockUserWrite(w, ok) PROVE StepOK
  <2>1. Safe(cache)' /\ Safe(db)'
    BY <1>0, <1>12, <1>u, UpdateUserSafe DEF UnlockUserWrite, At, UserSteps
  <2>2. WorkInv'
    BY <1>0, <1>12, EndStep DEF UnlockUserWrite, SessionIds
  <2> QED BY <1>0, <1>s, <1>12, <2>1, <2>2 DEF UnlockUserWrite, StepOK
<1>13. ASSUME NEW ok \in BOOLEAN, UpdatePasswordHash(w, ok) PROVE StepOK
  <2>1. cache.pass + 1 \in Nat
    BY <1>0
  <2>a. Safe([cache EXCEPT !.pass = cache.pass + 1]) /\ Safe([db EXCEPT !.pass = cache.pass + 1])
    BY <1>0, <2>1, SafeChanges
  <2>2. Safe(cache)' /\ Safe(db)'
    BY <1>0, <1>13, <2>a DEF UpdatePasswordHash
  <2>3. WorkInv'
    BY <1>0, <1>13, GoToStep, EndStep
       DEF UpdatePasswordHash, SessionIds, UserSteps, SessionSteps, SecretSteps
  <2> QED BY <1>0, <1>s, <1>13, <2>2, <2>3 DEF UpdatePasswordHash, StepOK
<1>14. ASSUME NEW ok \in BOOLEAN, RotateRevoke(w, ok) PROVE StepOK
  <2>1. Later(sessions, sessions')
    BY <1>0, <1>14, SessionChanges DEF RotateRevoke, RevokeSession
  <2>2. WorkInv'
    BY <1>0, <1>14, <2>1, GoToStep, EndStep DEF RotateRevoke, At, Later, SessionIds, SessionSteps
  <2> QED BY <1>0, <1>14, <2>1, <2>2 DEF RotateRevoke, StepOK, Safe
<1>15. ASSUME NEW ok \in BOOLEAN, RotateReissue(w, ok) PROVE StepOK
  <2>1. sessions[work[w].s] \in SessionRecord
    BY <1>0, <1>15, <1>i, LenProperties, ElementOfSeq DEF RotateReissue, At, SessionSteps
  <2>2. Later(sessions, sessions')
    <3>1. [revoked |-> FALSE, stale |-> FALSE, pass |-> sessions[work[w].s].pass,
           chain |-> sessions[work[w].s].chain] \in SessionRecord
      BY <2>1 DEF SessionRecord
    <3> QED BY <1>0, <1>s, <1>15, <3>1, SessionChanges DEF RotateReissue, CreateSession
  <2>3. WorkInv'
    BY <1>0, <1>15, <2>2, EndStep DEF RotateReissue, Later, SessionIds
  <2> QED BY <1>0, <1>15, <2>2, <2>3 DEF RotateReissue, StepOK, Safe
<1>16. ASSUME NEW ok \in BOOLEAN, UpdateTOTPSecret(w, ok) PROVE StepOK
  <2>1. work[w].secret \in Nat
    BY <1>16, <1>k DEF UpdateTOTPSecret, At, SecretSteps
  <2>2. Safe(cache)' /\ Safe(db)'
    BY <1>0, <1>16, <2>1, SafeChanges DEF UpdateTOTPSecret
  <2>3. WorkInv'
    BY <1>0, <1>16, GoToStep, EndStep DEF UpdateTOTPSecret, At, SessionIds, SecretSteps
  <2> QED BY <1>0, <1>s, <1>16, <2>2, <2>3 DEF UpdateTOTPSecret, StepOK
<1>17. ASSUME NEW ok \in BOOLEAN, UpdateBackupCodes(w, ok) PROVE StepOK
  <2>1. WorkInv'
    BY <1>0, <1>17, EndStep DEF UpdateBackupCodes, SessionIds
  <2> QED BY <1>0, <1>s, <1>17, <2>1 DEF UpdateBackupCodes, StepOK, Safe
<1> QED BY <1>1, <1>2, <1>3, <1>4, <1>5, <1>6, <1>7, <1>8, <1>9, <1>10, <1>11, <1>12, <1>13, <1>14,
           <1>15, <1>16, <1>17 DEF StoreCall

(* Every step keeps the invariant and undoes no revocation. *)
LEMMA NextSteps ==
  ASSUME MaxFailed \in Nat \ {0}, AuthInv, [AuthNext]_authVars
  PROVE  StepOK
<1>0. /\ Safe(cache) /\ Safe(db) /\ sessions \in Seq(SessionRecord)
      /\ pending \in Nat /\ secrets \in Nat /\ WorkInv
  BY DEF AuthInv
<1>1. ASSUME NEW s \in DOMAIN sessions, SessionTimeout(s) PROVE StepOK
  <2>1. Later(sessions, sessions')
    BY <1>0, <1>1, SessionChanges DEF SessionTimeout
  <2>2. WorkInv'
    BY <1>0, <1>1, <2>1 DEF SessionTimeout, Later, WorkInv, Carries, SessionIds
  <2> QED BY <1>0, <1>1, <2>1, <2>2 DEF SessionTimeout, StepOK, Safe
<1>2. ASSUME Restart PROVE StepOK
  <2>1. Later(sessions, sessions')
    BY <1>0, <1>2, SessionChanges DEF Restart
  <2>2. WorkInv'
    BY <1>2, IdleCarries DEF Restart, WorkInv
  <2> QED BY <1>0, <1>2, <2>1, <2>2 DEF Restart, StepOK, Safe
<1>3. CASE UNCHANGED authVars
  BY <1>0, <1>3, SessionChanges DEF authVars, StepOK, Safe, WorkInv, Carries, SessionIds
<1> QED BY <1>1, <1>2, <1>3, RequestSteps, StoreCallSteps DEF AuthNext

-----------------------------------------------------------------------------
(* Theorems *)

(* The invariant holds in every reachable state. *)
LEMMA AuthInvariant ==
  ASSUME MaxFailed \in Nat \ {0}
  PROVE  AuthSpec => []AuthInv
<1>1. AuthInit => AuthInv
  <2> SUFFICES ASSUME AuthInit PROVE AuthInv
    OBVIOUS
  <2>1. Safe(NewUser)
    BY DEF NewUser, Safe, Account
  <2>2. WorkInv
    BY IdleCarries DEF AuthInit, WorkInv
  <2>3. sessions \in Seq(SessionRecord)
    BY EmptySeq DEF AuthInit
  <2> QED BY <2>1, <2>2, <2>3 DEF AuthInit, AuthInv
<1>2. AuthInv /\ [AuthNext]_authVars => AuthInv'
  BY NextSteps DEF StepOK, AuthInv, Later
<1> QED BY <1>1, <1>2, PTL DEF AuthSpec

(* As many failed logins as maxFailedAttempts lock the account in the cache  *)
(* and in the row, for any number of concurrent requests and whichever       *)
(* database writes fail.                                                     *)
THEOREM LockoutHolds ==
  ASSUME MaxFailed \in Nat \ {0}
  PROVE  AuthSpec => []ThresholdLocks
<1>1. AuthInv => ThresholdLocks
  BY DEF AuthInv, Safe, ThresholdLocks
<1> QED BY <1>1, AuthInvariant, PTL

(* No step of any request makes a revoked session usable again.              *)
THEOREM RevocationHolds ==
  ASSUME MaxFailed \in Nat \ {0}
  PROVE  AuthSpec => RevocationFinal
<1>1. AuthInv /\ [AuthNext]_authVars
        => [\A s \in DOMAIN sessions : sessions[s].revoked => sessions'[s].revoked]_authVars
  BY NextSteps DEF StepOK, Later
<1> QED BY <1>1, AuthInvariant, PTL DEF AuthSpec, RevocationFinal

-----------------------------------------------------------------------------
(* An administrator's lock *)

(* The steps a request may be at while an administrator's lock is in force.  *)
LockedSteps == {"idle", "lock", "unlock", "revokeAll", "newPassword", "saveSecret", "saveCodes", "disableCache"}

AllRevoked == \A s \in DOMAIN sessions : sessions[s].revoked

(* As long as no two requests overlapped and no write failed, one request    *)
(* runs at a time; while the lock is in force it is one that cannot undo it, *)
(* the row is locked too (a restart reads it), and a session that is not yet *)
(* revoked is about to be.                                                   *)
Kept == /\ cache.locked /\ db.locked
        /\ \A w \in Workers : work[w].pc \in LockedSteps
        /\ AllRevoked \/ \E w \in Workers : work[w].pc = "revokeAll"

LockInv ==
  /\ \A w \in Workers : work[w].pc = "lock" => work[w].user.locked
  /\ ~disturbed => /\ \A v, w \in Busy : v = w
                   /\ locked => Kept

(* A step that leaves request w with r, when w ran alone, keeps LockInv if r *)
(* and the new accounts and sessions respect the lock.                       *)
LEMMA LockStep ==
  ASSUME AuthInv, LockInv, NEW w \in Workers, NEW r, work' = [work EXCEPT ![w] = r],
         r.pc = "lock" => r.user.locked,
         ~disturbed' => ~disturbed /\ (Busy = {} \/ w \in Busy),
         ~disturbed' /\ locked' => /\ cache'.locked /\ db'.locked /\ r.pc \in LockedSteps
                                   /\ AllRevoked' \/ r.pc = "revokeAll"
  PROVE  LockInv'
<1>1. work'[w] = r /\ \A v \in Workers : v # w => work'[v] = work[v]
  BY DEF AuthInv, WorkInv
<1>2. \A v \in Workers : work'[v].pc = "lock" => work'[v].user.locked
  BY <1>1 DEF LockInv
<1>3. ASSUME ~disturbed' PROVE \A v \in Workers : v # w => work'[v].pc = "idle"
  BY <1>1, <1>3 DEF LockInv, Busy
<1>4. ASSUME ~disturbed' PROVE \A u, v \in Busy' : u = v
  BY <1>3, <1>4 DEF Busy
<1>5. ASSUME ~disturbed', locked' PROVE Kept'
  <2>1. \A v \in Workers : work'[v].pc \in LockedSteps
    BY <1>1, <1>3, <1>5 DEF LockedSteps
  <2> QED BY <1>1, <1>5, <2>1 DEF Kept
<1> QED BY <1>2, <1>4, <1>5 DEF LockInv

(* What a request that runs alone finds while the lock is in force. *)
LEMMA LockedFacts ==
  ASSUME LockInv, ~disturbed, locked, NEW w \in Workers, Busy = {} \/ w \in Busy
  PROVE  /\ cache.locked /\ db.locked /\ work[w].pc \in LockedSteps
         /\ work[w].pc # "revokeAll" => AllRevoked
<1>1. Kept /\ \A u, v \in Busy : u = v
  BY DEF LockInv
<1>2. ASSUME NEW v \in Workers, work[v].pc = "revokeAll" PROVE v = w
  BY <1>1, <1>2 DEF Busy
<1> QED BY <1>1, <1>2 DEF Kept

(* The first step of every handler keeps the lock. *)
LEMMA LockRequests ==
  ASSUME AuthInv, LockInv, NEW w \in Workers, Request(w)
  PROVE  LockInv'
<1>0. cache \in Account /\ db \in Account
  BY DEF AuthInv, Safe
<1> DEFINE Fine(r) == /\ r.pc = "lock" => r.user.locked
                      /\ ~disturbed /\ Busy = {} /\ locked => r.pc \in LockedSteps
<1>a. ASSUME NEW r, Begin(w, r), Fine(r), locked' = locked, cache' = cache, db'.locked = db.locked,
             AllRevoked => AllRevoked'
      PROVE  LockInv'
  <2>1. work' = [work EXCEPT ![w] = r] /\ (~disturbed' => ~disturbed /\ Busy = {})
        /\ work[w].pc = "idle"
    BY <1>a, Zenon DEF Begin
  <2>2. ASSUME ~disturbed', locked' PROVE cache'.locked /\ db'.locked /\ r.pc \in LockedSteps /\ AllRevoked'
    BY <1>a, <2>1, <2>2, LockedFacts
  <2> QED BY <1>a, <2>1, <2>2, LockStep, Zenon
<1> DEFINE Only(r) == Begin(w, r) /\ UNCHANGED <<cache, db, codes, sessions, pending, secrets, locked>>
<1>b. ASSUME NEW r, Only(r), Fine(r) PROVE LockInv'
  BY <1>a, <1>b DEF AllRevoked
<1>i. Fine(Idle)
  BY DEF Idle, LockedSteps
<1>c. ASSUME ~disturbed, Busy = {}, locked PROVE cache.locked /\ AllRevoked
  <2>1. work[w].pc = "idle"
    BY <1>c DEF Busy
  <2> QED BY <1>c, <2>1, LockedFacts
<1>1. ASSUME NEW pass, NEW code, Login(w, pass, code) PROVE LockInv'
  <2> DEFINE r == [pc |-> LoginOutcome(cache, pass, code), user |-> cache]
  <2>1. r.pc # "lock" /\ (cache.locked => r.pc = "idle")
    BY DEF LoginOutcome
  <2>2. Fine(r)
    BY <1>c, <2>1 DEF LockedSteps
  <2> QED BY <1>1, <1>b, <2>2 DEF Login
<1>2. ASSUME LockUser(w) PROVE LockInv'
  <2>1. Fine([pc |-> "lock", user |-> [cache EXCEPT !.locked = TRUE]])
    BY <1>0 DEF LockedSteps, Account
  <2> QED BY <1>2, <1>b, <2>1 DEF LockUser
<1>3. ASSUME UnlockUser(w) PROVE LockInv'
  <2>1. Fine([pc |-> "unlock", user |-> UnlockedCopy(cache)])
    BY DEF LockedSteps
  <2> QED BY <1>3, <1>b, <2>1 DEF UnlockUser
<1>4. ASSUME LogoutAll(w) PROVE LockInv'
  <2>1. Fine([pc |-> "revokeAll"])
    BY DEF LockedSteps
  <2> QED BY <1>4, <1>b, <2>1 DEF LogoutAll
<1>5. ASSUME NEW old, ChangePassword(w, old) PROVE LockInv'
  <2>1. Fine([pc |-> "newPassword"])
    BY DEF LockedSteps
  <2> QED BY <1>5, <1>b, <1>i, <2>1 DEF ChangePassword
<1>6. ASSUME NEW s \in DOMAIN sessions, Logout(w, s) PROVE LockInv'
  <2>1. AllRevoked => AllRevoked'
    <3>1. Later(sessions, sessions') /\ DOMAIN sessions' = DOMAIN sessions
      BY <1>6, SessionChanges, Zenon DEF Logout, RevokeSession, AuthInv
    <3> QED BY <3>1 DEF AllRevoked, Later
  <2> QED BY <1>6, <1>a, <1>i, <2>1 DEF Logout
<1>7. ASSUME NEW s \in DOMAIN sessions, ValidateRequest(w, s) PROVE LockInv'
  <2> DEFINE r == IF Usable(s) THEN [pc |-> "touch", s |-> s] ELSE Idle
  <2>1. r.pc # "lock" /\ (AllRevoked => r.pc = "idle")
    BY DEF Usable, AllRevoked, Idle
  <2>2. Fine(r)
    BY <1>c, <2>1 DEF LockedSteps
  <2> QED BY <1>7, <1>b, <2>2 DEF ValidateRequest
<1>8. ASSUME NEW s \in DOMAIN sessions, NEW right \in BOOLEAN, RefreshTokens(w, s, right) PROVE LockInv'
  <2> DEFINE r == IF ~Usable(s) THEN Idle
                  ELSE [pc |-> IF right THEN "refreshUser" ELSE "revokeAll", s |-> s]
  <2>1. r.pc # "lock" /\ (AllRevoked => r.pc = "idle")
    BY DEF Usable, AllRevoked, Idle
  <2>2. Fine(r)
    BY <1>c, <2>1 DEF LockedSteps
  <2> QED BY <1>8, <1>b, <2>2 DEF RefreshTokens
<1>9. ASSUME BeginTOTPSetup(w) PROVE LockInv'
  BY <1>9, <1>a, <1>i DEF BeginTOTPSetup, AllRevoked
<1>10. ASSUME NEW code, ConfirmTOTPSetup(w, code) PROVE LockInv'
  <2>1. Fine([pc |-> "saveSecret", secret |-> code])
    BY DEF LockedSteps
  <2> QED BY <1>10, <1>b, <1>i, <2>1 DEF ConfirmTOTPSetup
<1>11. ASSUME NEW ok \in BOOLEAN, DisableTOTPSetup(w, ok) PROVE LockInv'
  <2>1. Fine([pc |-> "disableCache"])
    BY DEF LockedSteps
  <2>2. db'.locked = db.locked
    BY <1>0, <1>11 DEF DisableTOTPSetup, WithSecret, Account
  <2> QED BY <1>11, <1>a, <1>i, <2>1, <2>2 DEF DisableTOTPSetup, AllRevoked
<1> QED BY <1>1, <1>2, <1>3, <1>4, <1>5, <1>6, <1>7, <1>8, <1>9, <1>10, <1>11 DEF Request

(* The later steps keep the lock. *)
LEMMA LockStoreCalls ==
  ASSUME AuthInv, LockInv, NEW w \in Workers, StoreCall(w)
  PROVE  LockInv'
<1>0. cache \in Account /\ db \in Account /\ cache.locked \in BOOLEAN /\ db.locked \in BOOLEAN
      /\ sessions \in Seq(SessionRecord) /\ work = [v \in Workers |-> work[v]]
  BY DEF AuthInv, Safe, Account, WorkInv
<1>u. work[w].pc \in UserSteps => work[w].user \in Account
  BY DEF AuthInv, WorkInv, Carries
<1>c. \A v : [work[w] EXCEPT !.pc = v].pc = v
  BY DEF AuthInv, WorkInv, Carries
(* A request at a step the lock excludes, or at one that keeps the accounts. *)
<1> DEFINE Alone == (~disturbed' => ~disturbed) /\ w \in Busy
<1>a. ASSUME NEW pc, At(w, pc), pc # "idle", Undisturbed \/ \E ok : DBResult(ok)
      PROVE  Alone
  <2>1. w \in Busy
    BY <1>a DEF At, Busy
  <2>2. CASE Undisturbed
    BY <2>1, <2>2 DEF Undisturbed
  <2>3. ASSUME NEW ok, DBResult(ok) PROVE Alone
    BY <2>1, <2>3, Zenon DEF DBResult
  <2> QED BY <1>a, <2>2, <2>3
<1>x. ASSUME NEW pc, At(w, pc), pc \notin LockedSteps, Alone, locked' = locked,
             NEW r, work' = [work EXCEPT ![w] = r], r.pc # "lock"
      PROVE  LockInv'
  <2>1. ~(~disturbed /\ locked)
    BY <1>x, LockedFacts DEF At
  <2> QED BY <1>x, <2>1, LockStep, Zenon
<1>k. ASSUME NEW pc, At(w, pc), pc # "revokeAll", Alone, locked' = locked,
             ~disturbed' => cache'.locked = cache.locked /\ db'.locked = db.locked,
             sessions' = sessions,
             NEW r, work' = [work EXCEPT ![w] = r], r.pc \in LockedSteps \ {"lock"}
      PROVE  LockInv'
  <2>1. ASSUME ~disturbed', locked' PROVE cache'.locked /\ db'.locked /\ AllRevoked'
    BY <1>k, <2>1, LockedFacts DEF At, AllRevoked
  <2> QED BY <1>k, <2>1, LockStep, Zenon
<1>e. ASSUME End(w) PROVE work' = [work EXCEPT ![w] = Idle] /\ Idle.pc = "idle"
  BY <1>e DEF End, Idle
<1>g. ASSUME NEW v, GoTo(w, v)
      PROVE  work' = [work EXCEPT ![w] = [work[w] EXCEPT !.pc = v]]
  BY <1>0, <1>g DEF GoTo
<1> DEFINE Ended == work' = [work EXCEPT ![w] = Idle]
           Moved(v) == work' = [work EXCEPT ![w] = [work[w] EXCEPT !.pc = v]]
<1>d. Idle.pc = "idle"
  BY DEF Idle
<1>1. ASSUME RecordFailedLogin(w) PROVE LockInv'
  <2>1. At(w, "recordFailed") /\ Alone /\ locked' = locked
        /\ work' = [work EXCEPT ![w] = [pc |-> "recordFailedDB", user |-> FailedUser(cache)]]
    BY <1>1, <1>a DEF RecordFailedLogin
  <2>2. "recordFailed" \notin LockedSteps /\ [pc |-> "recordFailedDB", user |-> FailedUser(cache)].pc # "lock"
    BY DEF LockedSteps
  <2> QED BY <1>x, <2>1, <2>2, Zenon
<1>2. ASSUME ResetFailedLogin(w) PROVE LockInv'
  <2>1. At(w, "reset") /\ Alone /\ locked' = locked /\ Moved("resetDB")
    BY <1>2, <1>a, <1>g DEF ResetFailedLogin
  <2>2. "reset" \notin LockedSteps /\ "resetDB" # "lock"
    BY DEF LockedSteps
  <2> QED BY <1>c, <1>x, <2>1, <2>2, Zenon
<1>3. ASSUME RevokeAll(w) PROVE LockInv'
  <2>1. At(w, "revokeAll") /\ Alone /\ locked' = locked /\ cache' = cache /\ db' = db /\ Ended
    BY <1>3, <1>a, <1>e DEF RevokeAll
  <2>2. AllRevoked'
    <3>1. \A s \in DOMAIN sessions : sessions[s] \in SessionRecord
      BY <1>0, LenProperties, ElementOfSeq
    <3> QED BY <1>3, <3>1 DEF RevokeAll, RevokeAllUserSessions, AllRevoked, SessionRecord
  <2>3. ASSUME ~disturbed', locked' PROVE cache'.locked /\ db'.locked
    BY <2>1, <2>3, LockedFacts
  <2> QED BY <1>d, <2>1, <2>2, <2>3, LockStep, Zenon DEF LockedSteps
<1>4. ASSUME RefreshUser(w) PROVE LockInv'
  <2>1. At(w, "refreshUser") /\ Alone /\ locked' = locked /\ (Ended \/ Moved("rotate"))
    BY <1>4, <1>a, <1>e, <1>g DEF RefreshUser
  <2> QED BY <1>c, <1>d, <1>x, <2>1, Zenon DEF LockedSteps
<1>5. ASSUME TouchSession(w) PROVE LockInv'
  <2>1. At(w, "touch") /\ Alone /\ locked' = locked /\ Ended
    BY <1>5, <1>a, <1>e DEF TouchSession
  <2> QED BY <1>d, <1>x, <2>1, Zenon DEF LockedSteps
<1>6. ASSUME DisableCache(w) PROVE LockInv'
  <2>1. At(w, "disableCache") /\ Alone /\ locked' = locked /\ db' = db /\ sessions' = sessions
        /\ Moved("revokeAll")
    BY <1>6, <1>a, <1>g DEF DisableCache
  <2>2. cache'.locked = cache.locked
    BY <1>0, <1>6 DEF DisableCache, WithSecret, Account
  <2> QED BY <1>c, <1>k, <2>1, <2>2, Zenon DEF LockedSteps
<1>7. ASSUME NEW ok \in BOOLEAN, RecordFailedLoginDB(w, ok) PROVE LockInv'
  <2>1. At(w, "recordFailedDB") /\ Alone /\ locked' = locked /\ Ended
    BY <1>7, <1>a, <1>e DEF RecordFailedLoginDB
  <2> QED BY <1>d, <1>x, <2>1, Zenon DEF LockedSteps
<1>8. ASSUME NEW ok \in BOOLEAN, ResetFailedLoginDB(w, ok) PROVE LockInv'
  <2>1. At(w, "resetDB") /\ Alone /\ locked' = locked /\ Moved("loginSession")
    BY <1>8, <1>a, <1>g DEF ResetFailedLoginDB
  <2>2. "resetDB" \notin LockedSteps /\ "loginSession" # "lock"
    BY DEF LockedSteps
  <2> QED BY <1>c, <1>x, <2>1, <2>2, Zenon
<1>9. ASSUME NEW ok \in BOOLEAN, LoginSession(w, ok) PROVE LockInv'
  <2>1. At(w, "loginSession") /\ Alone /\ locked' = locked /\ (Ended \/ Moved("lastLogin"))
    BY <1>9, <1>a, <1>e, <1>g DEF LoginSession
  <2> QED BY <1>c, <1>d, <1>x, <2>1, Zenon DEF LockedSteps
<1>10. ASSUME NEW ok \in BOOLEAN, LastLogin(w, ok) PROVE LockInv'
  <2>1. At(w, "lastLogin") /\ Alone /\ locked' = locked /\ Ended
    BY <1>10, <1>a, <1>e DEF LastLogin
  <2> QED BY <1>d, <1>x, <2>1, Zenon DEF LockedSteps
<1>11. ASSUME NEW ok \in BOOLEAN, LockUserWrite(w, ok) PROVE LockInv'
  <2>1. At(w, "lock") /\ Alone /\ Moved("revokeAll") /\ (~disturbed' => ok)
    BY <1>11, <1>a, <1>g, Zenon DEF LockUserWrite, DBResult
  <2>2. work[w].user.locked /\ work[w].user \in Account
    BY <1>u, <2>1 DEF LockInv, At, UserSteps
  <2>3. ASSUME ~disturbed' PROVE cache'.locked /\ db'.locked
    BY <1>0, <1>11, <2>1, <2>2, <2>3, Zenon DEF LockUserWrite, UpdateUser, Account
  <2> QED BY <1>c, <2>1, <2>3, LockStep, Zenon DEF LockedSteps
<1>12. ASSUME NEW ok \in BOOLEAN, UnlockUserWrite(w, ok) PROVE LockInv'
  <2>1. At(w, "unlock") /\ Alone /\ Ended /\ (~disturbed' => ok)
    BY <1>12, <1>a, <1>e, Zenon DEF UnlockUserWrite, DBResult
  <2>2. ~disturbed' => ~locked'
    BY <1>12, <2>1, Zenon DEF UnlockUserWrite
  <2> QED BY <1>d, <2>1, <2>2, LockStep, Zenon
<1>13. ASSUME NEW ok \in BOOLEAN, UpdatePasswordHash(w, ok) PROVE LockInv'
  <2>1. At(w, "newPassword") /\ Alone /\ locked' = locked /\ sessions' = sessions
        /\ (Ended \/ Moved("revokeAll"))
    BY <1>13, <1>a, <1>e, <1>g DEF UpdatePasswordHash
  <2>2. cache'.locked = cache.locked /\ db'.locked = db.locked
    BY <1>0, <1>13 DEF UpdatePasswordHash, Account
  <2> QED BY <1>c, <1>d, <1>k, <2>1, <2>2, Zenon DEF LockedSteps
<1>14. ASSUME NEW ok \in BOOLEAN, RotateRevoke(w, ok) PROVE LockInv'
  <2>1. At(w, "rotate") /\ Alone /\ locked' = locked /\ (Ended \/ Moved("reissue"))
    BY <1>14, <1>a, <1>e, <1>g DEF RotateRevoke
  <2> QED BY <1>c, <1>d, <1>x, <2>1, Zenon DEF LockedSteps
<1>15. ASSUME NEW ok \in BOOLEAN, RotateReissue(w, ok) PROVE LockInv'
  <2>1. At(w, "reissue") /\ Alone /\ locked' = locked /\ Ended
    BY <1>15, <1>a, <1>e DEF RotateReissue
  <2> QED BY <1>d, <1>x, <2>1, Zenon DEF LockedSteps
<1>16. ASSUME NEW ok \in BOOLEAN, UpdateTOTPSecret(w, ok) PROVE LockInv'
  <2>1. At(w, "saveSecret") /\ Alone /\ locked' = locked /\ sessions' = sessions
        /\ (Ended \/ Moved("saveCodes"))
    BY <1>16, <1>a, <1>e, <1>g DEF UpdateTOTPSecret
  <2>2. cache'.locked = cache.locked /\ db'.locked = db.locked
    BY <1>0, <1>16, Zenon DEF UpdateTOTPSecret, WithSecret, Account
  <2> QED BY <1>c, <1>d, <1>k, <2>1, <2>2, Zenon DEF LockedSteps
<1>17. ASSUME NEW ok \in BOOLEAN, UpdateBackupCodes(w, ok) PROVE LockInv'
  <2>1. At(w, "saveCodes") /\ Alone /\ locked' = locked /\ sessions' = sessions
        /\ cache' = cache /\ db' = db /\ Ended
    BY <1>17, <1>a, <1>e DEF UpdateBackupCodes
  <2> QED BY <1>d, <1>k, <2>1, Zenon DEF LockedSteps
<1> QED BY <1>1, <1>2, <1>3, <1>4, <1>5, <1>6, <1>7, <1>8, <1>9, <1>10, <1>11, <1>12, <1>13, <1>14,
           <1>15, <1>16, <1>17 DEF StoreCall

(* An administrator's lock keeps the account locked and without sessions     *)
(* until it is unlocked, over logins, refreshes and restarts, as long as     *)
(* requests do not overlap and the database accepts its writes (LockUser,    *)
(* Login, RefreshTokens, loadCache).                                         *)
THEOREM LockIsKept ==
  ASSUME MaxFailed \in Nat \ {0}
  PROVE  AuthSpec => []LockHolds
<1>1. AuthInit => LockInv
  BY DEF AuthInit, LockInv, Idle, Busy
<1>2. AuthInv /\ LockInv /\ [AuthNext]_authVars => LockInv'
  <2> SUFFICES ASSUME AuthInv, LockInv, [AuthNext]_authVars PROVE LockInv'
    OBVIOUS
  <2>1. ASSUME NEW s \in DOMAIN sessions, SessionTimeout(s) PROVE LockInv'
    <3>1. Later(sessions, sessions') /\ DOMAIN sessions' = DOMAIN sessions
      BY <2>1, SessionChanges, Zenon DEF SessionTimeout, AuthInv
    <3>2. AllRevoked => AllRevoked'
      BY <3>1 DEF AllRevoked, Later
    <3> QED BY <2>1, <3>2 DEF SessionTimeout, LockInv, Kept, Busy
  <2>2. ASSUME Restart PROVE LockInv'
    <3>1. \A s \in DOMAIN sessions : sessions[s] \in SessionRecord
      BY LenProperties, ElementOfSeq DEF AuthInv
    <3>2. AllRevoked'
      BY <2>2, <3>1 DEF Restart, AllRevoked, SessionRecord
    <3>3. \A w \in Workers : work'[w].pc = "idle"
      BY <2>2 DEF Restart, Idle
    <3> QED BY <2>2, <3>2, <3>3 DEF Restart, LockInv, Kept, Busy, LockedSteps
  <2>3. CASE UNCHANGED authVars
    BY <2>3 DEF authVars, LockInv, Kept, AllRevoked, Busy
  <2> QED BY <2>1, <2>2, <2>3, LockRequests, LockStoreCalls DEF AuthNext
<1>3. LockInv => LockHolds
  BY DEF LockInv, Kept, AllRevoked, LockHolds, Busy
<1> QED BY <1>1, <1>2, <1>3, AuthInvariant, PTL DEF AuthSpec
=============================================================================
