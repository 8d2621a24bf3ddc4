---------------------------- MODULE AuthService ----------------------------
(***************************************************************************)
(* One account of the SOC backend: its row in SQLite (pkg/auth/store.go),  *)
(* the copy in the store's cache, its sessions, and the requests of        *)
(* pkg/auth/service.go and handlers.go that read and write them.  The      *)
(* store locks each of its own methods, so a request is a sequence of      *)
(* store calls and other requests run between them.  A request keeps the   *)
(* copy of the user that GetUserBy... returned (`user') and some of them   *)
(* write that copy back.                                                   *)
(*                                                                         *)
(* Passwords, TOTP secrets and refresh tokens are version numbers: a       *)
(* request presents the version it knows.  The audit rows, the tokens and  *)
(* the fields no request changes (role, active, names) are left out.       *)
(***************************************************************************)
EXTENDS Integers, Sequences, FiniteSets

CONSTANTS Workers,      \* HTTP requests being served at the same time
          MaxFailed,    \* maxFailedAttempts
          MaxSession,   \* bound: sessions created
          MaxRequests,  \* bound: requests served
          MaxVersion,   \* bound: password and TOTP secret versions
          DBResults     \* subset of BOOLEAN: may a database write fail?

VARIABLES cache,     \* Store.users[id]
          db,        \* the row in the users table
          codes,     \* version of the rows in backup_codes, 0: none
          sessions,  \* Store.sessions: session id -> record
          pending,   \* Service.pendingTOTP[id]: secret version, 0: none
          work,      \* the requests in flight
          served,    \* number of requests so far
          secrets,   \* TOTP secrets generated so far
          locked,    \* history: an administrator's lock is in force
          disturbed  \* history: requests overlapped or a database write failed

authVars == <<cache, db, codes, sessions, pending, work, served, secrets, locked, disturbed>>

User == [pass : 0..MaxVersion, locked : BOOLEAN, attempts : 0..(MaxFailed + Cardinality(Workers)),
         secret : 0..MaxVersion, enabled : BOOLEAN]

\* pass: password version the login was made with; chain: the login it stems
\* from (both history); stale: past inactivityTimeout or ExpiresAt.
Session == [revoked : BOOLEAN, stale : BOOLEAN, pass : 0..MaxVersion, chain : 1..MaxSession]

Idle == [pc |-> "idle"]
Busy == {w \in Workers : work[w].pc # "idle"}
NewUser == [pass |-> 0, locked |-> FALSE, attempts |-> 0, secret |-> 0, enabled |-> FALSE]

AuthInit ==
  /\ cache = NewUser /\ db = NewUser /\ codes = 0
  /\ sessions = <<>> /\ pending = 0 /\ secrets = 0
  /\ work = [w \in Workers |-> Idle]
  /\ served = 0 /\ locked = FALSE /\ disturbed = FALSE

----------------------------------------------------------------------------
(* Store methods: what one call changes.                                   *)

\* CreateSession: a new id; the cache entry appears with the row.
CreateSession(pass, chain) ==
  /\ Len(sessions) < MaxSession
  /\ sessions' = Append(sessions, [revoked |-> FALSE, stale |-> FALSE, pass |-> pass, chain |-> chain])

RevokeSession(s) == sessions' = [sessions EXCEPT ![s].revoked = TRUE]

RevokeAllUserSessions ==
  sessions' = [s \in DOMAIN sessions |-> [sessions[s] EXCEPT !.revoked = TRUE]]

\* UpdateUser writes the columns role, active, locked, failed_attempts,
\* totp_enabled (never the password or the secret) and then puts the caller's
\* whole copy in the cache.
UpdateUser(u, ok) ==
  IF ok THEN /\ db' = [db EXCEPT !.locked = u.locked, !.attempts = u.attempts,
                                 !.enabled = u.enabled]
             /\ cache' = u
        ELSE UNCHANGED <<db, cache>>


\* RecordFailedLogin and ResetFailedLogin change the cache under the lock and
\* write the row after releasing it, with the values read under the lock.
FailedUser(u) == LET n == u.attempts + 1
                 IN  [u EXCEPT !.attempts = n, !.locked = u.locked \/ n >= MaxFailed]
ResetUser(u) == [u EXCEPT !.attempts = 0]

\* GetSession's refusals: unknown, revoked, expired, inactive.
Usable(s) == ~sessions[s].revoked /\ ~sessions[s].stale

----------------------------------------------------------------------------
(* Requests.  Begin(w, r) starts one; Step(w, pc) is its next store call.  *)

Begin(w, r) ==
  /\ work[w].pc = "idle"
  /\ served < MaxRequests
  /\ served' = served + 1
  /\ work' = [work EXCEPT ![w] = r]
  /\ disturbed' = (disturbed \/ Busy # {})

At(w, pc) == work[w].pc = pc /\ UNCHANGED served
GoTo(w, pc) == work' = [work EXCEPT ![w].pc = pc]
End(w) == work' = [work EXCEPT ![w] = Idle]
DBResult(ok) == ok \in DBResults /\ disturbed' = (disturbed \/ ~ok)
Undisturbed == UNCHANGED disturbed

\* Login up to its first store call that writes: the copy of the user, the
\* account checks, the password and the TOTP code.
LoginOutcome(u, pass, code) ==
  CASE u.locked                         -> "idle"
    [] ~u.locked /\ pass # u.pass       -> "recordFailed"
    [] ~u.locked /\ pass = u.pass /\ u.enabled /\ code # u.secret -> "idle"
    [] OTHER                            -> "reset"

Login(w, pass, code) ==
  /\ Begin(w, [pc |-> LoginOutcome(cache, pass, code), user |-> cache])
  /\ UNCHANGED <<cache, db, codes, sessions, pending, secrets, locked>>

RecordFailedLogin(w) ==
  /\ At(w, "recordFailed")
  /\ cache' = FailedUser(cache)
  /\ work' = [work EXCEPT ![w] = [pc |-> "recordFailedDB", user |-> FailedUser(cache)]]
  /\ Undisturbed
  /\ UNCHANGED <<db, codes, sessions, pending, secrets, locked>>

RecordFailedLoginDB(w, ok) ==
  /\ At(w, "recordFailedDB") /\ DBResult(ok)
  /\ db' = IF ok THEN [db EXCEPT !.attempts = work[w].user.attempts,
                                 !.locked = work[w].user.locked] ELSE db
  /\ End(w)
  /\ UNCHANGED <<cache, codes, sessions, pending, secrets, locked>>

ResetFailedLogin(w) ==
  /\ At(w, "reset")
  /\ cache' = ResetUser(cache)
  /\ GoTo(w, "resetDB") /\ Undisturbed
  /\ UNCHANGED <<db, codes, sessions, pending, secrets, locked>>

ResetFailedLoginDB(w, ok) ==
  /\ At(w, "resetDB") /\ DBResult(ok)
  /\ db' = IF ok THEN ResetUser(db) ELSE db
  /\ GoTo(w, "loginSession")
  /\ UNCHANGED <<cache, codes, sessions, pending, secrets, locked>>

LoginSession(w, ok) ==
  /\ At(w, "loginSession") /\ DBResult(ok)
  /\ IF ok THEN /\ CreateSession(work[w].user.pass, Len(sessions) + 1)
                /\ GoTo(w, "lastLogin")
           ELSE UNCHANGED sessions /\ End(w)
  /\ UNCHANGED <<cache, db, codes, pending, secrets, locked>>

\* The last-login write-back of the copy the request started from.
LastLogin(w, ok) ==
  /\ At(w, "lastLogin") /\ DBResult(ok)
  /\ UpdateUser(work[w].user, ok)
  /\ End(w)
  /\ UNCHANGED <<codes, sessions, pending, secrets, locked>>

\* LockUser and UnlockUser: a modified copy, written back.
LockUser(w) ==
  /\ Begin(w, [pc |-> "lock", user |-> [cache EXCEPT !.locked = TRUE]])
  /\ UNCHANGED <<cache, db, codes, sessions, pending, secrets, locked>>

LockUserWrite_KeepsSessions(w, ok) ==
  /\ At(w, "lock") /\ DBResult(ok)
  /\ UpdateUser(work[w].user, ok)
  /\ locked' = (locked \/ ok)
  /\ End(w)
  /\ UNCHANGED <<codes, sessions, pending, secrets>>

LockUserWrite(w, ok) ==
  /\ At(w, "lock") /\ DBResult(ok)
  /\ UpdateUser(work[w].user, ok)
  /\ locked' = (locked \/ ok)
  /\ GoTo(w, "revokeAll")
  /\ UNCHANGED <<codes, sessions, pending, secrets>>

UnlockedCopy_KeepsAttempts(u) == [u EXCEPT !.locked = FALSE]

UnlockedCopy(u) == [u EXCEPT !.locked = FALSE, !.attempts = 0]

UnlockUser(w) ==
  /\ Begin(w, [pc |-> "unlock", user |-> UnlockedCopy(cache)])
  /\ UNCHANGED <<cache, db, codes, sessions, pending, secrets, locked>>

UnlockUserWrite(w, ok) ==
  /\ At(w, "unlock") /\ DBResult(ok)
  /\ UpdateUser(work[w].user, ok)
  /\ locked' = (locked /\ ~ok)
  /\ End(w)
  /\ UNCHANGED <<codes, sessions, pending, secrets>>

\* ChangePassword: the old password is verified against a copy.
ChangePassword(w, old) ==
  /\ Begin(w, IF old = cache.pass THEN [pc |-> "newPassword"] ELSE Idle)
  /\ UNCHANGED <<cache, db, codes, sessions, pending, secrets, locked>>

UpdatePasswordHash(w, ok) ==
  /\ At(w, "newPassword") /\ DBResult(ok)
  /\ cache.pass < MaxVersion
  /\ IF ok THEN /\ db' = [db EXCEPT !.pass = cache.pass + 1]
                /\ cache' = [cache EXCEPT !.pass = cache.pass + 1]
                /\ GoTo(w, "revokeAll")
           ELSE UNCHANGED <<db, cache>> /\ End(w)
  /\ UNCHANGED <<codes, sessions, pending, secrets, locked>>

\* RevokeAllUserSessions as the last call of LogoutAll, LockUser,
\* ChangePassword, DisableTOTPSetup and of a refresh with a wrong token.
RevokeAll(w) ==
  /\ At(w, "revokeAll")
  /\ RevokeAllUserSessions
  /\ End(w) /\ Undisturbed
  /\ UNCHANGED <<cache, db, codes, pending, secrets, locked>>

LogoutAll(w) ==
  /\ Begin(w, [pc |-> "revokeAll"])
  /\ UNCHANGED <<cache, db, codes, sessions, pending, secrets, locked>>

Logout(w, s) ==
  /\ Begin(w, Idle)
  /\ RevokeSession(s)
  /\ UNCHANGED <<cache, db, codes, pending, secrets, locked>>

\* RefreshTokens: GetSession, the token check, the user, then the rotation.
RefreshTokens(w, s, right) ==
  /\ Begin(w, IF ~Usable(s) THEN Idle
              ELSE [pc |-> IF right THEN "refreshUser" ELSE "revokeAll", s |-> s])
  /\ UNCHANGED <<cache, db, codes, sessions, pending, secrets, locked>>

RefreshUser(w) ==
  /\ At(w, "refreshUser") /\ Undisturbed
  /\ IF cache.locked THEN End(w) ELSE GoTo(w, "rotate")
  /\ UNCHANGED <<cache, db, codes, sessions, pending, secrets, locked>>

\* The cache entry is revoked even when the row is not.
RotateRevoke(w, ok) ==
  /\ At(w, "rotate") /\ DBResult(ok)
  /\ RevokeSession(work[w].s)
  /\ IF ok THEN GoTo(w, "reissue") ELSE End(w)
  /\ UNCHANGED <<cache, db, codes, pending, secrets, locked>>

RotateReissue(w, ok) ==
  /\ At(w, "reissue") /\ DBResult(ok)
  /\ IF ok THEN CreateSession(sessions[work[w].s].pass, sessions[work[w].s].chain)
           ELSE UNCHANGED sessions
  /\ End(w)
  /\ UNCHANGED <<cache, db, codes, pending, secrets, locked>>

\* ValidateRequest: GetSession, then TouchSession.
ValidateRequest(w, s) ==
  /\ Begin(w, IF Usable(s) THEN [pc |-> "touch", s |-> s] ELSE Idle)
  /\ UNCHANGED <<cache, db, codes, sessions, pending, secrets, locked>>

TouchSession_WritesCopy(w) ==
  /\ At(w, "touch") /\ Undisturbed
  /\ sessions' = [sessions EXCEPT ![work[w].s].stale = FALSE, ![work[w].s].revoked = FALSE]
  /\ End(w)
  /\ UNCHANGED <<cache, db, codes, pending, secrets, locked>>

TouchSession(w) ==
  /\ At(w, "touch") /\ Undisturbed
  /\ sessions' = [sessions EXCEPT ![work[w].s].stale = FALSE]
  /\ End(w)
  /\ UNCHANGED <<cache, db, codes, pending, secrets, locked>>

\* Enrolment: begin stashes a fresh secret, confirm reads it, then stores the
\* secret, stores the backup codes (a failure is only logged) and forgets the
\* stash, whichever secret it holds by then.
BeginTOTPSetup(w) ==
  /\ secrets < MaxVersion
  /\ secrets' = secrets + 1 /\ pending' = secrets + 1
  /\ Begin(w, Idle)
  /\ UNCHANGED <<cache, db, codes, sessions, locked>>

ConfirmTOTPSetup(w, code) ==
  /\ Begin(w, IF pending # 0 /\ code = pending THEN [pc |-> "saveSecret", secret |-> code] ELSE Idle)
  /\ UNCHANGED <<cache, db, codes, sessions, pending, secrets, locked>>

WithSecret(u, v) == [u EXCEPT !.secret = v, !.enabled = (v # 0)]

UpdateTOTPSecret(w, ok) ==
  /\ At(w, "saveSecret") /\ DBResult(ok)
  /\ IF ok THEN /\ db' = WithSecret(db, work[w].secret)
                /\ cache' = WithSecret(cache, work[w].secret)
                /\ GoTo(w, "saveCodes")
           ELSE UNCHANGED <<db, cache>> /\ End(w)
  /\ UNCHANGED <<codes, sessions, pending, secrets, locked>>

UpdateBackupCodes(w, ok) ==
  /\ At(w, "saveCodes") /\ DBResult(ok)
  /\ codes' = IF ok THEN work[w].secret ELSE codes
  /\ pending' = 0
  /\ End(w)
  /\ UNCHANGED <<cache, db, sessions, secrets, locked>>

\* DisableTOTPSetup: one transaction, then the cache, then the sessions.
DisableTOTPSetup(w, ok) ==
  /\ Begin(w, IF ok THEN [pc |-> "disableCache"] ELSE Idle)
  /\ ok \in DBResults
  /\ db' = IF ok THEN WithSecret(db, 0) ELSE db
  /\ codes' = IF ok THEN 0 ELSE codes
  /\ UNCHANGED <<cache, sessions, pending, secrets, locked>>

DisableCache(w) ==
  /\ At(w, "disableCache") /\ Undisturbed
  /\ cache' = WithSecret(cache, 0)
  /\ GoTo(w, "revokeAll")
  /\ UNCHANGED <<db, codes, sessions, pending, secrets, locked>>

\* A session passes its inactivity timeout or its expiry.
SessionTimeout(s) ==
  /\ ~sessions[s].stale
  /\ sessions' = [sessions EXCEPT ![s].stale = TRUE]
  /\ UNCHANGED <<cache, db, codes, pending, work, served, secrets, locked, disturbed>>

\* falx-soc stops anywhere and starts again: loadCache reads the users; the
\* sessions and the pending enrolments were only in memory, so every session
\* id from before is refused.
Restart ==
  /\ served < MaxRequests
  /\ cache' = db
  /\ sessions' = [s \in DOMAIN sessions |-> [sessions[s] EXCEPT !.revoked = TRUE]]
  /\ pending' = 0
  /\ work' = [w \in Workers |-> Idle]
  /\ served' = served + 1
  /\ UNCHANGED <<db, codes, secrets, locked, disturbed>>

Request(w) ==
  \/ \E pass \in 0..MaxVersion, code \in 0..MaxVersion : Login(w, pass, code)
  \/ LockUser(w) \/ UnlockUser(w) \/ LogoutAll(w)
  \/ \E old \in 0..MaxVersion : ChangePassword(w, old)
  \/ \E s \in DOMAIN sessions : \/ Logout(w, s) \/ ValidateRequest(w, s)
                                \/ \E right \in BOOLEAN : RefreshTokens(w, s, right)
  \/ BeginTOTPSetup(w)
  \/ \E code \in 1..MaxVersion : ConfirmTOTPSetup(w, code)
  \/ \E ok \in BOOLEAN : DisableTOTPSetup(w, ok)

StoreCall(w) ==
  \/ RecordFailedLogin(w) \/ ResetFailedLogin(w) \/ RevokeAll(w)
  \/ RefreshUser(w) \/ TouchSession(w) \/ DisableCache(w)
  \/ \E ok \in BOOLEAN :
       \/ RecordFailedLoginDB(w, ok) \/ ResetFailedLoginDB(w, ok)
       \/ LoginSession(w, ok) \/ LastLogin(w, ok)
       \/ LockUserWrite(w, ok) \/ UnlockUserWrite(w, ok) \/ UpdatePasswordHash(w, ok)
       \/ RotateRevoke(w, ok) \/ RotateReissue(w, ok)
       \/ UpdateTOTPSecret(w, ok) \/ UpdateBackupCodes(w, ok)

AuthNext ==
  \/ \E w \in Workers : Request(w) \/ StoreCall(w)
  \/ \E s \in DOMAIN sessions : SessionTimeout(s)
  \/ Restart

AuthSpec == AuthInit /\ [][AuthNext]_authVars


AuthTypeOK ==
  /\ cache \in User /\ db \in User
  /\ {codes, pending, secrets} \subseteq 0..MaxVersion
  /\ \A s \in DOMAIN sessions : sessions[s] \in Session
  /\ served \in 0..MaxRequests
  /\ locked \in BOOLEAN /\ disturbed \in BOOLEAN

\* Five failed logins lock the account, in the cache and in the row a restart
\* reads, however failed logins, successful ones, locks and unlocks interleave
\* and whichever database writes fail: no write-back of a stale copy and no
\* late row update can leave the counter at its limit on an unlocked account.
ThresholdLocks ==
  /\ cache.attempts >= MaxFailed => cache.locked
  /\ db.attempts >= MaxFailed => db.locked

\* Login checks the lock on a copy and counts the failure later, so requests
\* already past the check still count; but no more than the ones being served:
\* the counter passes its limit by less than the number of concurrent requests.
GuessesBounded == cache.attempts < MaxFailed + Cardinality(Workers)

\* A revoked session id is never usable again: TouchSession and the rotation
\* run after their check of the session, with other requests in between.
RevocationFinal ==
  [][\A s \in DOMAIN sessions : sessions[s].revoked => sessions'[s].revoked]_authVars

\* Requests that do not overlap leave cache and row equal, also when the
\* process stopped between the two writes of one of them.
CacheMatchesRow == (~disturbed /\ Busy = {}) => cache = db

\* An administrator's lock keeps the account locked and without sessions until
\* it is unlocked, over logins, refreshes and restarts (non-overlapping requests).
LockHolds ==
  (~disturbed /\ Busy = {} /\ locked) =>
     cache.locked /\ \A s \in DOMAIN sessions : sessions[s].revoked

\* No session opened with an earlier password survives a password change, also
\* across refreshes and restarts (non-overlapping requests).
PasswordChangeEndsSessions ==
  (~disturbed /\ Busy = {}) =>
     \A s \in DOMAIN sessions : ~sessions[s].revoked => sessions[s].pass = db.pass

\* Refresh tokens rotate: one login never has two usable sessions
\* (non-overlapping requests, failing writes and restarts included).
OneSessionPerLogin ==
  (~disturbed) => \A s, t \in DOMAIN sessions :
     (s # t /\ sessions[s].chain = sessions[t].chain) => sessions[s].revoked \/ sessions[t].revoked

\* What service.go:193 says: "Reset failed attempts on successful auth".
ResetSticks == [][\A w \in Workers : LastLogin(w, TRUE) => cache'.attempts = 0]_authVars

=============================================================================
