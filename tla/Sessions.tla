------------------------------ MODULE Sessions ------------------------------
(***************************************************************************)
(* The refresh sessions of one user (SessionService, AuthRefreshService,   *)
(* UserSessionRepository): logging in, refreshing, logging out and the two *)
(* clean-up jobs.  A login holds the user's advisory lock while it evicts  *)
(* the sessions above the limit; a refresh reads, decides and rotates in   *)
(* separate statements.  A refresh token is known by its jti, which is the *)
(* name of the call that issued it: the row keeps jti and hash of the same *)
(* token, so comparing hashes compares these names.                        *)
(*                                                                         *)
(* The in-process deny list is left out: it is a Map whose keys are object *)
(* literals, so a lookup with a fresh literal never finds an entry.        *)
(***************************************************************************)
EXTENDS Integers, FiniteSets

CONSTANTS
  Logins,      \* each creates at most one session, named after it
  Refreshes,
  DeviceOf,    \* browser and device type of a call's request, NoDevice if not sent
  MaxActive,   \* maxActiveSessionsPerUser
  Ttl,         \* refreshSessionTtlMs
  Grace,       \* refreshReuseGraceWindowMs
  Strict,      \* enforceDeviceBinding
  MaxTime      \* bound on the clock

NoDevice == "unknown"
Free     == "free"
Calls    == Logins \cup Refreshes

ASSUME SessionsAssumption ==
  /\ IsFiniteSet(Logins) /\ Logins \cap Refreshes = {}
  /\ Free \notin Calls /\ DOMAIN DeviceOf = Calls
  /\ MaxActive \in Nat \ {0} /\ Ttl \in Nat \ {0} /\ Grace \in Nat
  /\ Strict \in BOOLEAN /\ MaxTime \in Nat

VARIABLES
  now,
  row,      \* user_sessions: one row per login
  pc,       \* where a call is
  began,    \* the nowIso a call captured
  shown,    \* the refresh token a refresh presents
  found,    \* the record a refresh resolved: its id, jti and device
  evict,    \* the sessions a login selected to revoke
  lock,     \* holder of the user's advisory lock
  reused,   \* auth:refresh_reuse:<jti> in Redis
  revived   \* observation: sessions rotated after they had expired

vars == <<now, row, pc, began, shown, found, evict, lock, reused, revived>>

NoRow == [state |-> "none", jti |-> Free, expiresAt |-> 0, lastUsedAt |-> 0,
          createdAt |-> 0, device |-> NoDevice]

\* A row with revoked_at set, or deleted: nothing reads its other columns.
Gone == [NoRow EXCEPT !.state = "gone"]

NoRecord == [session |-> Free, jti |-> Free, device |-> NoDevice]

Unrevoked == {s \in Logins : row[s].state = "live"}

\* Neither revoked nor expired at time t.
ActiveAt(t) == {s \in Unrevoked : row[s].expiresAt > t}

Init ==
  /\ now = 0 /\ lock = Free /\ revived = {}
  /\ row = [s \in Logins |-> NoRow]
  /\ pc = [c \in Calls |-> "new"]
  /\ began = [c \in Calls |-> 0]
  /\ shown = [c \in Refreshes |-> Free]
  /\ found = [c \in Refreshes |-> NoRecord]
  /\ evict = [c \in Logins |-> {}]
  /\ reused = [t \in Calls |-> 0]

Tick ==
  /\ now < MaxTime
  /\ now' = now + 1
  /\ UNCHANGED <<row, pc, began, shown, found, evict, lock, reused, revived>>

Goto(c, from, to) == pc[c] = from /\ pc' = [pc EXCEPT ![c] = to]

\* What a call captured is not read once it has ended.
Ended(c) == /\ began' = [began EXCEPT ![c] = 0]
            /\ found' = [k \in Refreshes |-> IF k = c THEN NoRecord ELSE found[k]]
            /\ shown' = [k \in Refreshes |-> IF k = c THEN Free ELSE shown[k]]
            /\ evict' = [k \in Logins |-> IF k = c THEN {} ELSE evict[k]]

Revoke(S) == row' = [s \in Logins |-> IF s \in S \cap Unrevoked THEN Gone ELSE row[s]]

----------------------------------------------------------------------------
(* Logging in *)

\* The password was right and the tokens are issued; the transaction begins
\* and asks for the lock.  The defaults of the new row are the time of BEGIN.
createSession(c) ==
  /\ c \in Logins /\ Goto(c, "new", "waiting")
  /\ began' = [began EXCEPT ![c] = now]
  /\ UNCHANGED <<now, row, shown, found, evict, lock, reused, revived>>

\* The row this login inserts, visible to the others when it commits.
NewRow(c) == [state |-> "live", jti |-> c, expiresAt |-> began[c] + Ttl,
              lastUsedAt |-> began[c], createdAt |-> began[c], device |-> DeviceOf[c]]

\* s comes before r in the order by last_used_at, created_at.
Older(s, r) == \/ s.lastUsedAt < r.lastUsedAt
               \/ s.lastUsedAt = r.lastUsedAt /\ s.createdAt < r.createdAt

\* The first n of S in that order; ties are broken either way.
Oldest(S, n, tbl) ==
  {V \in SUBSET S : /\ Cardinality(V) = n
                    /\ \A v \in V, k \in S \ V : ~ Older(tbl[k], tbl[v])}

\* What a login selects to revoke: above the limit at the time it captured,
\* its own row included.
AboveLimit(c) ==
  LET tbl == [row EXCEPT ![c] = NewRow(c)]
      active == {s \in Logins : tbl[s].state = "live" /\ tbl[s].expiresAt > began[c]}
      above == Cardinality(active) - MaxActive
  IN  Oldest(active, IF above > 0 THEN above ELSE 0, tbl)

(* Mutant: the advisory lock is not taken. *)
SelectUnlocked(c) ==
  /\ c \in Logins /\ Goto(c, "waiting", "locked")
  /\ lock' = c
  /\ \E V \in AboveLimit(c) : evict' = [evict EXCEPT ![c] = V]
  /\ UNCHANGED <<now, row, began, shown, found, reused, revived>>

\* The lock is granted: insert, and select.
SelectAboveLimit(c) ==
  /\ c \in Logins /\ lock = Free /\ Goto(c, "waiting", "locked")
  /\ lock' = c
  /\ \E V \in AboveLimit(c) : evict' = [evict EXCEPT ![c] = V]
  /\ UNCHANGED <<now, row, began, shown, found, reused, revived>>

\* The selected rows are revoked by id, whatever became of them since; the
\* transaction commits and the lock is released.
createSessionWithActiveLimit(c) ==
  /\ c \in Logins /\ Goto(c, "locked", "done")
  /\ row' = [s \in Logins |-> IF s \in evict[c] THEN Gone
                              ELSE IF s = c THEN NewRow(c) ELSE row[s]]
  /\ lock' = Free
  /\ Ended(c) /\ UNCHANGED <<now, reused, revived>>

----------------------------------------------------------------------------
(* Refreshing *)

\* The client presents a token it was once given, current or not.
refreshToken(c) ==
  /\ c \in Refreshes /\ Goto(c, "new", "resolving")
  /\ \E t \in {k \in Calls : pc[k] = "done"} : shown' = [shown EXCEPT ![c] = t]
  /\ began' = [began EXCEPT ![c] = now]
  /\ UNCHANGED <<now, row, found, evict, lock, reused, revived>>

Resolved(c, s) ==
  found' = [found EXCEPT ![c] = [session |-> s, jti |-> row[s].jti, device |-> row[s].device]]

\* Attributes that one side lacks are not compared.
isSameSessionContext(s, c) ==
  row[s].device = DeviceOf[c] \/ NoDevice \in {row[s].device, DeviceOf[c]}

\* The latest active session and the moment it was last used decide whether
\* a token that no session has is a late repetition.
canUseRefreshReuseGraceWindow(s, c) ==
  began[c] - row[s].lastUsedAt <= Grace /\ isSameSessionContext(s, c)

getSessionByJtiAndUserId(c) ==
  /\ c \in Refreshes /\ pc[c] = "resolving"
  /\ LET S == {s \in ActiveAt(began[c]) : row[s].jti = shown[c]}
     IN  \/ \E s \in S : Resolved(c, s) /\ Goto(c, "resolving", "resolved")
         \/ S = {} /\ Goto(c, "resolving", "missed") /\ UNCHANGED found
  /\ UNCHANGED <<now, row, began, shown, evict, lock, reused, revived>>

findLatestActiveSessionByUserId(c) ==
  /\ c \in Refreshes /\ pc[c] = "missed"
  /\ LET S == ActiveAt(began[c])
         latest == {s \in S : \A r \in S : ~ Older(row[s], row[r])}
     IN  \/ \E s \in latest :
              /\ canUseRefreshReuseGraceWindow(s, c)
              /\ Resolved(c, s) /\ Goto(c, "missed", "resolved")
         \/ /\ S = {} \/ \E s \in latest : ~ canUseRefreshReuseGraceWindow(s, c)
            /\ Goto(c, "missed", "rejected") /\ UNCHANGED found
  /\ UNCHANGED <<now, row, began, shown, evict, lock, reused, revived>>

\* In strict mode the device the session was bound to must be the caller's.
evaluateSessionBinding(c) ==
  ~ Strict \/ found[c].device \in {NoDevice, DeviceOf[c]}

\* A late token: its counter is raised, and once is forgiven.  (The window was
\* checked on the same record, with the same time, when it was resolved.)
handleGraceWindowReuse(c) ==
  /\ reused' = [reused EXCEPT ![shown[c]] = @ + 1]
  /\ Goto(c, "resolved", IF reused[shown[c]] + 1 > 1 THEN "rejected"
                         ELSE IF evaluateSessionBinding(c) THEN "verified" ELSE "mismatch")

(* Mutant: the counter is raised whatever the hashes say. *)
VerifyByCounter(c) ==
  /\ c \in Refreshes /\ handleGraceWindowReuse(c)
  /\ UNCHANGED <<now, row, began, shown, found, evict, lock, revived>>

\* A session found by its jti has the hash of this token.  The binding is
\* evaluated at once; a mismatch refuses this call alone.
verifySessionIntegrity(c) ==
  /\ c \in Refreshes
  /\ \/ /\ found[c].jti = shown[c] /\ UNCHANGED reused
        /\ Goto(c, "resolved", IF evaluateSessionBinding(c) THEN "verified" ELSE "mismatch")
     \/ found[c].jti # shown[c] /\ handleGraceWindowReuse(c)
  /\ UNCHANGED <<now, row, began, shown, found, evict, lock, revived>>

\* The user is found and new tokens are issued; the row is rewritten by its
\* id, whether it has been rotated or has expired in between.  revoked_at
\* stays as it is.
rotateSessionWithLock(c) ==
  /\ c \in Refreshes /\ Goto(c, "verified", "done")
  /\ LET s == found[c].session
     IN  IF s \in Unrevoked
         THEN /\ row' = [row EXCEPT ![s] =
                          [state |-> "live", jti |-> c, expiresAt |-> now + Ttl, lastUsedAt |-> began[c],
                           createdAt |-> row[s].createdAt, device |-> DeviceOf[c]]]
              /\ revived' = IF s \in ActiveAt(now) THEN revived ELSE revived \cup {s}
         ELSE UNCHANGED <<row, revived>>
  /\ Ended(c) /\ UNCHANGED <<now, lock, reused>>

\* Reuse: every session of the user is revoked, and the call fails.
revokeAndReject(c) ==
  /\ c \in Refreshes /\ Goto(c, "rejected", "refused")
  /\ Revoke(Logins)
  /\ Ended(c) /\ UNCHANGED <<now, lock, reused, revived>>

\* A call fails: the binding, or on its way (the database or Redis, a user no
\* longer active, a restart); its transaction is rolled back, its lock freed.
Fail(c) ==
  /\ pc[c] \notin {"new", "done", "refused"}
  /\ pc' = [pc EXCEPT ![c] = "refused"]
  /\ lock' = IF lock = c THEN Free ELSE lock
  /\ Ended(c) /\ UNCHANGED <<now, row, reused, revived>>

----------------------------------------------------------------------------
(* Ending sessions *)

others == <<now, pc, began, shown, found, evict, lock, reused, revived>>

\* logoutAll.
revokeAllActiveSessions == Unrevoked # {} /\ Revoke(Logins) /\ UNCHANGED others

\* Resetting the password and deleting the account do it under the lock.
consumePasswordResetToken ==
  lock = Free /\ Unrevoked # {} /\ Revoke(Logins) /\ UNCHANGED others

\* Changing the password keeps the session it is called from.
changePasswordAndRevokeOtherSessions(s) ==
  lock = Free /\ Unrevoked \ {s} # {} /\ Revoke(Logins \ {s}) /\ UNCHANGED others

\* Revokes only when it first read another active session.
revokeOtherActiveSessionsAndReturnCount(s) ==
  ActiveAt(now) \ {s} # {} /\ Revoke(Logins \ {s}) /\ UNCHANGED others

\* One session of the list, read first and then revoked by its id.
revokeSessionById(s) == s \in ActiveAt(now) /\ Revoke({s}) /\ UNCHANGED others

\* logout with the token of a call, by jti or, if it does not verify, by hash.
revokeSessionByJti(t) ==
  LET S == {s \in Unrevoked : row[s].jti = t}
  IN  pc[t] = "done" /\ S # {} /\ Revoke(S) /\ UNCHANGED others

\* The hourly job.
revokeExpiredSessions ==
  LET S == {s \in Unrevoked : row[s].expiresAt < now}
  IN  S # {} /\ Revoke(S) /\ UNCHANGED others

\* The daily job deletes what has expired, and what was revoked.
handleSessionCleanup ==
  LET S == {s \in Unrevoked : row[s].expiresAt < now}
  IN  S # {} /\ Revoke(S) /\ UNCHANGED others

Next ==
  \/ Tick
  \/ \E c \in Calls :
       \/ createSession(c) \/ SelectAboveLimit(c) \/ createSessionWithActiveLimit(c)
       \/ refreshToken(c) \/ getSessionByJtiAndUserId(c)
       \/ findLatestActiveSessionByUserId(c) \/ verifySessionIntegrity(c)
       \/ rotateSessionWithLock(c) \/ revokeAndReject(c)
       \/ Fail(c) \/ revokeSessionByJti(c)
  \/ \E s \in Logins :
       \/ changePasswordAndRevokeOtherSessions(s)
       \/ revokeOtherActiveSessionsAndReturnCount(s)
       \/ revokeSessionById(s)
  \/ revokeAllActiveSessions \/ consumePasswordResetToken
  \/ revokeExpiredSessions \/ handleSessionCleanup

Spec == Init /\ [][Next]_vars

----------------------------------------------------------------------------
(* Properties *)

\* A user never has more than maxActiveSessionsPerUser active sessions,
\* however logins, refreshes and the jobs interleave, apart from sessions
\* that a refresh brought back after they had expired: the rotation writes
\* by id, so it extends a session no login counted any more.
LimitHolds == Cardinality(ActiveAt(now) \ revived) <= MaxActive

\* A refresh that logs the user out everywhere as token reuse did so for a
\* token no active session carries: from the lookup that missed it to the
\* revocation the token can not become current again.
ReuseIsReal ==
  \A c \in Refreshes : pc[c] = "rejected" =>
    \A s \in ActiveAt(now) : row[s].jti # shown[c]
=============================================================================
