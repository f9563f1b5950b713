--------------------------- MODULE SessionsProofs ---------------------------
(* The session limit and the soundness of reuse detection, for any number of *)
(* logins and refreshes, any limit, lifetime and grace window.               *)
EXTENDS Sessions, FiniteSetTheorems, TLAPS

Devices == {DeviceOf[c] : c \in Calls} \cup {NoDevice}
Jtis    == Calls \cup {Free}
Rows    == [state : {"none", "live", "gone"}, jti : Jtis, expiresAt : Nat,
            lastUsedAt : Nat, createdAt : Nat, device : Devices]

(* The types of the variables. *)
TypeInv ==
  /\ now \in Nat
  /\ row \in [Logins -> Rows]
  /\ pc \in [Calls -> {"new", "waiting", "locked", "resolving", "missed", "resolved",
                       "verified", "mismatch", "rejected", "done", "refused"}]
  /\ began \in [Calls -> Nat]
  /\ shown \in [Refreshes -> Jtis]
  /\ found \in [Refreshes -> [session : Logins \cup {Free}, jti : Jtis, device : Devices]]
  /\ evict \in [Logins -> SUBSET Logins]
  /\ lock \in Jtis
  /\ reused \in [Calls -> Nat]
  /\ revived \in SUBSET Logins

(* A call whose steps end it leaves well-typed captures behind. *)
LEMMA EndedType ==
  ASSUME TypeInv, NEW c \in Calls, Ended(c)
  PROVE  /\ began' \in [Calls -> Nat]
         /\ shown' \in [Refreshes -> Jtis]
         /\ found' \in [Refreshes -> [session : Logins \cup {Free}, jti : Jtis, device : Devices]]
         /\ evict' \in [Logins -> SUBSET Logins]
<1>1. NoRecord \in [session : Logins \cup {Free}, jti : Jtis, device : Devices]
  BY DEF NoRecord, Jtis, Devices
<1> QED BY <1>1 DEF Ended, TypeInv, Jtis

(* A revoked row is a row. *)
LEMMA RevokeType ==
  ASSUME TypeInv, NEW S, Revoke(S)
  PROVE  row' \in [Logins -> Rows]
BY DEF Revoke, TypeInv, Gone, NoRow, Rows, Jtis, Devices

(* A step of a call. *)
Step(c) ==
  \/ createSession(c) \/ SelectAboveLimit(c) \/ createSessionWithActiveLimit(c)
  \/ refreshToken(c) \/ getSessionByJtiAndUserId(c)
  \/ findLatestActiveSessionByUserId(c) \/ verifySessionIntegrity(c)
  \/ rotateSessionWithLock(c) \/ revokeAndReject(c) \/ Fail(c)

(* A step of the system is the clock's, a call's, or a revocation. *)
LEMMA NextSteps ==
  ASSUME Next
  PROVE  \/ Tick
         \/ \E c \in Calls : Step(c)
         \/ \E S \in SUBSET Logins : Revoke(S) /\ UNCHANGED others
BY DEF Next, Step, Unrevoked, revokeSessionByJti, changePasswordAndRevokeOtherSessions,
       revokeOtherActiveSessionsAndReturnCount, revokeSessionById, ActiveAt,
       revokeAllActiveSessions, consumePasswordResetToken,
       revokeExpiredSessions, handleSessionCleanup

(* Every step keeps the types. *)
LEMMA TypeStep == TypeInv /\ [Next]_vars => TypeInv'
<1> SUFFICES ASSUME TypeInv, [Next]_vars PROVE TypeInv'
  OBVIOUS
<1> USE SessionsAssumption
<1>1. CASE UNCHANGED vars
  BY <1>1 DEF vars, TypeInv
<1>2. CASE Tick
  BY <1>2 DEF Tick, TypeInv
<1>3. ASSUME NEW c \in Calls, createSession(c) PROVE TypeInv'
  BY <1>3 DEF createSession, Goto, TypeInv
<1>4. ASSUME NEW c \in Calls, SelectAboveLimit(c) PROVE TypeInv'
  <2>1. ASSUME NEW V \in AboveLimit(c) PROVE V \in SUBSET Logins
    BY <2>1 DEF AboveLimit, Oldest
  <2>2. evict' \in [Logins -> SUBSET Logins]
    BY <1>4, <2>1 DEF SelectAboveLimit, TypeInv
  <2> QED BY <1>4, <2>2 DEF SelectAboveLimit, Goto, TypeInv, Jtis
<1>5. ASSUME NEW c \in Calls, createSessionWithActiveLimit(c) PROVE TypeInv'
  <2>1. NewRow(c) \in Rows /\ Gone \in Rows
    BY <1>5 DEF NewRow, Rows, Gone, NoRow, Jtis, Devices, TypeInv
  <2>2. row' \in [Logins -> Rows]
    BY <1>5, <2>1 DEF createSessionWithActiveLimit, TypeInv
  <2> QED BY <1>5, <2>2, EndedType DEF createSessionWithActiveLimit, Goto, TypeInv, Jtis
<1>6. ASSUME NEW c \in Calls, refreshToken(c) PROVE TypeInv'
  BY <1>6 DEF refreshToken, Goto, TypeInv, Jtis
<1>7. ASSUME NEW c \in Calls, NEW s \in Logins, c \in Refreshes, Resolved(c, s)
      PROVE  found' \in [Refreshes -> [session : Logins \cup {Free}, jti : Jtis, device : Devices]]
  BY <1>7 DEF Resolved, TypeInv, Rows
<1>8. ASSUME NEW c \in Calls, getSessionByJtiAndUserId(c) PROVE TypeInv'
  <2>1. found' \in [Refreshes -> [session : Logins \cup {Free}, jti : Jtis, device : Devices]]
    BY <1>7, <1>8 DEF getSessionByJtiAndUserId, ActiveAt, Unrevoked, TypeInv
  <2> QED BY <1>8, <2>1 DEF getSessionByJtiAndUserId, Goto, TypeInv
<1>9. ASSUME NEW c \in Calls, findLatestActiveSessionByUserId(c) PROVE TypeInv'
  <2>1. found' \in [Refreshes -> [session : Logins \cup {Free}, jti : Jtis, device : Devices]]
    BY <1>7, <1>9 DEF findLatestActiveSessionByUserId, ActiveAt, Unrevoked, TypeInv
  <2> QED BY <1>9, <2>1 DEF findLatestActiveSessionByUserId, Goto, TypeInv
<1>10. ASSUME NEW c \in Calls, verifySessionIntegrity(c) PROVE TypeInv'
  BY <1>10 DEF verifySessionIntegrity, handleGraceWindowReuse, Goto, TypeInv
<1>11. ASSUME NEW c \in Calls, rotateSessionWithLock(c) PROVE TypeInv'
  <2>1. row' \in [Logins -> Rows] /\ revived' \in SUBSET Logins
    BY <1>11 DEF rotateSessionWithLock, Unrevoked, TypeInv, Rows, Jtis, Devices
  <2> QED BY <1>11, <2>1, EndedType DEF rotateSessionWithLock, Goto, TypeInv
<1>12. ASSUME NEW c \in Calls, revokeAndReject(c) PROVE TypeInv'
  BY <1>12, EndedType, RevokeType DEF revokeAndReject, Goto, TypeInv
<1>13. ASSUME NEW c \in Calls, Fail(c) PROVE TypeInv'
  BY <1>13, EndedType DEF Fail, TypeInv, Jtis
<1>14. ASSUME NEW S, Revoke(S), UNCHANGED others PROVE TypeInv'
  BY <1>14, RevokeType DEF others, TypeInv
<1> QED BY <1>1, <1>2, <1>3, <1>4, <1>5, <1>6, <1>8, <1>9, <1>10, <1>11, <1>12, <1>13, <1>14, NextSteps
        DEF Step

(* Sessions keep their types. *)
THEOREM SessionsTypeCorrect == Spec => []TypeInv
<1>1. Init => TypeInv
  BY SessionsAssumption DEF Init, TypeInv, NoRow, NoRecord, Rows, Jtis, Devices
<1> QED BY <1>1, TypeStep, PTL DEF Spec
-----------------------------------------------------------------------------
(* Detection of reuse.                                                       *)

(* A row that a step changes is revoked by it, or gets the token of a call that
   had not ended; and a call that has ended stays so. *)
TokensMove ==
  \A s \in Logins : \/ row'[s] = row[s]
                    \/ row'[s].state # "live"
                    \/ row'[s].jti \in Calls /\ pc[row'[s].jti] # "done"
DoneStays == \A c \in Calls : pc[c] = "done" => pc'[c] = "done"

(* A token presented by a refresh under way was issued. *)
ShownIsIssued ==
  \A c \in Refreshes :
    pc[c] \in {"resolving", "missed", "resolved", "verified", "mismatch", "rejected"} =>
      shown[c] \in Calls /\ pc[shown[c]] = "done"

(* From the lookup that missed it, no active session carries the token. *)
MissedIsStale ==
  \A c \in Refreshes :
    (pc[c] \in {"missed", "rejected"} \/ (pc[c] = "resolved" /\ found[c].jti # shown[c])) =>
      \A s \in ActiveAt(began[c]) : row[s].jti # shown[c]

(* A call's time is not in the future. *)
BeganBefore == \A c \in Calls : began[c] <= now

ReuseInv == ShownIsIssued /\ MissedIsStale /\ BeganBefore

LEMMA RevokeMovesTokens ==
  ASSUME TypeInv, NEW S, Revoke(S)
  PROVE  TokensMove
BY DEF Revoke, TypeInv, TokensMove, Gone, NoRow

(* Every step moves tokens in this way. *)
LEMMA TokensStep == TypeInv /\ Next => TokensMove /\ DoneStays
<1> SUFFICES ASSUME TypeInv, Next PROVE TokensMove /\ DoneStays
  OBVIOUS
<1>1. CASE Tick
  BY <1>1 DEF Tick, TokensMove, DoneStays
<1>2. ASSUME NEW c \in Calls,
             \/ createSession(c) \/ SelectAboveLimit(c) \/ refreshToken(c)
             \/ getSessionByJtiAndUserId(c) \/ findLatestActiveSessionByUserId(c)
             \/ verifySessionIntegrity(c) \/ Fail(c)
      PROVE  TokensMove /\ DoneStays
  BY <1>2 DEF createSession, SelectAboveLimit, refreshToken, getSessionByJtiAndUserId,
              findLatestActiveSessionByUserId, verifySessionIntegrity, handleGraceWindowReuse,
              Fail, Goto, TypeInv, TokensMove, DoneStays
<1>3. ASSUME NEW c \in Calls, createSessionWithActiveLimit(c) PROVE TokensMove /\ DoneStays
  BY <1>3 DEF createSessionWithActiveLimit, Goto, NewRow, Gone, NoRow, TypeInv, TokensMove, DoneStays
<1>4. ASSUME NEW c \in Calls, rotateSessionWithLock(c) PROVE TokensMove /\ DoneStays
  BY <1>4 DEF rotateSessionWithLock, Goto, Unrevoked, TypeInv, TokensMove, DoneStays
<1>5. ASSUME NEW c \in Calls, revokeAndReject(c) PROVE TokensMove /\ DoneStays
  BY <1>5, RevokeMovesTokens DEF revokeAndReject, Goto, TypeInv, DoneStays
<1>6. ASSUME NEW S, Revoke(S), UNCHANGED others PROVE TokensMove /\ DoneStays
  BY <1>6, RevokeMovesTokens DEF others, DoneStays
<1> QED BY <1>1, <1>2, <1>3, <1>4, <1>5, <1>6, NextSteps DEF Step

(* A call that a step leaves alone keeps what it knows. *)
Untouched(c) == /\ pc'[c] = pc[c] /\ began'[c] = began[c]
                /\ c \in Refreshes => shown'[c] = shown[c] /\ found'[c] = found[c]
                /\ c \in Logins => evict'[c] = evict[c]

(* A step of one call leaves the others alone. *)
LEMMA OthersUntouched ==
  ASSUME TypeInv, NEW d \in Calls, Step(d), NEW c \in Calls, c # d
  PROVE  Untouched(c)
<1>1. CASE \/ createSession(d) \/ SelectAboveLimit(d) \/ refreshToken(d)
           \/ getSessionByJtiAndUserId(d) \/ findLatestActiveSessionByUserId(d)
           \/ verifySessionIntegrity(d)
  BY <1>1 DEF createSession, SelectAboveLimit, refreshToken, getSessionByJtiAndUserId,
              findLatestActiveSessionByUserId, verifySessionIntegrity, handleGraceWindowReuse,
              Resolved, Goto, TypeInv, Untouched
<1>2. CASE \/ createSessionWithActiveLimit(d) \/ rotateSessionWithLock(d)
           \/ revokeAndReject(d) \/ Fail(d)
  BY <1>2 DEF createSessionWithActiveLimit, rotateSessionWithLock, revokeAndReject, Fail,
              Goto, Ended, TypeInv, Untouched
<1> QED BY <1>1, <1>2 DEF Step

(* A refresh that is left alone keeps its part of the invariant. *)
LEMMA StaleKept ==
  ASSUME TypeInv, TypeInv', ReuseInv, TokensMove, DoneStays, NEW c \in Refreshes, Untouched(c),
         now' >= now
  PROVE  /\ pc'[c] \in {"resolving", "missed", "resolved", "verified", "mismatch", "rejected"} =>
              shown'[c] \in Calls /\ pc'[shown'[c]] = "done"
         /\ (pc'[c] \in {"missed", "rejected"} \/ (pc'[c] = "resolved" /\ found'[c].jti # shown'[c])) =>
              \A s \in ActiveAt(began[c])' : row'[s].jti # shown'[c]
         /\ began'[c] <= now'
<1> USE DEF ReuseInv, ShownIsIssued, MissedIsStale, BeganBefore, Untouched, Calls
<1>1. pc'[c] \in {"resolving", "missed", "resolved", "verified", "mismatch", "rejected"} =>
        shown'[c] \in Calls /\ pc'[shown'[c]] = "done"
  BY DEF DoneStays
<1>2. ASSUME pc[c] \in {"missed", "rejected"} \/ (pc[c] = "resolved" /\ found[c].jti # shown[c]),
             NEW s \in ActiveAt(began[c])'
      PROVE  row'[s].jti # shown[c]
  <2>1. s \in Logins /\ row'[s].state = "live" /\ row'[s].expiresAt > began[c]
    BY <1>2 DEF ActiveAt, Unrevoked
  <2>2. CASE row'[s] = row[s]
    BY <1>2, <2>1, <2>2 DEF ActiveAt, Unrevoked
  <2>3. CASE row'[s].jti \in Calls /\ pc[row'[s].jti] # "done"
    BY <1>2, <2>3
  <2> QED BY <2>1, <2>2, <2>3 DEF TokensMove
<1>3. began'[c] <= now'
  BY DEF TypeInv
<1> QED BY <1>1, <1>2, <1>3

(* Every step keeps the invariant of reuse detection. *)
LEMMA ReuseStep == TypeInv /\ TypeInv' /\ ReuseInv /\ [Next]_vars => ReuseInv'
<1> SUFFICES ASSUME TypeInv, TypeInv', ReuseInv, [Next]_vars PROVE ReuseInv'
  OBVIOUS
<1>1. CASE UNCHANGED vars
  BY <1>1 DEF vars, ReuseInv, ShownIsIssued, MissedIsStale, BeganBefore, ActiveAt, Unrevoked
<1>2. CASE Next
  <2>1. TokensMove /\ DoneStays
    BY <1>2, TokensStep
  <2>2. now' \in Nat /\ now' >= now
    <3>1. CASE Tick
      BY <3>1 DEF Tick, TypeInv
    <3>2. ASSUME NEW c \in Calls, Step(c) PROVE now' = now
      BY <3>2 DEF Step, createSession, SelectAboveLimit, createSessionWithActiveLimit,
         refreshToken, getSessionByJtiAndUserId, findLatestActiveSessionByUserId,
         verifySessionIntegrity, rotateSessionWithLock, revokeAndReject, Fail
    <3>3. CASE UNCHANGED others
      BY <3>3 DEF others, TypeInv
    <3> QED BY <1>2, <3>1, <3>2, <3>3, NextSteps DEF TypeInv
  <2>3. CASE \A c \in Calls : Untouched(c)
    <3>1. \A c \in Calls : began'[c] <= now'
      BY <2>2, <2>3 DEF Untouched, ReuseInv, BeganBefore, TypeInv
    <3> QED BY <2>1, <2>2, <2>3, <3>1, StaleKept
            DEF ReuseInv, ShownIsIssued, MissedIsStale, BeganBefore, Calls
  <2>4. ASSUME NEW d \in Calls, Step(d) PROVE ReuseInv'
    <3>1. began'[d] <= now'
      BY <2>2, <2>4 DEF Step, createSession, SelectAboveLimit, createSessionWithActiveLimit,
         refreshToken, getSessionByJtiAndUserId, findLatestActiveSessionByUserId,
         verifySessionIntegrity, rotateSessionWithLock, revokeAndReject, Fail, Ended,
         TypeInv, ReuseInv, BeganBefore
    <3>2. BeganBefore'
      BY <2>2, <2>4, <3>1, OthersUntouched DEF Untouched, BeganBefore, ReuseInv, TypeInv
    <3>3. ASSUME d \in Refreshes,
                 pc'[d] \in {"resolving", "missed", "resolved", "verified", "mismatch", "rejected"}
          PROVE  shown'[d] \in Calls /\ pc'[shown'[d]] = "done"
      BY <2>1, <2>4, <3>3 DEF Step, createSession, SelectAboveLimit, createSessionWithActiveLimit,
         refreshToken, getSessionByJtiAndUserId, findLatestActiveSessionByUserId,
         verifySessionIntegrity, handleGraceWindowReuse, rotateSessionWithLock, revokeAndReject,
         Fail, Goto, TypeInv, ReuseInv, ShownIsIssued, DoneStays
    <3>4. ASSUME d \in Refreshes,
                 pc'[d] \in {"missed", "rejected"} \/ (pc'[d] = "resolved" /\ found'[d].jti # shown'[d])
          PROVE  \A s \in ActiveAt(began[d])' : row'[s].jti # shown'[d]
      <4>1. CASE getSessionByJtiAndUserId(d)
        BY <3>4, <4>1 DEF getSessionByJtiAndUserId, Resolved, Goto, ActiveAt, Unrevoked, TypeInv
      <4>2. CASE findLatestActiveSessionByUserId(d)
        BY <3>4, <4>2 DEF findLatestActiveSessionByUserId, ActiveAt, Unrevoked, TypeInv,
           ReuseInv, MissedIsStale
      <4>3. CASE verifySessionIntegrity(d)
        BY <3>4, <4>3 DEF verifySessionIntegrity, handleGraceWindowReuse, Goto, ActiveAt, Unrevoked,
           TypeInv, ReuseInv, MissedIsStale
      <4>4. CASE \/ createSession(d) \/ SelectAboveLimit(d) \/ createSessionWithActiveLimit(d)
                 \/ refreshToken(d) \/ rotateSessionWithLock(d) \/ revokeAndReject(d) \/ Fail(d)
        BY <3>4, <4>4 DEF createSession, SelectAboveLimit, createSessionWithActiveLimit,
           refreshToken, rotateSessionWithLock, revokeAndReject, Fail, Goto, TypeInv
      <4> QED BY <2>4, <4>1, <4>2, <4>3, <4>4 DEF Step
    <3> QED BY <2>1, <2>2, <2>4, <3>2, <3>3, <3>4, OthersUntouched, StaleKept
            DEF ReuseInv, ShownIsIssued, MissedIsStale, Calls
  <2>5. CASE Tick \/ UNCHANGED others
    BY <2>3, <2>5 DEF Tick, others, Untouched
  <2> QED BY <1>2, <2>4, <2>5, NextSteps
<1> QED BY <1>1, <1>2

(* Nobody is logged out everywhere for a token that is current: what
   resolveExistingSession missed, or found only through the grace window, no
   active session carries when revokeAndReject runs, for any interleaving of
   refreshes, logins and revocations. *)
THEOREM ReuseDetectedIsReal == Spec => []ReuseIsReal
<1>1. Init => TypeInv /\ ReuseInv
  <2>1. Init => TypeInv
    BY SessionsAssumption DEF Init, TypeInv, NoRow, NoRecord, Rows, Jtis, Devices
  <2>2. Init => ReuseInv
    BY DEF Init, ReuseInv, ShownIsIssued, MissedIsStale, BeganBefore, Calls
  <2> QED BY <2>1, <2>2
<1>2. TypeInv /\ ReuseInv /\ [Next]_vars => TypeInv' /\ ReuseInv'
  BY TypeStep, ReuseStep
<1>3. TypeInv /\ ReuseInv => ReuseIsReal
  BY DEF TypeInv, ReuseInv, MissedIsStale, BeganBefore, ReuseIsReal, ActiveAt, Unrevoked, Rows, Calls
<1> QED BY <1>1, <1>2, <1>3, PTL DEF Spec

-----------------------------------------------------------------------------
(* The session limit.                                                        *)

(* What will be active, of what a login counted, once it has committed. *)
Kept(c) == (ActiveAt(began[c]) \cup {c}) \ (evict[c] \cup revived)

(* A login that has selected holds the lock, and what it spares fits. *)
HolderFits ==
  \A c \in Logins : pc[c] = "locked" => lock = c /\ Cardinality(Kept(c)) <= MaxActive

LimitInv == HolderFits /\ BeganBefore /\ LimitHolds

(* A step that makes nothing active, of what had not expired by t. *)
Shrinks ==
  /\ revived \subseteq revived' /\ now' \in Nat /\ now' >= now
  /\ \A s \in Logins, t \in Nat :
       (t <= now /\ s \in ActiveAt(t)' /\ s \notin revived') => s \in ActiveAt(t)

(* A set within one that fits, fits. *)
LEMMA SmallerFits ==
  ASSUME NEW S \in SUBSET Logins, NEW T \in SUBSET S, Cardinality(S) <= MaxActive
  PROVE  Cardinality(T) <= MaxActive
<1>1. IsFiniteSet(S)
  BY SessionsAssumption, FS_Subset
<1>2. Cardinality(T) <= Cardinality(S) /\ Cardinality(S) \in Nat /\ Cardinality(T) \in Nat
  BY <1>1, FS_Subset, FS_CardinalityType
<1> QED BY <1>2, SessionsAssumption

(* Only the commit of a login makes a session active. *)
LEMMA ShrinkSteps ==
  ASSUME TypeInv, Next, \A c \in Calls : ~ createSessionWithActiveLimit(c)
  PROVE  Shrinks
<1> USE DEF TypeInv, Shrinks, ActiveAt, Unrevoked
<1>1. CASE Tick
  BY <1>1 DEF Tick
<1>2. ASSUME NEW c \in Calls,
             \/ createSession(c) \/ SelectAboveLimit(c) \/ refreshToken(c)
             \/ getSessionByJtiAndUserId(c) \/ findLatestActiveSessionByUserId(c)
             \/ verifySessionIntegrity(c) \/ Fail(c)
      PROVE  UNCHANGED <<row, revived, now>>
  BY <1>2 DEF createSession, SelectAboveLimit, refreshToken, getSessionByJtiAndUserId,
              findLatestActiveSessionByUserId, verifySessionIntegrity, Fail
<1>3. ASSUME UNCHANGED <<row, revived, now>> PROVE Shrinks
  BY <1>3
<1>4. ASSUME NEW c \in Calls, rotateSessionWithLock(c) PROVE Shrinks
  <2>1. now' = now /\ now \in Nat /\ revived \subseteq revived'
    BY <1>4 DEF rotateSessionWithLock
  <2>2. ASSUME NEW s \in Logins, row'[s] # row[s], s \notin revived'
        PROVE  row[s].state = "live" /\ row[s].expiresAt > now
    BY <1>4, <2>2 DEF rotateSessionWithLock
  <2>3. \A s \in Logins : row[s].expiresAt \in Nat
    BY DEF Rows
  <2> QED BY <2>1, <2>2, <2>3
<1>5. ASSUME NEW S, Revoke(S), UNCHANGED <<revived, now>> PROVE Shrinks
  BY <1>5 DEF Revoke, Gone, NoRow
<1> QED BY <1>1, <1>2, <1>3, <1>4, <1>5, NextSteps DEF Step, revokeAndReject, others

(* What a login selects leaves no more than the limit. *)
LEMMA SelectionFits ==
  ASSUME TypeInv, NEW c \in Logins, NEW V \in AboveLimit(c)
  PROVE  Cardinality((ActiveAt(began[c]) \cup {c}) \ (V \cup revived)) <= MaxActive
<1> DEFINE A == ActiveAt(began[c]) \cup {c}
<1> DEFINE tbl == [row EXCEPT ![c] = NewRow(c)]
<1>1. A = {s \in Logins : tbl[s].state = "live" /\ tbl[s].expiresAt > began[c]}
  BY SessionsAssumption DEF ActiveAt, Unrevoked, NewRow, TypeInv, Calls
<1>2. /\ V \in SUBSET A
      /\ Cardinality(V) = IF Cardinality(A) - MaxActive > 0 THEN Cardinality(A) - MaxActive ELSE 0
  BY <1>1 DEF AboveLimit, Oldest
<1> HIDE DEF A
<1>3. A \in SUBSET Logins
  BY <1>1
<1>4. IsFiniteSet(A) /\ IsFiniteSet(V)
  BY <1>2, <1>3, SessionsAssumption, FS_Subset
<1>5. Cardinality(A) \in Nat /\ Cardinality(A \ V) = Cardinality(A) - Cardinality(A \cap V)
  BY <1>4, FS_Difference, FS_CardinalityType
<1>6. A \cap V = V
  BY <1>2
<1>7. Cardinality(A \ V) <= MaxActive
  <2>1. Cardinality(A \ V) = Cardinality(A) - Cardinality(V)
    BY <1>5, <1>6
  <2> DEFINE a == Cardinality(A)
  <2> DEFINE v == Cardinality(V)
  <2>2. a \in Nat /\ MaxActive \in Nat /\ v = IF a - MaxActive > 0 THEN a - MaxActive ELSE 0
    BY <1>2, <1>5, SessionsAssumption
  <2> HIDE DEF a, v
  <2>3. a - v <= MaxActive
    BY <2>2
  <2> QED BY <2>1, <2>3 DEF a, v
<1>8. A \ V \in SUBSET Logins /\ A \ (V \cup revived) \in SUBSET (A \ V)
  BY <1>3
<1>9. Cardinality(A \ (V \cup revived)) <= MaxActive
  BY <1>7, <1>8, SmallerFits
<1> QED BY <1>9 DEF A

(* A login that was locked and is left alone still fits. *)
LEMMA HolderKept ==
  ASSUME TypeInv, TypeInv', HolderFits, BeganBefore, Shrinks,
         NEW c \in Logins, Untouched(c), pc[c] = "locked"
  PROVE  Cardinality(Kept(c)') <= MaxActive
<1>1. Cardinality(Kept(c)) <= MaxActive
  BY DEF HolderFits
<1>2. Kept(c) \in SUBSET Logins
  BY DEF Kept, ActiveAt, Unrevoked
<1>3. began'[c] = began[c] /\ evict'[c] = evict[c] /\ began[c] \in Nat /\ began[c] <= now
  BY DEF Untouched, BeganBefore, TypeInv, Calls
<1>4. ActiveAt(began[c])' = {s \in Logins : row'[s].state = "live" /\ row'[s].expiresAt > began'[c]}
  BY DEF ActiveAt, Unrevoked
<1>5. \A s \in Logins : s \in ActiveAt(began[c])' /\ s \notin revived' => s \in ActiveAt(began[c])
  BY <1>3, <1>4 DEF Shrinks, ActiveAt, Unrevoked
<1>6. Kept(c)' \in SUBSET Kept(c)
  BY <1>3, <1>4, <1>5 DEF Kept, Shrinks
<1> QED BY <1>1, <1>2, <1>6, SmallerFits

(* Every step keeps the limit. *)
LEMMA LimitStep ==
  TypeInv /\ TypeInv' /\ BeganBefore' /\ LimitInv /\ [Next]_vars => LimitInv'
<1> SUFFICES ASSUME TypeInv, TypeInv', BeganBefore', LimitInv, [Next]_vars PROVE LimitInv'
  OBVIOUS
<1> USE DEF LimitInv
<1>1. CASE UNCHANGED vars
  BY <1>1 DEF vars, HolderFits, Kept, BeganBefore, LimitHolds, ActiveAt, Unrevoked
<1>2. ASSUME NEW d \in Calls, createSessionWithActiveLimit(d) PROVE LimitInv'
  <2>1. d \in Logins /\ pc[d] = "locked" /\ now' = now /\ revived' = revived
    BY <1>2 DEF createSessionWithActiveLimit, Goto
  <2>2. Kept(d) \in SUBSET Logins /\ Cardinality(Kept(d)) <= MaxActive /\ lock = d
    BY <2>1 DEF Kept, ActiveAt, Unrevoked, HolderFits
  <2>3. began[d] \in Nat /\ began[d] <= now /\ now \in Nat
    BY DEF BeganBefore, TypeInv
  <2>4. ASSUME NEW s \in ActiveAt(now)' PROVE s \in Kept(d) \cup revived
    <3>1. s \in Logins /\ row'[s].state = "live" /\ row'[s].expiresAt > now
      BY <2>1, <2>4 DEF ActiveAt, Unrevoked
    <3>2. s \notin evict[d] /\ (s = d \/ row'[s] = row[s])
      BY <1>2, <3>1 DEF createSessionWithActiveLimit, Gone, NoRow
    <3>3. row[s].expiresAt \in Nat
      BY <3>1 DEF TypeInv, Rows
    <3> QED BY <2>3, <3>1, <3>2, <3>3 DEF Kept, ActiveAt, Unrevoked
  <2>5. (ActiveAt(now)' \ revived') \in SUBSET Kept(d)
    BY <2>1, <2>4
  <2>6. LimitHolds'
    BY <2>2, <2>5, SmallerFits DEF LimitHolds
  <2>7. \A c \in Logins : pc'[c] # "locked"
    BY <1>2, <2>2 DEF createSessionWithActiveLimit, Goto, HolderFits, TypeInv, Calls
  <2> QED BY <2>6, <2>7 DEF HolderFits
<1>3. CASE Next /\ \A c \in Calls : ~ createSessionWithActiveLimit(c)
  <2>1. Shrinks
    BY <1>3, ShrinkSteps
  <2>2. LimitHolds'
    <3>1. ActiveAt(now) \ revived \in SUBSET Logins
      BY DEF ActiveAt, Unrevoked
    <3>2. ASSUME NEW s \in ActiveAt(now)', s \notin revived'
          PROVE  s \in ActiveAt(now) \ revived
      <4>1. s \in Logins /\ row'[s].state = "live" /\ row'[s].expiresAt > now'
        BY <3>2 DEF ActiveAt, Unrevoked
      <4>2. row'[s].expiresAt \in Nat /\ now \in Nat
        BY <4>1 DEF TypeInv, Rows
      <4>3. row'[s].expiresAt > now /\ now <= now
        BY <2>1, <4>1, <4>2 DEF Shrinks
      <4> QED BY <2>1, <3>2, <4>1, <4>2, <4>3 DEF Shrinks, ActiveAt, Unrevoked
    <3>3. (ActiveAt(now)' \ revived') \in SUBSET (ActiveAt(now) \ revived)
      BY <3>2
    <3> QED BY <3>1, <3>3, SmallerFits DEF LimitHolds
  <2>3. ASSUME NEW c \in Logins, Untouched(c), lock = c => lock' = c, pc'[c] = "locked"
        PROVE  lock' = c /\ Cardinality(Kept(c)') <= MaxActive
    <3>1. pc[c] = "locked" /\ lock = c
      BY <2>3 DEF Untouched, HolderFits
    <3> QED BY <2>1, <2>3, <3>1, HolderKept
  <2>4. CASE Tick \/ UNCHANGED others
    <3>1. \A c \in Logins : Untouched(c) /\ lock' = lock
      BY <2>4 DEF Tick, others, Untouched
    <3> QED BY <2>2, <2>3, <3>1 DEF HolderFits
  <2>5. ASSUME NEW d \in Calls, Step(d) PROVE LimitInv'
    <3>1. ASSUME NEW c \in Logins, c # d, lock = c PROVE lock' = c
      BY <1>3, <2>5, <3>1, SessionsAssumption
         DEF Step, Calls, createSession, SelectAboveLimit, refreshToken, getSessionByJtiAndUserId,
             findLatestActiveSessionByUserId, verifySessionIntegrity, rotateSessionWithLock,
             revokeAndReject, Fail
    <3>2. ASSUME NEW c \in Logins, c # d, pc'[c] = "locked"
          PROVE  lock' = c /\ Cardinality(Kept(c)') <= MaxActive
      BY <2>3, <2>5, <3>1, <3>2, OthersUntouched DEF Calls
    <3>3. ASSUME d \in Logins, pc'[d] = "locked"
          PROVE  lock' = d /\ Cardinality(Kept(d)') <= MaxActive
      <4>1. SelectAboveLimit(d)
        BY <1>3, <2>5, <3>3, SessionsAssumption
           DEF Step, createSession, Goto, Fail, refreshToken, getSessionByJtiAndUserId,
               findLatestActiveSessionByUserId, verifySessionIntegrity, rotateSessionWithLock,
               revokeAndReject, TypeInv
      <4>2. PICK V \in AboveLimit(d) : evict' = [evict EXCEPT ![d] = V]
        BY <4>1 DEF SelectAboveLimit
      <4>3. Kept(d)' = (ActiveAt(began[d]) \cup {d}) \ (V \cup revived)
        BY <3>3, <4>1, <4>2 DEF SelectAboveLimit, Kept, ActiveAt, Unrevoked, TypeInv
      <4>4. Cardinality((ActiveAt(began[d]) \cup {d}) \ (V \cup revived)) <= MaxActive
        BY <3>3, SelectionFits
      <4> QED BY <4>1, <4>3, <4>4 DEF SelectAboveLimit
    <3> QED BY <2>2, <3>2, <3>3 DEF HolderFits
  <2> QED BY <1>3, <2>4, <2>5, NextSteps
<1> QED BY <1>1, <1>2, <1>3

(* The session limit holds for every number of logins and refreshes under way
   at once: the advisory lock makes counting, evicting and inserting one step
   of the logins, and nothing else makes a session active but a rotation, which
   finds it active or is told apart by revived. *)
THEOREM SessionLimit == Spec => []LimitHolds
<1>1. Init => TypeInv /\ ReuseInv /\ LimitInv
  <2>1. Init => TypeInv
    BY SessionsAssumption DEF Init, TypeInv, NoRow, NoRecord, Rows, Jtis, Devices
  <2>2. Init => ReuseInv
    BY DEF Init, ReuseInv, ShownIsIssued, MissedIsStale, BeganBefore, Calls
  <2>3. ASSUME Init PROVE ActiveAt(now) \ revived = {} /\ HolderFits /\ BeganBefore
    BY <2>3 DEF Init, ActiveAt, Unrevoked, NoRow, HolderFits, BeganBefore, Calls
  <2>4. Cardinality({}) = 0 /\ 0 <= MaxActive
    BY FS_EmptySet, SessionsAssumption
  <2> QED BY <2>1, <2>2, <2>3, <2>4 DEF LimitInv, LimitHolds
<1>2. TypeInv /\ ReuseInv /\ LimitInv /\ [Next]_vars => TypeInv' /\ ReuseInv' /\ LimitInv'
  BY TypeStep, ReuseStep, LimitStep DEF ReuseInv
<1>3. LimitInv => LimitHolds
  BY DEF LimitInv
<1> QED BY <1>1, <1>2, <1>3, PTL DEF Spec
=============================================================================
