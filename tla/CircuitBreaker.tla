--------------------------- MODULE CircuitBreaker ---------------------------
(***************************************************************************)
(* The in-process circuit breaker (common/resilience/circuit-breaker.ts)   *)
(* with the concurrent callers that share it: the email worker's jobs and, *)
(* through RedisCircuitBreaker, every Redis command of a pod.  JavaScript  *)
(* runs exec up to `await task()` and onSuccess/onFailure without a break, *)
(* so each is one step; between them any other call may run.               *)
(***************************************************************************)
EXTENDS Integers

CONSTANTS
  Calls,             \* callers, each with at most one call in flight
  FailureThreshold,
  ResetTimeout       \* resetTimeoutMs, in clock ticks

ASSUME BreakerAssumption ==
  FailureThreshold \in Nat \ {0} /\ ResetTimeout \in Nat \ {0}

VARIABLES
  state,
  consecutiveFailures,  \* saturates at the threshold: only >= is asked of it
  openedFor,            \* now() - openedAt, saturating at ResetTimeout; Never for null
  call,                 \* per caller: idle, running (upstream), rejected
  quiet                 \* observation: ticks since a call last failed, saturating

vars == <<state, consecutiveFailures, openedFor, call, quiet>>

Never == -1

TypeOK ==
  /\ state \in {"closed", "open", "half-open"}
  /\ consecutiveFailures \in 0 .. FailureThreshold
  /\ openedFor \in {Never} \cup 0 .. ResetTimeout
  /\ call \in [Calls -> {"idle", "running", "rejected"}]
  /\ quiet \in 0 .. ResetTimeout

Init ==
  /\ state = "closed"
  /\ consecutiveFailures = 0
  /\ openedFor = Never
  /\ call = [c \in Calls |-> "idle"]
  /\ quiet = ResetTimeout

UpTo(limit, n) == IF n < limit THEN n ELSE limit

Elapsed == IF openedFor # Never THEN openedFor ELSE 0

FailsFast == state = "open" /\ Elapsed < ResetTimeout

(* Mutant: a short-circuited call counts as a failure and starts the
   cool-down again.                                                         *)
ExecRearms(c) ==
  /\ call[c] # "running"
  /\ IF FailsFast
       THEN /\ call' = [call EXCEPT ![c] = "rejected"]
            /\ openedFor' = 0
            /\ UNCHANGED state
       ELSE /\ call' = [call EXCEPT ![c] = "running"]
            /\ state' = IF state = "open" THEN "half-open" ELSE state
            /\ UNCHANGED openedFor
  /\ UNCHANGED <<consecutiveFailures, quiet>>

(* exec: refused with CircuitOpenError (the Redis wrapper then returns its
   fallback), or let through, the first one after the cool-down as a probe.  *)
Exec(c) ==
  /\ call[c] # "running"
  /\ IF FailsFast
       THEN /\ call' = [call EXCEPT ![c] = "rejected"]
            /\ UNCHANGED state
       ELSE /\ call' = [call EXCEPT ![c] = "running"]
            /\ state' = IF state = "open" THEN "half-open" ELSE state
  /\ UNCHANGED <<consecutiveFailures, openedFor, quiet>>

(* Mutant: the counter is not reset. *)
OnSuccessKeepsCount(c) ==
  /\ call[c] = "running"
  /\ call' = [call EXCEPT ![c] = "idle"]
  /\ state' = IF state = "half-open" THEN "closed" ELSE state
  /\ openedFor' = Never
  /\ UNCHANGED <<consecutiveFailures, quiet>>

OnSuccess(c) ==
  /\ call[c] = "running"
  /\ call' = [call EXCEPT ![c] = "idle"]
  /\ state' = IF state = "half-open" THEN "closed" ELSE state
  /\ consecutiveFailures' = 0
  /\ openedFor' = Never
  /\ UNCHANGED quiet

(* Mutant: the breaker trips one failure late. *)
OnFailureTripsLate(c) ==
  /\ call[c] = "running"
  /\ call' = [call EXCEPT ![c] = "idle"]
  /\ consecutiveFailures' = consecutiveFailures + 1
  /\ IF state = "half-open" \/ consecutiveFailures + 1 > FailureThreshold
       THEN state' = "open" /\ openedFor' = 0
       ELSE UNCHANGED <<state, openedFor>>
  /\ quiet' = 0

(* Mutant: a failure while half-open re-opens without a fresh cool-down. *)
OnFailureStaleCoolDown(c) ==
  LET failures == UpTo(FailureThreshold, consecutiveFailures + 1) IN
  /\ call[c] = "running"
  /\ call' = [call EXCEPT ![c] = "idle"]
  /\ consecutiveFailures' = failures
  /\ IF state = "half-open" \/ failures >= FailureThreshold
       THEN /\ state' = "open"
            /\ openedFor' = IF state = "half-open" THEN openedFor ELSE 0
       ELSE UNCHANGED <<state, openedFor>>
  /\ quiet' = 0

OnFailure(c) ==
  LET failures == UpTo(FailureThreshold, consecutiveFailures + 1) IN
  /\ call[c] = "running"
  /\ call' = [call EXCEPT ![c] = "idle"]
  /\ consecutiveFailures' = failures
  /\ IF state = "half-open" \/ failures >= FailureThreshold
       THEN state' = "open" /\ openedFor' = 0
       ELSE UNCHANGED <<state, openedFor>>
  /\ quiet' = 0

(* The clock the breaker reads. *)
Tick ==
  /\ openedFor' = IF openedFor = Never THEN Never ELSE UpTo(ResetTimeout, openedFor + 1)
  /\ quiet' = UpTo(ResetTimeout, quiet + 1)
  /\ UNCHANGED <<state, consecutiveFailures, call>>

(* The breaker lives in the process: a restart starts over. *)
Restart ==
  /\ state' = "closed"
  /\ consecutiveFailures' = 0
  /\ openedFor' = Never
  /\ call' = [c \in Calls |-> "idle"]
  /\ UNCHANGED quiet

Next ==
  \/ \E c \in Calls : Exec(c) \/ OnSuccess(c) \/ OnFailure(c)
  \/ Tick
  \/ Restart

Spec == Init /\ [][Next]_vars

(* Callers keep calling, every call settles (client time-outs, retries per
   request), time passes.  Restarts are not promised.                       *)
Fairness ==
  /\ \A c \in Calls : WF_vars(Exec(c)) /\ WF_vars(OnSuccess(c) \/ OnFailure(c))
  /\ WF_vars(Tick)

FairSpec == Spec /\ Fairness

-----------------------------------------------------------------------------
(* Properties.                                                             *)

(* The cool-down clock runs exactly while the failure streak is at the
   threshold: always when half-open, never when closed, in whatever order
   overlapping calls settle.                                                *)
CoolDownArmed ==
  /\ openedFor # Never <=> consecutiveFailures = FailureThreshold
  /\ state = "closed" => openedFor = Never
  /\ state = "half-open" => openedFor # Never

(* A call gets past an open breaker only when no call, not even one that was
   already in flight when it opened, has failed for a whole cool-down.       *)
ProbeAfterQuiet ==
  [][\A c \in Calls :
       state = "open" /\ call[c] # "running" /\ call'[c] = "running"
         => quiet >= ResetTimeout]_vars

(* An open breaker whose cool-down clock runs lets a probe through in the
   end: late failures restart the clock only finitely often.                *)
CoolDownEnds ==
  (state = "open" /\ openedFor # Never) ~> (state # "open" \/ openedFor = Never)

(* circuit-breaker.ts, resetTimeoutMs: "After the cool-down, one probe call
   is allowed through".                                                     *)
OpenAlwaysProbes == (state = "open") ~> (state # "open")
=============================================================================
