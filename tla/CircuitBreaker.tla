--------------------------- MODULE CircuitBreaker ---------------------------
(***************************************************************************)
(* The circuit breaker in front of Paddle and of the mail server           *)
(* (src/src/common/utils/circuit-breaker.ts, fire).                        *)
(*                                                                         *)
(* fire is one synchronous step up to the await of fn and one synchronous  *)
(* step when fn settles; any number of callers are between the two.  A     *)
(* call that started during an outage may fail after the service is back,  *)
(* and one that started before it may still succeed.  A service that works *)
(* may refuse a call (Paddle answers 4xx); fire counts it like a failure.  *)
(*                                                                         *)
(* Date.now() - lastFailureTime >= resetTimeoutMs is the flag elapsed:     *)
(* a failure clears it, time sets it.                                      *)
(***************************************************************************)
EXTENDS Integers

CONSTANTS
  Callers,            \* concurrent calls of fire
  failureThreshold,
  MaxFailures         \* where the counter saturates; the code only compares
                      \* it with failureThreshold

ASSUME BreakerAssumption ==
  /\ failureThreshold \in Nat \ {0}
  /\ MaxFailures \in Nat /\ MaxFailures >= failureThreshold

VARIABLES
  state, failureCount, elapsed,
  fn,        \* fn[c]: the external call c waits for, and its outcome
  up         \* the external service works

bvars == <<state, failureCount, elapsed, fn, up>>

CircuitState == {"CLOSED", "OPEN", "HALF_OPEN"}

BInit ==
  /\ state = "CLOSED" /\ failureCount = 0
  /\ elapsed = TRUE          \* lastFailureTime = 0
  /\ fn = [c \in Callers |-> "idle"]
  /\ up = TRUE

-----------------------------------------------------------------------------

\* What comes of a call that starts now: only a service that works refuses.
Outcomes == IF up THEN {"succeeds", "refused"} ELSE {"fails"}

\* fire, up to the await.  The outcome of fn is settled by the service.
Fire(c) ==
  /\ fn[c] = "idle"
  /\ state = "OPEN" => elapsed
  /\ state' = IF state = "OPEN" THEN "HALF_OPEN" ELSE state
  /\ \E outcome \in Outcomes : fn' = [fn EXCEPT ![c] = outcome]
  /\ UNCHANGED <<failureCount, elapsed, up>>

\* fire while the circuit is open throws CircuitOpenError and changes nothing.
Reject(c) ==
  /\ fn[c] = "idle" /\ state = "OPEN" /\ ~elapsed
  /\ UNCHANGED bvars

\* Mutant of OnSuccess: a success leaves the circuit half open.
OnSuccessHalfOpen ==
  /\ UNCHANGED state
  /\ failureCount' = 0

OnSuccess ==
  /\ state' = IF state = "HALF_OPEN" THEN "CLOSED" ELSE state
  /\ failureCount' = 0

Succeed(c) ==
  /\ fn[c] = "succeeds"
  /\ OnSuccess
  /\ fn' = [fn EXCEPT ![c] = "idle"]
  /\ UNCHANGED <<elapsed, up>>

Counted == IF failureCount < MaxFailures THEN failureCount + 1 ELSE failureCount

\* Mutant of OnFailure: the counter starts over when it reaches the threshold
\* and the circuit stays closed.
OnFailureWraps ==
  /\ failureCount' = IF Counted >= failureThreshold THEN 0 ELSE Counted
  /\ elapsed' = FALSE
  /\ state' = IF state = "HALF_OPEN" THEN "OPEN" ELSE state

OnFailure ==
  /\ failureCount' = Counted
  /\ elapsed' = FALSE
  /\ state' = IF state = "HALF_OPEN" \/ Counted >= failureThreshold
              THEN "OPEN" ELSE state

Fail(c) ==
  /\ fn[c] \in {"fails", "refused"}
  /\ OnFailure
  /\ fn' = [fn EXCEPT ![c] = "idle"]
  /\ UNCHANGED up

\* resetTimeoutMs pass without another failure.
Elapse ==
  /\ ~elapsed /\ elapsed' = TRUE
  /\ UNCHANGED <<state, failureCount, fn, up>>

\* The service breaks down or comes back; what is in flight may still fail.
ServiceChanges ==
  /\ up' = ~up
  /\ \/ UNCHANGED fn
     \/ up /\ fn' = [c \in Callers |-> IF fn[c] = "succeeds" THEN "fails" ELSE fn[c]]
  /\ UNCHANGED <<state, failureCount, elapsed>>

Settle(c) == Succeed(c) \/ Fail(c)

BNext ==
  \/ \E c \in Callers : Fire(c) \/ Reject(c) \/ Settle(c)
  \/ Elapse \/ ServiceChanges

BSpec == BInit /\ [][BNext]_bvars

-----------------------------------------------------------------------------
(* Properties *)

\* A call is waiting for the refusal of a service that works.
Refusing == \E c \in Callers : fn[c] = "refused"

\* After the service has come back for good and refuses no more calls, the
\* circuit closes for good, the failures of calls that were still in flight
\* included.  Refusals that go on can keep it open.
RecoversWithService == <>[](up /\ ~Refusing) => <>[](state = "CLOSED")

\* During an outage that lasts, the circuit leaves CLOSED for good: late
\* successes of old calls cannot keep it closed.
TripsOnOutage == <>[]~up => <>[](state # "CLOSED")
=============================================================================
