--------------------------- MODULE CircuitBreaker ---------------------------
(***************************************************************************)
(* The circuit breaker around the bank                                     *)
(* (internal/infrastructure/circuitbreaker).  Call takes the mutex to      *)
(* decide whether the call may go ahead, releases it while fn runs, and    *)
(* takes it again to record the outcome: two actions, with other callers   *)
(* in between.  A call that is turned away with ErrCircuitOpen changes     *)
(* nothing.                                                                *)
(***************************************************************************)
EXTENDS Naturals, FiniteSets, FiniteSetsExt

CONSTANTS
  Callers,       \* goroutines that share the breaker
  maxFailures,
  resetTimeout   \* in ticks

ASSUME BreakerAssumption ==
  /\ maxFailures \in Nat \ {0}
  /\ resetTimeout \in Nat

VARIABLES
  state,
  consecutiveFails,
  sinceOpened,  \* time since openedAt, up to resetTimeout
  caller,       \* caller -> idle, or in fn, let in by a closed breaker or not
  failing       \* history: failed calls since the last success, up to maxFailures

breakerVars == <<state, consecutiveFails, sinceOpened, caller, failing>>

\* New.  The zero openedAt is long ago.
BreakerInit ==
  /\ state = "CLOSED"
  /\ consecutiveFails = 0
  /\ sinceOpened = resetTimeout
  /\ caller = [c \in Callers |-> "idle"]
  /\ failing = 0

\* Mutant: an open breaker lets calls through without waiting.
EnterAtOnce(c) ==
  /\ caller[c] = "idle"
  /\ state' = IF state = "OPEN" THEN "HALF_OPEN" ELSE state
  /\ caller' = [caller EXCEPT ![c] = IF state = "CLOSED" THEN "calling" ELSE "probing"]
  /\ UNCHANGED <<consecutiveFails, sinceOpened, failing>>

\* Mutant: the breaker stays OPEN while it lets a probe through.
EnterStaysOpen(c) ==
  /\ caller[c] = "idle"
  /\ state = "OPEN" => sinceOpened >= resetTimeout
  /\ caller' = [caller EXCEPT ![c] = IF state = "CLOSED" THEN "calling" ELSE "probing"]
  /\ UNCHANGED <<state, consecutiveFails, sinceOpened, failing>>

\* Call, up to fn.
Enter(c) ==
  /\ caller[c] = "idle"
  /\ state = "OPEN" => sinceOpened >= resetTimeout
  /\ state' = IF state = "OPEN" THEN "HALF_OPEN" ELSE state
  /\ caller' = [caller EXCEPT ![c] = IF state = "CLOSED" THEN "calling" ELSE "probing"]
  /\ UNCHANGED <<consecutiveFails, sinceOpened, failing>>

\* Mutant: a failed probe does not open the breaker again.
onFailureKeepsProbing ==
  IF consecutiveFails + 1 >= maxFailures
  THEN state' = "OPEN" /\ sinceOpened' = 0 /\ consecutiveFails' = 0
  ELSE consecutiveFails' = consecutiveFails + 1 /\ UNCHANGED <<state, sinceOpened>>

onFailure ==
  IF state = "HALF_OPEN" \/ consecutiveFails + 1 >= maxFailures
  THEN state' = "OPEN" /\ sinceOpened' = 0 /\ consecutiveFails' = 0
  ELSE consecutiveFails' = consecutiveFails + 1 /\ UNCHANGED <<state, sinceOpened>>

\* Mutant: a success only clears the count.
onSuccessCountOnly ==
  /\ consecutiveFails' = 0
  /\ UNCHANGED <<state, sinceOpened>>

onSuccess ==
  /\ state' = "CLOSED"
  /\ consecutiveFails' = 0
  /\ UNCHANGED sinceOpened

\* Call, after fn.
Fail(c) ==
  /\ caller[c] # "idle"
  /\ onFailure
  /\ caller' = [caller EXCEPT ![c] = "idle"]
  /\ failing' = Min({failing + 1, maxFailures})

Succeed(c) ==
  /\ caller[c] # "idle"
  /\ onSuccess
  /\ caller' = [caller EXCEPT ![c] = "idle"]
  /\ failing' = 0

Tick ==
  /\ sinceOpened < resetTimeout
  /\ sinceOpened' = sinceOpened + 1
  /\ UNCHANGED <<state, consecutiveFails, caller, failing>>

BreakerNext ==
  \/ \E c \in Callers : Enter(c) \/ Fail(c) \/ Succeed(c)
  \/ Tick

BreakerSpec == BreakerInit /\ [][BreakerNext]_breakerVars

-----------------------------------------------------------------------------

\* Every variable has its type.
BreakerTypeOK ==
  /\ state \in {"CLOSED", "OPEN", "HALF_OPEN"}
  /\ consecutiveFails \in 0..(maxFailures - 1)
  /\ sinceOpened \in 0..resetTimeout
  /\ caller \in [Callers -> {"idle", "calling", "probing"}]
  /\ failing \in 0..maxFailures

\* The breaker is closed exactly when fewer than maxFailures calls have failed
\* since the last one that succeeded, in whatever order concurrent calls come
\* back, from before or after it opened (onFailure, onSuccess).
ClosedIffHealthy == state = "CLOSED" <=> failing < maxFailures

\* A half-open breaker is waiting for a probe that is under way: it is never
\* left half-open with nobody to decide it.
ProbeInFlight ==
  state = "HALF_OPEN" => \E c \in Callers : caller[c] = "probing"

\* What makes ClosedIffHealthy inductive: a closed breaker has counted every
\* failure since the last success.
BreakerInv ==
  /\ ClosedIffHealthy
  /\ state = "CLOSED" => consecutiveFails = failing

\* Inductive: the breaker's count, its state and the calls between the two
\* critical sections of Call agree.
Inv == BreakerTypeOK /\ BreakerInv /\ ProbeInFlight

\* After maxFailures failures in a row no call goes through until resetTimeout
\* has passed since the last failure that opened the breaker, unless a call
\* from before comes back with a success.
BlocksForResetTimeout ==
  [][\A c \in Callers :
       caller[c] = "idle" /\ caller'[c] # "idle" =>
         failing < maxFailures \/ sinceOpened = resetTimeout]_breakerVars
=============================================================================
