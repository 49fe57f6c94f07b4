------------------------ MODULE CircuitBreakerProofs ------------------------
(***************************************************************************)
(* Proofs about the circuit breaker, for any number of callers, any        *)
(* maxFailures and any resetTimeout.                                       *)
(***************************************************************************)
EXTENDS CircuitBreaker, TLAPS

\* Min of two numbers, as the code's counters saturate.
LEMMA MinOfTwo ==
  ASSUME NEW a \in Nat, NEW b \in Nat
  PROVE  Min({a, b}) = IF a <= b THEN a ELSE b
<1> DEFINE m == IF a <= b THEN a ELSE b
<1>1. m \in {a, b} /\ \A y \in {a, b} : m <= y
  OBVIOUS
<1>2. \A x \in {a, b} : (\A y \in {a, b} : x <= y) => x = m
  OBVIOUS
<1> QED
  BY <1>1, <1>2, Zenon DEF Min

\* A new breaker satisfies the invariant.
LEMMA InitInv == BreakerInit => Inv
BY BreakerAssumption
   DEF BreakerInit, Inv, BreakerTypeOK, BreakerInv, ClosedIffHealthy, ProbeInFlight

\* A call that is let in: from OPEN it is the probe the breaker waits for.
LEMMA EnterInv == ASSUME Inv, NEW c \in Callers, Enter(c) PROVE Inv'
<1>1. BreakerTypeOK'
  BY DEF Inv, BreakerTypeOK, Enter
<1>2. BreakerInv'
  BY DEF Inv, BreakerTypeOK, BreakerInv, ClosedIffHealthy, Enter
<1>3. ProbeInFlight'
  BY DEF Inv, BreakerTypeOK, ProbeInFlight, Enter
<1> QED
  BY <1>1, <1>2, <1>3 DEF Inv

\* A failure opens the breaker or is one of fewer than maxFailures.
LEMMA FailInv == ASSUME Inv, NEW c \in Callers, Fail(c) PROVE Inv'
<1>1. failing' = IF failing + 1 <= maxFailures THEN failing + 1 ELSE maxFailures
  BY BreakerAssumption, MinOfTwo DEF Fail, Inv, BreakerTypeOK
<1>2. /\ onFailure
      /\ caller' = [caller EXCEPT ![c] = "idle"]
  BY DEF Fail
<1>3. BreakerTypeOK'
  BY <1>1, <1>2, BreakerAssumption DEF onFailure, Inv, BreakerTypeOK
<1>4. BreakerInv'
  BY <1>1, <1>2, BreakerAssumption
     DEF onFailure, Inv, BreakerTypeOK, BreakerInv, ClosedIffHealthy
<1>5. state' # "HALF_OPEN"
  BY <1>2 DEF onFailure
<1> QED
  BY <1>3, <1>4, <1>5 DEF Inv, ProbeInFlight

\* A success closes the breaker.
LEMMA SucceedInv == ASSUME Inv, NEW c \in Callers, Succeed(c) PROVE Inv'
BY BreakerAssumption DEF Succeed, onSuccess, Inv, BreakerTypeOK, BreakerInv,
                         ClosedIffHealthy, ProbeInFlight

\* Time and stuttering change nothing the invariant is about.
LEMMA TickInv == ASSUME Inv, Tick \/ UNCHANGED breakerVars PROVE Inv'
BY BreakerAssumption DEF Tick, breakerVars, Inv, BreakerTypeOK, BreakerInv,
                         ClosedIffHealthy, ProbeInFlight

\* The invariant holds of every state of the breaker: between the critical
\* sections of Call its count, its state and its callers agree.
THEOREM Invariance == BreakerSpec => []Inv
<1>1. Inv /\ [BreakerNext]_breakerVars => Inv'
  BY EnterInv, FailInv, SucceedInv, TickInv DEF BreakerNext
<1> QED
  BY <1>1, InitInv, PTL DEF BreakerSpec

\* Types; in particular the count stays below maxFailures.
THEOREM BreakerTypes == BreakerSpec => []BreakerTypeOK
<1>1. Inv => BreakerTypeOK
  BY DEF Inv
<1> QED
  BY <1>1, Invariance, PTL

\* The breaker is closed exactly when fewer than maxFailures calls have failed
\* since the last success, for any number of concurrent callers.
THEOREM ClosedExactly == BreakerSpec => []ClosedIffHealthy
<1>1. Inv => ClosedIffHealthy
  BY DEF Inv, BreakerInv
<1> QED
  BY <1>1, Invariance, PTL

\* A half-open breaker is always waiting for a call that is under way.
THEOREM HalfOpenIsProbed == BreakerSpec => []ProbeInFlight
<1>1. Inv => ProbeInFlight
  BY DEF Inv
<1> QED
  BY <1>1, Invariance, PTL

-----------------------------------------------------------------------------

\* The breaker leaves OPEN for HALF_OPEN only after resetTimeout, and a
\* failure that restarts the clock opens it again.
HalfOpenIsLate == state = "HALF_OPEN" => sinceOpened = resetTimeout

\* A breaker that has opened lets no call through for resetTimeout, for any
\* number of callers, unless a call that was under way succeeds.
THEOREM Blocks == BreakerSpec => BlocksForResetTimeout
<1> DEFINE A == \A c \in Callers :
                  caller[c] = "idle" /\ caller'[c] # "idle" =>
                    failing < maxFailures \/ sinceOpened = resetTimeout
<1>1. BreakerInit => HalfOpenIsLate
  BY DEF BreakerInit, HalfOpenIsLate
<1>2. Inv /\ HalfOpenIsLate /\ [BreakerNext]_breakerVars => HalfOpenIsLate'
  <2> SUFFICES ASSUME Inv, HalfOpenIsLate, [BreakerNext]_breakerVars PROVE HalfOpenIsLate'
    OBVIOUS
  <2>1. ASSUME NEW c \in Callers, Enter(c) PROVE HalfOpenIsLate'
    BY <2>1, BreakerAssumption DEF Enter, HalfOpenIsLate, Inv, BreakerTypeOK
  <2>2. ASSUME NEW c \in Callers, Fail(c) PROVE HalfOpenIsLate'
    BY <2>2 DEF Fail, onFailure, HalfOpenIsLate
  <2>3. ASSUME NEW c \in Callers, Succeed(c) PROVE HalfOpenIsLate'
    BY <2>3 DEF Succeed, onSuccess, HalfOpenIsLate
  <2>4. CASE Tick \/ UNCHANGED breakerVars
    BY <2>4, BreakerAssumption DEF Tick, breakerVars, HalfOpenIsLate, Inv, BreakerTypeOK
  <2> QED
    BY <2>1, <2>2, <2>3, <2>4 DEF BreakerNext
<1>3. Inv /\ HalfOpenIsLate /\ [BreakerNext]_breakerVars => [A]_breakerVars
  <2> SUFFICES ASSUME Inv, HalfOpenIsLate, [BreakerNext]_breakerVars, NEW c \in Callers,
                      caller[c] = "idle", caller'[c] # "idle"
               PROVE  failing < maxFailures \/ sinceOpened = resetTimeout
    OBVIOUS
  <2>1. Enter(c)
    BY DEF BreakerNext, Enter, Fail, Succeed, Tick, breakerVars, Inv, BreakerTypeOK
  <2> QED
    BY <2>1, BreakerAssumption
       DEF Enter, HalfOpenIsLate, Inv, BreakerTypeOK, BreakerInv, ClosedIffHealthy
<1> QED
  BY <1>1, <1>2, <1>3, Invariance, PTL DEF BreakerSpec, BlocksForResetTimeout
=============================================================================
