---------------------------- MODULE BankGateway -----------------------------
(***************************************************************************)
(* The bank as the saga sees it (internal/infrastructure/bankmock): a      *)
(* gateway called through the circuit breaker by CircuitBreakerGateway.    *)
(* It is the mock in one of its failure modes, or any other implementation *)
(* of port.BankGateway, whose calls succeed and fail at will.              *)
(***************************************************************************)
EXTENDS CircuitBreaker

CONSTANT
  flakyLimit  \* calls that fail in ModeFlaky

ASSUME GatewayAssumption == flakyLimit \in Nat

VARIABLES
  mode,       \* the gateway's failure mode, which is fixed when it is made
  callCount,  \* calls so far, up to flakyLimit + 1
  n           \* caller -> the number of its call

gatewayVars == <<breakerVars, mode, callCount, n>>

GatewayInit ==
  /\ BreakerInit
  /\ mode \in {"success", "timeout", "permanentErr", "flaky", "other"}
  /\ callCount = 0
  /\ n = [c \in Callers |-> 0]

\* InitiateTransfer goes through the breaker and counts the call.
InitiateTransfer(c) ==
  /\ Enter(c)
  /\ callCount' = Min({callCount + 1, flakyLimit + 1})
  /\ n' = [n EXCEPT ![c] = callCount']
  /\ UNCHANGED mode

Acknowledges(c) ==
  mode \in {"success", "other"} \/ (mode = "flaky" /\ n[c] > flakyLimit)

Refuses(c) ==
  mode \in {"permanentErr", "other"} \/ (mode = "flaky" /\ n[c] <= flakyLimit)

\* A call returns.  ModeTimeout waits for the context, which the worker never
\* cancels while it runs: such a call does not return.
Return(c) ==
  /\ \/ Acknowledges(c) /\ Succeed(c)
     \/ Refuses(c) /\ Fail(c)
  /\ UNCHANGED <<mode, callCount, n>>

TimePasses == Tick /\ UNCHANGED <<mode, callCount, n>>

GatewayNext ==
  \/ \E c \in Callers : InitiateTransfer(c) \/ Return(c)
  \/ TimePasses

\* Time passes, every call of the bank returns, and the saga keeps calling.
GatewaySpec ==
  /\ GatewayInit /\ [][GatewayNext]_gatewayVars
  /\ WF_gatewayVars(TimePasses)
  /\ \A c \in Callers : WF_gatewayVars(InitiateTransfer(c)) /\ WF_gatewayVars(Return(c))

-----------------------------------------------------------------------------

\* A bank that fails and then recovers (ModeFlaky) is back in service in the
\* end: the breaker closes for good, although calls that failed before the
\* recovery come back late, count against it and restart resetTimeout.
ClosesAfterRecovery == mode = "flaky" => <>[](state = "CLOSED")

\* A bank that is down for good (ModePermanentErr) is cut off for good, but
\* probed for ever.
CutOffButProbed ==
  mode = "permanentErr" =>
  /\ <>[](state # "CLOSED")
  /\ []<>(state = "OPEN")
  /\ []<>(state = "HALF_OPEN")
=============================================================================
