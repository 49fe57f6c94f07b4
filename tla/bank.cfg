\* Three callers; the mock in every mode and a bank that answers at will; a
\* flaky bank fails four times.  In ModeTimeout all callers wait.
CONSTANTS
  c1 = c1  c2 = c2  c3 = c3
  Callers = {c1, c2, c3}
  maxFailures = 3
  resetTimeout = 3
  flakyLimit = 4
SPECIFICATION GatewaySpec
INVARIANTS Inv ClosedIffHealthy ProbeInFlight
PROPERTIES BlocksForResetTimeout ClosesAfterRecovery CutOffButProbed
CHECK_DEADLOCK FALSE
