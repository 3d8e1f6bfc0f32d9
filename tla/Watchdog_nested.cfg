CONSTANTS
  Timeouts = {0, 1, 2}
  NestedTimeouts = {0, 1}
  Brackets = {"run_js", "drain"}
  MaxTime = 3
  MaxArmed = 3
  MaxDepth = 2
SPECIFICATION Spec
INVARIANTS FiredInFlight NoStaleBacktrace
PROPERTIES TerminationHasCause
CHECK_DEADLOCK FALSE
