CONSTANTS
  Timeouts = {1}
  NestedTimeouts = {1}
  Brackets = {"run_js"}
  MaxTime = 2
  MaxArmed = 2
  MaxDepth = 2
SPECIFICATION Spec
INVARIANTS DeadlineStands
CHECK_DEADLOCK FALSE
