CONSTANTS
  Timeouts = {0, 1, 2}
  NestedTimeouts = {0}
  Brackets = {"run_js"}
  MaxTime = 3
  MaxArmed = 2
  MaxDepth = 3
SPECIFICATION FairSpec
INVARIANTS DeadlineStands
PROPERTIES LimitsReported TimeoutEnds TeardownEnds
CHECK_DEADLOCK FALSE
