CONSTANTS
  i1 = i1
  i2 = i2
  f1 = f1
  f2 = f2
  main = main
  Isolates = {i1, i2}
  NoIsolate = NoIsolate
  Fibers = {main, f1, f2}
  MainFiber = main
  NoFiber = NoFiber
  Outcomes = {"reply", "panic"}
  MaxDepth = 2
  FiberStacks = 2
  Span = 10
  Gaps = {1}
  NativeGuard = 2
  FiberReserve = 3
  RegionSlots = 1
  MaxOps = 3
  FieldFound = TRUE
SPECIFICATION ScopeSpec
SYMMETRY Symmetry
INVARIANTS ScopeTypeOK InnermostRuns LeaksCounted NestsUnlessYielded LimitFits ScanFits
PROPERTIES ImplementsOpNesting
CHECK_DEADLOCK FALSE
