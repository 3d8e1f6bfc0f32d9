CONSTANTS
  A = A
  B = B
  main = main
  v1 = v1
  v2 = v2
  Isolates = {A, B}
  NoIsolate = NoIsolate
  Fibers = {main}
  MainFiber = main
  NoFiber = NoFiber
  Outcomes = {"reply", "panic"}
  MaxDepth = 2
  Values = {v1, v2}
  NewError = NewError
  NoValue = NoValue
  MaxInFlight = 2
  MaxSerial = 2
  MaxErrors = 2
  MaxSaved = 1
SPECIFICATION ThrownSpec
SYMMETRY Symmetry
INVARIANTS NothingKeptWhenIdle
PROPERTIES RethrowsOwn LatestThrownOn
CHECK_DEADLOCK FALSE
