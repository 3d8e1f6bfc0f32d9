CONSTANTS
  Realms = {r1, r2}
  Generations = 4
  MaxAttach = 4
  MaxResets = 2
  Interrupts = {FALSE}
SPECIFICATION Spec
SYMMETRY Symmetry
INVARIANTS NeverAnotherProc OwnFnsAnswer SlotsAccounted ReleasedRefuse
CHECK_DEADLOCK FALSE
