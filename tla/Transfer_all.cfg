CONSTANTS
  Isolates = {i1, i2, i3}
  Plain = {p1, p2}
  Pinned = {w1}
  Shared = {s1}
  NoStore = NoStore
  MaxTokens = 3
SPECIFICATION Spec
SYMMETRY Symmetry
INVARIANTS SoleHolder KindKept TokensAreOnce
PROPERTIES ImplementsOwnership
CHECK_DEADLOCK FALSE
