CONSTANTS
  n1 = n1
  n2 = n2
  n3 = n3
  n4 = n4
  Nodes = {n1, n2, n3, n4}
  Root = n1
  Prim = Prim
  Text = Text
  Graphs <- Twins
  Sides = {"js"}
  MaxMarshalDepth = 4
  Base = 2
  LimbDigits = 3
  MaxWrites = 0
SPECIFICATION Spec
INVARIANTS NeverSoleReference
CHECK_DEADLOCK FALSE
