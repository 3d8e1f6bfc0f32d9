CONSTANTS
  n1 = n1
  n2 = n2
  n3 = n3
  n4 = n4
  Nodes = {n1, n2, n3}
  Root = n1
  Prim = Prim
  Text = Text
  Graphs <- SmallGraphs
  Sides = {"js", "ruby"}
  MaxMarshalDepth = 2
  Base = 2
  LimbDigits = 3
  MaxWrites = 1
SPECIFICATION Spec
SYMMETRY Symmetry
INVARIANTS TypeOK NoDanglingRef SameShape AwaitedRooted
CHECK_DEADLOCK FALSE
