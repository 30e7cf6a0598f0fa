SPECIFICATION SpecGraph
CONSTANTS
  Nodes = {n1, n2, n3, n4, n5}
  Values = {1, 2}
  P = 3
SYMMETRY Interchangeable
CHECK_DEADLOCK FALSE
INVARIANTS ListsAreDependents FreshAboveLeaves
PROPERTY GradientStaysApart
