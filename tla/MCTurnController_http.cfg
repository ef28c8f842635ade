\* POST /turn: two turns of one agent in flight, two plans that give the same ids other roles
CONSTANTS
  p1 = p1
  p2 = p2
  p3 = p3
  n1 = n1
  n2 = n2
  n3 = n3
  None = None
  Agents = {a1}
  Slots = {s1, s2}
  Plans = {p1, p2}
  Nodes = {n1, n2}
  Kind <- MCKind
  MapsTo <- MCMapsTo
  MaxAccepts = 2
SPECIFICATION Spec
INVARIANTS
  WorkingStateIsEquipped
  CounterWithinList
  EligibleNotDone
SYMMETRY SlotSymmetry
VIEW Reachable
