\* stdio: the progress counter of an agent that shares the plan with another
CONSTANTS
  p1 = p1
  p2 = p2
  p3 = p3
  n1 = n1
  n2 = n2
  n3 = n3
  None = None
  Agents = {a1, a2}
  Slots = {s1}
  Plans = {p1, p2}
  Nodes = {n1, n2}
  Kind <- MCKind
  MapsTo <- MCMapsTo
  MaxAccepts = 2
SPECIFICATION Spec
INVARIANT
  NoPhantomRemaining
