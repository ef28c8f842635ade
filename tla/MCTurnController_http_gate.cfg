\* POST /turn: the completion gate after a plan was replaced under a running mutation
CONSTANTS
  p1 = p1
  p2 = p2
  p3 = p3
  n1 = n1
  n2 = n2
  n3 = n3
  None = None
  Agents = {a1}
  Slots = {s1, s2}
  Plans = {p1, p3}
  Nodes = {n1, n2, n3}
  Kind <- MCKind
  MapsTo <- MCMapsTo
  MaxAccepts = 2
SPECIFICATION Spec
PROPERTY
  GateSound
