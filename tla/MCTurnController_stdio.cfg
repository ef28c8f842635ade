\* stdio transport: one turn in flight, two agents, two plans that give the same ids other roles
CONSTANTS
  p1 = p1
  p2 = p2
  p3 = p3
  n1 = n1
  n2 = n2
  n3 = n3
  None = None
  Agents = {a1, a2}
  Slots = {s1}
  Plans = {p2, p3}
  Nodes = {n1, n2, n3}
  Kind <- MCKind
  MapsTo <- MCMapsTo
  MaxAccepts = 2
SPECIFICATION Spec
INVARIANTS
  TypeOK
  WorkingStateIsEquipped
  CounterWithinList
  EligibleExact
  CompletedIsDone
PROPERTIES
  CompletedFrozenWithinBudget
  SpentNeverResumes
  ImplementsLifecycle
SYMMETRY AgentSymmetry
VIEW Reachable
