\* two mutations at a time in one scope, of two plans
CONSTANTS
  p1 = p1
  p2 = p2
  n1 = n1
  n2 = n2
  a = a
  alias = alias
  x = x
  xBlank = xBlank
  g = g
  e = e
  Slots = {s1, s2}
  Plans = {p1, p2}
  Nodes = {n1, n2}
  Names = {a, alias}
  Files = {"f"}
  Symbols = {x, xBlank}
  GraphMutations = {g}
  Externals = {e}
  Kind <- MCKind
  Target <- MCTarget
  TargetSymbols <- MCTargetSymbols
  Gates <- MCGates
  FileOf <- MCFileOf
  Trimmed <- MCTrimmed
  Declared <- MCDeclared
  MaxTurns = 2
SPECIFICATION Spec
INVARIANTS
  TypeOK
  RunningDisjoint
PROPERTY
  EditsSurvive
SYMMETRY SlotSymmetry
