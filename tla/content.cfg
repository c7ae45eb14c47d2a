SPECIFICATION MigrationSpec
CONSTANTS
  Nodes <- MCNodes
  Table <- MCTable
  Parent <- MCParent
  Grade <- MCGrade
  Seeded <- MCSeeded
  Filters <- MCFilters
  Reqs = {r1, r2}
  MaxWrites = 2
  None = None
  Jobs = {j1}
  Mode = "internal"
  math = math
  algebra = algebra
  equations = equations
  linear = linear
  solve = solve
  graph = graph
  history = history
  geometry = geometry
  systems = systems
  square = square
SYMMETRY Symmetry
INVARIANTS
  TypeOK
  StaleTreeHasCause
  StaleListHasCause
  OneNightIsEnough
