SPECIFICATION MigrationsSpec
CONSTANTS
  A = A  B = B  x = x  y = y
  Model = {A, B}
  Column = {x, y}
  Declaration <- TheDeclarations
  Leaf = 2
  MaxOperations = 4
  MaxDeclared = 1
  Computed = {"null"}
  Key <- TheKeys
  MaxDependencies = 2
  Squash <- TheSquashes
  Styles <- TheStyles
SYMMETRY Symmetric
INVARIANTS FactsAreTrue VerdictIsTrue PlanIsARunOrder
           ReleasesBreakAsReported  PendingStallsAreReported DataPassesAreJudged
CHECK_DEADLOCK FALSE
