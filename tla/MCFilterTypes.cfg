CONSTANTS
  x = x
  y = y
  Variable = {x, y}
  Queries <- MCQueries
  Values <- MCValues
  Arguments <- MCArguments
SPECIFICATION Spec
INVARIANTS InferredExactly ConflictsAreConflicts RunsWithFittingArguments TypesPreventPanics
