CONSTANTS
  Vertex = {1, 2, 3}
  None = None
  Null = Null
  Plans <- MCPlans
  Graphs <- MCGraphs
  Starting <- MCStarting
SPECIFICATION Spec
INVARIANTS TagsScoped NoPanic DiscardsOnlyRejected OutputsFitTheirTypes
PROPERTY YieldsTheRows
