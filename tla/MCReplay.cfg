CONSTANTS
  a = a
  b = b
  c = c
  None = None
  Unvisited = Unvisited
  Vertex = {a, b, c}
  Vid = {1, 2, 3}
  Batch = 2
  Plans <- MCPlans
  Graphs <- MCGraphs
  Starting <- MCStarting
SPECIFICATION TapSpec
INVARIANTS CompleteReplays ReadsAll
