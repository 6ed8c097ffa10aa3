CONSTANTS
  None = None
  Documents <- MCDocuments
  MaxDepth = 4
SPECIFICATION ParseSpec
INVARIANTS DecidesByGrammar EveryDirectiveOnce
