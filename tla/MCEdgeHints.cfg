CONSTANTS
  None = None
  IRQueries <- MCQueries
  Graphs <- MCGraphs
SPECIFICATION EdgeSpec
INVARIANTS TagsResolvable MandatoryLosesNoRow BindingLosesNoRow
CHECK_DEADLOCK FALSE
