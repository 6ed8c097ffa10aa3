CONSTANTS
  None = None
  Name <- MCName
  Queries <- MCQueries
SPECIFICATION Spec
INVARIANTS NoPanic AcceptsTheValid ImportsTheNeeded MisplacedAreMisplaced
