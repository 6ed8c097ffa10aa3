CONSTANTS
  None = None
  Letter <- MCLetter
  Count <- MCCount
  Queries <- MCQueries
SPECIFICATION Spec
INVARIANTS LeftOnlyByErrors AcceptsTheValid OutputsWithTheirComponent
