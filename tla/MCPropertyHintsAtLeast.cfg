CONSTANTS
  Null = Null
  Nonexistent = Nonexistent
  Number <- MCNumber
  MaxInt = 1
  Place <- MCPlace
  StaticFilters <- MCStaticFilters
  TagFilters <- AtLeastTag
  Queries <- AtLeastQueries
SPECIFICATION Spec
INVARIANT DynamicSound
