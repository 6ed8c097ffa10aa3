CONSTANTS
  Null = Null
  Nonexistent = Nonexistent
  Number <- MCNumber
  MaxInt = 1
  Place <- MCPlace
  StaticFilters <- MCStaticFilters
  TagFilters <- MCTagFilters
  Queries <- MCQueries
SPECIFICATION Spec
INVARIANTS SoundInAnyWidth StaticSound DynamicSound Canonical RequiredElementIsNeeded
PROPERTY NeverWidens
