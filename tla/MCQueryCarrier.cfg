CONSTANTS
  Folds <- MCFolds
  Outer <- MCOuter
SPECIFICATION CarrierSpec
INVARIANT QueryReturned
