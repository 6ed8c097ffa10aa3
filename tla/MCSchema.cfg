CONSTANTS
  None = None
  Typename = Typename
  Name <- MCName
  FieldName <- MCFieldName
  Reserved <- MCReserved
  Docs <- MCDocs
  Arguments <- MCArguments
  MaxFields = 3
  Depth = 3
SPECIFICATION TypedSpec
INVARIANTS CircularIsExact DecidesRightly OriginsExact SubtypesDescend CallsAreTyped ParametersFit
