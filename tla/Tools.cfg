SPECIFICATION Spec
CONSTANTS
  MaxElements = 2
  Forms <- MCForms
  Identifier <- MCIdentifier
  TypeName <- MCTypeName
  LowerFirst <- MCLowerFirst
  Headers <- MCHeaders
  Tilde = 90
  Parts = 2
  Skipped <- MCSkipped
INVARIANTS
  ToolsTypeOK
  OwnedOnce ReadsDocument RoundTrip
  NumbersAgree LookupRight AllCallable
  NamesResolved BuildsTree
CHECK_DEADLOCK FALSE
