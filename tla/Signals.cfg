SPECIFICATION Spec
CONSTANTS
  Object = {o1, o2}
  Bound = {o1}
  Name = {"a", "b"}
  o1 = o1
  o2 = o2
  Static <- MCStatic
  Methods <- MCMethods
  Compatible <- MCCompatible
  Strange = {"a"}
  StaleLinks = FALSE
  MaxConnects = 2
  MaxPosted = 1
  MaxStack = 4
  MaxDepth = 3
  None = None
INVARIANTS
  TypeOK
  IndicesSound
  HandleAssertion
PROPERTIES
  ImplementsLinks
CHECK_DEADLOCK FALSE
