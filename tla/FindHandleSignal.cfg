SPECIFICATION Spec
CONSTANTS
  Object = {o1}
  Bound = {o1}
  Name = {"a", "b", "c"}
  o1 = o1
  o2 = o2
  Static <- MCStatic
  Methods <- MCMethods
  Compatible <- MCCompatible
  Strange = {"a"}
  StaleLinks = TRUE
  MaxConnects = 1
  MaxPosted = 0
  MaxStack = 5
  MaxDepth = 2
  None = None
INVARIANTS
  HandleAssertion
CHECK_DEADLOCK FALSE
