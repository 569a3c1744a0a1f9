SPECIFICATION FairSpec
CONSTANTS
  Addr = {a1, a2}
  Wrap = {w1, w2}
  Thread = {t1}
  GuiThread = t1
  Kinds = {"object", "plain"}
  QtMakes = FALSE
  MayThrow = FALSE
  MaxHeld = 2
  MaxDepth = 1
  NestedUserCode = FALSE
  None = None
INVARIANTS
  TypeOK
  MemorySafe
  MapAssertions
  NoDanglingPrivate
PROPERTIES
  EntryKept
  Unwinds
  WrapperReclaimed
CHECK_DEADLOCK FALSE
