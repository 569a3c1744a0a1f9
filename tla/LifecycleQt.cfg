SPECIFICATION Spec
CONSTANTS
  Addr = {a1, a2}
  Wrap = {w1, w2}
  Thread = {t1}
  GuiThread = t1
  Kinds = {"plain", "object", "desktop"}
  QtMakes = TRUE
  MayThrow = TRUE
  MaxHeld = 1
  MaxDepth = 5
  NestedUserCode = TRUE
  None = None
SYMMETRY Symmetry
INVARIANTS
  MapComplete
  QObjectIdentity
  DelAssertion
  ReferencesAccounted
CHECK_DEADLOCK FALSE
