SPECIFICATION Spec
CONSTANTS
  Addr = {a1, a2}
  Wrap = {w1}
  Thread = {t1, t2}
  GuiThread = t1
  Kinds = {"object", "plain"}
  QtMakes = FALSE
  MayThrow = TRUE
  MaxHeld = 1
  MaxDepth = 1
  NestedUserCode = FALSE
  None = None
SYMMETRY Symmetry
INVARIANTS
  ReferencesAccounted
  PrivateReferencesAccounted
CHECK_DEADLOCK FALSE
