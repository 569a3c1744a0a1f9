SPECIFICATION Spec
CONSTANTS
  Addr = {a1, a2}
  Wrap = {w1, w2}
  Thread = {t1}
  GuiThread = t1
  Kinds = {"object", "plain"}
  QtMakes = TRUE
  MayThrow = FALSE
  MaxHeld = 1
  MaxDepth = 2
  NestedUserCode = FALSE
  None = None
SYMMETRY Symmetry
INVARIANTS
  AddAssertion
CHECK_DEADLOCK FALSE
