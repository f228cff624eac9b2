SPECIFICATION Spec
CONSTANTS
  p1 = p1
  p2 = p2
  c1 = c1
  c2 = c2
  c3 = c3
  Conns = {c1, c2, c3}
  Panes = {p1, p2}
  PaneOf <- MCPaneOf
  Interviewer = Interviewer
  MaxEntries = 2
  MaxLives = 2
SYMMETRY MCSymmetry
INVARIANTS
  TypeOK
  PaneMissesNothing
CHECK_DEADLOCK FALSE
