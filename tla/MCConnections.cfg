CONSTANTS
  c1 = c1
  c2 = c2
  c3 = c3
  c4 = c4
  Cells = {c1, c2, c3, c4}
  NULL = NULL
  Callers = {"main", "packet_in", "send"}
SYMMETRY Symmetry
SPECIFICATION Spec
INVARIANT RingOK
PROPERTY ImplementsList
