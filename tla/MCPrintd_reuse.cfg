SPECIFICATION Spec
CONSTANTS
  c1 = c1  c2 = c2  c3 = c3
  None = None
  Clients <- Clients2
  Chunks = 1
  MaxId = 2
  Faults = {"crash"}
SYMMETRY Sym2
INVARIANTS
  NumbersFresh
CHECK_DEADLOCK FALSE
