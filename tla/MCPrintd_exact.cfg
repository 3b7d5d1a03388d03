SPECIFICATION Spec
CONSTANTS
  c1 = c1  c2 = c2  c3 = c3
  None = None
  Clients <- Clients2
  Chunks = 2
  MaxId = 2
  Faults = {"crash", "disk", "printer", "stall", "quit"}
SYMMETRY Sym2
PROPERTIES
  PrintedWhole
  PrintedOnce
CHECK_DEADLOCK FALSE
