SPECIFICATION Spec
CONSTANTS
  c1 = c1  c2 = c2  c3 = c3
  None = None
  Clients <- Clients3
  Chunks = 1
  MaxId = 3
  Faults = {"crash", "hup", "noprinter", "printer"}
SYMMETRY Sym3
INVARIANTS
  AckedJobsKept
  GhostsArePrinted
  OnePlace
  NoLostWakeup
CHECK_DEADLOCK FALSE
