SPECIFICATION FairSpec
CONSTANTS
  c1 = c1  c2 = c2  c3 = c3
  None = None
  Clients <- Clients2
  Chunks = 1
  MaxId = 2
  Faults = {"printer", "quit", "stall"}
INVARIANTS
  NumbersFresh
PROPERTIES
  AckedJobsPrinted
  ClientThreadsEnd
CHECK_DEADLOCK FALSE
