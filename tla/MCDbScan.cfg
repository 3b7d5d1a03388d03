SPECIFICATION ScanSpec
CONSTANTS
  p1 = p1  p2 = p2  k1 = k1  k2 = k2  d1 = d1  e1 = e1
  Blank = Blank  None = None  Pending = Pending
  Procs = {p1, p2}
  Keys = {k1, k2}
  Data = {d1, e1}
  BlankKeys = {}
  NHash = 1
  Hash <- OneChain
  KeyLen <- SameLen
  DatLen <- Len2or3
  PtrMax = 99
  Calls <- Scanner
  MaxCalls = 7
  Mortal = {}
INVARIANTS
  ScanComplete
CHECK_DEADLOCK FALSE
