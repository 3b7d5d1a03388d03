SPECIFICATION Spec
CONSTANTS
  p1 = p1  p2 = p2  k1 = k1  k2 = k2  k3 = k3  d1 = d1  d2 = d2  e1 = e1
  Blank = Blank  None = None  Pending = Pending
  Procs = {p1, p2}
  Keys = {k1, k2, k3}
  Data = {d1, e1}
  BlankKeys = {}
  NHash = 2
  Hash <- TwoChains
  KeyLen <- SameLen
  DatLen <- Len2or3
  PtrMax = 99
  Calls <- Everyone
  MaxCalls = 4
  Mortal = {}
SYMMETRY Sym
INVARIANTS
  TypeOK
  PointersValid
  IndexWellFormed
  NoRecordLost
  WalkersOnLiveRecords
PROPERTIES
  SlotsKeepTheirSize
  ImplementsMap
CHECK_DEADLOCK FALSE
