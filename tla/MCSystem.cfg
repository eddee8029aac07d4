CONSTANTS
  Cpu = {c1, c2}
  Pid = {p1, p2}
  Rg = {0}
  BadRg = {31}
  Ops = {"alloc", "alloc0", "free", "write"}
  PAGESZ = 1
  NRam = 1
  NSwp = 4
  TLBSZ = 2
  NPage = 2
  MaxSize = 2
SPECIFICATION SysSpec
INVARIANTS FramesConserved DataIntegrity
PROPERTIES EverySlotEnds
CHECK_DEADLOCK FALSE
