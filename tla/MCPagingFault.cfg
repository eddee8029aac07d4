CONSTANTS
  Cpu = {c1}
  Pid = {p1}
  Rg = {0, 1}
  BadRg = {}
  Ops = {"alloc", "free", "read", "write"}
  PAGESZ = 2
  NRam = 2
  NSwp = 2
  TLBSZ = 2
  NPage = 4
  MaxSize = 4
SPECIFICATION FairSpec
PROPERTY FaultResolved
