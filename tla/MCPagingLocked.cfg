CONSTANTS
  Cpu = {c1, c2}
  Pid = {p1, p2}
  Rg = {0}
  BadRg = {31}
  Ops = {"alloc", "alloc0", "free", "write"}
  PAGESZ = 2
  NRam = 2
  NSwp = 1
  TLBSZ = 2
  NPage = 2
  MaxSize = 3
SPECIFICATION Spec
INVARIANTS FifoSound Exclusive
PROPERTIES LockGivenBack
SYMMETRY Symmetric
CHECK_DEADLOCK FALSE
