CONSTANTS
  Cpu = {c1, c2}
  Pid = {p1, p2}
  Rg = {0, 1}
  BadRg = {}
  Ops = {"alloc", "free", "read"}
  PAGESZ = 2
  NRam = 2
  NSwp = 2
  TLBSZ = 1
  NPage = 2
  MaxSize = 1
SPECIFICATION Spec
INVARIANT FramesConserved
SYMMETRY Symmetric
