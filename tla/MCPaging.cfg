CONSTANTS
  Cpu = {c1}
  Pid = {p1}
  Rg = {0, 1}
  BadRg = {}
  Ops = {"alloc", "free", "read", "write"}
  PAGESZ = 2
  NRam = 2
  NSwp = 3
  TLBSZ = 2
  NPage = 3
  MaxSize = 5
SPECIFICATION FairSpec
INVARIANTS TypeOK FramesConserved SwapConserved TlbCoherent DataIntegrity RegionsDisjoint LiveMapped
PROPERTIES WriteStaysInRegion InstructionEnds
