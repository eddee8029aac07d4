CONSTANTS
  CPU = {c1, c2}
  Ld = ld
  NProc = 4
  prio <- Prio4
  start <- Start4
  size <- Size4
  time_slot = 2
  MAX_PRIO = 2
  MAX_QUEUE_SIZE = 2
  Horizon = 1
SPECIFICATION FairSpec
INVARIANTS TypeOK OnePlace NoWorkAbandoned SlotFloor ExitMeansTooMany NullMeansTaken PriorityRespected SliceRespected
PROPERTIES OneInstructionPerSlot EveryProcessFinishes GetProcReturns
