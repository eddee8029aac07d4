CONSTANTS
  CPU = {c1, c2}
  Ld = ld
  NProc = 2
  prio <- Prio2
  start <- Start2
  size <- Size2
  time_slot = 1
  MAX_PRIO = 2
  MAX_QUEUE_SIZE = 2
  Horizon = 0
SPECIFICATION FairSpec
PROPERTIES EveryCpuStops
