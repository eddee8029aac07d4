CONSTANTS
  CPU = {c1, c2}
  Ld = ld
  NProc = 3
  prio <- Prio3
  start <- Start3
  size <- Size3
  time_slot = 1
  MAX_PRIO = 2
  MAX_QUEUE_SIZE = 2
  Horizon = 1
SPECIFICATION Spec
INVARIANT SlotInRange
