CONSTANTS
  N = 3
  MaxSlots = 2
  Horizon = 2
SPECIFICATION FairSpec
INVARIANTS TypeOK SlotAgreement RaceFree NobodyStranded
PROPERTIES NextSlotReturns Shutdown ImplementsSlotClock
