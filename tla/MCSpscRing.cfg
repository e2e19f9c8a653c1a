CONSTANTS
  Item = {a, b}
  Blank = Blank
  Capacity = 2
  IndexModulus = 4
  MaxBatch = 3
  MaxLag = 2
SPECIFICATION LiveSpec
PROPERTIES ImplementsFifo EveryItemDelivered
INVARIANTS IndexOrder NoSlotRace CopiesIntact
