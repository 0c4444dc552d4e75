SPECIFICATION Spec
CONSTANTS
  MaxVersion = 3
  Chapters = {b1, b2, b3}
  MaxDrag = 2
  MaxObject = 2
  MaxPage = 2
  MaxCall = 2
  Plans <- MCPlans
  MaxEvents = 1
CHECK_DEADLOCK FALSE
INVARIANTS NoBlindSave    PageHolds AccountCatchesUp 
