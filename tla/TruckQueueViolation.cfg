\* Two loaders change the list of one truck at a time.
CONSTANTS
  p1 = p1
  p2 = p2
  l1 = l1
  l2 = l2
  None = None
  NumTypes = 1
  NumTrucks = 2
  Porters <- OnePorter
  Loaders <- TwoLoaders
  Quota <- One
  MinThreshold = 0
  MaxThreshold = 9
  MaxBoxes <- Three
  MaxDelivered = 1
SPECIFICATION Spec
SYMMETRY ThreadSymmetry
INVARIANTS
  TruckQueueProtected
\* Bounded boxes run out, and a mutex that is never unlocked stops threads.
CHECK_DEADLOCK FALSE
