\* Two loaders overfill a truck, whose count then never equals its quota.
CONSTANTS
  p1 = p1
  p2 = p2
  l1 = l1
  l2 = l2
  None = None
  NumTypes = 1
  NumTrucks = 2
  Porters <- OnePorter
  Loaders <- TwoLoaders
  Quota <- One
  MinThreshold = 0
  MaxThreshold = 9
  MaxBoxes <- Two
  MaxDelivered = 1
SPECIFICATION FairSpec
PROPERTIES
  FullTruckLeaves
\* Bounded boxes run out, and a mutex that is never unlocked stops threads.
CHECK_DEADLOCK FALSE
