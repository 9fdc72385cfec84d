\* Two porters, two loaders, fair threads.
CONSTANTS
  p1 = p1
  p2 = p2
  l1 = l1
  l2 = l2
  None = None
  NumTypes = 1
  NumTrucks = 2
  Porters <- TwoPorters
  Loaders <- TwoLoaders
  Quota <- One
  MinThreshold = 0
  MaxThreshold = 1
  MaxBoxes <- Two
  MaxDelivered = 0
SPECIFICATION FairSpec
PROPERTIES
  PackedBoxIsStored
  TakenBoxIsStowed
\* Bounded boxes run out, and a mutex that is never unlocked stops threads.
CHECK_DEADLOCK FALSE
