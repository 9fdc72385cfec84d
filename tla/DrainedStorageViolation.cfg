\* A truck holds more boxes than the storage area may: one porter, two loaders.
CONSTANTS
  p1 = p1
  p2 = p2
  l1 = l1
  l2 = l2
  None = None
  NumTypes = 1
  NumTrucks = 2
  Porters <- OnePorter
  Loaders <- TwoLoaders
  Quota <- Three
  MinThreshold = 1
  MaxThreshold = 1
  MaxBoxes <- Three
  MaxDelivered = 1
SPECIFICATION FairSpec
PROPERTIES
  DrainedStorageResumes
\* Bounded boxes run out, and a mutex that is never unlocked stops threads.
CHECK_DEADLOCK FALSE
