\* Two porters, two loaders and two types, through both trucks and round again:
\* every interleaving of the four threads.
CONSTANTS
  p1 = p1
  p2 = p2
  l1 = l1
  l2 = l2
  None = None
  NumTypes = 2
  NumTrucks = 2
  Porters <- TwoPorters
  Loaders <- TwoLoaders
  Quota <- One
  MinThreshold = 0
  MaxThreshold = 9
  MaxBoxes <- TwoOne
  MaxDelivered = 1
SPECIFICATION Spec
VIEW WhatIsRead
SYMMETRY ThreadSymmetry
INVARIANTS
  TypeOK
  BoxInOnePlace
  InOrder
  FirstTruckExclusive
  CountIsOfBoxes
PROPERTIES
  PipelineIsFifo
  FirstTruckLeavesFull
\* Bounded boxes run out, and a mutex that is never unlocked stops threads.
CHECK_DEADLOCK FALSE
