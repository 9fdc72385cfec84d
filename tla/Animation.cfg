\* Four buckets: the fifth object collides with the first one.  A step is as long as the
\* way between neighbouring places, and half as long vertically, where some take two.
CONSTANTS
  Capacity = 4
  PatchSize = 1
  Waiting = 3
  MaxProducts = 2
  MaxId = 5
  Place <- SmallPlaces
  Padding = 1
  Margin = 1
  Step = 14
  TruckStep = 2
  Away = 2
  Entry <- MCEntry
  BoxPlaces <- PatchingPlace
SPECIFICATION AnimationSpec
INVARIANTS
  TypeOK
  CountOfBuckets
  ExactWithoutCollision
PROPERTIES
  EverythingArrives
