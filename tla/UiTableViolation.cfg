\* Three buckets, so that ids collide after three objects instead of 2000; patches
\* wait for a box for less time than it takes the ids to come round.
CONSTANTS
  Capacity = 3
  PatchSize = 3
  Waiting = 2
  MaxProducts = 9
  MaxId = 9
SPECIFICATION Spec
INVARIANTS
  DeletesOneObject
