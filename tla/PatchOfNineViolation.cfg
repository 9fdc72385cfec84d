\* The first patch of a type is sent with one product missing.
CONSTANTS
  NumTypes = 1
  PatchSize = 3
  QueueCap = 1
  UiCap = 1
  LastIndex <- LastOfLines
  MaxProducts <- TwoPatchesAndOne
  Levels = {"low", "high"}
SPECIFICATION Spec
INVARIANTS
  PatchIsWhole
