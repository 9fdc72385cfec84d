\* Two types, patches of three, two patches of one of them.
CONSTANTS
  NumTypes = 2
  PatchSize = 3
  QueueCap = 1
  UiCap = 1
  LastIndex <- LastOfLines
  MaxProducts <- TwoPatchesAndOne
  Levels = {"low", "high"}
SPECIFICATION FairSpec
INVARIANTS
  TypeOK
  PatchStory
  PrintedIsShown
  ListedOnce
PROPERTIES
  PatchesInTurn
  PatchIsPrinted
