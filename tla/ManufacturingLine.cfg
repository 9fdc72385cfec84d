\* One line of type A on a small scale: the first two of four steps in order, the
\* last two in any order; all four employees contend for one slot.
CONSTANTS
  NumLines = 1
  NumSteps = 4
  Hub = 1
  After = 1
  PileSize = 1
  NumIds = 3
  QueueCap = 1
  Levels <- TwoLevels
  Generator <- MCGenerator
SPECIFICATION Spec
INVARIANTS
  TypeOK
  StepsInOrder
  SentOnceComplete
PROPERTIES
  ProductStays
  LeavesComplete
