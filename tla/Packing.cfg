\* Two movers and two types, the storage area at each bound, fair threads.
CONSTANTS
  m1 = m1
  m2 = m2
  None = None
  NumTypes = 2
  Movers <- TwoMovers
  MaxPatches <- FourAndTwo
  Levels = {"low", "full", "high"}
SPECIFICATION FairSpec
INVARIANTS
  TypeOK
  NoUnderflow
  OnlyLastMoveIsLate
PROPERTIES
  BoxesInTurn
  PairIsPacked
