\* The program as it is: three queues, every way to end.
SPECIFICATION FairSpec
INVARIANTS
  TypeOK
  OrphanOnlyByMisread
  ReaderLeavesOneQueue
  NothingLeftAfterCleanUp
PROPERTIES
  SimulationEnds
\* The simulation stops, that is what the module is about.
CHECK_DEADLOCK FALSE
