SPECIFICATION FairSpec
CONSTANTS
  MaxProc = 4
  Main = main
  Tasks = {main, t1, t2, t3, t4}
  Creators = {main}
  NoTask = NoTask
INVARIANTS
  ResumesWhereItStood
  OneSlotPerTask
  BoundedWait
PROPERTY EveryReadyTaskRuns
CHECK_DEADLOCK FALSE
