SPECIFICATION Spec
CONSTANTS
  MaxProc = 3
  Main = main
  Tasks = {main, t1, t2}
  Creators = {main}
  NoTask = NoTask
INVARIANTS
  RunsOnOwnStack
CHECK_DEADLOCK FALSE
