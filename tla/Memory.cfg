SPECIFICATION FairSpec
CONSTANTS
  Limit = 4
  Stride = 2
  Base = 3
  Sizes = {1, 2}
  Alignments = {1, 2}
  Main = main
  Flows = {main}
  Handles = {h1, h2}
INVARIANTS
  HeldApart
  AssignsHighest
PROPERTY CallsReturn
CHECK_DEADLOCK FALSE
