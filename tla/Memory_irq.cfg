SPECIFICATION Spec
CONSTANTS
  Limit = 4
  Stride = 2
  Base = 3
  Sizes = {1, 2}
  Alignments = {1, 2}
  Main = main
  Flows = {main, irq}
  Handles = {h1, h2, h3}
INVARIANTS
  AssignsHighest
CHECK_DEADLOCK FALSE
