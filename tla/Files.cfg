SPECIFICATION Spec
CONSTANTS
  Slots = 2
  MaxOpen = 2
  Names <- Prefixed
  Contents <- Some
  Block = 2
  Sector = 4
  Spacing = 2
  Blocks <- TwoBlocks
  Offsets = {1}
  Pushed = {3}
  MaxTell = 3
INVARIANTS
  HandleHasFile
  GetcGivesNext
  WritesGoToFile
