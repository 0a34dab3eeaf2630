SPECIFICATION MCSpec
CONSTANTS
  Addresses = {0, 2}
  Data = {x}
  Blank = Blank
  Junk = Junk
  Counts = {1, 2}
  Lbas = {0, 1, 2}
  Descriptor = 2
  Search = {1, 2}
  Slots = 3
  MaxReads = 3
  MaxErrors = 2
INVARIANTS
  NothingForeign
  DataInTime
PROPERTIES
  IdeIsDisk
  AhciIsDisk
  CommandsReturn
CHECK_DEADLOCK FALSE
