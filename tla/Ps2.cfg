SPECIFICATION FairSpec
CONSTANTS
  MinX = 1
  MaxX = 2
  MinY = 1
  MaxY = 2
  Moves <- Steps
  Buttons = {0, 1}
  Leading <- MaybeOneByte
  Pictures <- TwoPictures
  MaxEvents = 3
INVARIANTS
  KeysInOrder
  PositionFollows
  ScreenIsKept
PROPERTY WaiterWakes
CHECK_DEADLOCK FALSE
