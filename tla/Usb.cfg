SPECIFICATION MCSpec
CONSTANTS
  Ports = {0, 1}
  Kinds = {"none", "keyboard", "stick", "hub"}
  EventSlots = 6
  MaxPolls = 2
  MaxChanges = 1
  MaxLate = 1
INVARIANTS
  AddressesApart
  UsbDataInTime
  AnswerIsOurs
PROPERTY UsbCallsReturn
CHECK_DEADLOCK FALSE
