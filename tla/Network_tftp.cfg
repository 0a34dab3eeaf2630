SPECIFICATION MCSpec
CONSTANTS
  Dhcps = {s1, s2}
  Names = {"tftp.local", "other"}
  Unknown = {"other"}
  Files = {"short", "long", "missing"}
  Blocks <- MCBlocks
  Bufs = 3
  MaxCalls = 1
  MaxFaults = 1
  MaxOut = 2
  MaxIn = 3
  MaxResent = 1
  Byte = 2
  Words = 2
  Payload = 2
  MaxHeaders = 2

PROPERTY FilesAreRead
CHECK_DEADLOCK FALSE
