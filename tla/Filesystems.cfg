SPECIFICATION DevSpec
CONSTANTS
  f = f
  g = g
  sub = sub
  x = x
  y = y
  readme = readme
  read = read
  long = long
  v1 = v1
  w1 = w1
  w2 = w2
  NoName = NoName
  Blank = Blank
  Machines <- SomeMachines
  DeviceSlots = 25
  Volumes = {v1}
  Names = {f, g, sub}
  Dotted = {f, g}
  Paths <- SomePaths
  Contents <- SomeContents
  Blocks = {x, y}
  NumSectors = 6
  NumEntries = 2
  FatVolumes = {w1}
  Begins <- SomeBegins
  FatPaths <- SomeFatPaths
  FatContents <- SomeContents
  Directory <- SomeDirectory
  DataSectors = 3
  Initial <- SomeData
  PathTable <- SomeTable
  FilesOf <- SomeFiles
  IsoPaths <- SomeIsoPaths
  Scanned = 20
  ScannedBytes = 1000
  LongestName = 28
INVARIANTS
  ReadBack
  MemoryMatchesDisk
  FatReadBack
  SizeBeforeData
  IsoFindsIts
CHECK_DEADLOCK FALSE
