SPECIFICATION MCSpec
CONSTANTS
  Cards = {"rtl", "e1000"}
  Descs = 3
  Scan = 2
  RxDescs = 3
  TxDescs = 4
  Kinds = {"request", "block"}
  MaxPackets = 3
  MaxSends = 2
  SendsE = 1
  Watched = {2}
CHECK_DEADLOCK FALSE
INVARIANTS
  NeitherTwice
  BothSentOnReturn
  BothHearOn
PROPERTIES
  BothAnswer
  SendsComeBack
