SPECIFICATION Spec
CONSTANTS
  Ends = {a, b}
  Writers = {a}
  MaxMsgs = 3
  Batch = 2
  SndWnd = 3
  RcvWnd = 2
  Fastresend = 0
  Nocwnd = TRUE
  AckNoDelay = TRUE
  Mtu = 1
  SNMod = 18
  FirstSN = 17
  MaxNet = 2
  MaxAcks = 2
  Duplicates = TRUE
INVARIANTS
  AckedIsReceived
  WindowRespected
  NextInOrderMoves
PROPERTY
  StreamSpec
CHECK_DEADLOCK FALSE
