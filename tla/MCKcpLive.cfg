SPECIFICATION FairSpec
CONSTANTS
  Ends = {a, b}
  Writers = {a}
  MaxMsgs = 3
  Batch = 2
  SndWnd = 3
  RcvWnd = 2
  Fastresend = 0
  Nocwnd = FALSE
  AckNoDelay = FALSE
  Mtu = 4
  SNMod = 18
  FirstSN = 17
  MaxNet = 1
  MaxAcks = 2
  Duplicates = FALSE
INVARIANT CwndBounded
PROPERTY Delivered
CHECK_DEADLOCK FALSE
