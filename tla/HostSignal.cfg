\* No sends, one number, one timeout: a signal before run() is lost.
CONSTANTS
  NoFrame = NoFrame
  SeqMod = 2
  MaxSends = 0
  MaxAlloc = 1
  MaxReads = 0
  MaxTimeouts = 1
SPECIFICATION FairSpec
PROPERTY
  SignalStops
CHECK_DEADLOCK FALSE
