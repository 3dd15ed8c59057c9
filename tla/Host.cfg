\* Two payloads (one may not fit), three numbers, one buffer read, one timeout; the
\* counter reaches its modulus; a signal at any time.
CONSTANTS
  NoFrame = NoFrame
  SeqMod = 2
  MaxSends = 2
  MaxAlloc = 3
  MaxReads = 1
  MaxTimeouts = 1
SPECIFICATION FairSpec
INVARIANTS
  TypeOK
  EveryNumberOnce
  DataInOrder
  CountersUnderReport
PROPERTY
  RunningSignalStops
CHECK_DEADLOCK FALSE
