\* Two sessions, a frame to relay, heartbeats, send() on the main thread, which a
\* signal may interrupt; the counter passes its modulus; under fairness.
CONSTANTS
  a1 = a1
  me = me
  far = far
  bc = bc
  none = none
  NodeId = me
  Broadcast = bc
  Peers = {far}
  Senders = {a1}
  OnMain = {a1}
  Inbound <- MCTransit
  NoFrame = none
  SeqMod = 2
  MaxHop = 1
  MaxAlloc = 1
  MaxReads = 1
  MaxStarts = 2
SPECIFICATION FairSpec
PROPERTY
  StopReturns
CHECK_DEADLOCK FALSE
