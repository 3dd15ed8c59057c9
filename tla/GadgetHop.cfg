\* One frame in transit that arrives with the hop limit: the code drops it where
\* the documents' rule forwards it.
CONSTANTS
  a1 = a1
  me = me
  far = far
  bc = bc
  bad = bad
  none = none
  NodeId = me
  Peers = {far}
  Targets = {}
  Broadcast = bc
  Senders = {}
  Inbound <- MCAtLimit
  Corrupt = bad
  NoPacket = none
  SeqMod = 4
  MaxHop = 15
  FrameLen = 1
  MaxAlloc = 2
  MaxReads = 2
SPECIFICATION Spec
INVARIANTS
  RelaysUpToLimit
CHECK_DEADLOCK FALSE
