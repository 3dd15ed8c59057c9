\* An application thread and the heartbeat: the sequence counter wraps (SeqMod 2,
\* three numbers), frames are written in two pieces; nothing is read; under fairness.
CONSTANTS
  a1 = a1
  me = me
  far = far
  bc = bc
  bad = bad
  none = none
  NodeId = me
  Peers = {far}
  Targets = {far}
  Broadcast = bc
  Senders = {a1}
  Inbound = {}
  Corrupt = bad
  NoPacket = none
  SeqMod = 2
  MaxHop = 2
  FrameLen = 2
  MaxAlloc = 3
  MaxReads = 0
SPECIFICATION FairSpec
INVARIANTS
  TypeOK
  EveryNumberOnce
  ProducerOrder
  TxAccounting
PROPERTY
  Drained
CHECK_DEADLOCK FALSE
