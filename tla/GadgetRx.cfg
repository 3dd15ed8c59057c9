\* Three buffers from the host among four frames and a corrupt one; the
\* producers are the heartbeat and the forwarding rx thread.
CONSTANTS
  a1 = a1
  me = me
  far = far
  bc = bc
  bad = bad
  none = none
  NodeId = me
  Peers = {far}
  Targets = {}
  Broadcast = bc
  Senders = {}
  Inbound <- MCInbound
  Corrupt = bad
  NoPacket = none
  SeqMod = 4
  MaxHop = 1
  FrameLen = 1
  MaxAlloc = 3
  MaxReads = 3
SPECIFICATION Spec
INVARIANTS
  EveryNumberOnce
  BoundedReorder
  RxAccounting
  RoutedOnce
CHECK_DEADLOCK FALSE
