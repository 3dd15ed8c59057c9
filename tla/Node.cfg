\* Two sessions: an application, two rx threads and the heartbeats share the counter,
\* past its modulus; two frames arrive on either cable.
CONSTANTS
  a1 = a1
  me = me
  far = far
  bc = bc
  none = none
  NodeId = me
  Broadcast = bc
  Peers = {far}
  Senders = {a1}
  OnMain = {}
  Inbound <- MCInbound
  NoFrame = none
  SeqMod = 3
  MaxHop = 1
  MaxAlloc = 1
  MaxReads = 2
  MaxStarts = 2
SPECIFICATION Spec
INVARIANTS
  TypeOK
  EveryNumberOnce
  ProducerOrder
  TxStats
  RxStats
CHECK_DEADLOCK FALSE
