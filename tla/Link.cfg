\* Up to two payloads and three numbers of the host, whose threads may leave them out
\* of order; a timeout; a read of a frame the gadget forwarded or of its own heartbeat.
CONSTANTS
  me = me
  host = host
  zero = zero
  bc = bc
  bad = bad
  none = none
  NodeId = me
  Peers = {host, zero}
  Targets = {}
  Broadcast = bc
  Senders = {}
  Inbound <- HostFrames
  Corrupt = bad
  NoPacket = none
  NoFrame = none
  Unassigned = zero
  HostId = host
  SeqMod = 4
  MaxHop = 15
  FrameLen = 1
  MaxAlloc = 1
  MaxReads = 3
  HostSends = 2
  HostAlloc = 3
  HostReads = 1
  HostTimeouts = 1
  MaxNumbers = 3
SPECIFICATION LinkSpec
INVARIANT
  GapsExplained
PROPERTY
  KeepsOrder
CHECK_DEADLOCK FALSE
