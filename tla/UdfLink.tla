------------------------------ MODULE UdfLink ------------------------------
(***************************************************************************)
(* One USB link: the host daemon (UdfHost) and the gadget daemon           *)
(* (UdfGadget) joined by the cable.  What the device took of the host's    *)
(* bulk writes reaches the gadget's reads in that order, one transfer per  *)
(* read; what the gadget's tx thread wrote whole reaches the host's reads. *)
(* The gadget is up before the host opens the device, and neither stops:   *)
(* their start and end are the subject of the two modules alone.           *)
(***************************************************************************)
EXTENDS UdfGadget

CONSTANTS
  Unassigned,  \* 0, the destination make_heartbeat falls back on
  HostId,      \* the host daemon's node id
  NoFrame,     \* stands for "no frame at hand" at the host
  HostSends, HostAlloc, HostReads, HostTimeouts,  \* bounds of the host daemon
  MaxNumbers   \* bound: numbers taken at both ends and the host's reads, together

\* The host daemon's variables.
VARIABLES
  hPhase, hRunning, hHandle, hSignalled, hPc, hTmp, hPopped, hHand, hTxQueue, hTxSeq, hTxFrames,
  hTimeouts, hRxFrames, hRxHb, hCrcErrors, hRxQueue, hWire, hLost, hSends, hReads, hExpiries

hostVars == <<hPhase, hRunning, hHandle, hSignalled, hPc, hTmp, hPopped, hHand, hTxQueue, hTxSeq,
              hTxFrames, hTimeouts, hRxFrames, hRxHb, hCrcErrors, hRxQueue, hWire, hLost, hSends,
              hReads, hExpiries>>

H == INSTANCE UdfHost WITH
  MaxSends <- HostSends, MaxAlloc <- HostAlloc, MaxReads <- HostReads, MaxTimeouts <- HostTimeouts,
  phase <- hPhase, running <- hRunning, handle <- hHandle, signalled <- hSignalled, pc <- hPc,
  tmp <- hTmp, popped <- hPopped, hand <- hHand, txQueue <- hTxQueue, txSeq <- hTxSeq,
  txFrames <- hTxFrames, timeouts <- hTimeouts, rxFrames <- hRxFrames, rxHb <- hRxHb,
  crcErrors <- hCrcErrors, rxQueue <- hRxQueue, wire <- hWire, lost <- hLost, sends <- hSends,
  reads <- hReads, expiries <- hExpiries

ASSUME LinkConstants ==
  /\ {Unassigned, HostId} \subseteq Peers /\ NoFrame \notin H!Frame
  /\ {HostSends, HostAlloc, HostReads, HostTimeouts, MaxNumbers} \subseteq Nat

-----------------------------------------------------------------------------
(* The cable.                                                               *)

\* A frame of the host as the gadget unpacks it: payloads go to everyone,
\* heartbeats to nobody in particular.
ToGadget(w) == [src |-> HostId, dst |-> IF w.hb THEN Unassigned ELSE Broadcast, seq |-> w.seq,
                hop |-> 0, flags |-> IF w.hb THEN {"HB"} ELSE {}, payload |-> "none"]

GadgetReads == bytesRx < Len(hWire) /\ Read(ToGadget(hWire[bytesRx + 1]))

\* The frames ep1 took whole, and what the host's flag test makes of one.
ToHost == SelectSeq(sent, LAMBDA x : x.written = FrameLen)
HostReads1 ==
  /\ hReads < Len(ToHost)
  /\ H!Read(IF "HB" \in ToHost[hReads + 1].packet.frame.flags THEN "hb" ELSE "data")

-----------------------------------------------------------------------------
GadgetStep ==
  \/ WriteDescriptors \/ WaitForEnable \/ StartThreads
  \/ AppNext \/ HbNext \/ TxNext \/ PutNext
  \/ LoopTest("rx", "read") \/ ReadNothing \/ GadgetReads
  \/ UnpackFails \/ CountFrame \/ Deliver \/ Forward \/ HopDrop

\* A transfer that fails outright leaves less behind than one that times out,
\* so the composition has only the latter; a read that times out leaves nothing.
HostWrites(t) == \/ H!Number(t) \/ H!BeginTransfer(t) \/ H!WriteDone(t) \/ H!WriteTimesOut(t)
                 \/ H!LoadCounter(t) \/ H!StoreCounter(t)

HostStep ==
  \/ phase = "up" /\ H!Open
  \/ H!Run \/ (hPhase = "run" /\ H!Send(TRUE))
  \/ H!LoopTest("tx", "pop") \/ H!Idle \/ H!Pop \/ HostWrites("tx")
  \/ H!LoopTest("hb", "number") \/ HostWrites("hb")
  \/ H!LoopTest("rx", "read") \/ H!BeginTransfer("rx") \/ HostReads1

LinkInit == Init /\ H!Init
LinkNext == /\ (GadgetStep /\ UNCHANGED hostVars) \/ (HostStep /\ UNCHANGED vars)
            /\ alloc' + hTxSeq' + hReads' <= MaxNumbers
LinkSpec == LinkInit /\ [][LinkNext]_<<vars, hostVars>>

-----------------------------------------------------------------------------
\* The places in q of all but heartbeats, the place on the cable w of the frame
\* numbered n, and the payloads of q by their place among the host's send() calls.
DataPlaces(q) == {i \in 1 .. Len(q) : "HB" \notin q[i].flags}
WireOf(n, w)  == CHOOSE j \in 1 .. Len(w) : w[j].seq = n
PayloadIds(q, w) ==
  [k \in 1 .. Cardinality(DataPlaces(q)) |->
     LET i == CHOOSE i \in DataPlaces(q) : Rank(i, DataPlaces(q)) = k
     IN w[WireOf(q[i].seq, w)].payload.id]

Delivered == PayloadIds(rxQueue, hWire)

Channel == INSTANCE LossyChannel WITH accepted <- hSends, delivered <- Delivered

\* The link keeps the channel's promise: through the host's two queues and two
\* writers, transfers that time out after the device took the frame, and the
\* gadget's routing, payloads arrive at most once and in order.
KeepsOrder == Channel!Spec

ReceivedSeqs == {received[i].seq : i \in 1 .. framesRx}
Late == {received[j].seq : j \in {k \in 1 .. framesRx :
                                    \E i \in 1 .. k - 1 : received[i].seq > received[k].seq}}
Pending == (0 .. expectedSeq - 1) \ (ReceivedSeqs \cup hLost)

\* What seq_gaps says of the host: each gap counted stands for a number that
\* was lost, came late or is about to, and at most one number is about to: the
\* host has two writers, and the lock is free while they write.
GapsExplained ==
  /\ seqGaps <= Cardinality((0 .. expectedSeq - 1) \cap (hLost \cup Late \cup Pending))
  /\ Cardinality(Pending) <= 1
  /\ Pending \subseteq H!HandSeqs \cup {hWire[i].seq : i \in framesRx + 1 .. Len(hWire)}
=============================================================================
