------------------------------ MODULE UdfGadget ------------------------------
(***************************************************************************)
(* The gadget daemon of USB Direct Fabric (src/src/gadget/udf_gadget.py):  *)
(* the device side of one USB link.  The main thread starts and stops it;  *)
(* the rx thread reads frames from endpoint ep2, accounts for them and     *)
(* delivers or forwards each; the hb thread and application threads        *)
(* produce frames; the tx thread writes the queued frames to endpoint ep1. *)
(*                                                                         *)
(* A sequence number is taken under the daemon's lock (_next_seq) and the  *)
(* frame is put into tx_queue after the lock is released: two steps here.  *)
(* The host at the other end is the environment: any buffer may arrive on  *)
(* ep2, and a write to ep1 takes any number of pieces, blocks or fails.    *)
(***************************************************************************)
EXTENDS Integers, Sequences, FiniteSets

CONSTANTS
  NodeId,     \* the daemon's own node id
  Peers,      \* the other nodes
  Targets,    \* the destinations send() is called with
  Broadcast,  \* 0xFF
  Senders,    \* application threads that call send()
  Inbound,    \* the frames the host may write to ep2
  Corrupt,    \* a buffer that frame.unpack rejects
  NoPacket,   \* stands for "no frame at hand"
  SeqMod,     \* the sequence counter's modulus (2^32 in the code)
  MaxHop,     \* 15: the code does not forward a frame with this hop count or more
  FrameLen,   \* pieces os.write can split one frame into
  MaxAlloc,   \* bound: sequence numbers allocated
  MaxReads    \* bound: buffers read from ep2

Producers == Senders \cup {"hb", "rx"}
Threads   == Producers \cup {"tx"}
Dest      == Peers \cup {NodeId, Broadcast}
Seq32     == 0 .. SeqMod - 1

\* A frame, its payload left out but for the sender or origin it tells apart.
Frame == [src : Peers \cup {NodeId}, dst : Dest, seq : Seq32, hop : 0 .. 255,
          flags : SUBSET {"HB", "FWD"}, payload : Senders \cup Peers \cup {"none"}]

\* A packed frame on its way out, with two history fields: the thread that
\* produced it, and the position of its sequence number among all allocated.
Packet == [by : Producers, n : Nat, frame : Frame]

ASSUME GadgetConstants ==
  /\ SeqMod \in Nat \ {0} /\ MaxHop \in Nat /\ MaxHop <= 255 /\ FrameLen \in Nat \ {0}
  /\ MaxAlloc \in Nat /\ MaxReads \in Nat
  /\ IsFiniteSet(Senders) /\ {"hb", "rx", "tx"} \cap Senders = {}
  /\ Targets \subseteq Dest
  /\ Inbound \subseteq Frame /\ Corrupt \notin Frame /\ NoPacket \notin Packet

VARIABLES
  phase,        \* where main() is: "init", "ep0", "enabled", "up", "stopping", "closed", "exited", "failed"
  running,      \* self.running
  pc,           \* where each thread stands in its loop
  txSeq,        \* self.tx_seq
  hand,         \* the packed frame a producer holds but has not queued
  txQueue,      \* self.tx_queue
  sent,         \* the frames tx took, in order, with the pieces ep1 took
  framesTx,     \* self.frames_tx
  rxBuf,        \* the buffer rx has read and is handling
  rxQueue,      \* self.rx_queue
  bytesRx,      \* self.bytes_rx, in buffers
  framesRx, crcErrors, seqGaps, expectedSeq,
  alloc,        \* history: how many sequence numbers were allocated
  burned,       \* history: positions whose frame could not be packed
  received      \* history: the frames counted in framesRx, in order

mainVars == <<phase, running>>
txVars   == <<sent, framesTx>>
rxStats  == <<framesRx, crcErrors, seqGaps, expectedSeq, received>>
rxVars   == <<rxBuf, rxQueue, bytesRx, rxStats>>
seqVars  == <<txSeq, alloc, burned, hand>>
vars     == <<mainVars, pc, seqVars, txQueue, txVars, rxVars>>

Init ==
  /\ phase = "init" /\ running = FALSE
  /\ pc = [t \in Threads |-> "off"]
  /\ txSeq = 0 /\ alloc = 0 /\ burned = {}
  /\ hand = [p \in Producers |-> NoPacket]
  /\ txQueue = <<>> /\ sent = <<>> /\ framesTx = 0
  /\ rxBuf = Corrupt /\ rxQueue = <<>> /\ bytesRx = 0
  /\ framesRx = 0 /\ crcErrors = 0 /\ seqGaps = 0 /\ expectedSeq = 0
  /\ received = <<>>

Goto(t, l) == pc' = [pc EXCEPT ![t] = l]

-----------------------------------------------------------------------------
(* The main thread: start(), the signal handler's stop().                   *)

WriteDescriptors ==
  /\ phase = "init" /\ phase' = "ep0" /\ running' = TRUE
  /\ UNCHANGED <<pc, seqVars, txQueue, txVars, rxVars>>

\* _wait_for_enable returns on the ENABLE event and also after 50 tries.
WaitForEnable ==
  /\ phase = "ep0" /\ phase' = "enabled"
  /\ UNCHANGED <<running, pc, seqVars, txQueue, txVars, rxVars>>

\* The endpoint files are there and open; start the threads.
StartThreads ==
  /\ phase = "enabled" /\ phase' = "up"
  /\ pc' = [t \in Threads |-> IF t \in Senders THEN "ready" ELSE "top"]
  /\ UNCHANGED <<running, seqVars, txQueue, txVars, rxVars>>

\* os.open or os.write fails, or the endpoint files do not appear: the
\* exception leaves start() and ends the process.
StartFails ==
  /\ phase \in {"init", "ep0", "enabled"} /\ phase' = "failed"
  /\ running' = TRUE
  /\ UNCHANGED <<pc, seqVars, txQueue, txVars, rxVars>>

\* A signal before start() has set all three fds: stop() clears the flag and
\* raises AttributeError, which leaves start() as well.
StopEarly ==
  /\ phase \in {"init", "ep0", "enabled"} /\ phase' = "failed"
  /\ running' = FALSE
  /\ UNCHANGED <<pc, seqVars, txQueue, txVars, rxVars>>

StopFlag ==
  /\ phase = "up" /\ phase' = "stopping" /\ running' = FALSE
  /\ UNCHANGED <<pc, seqVars, txQueue, txVars, rxVars>>

StopClose ==
  /\ phase = "stopping" /\ phase' = "closed"
  /\ UNCHANGED <<running, pc, seqVars, txQueue, txVars, rxVars>>

-----------------------------------------------------------------------------
(* Producing a frame: _next_seq under the lock, then tx_queue.put.          *)

\* Mutant: the counter without its mask.
NextSeqUnmasked ==
  /\ alloc < MaxAlloc /\ alloc' = alloc + 1
  /\ txSeq' = txSeq + 1

\* Mutant: no lock, so that another thread's store can undo the increment.
NextSeqUnlocked ==
  /\ alloc < MaxAlloc /\ alloc' = alloc + 1
  /\ txSeq' \in {txSeq, (txSeq + 1) % SeqMod}

NextSeq ==
  /\ alloc < MaxAlloc /\ alloc' = alloc + 1
  /\ txSeq' = (txSeq + 1) % SeqMod

\* Thread p takes the next sequence number and packs frame f with it.
Pack(p, f) ==
  /\ NextSeq
  /\ hand' = [hand EXCEPT ![p] =
                [by |-> p, n |-> alloc, frame |-> [f EXCEPT !.seq = txSeq]]]
  /\ Goto(p, "put") /\ UNCHANGED burned

DataFrame(s, d) == [src |-> NodeId, dst |-> d, seq |-> 0, hop |-> 0,
                    flags |-> {}, payload |-> s]
HeartbeatFrame  == [src |-> NodeId, dst |-> Broadcast, seq |-> 0, hop |-> 0,
                    flags |-> {"HB"}, payload |-> "none"]
Forwarded(f)    == [f EXCEPT !.hop = @ + 1, !.flags = @ \cup {"FWD"}]

Send(s, d) ==
  /\ pc[s] = "ready" /\ Pack(s, DataFrame(s, d))
  /\ UNCHANGED <<mainVars, txQueue, txVars, rxVars>>

\* send() with a payload struct.pack refuses (its length does not fit 16
\* bits): the sequence number is already taken when pack raises.
SendRejected(s) ==
  /\ pc[s] = "ready" /\ NextSeq
  /\ burned' = burned \cup {alloc}
  /\ UNCHANGED <<mainVars, pc, hand, txQueue, txVars, rxVars>>

\* Mutant: heartbeats jump the queue.
PutHeartbeatFirst(p) ==
  /\ pc[p] = "put"
  /\ txQueue' = IF p = "hb" THEN <<hand[p]>> \o txQueue ELSE Append(txQueue, hand[p])
  /\ hand' = [hand EXCEPT ![p] = NoPacket]
  /\ Goto(p, IF p \in Senders THEN "ready" ELSE "top")
  /\ UNCHANGED <<mainVars, txSeq, alloc, burned, txVars, rxVars>>

Put(p) ==
  /\ pc[p] = "put"
  /\ txQueue' = Append(txQueue, hand[p])
  /\ hand' = [hand EXCEPT ![p] = NoPacket]
  /\ Goto(p, IF p \in Senders THEN "ready" ELSE "top")
  /\ UNCHANGED <<mainVars, txSeq, alloc, burned, txVars, rxVars>>

\* The test of self.running at the head of the loops of hb, rx and tx.
LoopTest(t, body) ==
  /\ pc[t] = "top" /\ Goto(t, IF running THEN body ELSE "done")
  /\ UNCHANGED <<mainVars, seqVars, txQueue, txVars, rxVars>>

Heartbeat ==
  /\ pc["hb"] = "beat" /\ Pack("hb", HeartbeatFrame)
  /\ UNCHANGED <<mainVars, txQueue, txVars, rxVars>>

-----------------------------------------------------------------------------
(* The rx thread.                                                           *)

\* os.read raises OSError or returns no bytes.
ReadNothing ==
  /\ pc["rx"] = "read" /\ Goto("rx", "top")
  /\ UNCHANGED <<mainVars, seqVars, txQueue, txVars, rxVars>>

Read(buf) ==
  /\ pc["rx"] = "read" /\ Goto("rx", "unpack")
  /\ bytesRx < MaxReads /\ bytesRx' = bytesRx + 1
  /\ rxBuf' = buf
  /\ UNCHANGED <<mainVars, seqVars, txQueue, txVars, rxQueue, rxStats>>

UnpackFails ==
  /\ pc["rx"] = "unpack" /\ rxBuf = Corrupt /\ Goto("rx", "top")
  /\ crcErrors' = crcErrors + 1
  /\ UNCHANGED <<mainVars, seqVars, txQueue, txVars, rxBuf, rxQueue, bytesRx,
                 framesRx, seqGaps, expectedSeq, received>>

\* Mutant: a gap does not resynchronise the counter.
ExpectOneMore(s) == IF s >= expectedSeq THEN expectedSeq + 1 ELSE expectedSeq

\* Mutant: a late number counts as a gap.
GapUnequal(s) == s # expectedSeq

Gap(s) == s > expectedSeq

\* expected_seq after a frame numbered s: a late or repeated number changes
\* nothing, and there is no wrap to 0.
Expect(s) == IF s >= expectedSeq THEN s + 1 ELSE expectedSeq

CountFrame ==
  /\ pc["rx"] = "unpack" /\ rxBuf # Corrupt /\ Goto("rx", "route")
  /\ framesRx' = framesRx + 1
  /\ seqGaps' = seqGaps + (IF Gap(rxBuf.seq) THEN 1 ELSE 0)
  /\ expectedSeq' = Expect(rxBuf.seq)
  /\ received' = Append(received, rxBuf)
  /\ UNCHANGED <<mainVars, seqVars, txQueue, txVars, rxBuf, rxQueue, bytesRx,
                 crcErrors>>

Local(f)   == f.dst \in {NodeId, Broadcast}
TransitNoLimit(f) == ~Local(f)  \* mutant: the hop limit forgotten
Transit(f) == ~Local(f) /\ f.hop < MaxHop

Deliver ==
  /\ pc["rx"] = "route" /\ Local(rxBuf) /\ Goto("rx", "top")
  /\ rxQueue' = Append(rxQueue, rxBuf)
  /\ UNCHANGED <<mainVars, seqVars, txQueue, txVars, rxBuf, bytesRx, rxStats>>

Forward ==
  /\ pc["rx"] = "route" /\ Transit(rxBuf) /\ Pack("rx", Forwarded(rxBuf))
  /\ UNCHANGED <<mainVars, txQueue, txVars, rxVars>>

\* The hop limit: no branch of the code takes the frame, nothing counts it.
HopDrop ==
  /\ pc["rx"] = "route" /\ ~Local(rxBuf) /\ ~Transit(rxBuf) /\ Goto("rx", "top")
  /\ UNCHANGED <<mainVars, seqVars, txQueue, txVars, rxVars>>

-----------------------------------------------------------------------------
(* The tx thread.                                                           *)

\* tx_queue.get times out after 50 ms.
GetTimesOut ==
  /\ pc["tx"] = "get" /\ txQueue = <<>> /\ Goto("tx", "top")
  /\ UNCHANGED <<mainVars, seqVars, txQueue, txVars, rxVars>>

\* Mutant: the newest frame first.
GetNewest ==
  /\ pc["tx"] = "get" /\ txQueue # <<>> /\ Goto("tx", "test")
  /\ sent' = Append(sent, [packet |-> txQueue[Len(txQueue)], written |-> 0])
  /\ txQueue' = SubSeq(txQueue, 1, Len(txQueue) - 1)
  /\ UNCHANGED <<mainVars, seqVars, framesTx, rxVars>>

Get ==
  /\ pc["tx"] = "get" /\ txQueue # <<>> /\ Goto("tx", "test")
  /\ sent' = Append(sent, [packet |-> Head(txQueue), written |-> 0])
  /\ txQueue' = Tail(txQueue)
  /\ UNCHANGED <<mainVars, seqVars, framesTx, rxVars>>

written == sent[Len(sent)].written

\* Mutant: leaving the loop is taken for having written the frame.
WriteTestLax ==
  /\ pc["tx"] = "test"
  /\ Goto("tx", IF written < FrameLen /\ running THEN "write" ELSE "count")
  /\ UNCHANGED <<mainVars, seqVars, txQueue, txVars, rxVars>>

\* while written < len(data) and self.running
WriteTest ==
  /\ pc["tx"] = "test"
  /\ Goto("tx", CASE written = FrameLen -> "count"
                  [] written < FrameLen /\ running -> "write"
                  [] OTHER -> "top")
  /\ UNCHANGED <<mainVars, seqVars, txQueue, txVars, rxVars>>

\* os.write takes k more pieces of the frame.
Write(k) ==
  /\ pc["tx"] = "write" /\ written + k <= FrameLen /\ Goto("tx", "test")
  /\ sent' = [sent EXCEPT ![Len(sent)].written = @ + k]
  /\ UNCHANGED <<mainVars, seqVars, txQueue, framesTx, rxVars>>

\* BlockingIOError: try again.
WriteBlocks ==
  /\ pc["tx"] = "write" /\ Goto("tx", "test")
  /\ UNCHANGED <<mainVars, seqVars, txQueue, txVars, rxVars>>

\* Mutant: a failed write ends the thread.
WriteFailsEndsThread ==
  /\ pc["tx"] = "write" /\ Goto("tx", "done")
  /\ UNCHANGED <<mainVars, seqVars, txQueue, txVars, rxVars>>

\* Any other OSError: the rest of the frame is given up.
WriteFails ==
  /\ pc["tx"] = "write" /\ Goto("tx", "top")
  /\ UNCHANGED <<mainVars, seqVars, txQueue, txVars, rxVars>>

CountSent ==
  /\ pc["tx"] = "count" /\ Goto("tx", "top")
  /\ framesTx' = framesTx + 1
  /\ UNCHANGED <<mainVars, seqVars, txQueue, sent, rxVars>>

-----------------------------------------------------------------------------
\* main() returns once stop() has: the interpreter exits under its daemon threads.
Exit ==
  /\ phase = "closed" /\ phase' = "exited"
  /\ UNCHANGED <<running, pc, seqVars, txQueue, txVars, rxVars>>

MainNext == \/ WriteDescriptors \/ WaitForEnable \/ StartThreads \/ StartFails
            \/ StopEarly \/ StopFlag \/ StopClose \/ Exit
AppNext  == \E s \in Senders : SendRejected(s) \/ \E d \in Targets : Send(s, d)
HbNext   == LoopTest("hb", "beat") \/ Heartbeat
RxInput  == \E buf \in Inbound \cup {Corrupt} : Read(buf)
RxNext   == \/ LoopTest("rx", "read") \/ ReadNothing \/ RxInput
            \/ UnpackFails \/ CountFrame \/ Deliver \/ Forward \/ HopDrop
WriteOn  == \E k \in 1 .. FrameLen : Write(k)
TxNext   == \/ LoopTest("tx", "get") \/ GetTimesOut \/ Get \/ WriteTest
            \/ WriteOn \/ WriteBlocks \/ WriteFails \/ CountSent
PutNext  == \E p \in Producers : Put(p)

Next == \/ MainNext
        \/ phase # "exited" /\ (AppNext \/ HbNext \/ RxNext \/ TxNext \/ PutNext)

Spec == Init /\ [][Next]_vars

\* Threads that can run do run: the lock is never held across a blocking call.
\* The host keeps polling ep1, so a write tried again and again is taken.
Fairness ==
  /\ \A p \in Producers : WF_vars(phase # "exited" /\ Put(p))
  /\ WF_vars(phase # "exited" /\ TxNext)
  /\ SF_vars(phase # "exited" /\ Get) /\ SF_vars(phase # "exited" /\ WriteOn)

FairSpec == Spec /\ Fairness

-----------------------------------------------------------------------------
(* Properties.                                                              *)

InHand == {p \in Producers : hand[p] # NoPacket}
HandNs  == {hand[p].n : p \in InHand}
QueueNs == {txQueue[i].n : i \in 1 .. Len(txQueue)}
SentNs  == {sent[i].packet.n : i \in 1 .. Len(sent)}

\* The types of the daemon's fields, of the threads' locals and of the
\* history; expected_seq alone may reach the counter's modulus.
TypeOK ==
  /\ phase \in {"init", "ep0", "enabled", "up", "stopping", "closed", "exited", "failed"}
  /\ running \in BOOLEAN
  /\ pc \in [Threads -> {"off", "ready", "top", "beat", "put", "read", "unpack",
                         "route", "get", "test", "write", "count", "done"}]
  /\ txSeq \in Seq32 /\ alloc \in Nat /\ burned \in SUBSET (0 .. alloc - 1)
  /\ hand \in [Producers -> Packet \cup {NoPacket}]
  /\ txQueue \in Seq(Packet)
  /\ sent \in Seq([packet : Packet, written : 0 .. FrameLen])
  /\ framesTx \in Nat /\ bytesRx \in Nat /\ framesRx \in Nat /\ crcErrors \in Nat
  /\ seqGaps \in Nat /\ expectedSeq \in 0 .. SeqMod
  /\ rxBuf \in Frame \cup {Corrupt}
  /\ rxQueue \in Seq(Frame) /\ received \in Seq(Frame)

\* The frames on their way out, in the order they reach the wire.
Line == [i \in 1 .. Len(sent) |-> sent[i].packet] \o txQueue

\* Of the positions 0, 1, 2, ... at which _next_seq was called, each is burned,
\* in one producer's hand, in one place of tx_queue or with the tx thread once.
PositionsOnce ==
  /\ 0 .. alloc - 1 = burned \cup HandNs \cup QueueNs \cup SentNs
  /\ burned \cap (HandNs \cup QueueNs \cup SentNs) = {}
  /\ HandNs \cap (QueueNs \cup SentNs) = {} /\ QueueNs \cap SentNs = {}
  /\ \A p, q \in InHand : hand[p].n = hand[q].n => p = q
  /\ \A i, j \in 1 .. Len(txQueue) : txQueue[i].n = txQueue[j].n => i = j
  /\ \A i, j \in 1 .. Len(sent) : sent[i].packet.n = sent[j].packet.n => i = j

\* Every frame carries the sequence number of its position, modulo the counter's size.
Numbered ==
  /\ \A p \in InHand : hand[p].frame.seq = hand[p].n % SeqMod
  /\ \A i \in 1 .. Len(Line) : Line[i].frame.seq = Line[i].n % SeqMod

\* Every sequence number ever taken by _next_seq is burned by a failed pack or
\* on exactly one frame, in one producer's hand, in tx_queue or with the tx
\* thread: none is lost between the lock and the queue, and none is used for two
\* frames before the counter has gone round.
EveryNumberOnce == PositionsOnce /\ Numbered

\* Frames of one thread leave in the order it produced them, though frames of
\* different threads may overtake each other between _next_seq and put.
ProducerOrder ==
  /\ \A i, j \in 1 .. Len(Line) :
       i < j /\ Line[i].by = Line[j].by => Line[i].n < Line[j].n
  /\ \A i \in 1 .. Len(Line), p \in InHand : Line[i].by = p => Line[i].n < hand[p].n

\* How far sequence numbers can leave out of order: when a frame leaves, the
\* smaller numbers still to come are at most one per other producer, whatever
\* the threads' interleaving.
BoundedReorder ==
  \A i \in 1 .. Len(Line) :
    Cardinality({k \in 0 .. Line[i].n - 1 :
                   k \notin burned /\ \A j \in 1 .. i : Line[j].n # k})
      < Cardinality(Producers)

\* The receive counters agree with what was received: every buffer read is
\* counted once, as a frame or as an error; expected_seq is one past the
\* highest number seen; seq_gaps counts the frames that jumped past it.
RxAccounting ==
  LET Before(i) == {received[j].seq + 1 : j \in 1 .. i - 1} \cup {0}
      Jumps(i)  == \A b \in Before(i) : received[i].seq > b
  IN /\ bytesRx = framesRx + crcErrors + (IF pc["rx"] = "unpack" THEN 1 ELSE 0)
     /\ framesRx = Len(received)
     /\ expectedSeq \in Before(framesRx + 1)
     /\ \A b \in Before(framesRx + 1) : b <= expectedSeq
     /\ seqGaps = Cardinality({i \in 1 .. framesRx : Jumps(i)})

\* How many elements of S come up to i.
Rank(i, S) == Cardinality({j \in S : j <= i})

\* x is f as the daemon relays it: one hop further, marked, with x's own number.
IsRelay(x, f) == x.frame = [f EXCEPT !.hop = @ + 1, !.flags = @ \cup {"FWD"},
                                     !.seq = x.n % SeqMod]

\* The frames received that rx has dealt with, and those of them in transit
\* that arrived with the hop limit.
Settled == 1 .. Len(received) - (IF pc["rx"] = "route" THEN 1 ELSE 0)
AtLimit == {i \in Settled : received[i].dst \notin {NodeId, Broadcast} /\ received[i].hop = MaxHop}

\* Each frame has one fate, in order: delivered once if it is local; forwarded
\* once with its hop count and FWD flag set and all else intact if it is in
\* transit below the hop limit or one of `edge`; dropped otherwise.
RoutedWith(edge) ==
  LET mine    == {i \in Settled : received[i].dst \in {NodeId, Broadcast}}
      transit == edge \cup {i \in Settled : i \notin mine /\ received[i].hop < MaxHop}
      relayed == {i \in 1 .. Len(Line) : Line[i].by = "rx"}
  IN /\ Len(rxQueue) = Cardinality(mine)
     /\ \A i \in mine : rxQueue[Rank(i, mine)] = received[i]
     /\ Cardinality(transit) = Cardinality(relayed) + (IF "rx" \in InHand THEN 1 ELSE 0)
     /\ \A i \in transit :
          /\ \A j \in relayed :
               Rank(j, relayed) = Rank(i, transit) => IsRelay(Line[j], received[i])
          /\ "rx" \in InHand /\ Rank(i, transit) = Cardinality(transit)
               => IsRelay(hand["rx"], received[i])

\* Every frame counted is delivered, forwarded or dropped, as its destination
\* and its hop count say.  What becomes of a frame in transit that arrives with
\* the limit itself is left open: the code drops it, and the documents disagree
\* (see RelaysUpToLimit).
RoutedOnce == \E edge \in SUBSET AtLimit : RoutedWith(edge)

\* The documents' forwarding rule, "if hop_count > 15, drop": a frame in transit
\* that arrives with hop count 15 is forwarded like those below.  The code, whose
\* test is f.hop < 15, drops it.
RelaysUpToLimit == RoutedWith(AtLimit)

\* frames_tx counts exactly the frames ep1 took to the last piece, even when a
\* write blocks, fails half way or is cut short by stop(); only the tx thread's
\* count of the current frame may be due.
TxAccounting ==
  LET due == pc["tx"] \in {"test", "count"} /\ written = FrameLen
  IN Cardinality({i \in 1 .. Len(sent) : sent[i].written = FrameLen})
       = framesTx + (IF due THEN 1 ELSE 0)

\* Once a number is taken its frame reaches the tx thread, unless pack refused
\* it or the daemon is stopped: no thread's death or wait blocks the queue.
Drained ==
  \A k \in 0 .. MaxAlloc - 1 : k < alloc ~> (k \in burned \cup SentNs \/ ~running)
=============================================================================
