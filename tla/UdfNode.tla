------------------------------- MODULE UdfNode -------------------------------
(***************************************************************************)
(* The dual-cable node (UDFNode of src/src/common/node.py): one process    *)
(* with a gadget cable to one neighbour and a host cable to the other.     *)
(* Two rx threads read the cables, deliver or forward; application threads *)
(* send; one tx thread writes to the host cable; a heartbeat thread takes  *)
(* a number and dies (frame.pack_heartbeat does not exist).  Numbering,    *)
(* queueing and counting a frame are three separate critical sections.     *)
(* start() and stop() may be called again and again; stop() joins the      *)
(* threads before it closes the cables.                                    *)
(***************************************************************************)
EXTENDS Integers, Sequences, FiniteSets

CONSTANTS
  NodeId, Broadcast, Peers,
  Senders,    \* application threads that call send()
  OnMain,     \* those of them that are the main thread, where signals are handled
  Inbound,    \* the frames a neighbour may send
  NoFrame,    \* stands for "no frame at hand"
  SeqMod,     \* 2^32: frame.pack refuses a number that is not below it
  MaxHop,     \* 15
  MaxAlloc, MaxReads, MaxStarts  \* bounds: numbers send() can take, frames read, start() calls

Cables    == {"gadget", "host"}
RxThreads == {"gadgetRx", "hostRx"}
Cable(r)  == IF r = "gadgetRx" THEN "gadget" ELSE "host"
Own       == RxThreads \cup {"tx", "hb"}
Producers == Senders \cup RxThreads
Threads   == Senders \cup Own

Dest   == Peers \cup {NodeId, Broadcast}
Frame  == [src : Peers \cup {NodeId}, dst : Dest, hop : 0 .. 255, fwd : BOOLEAN]
Packet == [by : Producers, seq : Nat, frame : Frame]

ASSUME NodeConstants ==
  /\ SeqMod \in Nat /\ MaxHop \in 0 .. 255
  /\ MaxAlloc \in Nat /\ MaxReads \in Nat /\ MaxStarts \in Nat
  /\ IsFiniteSet(Senders) /\ Senders \cap Own = {} /\ OnMain \subseteq Senders /\ Inbound \subseteq Frame
  /\ NoFrame \notin Frame /\ NoFrame \notin Packet

VARIABLES
  phase,      \* "idle": no threads; "up"; "joining": inside stop(); "exited"
  lockHeld,   \* self._lock is held by the main thread, which is inside the signal handler
  running,    \* self._running
  fd,         \* each cable's descriptor: "none", "open", or "stale" after close
  pc,         \* where each thread stands
  seqHostTx,  \* self._seq_host_tx
  hand,       \* the packed frame a producer has not queued yet
  txQueue,    \* self._tx_queue
  rxHand,     \* the frame an rx thread is routing
  rxQueue,    \* self._rx_queue
  taken,      \* the packet tx has taken from the queue
  framesRx, framesTx, forwarded, dropped,  \* self._stats
  wire,       \* history: packets written to the host cable's descriptor, in order
  gone,       \* history: packets tx took and did not write: no cable, or OSError
  burned,     \* history: numbers whose frame was never packed
  hopDrops, errorDrops, diedHolding,  \* history: why frames vanished
  recvd, reads, starts  \* history: recv() results, frames read, start() calls

mainVars  == <<phase, running, fd, starts, lockHeld>>
seqVars   == <<seqHostTx, burned, hand>>
rxCounts  == <<rxQueue, framesRx, recvd, reads, diedHolding>>
rxVars    == <<rxHand, rxCounts>>
dropVars  == <<dropped, hopDrops, errorDrops>>
countVars == <<framesTx, forwarded>>
outVars   == <<taken, wire, gone>>
vars      == <<mainVars, pc, seqVars, txQueue, rxVars, dropVars, countVars, outVars>>

Init ==
  /\ phase = "idle" /\ running = FALSE /\ fd = [c \in Cables |-> "none"] /\ starts = 0
  /\ lockHeld = FALSE
  /\ pc = [t \in Threads |-> IF t \in Senders THEN "ready" ELSE "off"]
  /\ seqHostTx = 0 /\ burned = {} /\ hand = [p \in Producers |-> NoFrame]
  /\ txQueue = <<>> /\ taken = NoFrame /\ wire = <<>> /\ gone = <<>>
  /\ rxHand = [r \in RxThreads |-> NoFrame] /\ rxQueue = <<>>
  /\ framesRx = 0 /\ recvd = 0 /\ reads = 0 /\ diedHolding = 0
  /\ dropped = 0 /\ hopDrops = 0 /\ errorDrops = 0 /\ framesTx = 0 /\ forwarded = 0

Goto(t, l) == pc' = [pc EXCEPT ![t] = l]

-----------------------------------------------------------------------------
(* start() and stop().                                                      *)

\* Descriptors of the cables that are plugged; an absent one keeps its old value.
Opened(plugged) == [c \in Cables |-> IF c \in plugged THEN "open" ELSE fd[c]]

\* Data can pass through c's descriptor: it is open, or it is a closed one whose
\* number open() has meanwhile given to the other cable.  Nothing in the program
\* tells whether it has: a stale descriptor may work then, and it may fail.
Usable(c) == fd[c] = "open" \/ (fd[c] = "stale" /\ \E d \in Cables : fd[d] = "open")

\* Mutant: a restart begins the numbers anew, with old frames still queued.
StartResetsSeq(plugged) ==
  /\ phase = "idle" /\ phase' = "up" /\ running' = TRUE
  /\ starts < MaxStarts /\ starts' = starts + 1
  /\ fd' = Opened(plugged) /\ seqHostTx' = 0
  /\ pc' = [t \in Threads |-> IF t \in Own THEN "top" ELSE pc[t]]
  /\ UNCHANGED <<lockHeld, burned, hand, txQueue, rxVars, dropVars, countVars, outVars>>

Start(plugged) ==
  /\ phase = "idle" /\ phase' = "up" /\ running' = TRUE
  /\ starts < MaxStarts /\ starts' = starts + 1
  /\ fd' = Opened(plugged)
  /\ pc' = [t \in Threads |-> IF t \in Own THEN "top" ELSE pc[t]]
  /\ UNCHANGED <<lockHeld, seqVars, txQueue, rxVars, dropVars, countVars, outVars>>

\* os.open raises: no thread is started. The host device is opened last, so at
\* most the gadget cable is left open.
StartFails(plugged) ==
  /\ phase = "idle" /\ running' = TRUE
  /\ starts < MaxStarts /\ starts' = starts + 1
  /\ fd' = Opened(plugged)
  /\ UNCHANGED <<phase, lockHeld, pc, seqVars, txQueue, rxVars, dropVars, countVars, outVars>>

StopFlag ==
  /\ phase \in {"up", "idle"} /\ starts > 0 /\ phase' = "joining" /\ running' = FALSE
  /\ UNCHANGED <<fd, starts, lockHeld, pc, seqVars, txQueue, rxVars, dropVars, countVars, outVars>>

Over == {"off", "done", "dead"}

\* Mutant: joins without a timeout.
JoinedUntimed == \A t \in Own : pc[t] \in Over

\* The joins return: no thread waits longer than 100 ms before it looks at the
\* flag, except for the lock, and then the join gives up after two seconds.
Joined == (\A t \in Own : pc[t] \in Over) \/ lockHeld

\* The descriptors are closed; they are not set back to None.  The handler ends
\* with sys.exit, which leaves send() and its lock.
StopClose ==
  /\ phase = "joining" /\ Joined
  /\ phase' = (IF lockHeld THEN "exited" ELSE "idle") /\ lockHeld' = FALSE
  /\ fd' = [c \in Cables |-> IF fd[c] = "none" THEN "none" ELSE "stale"]
  /\ UNCHANGED <<running, starts, pc, seqVars, txQueue, rxVars, dropVars, countVars, outVars>>

-----------------------------------------------------------------------------
(* Numbering, queueing and counting a frame: send() and forward().          *)

\* The number is taken under the lock, unmasked; frame.pack follows outside it
\* and raises struct.error for a number or a payload it cannot hold.
NextSeq == ~lockHeld /\ seqHostTx' = seqHostTx + 1

Pack(p, f) ==
  /\ NextSeq /\ seqHostTx < SeqMod
  /\ hand' = [hand EXCEPT ![p] = [by |-> p, seq |-> seqHostTx, frame |-> f]]
  /\ Goto(p, "put") /\ UNCHANGED burned

PackFails == NextSeq /\ burned' = burned \cup {seqHostTx} /\ UNCHANGED hand

Data(d)      == [src |-> NodeId, dst |-> d, hop |-> 0, fwd |-> FALSE]
ForwardedDown(f) == [f EXCEPT !.hop = @ - 1, !.fwd = TRUE]  \* mutant: as a TTL
Forwarded(f) == [f EXCEPT !.hop = @ + 1, !.fwd = TRUE]

Send(s, d) ==
  /\ pc[s] = "ready" /\ seqHostTx < MaxAlloc /\ Pack(s, Data(d))
  /\ UNCHANGED <<mainVars, txQueue, rxVars, dropVars, countVars, outVars>>

\* The caller of send() gets the exception; the payload may be the reason too.
SendFails(s) ==
  /\ pc[s] = "ready" /\ seqHostTx < MaxAlloc /\ PackFails
  /\ UNCHANGED <<mainVars, pc, txQueue, rxVars, dropVars, countVars, outVars>>

Put(p) ==
  /\ pc[p] = "put" /\ Goto(p, "count")
  /\ txQueue' = Append(txQueue, hand[p])
  /\ hand' = [hand EXCEPT ![p] = NoFrame]
  /\ UNCHANGED <<mainVars, seqHostTx, burned, rxVars, dropVars, countVars, outVars>>

\* Mutant: forward() counts the frame as sent, as send() does.
CountForwardAsSent(p) ==
  /\ pc[p] = "count" /\ ~lockHeld /\ Goto(p, IF p \in Senders THEN "ready" ELSE "top")
  /\ framesTx' = framesTx + 1 /\ forwarded' = forwarded
  /\ UNCHANGED <<mainVars, seqVars, txQueue, rxVars, dropVars, outVars>>

Count(p) ==
  /\ pc[p] = "count" /\ ~lockHeld /\ Goto(p, IF p \in Senders THEN "ready" ELSE "top")
  /\ framesTx' = framesTx + (IF p \in Senders THEN 1 ELSE 0)
  /\ forwarded' = forwarded + (IF p \in RxThreads THEN 1 ELSE 0)
  /\ UNCHANGED <<mainVars, seqVars, txQueue, rxVars, dropVars, outVars>>

\* A signal finds the main thread inside a critical section of send(), before
\* or after the number is taken or the frame is counted: its handler calls
\* stop() there, and send() goes no further.
Interrupt(s) ==
  /\ phase = "up" /\ phase' = "joining" /\ running' = FALSE /\ lockHeld' = TRUE
  /\ \/ pc[s] = "ready" /\ (PackFails \/ UNCHANGED seqVars) /\ UNCHANGED countVars
     \/ pc[s] = "count" /\ framesTx' \in {framesTx, framesTx + 1} /\ UNCHANGED <<forwarded, seqVars>>
  /\ Goto(s, "dead")
  /\ UNCHANGED <<fd, starts, txQueue, rxVars, dropVars, outVars>>

-----------------------------------------------------------------------------
LoopTest(t, body) ==
  /\ pc[t] = "top" /\ Goto(t, IF running THEN body ELSE "done")
  /\ UNCHANGED <<mainVars, seqVars, txQueue, rxVars, dropVars, countVars, outVars>>

(* The rx threads.                                                          *)

\* No descriptor, no data, an OSError (EAGAIN and EBADF too) or a frame that
\* unpack rejects: nothing is counted.
ReadNothing(r) ==
  /\ pc[r] = "read" /\ Goto(r, "top")
  /\ UNCHANGED <<mainVars, seqVars, txQueue, rxVars, dropVars, countVars, outVars>>

Read(r, f) ==
  /\ pc[r] = "read" /\ Usable(Cable(r)) /\ ~lockHeld /\ Goto(r, "route")
  /\ reads < MaxReads /\ reads' = reads + 1
  /\ framesRx' = framesRx + 1
  /\ rxHand' = [rxHand EXCEPT ![r] = f]
  /\ UNCHANGED <<mainVars, seqVars, txQueue, rxQueue, recvd, diedHolding, dropVars, countVars, outVars>>

Local(f) == f.dst \in {NodeId, Broadcast}

\* The frame is a local of the loop's body: nothing looks at it once it is routed.
Routed(r) == rxHand' = [rxHand EXCEPT ![r] = NoFrame]

Deliver(r) ==
  /\ pc[r] = "route" /\ Local(rxHand[r]) /\ Goto(r, "top")
  /\ rxQueue' = Append(rxQueue, rxHand[r]) /\ Routed(r)
  /\ UNCHANGED <<mainVars, seqVars, txQueue, framesRx, recvd, reads, diedHolding,
                 dropVars, countVars, outVars>>

\* The application takes the oldest frame; an empty queue gives None.
Recv ==
  /\ rxQueue # <<>> /\ rxQueue' = Tail(rxQueue) /\ recvd' = recvd + 1
  /\ UNCHANGED <<mainVars, pc, seqVars, txQueue, rxHand, framesRx, reads, diedHolding,
                 dropVars, countVars, outVars>>

\* forward(): the hop limit is counted, whichever cable the frame came by it
\* leaves on the host cable.
HopDrop(r) ==
  /\ pc[r] = "route" /\ ~Local(rxHand[r]) /\ rxHand[r].hop >= MaxHop /\ ~lockHeld /\ Goto(r, "top")
  /\ dropped' = dropped + 1 /\ hopDrops' = hopDrops + 1 /\ Routed(r)
  /\ UNCHANGED <<mainVars, seqVars, txQueue, rxCounts, errorDrops, countVars, outVars>>

Forward(r) ==
  /\ pc[r] = "route" /\ ~Local(rxHand[r]) /\ rxHand[r].hop < MaxHop
  /\ Pack(r, Forwarded(rxHand[r])) /\ Routed(r)
  /\ UNCHANGED <<mainVars, txQueue, rxCounts, dropVars, countVars, outVars>>

\* struct.error is neither OSError nor ValueError: the rx thread ends.
ForwardDies(r) ==
  /\ pc[r] = "route" /\ ~Local(rxHand[r]) /\ rxHand[r].hop < MaxHop
  /\ seqHostTx >= SeqMod /\ PackFails /\ Goto(r, "dead")
  /\ diedHolding' = diedHolding + 1 /\ Routed(r)
  /\ UNCHANGED <<mainVars, txQueue, rxQueue, framesRx, recvd, reads, dropVars,
                 countVars, outVars>>

-----------------------------------------------------------------------------
(* The tx and heartbeat threads.                                            *)

GetTimesOut ==
  /\ pc["tx"] = "get" /\ txQueue = <<>> /\ Goto("tx", "top")
  /\ UNCHANGED <<mainVars, seqVars, txQueue, rxVars, dropVars, countVars, outVars>>

Get ==
  /\ pc["tx"] = "get" /\ txQueue # <<>> /\ Goto("tx", "write")
  /\ taken' = Head(txQueue) /\ txQueue' = Tail(txQueue)
  /\ UNCHANGED <<mainVars, seqVars, rxVars, dropVars, countVars, wire, gone>>

\* The result of os.write is not looked at: a short write passes for a whole one.
Write ==
  /\ pc["tx"] = "write" /\ Usable("host") /\ Goto("tx", "top")
  /\ wire' = Append(wire, taken) /\ taken' = NoFrame
  /\ UNCHANGED <<mainVars, seqVars, txQueue, rxVars, dropVars, countVars, gone>>

\* Mutant: a failed write is not counted.
WriteFailsUncounted ==
  /\ pc["tx"] = "write" /\ fd["host"] # "none" /\ Goto("tx", "top")
  /\ gone' = Append(gone, taken) /\ taken' = NoFrame
  /\ errorDrops' = errorDrops + 1
  /\ UNCHANGED <<mainVars, seqVars, txQueue, rxVars, dropped, hopDrops, countVars, wire>>

\* Mutant: a frame the cable would not take goes back to the end of the queue.
WriteFailsRequeues ==
  /\ pc["tx"] = "write" /\ fd["host"] # "none" /\ Goto("tx", "top")
  /\ txQueue' = Append(txQueue, taken) /\ taken' = NoFrame
  /\ UNCHANGED <<mainVars, seqVars, rxVars, dropVars, countVars, wire, gone>>

\* An OSError, a full non-blocking descriptor's EAGAIN included: the frame is
\* dropped and counted.
WriteFails ==
  /\ pc["tx"] = "write" /\ fd["host"] # "none" /\ ~lockHeld /\ Goto("tx", "top")
  /\ gone' = Append(gone, taken) /\ taken' = NoFrame
  /\ dropped' = dropped + 1 /\ errorDrops' = errorDrops + 1
  /\ UNCHANGED <<mainVars, seqVars, txQueue, rxVars, hopDrops, countVars, wire>>

\* No host cable: the frame is discarded, and not counted.
WriteNowhere ==
  /\ pc["tx"] = "write" /\ fd["host"] = "none" /\ Goto("tx", "top")
  /\ gone' = Append(gone, taken) /\ taken' = NoFrame
  /\ UNCHANGED <<mainVars, seqVars, txQueue, rxVars, dropVars, countVars, wire>>

\* The number is taken, then AttributeError ends the thread.
Heartbeat ==
  /\ pc["hb"] = "beat" /\ PackFails /\ Goto("hb", "dead")
  /\ UNCHANGED <<mainVars, txQueue, rxVars, dropVars, countVars, outVars>>

-----------------------------------------------------------------------------
MainNext  == \/ \E plugged \in SUBSET Cables : Start(plugged)
             \/ \E plugged \in SUBSET {"gadget"} : StartFails(plugged)
             \/ StopFlag \/ StopClose \/ \E s \in OnMain : Interrupt(s)
AppNext   == Recv \/ \E s \in Senders : SendFails(s) \/ \E d \in Peers : Send(s, d)
Queueing  == \E p \in Producers : Put(p) \/ Count(p)
RxInput(r) == \E f \in Inbound : Read(r, f)
RxNext(r) == \/ LoopTest(r, "read") \/ ReadNothing(r) \/ RxInput(r) \/ Deliver(r)
             \/ HopDrop(r) \/ Forward(r) \/ ForwardDies(r)
TxNext    == \/ LoopTest("tx", "get") \/ GetTimesOut \/ Get
             \/ Write \/ WriteFails \/ WriteNowhere
HbNext    == LoopTest("hb", "beat") \/ Heartbeat

Next == MainNext \/ AppNext \/ Queueing \/ TxNext \/ HbNext \/ \E r \in RxThreads : RxNext(r)

Spec == Init /\ [][Next]_vars

\* Threads run: every call they make returns (O_NONBLOCK descriptors, a get
\* with a timeout, a lock never held across a call that waits), so each comes
\* back to its loop test.
Fairness ==
  /\ WF_vars(StopClose) /\ WF_vars(TxNext) /\ WF_vars(HbNext)
  /\ \A p \in Producers : WF_vars(Put(p)) /\ WF_vars(Count(p))
  /\ \A r \in RxThreads : WF_vars(RxNext(r))
FairSpec == Spec /\ Fairness

-----------------------------------------------------------------------------
InHand   == {p \in Producers : hand[p] # NoFrame}
TakenSeq == IF taken = NoFrame THEN <<>> ELSE <<taken>>

\* Everything queued so far that tx has or had, then what it will take.
Queued == gone \o wire \o TakenSeq \o txQueue

\* The order in which packets reach the cable.
Line == wire \o TakenSeq \o txQueue

\* The types of the node's fields, its threads' locals and the history.
TypeOK ==
  /\ phase \in {"idle", "up", "joining", "exited"} /\ running \in BOOLEAN
  /\ lockHeld \in BOOLEAN /\ (lockHeld => phase = "joining")
  /\ fd \in [Cables -> {"none", "open", "stale"}]
  /\ pc \in [Threads -> {"off", "ready", "top", "put", "count", "read", "route",
                         "get", "write", "beat", "done", "dead"}]
  /\ seqHostTx \in Nat /\ burned \in SUBSET (0 .. seqHostTx - 1)
  /\ hand \in [Producers -> Packet \cup {NoFrame}]
  /\ taken \in Packet \cup {NoFrame}
  /\ txQueue \in Seq(Packet) /\ wire \in Seq(Packet) /\ gone \in Seq(Packet)
  /\ rxHand \in [RxThreads -> Frame \cup {NoFrame}] /\ rxQueue \in Seq(Frame)
  /\ framesRx \in Nat /\ framesTx \in Nat /\ forwarded \in Nat /\ diedHolding \in Nat
  /\ dropped \in Nat /\ hopDrops \in Nat /\ errorDrops \in Nat
  /\ recvd \in Nat /\ reads \in Nat /\ starts \in Nat

\* Every number taken from the shared counter by send(), forward() and the
\* heartbeat is burned, in one thread's hand, or on exactly one frame: through
\* restarts too, since neither the counter nor the queue is reset.
EveryNumberOnce ==
  LET handSeqs == {hand[p].seq : p \in InHand}
      outSeqs  == {Queued[i].seq : i \in 1 .. Len(Queued)}
  IN /\ 0 .. seqHostTx - 1 = burned \cup handSeqs \cup outSeqs
     /\ burned \cap (handSeqs \cup outSeqs) = {} /\ handSeqs \cap outSeqs = {}
     /\ \A p, q \in InHand : hand[p].seq = hand[q].seq => p = q
     /\ \A i, j \in 1 .. Len(Queued) : Queued[i].seq = Queued[j].seq => i = j

\* What one thread sends leaves on the cable in the order it sent it, although
\* failed writes leave holes and the daemon may be stopped and started between.
ProducerOrder ==
  \A i, j \in 1 .. Len(Line) :
    i < j /\ Line[i].by = Line[j].by => Line[i].seq < Line[j].seq

\* The transmit counters split the queued frames by origin, at every moment but
\* for the threads between put and their count: frames_tx is the application's
\* share, forwarded the relayed share.  Only a caller of send() whom the signal
\* handler never returns to may have queued a frame and not counted it.
TxStats ==
  LET by(P)  == Cardinality({i \in 1 .. Len(Queued) : Queued[i].by \in P})
      due(P) == Cardinality({p \in P : pc[p] = "count"})
      cut    == Cardinality({s \in OnMain : pc[s] = "dead"})
  IN /\ by(Senders) - (framesTx + due(Senders)) \in 0 .. cut
     /\ by(RxThreads) = forwarded + due(RxThreads)

\* Every received frame has one fate: delivered, relayed, dropped at the hop
\* limit, still being handled, or lost with the thread that died on it; and
\* dropped adds up the hop limit and the failed writes.
RxStats ==
  LET busy == Cardinality({r \in RxThreads : pc[r] \in {"route", "put", "count"}})
  IN /\ framesRx = Len(rxQueue) + recvd + forwarded + hopDrops + diedHolding + busy
     /\ dropped = hopDrops + errorDrops

\* stop() returns: every thread comes back to its loop test and sees the flag,
\* or the joins give up on it, when the handler interrupted a holder of the lock
\* the threads wait for.
StopReturns == phase = "joining" ~> phase # "joining"
=============================================================================
