------------------------------- MODULE UdfHost -------------------------------
(***************************************************************************)
(* The host daemon (UDFHost of src/src/host/udf_host.py): the host side of *)
(* one USB link.  The tx and hb threads number a frame under the lock and  *)
(* write it to the device after releasing it; the rx thread reads.  The    *)
(* counters tx_frames and timeouts are updated by several threads without  *)
(* a lock: reading and storing are two steps.  The main thread opens the   *)
(* device, runs, and closes it without waiting for the other threads.      *)
(* The device is the environment: a bulk transfer succeeds, fails, or      *)
(* times out whether or not the device took the frame.                     *)
(***************************************************************************)
EXTENDS Integers, Sequences, FiniteSets

CONSTANTS
  SeqMod,       \* 2^32: struct.pack refuses a number that is not below it
  NoFrame,      \* stands for "no frame at hand"
  MaxSends,     \* bound: payloads the application sends
  MaxAlloc,     \* bound: sequence numbers taken
  MaxReads,     \* bound: buffers read
  MaxTimeouts   \* bound: transfers that time out

Writers == {"tx", "hb"}
Threads == Writers \cup {"rx"}

\* A payload is its place in the order of send() calls, with whether its
\* length fits the 16-bit field; a frame is its number and its payload.
Payload == [id : Nat, fits : BOOLEAN]
Frame   == [seq : Nat, hb : BOOLEAN, payload : Payload]
NoPayload == [id |-> 0, fits |-> TRUE]

ASSUME HostConstants ==
  /\ SeqMod \in Nat \ {0} /\ NoFrame \notin Frame
  /\ MaxSends \in Nat /\ MaxAlloc \in Nat /\ MaxReads \in Nat /\ MaxTimeouts \in Nat

VARIABLES
  phase,      \* main(): "init", "open", "run", "stop", "released", "exited", "failed", "crashed"
  running,    \* self._running
  handle,     \* self._handle is set
  signalled,  \* history: a signal was handled: "no", "early" (before run()), "running"
  pc,         \* where each thread stands
  tmp,        \* the counter value a thread has read and is about to store back
  popped,     \* the payload tx has taken from the queue
  hand,       \* the frame a writer has numbered and not finished writing
  txQueue,    \* self._tx_queue
  txSeq,      \* self._tx_seq
  txFrames, timeouts,
  rxFrames, rxHb, crcErrors,
  rxQueue,    \* self._rx_queue
  wire,       \* history: frames the device took, in order
  lost,       \* history: numbers whose frame was not packed or not taken
  sends, reads, expiries  \* history: send() calls, buffers read, timed-out transfers

mainVars == <<phase, running, handle, signalled>>
seqVars  == <<txSeq, popped, hand, wire, lost>>
rxVars   == <<rxFrames, rxHb, crcErrors, rxQueue, reads>>
cntVars  == <<txFrames, timeouts, tmp, expiries>>
vars     == <<mainVars, pc, seqVars, txQueue, sends, cntVars, rxVars>>

Init ==
  /\ phase = "init" /\ running = FALSE /\ handle = FALSE /\ signalled = "no"
  /\ pc = [t \in Threads |-> "off"] /\ tmp = [t \in Threads |-> 0]
  /\ popped = NoPayload /\ hand = [t \in Writers |-> NoFrame]
  /\ txQueue = <<>> /\ txSeq = 0 /\ wire = <<>> /\ lost = {}
  /\ txFrames = 0 /\ timeouts = 0 /\ expiries = 0 /\ sends = 0
  /\ rxFrames = 0 /\ rxHb = 0 /\ crcErrors = 0 /\ rxQueue = <<>> /\ reads = 0

Goto(t, l) == pc' = [pc EXCEPT ![t] = l]

-----------------------------------------------------------------------------
(* The main thread.                                                         *)

Open ==
  /\ phase = "init" /\ phase' = "open" /\ handle' = TRUE
  /\ UNCHANGED <<running, signalled, pc, seqVars, txQueue, sends, cntVars, rxVars>>

\* libusb_init, the device or the interface is missing: the process ends.
OpenFails ==
  /\ phase = "init" /\ phase' = "failed"
  /\ UNCHANGED <<running, handle, signalled, pc, seqVars, txQueue, sends, cntVars, rxVars>>

\* Mutant: the handler only prints.
SignalIgnored ==
  /\ signalled = "no" /\ phase \in {"init", "open", "run"}
  /\ signalled' = IF phase = "run" THEN "running" ELSE "early"
  /\ UNCHANGED <<running, phase, handle, pc, seqVars, txQueue, sends, cntVars, rxVars>>

\* The signal handlers are installed before open().
Signal ==
  /\ signalled = "no" /\ phase \in {"init", "open", "run"}
  /\ signalled' = IF phase = "run" THEN "running" ELSE "early"
  /\ running' = FALSE
  /\ UNCHANGED <<phase, handle, pc, seqVars, txQueue, sends, cntVars, rxVars>>

Run ==
  /\ phase = "open" /\ phase' = "run" /\ running' = TRUE
  /\ pc' = [t \in Threads |-> "top"]
  /\ UNCHANGED <<handle, signalled, seqVars, txQueue, sends, cntVars, rxVars>>

\* run() leaves its wait (flag seen, KeyboardInterrupt, or the duration is
\* over) and calls stop().
Stop ==
  /\ phase = "run" /\ phase' = "stop" /\ running' = FALSE
  /\ UNCHANGED <<handle, signalled, pc, seqVars, txQueue, sends, cntVars, rxVars>>

Close ==
  /\ phase = "stop" /\ phase' = "released" /\ handle' = FALSE
  /\ UNCHANGED <<running, signalled, pc, seqVars, txQueue, sends, cntVars, rxVars>>

Exit ==
  /\ phase = "released" /\ phase' = "exited"
  /\ UNCHANGED <<running, handle, signalled, pc, seqVars, txQueue, sends, cntVars, rxVars>>

-----------------------------------------------------------------------------
(* Producing frames.                                                        *)

Send(fits) ==
  /\ sends < MaxSends /\ sends' = sends + 1
  /\ txQueue' = Append(txQueue, [id |-> sends + 1, fits |-> fits])
  /\ UNCHANGED <<mainVars, pc, seqVars, cntVars, rxVars>>

LoopTest(t, body) ==
  /\ pc[t] = "top" /\ Goto(t, IF running THEN body ELSE "done")
  /\ UNCHANGED <<mainVars, seqVars, txQueue, sends, cntVars, rxVars>>

Idle ==
  /\ pc["tx"] = "pop" /\ txQueue = <<>> /\ Goto("tx", "top")
  /\ UNCHANGED <<mainVars, seqVars, txQueue, sends, cntVars, rxVars>>

\* Mutant: the newest payload first.
PopNewest ==
  /\ pc["tx"] = "pop" /\ txQueue # <<>> /\ Goto("tx", "number")
  /\ popped' = txQueue[Len(txQueue)]
  /\ txQueue' = SubSeq(txQueue, 1, Len(txQueue) - 1)
  /\ UNCHANGED <<mainVars, txSeq, hand, wire, lost, sends, cntVars, rxVars>>

Pop ==
  /\ pc["tx"] = "pop" /\ txQueue # <<>> /\ Goto("tx", "number")
  /\ popped' = Head(txQueue) /\ txQueue' = Tail(txQueue)
  /\ UNCHANGED <<mainVars, txSeq, hand, wire, lost, sends, cntVars, rxVars>>

Numbered(t) == [seq |-> txSeq, hb |-> t = "hb",
                payload |-> IF t = "tx" THEN popped ELSE NoPayload]
Packs(f) == f.seq < SeqMod /\ f.payload.fits

\* The number is taken under the lock; the counter is not masked.
Number(t) ==
  /\ pc[t] = "number" /\ Packs(Numbered(t)) /\ Goto(t, "write")
  /\ txSeq < MaxAlloc /\ txSeq' = txSeq + 1
  /\ hand' = [hand EXCEPT ![t] = Numbered(t)]
  /\ UNCHANGED <<mainVars, popped, wire, lost, txQueue, sends, cntVars, rxVars>>

\* frame.pack raises struct.error, which no loop catches: the thread ends.
PackDies(t) ==
  /\ pc[t] = "number" /\ ~Packs(Numbered(t)) /\ Goto(t, "dead")
  /\ txSeq < MaxAlloc /\ txSeq' = txSeq + 1 /\ lost' = lost \cup {txSeq}
  /\ UNCHANGED <<mainVars, popped, hand, wire, txQueue, sends, cntVars, rxVars>>

-----------------------------------------------------------------------------
(* Bulk transfers.                                                          *)

BeginTransfer(t) ==
  /\ pc[t] \in {"write", "read"} /\ handle
  /\ Goto(t, IF pc[t] = "write" THEN "out" ELSE "in")
  /\ UNCHANGED <<mainVars, seqVars, txQueue, sends, cntVars, rxVars>>

\* A transfer begun with the released (NULL) handle ends the process; one that
\* close() overtakes runs on a freed context, and may.
Segfault(t) ==
  /\ pc[t] \in {"write", "read", "out", "in"} /\ phase = "released"
  /\ phase' = "crashed"
  /\ UNCHANGED <<running, handle, signalled, pc, seqVars, txQueue, sends, cntVars, rxVars>>

\* What the device makes of the frame of writer t.
Taken(t)   == wire' = Append(wire, hand[t]) /\ UNCHANGED lost
Refused(t) == lost' = lost \cup {hand[t].seq} /\ UNCHANGED wire

WriteDone(t) ==
  /\ pc[t] = "out" /\ Taken(t) /\ Goto(t, "sent")
  /\ hand' = [hand EXCEPT ![t] = NoFrame]
  /\ UNCHANGED <<mainVars, txSeq, popped, txQueue, sends, cntVars, rxVars>>

\* Mutant: a timed-out frame is written again.
WriteTimesOutRetries(t) ==
  /\ pc[t] = "out" /\ Goto(t, "write")
  /\ expiries < MaxTimeouts /\ expiries' = expiries + 1
  /\ (Taken(t) \/ UNCHANGED <<wire, lost>>)
  /\ UNCHANGED <<mainVars, txSeq, popped, hand, txQueue, sends, txFrames, timeouts, tmp, rxVars>>

\* The timeout may race the device: the frame can have been taken.
WriteTimesOut(t) ==
  /\ pc[t] = "out" /\ Goto(t, "expired")
  /\ expiries < MaxTimeouts /\ expiries' = expiries + 1
  /\ (Taken(t) \/ Refused(t))
  /\ hand' = [hand EXCEPT ![t] = NoFrame]
  /\ UNCHANGED <<mainVars, txSeq, popped, txQueue, sends, txFrames, timeouts, tmp, rxVars>>

WriteFails(t) ==
  /\ pc[t] = "out" /\ Refused(t) /\ Goto(t, "top")
  /\ hand' = [hand EXCEPT ![t] = NoFrame]
  /\ UNCHANGED <<mainVars, txSeq, popped, txQueue, sends, cntVars, rxVars>>

ReadTimesOut ==
  /\ pc["rx"] = "in" /\ Goto("rx", "expired")
  /\ expiries < MaxTimeouts /\ expiries' = expiries + 1
  /\ UNCHANGED <<mainVars, seqVars, txQueue, sends, txFrames, timeouts, tmp, rxVars>>

ReadFails ==
  /\ pc["rx"] = "in" /\ Goto("rx", "top")
  /\ UNCHANGED <<mainVars, seqVars, txQueue, sends, cntVars, rxVars>>

\* A buffer is read, unpacked and counted; only rx touches these counters.
Read(kind) ==
  /\ pc["rx"] = "in" /\ Goto("rx", "top")
  /\ reads < MaxReads /\ reads' = reads + 1
  /\ crcErrors' = crcErrors + (IF kind = "bad" THEN 1 ELSE 0)
  /\ rxFrames' = rxFrames + (IF kind # "bad" THEN 1 ELSE 0)
  /\ rxHb' = rxHb + (IF kind = "hb" THEN 1 ELSE 0)
  /\ rxQueue' = IF kind = "data" THEN Append(rxQueue, reads) ELSE rxQueue
  /\ UNCHANGED <<mainVars, seqVars, txQueue, sends, cntVars>>

\* self.tx_frames += 1 and self.timeouts += 1: read, then store.
LoadCounter(t) ==
  /\ pc[t] \in {"sent", "expired"}
  /\ tmp' = [tmp EXCEPT ![t] = IF pc[t] = "sent" THEN txFrames ELSE timeouts]
  /\ Goto(t, IF pc[t] = "sent" THEN "count" ELSE "countExpired")
  /\ UNCHANGED <<mainVars, seqVars, txQueue, sends, txFrames, timeouts, expiries, rxVars>>

\* Mutant: a timeout takes one off.
StoreCounterDown(t) ==
  /\ pc[t] \in {"count", "countExpired"} /\ Goto(t, "top")
  /\ txFrames' = IF pc[t] = "count" THEN tmp[t] + 1 ELSE txFrames
  /\ timeouts' = IF pc[t] = "countExpired" THEN tmp[t] - 1 ELSE timeouts
  /\ UNCHANGED <<mainVars, seqVars, txQueue, sends, tmp, expiries, rxVars>>

\* Mutant: a success counts twice.
StoreCounterTwice(t) ==
  /\ pc[t] \in {"count", "countExpired"} /\ Goto(t, "top")
  /\ txFrames' = IF pc[t] = "count" THEN tmp[t] + 2 ELSE txFrames
  /\ timeouts' = IF pc[t] = "countExpired" THEN tmp[t] + 1 ELSE timeouts
  /\ UNCHANGED <<mainVars, seqVars, txQueue, sends, tmp, expiries, rxVars>>

StoreCounter(t) ==
  /\ pc[t] \in {"count", "countExpired"} /\ Goto(t, "top")
  /\ txFrames' = IF pc[t] = "count" THEN tmp[t] + 1 ELSE txFrames
  /\ timeouts' = IF pc[t] = "countExpired" THEN tmp[t] + 1 ELSE timeouts
  /\ UNCHANGED <<mainVars, seqVars, txQueue, sends, tmp, expiries, rxVars>>

-----------------------------------------------------------------------------
MainNext == Open \/ OpenFails \/ Signal \/ Run \/ Stop \/ Close \/ Exit
WriterNext(t) == \/ Number(t) \/ PackDies(t) \/ BeginTransfer(t) \/ WriteDone(t)
                 \/ Segfault(t) \/ WriteTimesOut(t) \/ WriteFails(t) \/ LoadCounter(t) \/ StoreCounter(t)
TxNext   == LoopTest("tx", "pop") \/ Idle \/ Pop \/ WriterNext("tx")
HbNext   == LoopTest("hb", "number") \/ WriterNext("hb")
RxInput  == \E kind \in {"data", "hb", "bad"} : Read(kind)
RxNext   == \/ LoopTest("rx", "read") \/ BeginTransfer("rx") \/ Segfault("rx") \/ RxInput
            \/ ReadTimesOut \/ ReadFails \/ LoadCounter("rx") \/ StoreCounter("rx")
AppNext  == \E fits \in BOOLEAN : Send(fits)

Alive == phase \notin {"exited", "failed", "crashed"}
Next == MainNext \/ (Alive /\ (AppNext \/ TxNext \/ HbNext \/ RxNext))

Spec == Init /\ [][Next]_vars

\* The main thread runs; run() leaves its wait once the flag is down.
MainFairness == /\ WF_vars(Open \/ OpenFails) /\ WF_vars(Run)
                /\ WF_vars(~running /\ Stop) /\ WF_vars(Close) /\ WF_vars(Exit)
FairSpec == Spec /\ MainFairness

-----------------------------------------------------------------------------
Ended == ~Alive
HandSeqs == {hand[t].seq : t \in {u \in Writers : hand[u] # NoFrame}}
WireSeqs == {wire[i].seq : i \in 1 .. Len(wire)}

\* The types of the daemon's fields and of the history.
TypeOK ==
  /\ phase \in {"init", "open", "run", "stop", "released", "exited", "failed", "crashed"}
  /\ running \in BOOLEAN /\ handle \in BOOLEAN /\ signalled \in {"no", "early", "running"}
  /\ pc \in [Threads -> {"off", "top", "pop", "number", "write", "read", "out", "in",
               "sent", "expired", "count", "countExpired", "done", "dead"}]
  /\ tmp \in [Threads -> Nat] /\ popped \in Payload
  /\ hand \in [Writers -> Frame \cup {NoFrame}]
  /\ txQueue \in Seq(Payload) /\ txSeq \in 0 .. MaxAlloc
  /\ wire \in Seq(Frame) /\ lost \in SUBSET (0 .. MaxAlloc)
  /\ txFrames \in Nat /\ timeouts \in Nat /\ expiries \in Nat /\ sends \in Nat
  /\ rxFrames \in Nat /\ rxHb \in Nat /\ crcErrors \in Nat /\ reads \in Nat
  /\ rxQueue \in Seq(Nat)

\* Every number taken is in a writer's hand, lost, or on the wire once: a
\* timeout that races the device neither repeats a frame nor reuses a number.
EveryNumberOnce ==
  /\ 0 .. txSeq - 1 = HandSeqs \cup WireSeqs \cup lost
  /\ HandSeqs \cap WireSeqs = {} /\ HandSeqs \cap lost = {} /\ WireSeqs \cap lost = {}
  /\ \A i, j \in 1 .. Len(wire) : wire[i].seq = wire[j].seq => i = j
  /\ hand["tx"] # NoFrame /\ hand["hb"] # NoFrame => hand["tx"].seq # hand["hb"].seq

\* Data reaches the wire in the order of the send() calls.
DataInOrder ==
  \A i, j \in 1 .. Len(wire) :
    i < j /\ ~wire[i].hb /\ ~wire[j].hb => wire[i].payload.id < wire[j].payload.id

\* The unlocked counters lose updates but never invent one: tx_frames and
\* timeouts never exceed what really happened.
CountersUnderReport == txFrames <= Len(wire) /\ timeouts <= expiries

\* A signal that finds run() started ends the daemon: the flag it clears stays
\* clear and the main thread sees it, whatever the other threads are doing.
RunningSignalStops == signalled = "running" ~> Ended

\* The handler's own words, "Signal {sig}, shutting down..."
\* (src/src/host/udf_host.py:228): a handled signal ends the daemon.
SignalStops == signalled # "no" ~> Ended
=============================================================================
