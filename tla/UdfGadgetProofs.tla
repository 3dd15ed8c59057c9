---------------------------- MODULE UdfGadgetProofs ----------------------------
(***************************************************************************)
(* Proofs about the gadget daemon, for every number of application         *)
(* threads, every set of inbound frames and every bound: its types, its    *)
(* numbers and their order, then what it counts, reorders and routes.      *)
(***************************************************************************)
EXTENDS UdfGadget, FiniteSetTheorems, TLAPS

\* What ties the threads' positions to their locals.
Control ==
  /\ \A p \in Producers : (pc[p] = "put") <=> (hand[p] # NoPacket)
  /\ \A p \in Producers : hand[p] # NoPacket => hand[p].by = p
  /\ pc["tx"] \in {"test", "write", "count"} => Len(sent) > 0
  /\ pc["tx"] # "put"
  /\ pc["rx"] = "route" => rxBuf \in Frame
  /\ phase \in {"init", "ep0", "enabled"} => \A t \in Threads : pc[t] = "off"

TypeInv == TypeOK /\ Control

USE GadgetConstants

LEMMA InitTypeInv == Init => TypeInv
<1> SUFFICES ASSUME Init PROVE TypeInv
  OBVIOUS
<1>1. txQueue = <<>> /\ sent = <<>> /\ rxQueue = <<>> /\ received = <<>>
  BY DEF Init
<1>2. /\ txQueue \in Seq(Packet) /\ sent \in Seq([packet : Packet, written : 0 .. FrameLen])
      /\ rxQueue \in Seq(Frame) /\ received \in Seq(Frame)
  BY <1>1
<1>3. 0 \in Seq32 /\ 0 \in 0 .. SeqMod
  BY DEF Seq32
<1>4. TypeOK
  BY <1>2, <1>3 DEF Init, TypeOK
<1>5. pc["tx"] = "off" /\ pc["rx"] = "off"
  BY DEF Init, Threads, Producers
<1>6. \A p \in Producers : pc[p] = "off" /\ hand[p] = NoPacket
  BY DEF Init, Threads
<1>7. \A t \in Threads : pc[t] = "off"
  BY DEF Init
<1> QED
  BY <1>4, <1>5, <1>6, <1>7 DEF TypeInv, Control

\* A frame whose number is replaced by the counter is a frame.
LEMMA PackedFrame ==
  ASSUME NEW f \in Frame, NEW s \in Seq32
  PROVE  [f EXCEPT !.seq = s] \in Frame
BY DEF Frame

LEMMA DataFrameType ==
  ASSUME NEW s \in Senders, NEW d \in Targets
  PROVE  DataFrame(s, d) \in Frame
BY DEF DataFrame, Frame, Seq32, Dest

LEMMA HeartbeatType == HeartbeatFrame \in Frame
BY DEF HeartbeatFrame, Frame, Seq32, Dest

LEMMA ForwardedType ==
  ASSUME NEW f \in Frame, Transit(f)
  PROVE  Forwarded(f) \in Frame
<1>1. f.hop + 1 \in 0 .. 255
  BY DEF Frame, Transit
<1>2. f.flags \cup {"FWD"} \in SUBSET {"HB", "FWD"}
  BY DEF Frame
<1> QED
  BY <1>1, <1>2 DEF Frame, Forwarded

\* Taking a number and packing a frame keeps the types.
LEMMA PackType ==
  ASSUME TypeInv, NEW p \in Producers, NEW f \in Frame, Pack(p, f), pc[p] # "put"
  PROVE  /\ txSeq' \in Seq32 /\ alloc' \in Nat /\ burned' \in SUBSET (0 .. alloc' - 1)
         /\ hand' \in [Producers -> Packet \cup {NoPacket}]
         /\ pc' = [pc EXCEPT ![p] = "put"]
         /\ hand'[p] \in Packet /\ hand'[p].by = p
         /\ \A q \in Producers \ {p} : hand'[q] = hand[q]
<1> DEFINE h == [by |-> p, n |-> alloc, frame |-> [f EXCEPT !.seq = txSeq]]
<1>1. txSeq \in Seq32 /\ alloc \in Nat /\ burned \in SUBSET (0 .. alloc - 1)
  BY DEF TypeInv, TypeOK
<1>2. h \in Packet
  BY <1>1, PackedFrame DEF Packet
<1>3. txSeq' \in Seq32
  BY <1>1 DEF Pack, NextSeq, Seq32
<1>4. alloc' \in Nat /\ burned' \in SUBSET (0 .. alloc' - 1)
  BY <1>1 DEF Pack, NextSeq
<1>5. hand' = [hand EXCEPT ![p] = h] /\ pc' = [pc EXCEPT ![p] = "put"]
  BY DEF Pack, Goto
<1>6. hand \in [Producers -> Packet \cup {NoPacket}]
  BY DEF TypeInv, TypeOK
<1> HIDE DEF h
<1>7. hand'[p] = h /\ \A q \in Producers \ {p} : hand'[q] = hand[q]
  BY <1>5, <1>6
<1>8. h.by = p
  BY DEF h
<1> QED
  BY <1>2, <1>3, <1>4, <1>5, <1>6, <1>7, <1>8

\* Pack keeps the whole invariant for a producer that holds nothing.
LEMMA PackKeepsTypeInv ==
  ASSUME TypeInv, NEW p \in Producers, NEW f \in Frame, Pack(p, f),
         pc[p] \notin {"put", "off"},
         UNCHANGED <<mainVars, txQueue, txVars, rxVars>>
  PROVE  TypeInv'
<1>1. /\ txSeq' \in Seq32 /\ alloc' \in Nat /\ burned' \in SUBSET (0 .. alloc' - 1)
      /\ hand' \in [Producers -> Packet \cup {NoPacket}]
      /\ pc' = [pc EXCEPT ![p] = "put"]
      /\ hand'[p] \in Packet /\ hand'[p].by = p
      /\ \A q \in Producers \ {p} : hand'[q] = hand[q]
  BY PackType
<1>2. TypeOK'
  BY <1>1 DEF TypeInv, TypeOK, mainVars, txVars, rxVars, rxStats
<1>3. pc["tx"]' = pc["tx"] /\ (pc["rx"]' = "route" => pc["rx"] = "route")
  BY <1>1 DEF TypeInv, TypeOK, Threads, Producers
<1>4. \A q \in Producers : (pc'[q] = "put") <=> (hand'[q] # NoPacket)
  BY <1>1 DEF TypeInv, TypeOK, Control, Threads
<1>5. \A q \in Producers : hand'[q] # NoPacket => hand'[q].by = q
  BY <1>1 DEF TypeInv, Control
<1>6. (pc["tx"] \in {"test", "write", "count"} => Len(sent) > 0)'
  BY <1>3 DEF TypeInv, Control, txVars
<1>7. (pc["tx"] # "put")' /\ (pc["rx"] = "route" => rxBuf \in Frame)'
  BY <1>3 DEF TypeInv, Control, rxVars
<1>8. (phase \in {"init", "ep0", "enabled"} => \A t \in Threads : pc[t] = "off")'
  BY DEF TypeInv, Control, mainVars, Threads
<1> QED
  BY <1>2, <1>4, <1>5, <1>6, <1>7, <1>8 DEF TypeInv, Control

\* A step of one thread that moves it to label l, not "put", nor away from it.
LEMMA GotoControl ==
  ASSUME TypeInv, NEW t \in Threads,
         NEW l \in {"ready", "top", "beat", "read", "unpack", "route", "get", "test",
                    "write", "count", "done"},
         pc[t] \notin {"put", "off"}, Goto(t, l), hand' = hand, phase' = phase,
         t = "rx" \/ (rxBuf' = rxBuf /\ l # "route"),
         l = "route" => rxBuf' \in Frame,
         t = "tx" \/ (sent' = sent /\ l \notin {"test", "write", "count"}),
         l \in {"test", "write", "count"} => Len(sent') > 0
  PROVE  /\ pc' \in [Threads -> {"off", "ready", "top", "beat", "put", "read", "unpack",
                         "route", "get", "test", "write", "count", "done"}]
         /\ Control'
<1>1. pc' = [pc EXCEPT ![t] = l] /\ pc'[t] = l /\ \A u \in Threads \ {t} : pc'[u] = pc[u]
  BY DEF Goto, TypeInv, TypeOK
<1>2. "tx" \in Threads /\ "rx" \in Threads
  BY DEF Threads, Producers
<1>3. \A p \in Producers : (pc'[p] = "put") <=> (hand'[p] # NoPacket)
  BY <1>1 DEF TypeInv, Control, Threads
<1>4. (pc["tx"] \in {"test", "write", "count"} => Len(sent) > 0)'
  BY <1>1, <1>2 DEF TypeInv, Control
<1>5. (pc["tx"] # "put")' /\ (pc["rx"] = "route" => rxBuf \in Frame)'
  BY <1>1, <1>2 DEF TypeInv, Control
<1>6. \A p \in Producers : hand'[p] # NoPacket => hand'[p].by = p
  BY DEF TypeInv, Control
<1>7. (phase \in {"init", "ep0", "enabled"} => \A u \in Threads : pc[u] = "off")'
  BY DEF TypeInv, Control
<1> QED
  BY <1>1, <1>3, <1>4, <1>5, <1>6, <1>7 DEF TypeInv, TypeOK, Control

LEMMA MainTypeInv == TypeInv /\ MainNext => TypeInv'
<1> SUFFICES ASSUME TypeInv, MainNext PROVE TypeInv'
  OBVIOUS
<1> USE DEF mainVars, seqVars, txVars, rxVars, rxStats
<1>1. CASE StartThreads
  <2>1. \A t \in Threads : pc'[t] \in {"ready", "top"}
    BY <1>1 DEF StartThreads
  <2>2. TypeOK'
    BY <1>1 DEF StartThreads, TypeInv, TypeOK
  <2>3. \A p \in Producers : hand[p] = NoPacket /\ pc'[p] # "put"
    BY <1>1, <2>1 DEF StartThreads, TypeInv, Control, Threads
  <2>4. pc'["tx"] \in {"ready", "top"} /\ pc'["rx"] \in {"ready", "top"}
    BY <2>1 DEF Threads, Producers
  <2> QED
    BY <1>1, <2>2, <2>3, <2>4 DEF StartThreads, TypeInv, Control
<1>2. CASE ~StartThreads
  <2>1. UNCHANGED <<pc, seqVars, txQueue, txVars, rxVars>> /\ running' \in BOOLEAN
        /\ phase' \in {"init", "ep0", "enabled", "up", "stopping", "closed", "exited", "failed"}
        /\ (phase' \in {"init", "ep0", "enabled"} => phase \in {"init", "ep0", "enabled"})
    BY <1>2 DEF MainNext, WriteDescriptors, WaitForEnable, StartFails, StopEarly,
                StopFlag, StopClose, Exit, TypeInv, TypeOK
  <2>2. TypeOK'
    BY <2>1 DEF TypeInv, TypeOK
  <2>3. Control'
    BY <2>1 DEF TypeInv, Control
  <2> QED
    BY <2>2, <2>3 DEF TypeInv
<1> QED
  BY <1>1, <1>2

LEMMA AppTypeInv == TypeInv /\ AppNext => TypeInv'
<1> SUFFICES ASSUME TypeInv, AppNext PROVE TypeInv'
  OBVIOUS
<1>1. ASSUME NEW s \in Senders, SendRejected(s) PROVE TypeInv'
  <2>1. txSeq' \in Seq32 /\ alloc' \in Nat /\ burned' \in SUBSET (0 .. alloc' - 1)
    BY <1>1 DEF SendRejected, NextSeq, TypeInv, TypeOK, Seq32
  <2>2. TypeOK'
    BY <1>1, <2>1 DEF SendRejected, TypeInv, TypeOK, mainVars, txVars, rxVars, rxStats
  <2>3. Control'
    BY <1>1 DEF SendRejected, TypeInv, Control, mainVars, txVars, rxVars
  <2> QED
    BY <2>2, <2>3 DEF TypeInv
<1>2. ASSUME NEW s \in Senders, NEW d \in Targets, Send(s, d) PROVE TypeInv'
  <2>1. s \in Producers /\ DataFrame(s, d) \in Frame
    BY DataFrameType DEF Producers
  <2> QED
    BY <1>2, <2>1, PackKeepsTypeInv DEF Send
<1> QED
  BY <1>1, <1>2 DEF AppNext

LEMMA LoopTestTypeInv ==
  ASSUME TypeInv, NEW t \in {"hb", "rx", "tx"}, NEW body \in {"beat", "read", "get"},
         LoopTest(t, body), t # "tx" => body # "get"
  PROVE  TypeInv'
<1> DEFINE l == IF running THEN body ELSE "done"
<1>1. l \in {"beat", "read", "get", "done"} /\ Goto(t, l) /\ pc[t] = "top" /\ t \in Threads
  BY DEF LoopTest, Threads, Producers
<1>2. UNCHANGED <<mainVars, seqVars, txQueue, txVars, rxVars>>
  BY DEF LoopTest
<1>3. t # "tx" => l # "get"
  OBVIOUS
<1> HIDE DEF l
<1>4. /\ pc' \in [Threads -> {"off", "ready", "top", "beat", "put", "read",
                     "unpack", "route", "get", "test", "write", "count", "done"}]
      /\ Control'
  BY <1>1, <1>2, <1>3, GotoControl DEF mainVars, seqVars, txVars, rxVars
<1> QED
  BY <1>2, <1>4 DEF TypeInv, TypeOK, mainVars, seqVars, txVars, rxVars, rxStats

LEMMA HbTypeInv == TypeInv /\ HbNext => TypeInv'
<1>1. TypeInv /\ LoopTest("hb", "beat") => TypeInv'
  BY LoopTestTypeInv
<1>2. TypeInv /\ Heartbeat => TypeInv'
  BY PackKeepsTypeInv, HeartbeatType DEF Heartbeat, Producers
<1> QED
  BY <1>1, <1>2 DEF HbNext

LEMMA RxTypeInv == TypeInv /\ RxNext => TypeInv'
<1> SUFFICES ASSUME TypeInv, RxNext PROVE TypeInv'
  OBVIOUS
<1> USE DEF mainVars, seqVars, txVars, rxVars, rxStats
<1> DEFINE PcType == pc \in [Threads -> {"off", "ready", "top", "beat", "put", "read",
                     "unpack", "route", "get", "test", "write", "count", "done"}]
<1>0. "rx" \in Threads /\ "rx" \in Producers
  BY DEF Threads, Producers
<1>1. CASE LoopTest("rx", "read")
  BY <1>1, LoopTestTypeInv
<1>2. CASE ReadNothing
  <2>1. PcType' /\ Control'
    BY <1>0, <1>2, GotoControl DEF ReadNothing
  <2> QED
    BY <1>2, <2>1 DEF ReadNothing, TypeInv, TypeOK
<1>3. ASSUME NEW buf \in Inbound \cup {Corrupt}, Read(buf) PROVE TypeInv'
  <2>1. PcType' /\ Control'
    BY <1>0, <1>3, GotoControl DEF Read
  <2> QED
    BY <1>3, <2>1 DEF Read, TypeInv, TypeOK
<1>4. CASE UnpackFails
  <2>1. PcType' /\ Control'
    BY <1>0, <1>4, GotoControl DEF UnpackFails
  <2> QED
    BY <1>4, <2>1 DEF UnpackFails, TypeInv, TypeOK
<1>5. CASE CountFrame
  <2>1. rxBuf \in Frame /\ rxBuf.seq \in Seq32
    BY <1>5 DEF CountFrame, TypeInv, TypeOK, Frame
  <2>2. PcType' /\ Control'
    BY <1>0, <1>5, <2>1, GotoControl DEF CountFrame
  <2>3. expectedSeq' \in 0 .. SeqMod /\ seqGaps' \in Nat /\ framesRx' \in Nat
    BY <1>5, <2>1 DEF CountFrame, Expect, TypeInv, TypeOK, Seq32
  <2>4. received' \in Seq(Frame)
    BY <1>5, <2>1 DEF CountFrame, TypeInv, TypeOK
  <2> QED
    BY <1>5, <2>2, <2>3, <2>4 DEF CountFrame, TypeInv, TypeOK
<1>6. CASE Deliver
  <2>1. PcType' /\ Control' /\ rxBuf \in Frame
    BY <1>0, <1>6, GotoControl DEF Deliver, TypeInv, Control
  <2>2. rxQueue' \in Seq(Frame)
    BY <1>6, <2>1 DEF Deliver, TypeInv, TypeOK
  <2> QED
    BY <1>6, <2>1, <2>2 DEF Deliver, TypeInv, TypeOK
<1>7. CASE Forward
  <2>1. rxBuf \in Frame /\ Transit(rxBuf) /\ pc["rx"] = "route" /\ Pack("rx", Forwarded(rxBuf))
    BY <1>7 DEF Forward, TypeInv, Control
  <2> QED
    BY <1>0, <1>7, <2>1, ForwardedType, PackKeepsTypeInv DEF Forward
<1>8. CASE HopDrop
  <2>1. PcType' /\ Control'
    BY <1>0, <1>8, GotoControl DEF HopDrop
  <2> QED
    BY <1>8, <2>1 DEF HopDrop, TypeInv, TypeOK
<1> QED
  BY <1>1, <1>2, <1>3, <1>4, <1>5, <1>6, <1>7, <1>8 DEF RxNext, RxInput

LEMMA TxTypeInv == TypeInv /\ TxNext => TypeInv'
<1> SUFFICES ASSUME TypeInv, TxNext PROVE TypeInv'
  OBVIOUS
<1> USE DEF mainVars, seqVars, txVars, rxVars, rxStats
<1> DEFINE PcType == pc \in [Threads -> {"off", "ready", "top", "beat", "put", "read",
                     "unpack", "route", "get", "test", "write", "count", "done"}]
           Entry == [packet : Packet, written : 0 .. FrameLen]
<1>0. "tx" \in Threads
  BY DEF Threads
<1>1. CASE LoopTest("tx", "get")
  BY <1>1, LoopTestTypeInv
<1>2. CASE GetTimesOut
  <2>1. PcType' /\ Control'
    BY <1>0, <1>2, GotoControl DEF GetTimesOut
  <2> QED
    BY <1>2, <2>1 DEF GetTimesOut, TypeInv, TypeOK
<1>3. CASE Get
  <2>1. sent \in Seq(Entry) /\ txQueue \in Seq(Packet) /\ txQueue # <<>>
    BY <1>3 DEF Get, TypeInv, TypeOK
  <2>2. [packet |-> Head(txQueue), written |-> 0] \in Entry
    BY <2>1
  <2>3. sent' \in Seq(Entry) /\ Len(sent') > 0 /\ txQueue' \in Seq(Packet)
    BY <1>3, <2>1, <2>2 DEF Get
  <2>4. PcType' /\ Control'
    BY <1>0, <1>3, <2>3, GotoControl DEF Get
  <2> QED
    BY <1>3, <2>3, <2>4 DEF Get, TypeInv, TypeOK
<1>4. CASE WriteTest
  <2>1. PICK l \in {"count", "write", "top"} : Goto("tx", l)
    BY <1>4 DEF WriteTest
  <2>2. Len(sent) > 0 /\ pc["tx"] = "test"
    BY <1>4 DEF WriteTest, TypeInv, Control
  <2>3. PcType' /\ Control'
    BY <1>0, <1>4, <2>1, <2>2, GotoControl DEF WriteTest
  <2> QED
    BY <1>4, <2>3 DEF WriteTest, TypeInv, TypeOK
<1>5. ASSUME NEW k \in 1 .. FrameLen, Write(k) PROVE TypeInv'
  <2>1. sent \in Seq(Entry) /\ Len(sent) > 0 /\ pc["tx"] = "write"
    BY <1>5 DEF Write, TypeInv, TypeOK, Control
  <2>2. Len(sent) \in 1 .. Len(sent) /\ sent[Len(sent)] \in Entry
    <3> HIDE DEF Entry
    <3>1. Len(sent) \in 1 .. Len(sent)
      BY <2>1
    <3> QED
      BY <2>1, <3>1
  <2>3. [sent[Len(sent)] EXCEPT !.written = @ + k] \in Entry
    BY <1>5, <2>2 DEF Write, written
  <2>4. sent' = [sent EXCEPT ![Len(sent)] = [sent[Len(sent)] EXCEPT !.written = @ + k]]
    BY <1>5 DEF Write
  <2>5. sent' \in Seq(Entry) /\ Len(sent') > 0
    BY <2>1, <2>2, <2>3, <2>4
  <2>6. PcType' /\ Control'
    BY <1>0, <1>5, <2>1, <2>5, GotoControl DEF Write
  <2> QED
    BY <1>5, <2>5, <2>6 DEF Write, TypeInv, TypeOK
<1>6. CASE WriteBlocks
  <2>1. Len(sent) > 0 /\ pc["tx"] = "write"
    BY <1>6 DEF WriteBlocks, TypeInv, Control
  <2>2. PcType' /\ Control'
    BY <1>0, <1>6, <2>1, GotoControl DEF WriteBlocks
  <2> QED
    BY <1>6, <2>2 DEF WriteBlocks, TypeInv, TypeOK
<1>7. CASE WriteFails
  <2>1. PcType' /\ Control'
    BY <1>0, <1>7, GotoControl DEF WriteFails
  <2> QED
    BY <1>7, <2>1 DEF WriteFails, TypeInv, TypeOK
<1>8. CASE CountSent
  <2>1. PcType' /\ Control'
    BY <1>0, <1>8, GotoControl DEF CountSent
  <2> QED
    BY <1>8, <2>1 DEF CountSent, TypeInv, TypeOK
<1> QED
  BY <1>1, <1>2, <1>3, <1>4, <1>5, <1>6, <1>7, <1>8 DEF TxNext, WriteOn

LEMMA PutTypeInv == TypeInv /\ PutNext => TypeInv'
<1> SUFFICES ASSUME TypeInv, NEW p \in Producers, Put(p) PROVE TypeInv'
  BY DEF PutNext
<1> USE DEF mainVars, seqVars, txVars, rxVars, rxStats
<1>1. hand[p] \in Packet /\ p \in Threads
  BY DEF Put, TypeInv, TypeOK, Control, Threads
<1>2. PICK l \in {"ready", "top"} : pc' = [pc EXCEPT ![p] = l]
  BY DEF Put, Goto
<1>3. txQueue' \in Seq(Packet) /\ hand' \in [Producers -> Packet \cup {NoPacket}]
  BY <1>1 DEF Put, TypeInv, TypeOK
<1>4. TypeOK'
  BY <1>1, <1>2, <1>3 DEF Put, TypeInv, TypeOK
<1>5. \A q \in Producers : q # p => pc'[q] = pc[q] /\ hand'[q] = hand[q]
  BY <1>2 DEF Put, TypeInv, TypeOK, Threads
<1>6. pc'[p] = l /\ hand'[p] = NoPacket
  BY <1>1, <1>2 DEF Put, TypeInv, TypeOK
<1>7. pc'["tx"] = pc["tx"] /\ (pc'["rx"] = "route" => pc["rx"] = "route")
  BY <1>2 DEF TypeInv, TypeOK, Threads, Producers
<1>8. pc[p] = "put"
  BY DEF Put
<1>9. Control'
  BY <1>1, <1>5, <1>6, <1>7, <1>8 DEF Put, TypeInv, Control
<1> QED
  BY <1>4, <1>9 DEF TypeInv

LEMMA StutterTypeInv == TypeInv /\ UNCHANGED vars => TypeInv'
BY DEF TypeInv, TypeOK, Control, vars, mainVars, seqVars, txVars, rxVars, rxStats

LEMMA NextTypeInv == TypeInv /\ [Next]_vars => TypeInv'
BY MainTypeInv, AppTypeInv, HbTypeInv, RxTypeInv, TxTypeInv, PutTypeInv, StutterTypeInv
   DEF Next

\* The gadget daemon never leaves its types: in particular every frame queued
\* carries a 32-bit number and a hop count that fits its byte, and expected_seq
\* never exceeds the counter's modulus.
THEOREM TypeCorrect == Spec => []TypeOK
<1>1. Spec => []TypeInv
  BY InitTypeInv, NextTypeInv, PTL DEF Spec
<1>2. TypeInv => TypeOK
  BY DEF TypeInv
<1> QED
  BY <1>1, <1>2, PTL

-----------------------------------------------------------------------------
HIDE GadgetConstants
(* PositionsOnce: how each step moves a number between the places.          *)

\* Pack puts the new number into p's hand.
LEMMA PackOnce ==
  ASSUME TypeInv, PositionsOnce, NEW p \in Producers, NEW f \in Frame, Pack(p, f),
         pc[p] # "put", UNCHANGED <<txQueue, sent>>
  PROVE  PositionsOnce'
<1>1. alloc \in Nat /\ alloc' = alloc + 1 /\ burned' = burned
  BY DEF Pack, NextSeq, TypeInv, TypeOK
<1>2. hand[p] = NoPacket /\ p \notin InHand
  BY DEF TypeInv, Control, InHand
<1>3. hand'[p] \in Packet /\ hand'[p].n = alloc /\ \A q \in Producers \ {p} : hand'[q] = hand[q]
  <2>1. hand'[p] = [by |-> p, n |-> alloc, frame |-> [f EXCEPT !.seq = txSeq]]
    BY DEF Pack, TypeInv, TypeOK
  <2> QED
    BY <2>1, PackType
<1>4. InHand' = InHand \cup {p}
  BY <1>3, GadgetConstants DEF InHand
<1>5. HandNs' = HandNs \cup {alloc}
  BY <1>2, <1>3, <1>4 DEF HandNs, InHand
<1>6. QueueNs' = QueueNs /\ SentNs' = SentNs
  BY DEF QueueNs, SentNs
<1>7. alloc \notin burned \cup HandNs \cup QueueNs \cup SentNs
  <2>1. alloc \notin 0 .. alloc - 1
    BY <1>1
  <2> QED
    BY <2>1 DEF PositionsOnce
<1>8. 0 .. alloc' - 1 = (0 .. alloc - 1) \cup {alloc}
  BY <1>1
<1>9. \A q, r \in InHand' : hand'[q].n = hand'[r].n => q = r
  <2>1. \A q \in InHand : hand'[q] = hand[q] /\ hand[q].n \in HandNs
    BY <1>2, <1>3 DEF InHand, HandNs
  <2>2. \A q \in InHand : hand'[q].n # alloc
    BY <2>1, <1>7
  <2>3. \A q, r \in InHand : hand[q].n = hand[r].n => q = r
    BY DEF PositionsOnce
  <2> QED
    BY <1>3, <1>4, <2>1, <2>2, <2>3
<1> QED
  BY <1>1, <1>5, <1>6, <1>7, <1>8, <1>9 DEF PositionsOnce

\* Put moves a number from p's hand to the end of the queue.
LEMMA PutOnce ==
  ASSUME TypeInv, PositionsOnce, NEW p \in Producers, Put(p)
  PROVE  PositionsOnce'
<1> DEFINE h == hand[p]
<1>1. h \in Packet /\ p \in InHand /\ h.n \in HandNs
  BY DEF Put, TypeInv, TypeOK, Control, InHand, HandNs
<1>2. UNCHANGED <<alloc, burned, sent>>
  BY DEF Put, txVars
<1>3. hand'[p] = NoPacket /\ \A q \in Producers \ {p} : hand'[q] = hand[q]
  BY DEF Put, TypeInv, TypeOK
<1>4. InHand' = InHand \ {p}
  BY <1>3 DEF InHand
<1>5. \A q \in InHand' : hand'[q] = hand[q] /\ q \in InHand /\ q # p
  BY <1>3, <1>4 DEF InHand
<1>6. \A q, r \in InHand : hand[q].n = hand[r].n => q = r
  BY DEF PositionsOnce
<1>7. HandNs' = HandNs \ {h.n}
  BY <1>1, <1>4, <1>5, <1>6 DEF HandNs
<1>8. txQueue \in Seq(Packet) /\ txQueue' = Append(txQueue, h)
  BY DEF Put, TypeInv, TypeOK
<1>9. /\ Len(txQueue') = Len(txQueue) + 1 /\ Len(txQueue) \in Nat
      /\ \A i \in 1 .. Len(txQueue) : txQueue'[i] = txQueue[i]
      /\ txQueue'[Len(txQueue) + 1] = h
  BY <1>1, <1>8
<1>10. QueueNs' = QueueNs \cup {h.n}
  BY <1>9 DEF QueueNs
<1>11. SentNs' = SentNs
  BY <1>2 DEF SentNs
<1>12. h.n \notin burned \cup QueueNs \cup SentNs
  BY <1>1 DEF PositionsOnce
<1>13. \A i, j \in 1 .. Len(txQueue') : txQueue'[i].n = txQueue'[j].n => i = j
  <2>1. \A i \in 1 .. Len(txQueue) : txQueue[i].n \in QueueNs
    BY DEF QueueNs
  <2>2. \A i, j \in 1 .. Len(txQueue) : txQueue[i].n = txQueue[j].n => i = j
    BY DEF PositionsOnce
  <2>3. \A i \in 1 .. Len(txQueue') : i \in 1 .. Len(txQueue) \/ i = Len(txQueue) + 1
    BY <1>9
  <2> HIDE DEF h
  <2> QED
    BY <1>9, <1>12, <2>1, <2>2, <2>3
<1>14. \A q, r \in InHand' : hand'[q].n = hand'[r].n => q = r
  BY <1>5, <1>6
<1> HIDE DEF h
<1>15. /\ (0 .. alloc - 1 = burned \cup HandNs \cup QueueNs \cup SentNs)'
       /\ (burned \cap (HandNs \cup QueueNs \cup SentNs) = {})'
       /\ (HandNs \cap (QueueNs \cup SentNs) = {})' /\ (QueueNs \cap SentNs = {})'
  BY <1>1, <1>2, <1>7, <1>10, <1>11, <1>12 DEF PositionsOnce
<1>16. (\A i, j \in 1 .. Len(sent) : sent[i].packet.n = sent[j].packet.n => i = j)'
  BY <1>2 DEF PositionsOnce
<1> QED
  BY <1>13, <1>14, <1>15, <1>16 DEF PositionsOnce

\* Get moves a number from the head of the queue to the frames sent.
LEMMA GetOnce == TypeInv /\ PositionsOnce /\ Get => PositionsOnce'
<1> SUFFICES ASSUME TypeInv, PositionsOnce, Get PROVE PositionsOnce'
  OBVIOUS
<1> DEFINE h == Head(txQueue)
           e == [packet |-> h, written |-> 0]
           Entry == [packet : Packet, written : 0 .. FrameLen]
<1>1. UNCHANGED <<alloc, burned, hand>>
  BY DEF Get, seqVars
<1>2. txQueue \in Seq(Packet) /\ txQueue # <<>> /\ sent \in Seq(Entry)
  BY DEF Get, TypeInv, TypeOK
<1>3. h \in Packet /\ h = txQueue[1] /\ 1 \in 1 .. Len(txQueue) /\ Len(txQueue) \in Nat
  BY <1>2
<1>4. /\ Len(txQueue') = Len(txQueue) - 1
      /\ \A i \in 1 .. Len(txQueue') : txQueue'[i] = txQueue[i + 1]
  BY <1>2 DEF Get
<1>5. e \in Entry /\ e.packet = h
  BY <1>3, GadgetConstants
<1>6. /\ Len(sent') = Len(sent) + 1 /\ Len(sent) \in Nat
      /\ \A i \in 1 .. Len(sent) : sent'[i] = sent[i]
      /\ sent'[Len(sent) + 1] = e
  <2>1. sent' = Append(sent, e)
    BY DEF Get
  <2> HIDE DEF e, Entry
  <2> QED
    BY <1>2, <1>5, <2>1
<1> HIDE DEF e, h
<1>7. \A i, j \in 1 .. Len(txQueue) : txQueue[i].n = txQueue[j].n => i = j
  BY DEF PositionsOnce
<1>8. QueueNs' = QueueNs \ {h.n} /\ h.n \in QueueNs
  <2>1. h.n \in QueueNs
    BY <1>3 DEF QueueNs
  <2>2. QueueNs' = {txQueue[i].n : i \in 2 .. Len(txQueue)}
    <3>1. \A i \in 2 .. Len(txQueue) : i - 1 \in 1 .. Len(txQueue') /\ txQueue'[i - 1] = txQueue[i]
      BY <1>3, <1>4
    <3>2. \A i \in 1 .. Len(txQueue') : i + 1 \in 2 .. Len(txQueue)
      BY <1>3, <1>4
    <3> QED
      BY <1>4, <3>1, <3>2 DEF QueueNs
  <2>3. \A i \in 2 .. Len(txQueue) : txQueue[i].n # h.n
    BY <1>3, <1>7
  <2>4. \A i \in 1 .. Len(txQueue) : i = 1 \/ i \in 2 .. Len(txQueue)
    BY <1>3
  <2>5. QueueNs = {txQueue[i].n : i \in 2 .. Len(txQueue)} \cup {h.n}
    BY <1>3, <2>4 DEF QueueNs
  <2> QED
    BY <2>1, <2>2, <2>3, <2>5
<1>9. SentNs' = SentNs \cup {h.n}
  BY <1>5, <1>6 DEF SentNs
<1>10. HandNs' = HandNs /\ InHand' = InHand
  BY <1>1 DEF HandNs, InHand
<1>11. h.n \notin burned \cup HandNs \cup SentNs
  BY <1>8 DEF PositionsOnce
<1>12. \A i, j \in 1 .. Len(sent') : sent'[i].packet.n = sent'[j].packet.n => i = j
  <2>1. \A i \in 1 .. Len(sent) : sent[i].packet.n \in SentNs
    BY DEF SentNs
  <2>2. \A i, j \in 1 .. Len(sent) : sent[i].packet.n = sent[j].packet.n => i = j
    BY DEF PositionsOnce
  <2>3. \A i \in 1 .. Len(sent') : i \in 1 .. Len(sent) \/ i = Len(sent) + 1
    BY <1>6
  <2> QED
    BY <1>5, <1>6, <1>11, <2>1, <2>2, <2>3
<1>13. \A i, j \in 1 .. Len(txQueue') : txQueue'[i].n = txQueue'[j].n => i = j
  <2> SUFFICES ASSUME NEW i \in 1 .. Len(txQueue'), NEW j \in 1 .. Len(txQueue'),
                      txQueue'[i].n = txQueue'[j].n
               PROVE  i = j
    OBVIOUS
  <2>1. i + 1 \in 1 .. Len(txQueue) /\ j + 1 \in 1 .. Len(txQueue)
    BY <1>3, <1>4
  <2>2. txQueue[i + 1].n = txQueue[j + 1].n
    BY <1>4
  <2>3. i + 1 = j + 1
    BY <1>7, <2>1, <2>2
  <2> QED
    BY <2>3
<1>14. /\ (0 .. alloc - 1 = burned \cup HandNs \cup QueueNs \cup SentNs)'
       /\ (burned \cap (HandNs \cup QueueNs \cup SentNs) = {})'
       /\ (HandNs \cap (QueueNs \cup SentNs) = {})' /\ (QueueNs \cap SentNs = {})'
  BY <1>1, <1>8, <1>9, <1>10, <1>11 DEF PositionsOnce
<1>15. (\A p, q \in InHand : hand[p].n = hand[q].n => p = q)'
  BY <1>1, <1>10 DEF PositionsOnce
<1> QED
  BY <1>12, <1>13, <1>14, <1>15 DEF PositionsOnce

\* A write changes how much of the last frame was taken, not which it is.
LEMMA WriteKeepsPackets ==
  ASSUME TypeInv, NEW k \in 1 .. FrameLen, Write(k)
  PROVE  Len(sent') = Len(sent) /\ \A i \in 1 .. Len(sent) : sent'[i].packet = sent[i].packet
<1> DEFINE Entry == [packet : Packet, written : 0 .. FrameLen]
<1>1. sent \in Seq(Entry)
  BY DEF TypeInv, TypeOK
<1>2. sent' = [sent EXCEPT ![Len(sent)] = [sent[Len(sent)] EXCEPT !.written = @ + k]]
  BY DEF Write
<1>3. \A i \in 1 .. Len(sent) : sent[i] \in Entry
  <2> HIDE DEF Entry
  <2> QED
    BY <1>1
<1>4. \A i \in 1 .. Len(sent) :
        sent'[i] = IF i = Len(sent) THEN [sent[i] EXCEPT !.written = @ + k] ELSE sent[i]
  <2> HIDE DEF Entry
  <2> QED
    BY <1>1, <1>2
<1>5. \A i \in 1 .. Len(sent) : sent'[i].packet = sent[i].packet
  BY <1>3, <1>4
<1>6. Len(sent') = Len(sent)
  BY <1>1, <1>2
<1> QED
  BY <1>5, <1>6

LEMMA NextOnce == TypeInv /\ PositionsOnce /\ [Next]_vars => PositionsOnce'
<1> SUFFICES ASSUME TypeInv, PositionsOnce, [Next]_vars PROVE PositionsOnce'
  OBVIOUS
<1> USE DEF mainVars, seqVars, txVars, rxVars
<1>1. ASSUME UNCHANGED <<alloc, burned, hand, txQueue, sent>> PROVE PositionsOnce'
  <2>1. UNCHANGED <<InHand, HandNs, QueueNs, SentNs>>
    BY <1>1 DEF InHand, HandNs, QueueNs, SentNs
  <2> QED
    BY <1>1, <2>1 DEF PositionsOnce
<1>2. CASE MainNext
  BY <1>1, <1>2 DEF MainNext, WriteDescriptors, WaitForEnable, StartThreads, StartFails,
                    StopEarly, StopFlag, StopClose, Exit
<1>3. ASSUME NEW s \in Senders, NEW d \in Targets, Send(s, d) PROVE PositionsOnce'
  BY <1>3, PackOnce, DataFrameType DEF Send, Producers
<1>4. ASSUME NEW s \in Senders, SendRejected(s) PROVE PositionsOnce'
  <2>1. /\ alloc' = alloc + 1 /\ alloc \in Nat /\ burned' = burned \cup {alloc}
        /\ UNCHANGED <<hand, txQueue, sent>>
    BY <1>4 DEF SendRejected, NextSeq, TypeInv, TypeOK
  <2>2. 0 .. alloc' - 1 = (0 .. alloc - 1) \cup {alloc} /\ alloc \notin 0 .. alloc - 1
    BY <2>1
  <2>3. UNCHANGED <<InHand, HandNs, QueueNs, SentNs>>
    BY <2>1 DEF InHand, HandNs, QueueNs, SentNs
  <2> QED
    BY <2>1, <2>2, <2>3 DEF PositionsOnce
<1>5. CASE HbNext
  BY <1>1, <1>5, PackOnce, HeartbeatType DEF HbNext, LoopTest, Heartbeat, Producers
<1>6. CASE Forward
  <2>1. rxBuf \in Frame /\ Transit(rxBuf) /\ pc["rx"] # "put" /\ "rx" \in Producers
    BY <1>6 DEF Forward, TypeInv, Control, Producers
  <2> QED
    BY <1>6, <2>1, ForwardedType, PackOnce DEF Forward
<1>7. CASE RxNext /\ ~Forward
  BY <1>1, <1>7 DEF RxNext, RxInput, LoopTest, ReadNothing, Read, UnpackFails, CountFrame,
                    Deliver, HopDrop
<1>8. CASE Get
  BY <1>8, GetOnce
<1>9. ASSUME NEW k \in 1 .. FrameLen, Write(k) PROVE PositionsOnce'
  <2>1. Len(sent') = Len(sent) /\ \A i \in 1 .. Len(sent) : sent'[i].packet = sent[i].packet
    BY <1>9, WriteKeepsPackets
  <2>2. SentNs' = SentNs
    BY <2>1 DEF SentNs
  <2>3. UNCHANGED <<alloc, burned, hand, txQueue, InHand, HandNs, QueueNs>>
    BY <1>9 DEF Write, InHand, HandNs, QueueNs
  <2>4. (\A i, j \in 1 .. Len(sent) : sent[i].packet.n = sent[j].packet.n => i = j)'
    BY <2>1 DEF PositionsOnce
  <2> QED
    BY <2>2, <2>3, <2>4 DEF PositionsOnce
<1>10. CASE LoopTest("tx", "get") \/ GetTimesOut \/ WriteTest \/ WriteBlocks \/ WriteFails
            \/ CountSent
  BY <1>1, <1>10 DEF LoopTest, GetTimesOut, WriteTest, WriteBlocks, WriteFails, CountSent
<1>11. CASE PutNext
  BY <1>11, PutOnce DEF PutNext
<1>12. CASE UNCHANGED vars
  BY <1>1, <1>12 DEF vars
<1> QED
  BY <1>2, <1>3, <1>4, <1>5, <1>6, <1>7, <1>8, <1>9, <1>10, <1>11, <1>12
     DEF Next, AppNext, TxNext, WriteOn

-----------------------------------------------------------------------------
(* ProducerOrder, over the two parts of Line.                               *)

\* ProducerOrder with the frames sent and the frames queued told apart.
OrderInv ==
  /\ \A i, j \in 1 .. Len(sent) : i < j /\ sent[i].packet.by = sent[j].packet.by
                                    => sent[i].packet.n < sent[j].packet.n
  /\ \A i, j \in 1 .. Len(txQueue) : i < j /\ txQueue[i].by = txQueue[j].by
                                       => txQueue[i].n < txQueue[j].n
  /\ \A i \in 1 .. Len(sent), j \in 1 .. Len(txQueue) :
       sent[i].packet.by = txQueue[j].by => sent[i].packet.n < txQueue[j].n
  /\ \A i \in 1 .. Len(sent), p \in InHand :
       sent[i].packet.by = p => sent[i].packet.n < hand[p].n
  /\ \A j \in 1 .. Len(txQueue), p \in InHand : txQueue[j].by = p => txQueue[j].n < hand[p].n

\* Every number in use was allocated.
LEMMA NumbersBelow ==
  ASSUME TypeInv, PositionsOnce
  PROVE  /\ alloc \in Nat
         /\ \A i \in 1 .. Len(sent) : sent[i].packet.n < alloc
         /\ \A j \in 1 .. Len(txQueue) : txQueue[j].n < alloc
<1>1. alloc \in Nat
  BY DEF TypeInv, TypeOK
<1>2. \A i \in 1 .. Len(sent) : sent[i].packet.n \in 0 .. alloc - 1
  BY DEF SentNs, PositionsOnce
<1>3. \A j \in 1 .. Len(txQueue) : txQueue[j].n \in 0 .. alloc - 1
  BY DEF QueueNs, PositionsOnce
<1> QED
  BY <1>1, <1>2, <1>3

LEMMA PackOrder ==
  ASSUME TypeInv, PositionsOnce, OrderInv, NEW p \in Producers, NEW f \in Frame,
         Pack(p, f), pc[p] # "put", UNCHANGED <<txQueue, sent>>
  PROVE  OrderInv'
<1>1. hand'[p] = [by |-> p, n |-> alloc, frame |-> [f EXCEPT !.seq = txSeq]]
      /\ \A q \in Producers \ {p} : hand'[q] = hand[q]
  BY DEF Pack, TypeInv, TypeOK
<1>2. hand'[p].n = alloc
  BY <1>1
<1>3. \A q \in InHand' : q = p \/ (q \in InHand /\ hand'[q] = hand[q])
  BY <1>1 DEF InHand
<1> QED
  BY <1>2, <1>3, NumbersBelow DEF OrderInv

LEMMA PutOrder ==
  ASSUME TypeInv, PositionsOnce, OrderInv, NEW p \in Producers, Put(p)
  PROVE  OrderInv'
<1> DEFINE h == hand[p]
<1>1. h \in Packet /\ p \in InHand /\ h.by = p
  BY DEF Put, TypeInv, TypeOK, Control, InHand
<1>2. \A q \in InHand' : q # p /\ q \in InHand /\ hand'[q] = hand[q]
  BY DEF Put, TypeInv, TypeOK, InHand
<1>3. txQueue \in Seq(Packet) /\ txQueue' = Append(txQueue, h) /\ sent' = sent
  BY DEF Put, TypeInv, TypeOK, txVars
<1>4. /\ Len(txQueue') = Len(txQueue) + 1 /\ Len(txQueue) \in Nat
      /\ \A i \in 1 .. Len(txQueue) : txQueue'[i] = txQueue[i]
      /\ txQueue'[Len(txQueue) + 1] = h
  BY <1>1, <1>3
<1>5. \A i \in 1 .. Len(txQueue') : i \in 1 .. Len(txQueue) \/ i = Len(txQueue) + 1
  BY <1>4
<1>7. \A i, j \in 1 .. Len(txQueue') : i < j /\ txQueue'[i].by = txQueue'[j].by
                                         => txQueue'[i].n < txQueue'[j].n
  <2>1. SUFFICES ASSUME NEW i \in 1 .. Len(txQueue'), NEW j \in 1 .. Len(txQueue'),
                        i < j, txQueue'[i].by = txQueue'[j].by
                 PROVE  txQueue'[i].n < txQueue'[j].n
    OBVIOUS
  <2>2. i \in 1 .. Len(txQueue)
    BY <1>4, <2>1
  <2>3. CASE j \in 1 .. Len(txQueue)
    BY <1>4, <2>1, <2>2, <2>3 DEF OrderInv
  <2>4. CASE j = Len(txQueue) + 1
    BY <1>1, <1>4, <2>1, <2>2, <2>4 DEF OrderInv
  <2> QED BY <1>5, <2>3, <2>4
<1>8. \A i \in 1 .. Len(sent'), j \in 1 .. Len(txQueue') :
        sent'[i].packet.by = txQueue'[j].by => sent'[i].packet.n < txQueue'[j].n
  BY <1>1, <1>3, <1>4, <1>5 DEF OrderInv
<1>9. \A j \in 1 .. Len(txQueue'), q \in InHand' :
        txQueue'[j].by = q => txQueue'[j].n < hand'[q].n
  BY <1>1, <1>2, <1>4, <1>5 DEF OrderInv
<1> QED
  BY <1>2, <1>3, <1>7, <1>8, <1>9 DEF OrderInv

LEMMA GetOrder == TypeInv /\ OrderInv /\ Get => OrderInv'
<1> SUFFICES ASSUME TypeInv, OrderInv, Get PROVE OrderInv'
  OBVIOUS
<1> DEFINE h == Head(txQueue)
           e == [packet |-> h, written |-> 0]
           Entry == [packet : Packet, written : 0 .. FrameLen]
<1>1. hand' = hand /\ InHand' = InHand
  BY DEF Get, seqVars, InHand
<1>2. txQueue \in Seq(Packet) /\ txQueue # <<>> /\ sent \in Seq(Entry)
  BY DEF Get, TypeInv, TypeOK
<1>3. h \in Packet /\ h = txQueue[1] /\ 1 \in 1 .. Len(txQueue) /\ Len(txQueue) \in Nat
  BY <1>2
<1>4. /\ Len(txQueue') = Len(txQueue) - 1
      /\ \A i \in 1 .. Len(txQueue') : txQueue'[i] = txQueue[i + 1]
  BY <1>2 DEF Get
<1>5. e \in Entry /\ e.packet = h
  BY <1>3, GadgetConstants
<1>6. /\ Len(sent') = Len(sent) + 1 /\ Len(sent) \in Nat
      /\ \A i \in 1 .. Len(sent) : sent'[i] = sent[i]
      /\ sent'[Len(sent) + 1] = e
  <2>1. sent' = Append(sent, e)
    BY DEF Get
  <2> HIDE DEF e, Entry
  <2> QED
    BY <1>2, <1>5, <2>1
<1> HIDE DEF e, h
<1>7. \A i \in 1 .. Len(sent') : i \in 1 .. Len(sent) \/ i = Len(sent) + 1
  BY <1>6
<1>8. \A j \in 1 .. Len(txQueue') : j + 1 \in 1 .. Len(txQueue) /\ 1 < j + 1
  BY <1>3, <1>4
<1>9. \A i, j \in 1 .. Len(sent') : i < j /\ sent'[i].packet.by = sent'[j].packet.by
                                      => sent'[i].packet.n < sent'[j].packet.n
  BY <1>3, <1>5, <1>6, <1>7 DEF OrderInv
<1>10. \A i, j \in 1 .. Len(txQueue') : i < j /\ txQueue'[i].by = txQueue'[j].by
                                          => txQueue'[i].n < txQueue'[j].n
  <2> SUFFICES ASSUME NEW i \in 1 .. Len(txQueue'), NEW j \in 1 .. Len(txQueue'), i < j,
                      txQueue'[i].by = txQueue'[j].by
               PROVE  txQueue'[i].n < txQueue'[j].n
    OBVIOUS
  <2>1. i + 1 < j + 1
    BY <1>3, <1>4
  <2> QED
    BY <1>4, <1>8, <2>1 DEF OrderInv
<1>11. \A i \in 1 .. Len(sent'), j \in 1 .. Len(txQueue') :
         sent'[i].packet.by = txQueue'[j].by => sent'[i].packet.n < txQueue'[j].n
  <2> SUFFICES ASSUME NEW i \in 1 .. Len(sent'), NEW j \in 1 .. Len(txQueue'),
                      sent'[i].packet.by = txQueue'[j].by
               PROVE  sent'[i].packet.n < txQueue'[j].n
    OBVIOUS
  <2>1. txQueue'[j] = txQueue[j + 1] /\ j + 1 \in 1 .. Len(txQueue) /\ 1 < j + 1
    BY <1>4, <1>8
  <2>2. CASE i \in 1 .. Len(sent)
    BY <1>6, <2>1, <2>2 DEF OrderInv
  <2>3. CASE i = Len(sent) + 1
    BY <1>3, <1>5, <1>6, <2>1, <2>3 DEF OrderInv
  <2> QED
    BY <1>7, <2>2, <2>3
<1>12. \A i \in 1 .. Len(sent'), p \in InHand :
         sent'[i].packet.by = p => sent'[i].packet.n < hand[p].n
  BY <1>3, <1>5, <1>6, <1>7 DEF OrderInv
<1>13. \A j \in 1 .. Len(txQueue'), p \in InHand : txQueue'[j].by = p => txQueue'[j].n < hand[p].n
  BY <1>4, <1>8 DEF OrderInv
<1> QED
  BY <1>1, <1>9, <1>10, <1>11, <1>12, <1>13 DEF OrderInv

LEMMA NextOrder == TypeInv /\ PositionsOnce /\ OrderInv /\ [Next]_vars => OrderInv'
<1> SUFFICES ASSUME TypeInv, PositionsOnce, OrderInv, [Next]_vars PROVE OrderInv'
  OBVIOUS
<1> USE DEF mainVars, seqVars, txVars, rxVars
<1>1. ASSUME UNCHANGED <<hand, txQueue, sent>> PROVE OrderInv'
  <2>1. InHand' = InHand
    BY <1>1 DEF InHand
  <2> QED
    BY <1>1, <2>1 DEF OrderInv
<1>2. CASE MainNext
  BY <1>1, <1>2 DEF MainNext, WriteDescriptors, WaitForEnable, StartThreads, StartFails,
                    StopEarly, StopFlag, StopClose, Exit
<1>3. ASSUME NEW s \in Senders, NEW d \in Targets, Send(s, d) PROVE OrderInv'
  BY <1>3, PackOrder, DataFrameType DEF Send, Producers
<1>4. ASSUME NEW s \in Senders, SendRejected(s) PROVE OrderInv'
  BY <1>1, <1>4 DEF SendRejected
<1>5. CASE HbNext
  BY <1>1, <1>5, PackOrder, HeartbeatType DEF HbNext, LoopTest, Heartbeat, Producers
<1>6. CASE Forward
  <2>1. rxBuf \in Frame /\ Transit(rxBuf) /\ pc["rx"] # "put" /\ "rx" \in Producers
    BY <1>6 DEF Forward, TypeInv, Control, Producers
  <2> QED
    BY <1>6, <2>1, ForwardedType, PackOrder DEF Forward
<1>7. CASE RxNext /\ ~Forward
  BY <1>1, <1>7 DEF RxNext, RxInput, LoopTest, ReadNothing, Read, UnpackFails, CountFrame,
                    Deliver, HopDrop
<1>8. CASE Get
  BY <1>8, GetOrder
<1>9. ASSUME NEW k \in 1 .. FrameLen, Write(k) PROVE OrderInv'
  <2>1. Len(sent') = Len(sent) /\ \A i \in 1 .. Len(sent) : sent'[i].packet = sent[i].packet
    BY <1>9, WriteKeepsPackets
  <2>2. UNCHANGED <<hand, txQueue, InHand>>
    BY <1>9 DEF Write, InHand
  <2> QED
    BY <2>1, <2>2 DEF OrderInv
<1>10. CASE LoopTest("tx", "get") \/ GetTimesOut \/ WriteTest \/ WriteBlocks \/ WriteFails
            \/ CountSent
  BY <1>1, <1>10 DEF LoopTest, GetTimesOut, WriteTest, WriteBlocks, WriteFails, CountSent
<1>11. CASE PutNext
  BY <1>11, PutOrder DEF PutNext
<1>12. CASE UNCHANGED vars
  BY <1>1, <1>12 DEF vars
<1> QED
  BY <1>2, <1>3, <1>4, <1>5, <1>6, <1>7, <1>8, <1>9, <1>10, <1>11, <1>12
     DEF Next, AppNext, TxNext, WriteOn

LEMMA OrderInvGivesOrder == TypeInv /\ OrderInv => ProducerOrder
<1> SUFFICES ASSUME TypeInv, OrderInv PROVE ProducerOrder
  OBVIOUS
<1> DEFINE Entry == [packet : Packet, written : 0 .. FrameLen]
           S == [i \in 1 .. Len(sent) |-> sent[i].packet]
           m == Len(sent)
<1>1. sent \in Seq(Entry) /\ txQueue \in Seq(Packet)
  BY DEF TypeInv, TypeOK
<1>2. m \in Nat /\ Len(txQueue) \in Nat
  BY <1>1
<1>3. \A i \in 1 .. m : sent[i].packet \in Packet
  <2>1. \A i \in 1 .. m : sent[i] \in Entry
    <3> HIDE DEF Entry
    <3> QED
      BY <1>1
  <2> QED
    BY <2>1
<1>4. S \in Seq(Packet) /\ Len(S) = m
  BY <1>2, <1>3
<1>5. /\ Len(Line) = m + Len(txQueue)
      /\ \A i \in 1 .. Len(Line) : Line[i] = IF i <= m THEN S[i] ELSE txQueue[i - m]
  <2>1. Line = S \o txQueue
    BY DEF Line
  <2> HIDE DEF S, m
  <2> QED
    BY <1>1, <1>4, <2>1
<1>6. \A i \in 1 .. Len(Line) :
        \/ i \in 1 .. m /\ Line[i] = sent[i].packet
        \/ i - m \in 1 .. Len(txQueue) /\ Line[i] = txQueue[i - m] /\ i > m
  BY <1>2, <1>5
<1>7. ASSUME NEW i \in 1 .. Len(Line), NEW j \in 1 .. Len(Line), i < j,
             Line[i].by = Line[j].by
      PROVE  Line[i].n < Line[j].n
  <2>1. i \in Nat /\ j \in Nat
    BY <1>2, <1>5
  <2>2. CASE j \in 1 .. m /\ Line[j] = sent[j].packet
    BY <1>2, <1>6, <1>7, <2>1, <2>2 DEF OrderInv
  <2>3. CASE j - m \in 1 .. Len(txQueue) /\ Line[j] = txQueue[j - m] /\ j > m
    <3>1. CASE i \in 1 .. m /\ Line[i] = sent[i].packet
      BY <1>7, <2>3, <3>1 DEF OrderInv
    <3>2. CASE i - m \in 1 .. Len(txQueue) /\ Line[i] = txQueue[i - m] /\ i > m
      <4>1. i - m < j - m
        BY <1>2, <1>7, <2>1
      <4> QED
        BY <1>7, <2>3, <3>2, <4>1 DEF OrderInv
    <3> QED
      BY <1>6, <3>1, <3>2
  <2> QED
    BY <1>6, <2>2, <2>3
<1>8. \A i \in 1 .. Len(Line), p \in InHand : Line[i].by = p => Line[i].n < hand[p].n
  BY <1>6, ZenonT(40) DEF OrderInv
<1> QED
  BY <1>7, <1>8 DEF ProducerOrder

\* Whatever the interleaving, the frames of one thread (an application, the
\* heartbeat, the forwarder) reach the wire in the order it produced them.
THEOREM OrderPerProducer == Spec => []ProducerOrder
<1>1. Init => OrderInv
  BY DEF Init, OrderInv, InHand
<1>2. Init => PositionsOnce
  BY DEF Init, PositionsOnce, InHand, HandNs, QueueNs, SentNs
<1>3. Spec => [](TypeInv /\ PositionsOnce)
  BY <1>2, InitTypeInv, NextTypeInv, NextOnce, PTL DEF Spec
<1>4. Spec => [](TypeInv /\ OrderInv)
  BY <1>1, <1>3, NextOrder, PTL DEF Spec
<1> QED
  BY <1>4, OrderInvGivesOrder, PTL

-----------------------------------------------------------------------------
(* What goes with every later proof.                                         *)

LEMMA AllTypes == Spec => []TypeInv
BY InitTypeInv, NextTypeInv, PTL DEF Spec

LEMMA ThreadNames ==
  /\ "tx" \in Threads /\ "rx" \in Threads /\ "hb" \in Threads
  /\ "hb" \in Producers /\ "rx" \in Producers
  /\ "tx" \notin Producers /\ Producers \in SUBSET Threads
BY GadgetConstants DEF Threads, Producers

\* One thread moves, the others stay.
LEMMA Moves ==
  ASSUME TypeInv, NEW t \in Threads, NEW l, Goto(t, l)
  PROVE  pc'[t] = l /\ \A u \in Threads \ {t} : pc'[u] = pc[u]
BY DEF Goto, TypeInv, TypeOK

-----------------------------------------------------------------------------
(* TxAccounting.                                                            *)

Whole == {i \in 1 .. Len(sent) : sent[i].written = FrameLen}
Due   == pc["tx"] \in {"test", "count"} /\ written = FrameLen

\* The count of whole frames, and where the tx thread stands while one is in hand.
CountInv ==
  /\ Cardinality(Whole) = framesTx + (IF Due THEN 1 ELSE 0)
  /\ pc["tx"] = "write" => written < FrameLen
  /\ pc["tx"] = "count" => written = FrameLen

\* The tx thread does not move and nothing is written.
LEMMA CountStill ==
  ASSUME CountInv, pc'["tx"] = pc["tx"], UNCHANGED txVars
  PROVE  CountInv'
<1>1. written' = written /\ Whole' = Whole
  BY DEF txVars, written, Whole
<1>2. Due' = Due
  BY <1>1 DEF Due
<1> QED
  BY <1>1, <1>2 DEF CountInv, txVars

\* It moves to where no frame is whole and uncounted.
LEMMA CountMoves ==
  ASSUME TypeInv, CountInv, NEW l, Goto("tx", l), UNCHANGED txVars, Due' = Due,
         l = "write" => written < FrameLen, l = "count" => written = FrameLen
  PROVE  CountInv'
<1>1. written' = written /\ Whole' = Whole
  BY DEF txVars, written, Whole
<1>2. pc'["tx"] = l
  BY Moves, ThreadNames
<1> QED
  BY <1>1, <1>2 DEF CountInv, txVars

LEMMA SentTypes ==
  ASSUME TypeInv
  PROVE  /\ Len(sent) \in Nat /\ FrameLen \in Nat /\ FrameLen # 0
         /\ \A i \in 1 .. Len(sent) : sent[i].written \in 0 .. FrameLen
         /\ Len(sent) > 0 => written \in 0 .. FrameLen
<1> DEFINE Entry == [packet : Packet, written : 0 .. FrameLen]
<1>1. sent \in Seq(Entry)
  BY DEF TypeInv, TypeOK
<1>2. \A e \in Entry : e.written \in 0 .. FrameLen
  OBVIOUS
<1> HIDE DEF Entry
<1>3. Len(sent) \in Nat /\ \A i \in 1 .. Len(sent) : sent[i] \in Entry
  BY <1>1
<1>4. Len(sent) > 0 => Len(sent) \in 1 .. Len(sent)
  BY <1>3
<1> QED
  BY <1>2, <1>3, <1>4, GadgetConstants DEF written

LEMMA WholeFinite == TypeInv => IsFiniteSet(Whole) /\ Cardinality(Whole) \in Nat
<1> SUFFICES ASSUME TypeInv PROVE IsFiniteSet(Whole) /\ Cardinality(Whole) \in Nat
  OBVIOUS
<1>1. IsFiniteSet(1 .. Len(sent))
  BY SentTypes, FS_Interval
<1> QED
  BY <1>1, FS_Subset, FS_CardinalityType DEF Whole

\* What Get and Write do to the frames sent.
LEMMA GetSent ==
  ASSUME TypeInv, Get
  PROVE  /\ Len(sent') = Len(sent) + 1
         /\ \A i \in 1 .. Len(sent) : sent'[i] = sent[i]
         /\ sent'[Len(sent) + 1] = [packet |-> Head(txQueue), written |-> 0]
<1> DEFINE e == [packet |-> Head(txQueue), written |-> 0]
           Entry == [packet : Packet, written : 0 .. FrameLen]
<1>1. sent' = Append(sent, e) /\ sent \in Seq(Entry)
  BY DEF Get, TypeInv, TypeOK
<1> HIDE DEF e, Entry
<1>2. /\ Len(sent') = Len(sent) + 1
      /\ \A i \in 1 .. Len(sent) : sent'[i] = sent[i]
      /\ sent'[Len(sent) + 1] = e
  BY <1>1
<1> QED
  BY <1>2 DEF e

LEMMA WriteSent ==
  ASSUME TypeInv, NEW k \in 1 .. FrameLen, Write(k)
  PROVE  /\ Len(sent') = Len(sent) /\ Len(sent) \in 1 .. Len(sent)
         /\ \A i \in 1 .. Len(sent) : i # Len(sent) => sent'[i] = sent[i]
         /\ sent'[Len(sent)].written = written + k
<1> DEFINE Entry == [packet : Packet, written : 0 .. FrameLen]
           m == Len(sent)
           e == [sent[m] EXCEPT !.written = @ + k]
<1>1. sent \in Seq(Entry) /\ m \in 1 .. m
  <2>1. sent \in Seq(Entry) /\ Len(sent) > 0
    BY DEF Write, TypeInv, TypeOK, Control
  <2> HIDE DEF Entry
  <2> QED
    BY <2>1
<1>2. sent' = [sent EXCEPT ![m] = e]
  BY DEF Write
<1>3. sent[m] \in Entry
  <2> HIDE DEF Entry, m
  <2>1. m \in 1 .. Len(sent)
    BY <1>1 DEF m
  <2> QED
    BY <1>1, <2>1
<1>4. e.written = sent[m].written + k
  BY <1>3
<1> HIDE DEF e, Entry
<1>5. /\ Len(sent') = m /\ sent'[m] = e
      /\ \A i \in 1 .. m : i # m => sent'[i] = sent[i]
  BY <1>1, <1>2
<1> QED
  BY <1>1, <1>4, <1>5 DEF written

LEMMA GetCounts == TypeInv /\ CountInv /\ Get => CountInv'
<1> SUFFICES ASSUME TypeInv, CountInv, Get PROVE CountInv'
  OBVIOUS
<1>1. written' = 0
  BY GetSent DEF written
<1>2. Whole' = Whole
  BY GetSent, SentTypes DEF Whole
<1>3. pc["tx"] = "get" /\ pc'["tx"] = "test" /\ framesTx' = framesTx
  BY Moves, ThreadNames DEF Get
<1>4. ~Due /\ ~Due'
  BY <1>1, <1>3, SentTypes DEF Due
<1> QED
  BY <1>2, <1>3, <1>4 DEF CountInv

LEMMA WriteCounts ==
  ASSUME TypeInv, CountInv, NEW k \in 1 .. FrameLen, Write(k)
  PROVE  CountInv'
<1> DEFINE m == Len(sent)
<1>1. /\ pc["tx"] = "write" /\ pc'["tx"] = "test" /\ framesTx' = framesTx
      /\ written + k <= FrameLen /\ written < FrameLen
  BY Moves, ThreadNames DEF Write, CountInv
<1>2. written' = written + k
  BY WriteSent DEF written
<1>3. m \notin Whole
  BY <1>1, SentTypes DEF Whole, written
<1>4. Whole' = IF written' = FrameLen THEN Whole \cup {m} ELSE Whole
  BY <1>2, <1>3, WriteSent DEF Whole
<1>5. ~Due /\ (Due' <=> written' = FrameLen)
  BY <1>1 DEF Due
<1>6. Cardinality(Whole') = Cardinality(Whole) + (IF written' = FrameLen THEN 1 ELSE 0)
  <2>1. IsFiniteSet(Whole) /\ Cardinality(Whole) \in Nat
    BY WholeFinite
  <2>2. Cardinality(Whole \cup {m}) = Cardinality(Whole) + 1
    BY <1>3, <2>1, FS_AddElement
  <2> QED
    BY <1>4, <2>1, <2>2
<1> QED
  BY <1>1, <1>5, <1>6, WholeFinite DEF CountInv, TypeInv, TypeOK

LEMMA NextCounts == TypeInv /\ CountInv /\ [Next]_vars => CountInv'
<1> SUFFICES ASSUME TypeInv, CountInv, [Next]_vars PROVE CountInv'
  OBVIOUS
<1>1. CASE UNCHANGED vars
  BY <1>1, CountStill DEF vars, txVars
<1>2. CASE MainNext
  <2>1. CASE StartThreads
    <3>1. pc["tx"] = "off" /\ pc'["tx"] \in {"ready", "top"} /\ UNCHANGED txVars
      BY <2>1, ThreadNames DEF StartThreads, TypeInv, Control
    <3>2. written' = written /\ Whole' = Whole /\ framesTx' = framesTx
      BY <3>1 DEF txVars, written, Whole
    <3> QED
      BY <3>1, <3>2 DEF CountInv, Due
  <2>2. CASE ~StartThreads
    <3>1. UNCHANGED <<pc, txVars>>
      BY <1>2, <2>2 DEF MainNext, WriteDescriptors, WaitForEnable, StartFails,
                        StopEarly, StopFlag, StopClose, Exit
    <3> QED
      BY <3>1, CountStill
  <2> QED
    BY <2>1, <2>2
<1>3. ASSUME NEW t \in Threads, t # "tx", NEW l, Goto(t, l), UNCHANGED txVars PROVE CountInv'
  <2>1. pc'["tx"] = pc["tx"]
    BY <1>3, Moves, ThreadNames
  <2> QED
    BY <1>3, <2>1, CountStill
<1>4. CASE AppNext
  <2>1. ASSUME NEW s \in Senders, SendRejected(s) PROVE CountInv'
    BY <2>1, CountStill DEF SendRejected
  <2>2. ASSUME NEW s \in Senders, NEW d \in Targets, Send(s, d) PROVE CountInv'
    BY <1>3, <2>2, ThreadNames DEF Send, Pack, Producers
  <2> QED
    BY <1>4, <2>1, <2>2 DEF AppNext
<1>5. CASE HbNext
  BY <1>3, <1>5, ThreadNames DEF HbNext, LoopTest, Heartbeat, Pack
<1>6. CASE RxNext
  BY <1>3, <1>6, ThreadNames DEF RxNext, RxInput, LoopTest, ReadNothing, Read, UnpackFails,
                                 CountFrame, Deliver, Forward, Pack, HopDrop
<1>7. CASE PutNext
  <2>1. PICK p \in Producers : Put(p)
    BY <1>7 DEF PutNext
  <2> QED
    BY <1>3, <2>1, ThreadNames DEF Put
<1>8. CASE TxNext
  <2>1. ASSUME NEW l \in {"get", "done", "top"}, Goto("tx", l), pc["tx"] \in {"top", "get"},
               UNCHANGED txVars
        PROVE  CountInv'
    <3>1. pc'["tx"] = l
      BY <2>1, Moves, ThreadNames
    <3>2. Due' = Due
      BY <2>1, <3>1 DEF Due
    <3> QED
      BY <2>1, <3>2, CountMoves
  <2>2. CASE LoopTest("tx", "get") \/ GetTimesOut
    BY <2>1, <2>2 DEF LoopTest, GetTimesOut
  <2>3. CASE Get
    BY <2>3, GetCounts
  <2>4. CASE WriteTest
    <3>1. PICK l \in {"count", "write", "top"} :
            /\ Goto("tx", l) /\ (l = "count" <=> written = FrameLen)
            /\ l = "write" => written < FrameLen
      BY <2>4, SentTypes DEF WriteTest, TypeInv, Control
    <3>2. pc["tx"] = "test" /\ pc'["tx"] = l /\ UNCHANGED txVars
      BY <2>4, <3>1, Moves, ThreadNames DEF WriteTest
    <3>3. Due' = Due
      BY <3>1, <3>2 DEF Due, txVars, written
    <3> QED
      BY <3>1, <3>2, <3>3, CountMoves
  <2>5. CASE WriteOn
    BY <2>5, WriteCounts DEF WriteOn
  <2>6. ASSUME NEW l \in {"test", "top"}, Goto("tx", l), pc["tx"] = "write", UNCHANGED txVars
        PROVE  CountInv'
    <3>1. pc'["tx"] = l /\ written' = written /\ written < FrameLen
      BY <2>6, Moves, ThreadNames DEF txVars, written, CountInv
    <3>2. Len(sent) > 0
      BY <2>6 DEF TypeInv, Control
    <3>3. written # FrameLen
      BY <3>1, <3>2, SentTypes
    <3>4. Due' = Due /\ l # "write" /\ l # "count"
      BY <2>6, <3>1, <3>3 DEF Due
    <3> QED
      BY <2>6, <3>4, CountMoves
  <2>7. CASE WriteBlocks \/ WriteFails
    BY <2>6, <2>7 DEF WriteBlocks, WriteFails
  <2>8. CASE CountSent
    <3>1. /\ pc["tx"] = "count" /\ pc'["tx"] = "top" /\ framesTx' = framesTx + 1
          /\ sent' = sent /\ written = FrameLen
      BY <2>8, Moves, ThreadNames DEF CountSent, CountInv
    <3>2. Due /\ ~Due' /\ Whole' = Whole
      BY <3>1 DEF Due, Whole
    <3> QED
      BY <3>1, <3>2, WholeFinite DEF CountInv, TypeInv, TypeOK
  <2> QED
    BY <1>8, <2>2, <2>3, <2>4, <2>5, <2>7, <2>8 DEF TxNext
<1> QED
  BY <1>1, <1>2, <1>4, <1>5, <1>6, <1>7, <1>8 DEF Next

LEMMA InitCounts == Init => CountInv
<1> SUFFICES ASSUME Init PROVE CountInv
  OBVIOUS
<1>1. Whole = {} /\ pc["tx"] = "off" /\ framesTx = 0
  BY ThreadNames DEF Init, Whole
<1> QED
  BY <1>1, FS_EmptySet DEF CountInv, Due

\* frames_tx counts exactly the frames the endpoint took whole, for frames of any
\* length cut into any pieces: blocked, failed and abandoned writes count nothing.
THEOREM CountsWholeFrames == Spec => []TxAccounting
<1>1. CountInv => TxAccounting
  BY DEF CountInv, TxAccounting, Whole, Due
<1> QED
  BY <1>1, AllTypes, InitCounts, NextCounts, PTL DEF Spec

-----------------------------------------------------------------------------
(* RxAccounting.                                                            *)

\* One past each number received before the i-th frame, and the frames that
\* jumped past all of them.
Past(i) == {received[j].seq + 1 : j \in 1 .. i - 1} \cup {0}
Jumped  == {i \in 1 .. framesRx : \A b \in Past(i) : received[i].seq > b}

ReceiveInv ==
  /\ bytesRx = framesRx + crcErrors + (IF pc["rx"] = "unpack" THEN 1 ELSE 0)
  /\ framesRx = Len(received)
  /\ expectedSeq \in Past(framesRx + 1)
  /\ \A b \in Past(framesRx + 1) : b <= expectedSeq
  /\ seqGaps = Cardinality(Jumped)

LEMMA ReceiveInvEquiv == ReceiveInv <=> RxAccounting
BY DEF ReceiveInv, RxAccounting, Past, Jumped

LEMMA ReceiveTypes ==
  ASSUME TypeInv
  PROVE  /\ bytesRx \in Nat /\ framesRx \in Nat /\ crcErrors \in Nat /\ seqGaps \in Nat
         /\ expectedSeq \in Nat /\ received \in Seq(Frame) /\ Len(received) \in Nat
<1>1. expectedSeq \in Nat
  BY GadgetConstants DEF TypeInv, TypeOK
<1> QED
  BY <1>1 DEF TypeInv, TypeOK

\* The counters are not touched, nor is the place before them.
LEMMA ReceiveStill ==
  ASSUME ReceiveInv, pc'["rx"] = "unpack" <=> pc["rx"] = "unpack",
         UNCHANGED <<bytesRx, rxStats>>
  PROVE  ReceiveInv'
<1>1. UNCHANGED <<framesRx, crcErrors, seqGaps, expectedSeq, received>>
  BY DEF rxStats
<1>2. Jumped' = Jumped /\ Past(framesRx + 1)' = Past(framesRx + 1)
  BY <1>1 DEF Jumped, Past
<1> QED
  BY <1>1, <1>2 DEF ReceiveInv

LEMMA CountFrameReceives == TypeInv /\ ReceiveInv /\ CountFrame => ReceiveInv'
<1> SUFFICES ASSUME TypeInv, ReceiveInv, CountFrame PROVE ReceiveInv'
  OBVIOUS
<1> DEFINE n == framesRx + 1  s == rxBuf.seq
<1>1. rxBuf \in Frame /\ s \in Nat
  <2>1. rxBuf \in Frame
    BY DEF CountFrame, TypeInv, TypeOK
  <2> QED
    BY <2>1, GadgetConstants DEF Frame, Seq32
<1>2. /\ pc["rx"] = "unpack" /\ pc'["rx"] = "route" /\ framesRx' = n
      /\ UNCHANGED <<bytesRx, crcErrors>>
      /\ seqGaps' = seqGaps + (IF s > expectedSeq THEN 1 ELSE 0)
      /\ expectedSeq' = (IF s >= expectedSeq THEN s + 1 ELSE expectedSeq)
      /\ received' = Append(received, rxBuf)
  BY Moves, ThreadNames DEF CountFrame, Gap, Expect
<1>3. /\ framesRx \in Nat /\ expectedSeq \in Nat /\ framesRx = Len(received)
      /\ bytesRx \in Nat /\ crcErrors \in Nat
  BY ReceiveTypes DEF ReceiveInv
<1>4. /\ Len(received') = n /\ received'[n] = rxBuf
      /\ \A j \in 1 .. framesRx : received'[j] = received[j]
  BY <1>1, <1>2, <1>3, ReceiveTypes
<1> HIDE DEF s
<1>5. Past(framesRx + 1)' = Past(n) \cup {s + 1}
  <2>1. Past(framesRx + 1)' = {received'[j].seq + 1 : j \in 1 .. n} \cup {0}
    BY <1>2, <1>3 DEF Past
  <2>2. Past(n) = {received[j].seq + 1 : j \in 1 .. framesRx} \cup {0}
    BY <1>3 DEF Past
  <2>3. \A j : j \in 1 .. n <=> j \in 1 .. framesRx \/ j = n
    BY <1>3
  <2>4. received'[n].seq + 1 = s + 1
    BY <1>4 DEF s
  <2> HIDE DEF n
  <2> QED
    BY <1>4, <2>1, <2>2, <2>3, <2>4
<1>6. \A b \in Past(n) : b \in Nat /\ b <= expectedSeq
  <2>1. \A j \in 1 .. framesRx : received[j].seq \in Nat
    <3>1. \A f \in Frame : f.seq \in Nat
      BY GadgetConstants DEF Frame, Seq32
    <3>2. \A j \in 1 .. framesRx : received[j] \in Frame
      BY <1>3, ReceiveTypes
    <3> QED
      BY <3>1, <3>2
  <2>2. \A b \in Past(n) : b \in Nat
    BY <1>3, <2>1 DEF Past
  <2> QED
    BY <2>2 DEF ReceiveInv
<1>7. expectedSeq \in Past(n)
  BY DEF ReceiveInv
<1>8. expectedSeq' \in Past(framesRx + 1)' /\ \A b \in Past(framesRx + 1)' : b <= expectedSeq'
  <2>1. expectedSeq' \in Past(n) \cup {s + 1}
    BY <1>1, <1>2, <1>3, <1>7
  <2>2. \A b \in Past(n) \cup {s + 1} : b <= expectedSeq'
    BY <1>1, <1>2, <1>3, <1>6
  <2> QED
    BY <1>5, <2>1, <2>2
<1>9. Jumped' = IF s > expectedSeq THEN Jumped \cup {n} ELSE Jumped
  <2>1. \A i \in 1 .. n : Past(i)' = Past(i)
    <3> SUFFICES ASSUME NEW i \in 1 .. n PROVE Past(i)' = Past(i)
      OBVIOUS
    <3>1. \A j \in 1 .. i - 1 : received'[j] = received[j]
      BY <1>3, <1>4
    <3> QED
      BY <3>1 DEF Past
  <2>2. \A i \in 1 .. framesRx :
          (\A b \in Past(i)' : received'[i].seq > b) <=> (\A b \in Past(i) : received[i].seq > b)
    BY <1>3, <1>4, <2>1
  <2>3. \A i \in 1 .. n : i = n => ((\A b \in Past(i)' : received'[i].seq > b) <=> s > expectedSeq)
    <3>1. received'[n].seq = s
      BY <1>4 DEF s
    <3>2. (\A b \in Past(n) : s > b) <=> s > expectedSeq
      BY <1>1, <1>3, <1>6, <1>7
    <3> HIDE DEF n
    <3> QED
      BY <2>1, <3>1, <3>2
  <2>4. \A i : i \in 1 .. n <=> i \in 1 .. framesRx \/ i = n
    BY <1>3
  <2>5. Jumped' = {i \in 1 .. n : \A b \in Past(i)' : received'[i].seq > b}
    BY <1>2 DEF Jumped
  <2> HIDE DEF n
  <2> QED
    BY <2>2, <2>3, <2>4, <2>5 DEF Jumped
<1>10. seqGaps' = Cardinality(Jumped')
  <2>1. IsFiniteSet(Jumped) /\ Cardinality(Jumped) \in Nat /\ n \notin Jumped
    <3>1. IsFiniteSet(1 .. framesRx)
      BY <1>3, FS_Interval
    <3> QED
      BY <1>3, <3>1, FS_Subset, FS_CardinalityType DEF Jumped
  <2>2. Cardinality(Jumped \cup {n}) = Cardinality(Jumped) + 1
    BY <2>1, FS_AddElement
  <2>3. seqGaps = Cardinality(Jumped)
    BY DEF ReceiveInv
  <2> HIDE DEF n
  <2> QED
    BY <1>2, <1>9, <2>1, <2>2, <2>3
<1>11. bytesRx' = framesRx' + crcErrors' + (IF pc'["rx"] = "unpack" THEN 1 ELSE 0)
  BY <1>2, <1>3 DEF ReceiveInv
<1> QED
  BY <1>2, <1>4, <1>8, <1>10, <1>11 DEF ReceiveInv

LEMMA NextReceives == TypeInv /\ ReceiveInv /\ [Next]_vars => ReceiveInv'
<1> SUFFICES ASSUME TypeInv, ReceiveInv, [Next]_vars PROVE ReceiveInv'
  OBVIOUS
<1> USE DEF rxVars
<1>1. CASE UNCHANGED vars
  BY <1>1, ReceiveStill DEF vars
<1>2. CASE MainNext
  <2>1. CASE StartThreads
    <3>1. pc["rx"] = "off" /\ pc'["rx"] \in {"ready", "top"} /\ UNCHANGED <<bytesRx, rxStats>>
      BY <2>1, ThreadNames DEF StartThreads, TypeInv, Control
    <3> QED
      BY <3>1, ReceiveStill
  <2>2. CASE ~StartThreads
    <3>1. UNCHANGED <<pc, rxVars>>
      BY <1>2, <2>2 DEF MainNext, WriteDescriptors, WaitForEnable, StartFails,
                        StopEarly, StopFlag, StopClose, Exit
    <3> QED
      BY <3>1, ReceiveStill
  <2> QED
    BY <2>1, <2>2
<1>3. ASSUME NEW t \in Threads, NEW l, Goto(t, l), UNCHANGED <<bytesRx, rxStats>>,
             t = "rx" => pc[t] # "unpack" /\ l # "unpack"
      PROVE  ReceiveInv'
  <2>1. pc'["rx"] = "unpack" <=> pc["rx"] = "unpack"
    BY <1>3, Moves, ThreadNames
  <2> QED
    BY <1>3, <2>1, ReceiveStill
<1>4. CASE AppNext
  <2>1. ASSUME NEW s \in Senders, SendRejected(s) PROVE ReceiveInv'
    BY <2>1, ReceiveStill DEF SendRejected
  <2>2. ASSUME NEW s \in Senders, NEW d \in Targets, Send(s, d) PROVE ReceiveInv'
    <3>1. s \in Threads /\ s # "rx"
      BY GadgetConstants DEF Threads, Producers
    <3> QED
      BY <1>3, <2>2, <3>1 DEF Send, Pack
  <2> QED
    BY <1>4, <2>1, <2>2 DEF AppNext
<1>5. CASE HbNext
  BY <1>3, <1>5, ThreadNames DEF HbNext, LoopTest, Heartbeat, Pack
<1>6. CASE TxNext
  <2>1. UNCHANGED rxVars
    BY <1>6 DEF TxNext, WriteOn, LoopTest, GetTimesOut, Get, WriteTest, Write, WriteBlocks,
                WriteFails, CountSent
  <2>2. \E l : Goto("tx", l)
    BY <1>6 DEF TxNext, WriteOn, LoopTest, GetTimesOut, Get, WriteTest, Write, WriteBlocks,
                WriteFails, CountSent
  <2> QED
    BY <1>3, <2>1, <2>2, ThreadNames
<1>7. CASE PutNext
  <2>1. PICK p \in Producers : Put(p)
    BY <1>7 DEF PutNext
  <2>2. pc[p] = "put" /\ Goto(p, IF p \in Senders THEN "ready" ELSE "top") /\ UNCHANGED rxVars
    BY <2>1 DEF Put
  <2> QED
    BY <1>3, <2>2, ThreadNames
<1>8. CASE RxNext
  <2>1. CASE LoopTest("rx", "read")
    BY <1>3, <2>1, ThreadNames DEF LoopTest
  <2>2. CASE ReadNothing \/ Deliver \/ HopDrop
    BY <1>3, <2>2, ThreadNames DEF ReadNothing, Deliver, HopDrop
  <2>3. CASE Forward
    BY <1>3, <2>3, ThreadNames DEF Forward, Pack
  <2>4. ASSUME NEW buf, Read(buf) PROVE ReceiveInv'
    <3>1. pc["rx"] = "read" /\ pc'["rx"] = "unpack" /\ bytesRx' = bytesRx + 1 /\ UNCHANGED rxStats
      BY <2>4, Moves, ThreadNames DEF Read
    <3>2. UNCHANGED <<framesRx, crcErrors, seqGaps, expectedSeq, received>>
      BY <3>1 DEF rxStats
    <3>3. Jumped' = Jumped /\ Past(framesRx + 1)' = Past(framesRx + 1)
      BY <3>2 DEF Jumped, Past
    <3> QED
      BY <3>1, <3>2, <3>3, ReceiveTypes DEF ReceiveInv
  <2>5. CASE UnpackFails
    <3>1. /\ pc["rx"] = "unpack" /\ pc'["rx"] = "top" /\ crcErrors' = crcErrors + 1
          /\ UNCHANGED <<bytesRx, framesRx, seqGaps, expectedSeq, received>>
      BY <2>5, Moves, ThreadNames DEF UnpackFails
    <3>2. Jumped' = Jumped /\ Past(framesRx + 1)' = Past(framesRx + 1)
      BY <3>1 DEF Jumped, Past
    <3> QED
      BY <3>1, <3>2, ReceiveTypes DEF ReceiveInv
  <2>6. CASE CountFrame
    BY <2>6, CountFrameReceives
  <2> QED
    BY <1>8, <2>1, <2>2, <2>3, <2>4, <2>5, <2>6 DEF RxNext, RxInput
<1> QED
  BY <1>1, <1>2, <1>4, <1>5, <1>6, <1>7, <1>8 DEF Next

LEMMA InitReceives == Init => ReceiveInv
<1> SUFFICES ASSUME Init PROVE ReceiveInv
  OBVIOUS
<1>1. framesRx = 0 /\ received = <<>> /\ expectedSeq = 0 /\ pc["rx"] = "off"
  BY ThreadNames DEF Init
<1>2. Past(framesRx + 1) = {0} /\ Jumped = {}
  BY <1>1 DEF Past, Jumped
<1> QED
  BY <1>1, <1>2, FS_EmptySet DEF ReceiveInv, Init

\* expected_seq is one past the highest number received and seq_gaps counts the
\* frames that jumped past it, whatever arrives, repeated, late or after a wrap.
THEOREM ReceiveCountsExact == Spec => []RxAccounting
BY AllTypes, InitReceives, NextReceives, ReceiveInvEquiv, PTL DEF Spec

-----------------------------------------------------------------------------
(* BoundedReorder.  A producer takes its next number only after its frame is *)
(* queued, so of one producer's numbers smaller than a queued one at most    *)
(* one is still to come.                                                     *)

OvertakeInv ==
  /\ \A i, j, k \in 1 .. Len(Line) :
       i <= j /\ j < k /\ Line[j].by = Line[k].by => Line[i].n < Line[k].n
  /\ \A i, j \in 1 .. Len(Line), p \in InHand :
       i <= j /\ Line[j].by = p => Line[i].n < hand[p].n

\* Line position by position, from the frames sent and the frames queued.
Joined(L, s, q) ==
  /\ L \in Seq(Packet) /\ Len(s) \in Nat /\ Len(q) \in Nat /\ Len(L) = Len(s) + Len(q)
  /\ \A i \in 1 .. Len(s) : L[i] = s[i].packet
  /\ \A i \in 1 .. Len(q) : L[Len(s) + i] = q[i]

LEMMA JoinParts ==
  ASSUME NEW s \in Seq([packet : Packet, written : 0 .. FrameLen]), NEW q \in Seq(Packet)
  PROVE  Joined([i \in 1 .. Len(s) |-> s[i].packet] \o q, s, q)
<1> DEFINE Entry == [packet : Packet, written : 0 .. FrameLen]
           m == Len(s)
           S == [i \in 1 .. m |-> s[i].packet]
           L == S \o q
<1>1. \A e \in Entry : e.packet \in Packet
  OBVIOUS
<1>2. s \in Seq(Entry)
  OBVIOUS
<1> HIDE DEF Entry
<1>3. m \in Nat /\ Len(q) \in Nat /\ \A i \in 1 .. m : s[i] \in Entry
  BY <1>2
<1> HIDE DEF m
<1>4. S \in Seq(Packet) /\ Len(S) = m /\ \A i \in 1 .. m : S[i] = s[i].packet
  BY <1>1, <1>3
<1> HIDE DEF S
<1>5. /\ L \in Seq(Packet) /\ Len(L) = m + Len(q)
      /\ \A i \in 1 .. m + Len(q) : L[i] = IF i <= m THEN S[i] ELSE q[i - m]
  BY <1>3, <1>4, SMTT(30)
<1> HIDE DEF L
<1>6. \A i \in 1 .. m : L[i] = S[i]
  BY <1>3, <1>5
<1>7. ASSUME NEW i \in 1 .. Len(q) PROVE L[m + i] = q[i]
  <2>1. m + i \in 1 .. m + Len(q) /\ ~(m + i <= m) /\ (m + i) - m = i
    BY <1>3
  <2> QED
    BY <1>5, <2>1
<1>8. Joined(L, s, q)
  BY <1>3, <1>4, <1>5, <1>6, <1>7 DEF Joined, m
<1> QED
  BY <1>8 DEF L, S, m

LEMMA LineParts == TypeInv => Joined(Line, sent, txQueue)
BY JoinParts DEF TypeInv, TypeOK, Line

LEMMA LinePartsNext == TypeInv' => Joined(Line', sent', txQueue')
BY JoinParts DEF TypeInv, TypeOK, Line

\* A sequence is told by its length and its two parts.
LEMMA LinePlaces ==
  ASSUME TypeInv
  PROVE  \A i \in 1 .. Len(Line) : \/ i \in 1 .. Len(sent)
                                   \/ \E j \in 1 .. Len(txQueue) : i = Len(sent) + j
<1> SUFFICES ASSUME NEW i \in 1 .. Len(Line), i \notin 1 .. Len(sent)
             PROVE  \E j \in 1 .. Len(txQueue) : i = Len(sent) + j
  OBVIOUS
<1>1. i - Len(sent) \in 1 .. Len(txQueue) /\ i = Len(sent) + (i - Len(sent))
  BY LineParts DEF Joined
<1> QED
  BY <1>1

LEMMA LinePut ==
  ASSUME TypeInv, TypeInv', NEW p \in Producers, Put(p)
  PROVE  /\ Len(Line') = Len(Line) + 1 /\ Line'[Len(Line) + 1] = hand[p]
         /\ \A i \in 1 .. Len(Line) : Line'[i] = Line[i]
<1>1. /\ txQueue' = Append(txQueue, hand[p]) /\ hand[p] \in Packet /\ sent' = sent
      /\ txQueue \in Seq(Packet)
  BY DEF Put, TypeInv, TypeOK, Control, txVars
<1>2. /\ Len(txQueue') = Len(txQueue) + 1 /\ txQueue'[Len(txQueue) + 1] = hand[p]
      /\ \A i \in 1 .. Len(txQueue) : txQueue'[i] = txQueue[i]
  BY <1>1
<1>0. /\ Len(sent) \in Nat /\ Len(txQueue) \in Nat /\ Len(Line) = Len(sent) + Len(txQueue)
      /\ \A i \in 1 .. Len(sent) : Line[i] = sent[i].packet
      /\ \A i \in 1 .. Len(txQueue) : Line[Len(sent) + i] = txQueue[i]
  BY LineParts DEF Joined
<1>3. /\ Len(Line') = Len(sent') + Len(txQueue')
      /\ \A i \in 1 .. Len(sent') : Line'[i] = sent'[i].packet
      /\ \A i \in 1 .. Len(txQueue') : Line'[Len(sent') + i] = txQueue'[i]
  BY LinePartsNext DEF Joined
<1>4. Len(Line') = Len(Line) + 1
  BY <1>1, <1>2, <1>3, <1>0
<1>5. Line'[Len(Line) + 1] = hand[p]
  <2>1. Len(Line) + 1 = Len(sent) + (Len(txQueue) + 1) /\ Len(txQueue) + 1 \in 1 .. Len(txQueue')
    BY <1>0, <1>2
  <2> QED
    BY <1>1, <1>2, <1>3, <2>1
<1>6. \A i \in 1 .. Len(Line) : Line'[i] = Line[i]
  <2>1. \A i \in 1 .. Len(sent) : Line'[i] = Line[i]
    BY <1>1, <1>0, <1>3
  <2>2. ASSUME NEW i \in 1 .. Len(txQueue) PROVE Line'[Len(sent) + i] = Line[Len(sent) + i]
    <3>1. i \in 1 .. Len(txQueue') /\ Len(sent') = Len(sent)
      BY <1>0, <1>1, <1>2
    <3>2. Line'[Len(sent) + i] = txQueue'[i] /\ Line[Len(sent) + i] = txQueue[i]
      BY <1>0, <1>3, <3>1
    <3> QED
      BY <1>2, <3>2
  <2> QED
    BY <2>1, <2>2, LinePlaces
<1> QED
  BY <1>4, <1>5, <1>6

\* Only put changes Line: what the tx thread does moves a frame along it.
LEMMA LineGet == TypeInv /\ TypeInv' /\ Get => Line' = Line
<1> SUFFICES ASSUME TypeInv, TypeInv', Get PROVE Line' = Line
  OBVIOUS
<1> DEFINE m == Len(sent)  n == Len(txQueue)
<1>0. /\ m \in Nat /\ n \in Nat /\ Len(Line) = m + n /\ Line \in Seq(Packet)
      /\ \A i \in 1 .. m : Line[i] = sent[i].packet
      /\ \A i \in 1 .. n : Line[m + i] = txQueue[i]
  BY LineParts DEF Joined
<1>1. /\ Len(sent') = m + 1 /\ sent'[m + 1].packet = txQueue[1]
      /\ \A i \in 1 .. m : sent'[i] = sent[i]
  <2>1. Head(txQueue) = txQueue[1]
    BY DEF Get, TypeInv, TypeOK
  <2> QED
    BY <2>1, GetSent
<1>2. /\ Len(txQueue') = n - 1 /\ n > 0
      /\ \A i \in 1 .. n - 1 : txQueue'[i] = txQueue[i + 1]
  BY SMTT(30) DEF Get, TypeInv, TypeOK
<1>3. /\ Len(Line') = Len(sent') + Len(txQueue') /\ Line' \in Seq(Packet)
      /\ \A i \in 1 .. Len(sent') : Line'[i] = sent'[i].packet
      /\ \A i \in 1 .. Len(txQueue') : Line'[Len(sent') + i] = txQueue'[i]
  BY LinePartsNext DEF Joined
<1> HIDE DEF m, n
<1>4. Len(Line') = Len(Line)
  BY <1>0, <1>1, <1>2, <1>3
<1>5. ASSUME NEW i \in 1 .. Len(Line) PROVE Line'[i] = Line[i]
  <2>1. CASE i \in 1 .. m
    BY <1>0, <1>1, <1>3, <2>1
  <2>2. CASE i = m + 1
    <3>1. 1 \in 1 .. n /\ m + 1 \in 1 .. Len(sent')
      BY <1>0, <1>1, <1>2
    <3>2. Line[m + 1] = txQueue[1] /\ Line'[m + 1] = sent'[m + 1].packet
      BY <1>0, <1>3, <3>1
    <3> QED
      BY <1>1, <2>2, <3>2
  <2>3. CASE i > m + 1
    <3> DEFINE k == i - (m + 1)
    <3>1. /\ k \in 1 .. n - 1 /\ k + 1 \in 1 .. n /\ i = m + (k + 1) /\ i = (m + 1) + k
          /\ Len(txQueue') = n - 1
      BY <1>0, <1>2, <2>3
    <3> HIDE DEF k
    <3>2. Line[i] = txQueue[k + 1]
      BY <1>0, <3>1
    <3>3. Line'[i] = txQueue'[k]
      BY <1>1, <1>3, <3>1
    <3> QED
      BY <1>2, <3>1, <3>2, <3>3
  <2>4. i \in Nat /\ i >= 1
    BY <1>0
  <2> QED
    BY <1>0, <2>1, <2>2, <2>3, <2>4
<1> QED
  BY <1>0, <1>3, <1>4, <1>5

LEMMA LineWrite ==
  ASSUME TypeInv, TypeInv', NEW k \in 1 .. FrameLen, Write(k)
  PROVE  Line' = Line
<1>1. Len(sent') = Len(sent) /\ \A i \in 1 .. Len(sent) : sent'[i].packet = sent[i].packet
  BY WriteKeepsPackets
<1>2. txQueue' = txQueue
  BY DEF Write
<1>3. [i \in 1 .. Len(sent) |-> sent[i].packet]' = [i \in 1 .. Len(sent) |-> sent[i].packet]
  BY <1>1
<1> QED
  BY <1>2, <1>3 DEF Line

\* Every number in Line was allocated, and every allocated number that is not
\* burned is in Line or in a hand.
LEMMA LineNumbers ==
  ASSUME TypeInv, PositionsOnce
  PROVE  /\ alloc \in Nat /\ \A i \in 1 .. Len(Line) : Line[i].n \in 0 .. alloc - 1
         /\ \A k \in 0 .. alloc - 1 : \/ k \in burned \/ \E p \in InHand : hand[p].n = k
                                      \/ \E i \in 1 .. Len(Line) : Line[i].n = k
<1>1. alloc \in Nat /\ 0 .. alloc - 1 = burned \cup HandNs \cup QueueNs \cup SentNs
  BY DEF TypeInv, TypeOK, PositionsOnce
<1>2. /\ Len(sent) \in Nat /\ Len(txQueue) \in Nat /\ Len(Line) = Len(sent) + Len(txQueue)
      /\ \A i \in 1 .. Len(sent) : Line[i] = sent[i].packet
      /\ \A i \in 1 .. Len(txQueue) : Line[Len(sent) + i] = txQueue[i]
  BY LineParts DEF Joined
<1>3. ASSUME NEW i \in 1 .. Len(Line) PROVE Line[i].n \in SentNs \cup QueueNs
  BY <1>2, LinePlaces DEF SentNs, QueueNs
<1>4. ASSUME NEW k \in SentNs \cup QueueNs PROVE \E i \in 1 .. Len(Line) : Line[i].n = k
  <2>1. CASE k \in SentNs
    <3>1. PICK i \in 1 .. Len(sent) : sent[i].packet.n = k
      BY <2>1 DEF SentNs
    <3>2. i \in 1 .. Len(Line)
      BY <1>2
    <3> QED
      BY <1>2, <3>1, <3>2
  <2>2. CASE k \in QueueNs
    <3>1. PICK i \in 1 .. Len(txQueue) : txQueue[i].n = k
      BY <2>2 DEF QueueNs
    <3>2. Len(sent) + i \in 1 .. Len(Line)
      BY <1>2
    <3> QED
      BY <1>2, <3>1, <3>2
  <2> QED
    BY <2>1, <2>2
<1> QED
  BY <1>1, <1>3, <1>4 DEF HandNs

LEMMA OvertakeStill == OvertakeInv /\ Line' = Line /\ hand' = hand => OvertakeInv'
BY DEF OvertakeInv, InHand

LEMMA PackOvertakes ==
  ASSUME TypeInv, PositionsOnce, OvertakeInv, NEW p \in Producers, NEW f \in Frame,
         Pack(p, f), pc[p] # "put", UNCHANGED <<txQueue, sent>>
  PROVE  OvertakeInv'
<1>1. hand'[p].n = alloc /\ \A q \in Producers \ {p} : hand'[q] = hand[q]
  BY DEF Pack, TypeInv, TypeOK
<1>2. \A q \in InHand' : q = p \/ (q \in InHand /\ hand'[q] = hand[q])
  BY <1>1 DEF InHand
<1>3. Line' = Line
  BY DEF Line
<1>4. \A i \in 1 .. Len(Line) : Line[i].n < alloc
  BY LineNumbers
<1> QED
  BY <1>1, <1>2, <1>3, <1>4 DEF OvertakeInv

LEMMA PutOvertakes ==
  ASSUME TypeInv, TypeInv', OvertakeInv, NEW p \in Producers, Put(p)
  PROVE  OvertakeInv'
<1> DEFINE m == Len(Line)  h == hand[p]
<1>1. h.by = p /\ p \in InHand
  BY DEF Put, TypeInv, Control, InHand
<1>2. \A q \in InHand' : q # p /\ q \in InHand /\ hand'[q] = hand[q]
  BY DEF Put, TypeInv, TypeOK, InHand
<1>3. Len(Line') = m + 1 /\ Line'[m + 1] = h /\ \A i \in 1 .. m : Line'[i] = Line[i]
  BY LinePut
<1>4. m \in Nat
  BY LineParts DEF Joined
<1> HIDE DEF h
<1>5. \A i \in 1 .. Len(Line') : i \in 1 .. m \/ i = m + 1
  BY <1>3, <1>4
<1>6. \A i, j \in 1 .. m : i <= j /\ Line[j].by = p => Line[i].n < h.n
  BY <1>1 DEF OvertakeInv, h
<1> HIDE DEF m
<1>7. ASSUME NEW i \in 1 .. Len(Line'), NEW j \in 1 .. Len(Line'), NEW k \in 1 .. Len(Line'),
             i <= j, j < k, Line'[j].by = Line'[k].by
      PROVE  Line'[i].n < Line'[k].n
  <2>1. i \in 1 .. m /\ j \in 1 .. m
    BY <1>3, <1>4, <1>7
  <2>2. CASE k \in 1 .. m
    BY <1>3, <1>7, <2>1, <2>2 DEF OvertakeInv, m
  <2>3. CASE k = m + 1
    BY <1>1, <1>3, <1>6, <1>7, <2>1, <2>3
  <2> QED
    BY <1>5, <2>2, <2>3
<1>8. ASSUME NEW i \in 1 .. Len(Line'), NEW j \in 1 .. Len(Line'), NEW q \in InHand',
             i <= j, Line'[j].by = q
      PROVE  Line'[i].n < hand'[q].n
  <2>1. j \in 1 .. m
    BY <1>1, <1>2, <1>3, <1>5, <1>8
  <2>2. i \in 1 .. m
    BY <1>3, <1>4, <1>8, <2>1
  <2> QED
    BY <1>2, <1>3, <1>8, <2>1, <2>2 DEF OvertakeInv, m
<1> QED
  BY <1>7, <1>8 DEF OvertakeInv

LEMMA NextOvertakes ==
  TypeInv /\ TypeInv' /\ PositionsOnce /\ OvertakeInv /\ [Next]_vars => OvertakeInv'
<1> SUFFICES ASSUME TypeInv, TypeInv', PositionsOnce, OvertakeInv, [Next]_vars
             PROVE  OvertakeInv'
  OBVIOUS
<1> USE DEF mainVars, seqVars, txVars, rxVars
<1>1. ASSUME UNCHANGED <<hand, txQueue, sent>> PROVE OvertakeInv'
  <2>1. Line' = Line
    BY <1>1 DEF Line
  <2> QED
    BY <1>1, <2>1, OvertakeStill
<1>2. CASE MainNext
  BY <1>1, <1>2 DEF MainNext, WriteDescriptors, WaitForEnable, StartThreads, StartFails,
                    StopEarly, StopFlag, StopClose, Exit
<1>3. ASSUME NEW s \in Senders, NEW d \in Targets, Send(s, d) PROVE OvertakeInv'
  BY <1>3, PackOvertakes, DataFrameType DEF Send, Producers
<1>4. ASSUME NEW s \in Senders, SendRejected(s) PROVE OvertakeInv'
  BY <1>1, <1>4 DEF SendRejected
<1>5. CASE HbNext
  BY <1>1, <1>5, PackOvertakes, HeartbeatType DEF HbNext, LoopTest, Heartbeat, Producers
<1>6. CASE Forward
  <2>1. rxBuf \in Frame /\ Transit(rxBuf) /\ pc["rx"] # "put" /\ "rx" \in Producers
    BY <1>6 DEF Forward, TypeInv, Control, Producers
  <2> QED
    BY <1>6, <2>1, ForwardedType, PackOvertakes DEF Forward
<1>7. CASE RxNext /\ ~Forward
  BY <1>1, <1>7 DEF RxNext, RxInput, LoopTest, ReadNothing, Read, UnpackFails, CountFrame,
                    Deliver, HopDrop
<1>8. CASE Get
  BY <1>8, LineGet, OvertakeStill DEF Get
<1>9. ASSUME NEW k \in 1 .. FrameLen, Write(k) PROVE OvertakeInv'
  BY <1>9, LineWrite, OvertakeStill DEF Write
<1>10. CASE LoopTest("tx", "get") \/ GetTimesOut \/ WriteTest \/ WriteBlocks \/ WriteFails
            \/ CountSent
  BY <1>1, <1>10 DEF LoopTest, GetTimesOut, WriteTest, WriteBlocks, WriteFails, CountSent
<1>11. CASE PutNext
  BY <1>11, PutOvertakes DEF PutNext
<1>12. CASE UNCHANGED vars
  BY <1>1, <1>12 DEF vars
<1> QED
  BY <1>2, <1>3, <1>4, <1>5, <1>6, <1>7, <1>8, <1>9, <1>10, <1>11, <1>12
     DEF Next, AppNext, TxNext, WriteOn

LEMMA ProducersFinite == IsFiniteSet(Producers)
<1>1. Producers = (Senders \cup {"hb"}) \cup {"rx"}
  BY DEF Producers
<1>2. IsFiniteSet(Senders \cup {"hb"})
  BY GadgetConstants, FS_AddElement
<1> QED
  BY <1>1, <1>2, FS_AddElement

\* The numbers below the i-th of Line that do not precede it in Line.
ToCome(i) == {k \in 0 .. Line[i].n - 1 : k \notin burned /\ \A j \in 1 .. i : Line[j].n # k}

\* Producer p has the frame with number k in hand or in Line.
Comes(k, p) == \/ p \in InHand /\ hand[p].n = k
               \/ \E j \in 1 .. Len(Line) : Line[j].by = p /\ Line[j].n = k

LEMMA LateComes ==
  ASSUME TypeInv, PositionsOnce, OvertakeInv, NEW i \in 1 .. Len(Line), NEW k \in ToCome(i)
  PROVE  \E p \in Producers \ {Line[i].by} : Comes(k, p)
<1>1. /\ k \in 0 .. Line[i].n - 1 /\ k \notin burned /\ \A j \in 1 .. i : Line[j].n # k
      /\ Line[i].n \in Nat /\ Line[i].n < alloc /\ alloc \in Nat /\ i \in Nat
  BY LineNumbers DEF ToCome
<1>2. k \in 0 .. alloc - 1 /\ k < Line[i].n
  BY <1>1
<1>3. CASE \E p \in InHand : hand[p].n = k
  <2>1. PICK p \in InHand : hand[p].n = k
    BY <1>3
  <2>2. p # Line[i].by
    BY <1>1, <1>2, <2>1 DEF OvertakeInv
  <2> QED
    BY <2>1, <2>2 DEF Comes, InHand
<1>4. CASE \E j \in 1 .. Len(Line) : Line[j].n = k
  <2>1. PICK j \in 1 .. Len(Line) : Line[j].n = k
    BY <1>4
  <2>2. i <= i /\ i < j
    BY <1>1, <2>1
  <2>3. Line[j].by # Line[i].by
    BY <1>1, <1>2, <2>1, <2>2 DEF OvertakeInv
  <2>4. Line[j].by \in Producers
    <3>1. Line[j] \in Packet
      BY LineParts DEF Joined
    <3> QED
      BY <3>1 DEF Packet
  <2> QED
    BY <2>1, <2>3, <2>4 DEF Comes
<1> QED
  BY <1>1, <1>2, <1>3, <1>4, LineNumbers

LEMMA LateOnce ==
  ASSUME TypeInv, PositionsOnce, OvertakeInv, NEW i \in 1 .. Len(Line),
         NEW k \in ToCome(i), NEW l \in ToCome(i), NEW p, Comes(k, p), Comes(l, p)
  PROVE  k = l
<1>1. /\ k < Line[i].n /\ l < Line[i].n /\ k \in Nat /\ l \in Nat /\ Line[i].n \in Nat /\ i \in Nat
      /\ \A j \in 1 .. i : Line[j].n # k /\ Line[j].n # l
  BY LineNumbers DEF ToCome
<1>2. CASE p \in InHand /\ hand[p].n = k /\ hand[p].n = l
  BY <1>2
<1>3. ASSUME NEW j \in 1 .. Len(Line), Line[j].by = p, Line[j].n = k \/ Line[j].n = l, p \in InHand
      PROVE  Line[i].n < hand[p].n
  <2>1. i <= j
    BY <1>1, <1>3
  <2> QED
    BY <1>3, <2>1 DEF OvertakeInv
<1>4. ASSUME NEW j \in 1 .. Len(Line), NEW m \in 1 .. Len(Line), Line[j].by = p, Line[m].by = p,
             Line[j].n = k, Line[m].n = l
      PROVE  k = l
  <2>1. i <= j /\ i <= m /\ j \in Nat /\ m \in Nat
    BY <1>1, <1>4
  <2>2. ~(j < m) /\ ~(m < j)
    BY <1>1, <1>4, <2>1 DEF OvertakeInv
  <2>3. j = m
    BY <2>1, <2>2
  <2> QED
    BY <1>4, <2>3
<1> QED
  BY <1>1, <1>2, <1>3, <1>4 DEF Comes

LEMMA OvertakeBounds == TypeInv /\ PositionsOnce /\ OvertakeInv => BoundedReorder
<1> SUFFICES ASSUME TypeInv, PositionsOnce, OvertakeInv, NEW i \in 1 .. Len(Line)
             PROVE  Cardinality(ToCome(i)) < Cardinality(Producers)
  BY DEF BoundedReorder, ToCome
<1> DEFINE others == Producers \ {Line[i].by}
           f == [k \in ToCome(i) |-> CHOOSE p \in others : Comes(k, p)]
<1>1. \A k \in ToCome(i) : f[k] \in others /\ Comes(k, f[k])
  BY LateComes
<1> HIDE DEF f
<1>2. \A k, l \in ToCome(i) : f[k] = f[l] => k = l
  <2> SUFFICES ASSUME NEW k \in ToCome(i), NEW l \in ToCome(i), f[k] = f[l] PROVE k = l
    OBVIOUS
  <2>1. Comes(k, f[k]) /\ Comes(l, f[k])
    BY <1>1
  <2> QED
    BY <2>1, LateOnce
<1>3. f \in Injection(ToCome(i), others)
  <2>1. f \in [ToCome(i) -> others]
    BY <1>1 DEF f
  <2> QED
    BY <1>2, <2>1 DEF Injection, IsInjective
<1>4. Line[i].by \in Producers
  <2>1. Line[i] \in Packet
    BY LineParts DEF Joined
  <2> QED
    BY <2>1 DEF Packet
<1>5. /\ IsFiniteSet(others) /\ Cardinality(others) = Cardinality(Producers) - 1
      /\ Cardinality(Producers) \in Nat
  BY <1>4, ProducersFinite, FS_RemoveElement, FS_CardinalityType
<1> HIDE DEF others
<1>6. Cardinality(ToCome(i)) <= Cardinality(others) /\ IsFiniteSet(ToCome(i))
  BY <1>3, <1>5, FS_Injection
<1>7. Cardinality(ToCome(i)) \in Nat
  BY <1>6, FS_CardinalityType
<1> QED
  BY <1>5, <1>6, <1>7

LEMMA InitOvertakes == Init => PositionsOnce /\ OvertakeInv
<1> SUFFICES ASSUME Init PROVE PositionsOnce /\ OvertakeInv
  OBVIOUS
<1>1. PositionsOnce
  BY DEF Init, PositionsOnce, InHand, HandNs, QueueNs, SentNs
<1>2. TypeInv
  BY InitTypeInv
<1>3. Len(sent) = 0 /\ Len(txQueue) = 0
  BY DEF Init
<1>4. Len(Line) = 0
  BY <1>2, <1>3, LineParts DEF Joined
<1> QED
  BY <1>1, <1>4 DEF OvertakeInv

\* However the producers interleave, at most one number of each other producer
\* is overtaken by a frame: the receiver's reordering is bounded by the number
\* of threads, for any number of application threads.
THEOREM ReorderBounded == Spec => []BoundedReorder
<1>1. Spec => [](TypeInv /\ PositionsOnce)
  BY AllTypes, InitOvertakes, NextOnce, PTL DEF Spec
<1>2. Spec => []OvertakeInv
  BY <1>1, InitOvertakes, NextOvertakes, PTL DEF Spec
<1> QED
  BY <1>1, <1>2, OvertakeBounds, PTL

-----------------------------------------------------------------------------
(* Ranks: what a set of positions becomes when the next position joins it.   *)

Ranked(S, T, k) ==
  /\ IsFiniteSet(S) /\ Cardinality(S) \in Nat /\ Cardinality(T) = Cardinality(S) + 1
  /\ Rank(k, T) = Cardinality(S) + 1
  /\ \A i \in S : Rank(i, T) = Rank(i, S) /\ Rank(i, S) \in 1 .. Cardinality(S)

LEMMA RankGrows ==
  ASSUME NEW k \in Nat, NEW S \in SUBSET (1 .. k)
  PROVE  Ranked(S, S \cup {k + 1}, k + 1)
<1> DEFINE T == S \cup {k + 1}
<1>1. IsFiniteSet(S) /\ Cardinality(S) \in Nat
  <2>1. IsFiniteSet(1 .. k)
    BY FS_Interval
  <2> QED
    BY <2>1, FS_Subset, FS_CardinalityType
<1>2. k + 1 \notin S /\ Cardinality(T) = Cardinality(S) + 1
  <2>1. k + 1 \notin S
    OBVIOUS
  <2> QED
    BY <1>1, <2>1, FS_AddElement
<1>3. Rank(k + 1, T) = Cardinality(S) + 1
  <2>1. \A j \in T : j <= k + 1
    OBVIOUS
  <2> HIDE DEF T
  <2>2. {j \in T : j <= k + 1} = T
    BY <2>1
  <2> QED
    BY <1>2, <2>2 DEF Rank
<1>4. ASSUME NEW i \in S PROVE Rank(i, T) = Rank(i, S) /\ Rank(i, S) \in 1 .. Cardinality(S)
  <2>1. {j \in T : j <= i} = {j \in S : j <= i}
    OBVIOUS
  <2> DEFINE U == {j \in S : j <= i}
  <2>2. IsFiniteSet(U) /\ Cardinality(U) <= Cardinality(S) /\ Cardinality(U) \in Nat
    BY <1>1, FS_Subset, FS_CardinalityType
  <2>3. i \in U
    OBVIOUS
  <2>4. Cardinality(U) # 0
    BY <2>2, <2>3, FS_EmptySet
  <2>5. Cardinality(U) \in 1 .. Cardinality(S)
    BY <1>1, <2>2, <2>4
  <2> QED
    BY <2>1, <2>5 DEF Rank
<1> HIDE DEF T
<1>5. Ranked(S, T, k + 1)
  BY <1>1, <1>2, <1>3, <1>4 DEF Ranked
<1> QED
  BY <1>5 DEF T

-----------------------------------------------------------------------------
(* RoutedOnce, as a relation between the frames received, those handed to    *)
(* the application and those on their way out.                               *)

HandedOver(M, rcv, q) ==
  Len(q) = Cardinality(M) /\ \A i \in M : q[Rank(i, M)] = rcv[i]

\* T: the positions received in transit; R: the positions of rx's packets in L;
\* h: what rx has in hand.
Relayed(T, rcv, R, L, h) ==
  /\ Cardinality(T) = Cardinality(R) + (IF h # NoPacket THEN 1 ELSE 0)
  /\ \A i \in T : /\ \A j \in R : Rank(j, R) = Rank(i, T) => IsRelay(L[j], rcv[i])
                  /\ h # NoPacket /\ Rank(i, T) = Cardinality(T) => IsRelay(h, rcv[i])

\* One more frame for the application.
LEMMA DeliverNext ==
  ASSUME NEW k \in Nat, NEW M \in SUBSET (1 .. k), NEW rcv, NEW q \in Seq(Frame),
         NEW f \in Frame, f = rcv[k + 1], HandedOver(M, rcv, q)
  PROVE  HandedOver(M \cup {k + 1}, rcv, Append(q, f))
<1> DEFINE N == M \cup {k + 1}  p == Append(q, f)
<1>1. Ranked(M, N, k + 1)
  BY RankGrows
<1> HIDE DEF N
<1>2. Len(q) = Cardinality(M) /\ \A i \in M : q[Rank(i, M)] = rcv[i]
  BY DEF HandedOver
<1>3. Len(p) = Len(q) + 1 /\ p[Len(q) + 1] = f /\ \A i \in 1 .. Len(q) : p[i] = q[i]
  OBVIOUS
<1> HIDE DEF p
<1>4. \A i \in M : p[Rank(i, N)] = rcv[i]
  BY <1>1, <1>2, <1>3 DEF Ranked
<1>5. p[Rank(k + 1, N)] = rcv[k + 1]
  BY <1>1, <1>2, <1>3 DEF Ranked
<1>6. Len(p) = Cardinality(N)
  BY <1>1, <1>2, <1>3 DEF Ranked
<1>7. \A i \in N : i \in M \/ i = k + 1
  BY DEF N
<1>8. HandedOver(N, rcv, p)
  BY <1>4, <1>5, <1>6, <1>7 DEF HandedOver
<1> QED
  BY <1>8 DEF N, p

\* One more frame to forward, in hand.
LEMMA RelayNext ==
  ASSUME NEW k \in Nat, NEW T \in SUBSET (1 .. k), NEW m \in Nat, NEW R \in SUBSET (1 .. m),
         NEW rcv, NEW L, Relayed(T, rcv, R, L, NoPacket),
         NEW h, h # NoPacket, IsRelay(h, rcv[k + 1])
  PROVE  Relayed(T \cup {k + 1}, rcv, R, L, h)
<1> DEFINE U == T \cup {k + 1}
<1>1. Ranked(T, U, k + 1) /\ Ranked(R, R \cup {m + 1}, m + 1)
  BY RankGrows
<1> HIDE DEF U
<1>2. /\ Cardinality(T) \in Nat /\ Cardinality(U) = Cardinality(T) + 1
      /\ Rank(k + 1, U) = Cardinality(T) + 1
      /\ \A i \in T : Rank(i, U) = Rank(i, T) /\ Rank(i, T) \in 1 .. Cardinality(T)
      /\ Cardinality(R) \in Nat /\ \A j \in R : Rank(j, R) \in 1 .. Cardinality(R)
  BY <1>1 DEF Ranked
<1>3. /\ Cardinality(T) = Cardinality(R)
      /\ \A i \in T, j \in R : Rank(j, R) = Rank(i, T) => IsRelay(L[j], rcv[i])
  BY <1>2 DEF Relayed
<1>4. \A i \in U : i \in T \/ i = k + 1
  BY DEF U
<1>5. ASSUME NEW i \in U, NEW j \in R, Rank(j, R) = Rank(i, U) PROVE IsRelay(L[j], rcv[i])
  <2>1. i \in T
    BY <1>2, <1>3, <1>4, <1>5
  <2> QED
    BY <1>2, <1>3, <1>5, <2>1
<1>6. ASSUME NEW i \in U, Rank(i, U) = Cardinality(U) PROVE IsRelay(h, rcv[i])
  <2>1. \A t \in T : Rank(t, U) # Cardinality(U)
    BY <1>2
  <2>2. i = k + 1
    BY <1>4, <1>6, <2>1
  <2> QED
    BY <2>2
<1>7. Cardinality(U) = Cardinality(R) + (IF h # NoPacket THEN 1 ELSE 0)
  BY <1>2, <1>3
<1>8. Relayed(U, rcv, R, L, h)
  BY <1>5, <1>6, <1>7 DEF Relayed
<1> QED
  BY <1>8 DEF U

\* The frame in hand goes to the end of the line.
LEMMA RelayPut ==
  ASSUME NEW k \in Nat, NEW T \in SUBSET (1 .. k), NEW m \in Nat, NEW R \in SUBSET (1 .. m),
         NEW rcv, NEW L, NEW K, NEW h, h # NoPacket, Relayed(T, rcv, R, L, h),
         K[m + 1] = h, \A i \in 1 .. m : K[i] = L[i]
  PROVE  Relayed(T, rcv, R \cup {m + 1}, K, NoPacket)
<1> DEFINE S == R \cup {m + 1}
<1>1. Ranked(R, S, m + 1)
  BY RankGrows
<1> HIDE DEF S
<1>2. /\ Cardinality(R) \in Nat /\ Cardinality(S) = Cardinality(R) + 1
      /\ Rank(m + 1, S) = Cardinality(R) + 1 /\ \A j \in R : Rank(j, S) = Rank(j, R)
  BY <1>1 DEF Ranked
<1>3. /\ Cardinality(T) = Cardinality(R) + 1
      /\ \A i \in T, j \in R : Rank(j, R) = Rank(i, T) => IsRelay(L[j], rcv[i])
      /\ \A i \in T : Rank(i, T) = Cardinality(T) => IsRelay(h, rcv[i])
  BY DEF Relayed
<1>4. \A j \in S : j \in R \/ j = m + 1
  BY DEF S
<1>5. ASSUME NEW i \in T, NEW j \in S, Rank(j, S) = Rank(i, T) PROVE IsRelay(K[j], rcv[i])
  <2>1. CASE j \in R
    BY <1>2, <1>3, <1>5, <2>1
  <2>2. CASE j = m + 1
    BY <1>2, <1>3, <1>5, <2>2
  <2> QED
    BY <1>4, <2>1, <2>2
<1>6. Cardinality(T) = Cardinality(S) + 0
  BY <1>2, <1>3
<1>7. Relayed(T, rcv, S, K, NoPacket)
  BY <1>5, <1>6 DEF Relayed
<1> QED
  BY <1>7 DEF S

-----------------------------------------------------------------------------
(* The sequence counter is the number of allocations, modulo SeqMod.         *)

LEMMA Quotient ==
  ASSUME NEW m \in Nat, m > 0, NEW a \in Nat
  PROVE  a % m \in 0 .. m - 1 /\ \E d \in Int : a = d * m + (a % m)
<1> DEFINE q == a \div m  r == a % m
<1>1. a = q * m + r
  OBVIOUS
<1>2. q \in Int /\ r \in 0 .. m - 1
  OBVIOUS
<1> HIDE DEF q, r
<1>3. \E d \in Int : a = d * m + r
  BY <1>1, <1>2
<1> QED
  BY <1>2, <1>3 DEF r

LEMMA ModUnique ==
  ASSUME NEW m \in Nat, NEW d \in Int, NEW r \in 0 .. m - 1, NEW e \in Int, NEW s \in 0 .. m - 1,
         d * m + r = e * m + s
  PROVE  r = s
<1>1. CASE d > e
  <2>1. d * m >= (e + 1) * m
    BY <1>1
  <2>2. (e + 1) * m = e * m + m
    OBVIOUS
  <2> QED
    BY <2>1, <2>2
<1>2. CASE d < e
  <2>1. e * m >= (d + 1) * m
    BY <1>2
  <2>2. (d + 1) * m = d * m + m
    OBVIOUS
  <2> QED
    BY <2>1, <2>2
<1> QED
  BY <1>1, <1>2

\* r is the remainder of a; b and c leave the same remainder.
Residue(r, a, m) == m > 0 /\ r = a % m
Congruent(b, c, m) == b % m = c % m

LEMMA ModEqual ==
  ASSUME NEW m \in Nat, NEW a \in Nat, NEW r \in Nat, Residue(r, a, m)
  PROVE  Congruent(r + 1, a + 1, m)
<1> DEFINE b == a + 1  c == r + 1  x == b % m  y == c % m
<1>0. m > 0 /\ r = a % m
  BY DEF Residue
<1>a. b \in Nat /\ c \in Nat /\ b = a + 1 /\ c = r + 1
  OBVIOUS
<1> HIDE DEF b, c
<1>1. PICK d \in Int : r \in 0 .. m - 1 /\ a = d * m + r
  BY <1>0, <1>a, Quotient
<1>2. PICK e \in Int : x \in 0 .. m - 1 /\ b = e * m + x
  BY <1>0, <1>a, Quotient
<1>3. PICK g \in Int : y \in 0 .. m - 1 /\ c = g * m + y
  BY <1>0, <1>a, Quotient
<1> HIDE DEF x, y
<1>4. (d + g) * m + y = e * m + x
  <2>1. (d + g) * m = d * m + g * m
    OBVIOUS
  <2>2. d * m \in Int /\ g * m \in Int /\ e * m \in Int
    OBVIOUS
  <2> QED
    BY <1>a, <1>1, <1>2, <1>3, <2>1, <2>2
<1>5. d + g \in Int
  OBVIOUS
<1>6. x = y
  BY <1>2, <1>3, <1>4, <1>5, ModUnique
<1> QED
  BY <1>6 DEF x, y, b, c, Congruent

-----------------------------------------------------------------------------
(* RoutedOnce is inductive with the counter and the frame being routed.      *)

Handled   == Len(received) - (IF pc["rx"] = "route" THEN 1 ELSE 0)
Mine      == {i \in 1 .. Handled : Local(received[i])}
InTransit == {i \in 1 .. Handled : Transit(received[i])}
Relays    == {i \in 1 .. Len(Line) : Line[i].by = "rx"}

RouteInv ==
  /\ txSeq = alloc % SeqMod
  /\ pc["rx"] = "route" => Len(received) > 0 /\ rxBuf = received[Len(received)]
  /\ HandedOver(Mine, received, rxQueue)
  /\ Relayed(InTransit, received, Relays, Line, hand["rx"])

LEMMA RouteTypes ==
  ASSUME TypeInv, RouteInv
  PROVE  /\ Handled \in Nat /\ received \in Seq(Frame) /\ rxQueue \in Seq(Frame)
         /\ Handled <= Len(received) /\ Len(Line) \in Nat
         /\ Mine \in SUBSET (1 .. Handled) /\ InTransit \in SUBSET (1 .. Handled)
         /\ Relays \in SUBSET (1 .. Len(Line))
         /\ \A i \in 1 .. Len(received) : received[i] \in Frame
<1>1. received \in Seq(Frame) /\ rxQueue \in Seq(Frame) /\ Len(received) \in Nat
  BY DEF TypeInv, TypeOK
<1>2. Handled \in Nat /\ Handled <= Len(received)
  BY <1>1 DEF Handled, RouteInv
<1>3. Len(Line) \in Nat
  BY LineParts DEF Joined
<1> QED
  BY <1>1, <1>2, <1>3 DEF Mine, InTransit, Relays

LEMMA RouteInvGivesOnce == TypeInv /\ RouteInv => RoutedOnce
<1> SUFFICES ASSUME TypeInv, RouteInv PROVE RoutedOnce
  OBVIOUS
<1>1. Mine = {i \in 1 .. Handled : received[i].dst \in {NodeId, Broadcast}}
  BY DEF Mine, Local
<1>2. InTransit = {} \cup {i \in 1 .. Handled : i \notin Mine /\ received[i].hop < MaxHop}
  BY DEF InTransit, Mine, Transit
<1>3. "rx" \in InHand <=> hand["rx"] # NoPacket
  BY ThreadNames DEF InHand
<1>4. Settled = 1 .. Handled
  BY DEF Settled, Handled
<1>5. RoutedWith({})
  BY <1>1, <1>2, <1>3, <1>4 DEF RouteInv, RoutedWith, HandedOver, Relayed, Relays
<1> QED
  BY <1>5 DEF RoutedOnce

\* A step that routes nothing, relays nothing and does not touch what rx has in hand.
LEMMA RouteStill ==
  ASSUME RouteInv, txSeq' = alloc' % SeqMod, UNCHANGED <<received, rxBuf, rxQueue, Line>>,
         hand'["rx"] = hand["rx"], pc'["rx"] = "route" <=> pc["rx"] = "route"
  PROVE  RouteInv'
<1>1. Handled' = Handled
  BY DEF Handled
<1>2. Mine' = Mine /\ InTransit' = InTransit /\ Relays' = Relays
  BY <1>1 DEF Mine, InTransit, Relays
<1> QED
  BY <1>2 DEF RouteInv

\* Taking a number keeps the counter in step with the allocations.
LEMMA SeqInStep == TypeInv /\ RouteInv /\ NextSeq => txSeq' = alloc' % SeqMod
<1> SUFFICES ASSUME TypeInv, RouteInv, NextSeq PROVE txSeq' = alloc' % SeqMod
  OBVIOUS
<1>1. alloc \in Nat /\ SeqMod \in Nat /\ SeqMod > 0 /\ txSeq \in Nat
  BY GadgetConstants DEF TypeInv, TypeOK, Seq32
<1>2. Residue(txSeq, alloc, SeqMod)
  BY <1>1 DEF RouteInv, Residue
<1>3. Congruent(txSeq + 1, alloc + 1, SeqMod)
  BY <1>1, <1>2, ModEqual
<1> QED
  BY <1>3 DEF NextSeq, Congruent

LEMMA PackRoutes ==
  ASSUME TypeInv, RouteInv, NEW p \in Producers, p # "rx", NEW f, Pack(p, f),
         UNCHANGED <<txQueue, sent, rxVars>>
  PROVE  RouteInv'
<1>1. p \in Threads /\ "rx" \in Threads /\ "rx" \in Producers
  BY ThreadNames
<1>2. pc'["rx"] = pc["rx"]
  BY <1>1, Moves DEF Pack
<1>3. hand'["rx"] = hand["rx"]
  BY <1>1 DEF Pack, TypeInv, TypeOK
<1>4. txSeq' = alloc' % SeqMod
  BY SeqInStep DEF Pack
<1>5. UNCHANGED <<received, rxBuf, rxQueue, Line>>
  BY DEF rxVars, rxStats, Line
<1> QED
  BY <1>2, <1>3, <1>4, <1>5, RouteStill

LEMMA CountFrameRoutes == TypeInv /\ RouteInv /\ CountFrame => RouteInv'
<1> SUFFICES ASSUME TypeInv, RouteInv, CountFrame PROVE RouteInv'
  OBVIOUS
<1>1. /\ pc["rx"] = "unpack" /\ pc'["rx"] = "route" /\ UNCHANGED <<txSeq, alloc, hand, rxBuf, rxQueue>>
      /\ received' = Append(received, rxBuf) /\ Line' = Line
  BY Moves, ThreadNames DEF CountFrame, seqVars, txVars, Line
<1>2. rxBuf \in Frame /\ received \in Seq(Frame) /\ Len(received) \in Nat
  BY DEF CountFrame, TypeInv, TypeOK
<1>3. /\ Len(received') = Len(received) + 1 /\ received'[Len(received) + 1] = rxBuf
      /\ \A i \in 1 .. Len(received) : received'[i] = received[i]
  BY <1>1, <1>2
<1>4. Handled = Len(received) /\ Handled' = Len(received)
  BY <1>1, <1>2, <1>3 DEF Handled
<1>5. Mine' = Mine /\ InTransit' = InTransit /\ Relays' = Relays
  BY <1>1, <1>3, <1>4 DEF Mine, InTransit, Relays
<1>6. Mine \subseteq 1 .. Len(received) /\ InTransit \subseteq 1 .. Len(received)
  BY <1>4 DEF Mine, InTransit
<1>7. HandedOver(Mine, received', rxQueue)
  BY <1>3, <1>6 DEF RouteInv, HandedOver
<1>8. Relayed(InTransit, received', Relays, Line, hand["rx"])
  BY <1>3, <1>6 DEF RouteInv, Relayed
<1> QED
  BY <1>1, <1>2, <1>3, <1>5, <1>7, <1>8 DEF RouteInv

\* A frame is routed: the frames handled are one more.
LEMMA HandledNext ==
  ASSUME TypeInv, RouteInv, pc["rx"] = "route", pc'["rx"] # "route", received' = received
  PROVE  /\ rxBuf = received[Handled + 1] /\ rxBuf \in Frame /\ Handled' = Handled + 1
         /\ Mine' = IF Local(rxBuf) THEN Mine \cup {Handled + 1} ELSE Mine
         /\ InTransit' = IF Transit(rxBuf) THEN InTransit \cup {Handled + 1} ELSE InTransit
<1>1. /\ Handled + 1 = Len(received) /\ Handled' = Handled + 1 /\ Handled \in Nat
      /\ rxBuf = received[Handled + 1]
  BY RouteTypes DEF Handled, RouteInv
<1>2. rxBuf \in Frame
  BY DEF TypeInv, Control
<1>3. \A i : i \in 1 .. Handled + 1 <=> i \in 1 .. Handled \/ i = Handled + 1
  BY <1>1
<1>4. Mine' = {i \in 1 .. Handled + 1 : Local(received[i])}
  BY <1>1 DEF Mine
<1>5. InTransit' = {i \in 1 .. Handled + 1 : Transit(received[i])}
  BY <1>1 DEF InTransit
<1> QED
  BY <1>1, <1>2, <1>3, <1>4, <1>5 DEF Mine, InTransit

LEMMA DeliverRoutes == TypeInv /\ RouteInv /\ Deliver => RouteInv'
<1> SUFFICES ASSUME TypeInv, RouteInv, Deliver PROVE RouteInv'
  OBVIOUS
<1>1. /\ pc["rx"] = "route" /\ pc'["rx"] = "top" /\ Local(rxBuf)
      /\ UNCHANGED <<txSeq, alloc, hand, received>> /\ Line' = Line
      /\ rxQueue' = Append(rxQueue, rxBuf)
  BY Moves, ThreadNames DEF Deliver, seqVars, txVars, rxStats, Line
<1>2. /\ rxBuf = received[Handled + 1] /\ rxBuf \in Frame
      /\ Mine' = Mine \cup {Handled + 1} /\ InTransit' = InTransit
  BY <1>1, HandledNext DEF Transit
<1>3. HandedOver(Mine \cup {Handled + 1}, received, Append(rxQueue, rxBuf))
  <2>1. Handled \in Nat /\ Mine \in SUBSET (1 .. Handled) /\ rxQueue \in Seq(Frame)
        /\ HandedOver(Mine, received, rxQueue)
    BY RouteTypes DEF RouteInv
  <2> QED
    BY <1>2, <2>1, DeliverNext
<1>4. Relays' = Relays
  BY <1>1 DEF Relays
<1>5. HandedOver(Mine', received', rxQueue')
  BY <1>1, <1>2, <1>3
<1>6. Relayed(InTransit', received', Relays', Line', hand'["rx"])
  BY <1>1, <1>2, <1>4 DEF RouteInv
<1> QED
  BY <1>1, <1>5, <1>6 DEF RouteInv

LEMMA HopDropRoutes == TypeInv /\ RouteInv /\ HopDrop => RouteInv'
<1> SUFFICES ASSUME TypeInv, RouteInv, HopDrop PROVE RouteInv'
  OBVIOUS
<1>1. /\ pc["rx"] = "route" /\ pc'["rx"] = "top" /\ ~Local(rxBuf) /\ ~Transit(rxBuf)
      /\ UNCHANGED <<txSeq, alloc, hand, received, rxQueue>> /\ Line' = Line
  BY Moves, ThreadNames DEF HopDrop, seqVars, txVars, rxVars, rxStats, Line
<1>2. Mine' = Mine /\ InTransit' = InTransit
  BY <1>1, HandledNext
<1>3. Relays' = Relays
  BY <1>1 DEF Relays
<1> QED
  BY <1>1, <1>2, <1>3 DEF RouteInv

LEMMA ForwardRoutes == TypeInv /\ RouteInv /\ Forward => RouteInv'
<1> SUFFICES ASSUME TypeInv, RouteInv, Forward PROVE RouteInv'
  OBVIOUS
<1> DEFINE x == [by |-> "rx", n |-> alloc, frame |-> [Forwarded(rxBuf) EXCEPT !.seq = txSeq]]
<1>1. /\ pc["rx"] = "route" /\ pc'["rx"] = "put" /\ Transit(rxBuf)
      /\ UNCHANGED <<received, rxQueue>> /\ Line' = Line
  BY Moves, ThreadNames DEF Forward, Pack, txVars, rxVars, rxStats, Line
<1>2. /\ rxBuf = received[Handled + 1] /\ rxBuf \in Frame
      /\ Mine' = Mine /\ InTransit' = InTransit \cup {Handled + 1}
  BY <1>1, HandledNext DEF Transit
<1>3. hand["rx"] = NoPacket
  BY <1>1, ThreadNames DEF TypeInv, Control
<1>4. hand'["rx"] = x /\ x # NoPacket
  <2>1. hand'["rx"] = x
    BY ThreadNames DEF Forward, Pack, TypeInv, TypeOK
  <2>2. hand'["rx"] \in Packet
    BY <1>1, <1>2, ForwardedType, PackType, ThreadNames DEF Forward
  <2> QED
    BY <2>1, <2>2, GadgetConstants
<1>5. IsRelay(x, rxBuf)
  <2>1. txSeq = alloc % SeqMod
    BY DEF RouteInv
  <2>2. [Forwarded(rxBuf) EXCEPT !.seq = txSeq]
          = [rxBuf EXCEPT !.hop = @ + 1, !.flags = @ \cup {"FWD"}, !.seq = txSeq]
    BY DEF Forwarded
  <2> QED
    BY <2>1, <2>2 DEF IsRelay
<1> HIDE DEF x
<1>6. Relayed(InTransit \cup {Handled + 1}, received, Relays, Line, x)
  <2>1. /\ Handled \in Nat /\ InTransit \in SUBSET (1 .. Handled) /\ Len(Line) \in Nat
        /\ Relays \in SUBSET (1 .. Len(Line))
        /\ Relayed(InTransit, received, Relays, Line, NoPacket)
    BY <1>3, RouteTypes DEF RouteInv
  <2>2. x # NoPacket /\ IsRelay(x, received[Handled + 1])
    BY <1>2, <1>4, <1>5
  <2> QED
    BY <2>1, <2>2, RelayNext
<1>7. Relays' = Relays
  BY <1>1 DEF Relays
<1>8. txSeq' = alloc' % SeqMod
  BY SeqInStep DEF Forward, Pack
<1>9. Relayed(InTransit', received', Relays', Line', hand'["rx"])
  BY <1>1, <1>2, <1>4, <1>6, <1>7
<1>10. HandedOver(Mine', received', rxQueue')
  BY <1>1, <1>2 DEF RouteInv
<1> QED
  BY <1>1, <1>8, <1>9, <1>10 DEF RouteInv

LEMMA PutRoutes ==
  ASSUME TypeInv, TypeInv', RouteInv, NEW p \in Producers, Put(p)
  PROVE  RouteInv'
<1> DEFINE m == Len(Line)
<1>1. /\ pc[p] = "put" /\ UNCHANGED <<txSeq, alloc, received, rxBuf, rxQueue>>
      /\ p \in Threads /\ hand[p].by = p /\ hand[p] # NoPacket
  BY ThreadNames DEF Put, rxVars, rxStats, TypeInv, Control
<1>2. pc'["rx"] = "route" <=> pc["rx"] = "route"
  BY <1>1, Moves, ThreadNames DEF Put
<1>3. Handled' = Handled
  BY <1>1, <1>2 DEF Handled
<1>4. Mine' = Mine /\ InTransit' = InTransit
  BY <1>1, <1>3 DEF Mine, InTransit
<1>5. Len(Line') = m + 1 /\ Line'[m + 1] = hand[p] /\ \A i \in 1 .. m : Line'[i] = Line[i]
  BY LinePut
<1>6. m \in Nat /\ Relays \in SUBSET (1 .. m)
  BY RouteTypes
<1>7. Relays' = IF p = "rx" THEN Relays \cup {m + 1} ELSE Relays
  <2>1. \A i : i \in 1 .. Len(Line') <=> i \in 1 .. m \/ i = m + 1
    BY <1>5, <1>6
  <2> HIDE DEF m
  <2>2. Relays = {i \in 1 .. m : Line[i].by = "rx"}
    BY DEF Relays, m
  <2> QED
    BY <1>1, <1>5, <2>1, <2>2 DEF Relays
<1>8. Relayed(InTransit', received', Relays', Line', hand'["rx"])
  <2>1. CASE p = "rx"
    <3>1. hand'["rx"] = NoPacket
      BY <2>1, ThreadNames DEF Put, TypeInv, TypeOK
    <3>2. /\ Handled \in Nat /\ InTransit \in SUBSET (1 .. Handled)
          /\ Relayed(InTransit, received, Relays, Line, hand["rx"])
      BY RouteTypes DEF RouteInv
    <3>3. hand["rx"] # NoPacket /\ Line'[m + 1] = hand["rx"]
      BY <1>1, <1>5, <2>1
    <3> HIDE DEF m
    <3>4. Relayed(InTransit, received, Relays \cup {m + 1}, Line', NoPacket)
      BY <1>5, <1>6, <3>2, <3>3, RelayPut
    <3> QED
      BY <1>1, <1>4, <1>7, <2>1, <3>1, <3>4
  <2>2. CASE p # "rx"
    <3>1. hand'["rx"] = hand["rx"]
      BY <2>2, ThreadNames DEF Put, TypeInv, TypeOK
    <3>2. Relayed(InTransit, received, Relays, Line', hand["rx"])
      BY <1>5, <1>6 DEF RouteInv, Relayed
    <3> QED
      BY <1>1, <1>4, <1>7, <2>2, <3>1, <3>2
  <2> QED
    BY <2>1, <2>2
<1> QED
  BY <1>1, <1>2, <1>4, <1>8 DEF RouteInv

LEMMA NextRoutes == TypeInv /\ TypeInv' /\ RouteInv /\ [Next]_vars => RouteInv'
<1> SUFFICES ASSUME TypeInv, TypeInv', RouteInv, [Next]_vars PROVE RouteInv'
  OBVIOUS
<1> USE DEF seqVars, txVars, rxVars, rxStats
<1>1. ASSUME UNCHANGED <<txSeq, alloc, hand, received, rxBuf, rxQueue, Line>>,
             pc'["rx"] = "route" <=> pc["rx"] = "route"
      PROVE  RouteInv'
  <2>1. txSeq' = alloc' % SeqMod
    BY <1>1 DEF RouteInv
  <2> QED
    BY <1>1, <2>1, RouteStill
<1>2. ASSUME UNCHANGED <<txQueue, sent>> PROVE Line' = Line
  BY <1>2 DEF Line
<1>3. CASE UNCHANGED vars
  BY <1>1, <1>2, <1>3 DEF vars
<1>4. CASE MainNext
  <2>1. CASE StartThreads
    <3>1. pc["rx"] = "off" /\ pc'["rx"] \in {"ready", "top"}
      BY <2>1, ThreadNames DEF StartThreads, TypeInv, Control
    <3> QED
      BY <1>1, <1>2, <2>1, <3>1 DEF StartThreads
  <2>2. CASE ~StartThreads
    <3>1. UNCHANGED <<pc, seqVars, txQueue, txVars, rxVars>>
      BY <1>4, <2>2 DEF MainNext, WriteDescriptors, WaitForEnable, StartFails,
                        StopEarly, StopFlag, StopClose, Exit
    <3> QED
      BY <1>1, <1>2, <3>1
  <2> QED
    BY <2>1, <2>2
<1>5. CASE AppNext
  <2>1. ASSUME NEW s \in Senders, SendRejected(s) PROVE RouteInv'
    <3>1. UNCHANGED <<pc, hand, txQueue, txVars, rxVars>> /\ NextSeq
      BY <2>1 DEF SendRejected
    <3> QED
      BY <1>2, <3>1, SeqInStep, RouteStill
  <2>2. ASSUME NEW s \in Senders, NEW d \in Targets, Send(s, d) PROVE RouteInv'
    <3>1. s \in Producers /\ s # "rx"
      BY GadgetConstants DEF Producers
    <3>2. Pack(s, DataFrame(s, d)) /\ UNCHANGED <<txQueue, sent, rxVars>>
      BY <2>2 DEF Send
    <3> QED
      BY <3>1, <3>2, PackRoutes
  <2> QED
    BY <1>5, <2>1, <2>2 DEF AppNext
<1>6. ASSUME NEW t \in {"hb", "rx", "tx"}, NEW body \in {"beat", "read", "get"}, LoopTest(t, body)
      PROVE  RouteInv'
  <2>1. t \in Threads /\ pc[t] = "top" /\ \E l : Goto(t, l) /\ l # "route"
    BY <1>6, ThreadNames DEF LoopTest
  <2>2. pc'["rx"] = "route" <=> pc["rx"] = "route"
    BY <2>1, Moves, ThreadNames
  <2> QED
    BY <1>1, <1>2, <1>6, <2>2 DEF LoopTest
<1>7. CASE HbNext
  <2>1. CASE Heartbeat
    BY <2>1, PackRoutes, ThreadNames DEF Heartbeat
  <2> QED
    BY <1>6, <1>7, <2>1 DEF HbNext
<1>8. CASE RxNext
  <2>1. ASSUME Goto("rx", "top") \/ Goto("rx", "unpack"), pc["rx"] # "route",
               UNCHANGED <<seqVars, txQueue, txVars, rxQueue, received>>
        PROVE  RouteInv'
    <3>1. pc'["rx"] # "route"
      BY <2>1, Moves, ThreadNames
    <3>2. Handled' = Handled /\ Line' = Line
      BY <1>2, <2>1, <3>1 DEF Handled
    <3>3. Mine' = Mine /\ InTransit' = InTransit /\ Relays' = Relays
      BY <2>1, <3>2 DEF Mine, InTransit, Relays
    <3> QED
      BY <2>1, <3>1, <3>2, <3>3 DEF RouteInv
  <2>2. CASE LoopTest("rx", "read")
    BY <1>6, <2>2
  <2>3. CASE ReadNothing
    BY <2>1, <2>3 DEF ReadNothing
  <2>4. ASSUME NEW buf, Read(buf) PROVE RouteInv'
    BY <2>1, <2>4 DEF Read
  <2>5. CASE UnpackFails
    BY <2>1, <2>5 DEF UnpackFails
  <2> QED
    BY <1>8, <2>2, <2>3, <2>4, <2>5, CountFrameRoutes, DeliverRoutes, ForwardRoutes,
       HopDropRoutes DEF RxNext, RxInput
<1>9. CASE TxNext
  <2>1. \E l : Goto("tx", l)
    BY <1>9 DEF TxNext, WriteOn, LoopTest, GetTimesOut, Get, WriteTest, Write, WriteBlocks,
                WriteFails, CountSent
  <2>2. pc'["rx"] = pc["rx"]
    BY <2>1, Moves, ThreadNames
  <2>3. UNCHANGED <<seqVars, rxVars>>
    BY <1>9 DEF TxNext, WriteOn, LoopTest, GetTimesOut, Get, WriteTest, Write, WriteBlocks,
                WriteFails, CountSent
  <2>4. Line' = Line
    <3>1. CASE Get
      BY <3>1, LineGet
    <3>2. ASSUME NEW k \in 1 .. FrameLen, Write(k) PROVE Line' = Line
      BY <3>2, LineWrite
    <3>3. CASE ~Get /\ ~WriteOn
      BY <1>2, <1>9, <3>3 DEF TxNext, LoopTest, GetTimesOut, WriteTest, WriteBlocks, WriteFails,
                              CountSent
    <3> QED
      BY <3>1, <3>2, <3>3 DEF WriteOn
  <2> QED
    BY <1>1, <2>2, <2>3, <2>4
<1>10. CASE PutNext
  BY <1>10, PutRoutes DEF PutNext
<1> QED
  BY <1>3, <1>4, <1>5, <1>7, <1>8, <1>9, <1>10 DEF Next

LEMMA InitRoutes == Init => RouteInv
<1> SUFFICES ASSUME Init PROVE RouteInv
  OBVIOUS
<1>1. /\ TypeInv /\ received = <<>> /\ rxQueue = <<>> /\ Len(sent) = 0 /\ Len(txQueue) = 0
      /\ pc["rx"] = "off" /\ hand["rx"] = NoPacket /\ txSeq = 0 /\ alloc = 0
  BY InitTypeInv, ThreadNames DEF Init
<1>2. Len(Line) = 0
  BY <1>1, LineParts DEF Joined
<1>3. Mine = {} /\ InTransit = {} /\ Relays = {}
  BY <1>1, <1>2 DEF Mine, InTransit, Relays, Handled
<1>4. 0 % SeqMod = 0
  BY GadgetConstants
<1> QED
  BY <1>1, <1>3, <1>4, FS_EmptySet DEF RouteInv, HandedOver, Relayed

\* Whatever arrives and however the rx thread's forwarding races the heartbeat and
\* the application, each frame counted is delivered once if it is local, relayed once,
\* with its own fresh number, one hop further and otherwise intact, if it arrived in
\* transit below the hop limit, and dropped above it, all in order.
THEOREM EachRoutedOnce == Spec => []RoutedOnce
<1>1. Spec => []RouteInv
  BY AllTypes, InitRoutes, NextRoutes, PTL DEF Spec
<1> QED
  BY <1>1, AllTypes, RouteInvGivesOnce, PTL
-----------------------------------------------------------------------------
(* Numbered: a frame gets its number with its position and keeps both.       *)

\* Neither what is in hand nor what is in line changes.
LEMMA NumberedStill == Numbered /\ hand' = hand /\ Line' = Line => Numbered'
BY DEF Numbered, InHand

LEMMA PackNumbers ==
  ASSUME TypeInv, RouteInv, Numbered, NEW p \in Producers, NEW f \in Frame, Pack(p, f),
         UNCHANGED <<txQueue, sent>>
  PROVE  Numbered'
<1>1. hand'[p] = [by |-> p, n |-> alloc, frame |-> [f EXCEPT !.seq = txSeq]]
  BY DEF Pack, TypeInv, TypeOK
<1>2. hand'[p].n = alloc /\ hand'[p].frame.seq = txSeq
  BY <1>1 DEF Frame
<1>3. hand'[p].frame.seq = hand'[p].n % SeqMod
  BY <1>2 DEF RouteInv
<1>4. \A q \in InHand' : q = p \/ (q \in InHand /\ hand'[q] = hand[q])
  BY DEF Pack, TypeInv, TypeOK, InHand
<1>5. Line' = Line
  BY DEF Line
<1> QED
  BY <1>3, <1>4, <1>5 DEF Numbered

LEMMA PutNumbers ==
  ASSUME TypeInv, TypeInv', Numbered, NEW p \in Producers, Put(p)
  PROVE  Numbered'
<1> DEFINE m == Len(Line)
<1>1. p \in InHand
  BY DEF Put, TypeInv, Control, InHand
<1>2. \A q \in InHand' : q \in InHand /\ hand'[q] = hand[q]
  BY DEF Put, TypeInv, TypeOK, InHand
<1>3. Len(Line') = m + 1 /\ Line'[m + 1] = hand[p] /\ \A i \in 1 .. m : Line'[i] = Line[i]
  BY LinePut
<1>4. m \in Nat
  BY LineParts DEF Joined
<1>5. \A i \in 1 .. Len(Line') : i \in 1 .. m \/ i = m + 1
  BY <1>3, <1>4
<1> QED
  BY <1>1, <1>2, <1>3, <1>5 DEF Numbered

LEMMA NextNumbers ==
  TypeInv /\ TypeInv' /\ RouteInv /\ Numbered /\ [Next]_vars => Numbered'
<1> SUFFICES ASSUME TypeInv, TypeInv', RouteInv, Numbered, [Next]_vars PROVE Numbered'
  OBVIOUS
<1> USE DEF mainVars, seqVars, txVars, rxVars
<1>1. ASSUME UNCHANGED <<hand, txQueue, sent>> PROVE Numbered'
  <2>1. Line' = Line
    BY <1>1 DEF Line
  <2> QED
    BY <1>1, <2>1, NumberedStill
<1>2. CASE MainNext
  BY <1>1, <1>2 DEF MainNext, WriteDescriptors, WaitForEnable, StartThreads, StartFails,
                    StopEarly, StopFlag, StopClose, Exit
<1>3. ASSUME NEW s \in Senders, NEW d \in Targets, Send(s, d) PROVE Numbered'
  BY <1>3, PackNumbers, DataFrameType DEF Send, Producers
<1>4. ASSUME NEW s \in Senders, SendRejected(s) PROVE Numbered'
  BY <1>1, <1>4 DEF SendRejected
<1>5. CASE HbNext
  BY <1>1, <1>5, PackNumbers, HeartbeatType DEF HbNext, LoopTest, Heartbeat, Producers
<1>6. CASE Forward
  <2>1. rxBuf \in Frame /\ Transit(rxBuf) /\ "rx" \in Producers
    BY <1>6 DEF Forward, TypeInv, Control, Producers
  <2> QED
    BY <1>6, <2>1, ForwardedType, PackNumbers DEF Forward
<1>7. CASE RxNext /\ ~Forward
  BY <1>1, <1>7 DEF RxNext, RxInput, LoopTest, ReadNothing, Read, UnpackFails, CountFrame,
                    Deliver, HopDrop
<1>8. CASE Get
  BY <1>8, LineGet, NumberedStill DEF Get
<1>9. ASSUME NEW k \in 1 .. FrameLen, Write(k) PROVE Numbered'
  BY <1>9, LineWrite, NumberedStill DEF Write
<1>10. CASE LoopTest("tx", "get") \/ GetTimesOut \/ WriteTest \/ WriteBlocks \/ WriteFails
            \/ CountSent
  BY <1>1, <1>10 DEF LoopTest, GetTimesOut, WriteTest, WriteBlocks, WriteFails, CountSent
<1>11. CASE PutNext
  BY <1>11, PutNumbers DEF PutNext
<1>12. CASE UNCHANGED vars
  BY <1>1, <1>12 DEF vars
<1> QED
  BY <1>2, <1>3, <1>4, <1>5, <1>6, <1>7, <1>8, <1>9, <1>10, <1>11, <1>12
     DEF Next, AppNext, TxNext, WriteOn

LEMMA InitNumbers == Init => PositionsOnce /\ Numbered
<1> SUFFICES ASSUME Init PROVE PositionsOnce /\ Numbered
  OBVIOUS
<1>1. Len(sent) = 0 /\ Len(txQueue) = 0 /\ InHand = {}
  BY DEF Init, InHand
<1>2. Len(Line) = 0
  BY <1>1, InitTypeInv, LineParts DEF Joined
<1> QED
  BY <1>1, <1>2, InitOvertakes DEF Numbered

\* No interleaving of the producers with the tx thread loses a sequence number
\* or sends it twice: _next_seq, put, get and write hand each one on exactly
\* once, and the frame that leaves carries the number that was taken for it.
THEOREM NumbersConserved == Spec => []EveryNumberOnce
<1>1. Spec => [](TypeInv /\ RouteInv)
  BY AllTypes, InitRoutes, NextRoutes, PTL DEF Spec
<1>2. Spec => [](PositionsOnce /\ Numbered)
  BY <1>1, InitNumbers, NextOnce, NextNumbers, PTL DEF Spec
<1> QED
  BY <1>2, PTL DEF EveryNumberOnce
=================================================================================
