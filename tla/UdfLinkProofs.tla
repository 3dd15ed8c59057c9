---------------------------- MODULE UdfLinkProofs ----------------------------
(***************************************************************************)
(* Proofs about the link, for any number of payloads, heartbeats, reads    *)
(* and timeouts.  The link's steps are steps of the host daemon, so that   *)
(* what UdfHostProofs shows of that daemon holds here; the gadget's rx     *)
(* thread is then followed along the frames the host put on the cable.     *)
(***************************************************************************)
EXTENDS UdfLink, UdfGadgetProofs

HP == INSTANCE UdfHostProofs WITH
  MaxSends <- HostSends, MaxAlloc <- HostAlloc, MaxReads <- HostReads, MaxTimeouts <- HostTimeouts,
  phase <- hPhase, running <- hRunning, handle <- hHandle, signalled <- hSignalled, pc <- hPc,
  tmp <- hTmp, popped <- hPopped, hand <- hHand, txQueue <- hTxQueue, txSeq <- hTxSeq,
  txFrames <- hTxFrames, timeouts <- hTimeouts, rxFrames <- hRxFrames, rxHb <- hRxHb,
  crcErrors <- hCrcErrors, rxQueue <- hRxQueue, wire <- hWire, lost <- hLost, sends <- hSends,
  reads <- hReads, expiries <- hExpiries

-----------------------------------------------------------------------------
(* The host daemon inside the link.                                         *)

LEMMA HostConstantsHold == HP!HostConstants
BY GadgetConstants, LinkConstants
   DEF HP!HostConstants, HP!Frame, H!Frame, HP!Payload, H!Payload

\* The definitions of UdfHost and those UdfHostProofs extends are the same.
LEMMA SameHost ==
  /\ H!Init => HP!Init
  /\ [H!Next]_(H!vars) => [HP!Next]_(HP!vars)
<1> USE DEF H!mainVars, H!seqVars, H!cntVars, H!rxVars, HP!mainVars, HP!seqVars, HP!cntVars,
            HP!rxVars, H!Goto, HP!Goto
<1>1. H!Init => HP!Init
  BY DEF H!Init, HP!Init, H!Threads, HP!Threads, H!Writers, HP!Writers, H!NoPayload, HP!NoPayload
<1>2. H!MainNext => HP!MainNext
  BY DEF H!MainNext, HP!MainNext, H!Open, HP!Open, H!OpenFails, HP!OpenFails, H!Signal, HP!Signal,
         H!Run, HP!Run, H!Stop, HP!Stop, H!Close, HP!Close, H!Exit, HP!Exit,
         H!Threads, HP!Threads, H!Writers, HP!Writers
<1>3. H!AppNext => HP!AppNext
  BY DEF H!AppNext, HP!AppNext, H!Send, HP!Send
<1>4. \A t : \A l : H!LoopTest(t, l) => HP!LoopTest(t, l)
  BY DEF H!LoopTest, HP!LoopTest
<1>5. (H!Idle => HP!Idle) /\ (H!Pop => HP!Pop)
  BY DEF H!Idle, HP!Idle, H!Pop, HP!Pop
<1>6. \A t : /\ H!Number(t) => HP!Number(t)
             /\ H!PackDies(t) => HP!PackDies(t)
  BY DEF H!Number, HP!Number, H!PackDies, HP!PackDies, H!Packs, HP!Packs, H!Numbered,
         HP!Numbered, H!NoPayload, HP!NoPayload
<1>7. \A t : /\ H!BeginTransfer(t) => HP!BeginTransfer(t)
             /\ H!Segfault(t) => HP!Segfault(t)
             /\ H!LoadCounter(t) => HP!LoadCounter(t)
             /\ H!StoreCounter(t) => HP!StoreCounter(t)
  BY DEF H!BeginTransfer, HP!BeginTransfer, H!Segfault, HP!Segfault, H!LoadCounter,
         HP!LoadCounter, H!StoreCounter, HP!StoreCounter
<1>8. \A t : /\ H!WriteDone(t) => HP!WriteDone(t)
             /\ H!WriteTimesOut(t) => HP!WriteTimesOut(t)
             /\ H!WriteFails(t) => HP!WriteFails(t)
  BY DEF H!WriteDone, HP!WriteDone, H!WriteTimesOut, HP!WriteTimesOut, H!WriteFails,
         HP!WriteFails, H!Taken, HP!Taken, H!Refused, HP!Refused
<1>9. \A t : H!WriterNext(t) => HP!WriterNext(t)
  BY <1>6, <1>7, <1>8 DEF H!WriterNext, HP!WriterNext
<1>10. H!RxNext => HP!RxNext
  <2>1. (H!RxInput => HP!RxInput) /\ (H!ReadTimesOut => HP!ReadTimesOut)
        /\ (H!ReadFails => HP!ReadFails)
    BY DEF H!RxInput, HP!RxInput, H!Read, HP!Read, H!ReadTimesOut, HP!ReadTimesOut,
           H!ReadFails, HP!ReadFails
  <2> QED
    BY <1>4, <1>7, <2>1 DEF H!RxNext, HP!RxNext
<1>11. (H!TxNext => HP!TxNext) /\ (H!HbNext => HP!HbNext)
  BY <1>4, <1>5, <1>9 DEF H!TxNext, HP!TxNext, H!HbNext, HP!HbNext
<1>12. (UNCHANGED H!vars) => UNCHANGED HP!vars
  BY DEF H!vars, HP!vars
<1>13. H!Alive => HP!Alive
  BY DEF H!Alive, HP!Alive
<1> QED
  BY <1>1, <1>2, <1>3, <1>10, <1>11, <1>12, <1>13 DEF H!Next, HP!Next

\* The link's host has not begun to end.
HostUp == hPhase \in {"init", "open", "run"}

LEMMA HostSteps == HostUp /\ [LinkNext]_<<vars, hostVars>> => HostUp' /\ [H!Next]_(H!vars)
<1> SUFFICES ASSUME HostUp, [LinkNext]_<<vars, hostVars>> PROVE HostUp' /\ [H!Next]_(H!vars)
  OBVIOUS
<1> USE DEF H!mainVars, H!seqVars, H!cntVars, H!rxVars
<1>1. CASE UNCHANGED hostVars
  BY <1>1 DEF hostVars, H!vars, HostUp
<1>2. ASSUME NEW t, HostWrites(t) PROVE H!WriterNext(t) /\ hPhase' = hPhase
  BY <1>2 DEF HostWrites, H!WriterNext, H!Number, H!BeginTransfer, H!WriteDone, H!WriteTimesOut,
              H!LoadCounter, H!StoreCounter
<1>3. H!Alive
  BY DEF HostUp, H!Alive
<1>4. CASE H!Open \/ H!Run
  BY <1>4 DEF HostUp, H!Next, H!MainNext, H!Open, H!Run
<1>5. CASE H!Send(TRUE)
  BY <1>3, <1>5 DEF HostUp, H!Next, H!AppNext, H!Send
<1>6. CASE H!LoopTest("tx", "pop") \/ H!Idle \/ H!Pop
  BY <1>3, <1>6 DEF HostUp, H!Next, H!TxNext, H!LoopTest, H!Idle, H!Pop
<1>7. CASE HostWrites("tx") \/ HostWrites("hb")
  BY <1>2, <1>3, <1>7 DEF HostUp, H!Next, H!TxNext, H!HbNext
<1>8. CASE H!LoopTest("hb", "number") \/ H!LoopTest("rx", "read") \/ H!BeginTransfer("rx")
  BY <1>3, <1>8 DEF HostUp, H!Next, H!HbNext, H!RxNext, H!LoopTest, H!BeginTransfer
<1>9. CASE HostReads1
  <2>1. PICK kind \in {"data", "hb", "bad"} : H!Read(kind)
    BY <1>9 DEF HostReads1
  <2> QED
    BY <1>3, <2>1 DEF HostUp, H!Next, H!RxNext, H!RxInput, H!Read
<1> QED
  BY <1>1, <1>4, <1>5, <1>6, <1>7, <1>8, <1>9 DEF LinkNext, HostStep

\* In the link the host daemon does nothing it does not do alone.
THEOREM LinkRunsHost == LinkSpec => H!Spec
<1>1. LinkInit => H!Init /\ HostUp
  BY DEF LinkInit, H!Init, HostUp
<1> QED
  BY <1>1, HostSteps, PTL DEF LinkSpec, H!Spec

\* So everything proved of that daemon holds in the link.
LEMMA HostHolds == LinkSpec => []HP!HostInv
<1>1. LinkSpec => HP!Spec
  BY LinkRunsHost, SameHost, PTL DEF H!Spec, HP!Spec
<1>2. HP!Spec => []HP!HostInv
  BY HP!HostInvariants, HostConstantsHold
<1> QED
  BY <1>1, <1>2, PTL

-----------------------------------------------------------------------------
(* The gadget's rx thread along the cable.                                  *)

InRx == {"unpack", "route"}

\* The gadget's threads, of which none moves before start() has started it.
Threaded == /\ DOMAIN pc = Threads
            /\ phase \in {"init", "ep0", "enabled"} => \A t \in Threads : pc[t] = "off"

\* How a step of the gadget can leave the rx thread alone, or make it give up a
\* frame that is not for this node.
RxStays == UNCHANGED rxVars /\ (pc'["rx"] = pc["rx"] \/ {pc["rx"], pc'["rx"]} \cap InRx = {})
RxDrops == UNCHANGED rxVars /\ pc["rx"] = "route" /\ pc'["rx"] \notin InRx

\* One thread of the gadget moves on.
LEMMA ThreadMoves ==
  ASSUME Threaded, NEW t \in Threads, NEW l, Goto(t, l), pc[t] # "off", phase' = phase
  PROVE  Threaded' /\ pc'[t] = l /\ \A u \in Threads \ {t} : pc'[u] = pc[u]
BY DEF Threaded, Goto

LEMMA GadgetSteps ==
  ASSUME Threaded, GadgetStep
  PROVE  /\ Threaded'
         /\ RxStays \/ GadgetReads \/ UnpackFails \/ CountFrame \/ Deliver \/ RxDrops
<1> USE DEF mainVars
<1>1. /\ "rx" \in Threads /\ "tx" \in Threads /\ "hb" \in Threads
      /\ Producers \subseteq Threads /\ "rx" \notin Senders /\ Senders \subseteq Threads
  BY GadgetConstants DEF Threads, Producers
<1>2. CASE WriteDescriptors \/ WaitForEnable
  <2>1. phase \in {"init", "ep0", "enabled"} /\ pc' = pc /\ UNCHANGED rxVars
    BY <1>2 DEF WriteDescriptors, WaitForEnable
  <2> QED
    BY <2>1 DEF Threaded, RxStays
<1>3. CASE StartThreads
  <2>1. pc["rx"] = "off" /\ pc'["rx"] = "top" /\ Threaded' /\ UNCHANGED rxVars
    BY <1>1, <1>3 DEF StartThreads, Threaded
  <2> QED
    BY <2>1 DEF RxStays, InRx
<1>4. ASSUME NEW t \in Threads \ {"rx"}, NEW l, Goto(t, l), pc[t] # "off", phase' = phase,
             UNCHANGED rxVars
      PROVE  Threaded' /\ RxStays
  BY <1>1, <1>4, ThreadMoves DEF RxStays
<1>5. ASSUME NEW l, Goto("rx", l), pc["rx"] # "off", phase' = phase, UNCHANGED rxVars,
             pc["rx"] \notin InRx, l \notin InRx
      PROVE  Threaded' /\ RxStays
  BY <1>1, <1>5, ThreadMoves DEF RxStays
<1>6. CASE AppNext
  <2>1. PICK s \in Senders : SendRejected(s) \/ \E d \in Targets : Send(s, d)
    BY <1>6 DEF AppNext
  <2>2. CASE SendRejected(s)
    BY <2>2 DEF SendRejected, Threaded, RxStays
  <2>3. ASSUME NEW d \in Targets, Send(s, d) PROVE Threaded' /\ RxStays
    BY <1>1, <1>4, <2>3 DEF Send, Pack
  <2> QED
    BY <2>1, <2>2, <2>3
<1>7. CASE HbNext
  BY <1>1, <1>4, <1>7 DEF HbNext, LoopTest, Heartbeat, Pack
<1>8. CASE TxNext
  BY <1>1, <1>4, <1>8 DEF TxNext, LoopTest, GetTimesOut, Get, WriteTest, WriteOn, Write,
                          WriteBlocks, WriteFails, CountSent
<1>9. CASE PutNext
  <2>1. PICK p \in Producers : Put(p)
    BY <1>9 DEF PutNext
  <2> DEFINE l == IF p \in Senders THEN "ready" ELSE "top"
  <2>2. Goto(p, l) /\ pc[p] = "put" /\ phase' = phase /\ UNCHANGED rxVars /\ l \notin InRx
    BY <2>1 DEF Put, InRx
  <2> HIDE DEF l
  <2>3. p = "rx" => pc["rx"] \notin InRx
    BY <2>2 DEF InRx
  <2> QED
    BY <1>1, <1>4, <1>5, <2>2, <2>3
<1>10. CASE LoopTest("rx", "read") \/ ReadNothing
  BY <1>5, <1>10 DEF LoopTest, ReadNothing, InRx
<1>11. CASE GadgetReads \/ UnpackFails \/ CountFrame \/ Deliver
  <2>1. /\ \E l \in {"unpack", "top", "route"} : Goto("rx", l)
        /\ pc["rx"] # "off" /\ phase' = phase
    BY <1>11 DEF GadgetReads, Read, UnpackFails, CountFrame, Deliver
  <2> QED
    BY <1>1, <1>11, <2>1, ThreadMoves
<1>12. CASE Forward \/ HopDrop
  <2>1. /\ \E l \in {"put", "top"} : Goto("rx", l)
        /\ pc["rx"] = "route" /\ phase' = phase /\ UNCHANGED rxVars
    BY <1>12 DEF Forward, HopDrop, Pack
  <2> QED
    BY <1>1, <2>1, ThreadMoves DEF RxDrops, InRx
<1> QED
  BY <1>2, <1>3, <1>6, <1>7, <1>8, <1>9, <1>10, <1>11, <1>12 DEF GadgetStep

\* What the host adds to the cable.
WireGrows == /\ hWire' = hWire \/ \E f \in HP!Frame : hWire' = Append(hWire, f)
             /\ hLost \subseteq hLost'

LEMMA LinkSteps ==
  ASSUME HP!HostInv, HostUp, Threaded, [LinkNext]_<<vars, hostVars>>
  PROVE  \/ UNCHANGED vars /\ WireGrows
         \/ /\ UNCHANGED hostVars /\ Threaded'
            /\ RxStays \/ GadgetReads \/ UnpackFails \/ CountFrame \/ Deliver \/ RxDrops
<1>1. CASE UNCHANGED <<vars, hostVars>>
  BY <1>1 DEF hostVars, WireGrows
<1>2. CASE GadgetStep /\ UNCHANGED hostVars
  BY <1>2, GadgetSteps
<1>3. CASE HostStep /\ UNCHANGED vars
  <2>1. [HP!Next]_(HP!vars) /\ HP!TypeInv
    BY HostSteps, SameHost DEF HP!HostInv
  <2>2. \/ UNCHANGED <<hTxSeq, hHand, hWire, hLost>>
        \/ \E t \in HP!Writers : HP!Number(t)
        \/ \E t \in HP!Writers : HP!PackDies(t)
        \/ \E t \in HP!Writers :
             /\ hPc[t] = "out" /\ hHand' = [hHand EXCEPT ![t] = NoFrame]
             /\ HP!Taken(t) \/ HP!Refused(t)
             /\ UNCHANGED <<hTxSeq, hPopped, hTxQueue>>
    BY <2>1, HP!NumberSteps, HostConstantsHold
  <2>3. ASSUME NEW t \in HP!Writers, hPc[t] = "out" PROVE hHand[t] \in HP!Frame
    BY <2>1, <2>3, HP!HandFrame, HostConstantsHold
  <2>4. WireGrows
    BY <2>2, <2>3 DEF WireGrows, HP!Number, HP!PackDies, HP!Taken, HP!Refused
  <2> QED
    BY <1>3, <2>4
<1> QED
  BY <1>1, <1>2, <1>3 DEF LinkNext

\* No number is twice on the cable w.
Distinct(w) == \A i, j \in 1 .. Len(w) : w[i].seq = w[j].seq => i = j

\* What the host's invariants say of the cable.
WireGood(w) ==
  /\ w \in Seq(HP!Frame) /\ Distinct(w)
  /\ \A i \in 1 .. Len(w) : ToGadget(w[i]) \in Frame
  /\ \A i \in 1 .. Len(w) : ~w[i].hb => w[i].payload.id \in 1 .. hSends
  /\ \A i, j \in 1 .. Len(w) : i < j /\ ~w[i].hb /\ ~w[j].hb => w[i].payload.id < w[j].payload.id

LEMMA GoodWire == HP!HostInv => WireGood(hWire)
<1> SUFFICES ASSUME HP!HostInv PROVE WireGood(hWire)
  OBVIOUS
<1>1. hWire \in Seq(HP!Frame) /\ hSends \in Nat /\ hPopped \in HP!Payload
  BY DEF HP!HostInv, HP!TypeInv, HP!TypeOK
<1>2. Distinct(hWire)
  BY DEF HP!HostInv, HP!EveryNumberOnce, Distinct
<1>3. ASSUME NEW i \in 1 .. Len(hWire) PROVE ToGadget(hWire[i]) \in Frame
  <2>1. hWire[i] \in HP!Frame /\ hWire[i].seq < SeqMod
    BY <1>1 DEF HP!HostInv, HP!Packed
  <2>2. hWire[i].seq \in Seq32
    BY <2>1, GadgetConstants DEF HP!Frame, Seq32
  <2> QED
    BY <2>2, GadgetConstants, LinkConstants DEF ToGadget, Frame, Dest
<1>4. ASSUME NEW i \in 1 .. Len(hWire), ~hWire[i].hb PROVE hWire[i].payload.id \in 1 .. hSends
  <2>1. hWire[i].payload.id \in Nat /\ hPopped.id \in Nat
    <3>1. hWire[i] \in HP!Frame
      BY <1>1
    <3> QED
      BY <1>1, <3>1 DEF HP!Frame, HP!Payload
  <2>2. /\ hWire[i].payload.id <= hPopped.id /\ hPopped.id <= hSends
        /\ hWire[i].payload.id >= 1
    BY <1>4 DEF HP!HostInv, HP!OrderInv, HP!OfSomeCall
  <2> QED
    BY <1>1, <2>1, <2>2
<1>5. \A i, j \in 1 .. Len(hWire) :
        i < j /\ ~hWire[i].hb /\ ~hWire[j].hb => hWire[i].payload.id < hWire[j].payload.id
  BY DEF HP!HostInv, HP!OrderInv, HP!DataInOrder
<1> QED
  BY <1>1, <1>2, <1>3, <1>4, <1>5 DEF WireGood

\* The gadget has read the cable up to bytes_rx and counted what it read; the
\* frame in rx's hands is the last one read.
Cable ==
  /\ Threaded
  /\ received \in Seq(Frame) /\ rxQueue \in Seq(Frame)
  /\ seqGaps \in Nat /\ expectedSeq \in Nat /\ framesRx \in Nat
  /\ bytesRx \in 0 .. Len(hWire)
  /\ pc["rx"] \in InRx => bytesRx > 0 /\ rxBuf = ToGadget(hWire[bytesRx])
  /\ framesRx = IF pc["rx"] = "unpack" THEN bytesRx - 1 ELSE bytesRx
  /\ Len(received) = framesRx
  /\ \A i \in 1 .. framesRx : received[i] = ToGadget(hWire[i])

LEMMA InitCable == LinkInit => Cable
<1> SUFFICES ASSUME LinkInit PROVE Cable
  OBVIOUS
<1>1. /\ "rx" \in Threads /\ hWire = <<>> /\ received = <<>> /\ rxQueue = <<>>
      /\ seqGaps = 0 /\ expectedSeq = 0 /\ framesRx = 0 /\ bytesRx = 0
      /\ pc = [t \in Threads |-> "off"]
  BY DEF Threads, Producers, LinkInit, Init, H!Init
<1>2. received \in Seq(Frame) /\ rxQueue \in Seq(Frame) /\ pc["rx"] \notin InRx
      /\ pc["rx"] # "unpack" /\ bytesRx \in 0 .. Len(hWire) /\ Len(received) = framesRx
  BY <1>1 DEF InRx
<1>3. Threaded
  BY <1>1 DEF Threaded
<1>4. framesRx = IF pc["rx"] = "unpack" THEN bytesRx - 1 ELSE bytesRx
  <2>1. pc["rx"] # "unpack" /\ framesRx = 0 /\ bytesRx = 0
    BY <1>1, <1>2
  <2> QED
    BY <2>1
<1>5. 1 .. framesRx = {}
  BY <1>1
<1> QED
  BY <1>1, <1>2, <1>3, <1>4, <1>5 DEF Cable

LEMMA NextCable ==
  HP!HostInv /\ HostUp /\ Cable /\ [LinkNext]_<<vars, hostVars>> => Cable'
<1> SUFFICES ASSUME HP!HostInv, HostUp, Cable, [LinkNext]_<<vars, hostVars>> PROVE Cable'
  OBVIOUS
<1> USE DEF rxVars, rxStats
<1>1. Threaded /\ hWire \in Seq(HP!Frame) /\ Len(hWire) \in Nat
  BY GoodWire DEF Cable, WireGood
<1>2. CASE UNCHANGED vars /\ WireGrows
  <2>1. \A i \in 1 .. Len(hWire) : hWire'[i] = hWire[i]
    BY <1>1, <1>2 DEF WireGrows
  <2>2. Len(hWire') \in Nat /\ Len(hWire') >= Len(hWire)
    BY <1>1, <1>2 DEF WireGrows
  <2>3. pc' = pc /\ phase' = phase /\ UNCHANGED rxVars
    BY <1>2 DEF vars, mainVars
  <2>4. bytesRx \in 0 .. Len(hWire) /\ framesRx <= bytesRx /\ framesRx \in Nat
    BY DEF Cable
  <2>5. \A i \in 1 .. framesRx : hWire'[i] = hWire[i]
    BY <1>1, <2>1, <2>4
  <2>6. pc["rx"] \in InRx => hWire'[bytesRx] = hWire[bytesRx]
    BY <1>1, <2>1, <2>4 DEF Cable
  <2>7. Threaded' /\ bytesRx' \in 0 .. Len(hWire')
    BY <1>1, <2>2, <2>3, <2>4 DEF Threaded
  <2> QED
    BY <2>3, <2>5, <2>6, <2>7 DEF Cable, ToGadget
<1>3. ASSUME UNCHANGED hostVars, Threaded', RxStays \/ RxDrops PROVE Cable'
  <2>1. /\ UNCHANGED rxVars /\ hWire' = hWire
        /\ pc'["rx"] \in InRx => pc["rx"] \in InRx
        /\ pc'["rx"] = "unpack" <=> pc["rx"] = "unpack"
    BY <1>3 DEF RxStays, RxDrops, InRx, hostVars
  <2> QED
    BY <1>3, <2>1 DEF Cable, ToGadget
<1>4. ASSUME UNCHANGED hostVars, Threaded', GadgetReads PROVE Cable'
  <2>1. /\ bytesRx < Len(hWire) /\ bytesRx' = bytesRx + 1 /\ pc["rx"] = "read"
        /\ rxBuf' = ToGadget(hWire[bytesRx + 1]) /\ pc'["rx"] = "unpack"
        /\ UNCHANGED <<rxQueue, rxStats, hWire>>
    BY <1>1, <1>4 DEF GadgetReads, Read, Goto, hostVars, Threaded, Threads, Producers
  <2>2. bytesRx' \in 0 .. Len(hWire) /\ bytesRx' > 0 /\ framesRx' = bytesRx' - 1
    BY <1>1, <2>1 DEF Cable
  <2> QED
    BY <1>4, <2>1, <2>2 DEF Cable, InRx, ToGadget
<1>5. ASSUME UnpackFails PROVE FALSE
  <2>1. bytesRx \in 1 .. Len(hWire) /\ rxBuf = ToGadget(hWire[bytesRx]) /\ rxBuf = Corrupt
    BY <1>1, <1>5 DEF UnpackFails, Cable, InRx
  <2> QED
    BY <2>1, GoodWire, GadgetConstants DEF WireGood
<1>6. ASSUME UNCHANGED hostVars, Threaded', CountFrame PROVE Cable'
  <2>1. /\ pc["rx"] = "unpack" /\ pc'["rx"] = "route" /\ framesRx' = framesRx + 1
        /\ received' = Append(received, rxBuf) /\ UNCHANGED <<rxBuf, rxQueue, bytesRx, hWire>>
        /\ seqGaps' = seqGaps + (IF Gap(rxBuf.seq) THEN 1 ELSE 0)
        /\ expectedSeq' = Expect(rxBuf.seq)
    BY <1>1, <1>6 DEF CountFrame, Goto, hostVars, Threaded, Threads, Producers
  <2>2. /\ bytesRx \in 1 .. Len(hWire) /\ rxBuf = ToGadget(hWire[bytesRx])
        /\ framesRx = bytesRx - 1
    BY <1>1, <2>1 DEF Cable, InRx
  <2>3. rxBuf \in Frame /\ rxBuf.seq \in Nat
    <3>1. hWire[bytesRx] \in HP!Frame /\ rxBuf.seq = hWire[bytesRx].seq
      BY <1>1, <2>2 DEF ToGadget
    <3> QED
      BY <2>2, <3>1, GoodWire DEF WireGood, HP!Frame
  <2>4. /\ received' \in Seq(Frame) /\ Len(received') = framesRx'
        /\ received'[framesRx'] = rxBuf /\ \A i \in 1 .. framesRx : received'[i] = received[i]
    BY <2>1, <2>3 DEF Cable
  <2>5. \A i \in 1 .. framesRx' : received'[i] = ToGadget(hWire[i])
    <3> SUFFICES ASSUME NEW i \in 1 .. framesRx' PROVE received'[i] = ToGadget(hWire[i])
      OBVIOUS
    <3>1. i \in 1 .. framesRx \/ (i = framesRx' /\ i = bytesRx)
      BY <1>1, <2>1, <2>2
    <3> QED
      BY <2>2, <2>4, <3>1 DEF Cable
  <2>6. seqGaps' \in Nat /\ expectedSeq' \in Nat /\ framesRx' \in Nat
    BY <2>1, <2>3 DEF Cable, Expect
  <2> QED
    BY <1>6, <2>1, <2>2, <2>4, <2>5, <2>6 DEF Cable, InRx, ToGadget
<1>7. ASSUME UNCHANGED hostVars, Threaded', Deliver PROVE Cable'
  <2>1. /\ pc["rx"] = "route" /\ pc'["rx"] = "top" /\ rxQueue' = Append(rxQueue, rxBuf)
        /\ UNCHANGED <<rxBuf, bytesRx, rxStats, hWire>>
    BY <1>1, <1>7 DEF Deliver, Goto, hostVars, Threaded, Threads, Producers
  <2>2. bytesRx \in 1 .. Len(hWire) /\ rxBuf = ToGadget(hWire[bytesRx])
    BY <1>1, <2>1 DEF Cable, InRx
  <2>3. rxQueue' \in Seq(Frame)
    BY <2>1, <2>2, GoodWire DEF Cable, WireGood
  <2> QED
    BY <1>7, <2>1, <2>3 DEF Cable, InRx, ToGadget
<1> QED
  BY <1>1, <1>2, <1>3, <1>4, <1>5, <1>6, <1>7, LinkSteps

-----------------------------------------------------------------------------
(* GapsExplained.                                                           *)

\* expected_seq is one past the greatest number received.
Seen ==
  /\ \A i \in 1 .. framesRx : received[i].seq < expectedSeq
  /\ expectedSeq > 0 => \E i \in 1 .. framesRx : received[i].seq = expectedSeq - 1

\* The numbers below expected_seq that did not come in their turn.
Numbers == 0 .. expectedSeq - 1
Skipped == Numbers \cap (hLost \cup Late \cup (Numbers \ ReceivedSeqs))

GapInv == Seen /\ seqGaps <= Cardinality(Skipped)

LEMMA SkippedFinite ==
  ASSUME expectedSeq \in Nat
  PROVE  IsFiniteSet(Skipped) /\ Cardinality(Skipped) \in Nat
<1>1. IsFiniteSet(Numbers)
  BY FS_Interval DEF Numbers
<1>2. Skipped \subseteq Numbers
  BY DEF Skipped
<1> QED
  BY <1>1, <1>2, FS_Subset, FS_CardinalityType

\* One more frame counted, numbered s, when e was expected.
LEMMA GapGrows ==
  ASSUME Cable, Cable', GapInv, CountFrame, UNCHANGED hLost
  PROVE  GapInv'
<1> DEFINE s == rxBuf.seq  e == expectedSeq
<1>1. /\ received' = Append(received, rxBuf) /\ framesRx' = framesRx + 1
      /\ seqGaps' = seqGaps + (IF s > e THEN 1 ELSE 0)
      /\ expectedSeq' = IF s >= e THEN s + 1 ELSE e
  BY DEF CountFrame, Gap, Expect, rxStats
<1>2. /\ received \in Seq(Frame) /\ Len(received) = framesRx /\ framesRx \in Nat
      /\ received' \in Seq(Frame) /\ Len(received') = framesRx'
      /\ e \in Nat /\ expectedSeq' \in Nat /\ seqGaps \in Nat
  BY DEF Cable
<1>3. received'[framesRx'] = rxBuf /\ \A i \in 1 .. framesRx : received'[i] = received[i]
  BY <1>1, <1>2
<1>4. s \in Nat /\ \A i \in 1 .. framesRx' : received'[i].seq \in Nat
  <2>1. \A i \in 1 .. framesRx' : received'[i] \in Frame
    BY <1>2
  <2>2. framesRx' \in 1 .. framesRx'
    BY <1>1, <1>2
  <2>3. \A f \in Frame : f.seq \in Nat
    BY GadgetConstants DEF Frame, Seq32
  <2> QED
    BY <1>3, <2>1, <2>2, <2>3
<1> HIDE DEF s, e
<1>5. 1 .. framesRx' = (1 .. framesRx) \cup {framesRx'} /\ framesRx' \notin 1 .. framesRx
  BY <1>1, <1>2
<1>6. ReceivedSeqs' = ReceivedSeqs \cup {s}
  <2>1. \A x : x \in ReceivedSeqs' <=> \E i \in 1 .. framesRx' : x = received'[i].seq
    BY DEF ReceivedSeqs
  <2>2. \A x : x \in ReceivedSeqs <=> \E i \in 1 .. framesRx : x = received[i].seq
    BY DEF ReceivedSeqs
  <2>3. received'[framesRx'].seq = s
    BY <1>3 DEF s
  <2> QED
    BY <1>3, <1>5, <2>1, <2>2, <2>3
<1>7. Late \subseteq Late'
  <2> SUFFICES ASSUME NEW x \in Late PROVE x \in Late'
    OBVIOUS
  <2>1. PICK j \in 1 .. framesRx : x = received[j].seq
                                   /\ \E i \in 1 .. j - 1 : received[i].seq > received[j].seq
    BY DEF Late
  <2>2. PICK i \in 1 .. j - 1 : received[i].seq > received[j].seq
    BY <2>1
  <2>3. i \in 1 .. framesRx /\ j \in 1 .. framesRx'
    BY <1>2, <1>5
  <2> QED
    BY <1>3, <2>1, <2>2, <2>3 DEF Late
<1>8. Seen'
  <2>1. \A i \in 1 .. framesRx : received'[i].seq < e /\ received'[i].seq \in Nat
    BY <1>3, <1>4, <1>5 DEF GapInv, Seen, e
  <2>2. e <= expectedSeq' /\ s < expectedSeq'
    BY <1>1, <1>2, <1>4 DEF e
  <2>3. received'[framesRx'].seq = s
    BY <1>3 DEF s
  <2>4. \A i \in 1 .. framesRx' : received'[i].seq < expectedSeq'
    BY <1>2, <1>4, <1>5, <2>1, <2>2, <2>3
  <2>5. CASE s >= e
    <3>1. expectedSeq' = s + 1
      BY <1>1, <2>5
    <3>2. s = expectedSeq' - 1
      BY <1>4, <3>1
    <3>3. \E i \in 1 .. framesRx' : received'[i].seq = expectedSeq' - 1
      BY <1>5, <2>3, <3>2
    <3> QED
      BY <2>4, <3>3 DEF Seen
  <2>6. CASE ~(s >= e)
    <3>1. expectedSeq' = e /\ e > 0
      BY <1>1, <1>2, <1>4, <2>6
    <3>2. PICK i \in 1 .. framesRx : received[i].seq = e - 1
      BY <3>1 DEF GapInv, Seen, e
    <3> QED
      BY <1>3, <1>5, <2>4, <3>1, <3>2 DEF Seen
  <2> QED
    BY <2>5, <2>6
<1>9. Numbers \subseteq Numbers' /\ Numbers = 0 .. e - 1
  BY <1>1, <1>2, <1>4 DEF Numbers, e
<1>10. Skipped \subseteq Skipped'
  <2> SUFFICES ASSUME NEW x \in Skipped PROVE x \in Skipped'
    OBVIOUS
  <2>1. x \in Numbers'
    BY <1>9 DEF Skipped
  <2>2. CASE x \in hLost \cup Late
    BY <1>7, <2>1, <2>2 DEF Skipped
  <2>3. CASE x \notin ReceivedSeqs /\ x # s
    BY <1>6, <2>1, <2>3 DEF Skipped
  <2>4. CASE x \notin ReceivedSeqs /\ x = s
    <3>1. s < e
      BY <1>2, <1>4, <1>9, <2>4 DEF Skipped
    <3>2. PICK i \in 1 .. framesRx : received[i].seq = e - 1
      BY <1>2, <1>4, <3>1 DEF GapInv, Seen, e
    <3>3. e - 1 \in ReceivedSeqs
      BY <3>2 DEF ReceivedSeqs
    <3>4. e - 1 > s
      <4>1. s # e - 1
        BY <2>4, <3>3
      <4>2. s \in Nat /\ e \in Nat
        BY <1>2, <1>4
      <4> QED
        BY <3>1, <4>1, <4>2
    <3>5. /\ received'[framesRx'].seq = s /\ received'[i].seq = e - 1
          /\ i \in 1 .. framesRx' - 1 /\ framesRx' \in 1 .. framesRx'
      BY <1>1, <1>2, <1>3, <3>2 DEF s
    <3>6. s \in Late'
      BY <3>4, <3>5 DEF Late
    <3> QED
      BY <2>1, <2>4, <3>6 DEF Skipped
  <2> QED
    BY <2>2, <2>3, <2>4 DEF Skipped
<1>11. IsFiniteSet(Skipped) /\ Cardinality(Skipped) \in Nat
  BY <1>2, SkippedFinite DEF e
<1>12. IsFiniteSet(Skipped') /\ Cardinality(Skipped') \in Nat
  <2>1. IsFiniteSet(Numbers')
    BY <1>2, FS_Interval DEF Numbers
  <2>2. Skipped' \subseteq Numbers'
    BY DEF Skipped
  <2> QED
    BY <2>1, <2>2, FS_Subset, FS_CardinalityType
<1>13. seqGaps' <= Cardinality(Skipped')
  <2>1. seqGaps <= Cardinality(Skipped) /\ Cardinality(Skipped) <= Cardinality(Skipped')
    BY <1>10, <1>12, FS_Subset DEF GapInv
  <2>2. CASE s > e
    <3>1. e \notin Numbers /\ e \notin ReceivedSeqs
      <4>1. e \notin Numbers
        BY <1>2, <1>9
      <4>2. \A i \in 1 .. framesRx : received[i].seq # e
        BY <1>2 DEF GapInv, Seen, e
      <4> QED
        BY <4>1, <4>2 DEF ReceivedSeqs
    <3>2. e \in Numbers' /\ e # s
      BY <1>1, <1>2, <1>4, <2>2 DEF Numbers
    <3>3. e \in Skipped' /\ e \notin Skipped
      BY <1>6, <3>1, <3>2 DEF Skipped
    <3>4. /\ Cardinality(Skipped \cup {e}) = Cardinality(Skipped) + 1
          /\ Cardinality(Skipped \cup {e}) <= Cardinality(Skipped')
      BY <1>10, <1>11, <1>12, <3>3, FS_AddElement, FS_Subset
    <3> QED
      BY <1>1, <1>2, <1>11, <1>12, <2>1, <2>2, <3>4
  <2>3. CASE ~(s > e)
    BY <1>1, <1>2, <1>11, <1>12, <2>1, <2>3
  <2> QED
    BY <2>2, <2>3
<1> QED
  BY <1>8, <1>13 DEF GapInv

LEMMA NextGap ==
  /\ HP!HostInv /\ HostUp /\ Cable /\ Cable' /\ GapInv /\ [LinkNext]_<<vars, hostVars>>
  => GapInv'
<1> SUFFICES ASSUME HP!HostInv, HostUp, Cable, Cable', GapInv, [LinkNext]_<<vars, hostVars>>
             PROVE  GapInv'
  OBVIOUS
<1>1. ASSUME UNCHANGED rxStats, hLost \subseteq hLost' PROVE GapInv'
  <2>1. Seen' /\ ReceivedSeqs' = ReceivedSeqs /\ Late' = Late /\ Numbers' = Numbers
    BY <1>1 DEF GapInv, Seen, ReceivedSeqs, Late, Numbers, rxStats
  <2>2. Skipped \subseteq Skipped' /\ Skipped' \subseteq Numbers
    BY <1>1, <2>1 DEF Skipped
  <2>3. IsFiniteSet(Numbers)
    BY FS_Interval DEF Numbers, Cable
  <2>4. IsFiniteSet(Skipped') /\ Cardinality(Skipped) <= Cardinality(Skipped')
        /\ Cardinality(Skipped) \in Nat /\ Cardinality(Skipped') \in Nat
    BY <2>2, <2>3, FS_Subset, FS_CardinalityType
  <2>5. seqGaps' = seqGaps /\ seqGaps \in Nat
    BY <1>1 DEF rxStats, Cable
  <2> QED
    BY <2>1, <2>4, <2>5 DEF GapInv
<1>2. CASE UNCHANGED vars /\ WireGrows
  BY <1>1, <1>2 DEF vars, rxVars, rxStats, WireGrows
<1>3. CASE UNCHANGED hostVars /\ (RxStays \/ GadgetReads \/ Deliver \/ RxDrops)
  <2>1. UNCHANGED rxStats /\ hLost \subseteq hLost'
    BY <1>3 DEF RxStays, RxDrops, GadgetReads, Read, Deliver, rxVars, hostVars
  <2> QED
    BY <1>1, <2>1
<1>4. CASE UNCHANGED hostVars /\ CountFrame
  BY <1>4, GapGrows DEF hostVars
<1>5. CASE UNCHANGED hostVars /\ UnpackFails
  <2>1. bytesRx \in 1 .. Len(hWire) /\ rxBuf = ToGadget(hWire[bytesRx]) /\ rxBuf = Corrupt
    BY <1>5 DEF UnpackFails, Cable, InRx
  <2> QED
    BY <2>1, GoodWire, GadgetConstants DEF WireGood
<1>6. Threaded
  BY DEF Cable
<1> QED
  BY <1>2, <1>3, <1>4, <1>5, <1>6, LinkSteps

\* What the gadget has not seen of the numbers it skipped has been overtaken on
\* the host's side.
LEMMA PendingOvertaken ==
  ASSUME HP!HostInv, Cable, GapInv
  PROVE  /\ Pending \subseteq HP!Overtaken(framesRx)
         /\ Pending \subseteq 0 .. hTxSeq - 1
<1>1. /\ framesRx \in 0 .. Len(hWire) /\ Len(hWire) \in Nat
      /\ \A i \in 1 .. framesRx : received[i].seq = hWire[i].seq /\ hWire[i].seq \in Nat
  <2>1. hWire \in Seq(HP!Frame)
    BY GoodWire DEF WireGood
  <2>2. framesRx \in 0 .. Len(hWire) /\ Len(hWire) \in Nat
    BY <2>1 DEF Cable
  <2>3. \A i \in 1 .. framesRx : hWire[i] \in HP!Frame /\ received[i] = ToGadget(hWire[i])
    BY <2>1, <2>2 DEF Cable
  <2>4. \A w \in HP!Frame : w.seq \in Nat /\ ToGadget(w).seq = w.seq
    BY DEF ToGadget, HP!Frame
  <2> QED
    BY <2>2, <2>3, <2>4
<1> SUFFICES ASSUME NEW k \in Pending PROVE k \in HP!Overtaken(framesRx) /\ k \in 0 .. hTxSeq - 1
  OBVIOUS
<1>2. expectedSeq \in Nat /\ k \in 0 .. expectedSeq - 1 /\ k \notin ReceivedSeqs /\ k \notin hLost
  BY DEF Pending, Cable
<1>3. \A i \in 1 .. framesRx : hWire[i].seq # k
  BY <1>1, <1>2 DEF ReceivedSeqs
<1>4. PICK i \in 1 .. framesRx : received[i].seq = expectedSeq - 1
  BY <1>2 DEF GapInv, Seen
<1>5. k < hWire[i].seq /\ k \in Nat
  BY <1>1, <1>2, <1>3, <1>4
<1>6. hWire[i].seq \in 0 .. hTxSeq - 1 /\ hTxSeq \in Nat
  <2>1. i \in 1 .. Len(hWire)
    BY <1>1
  <2> QED
    <3>1. hWire[i].seq \in HP!WireSeqs
      BY <2>1 DEF HP!WireSeqs
    <3>2. 0 .. hTxSeq - 1 = HP!HandSeqs \cup HP!WireSeqs \cup hLost
      BY DEF HP!HostInv, HP!EveryNumberOnce
    <3>3. hTxSeq \in Nat
      BY DEF HP!HostInv, HP!TypeInv, HP!TypeOK
    <3> QED
      BY <3>1, <3>2, <3>3
<1> QED
  BY <1>2, <1>3, <1>5, <1>6 DEF HP!Overtaken

LEMMA GapsAreExplained == HP!HostInv /\ Cable /\ GapInv => GapsExplained
<1> SUFFICES ASSUME HP!HostInv, Cable, GapInv PROVE GapsExplained
  OBVIOUS
<1>1. seqGaps <= Cardinality((0 .. expectedSeq - 1) \cap (hLost \cup Late \cup Pending))
  <2>1. (0 .. expectedSeq - 1) \cap (hLost \cup Late \cup Pending) = Skipped
    BY DEF Skipped, Pending, Numbers
  <2> QED
    BY <2>1 DEF GapInv
<1>2. framesRx \in 0 .. Len(hWire)
  BY GoodWire DEF Cable, WireGood
<1>3. Cardinality(Pending) <= 1
  <2>1. \A a, b \in Pending : a = b
    BY <1>2, PendingOvertaken DEF HP!HostInv, HP!OneOvertaken
  <2>2. CASE Pending = {}
    BY <2>2, FS_EmptySet
  <2>3. CASE Pending # {}
    <3>1. PICK a \in Pending : TRUE
      BY <2>3
    <3>2. Pending = {a}
      BY <2>1, <3>1
    <3> QED
      BY <3>2, FS_Singleton
  <2> QED
    BY <2>2, <2>3
<1>4. Pending \subseteq H!HandSeqs \cup {hWire[i].seq : i \in framesRx + 1 .. Len(hWire)}
  <2> SUFFICES ASSUME NEW k \in Pending
               PROVE  k \in H!HandSeqs \cup {hWire[i].seq : i \in framesRx + 1 .. Len(hWire)}
    OBVIOUS
  <2>1. k \in HP!Overtaken(framesRx) /\ k \in 0 .. hTxSeq - 1
    BY PendingOvertaken
  <2>2. k \notin hLost /\ \A i \in 1 .. framesRx : hWire[i].seq # k
    BY <2>1 DEF HP!Overtaken
  <2>3. k \in HP!HandSeqs \cup HP!WireSeqs
    BY <2>1, <2>2 DEF HP!HostInv, HP!EveryNumberOnce
  <2>4. H!HandSeqs = HP!HandSeqs
    BY DEF H!HandSeqs, HP!HandSeqs, H!Writers, HP!Writers
  <2>5. ASSUME k \in HP!WireSeqs
        PROVE  k \in {hWire[i].seq : i \in framesRx + 1 .. Len(hWire)}
    <3>1. PICK i \in 1 .. Len(hWire) : k = hWire[i].seq
      BY <2>5 DEF HP!WireSeqs
    <3>2. i \in framesRx + 1 .. Len(hWire)
      BY <1>2, <2>2, <3>1
    <3> QED
      BY <3>1, <3>2
  <2> QED
    BY <2>3, <2>4, <2>5
<1> QED
  BY <1>1, <1>3, <1>4 DEF GapsExplained

LEMMA InitGap == LinkInit => GapInv
<1> SUFFICES ASSUME LinkInit PROVE GapInv
  OBVIOUS
<1>1. expectedSeq = 0 /\ seqGaps = 0 /\ framesRx = 0
  BY DEF LinkInit, Init
<1>2. Cardinality(Skipped) \in Nat
  BY <1>1, SkippedFinite
<1>3. Seen
  BY <1>1 DEF Seen
<1> QED
  BY <1>1, <1>2, <1>3 DEF GapInv

LEMMA CableHolds == LinkSpec => [](HostUp /\ Cable)
<1>1. LinkInit => HostUp
  BY DEF LinkInit, H!Init, HostUp
<1> QED
  BY <1>1, InitCable, HostSteps, NextCable, HostHolds, PTL DEF LinkSpec

\* For any traffic of the host: seq_gaps never exceeds the numbers lost, late or
\* about to come, and at most one number is about to come, in a writer's hand or
\* on the cable.
THEOREM GapsAlwaysExplained == LinkSpec => []GapsExplained
<1>1. LinkSpec => []GapInv
  BY InitGap, NextGap, CableHolds, HostHolds, PTL DEF LinkSpec
<1> QED
  BY <1>1, CableHolds, HostHolds, GapsAreExplained, PTL

-----------------------------------------------------------------------------
(* KeepsOrder: the payloads delivered, by the places of their frames.       *)

\* The place in D of the k-th of its members.
Nth(D, k) == CHOOSE i \in D : Rank(i, D) = k

\* The ranks in D count its members.
Placed(D) == \A k \in 1 .. Cardinality(D) :
               \E i \in D : Rank(i, D) = k /\ \A j \in D : Rank(j, D) = k => j = i

LEMMA NthIs ==
  ASSUME NEW D, Placed(D), NEW k \in 1 .. Cardinality(D)
  PROVE  /\ Nth(D, k) \in D /\ Rank(Nth(D, k), D) = k
         /\ \A j \in D : Rank(j, D) = k => j = Nth(D, k)
<1>1. PICK i \in D : Rank(i, D) = k /\ \A j \in D : Rank(j, D) = k => j = i
  BY DEF Placed
<1> QED
  BY <1>1 DEF Nth

LEMMA PlacedGrows ==
  ASSUME NEW n \in Nat, NEW D \in SUBSET (1 .. n), Placed(D)
  PROVE  LET E == D \cup {n + 1}
         IN /\ Placed(E) /\ Cardinality(E) = Cardinality(D) + 1 /\ Cardinality(D) \in Nat
            /\ \A k \in 1 .. Cardinality(D) : Nth(E, k) = Nth(D, k)
            /\ Nth(E, Cardinality(D) + 1) = n + 1
<1> DEFINE E == D \cup {n + 1}  c == Cardinality(D)
<1>1. Ranked(D, E, n + 1)
  BY RankGrows
<1>2. /\ c \in Nat /\ Cardinality(E) = c + 1 /\ Rank(n + 1, E) = c + 1
      /\ \A i \in D : Rank(i, E) = Rank(i, D) /\ Rank(i, D) \in 1 .. c
  BY <1>1 DEF Ranked
<1>3. \A i \in E : i \in D \/ i = n + 1
  OBVIOUS
<1>4. n + 1 \in E /\ D \subseteq E
  OBVIOUS
<1> HIDE DEF E
<1>5. ASSUME NEW k \in 1 .. c
      PROVE  /\ Nth(D, k) \in E /\ Rank(Nth(D, k), E) = k
             /\ \A j \in E : Rank(j, E) = k => j = Nth(D, k)
  <2>1. /\ Nth(D, k) \in D /\ Rank(Nth(D, k), D) = k
        /\ \A j \in D : Rank(j, D) = k => j = Nth(D, k)
    BY <1>5, NthIs
  <2>2. k # c + 1
    BY <1>2, <1>5
  <2> HIDE DEF c
  <2> QED
    BY <1>2, <1>3, <1>4, <2>1, <2>2
<1>6. \A j \in E : Rank(j, E) = c + 1 => j = n + 1
  <2>1. \A i \in D : Rank(i, E) # c + 1
    BY <1>2
  <2> QED
    BY <1>3, <2>1
<1>7. Placed(E)
  <2> SUFFICES ASSUME NEW k \in 1 .. c + 1
               PROVE  \E i \in E : Rank(i, E) = k /\ \A j \in E : Rank(j, E) = k => j = i
    BY <1>2 DEF Placed
  <2>1. k \in 1 .. c \/ k = c + 1
    BY <1>2
  <2> HIDE DEF c
  <2> QED
    BY <1>2, <1>4, <1>5, <1>6, <2>1
<1>8. ASSUME NEW k \in 1 .. c PROVE Nth(E, k) = Nth(D, k)
  <2>1. k \in 1 .. Cardinality(E)
    BY <1>2
  <2>2. Nth(E, k) \in E /\ Rank(Nth(E, k), E) = k
    BY <1>7, <2>1, NthIs
  <2> QED
    BY <1>5, <2>2
<1>9. Nth(E, c + 1) = n + 1
  <2>1. c + 1 \in 1 .. Cardinality(E)
    BY <1>2
  <2>2. Nth(E, c + 1) \in E /\ Rank(Nth(E, c + 1), E) = c + 1
    BY <1>7, <2>1, NthIs
  <2> QED
    BY <1>6, <2>2
<1> QED
  BY <1>2, <1>7, <1>8, <1>9 DEF E

\* The frames of q, in its order, are of the first h on the cable w.
InOrder(q, w, h) ==
  /\ \A i \in 1 .. Len(q) : /\ WireOf(q[i].seq, w) \in 1 .. h
                            /\ q[i] = ToGadget(w[WireOf(q[i].seq, w)])
  /\ \A i, k \in 1 .. Len(q) : i < k => WireOf(q[i].seq, w) < WireOf(q[k].seq, w)

LEMMA WireOfIs ==
  ASSUME NEW w, Distinct(w), NEW j \in 1 .. Len(w)
  PROVE  WireOf(w[j].seq, w) = j
BY DEF Distinct, WireOf

\* A frame on the cable stays at its place.
LEMMA WireOfStays ==
  ASSUME NEW q \in Seq(Frame), NEW w \in Seq(HP!Frame), NEW f \in HP!Frame, Distinct(w),
         Distinct(Append(w, f)), NEW h \in 0 .. Len(w), InOrder(q, w, h), NEW i \in 1 .. Len(q)
  PROVE  LET j == WireOf(q[i].seq, w)
         IN WireOf(q[i].seq, Append(w, f)) = j /\ Append(w, f)[j] = w[j] /\ j \in 1 .. Len(w)
<1> DEFINE j == WireOf(q[i].seq, w)  v == Append(w, f)
<1>1. j \in 1 .. Len(w) /\ q[i] = ToGadget(w[j])
  BY DEF InOrder
<1>2. v[j] = w[j] /\ j \in 1 .. Len(v) /\ q[i].seq = w[j].seq
  BY <1>1 DEF ToGadget
<1> HIDE DEF j, v
<1>3. WireOf(v[j].seq, v) = j
  BY <1>2, WireOfIs DEF v
<1> QED
  BY <1>1, <1>2, <1>3 DEF j, v

LEMMA CableGrows ==
  ASSUME NEW q \in Seq(Frame), NEW w \in Seq(HP!Frame), NEW f \in HP!Frame, Distinct(w),
         Distinct(Append(w, f)), NEW h \in 0 .. Len(w), InOrder(q, w, h), Placed(DataPlaces(q))
  PROVE  InOrder(q, Append(w, f), h) /\ PayloadIds(q, Append(w, f)) = PayloadIds(q, w)
<1> DEFINE v == Append(w, f)  D == DataPlaces(q)
<1>1. \A i \in 1 .. Len(q) : /\ WireOf(q[i].seq, v) = WireOf(q[i].seq, w)
                             /\ v[WireOf(q[i].seq, w)] = w[WireOf(q[i].seq, w)]
  BY WireOfStays
<1> HIDE DEF v
<1>2. InOrder(q, v, h)
  BY <1>1 DEF InOrder
<1>3. \A k \in 1 .. Cardinality(D) : Nth(D, k) \in 1 .. Len(q)
  <2>1. \A k \in 1 .. Cardinality(D) : Nth(D, k) \in D
    BY NthIs
  <2> QED
    BY <2>1 DEF DataPlaces
<1>4. /\ PayloadIds(q, v) = [k \in 1 .. Cardinality(D) |-> v[WireOf(q[Nth(D, k)].seq, v)].payload.id]
      /\ PayloadIds(q, w) = [k \in 1 .. Cardinality(D) |-> w[WireOf(q[Nth(D, k)].seq, w)].payload.id]
  BY DEF PayloadIds, Nth
<1> HIDE DEF D
<1>5. PayloadIds(q, v) = PayloadIds(q, w)
  BY <1>1, <1>3, <1>4
<1> QED
  BY <1>2, <1>5 DEF v

\* The next frame of the cable joins the queue.
LEMMA OrderGrows ==
  ASSUME NEW q \in Seq(Frame), NEW w \in Seq(HP!Frame), Distinct(w), NEW h \in Nat,
         h + 1 <= Len(w), InOrder(q, w, h), ToGadget(w[h + 1]) \in Frame
  PROVE  InOrder(Append(q, ToGadget(w[h + 1])), w, h + 1)
<1> DEFINE f == ToGadget(w[h + 1])  p == Append(q, f)
<1>1. Len(p) = Len(q) + 1 /\ p[Len(q) + 1] = f /\ \A i \in 1 .. Len(q) : p[i] = q[i]
  OBVIOUS
<1>2. WireOf(f.seq, w) = h + 1
  BY WireOfIs DEF ToGadget
<1>3. f = ToGadget(w[h + 1])
  OBVIOUS
<1>4. 1 .. Len(p) = (1 .. Len(q)) \cup {Len(q) + 1} /\ Len(q) \in Nat
  BY <1>1
<1> HIDE DEF f, p
<1>5. ASSUME NEW i \in 1 .. Len(p)
      PROVE  WireOf(p[i].seq, w) \in 1 .. h + 1 /\ p[i] = ToGadget(w[WireOf(p[i].seq, w)])
  <2>1. CASE i \in 1 .. Len(q)
    BY <1>1, <2>1 DEF InOrder
  <2>2. CASE i = Len(q) + 1
    BY <1>1, <1>2, <1>3, <2>2
  <2> QED
    BY <1>4, <2>1, <2>2
<1>6. ASSUME NEW i \in 1 .. Len(p), NEW k \in 1 .. Len(p), i < k
      PROVE  WireOf(p[i].seq, w) < WireOf(p[k].seq, w)
  <2>1. i \in 1 .. Len(q)
    BY <1>4, <1>6
  <2>2. CASE k \in 1 .. Len(q)
    BY <1>1, <1>6, <2>1, <2>2 DEF InOrder
  <2>3. CASE k = Len(q) + 1
    <3>1. WireOf(p[i].seq, w) \in 1 .. h
      BY <1>1, <2>1 DEF InOrder
    <3>2. WireOf(p[k].seq, w) = h + 1
      BY <1>1, <1>2, <2>3
    <3> QED
      BY <3>1, <3>2
  <2> QED
    BY <1>4, <2>2, <2>3
<1> QED
  BY <1>5, <1>6 DEF InOrder, f, p

\* s of length c with m behind it.
Longer(s, c, m) == [k \in 1 .. c + 1 |-> IF k = c + 1 THEN m ELSE s[k]]

\* The numbers delivered when f joins the queue: its payload's after the others.
LEMMA IdsGrow ==
  ASSUME NEW q \in Seq(Frame), NEW f \in Frame, NEW w, Placed(DataPlaces(q))
  PROVE  LET p == Append(q, f)  c == Cardinality(DataPlaces(q))
         IN /\ Placed(DataPlaces(p))
            /\ "HB" \in f.flags => PayloadIds(p, w) = PayloadIds(q, w)
            /\ "HB" \notin f.flags =>
                 /\ c \in Nat
                 /\ PayloadIds(p, w) =
                      Longer(PayloadIds(q, w), c, w[WireOf(f.seq, w)].payload.id)
<1> DEFINE p == Append(q, f)  D == DataPlaces(q)  E == DataPlaces(p)  n == Len(q)
           c == Cardinality(D)
<1>1. n \in Nat /\ Len(p) = n + 1 /\ p[n + 1] = f /\ \A i \in 1 .. n : p[i] = q[i]
  OBVIOUS
<1>2. D \in SUBSET (1 .. n)
  BY DEF DataPlaces
<1>3. E = IF "HB" \in f.flags THEN D ELSE D \cup {n + 1}
  <2>1. \A i : i \in 1 .. n + 1 <=> i \in 1 .. n \/ i = n + 1
    BY <1>1
  <2> HIDE DEF p, n
  <2> QED
    BY <1>1, <2>1 DEF DataPlaces, n
<1>4. \A k \in 1 .. c : Nth(D, k) \in 1 .. n
  BY <1>2, NthIs
<1>5. /\ PayloadIds(p, w) = [k \in 1 .. Cardinality(E) |-> w[WireOf(p[Nth(E, k)].seq, w)].payload.id]
      /\ PayloadIds(q, w) = [k \in 1 .. c |-> w[WireOf(q[Nth(D, k)].seq, w)].payload.id]
  BY DEF PayloadIds, Nth
<1> HIDE DEF p, D, E, n
<1>6. CASE "HB" \in f.flags
  <2>1. E = D
    BY <1>3, <1>6
  <2>2. PayloadIds(p, w) = PayloadIds(q, w)
    BY <1>1, <1>4, <1>5, <2>1
  <2> QED
    BY <1>6, <2>1, <2>2 DEF p, D, E
<1>7. CASE "HB" \notin f.flags
  <2>1. E = D \cup {n + 1} /\ Placed(D)
    BY <1>3, <1>7 DEF D
  <2>2. /\ Placed(E) /\ Cardinality(E) = c + 1 /\ c \in Nat
        /\ \A k \in 1 .. c : Nth(E, k) = Nth(D, k)
        /\ Nth(E, c + 1) = n + 1
    BY <1>1, <1>2, <2>1, PlacedGrows
  <2> HIDE DEF c
  <2>3. \A k \in 1 .. c + 1 : k # c + 1 => k \in 1 .. c
    BY <2>2
  <2>4. ASSUME NEW k \in 1 .. c + 1
        PROVE  w[WireOf(p[Nth(E, k)].seq, w)].payload.id =
               IF k = c + 1 THEN w[WireOf(f.seq, w)].payload.id ELSE PayloadIds(q, w)[k]
    <3>1. CASE k = c + 1
      BY <1>1, <2>2, <3>1
    <3>2. CASE k # c + 1
      BY <1>1, <1>4, <1>5, <2>2, <2>3, <3>2
    <3> QED
      BY <3>1, <3>2
  <2>5. PayloadIds(p, w) = [k \in 1 .. c + 1 |->
          IF k = c + 1 THEN w[WireOf(f.seq, w)].payload.id ELSE PayloadIds(q, w)[k]]
    BY <1>5, <2>2, <2>4
  <2> QED
    BY <1>7, <2>2, <2>5 DEF p, D, E, c, Longer
<1> QED
  BY <1>6, <1>7

\* What has been delivered is of payloads sent, all before the next of the cable.
LEMMA IdsBelow ==
  ASSUME NEW q \in Seq(Frame), NEW w, WireGood(w), hSends \in Nat, NEW h \in 0 .. Len(w),
         InOrder(q, w, h), Placed(DataPlaces(q))
  PROVE  /\ DOMAIN PayloadIds(q, w) = 1 .. Cardinality(DataPlaces(q))
         /\ \A k \in DOMAIN PayloadIds(q, w) :
              /\ PayloadIds(q, w)[k] \in 1 .. hSends
              /\ \A j \in h + 1 .. Len(w) : ~w[j].hb => PayloadIds(q, w)[k] < w[j].payload.id
<1> DEFINE D == DataPlaces(q)
<1>1. PayloadIds(q, w) = [k \in 1 .. Cardinality(D) |-> w[WireOf(q[Nth(D, k)].seq, w)].payload.id]
  BY DEF PayloadIds, Nth
<1>2. ASSUME NEW k \in 1 .. Cardinality(D)
      PROVE  /\ PayloadIds(q, w)[k] \in 1 .. hSends
             /\ \A j \in h + 1 .. Len(w) : ~w[j].hb => PayloadIds(q, w)[k] < w[j].payload.id
  <2>1. Nth(D, k) \in D
    BY NthIs
  <2> DEFINE i == Nth(D, k)  l == WireOf(q[i].seq, w)
  <2>2. i \in 1 .. Len(q) /\ "HB" \notin q[i].flags
    BY <2>1 DEF DataPlaces
  <2>3. l \in 1 .. h /\ q[i] = ToGadget(w[l])
    BY <2>2 DEF InOrder
  <2>4. PayloadIds(q, w)[k] = w[l].payload.id
    BY <1>1
  <2> HIDE DEF i, l
  <2>5. ~w[l].hb
    BY <2>2, <2>3 DEF ToGadget
  <2>6. Len(w) \in Nat /\ l \in 1 .. Len(w) /\ \A j \in h + 1 .. Len(w) : l < j /\ j \in 1 .. Len(w)
    BY <2>3 DEF WireGood
  <2> QED
    BY <2>4, <2>5, <2>6 DEF WireGood
<1> QED
  BY <1>1, <1>2

\* How far down the cable the gadget has dealt with what it read.
DealtWith == IF pc["rx"] \in InRx THEN bytesRx - 1 ELSE bytesRx

Queue == InOrder(rxQueue, hWire, DealtWith) /\ Placed(DataPlaces(rxQueue))

LEMMA InitQueue == LinkInit => Queue
<1> SUFFICES ASSUME LinkInit PROVE Queue
  OBVIOUS
<1>1. rxQueue = <<>>
  BY DEF LinkInit, Init
<1>2. DataPlaces(rxQueue) = {} /\ 1 .. Len(rxQueue) = {}
  BY <1>1 DEF DataPlaces
<1>3. 1 .. Cardinality(DataPlaces(rxQueue)) = {}
  BY <1>2, FS_EmptySet
<1> QED
  BY <1>2, <1>3 DEF Queue, InOrder, Placed

\* The frame Deliver puts in the queue is the next of the cable.
LEMMA NextIsDelivered ==
  ASSUME HP!HostInv, Cable, Deliver
  PROVE  /\ DealtWith \in Nat /\ bytesRx = DealtWith + 1 /\ DealtWith + 1 \in 1 .. Len(hWire)
         /\ rxQueue' = Append(rxQueue, ToGadget(hWire[DealtWith + 1])) /\ DealtWith' = DealtWith + 1
         /\ ToGadget(hWire[DealtWith + 1]) \in Frame
<1>1. WireGood(hWire) /\ Len(hWire) \in Nat
  BY GoodWire DEF WireGood
<1>2. pc["rx"] = "route" /\ pc'["rx"] = "top" /\ bytesRx' = bytesRx
  BY DEF Deliver, Goto, Cable, Threaded, Threads, Producers
<1>3. bytesRx \in 1 .. Len(hWire) /\ rxBuf = ToGadget(hWire[bytesRx])
  BY <1>1, <1>2 DEF Cable, InRx
<1>4. DealtWith = bytesRx - 1 /\ DealtWith' = bytesRx
  BY <1>2 DEF DealtWith, InRx
<1>5. DealtWith \in Nat /\ DealtWith + 1 = bytesRx
  BY <1>1, <1>3, <1>4
<1>6. rxQueue' = Append(rxQueue, ToGadget(hWire[bytesRx])) /\ ToGadget(hWire[bytesRx]) \in Frame
  BY <1>1, <1>3 DEF Deliver, WireGood
<1> HIDE DEF DealtWith
<1> QED
  BY <1>3, <1>4, <1>5, <1>6

LEMMA NextQueue ==
  /\ HP!HostInv /\ HP!HostInv' /\ HostUp /\ Cable /\ Queue /\ [LinkNext]_<<vars, hostVars>>
  => Queue'
<1> SUFFICES ASSUME HP!HostInv, HP!HostInv', HostUp, Cable, Queue, [LinkNext]_<<vars, hostVars>>
             PROVE  Queue'
  OBVIOUS
<1>1. WireGood(hWire) /\ hWire \in Seq(HP!Frame) /\ Distinct(hWire) /\ Len(hWire) \in Nat
  BY GoodWire DEF WireGood
<1>2. Threaded /\ rxQueue \in Seq(Frame) /\ bytesRx \in 0 .. Len(hWire)
  BY DEF Cable
<1>3. DealtWith \in 0 .. Len(hWire)
  BY <1>1, <1>2 DEF Cable, DealtWith
<1>4. CASE UNCHANGED vars /\ WireGrows
  <2>1. rxQueue' = rxQueue /\ DealtWith' = DealtWith
    BY <1>4 DEF vars, rxVars, DealtWith
  <2>2. CASE hWire' = hWire
    BY <2>1, <2>2 DEF Queue
  <2>3. ASSUME NEW f \in HP!Frame, hWire' = Append(hWire, f) PROVE Queue'
    <3>1. Distinct(hWire')
      BY DEF HP!HostInv, HP!EveryNumberOnce, Distinct
    <3>2. InOrder(rxQueue, Append(hWire, f), DealtWith)
      BY <1>1, <1>2, <1>3, <2>3, <3>1, CableGrows DEF Queue
    <3> QED
      BY <2>1, <2>3, <3>2 DEF Queue
  <2> QED
    BY <1>4, <2>2, <2>3 DEF WireGrows
<1>5. ASSUME rxQueue' = rxQueue, hWire' = hWire, DealtWith' \in {DealtWith, DealtWith + 1} PROVE Queue'
  <2>1. \A x : x \in 1 .. DealtWith => x \in 1 .. DealtWith'
    BY <1>3, <1>5
  <2>2. InOrder(rxQueue, hWire, DealtWith')
    BY <2>1 DEF Queue, InOrder
  <2> QED
    BY <1>5, <2>2 DEF Queue
<1>6. CASE UNCHANGED hostVars /\ Threaded' /\ (RxStays \/ RxDrops)
  <2>1. rxQueue' = rxQueue /\ hWire' = hWire /\ bytesRx' = bytesRx
    BY <1>6 DEF RxStays, RxDrops, rxVars, hostVars
  <2>2. DealtWith' \in {DealtWith, DealtWith + 1}
    <3>1. RxStays => (pc["rx"] \in InRx <=> pc'["rx"] \in InRx)
      BY DEF RxStays
    <3>2. RxDrops => pc["rx"] \in InRx /\ pc'["rx"] \notin InRx
      BY DEF RxDrops, InRx
    <3> QED
      BY <1>2, <1>6, <2>1, <3>1, <3>2 DEF DealtWith
  <2> QED
    BY <1>5, <2>1, <2>2
<1>7. CASE UNCHANGED hostVars /\ GadgetReads
  <2>1. /\ pc["rx"] = "read" /\ pc'["rx"] = "unpack" /\ bytesRx' = bytesRx + 1
        /\ rxQueue' = rxQueue /\ hWire' = hWire
    BY <1>2, <1>7 DEF GadgetReads, Read, Goto, hostVars, Threaded, Threads, Producers
  <2>2. DealtWith' = DealtWith
    BY <1>2, <2>1 DEF DealtWith, InRx
  <2> QED
    BY <1>5, <2>1, <2>2
<1>8. CASE UNCHANGED hostVars /\ CountFrame
  <2>1. /\ pc["rx"] = "unpack" /\ pc'["rx"] = "route" /\ bytesRx' = bytesRx
        /\ rxQueue' = rxQueue /\ hWire' = hWire
    BY <1>2, <1>8 DEF CountFrame, Goto, hostVars, Threaded, Threads, Producers
  <2>2. DealtWith' = DealtWith
    BY <2>1 DEF DealtWith, InRx
  <2> QED
    BY <1>5, <2>1, <2>2
<1>9. CASE UNCHANGED hostVars /\ UnpackFails
  <2>1. bytesRx \in 1 .. Len(hWire) /\ rxBuf = ToGadget(hWire[bytesRx]) /\ rxBuf = Corrupt
    BY <1>1, <1>9 DEF UnpackFails, Cable, InRx
  <2> QED
    BY <1>1, <2>1, GadgetConstants DEF WireGood
<1>10. CASE UNCHANGED hostVars /\ Deliver
  <2>1. /\ DealtWith \in Nat /\ DealtWith + 1 \in 1 .. Len(hWire) /\ DealtWith' = DealtWith + 1
        /\ rxQueue' = Append(rxQueue, ToGadget(hWire[DealtWith + 1])) /\ hWire' = hWire
        /\ ToGadget(hWire[DealtWith + 1]) \in Frame
    BY <1>10, NextIsDelivered DEF hostVars
  <2>2. DealtWith + 1 <= Len(hWire)
    BY <1>1, <2>1
  <2>3. InOrder(Append(rxQueue, ToGadget(hWire[DealtWith + 1])), hWire, DealtWith + 1)
    BY <1>1, <1>2, <2>1, <2>2, OrderGrows DEF Queue
  <2>4. Placed(DataPlaces(Append(rxQueue, ToGadget(hWire[DealtWith + 1]))))
    BY <1>2, <2>1, IdsGrow DEF Queue
  <2> QED
    BY <2>1, <2>3, <2>4 DEF Queue
<1> QED
  BY <1>2, <1>4, <1>6, <1>7, <1>8, <1>9, <1>10, LinkSteps

LEMMA SendsCount == [HP!Next]_(HP!vars) => hSends' \in {hSends, hSends + 1}
<1> SUFFICES ASSUME [HP!Next]_(HP!vars) PROVE hSends' \in {hSends, hSends + 1}
  OBVIOUS
<1> USE DEF HP!mainVars, HP!seqVars, HP!cntVars, HP!rxVars
<1>1. CASE HP!MainNext \/ HP!AppNext \/ HP!RxNext \/ UNCHANGED HP!vars
  BY <1>1 DEF HP!MainNext, HP!Open, HP!OpenFails, HP!Signal, HP!Run, HP!Stop, HP!Close, HP!Exit,
              HP!AppNext, HP!Send, HP!RxNext, HP!LoopTest, HP!BeginTransfer, HP!Segfault,
              HP!RxInput, HP!Read, HP!ReadTimesOut, HP!ReadFails, HP!LoadCounter,
              HP!StoreCounter, HP!vars
<1>2. ASSUME NEW t, HP!WriterNext(t) PROVE hSends' = hSends
  BY <1>2 DEF HP!WriterNext, HP!Number, HP!PackDies, HP!BeginTransfer, HP!Segfault, HP!WriteDone,
              HP!WriteTimesOut, HP!WriteFails, HP!Taken, HP!Refused, HP!LoadCounter,
              HP!StoreCounter
<1>3. CASE HP!TxNext \/ HP!HbNext
  BY <1>2, <1>3 DEF HP!TxNext, HP!HbNext, HP!LoopTest, HP!Idle, HP!Pop
<1> QED
  BY <1>1, <1>3 DEF HP!Next

LEMMA InitChannel == LinkInit => Channel!Init
<1> SUFFICES ASSUME LinkInit PROVE Channel!Init
  OBVIOUS
<1>1. hSends = 0 /\ rxQueue = <<>>
  BY DEF LinkInit, Init, H!Init
<1>2. DataPlaces(rxQueue) = {}
  BY <1>1 DEF DataPlaces
<1>3. 1 .. Cardinality(DataPlaces(rxQueue)) = {}
  BY <1>2, FS_EmptySet
<1>4. Delivered = <<>>
  BY <1>3 DEF Delivered, PayloadIds
<1> QED
  BY <1>1, <1>4 DEF Channel!Init

\* A step of the host sends at most one payload and delivers none.
LEMMA HostAccepts ==
  ASSUME HP!HostInv, HP!HostInv', HostUp, Cable, Queue, [LinkNext]_<<vars, hostVars>>,
         UNCHANGED vars, WireGrows
  PROVE  [Channel!Next]_<<hSends, Delivered>>
<1>1. WireGood(hWire) /\ hWire \in Seq(HP!Frame) /\ Distinct(hWire) /\ Len(hWire) \in Nat
  BY GoodWire DEF WireGood
<1>2. rxQueue' = rxQueue /\ rxQueue \in Seq(Frame)
  BY DEF Cable, vars, rxVars
<1>3. DealtWith \in 0 .. Len(hWire)
  BY <1>1 DEF Cable, DealtWith, InRx
<1>4. Delivered' = Delivered
  <2>1. CASE hWire' = hWire
    BY <1>2, <2>1 DEF Delivered
  <2>2. ASSUME NEW f \in HP!Frame, hWire' = Append(hWire, f) PROVE Delivered' = Delivered
    <3>1. Distinct(hWire')
      BY DEF HP!HostInv, HP!EveryNumberOnce, Distinct
    <3>2. PayloadIds(rxQueue, Append(hWire, f)) = PayloadIds(rxQueue, hWire)
      BY <1>1, <1>2, <1>3, <2>2, <3>1, CableGrows DEF Queue
    <3> QED
      BY <1>2, <2>2, <3>2 DEF Delivered
  <2> QED
    BY <2>1, <2>2 DEF WireGrows
<1>5. hSends' = hSends \/ hSends' = hSends + 1
  BY HostSteps, SameHost, SendsCount
<1> QED
  BY <1>4, <1>5 DEF Channel!Next, Channel!Accept

\* The frame of a payload joins the queue: the next payload is delivered.  A
\* heartbeat joins it without a trace.
LEMMA GadgetDelivers ==
  ASSUME HP!HostInv, Cable, Queue, Deliver, UNCHANGED hostVars
  PROVE  [Channel!Next]_<<hSends, Delivered>>
<1> DEFINE w == hWire  f == ToGadget(w[DealtWith + 1])  m == w[DealtWith + 1].payload.id
           c == Cardinality(DataPlaces(rxQueue))
<1>1. WireGood(w) /\ Distinct(w) /\ Len(w) \in Nat /\ w \in Seq(HP!Frame)
  BY GoodWire DEF WireGood
<1>2. rxQueue \in Seq(Frame) /\ hSends \in Nat /\ hWire' = hWire /\ hSends' = hSends
  BY DEF Cable, HP!HostInv, HP!TypeInv, HP!TypeOK, hostVars
<1>3. /\ DealtWith \in Nat /\ DealtWith + 1 \in 1 .. Len(w) /\ rxQueue' = Append(rxQueue, f)
      /\ f \in Frame
  BY NextIsDelivered
<1>4. Delivered' = PayloadIds(Append(rxQueue, f), w)
  BY <1>2, <1>3 DEF Delivered
<1>5. InOrder(rxQueue, w, DealtWith) /\ Placed(DataPlaces(rxQueue))
  BY DEF Queue
<1>6. CASE "HB" \in f.flags
  <2>1. PayloadIds(Append(rxQueue, f), w) = PayloadIds(rxQueue, w)
    BY <1>2, <1>3, <1>5, <1>6, IdsGrow
  <2> QED
    BY <1>2, <1>4, <2>1 DEF Delivered
<1>7. CASE "HB" \notin f.flags
  <2>1. WireOf(f.seq, w) = DealtWith + 1
    BY <1>1, <1>3, WireOfIs DEF ToGadget
  <2>2. ~w[DealtWith + 1].hb
    BY <1>7 DEF ToGadget
  <2>3. m \in 1 .. hSends
    BY <1>1, <1>3, <2>2 DEF WireGood
  <2>4. /\ c \in Nat
        /\ Delivered' = [k \in 1 .. c + 1 |-> IF k = c + 1 THEN m ELSE Delivered[k]]
    <3>1. /\ c \in Nat
          /\ PayloadIds(Append(rxQueue, f), w) =
               Longer(PayloadIds(rxQueue, w), c, w[WireOf(f.seq, w)].payload.id)
      BY <1>2, <1>3, <1>5, <1>7, IdsGrow
    <3> HIDE DEF c, f
    <3> QED
      BY <1>4, <2>1, <3>1 DEF Delivered, Longer
  <2>5. /\ DOMAIN Delivered = 1 .. c
        /\ \A k \in 1 .. c : Delivered[k] \in 1 .. hSends /\ Delivered[k] < m
    <3>1. DealtWith \in 0 .. Len(w) /\ DealtWith + 1 \in DealtWith + 1 .. Len(w)
      BY <1>1, <1>3
    <3> QED
      BY <1>1, <1>2, <1>5, <2>2, <3>1, IdsBelow DEF Delivered
  <2>6. Delivered = [k \in 1 .. c |-> Delivered[k]]
    BY <1>2, <2>5 DEF Delivered, PayloadIds
  <2>7. Delivered \in Seq(Nat) /\ Len(Delivered) = c
    BY <2>3, <2>4, <2>5, <2>6
  <2>8. Delivered' = Append(Delivered, m)
    BY <2>3, <2>4, <2>7
  <2>9. Channel!Last \in Nat /\ Channel!Last < m
    <3>1. CASE Delivered = <<>>
      BY <2>3, <3>1, <1>2 DEF Channel!Last
    <3>2. CASE Delivered # <<>>
      <4>1. Len(Delivered) \in 1 .. c
        BY <2>4, <2>7, <3>2
      <4> QED
        BY <1>2, <2>5, <3>2, <4>1 DEF Channel!Last
    <3> QED
      BY <3>1, <3>2
  <2>10. m \in Channel!Last + 1 .. hSends
    BY <1>2, <2>3, <2>9
  <2> QED
    BY <1>2, <2>8, <2>10 DEF Channel!Next, Channel!Deliver
<1> QED
  BY <1>6, <1>7

LEMMA NextChannel ==
  /\ HP!HostInv /\ HP!HostInv' /\ HostUp /\ Cable /\ Queue /\ [LinkNext]_<<vars, hostVars>>
  => [Channel!Next]_<<hSends, Delivered>>
<1> SUFFICES ASSUME HP!HostInv, HP!HostInv', HostUp, Cable, Queue, [LinkNext]_<<vars, hostVars>>
             PROVE  [Channel!Next]_<<hSends, Delivered>>
  OBVIOUS
<1>1. ASSUME UNCHANGED hostVars, rxQueue' = rxQueue PROVE UNCHANGED <<hSends, Delivered>>
  BY <1>1 DEF hostVars, Delivered
<1>2. RxStays \/ RxDrops \/ GadgetReads \/ CountFrame \/ UnpackFails => rxQueue' = rxQueue
  BY DEF RxStays, RxDrops, GadgetReads, Read, CountFrame, UnpackFails, rxVars
<1>3. Threaded
  BY DEF Cable
<1> QED
  BY <1>1, <1>2, <1>3, HostAccepts, GadgetDelivers, LinkSteps

\* Every step of the link is a step of the channel or changes nothing of it:
\* for any traffic the payloads of the host's send() calls reach the queue of
\* the gadget's recv() in their order, none of them twice.
THEOREM LinkKeepsOrder == LinkSpec => KeepsOrder
<1>1. LinkSpec => []Queue
  BY InitQueue, NextQueue, CableHolds, HostHolds, PTL DEF LinkSpec
<1> QED
  BY <1>1, InitChannel, NextChannel, CableHolds, HostHolds, PTL
     DEF LinkSpec, KeepsOrder, Channel!Spec
-----------------------------------------------------------------------------
(* The gadget daemon inside the link.                                       *)

\* What this host can put on the cable, as the gadget unpacks it.
FromHost == {f \in Frame : \E w \in HP!Frame : f = ToGadget(w)}

\* The link's gadget has not begun to end.
GadgetUp == phase \in {"init", "ep0", "enabled", "up"}

LEMMA GadgetAlone ==
  FromHost \subseteq Inbound =>
    (HP!HostInv /\ Cable /\ GadgetUp /\ [LinkNext]_<<vars, hostVars>> => GadgetUp' /\ [Next]_vars)
<1> SUFFICES ASSUME FromHost \subseteq Inbound, HP!HostInv, Cable, GadgetUp,
                    [LinkNext]_<<vars, hostVars>>
             PROVE  GadgetUp' /\ [Next]_vars
  OBVIOUS
<1> USE DEF mainVars
<1>1. CASE UNCHANGED vars
  BY <1>1 DEF GadgetUp, vars
<1>2. CASE WriteDescriptors \/ WaitForEnable \/ StartThreads
  BY <1>2 DEF Next, MainNext, GadgetUp, WriteDescriptors, WaitForEnable, StartThreads
<1>3. ASSUME AppNext \/ HbNext \/ RxNext \/ TxNext \/ PutNext, phase' = phase
      PROVE  GadgetUp' /\ Next
  BY <1>3 DEF Next, GadgetUp
<1>4. CASE AppNext \/ HbNext \/ TxNext \/ PutNext
  <2>1. phase' = phase
    BY <1>4 DEF AppNext, SendRejected, Send, Pack, HbNext, LoopTest, Heartbeat, TxNext, GetTimesOut,
                Get, WriteTest, WriteOn, Write, WriteBlocks, WriteFails, CountSent, PutNext, Put
  <2> QED
    BY <1>3, <1>4, <2>1
<1>5. CASE LoopTest("rx", "read") \/ ReadNothing
  BY <1>3, <1>5 DEF RxNext, LoopTest, ReadNothing
<1>6. CASE UnpackFails \/ CountFrame \/ Deliver
  BY <1>3, <1>6 DEF RxNext, UnpackFails, CountFrame, Deliver
<1>7. CASE Forward \/ HopDrop
  BY <1>3, <1>7 DEF RxNext, Forward, HopDrop, Pack
<1>8. CASE GadgetReads
  <2>1. hWire \in Seq(HP!Frame) /\ bytesRx + 1 \in 1 .. Len(hWire)
    BY <1>8, GoodWire DEF GadgetReads, Cable, WireGood
  <2>2. hWire[bytesRx + 1] \in HP!Frame /\ ToGadget(hWire[bytesRx + 1]) \in Frame
    BY <2>1, GoodWire DEF WireGood
  <2>3. ToGadget(hWire[bytesRx + 1]) \in Inbound
    BY <2>2 DEF FromHost
  <2>4. RxInput /\ phase' = phase
    BY <1>8, <2>3 DEF GadgetReads, RxInput, Read
  <2> QED
    BY <1>3, <2>4 DEF RxNext
<1> QED
  BY <1>1, <1>2, <1>3, <1>4, <1>5, <1>6, <1>7, <1>8 DEF LinkNext, GadgetStep

\* If the gadget daemon alone may be sent whatever this host writes, it does
\* nothing in the link that it does not do alone.  So its invariants hold there:
\* every number conserved, counters exact, each frame routed once.
THEOREM LinkRunsGadget ==
  ASSUME FromHost \subseteq Inbound
  PROVE  /\ LinkSpec => Spec
         /\ LinkSpec => [](EveryNumberOnce /\ RxAccounting /\ RoutedOnce)
<1>1. LinkInit => Init /\ GadgetUp
  BY DEF LinkInit, Init, GadgetUp
<1>2. HP!HostInv /\ Cable /\ GadgetUp /\ [LinkNext]_<<vars, hostVars>> => GadgetUp' /\ [Next]_vars
  BY GadgetAlone
<1>3. LinkSpec => Spec
  BY <1>1, <1>2, CableHolds, HostHolds, PTL DEF LinkSpec, Spec
<1> QED
  BY <1>3, NumbersConserved, ReceiveCountsExact, EachRoutedOnce, PTL
=============================================================================
