----------------------------- MODULE UdfHostProofs -----------------------------
(***************************************************************************)
(* Proofs about the host daemon, for every modulus of the counter and      *)
(* every bound on payloads, numbers, reads and timeouts.                   *)
(***************************************************************************)
EXTENDS UdfHost, TLAPS

Places == {"off", "top", "pop", "number", "write", "read", "out", "in",
           "sent", "expired", "count", "countExpired", "done", "dead"}

\* A writer holds a frame exactly while it transfers it, with a number already
\* taken; rx never does; and no thread moves before run() starts it.
Control ==
  /\ \A t \in Writers : (pc[t] \in {"write", "out"}) <=> (hand[t] # NoFrame)
  /\ pc["rx"] \notin {"number", "write", "out", "sent", "count"}
  /\ \A t \in Writers : pc[t] \notin {"read", "in"}
  /\ phase \in {"init", "open"} => \A t \in Threads : pc[t] = "off"
  /\ \A t \in Writers : hand[t] # NoFrame => hand[t].seq < txSeq

TypeInv == TypeOK /\ Control

USE HostConstants

LEMMA Names ==
  /\ Threads = {"tx", "hb", "rx"} /\ Writers = {"tx", "hb"} /\ Writers \subseteq Threads
BY DEF Threads, Writers

LEMMA InitTypeInv == Init => TypeInv
<1> SUFFICES ASSUME Init PROVE TypeInv
  OBVIOUS
<1>1. NoPayload \in Payload
  BY DEF NoPayload, Payload
<1>2. txQueue \in Seq(Payload) /\ wire \in Seq(Frame) /\ rxQueue \in Seq(Nat)
  BY DEF Init
<1>3. txSeq \in 0 .. MaxAlloc
  BY DEF Init
<1>4. TypeOK
  BY <1>1, <1>2, <1>3 DEF Init, TypeOK
<1>5. Control
  BY DEF Init, Control, Threads, Writers
<1> QED
  BY <1>4, <1>5 DEF TypeInv

\* One thread moves to a place where it holds what it held before.
LEMMA GotoType ==
  ASSUME TypeInv, NEW t \in Threads, NEW l \in Places, Goto(t, l), pc[t] # "off",
         hand' = hand, phase' = phase, txSeq' >= txSeq, txSeq' \in Nat,
         t \in Writers => l \notin {"read", "in"},
         t = "rx" => l \notin {"number", "write", "out", "sent", "count"},
         t \in Writers => (l \in {"write", "out"} <=> pc[t] \in {"write", "out"})
  PROVE  pc' \in [Threads -> Places] /\ Control'
<1>1. /\ pc \in [Threads -> Places] /\ pc' = [pc EXCEPT ![t] = l]
  BY DEF TypeInv, TypeOK, Places, Goto
<1>2. pc'[t] = l /\ \A u \in Threads \ {t} : pc'[u] = pc[u]
  BY <1>1
<1>3. \A u \in Writers : hand'[u] # NoFrame => hand'[u].seq < txSeq'
  <2>1. \A u \in Writers : hand[u] # NoFrame => hand[u] \in Frame /\ hand[u].seq < txSeq
    BY DEF TypeInv, TypeOK, Control
  <2>2. txSeq \in Nat /\ \A f \in Frame : f.seq \in Nat
    BY DEF TypeInv, TypeOK, Frame
  <2> QED
    BY <2>1, <2>2
<1> QED
  BY <1>1, <1>2, <1>3, Names DEF TypeInv, Control

\* A writer takes a frame in hand or lets go of it.
LEMMA HandType ==
  ASSUME TypeInv, NEW t \in Writers, NEW l \in Places, Goto(t, l), pc[t] # "off",
         phase' = phase, NEW f \in Frame \cup {NoFrame}, hand' = [hand EXCEPT ![t] = f],
         l \notin {"read", "in"}, l \in {"write", "out"} <=> f # NoFrame,
         txSeq' >= txSeq, txSeq' \in Nat, f # NoFrame => f.seq < txSeq'
  PROVE  /\ pc' \in [Threads -> Places] /\ hand' \in [Writers -> Frame \cup {NoFrame}]
         /\ Control'
<1>1. /\ pc \in [Threads -> Places] /\ pc' = [pc EXCEPT ![t] = l]
      /\ hand \in [Writers -> Frame \cup {NoFrame}] /\ t \in Threads
  BY Names DEF TypeInv, TypeOK, Places, Goto
<1>2. /\ pc'[t] = l /\ \A u \in Threads \ {t} : pc'[u] = pc[u]
      /\ hand'[t] = f /\ \A u \in Writers \ {t} : hand'[u] = hand[u]
  BY <1>1
<1>3. \A u \in Writers : hand'[u] # NoFrame => hand'[u].seq < txSeq'
  <2>1. \A u \in Writers : hand[u] # NoFrame => hand[u] \in Frame /\ hand[u].seq < txSeq
    BY DEF TypeInv, TypeOK, Control
  <2>2. txSeq \in Nat /\ \A g \in Frame : g.seq \in Nat
    BY DEF TypeInv, TypeOK, Frame
  <2> QED
    BY <1>2, <2>1, <2>2
<1> QED
  BY <1>1, <1>2, <1>3, Names DEF TypeInv, Control

LEMMA NumberedType ==
  ASSUME TypeInv, NEW t \in Writers
  PROVE  Numbered(t) \in Frame
<1>1. txSeq \in Nat /\ popped \in Payload /\ NoPayload \in Payload
  BY DEF TypeInv, TypeOK, NoPayload, Payload
<1> QED
  BY <1>1 DEF Numbered, Frame

LEMMA HandFrame ==
  ASSUME TypeInv, NEW t \in Writers, pc[t] = "out"
  PROVE  hand[t] \in Frame
BY DEF TypeInv, TypeOK, Control

LEMMA MainTypeInv == TypeInv /\ MainNext => TypeInv'
<1> SUFFICES ASSUME TypeInv, MainNext PROVE TypeInv'
  OBVIOUS
<1> USE DEF mainVars, seqVars, rxVars, cntVars
<1>1. CASE Run
  <2>1. pc' = [t \in Threads |-> "top"] /\ phase' = "run" /\ running' = TRUE
        /\ UNCHANGED <<handle, signalled, seqVars, txQueue, sends, cntVars, rxVars>>
    BY <1>1 DEF Run
  <2>2. TypeOK'
    BY <2>1 DEF TypeInv, TypeOK
  <2>3. \A t \in Writers : hand[t] = NoFrame
    BY <1>1, Names DEF Run, TypeInv, Control
  <2> QED
    BY <2>1, <2>2, <2>3, Names DEF TypeInv, Control
<1>2. CASE ~Run
  <2>1. /\ UNCHANGED <<pc, seqVars, txQueue, sends, cntVars, rxVars>>
        /\ running' \in BOOLEAN /\ handle' \in BOOLEAN /\ signalled' \in {"no", "early", "running"}
        /\ phase' \in {"init", "open", "run", "stop", "released", "exited", "failed"}
        /\ (phase' \in {"init", "open"} => phase \in {"init", "open"})
    BY <1>2 DEF MainNext, Open, OpenFails, Signal, Stop, Close, Exit, TypeInv, TypeOK
  <2>2. TypeOK'
    BY <2>1 DEF TypeInv, TypeOK
  <2>3. Control'
    BY <2>1 DEF TypeInv, Control
  <2> QED
    BY <2>2, <2>3 DEF TypeInv
<1> QED
  BY <1>1, <1>2

LEMMA AppTypeInv == TypeInv /\ AppNext => TypeInv'
<1> SUFFICES ASSUME TypeInv, NEW fits \in BOOLEAN, Send(fits) PROVE TypeInv'
  BY DEF AppNext
<1>1. sends \in Nat /\ txQueue \in Seq(Payload)
  BY DEF TypeInv, TypeOK
<1>2. [id |-> sends + 1, fits |-> fits] \in Payload
  BY <1>1 DEF Payload
<1>3. txQueue' \in Seq(Payload) /\ sends' \in Nat
  BY <1>1, <1>2 DEF Send
<1>4. UNCHANGED <<mainVars, pc, seqVars, cntVars, rxVars>>
  BY DEF Send
<1> QED
  BY <1>3, <1>4 DEF TypeInv, TypeOK, Control, mainVars, seqVars, cntVars, rxVars

LEMMA LoopTestTypeInv ==
  ASSUME TypeInv, NEW t \in Threads, NEW body \in {"pop", "number", "read"}, LoopTest(t, body),
         t \in Writers <=> body # "read"
  PROVE  TypeInv'
<1> DEFINE l == IF running THEN body ELSE "done"
<1>1. Goto(t, l) /\ pc[t] = "top" /\ UNCHANGED <<mainVars, seqVars, txQueue, sends, cntVars, rxVars>>
  BY DEF LoopTest
<1>2. l \in Places \ {"write", "out", "in", "off", "sent", "count"} /\ (l = "read" => t \notin Writers)
      /\ (t = "rx" => l # "number")
  BY Names DEF Places
<1> HIDE DEF l
<1>3. pc' \in [Threads -> Places] /\ Control'
  <2>1. txSeq' = txSeq /\ txSeq \in Nat /\ hand' = hand /\ phase' = phase
    BY <1>1 DEF TypeInv, TypeOK, mainVars, seqVars
  <2> QED
    BY <1>1, <1>2, <2>1, GotoType
<1> QED
  BY <1>1, <1>3 DEF TypeInv, TypeOK, Places, mainVars, seqVars, cntVars, rxVars

\* What a writer does after it has popped or begun: numbering, the transfer,
\* and the counters.
LEMMA WriterTypeInv ==
  ASSUME TypeInv, NEW t \in Writers, WriterNext(t)
  PROVE  TypeInv'
<1> USE DEF mainVars, seqVars, cntVars, rxVars
<1>1. t \in Threads /\ TypeOK /\ Control /\ txSeq \in Nat
  BY Names DEF TypeInv, TypeOK
<1>2. CASE Number(t)
  <2>1. Numbered(t) \in Frame /\ Numbered(t).seq = txSeq /\ Numbered(t) # NoFrame
    BY NumberedType DEF Numbered
  <2>2. /\ Goto(t, "write") /\ pc[t] # "off" /\ phase' = phase /\ txSeq' = txSeq + 1
        /\ hand' = [hand EXCEPT ![t] = Numbered(t)]
    BY <1>2 DEF Number
  <2>3. txSeq' >= txSeq /\ txSeq' \in Nat /\ Numbered(t).seq < txSeq' /\ "write" \in Places
    BY <1>1, <2>1, <2>2 DEF Places
  <2>4. pc' \in [Threads -> Places] /\ hand' \in [Writers -> Frame \cup {NoFrame}] /\ Control'
    BY <2>1, <2>2, <2>3, HandType
  <2> QED
    BY <1>1, <1>2, <2>4 DEF Number, TypeInv, TypeOK, Places
<1>3. CASE PackDies(t)
  <2>1. pc' \in [Threads -> Places] /\ Control'
    BY <1>1, <1>3, GotoType DEF PackDies, Places, Writers
  <2>2. txSeq' \in 0 .. MaxAlloc /\ lost' \in SUBSET (0 .. MaxAlloc)
    BY <1>1, <1>3 DEF PackDies, TypeOK
  <2> QED
    BY <1>1, <1>3, <2>1, <2>2 DEF PackDies, TypeInv, TypeOK, Places
<1>4. CASE BeginTransfer(t)
  <2>1. pc[t] = "write" /\ Goto(t, "out")
    BY <1>1, <1>4 DEF BeginTransfer, Control
  <2>2. pc' \in [Threads -> Places] /\ Control'
    BY <1>1, <1>4, <2>1, GotoType DEF BeginTransfer, Places, Writers
  <2> QED
    BY <1>1, <1>4, <2>2 DEF BeginTransfer, TypeInv, TypeOK, Places
<1>5. CASE Segfault(t)
  BY <1>1, <1>5 DEF Segfault, TypeInv, TypeOK, Control
<1>6. ASSUME pc[t] = "out", Goto(t, "sent") \/ Goto(t, "expired") \/ Goto(t, "top"),
             Taken(t) \/ Refused(t), hand' = [hand EXCEPT ![t] = NoFrame], expiries' \in Nat,
             UNCHANGED <<mainVars, txSeq, popped, txQueue, sends, txFrames, timeouts, tmp, rxVars>>
      PROVE  TypeInv'
  <2>1. hand[t] \in Frame /\ hand[t].seq \in 0 .. MaxAlloc
    BY <1>1, <1>6, HandFrame DEF Control, TypeOK, Frame
  <2>2. wire' \in Seq(Frame)
    <3>1. wire \in Seq(Frame) /\ (wire' = Append(wire, hand[t]) \/ wire' = wire)
      BY <1>1, <1>6 DEF Taken, Refused, TypeOK
    <3> QED
      BY <2>1, <3>1
  <2>3. lost' \in SUBSET (0 .. MaxAlloc)
    BY <1>1, <1>6, <2>1 DEF Taken, Refused, TypeOK
  <2>4. pc' \in [Threads -> Places] /\ hand' \in [Writers -> Frame \cup {NoFrame}] /\ Control'
    <3>1. PICK l \in {"sent", "expired", "top"} : Goto(t, l)
      BY <1>6
    <3>2. l \in Places /\ txSeq' >= txSeq /\ txSeq' \in Nat /\ phase' = phase /\ pc[t] # "off"
      BY <1>1, <1>6 DEF Places
    <3> QED
      BY <1>6, <3>1, <3>2, HandType
  <2> QED
    BY <1>1, <1>6, <2>2, <2>3, <2>4 DEF TypeInv, TypeOK, Places
<1>7. CASE WriteDone(t) \/ WriteTimesOut(t) \/ WriteFails(t)
  <2>1. CASE WriteDone(t)
    BY <1>1, <1>6, <2>1 DEF WriteDone, TypeOK
  <2>2. CASE WriteTimesOut(t)
    BY <1>1, <1>6, <2>2 DEF WriteTimesOut, TypeOK
  <2>3. CASE WriteFails(t)
    BY <1>1, <1>6, <2>3 DEF WriteFails, TypeOK
  <2> QED
    BY <1>7, <2>1, <2>2, <2>3
<1>8. CASE LoadCounter(t)
  <2>1. PICK l \in {"count", "countExpired"} : Goto(t, l)
    BY <1>8 DEF LoadCounter
  <2>2. pc' \in [Threads -> Places] /\ Control'
    BY <1>1, <1>8, <2>1, GotoType DEF LoadCounter, Places, Writers
  <2> QED
    BY <1>1, <1>8, <2>2 DEF LoadCounter, TypeInv, TypeOK, Places
<1>9. CASE StoreCounter(t)
  <2>1. pc' \in [Threads -> Places] /\ Control'
    BY <1>1, <1>9, GotoType DEF StoreCounter, Places, Writers
  <2>2. txFrames' \in Nat /\ timeouts' \in Nat
    BY <1>1, <1>9 DEF StoreCounter, TypeOK
  <2> QED
    BY <1>1, <1>9, <2>1, <2>2 DEF StoreCounter, TypeInv, TypeOK, Places
<1> QED
  BY <1>2, <1>3, <1>4, <1>5, <1>7, <1>8, <1>9 DEF WriterNext

LEMMA TxTypeInv == TypeInv /\ TxNext => TypeInv'
<1> SUFFICES ASSUME TypeInv, TxNext PROVE TypeInv'
  OBVIOUS
<1> USE DEF mainVars, seqVars, cntVars, rxVars
<1>1. "tx" \in Writers /\ "tx" \in Threads /\ TypeOK /\ Control /\ txSeq \in Nat
  BY Names DEF TypeInv, TypeOK
<1>2. CASE LoopTest("tx", "pop")
  BY <1>1, <1>2, LoopTestTypeInv
<1>3. CASE Idle
  <2>1. pc' \in [Threads -> Places] /\ Control'
    BY <1>1, <1>3, GotoType DEF Idle, Places
  <2> QED
    BY <1>1, <1>3, <2>1 DEF Idle, TypeInv, TypeOK, Places
<1>4. CASE Pop
  <2>1. pc' \in [Threads -> Places] /\ Control'
    BY <1>1, <1>4, GotoType DEF Pop, Places
  <2>2. popped' \in Payload /\ txQueue' \in Seq(Payload)
    BY <1>1, <1>4 DEF Pop, TypeOK
  <2> QED
    BY <1>1, <1>4, <2>1, <2>2 DEF Pop, TypeInv, TypeOK, Places
<1> QED
  BY <1>1, <1>2, <1>3, <1>4, WriterTypeInv DEF TxNext

LEMMA HbTypeInv == TypeInv /\ HbNext => TypeInv'
BY LoopTestTypeInv, WriterTypeInv, Names DEF HbNext

LEMMA RxTypeInv == TypeInv /\ RxNext => TypeInv'
<1> SUFFICES ASSUME TypeInv, RxNext PROVE TypeInv'
  OBVIOUS
<1> USE DEF mainVars, seqVars, cntVars, rxVars
<1>1. "rx" \notin Writers /\ "rx" \in Threads /\ TypeOK /\ Control /\ txSeq \in Nat
  BY Names DEF TypeInv, TypeOK
<1>2. CASE LoopTest("rx", "read")
  BY <1>1, <1>2, LoopTestTypeInv
<1>3. CASE BeginTransfer("rx")
  <2>1. Goto("rx", "in") /\ pc["rx"] = "read"
    BY <1>1, <1>3 DEF BeginTransfer, Control
  <2>2. pc' \in [Threads -> Places] /\ Control'
    BY <1>1, <1>3, <2>1, GotoType DEF BeginTransfer, Places
  <2> QED
    BY <1>1, <1>3, <2>2 DEF BeginTransfer, TypeInv, TypeOK, Places
<1>4. CASE Segfault("rx")
  BY <1>1, <1>4 DEF Segfault, TypeInv, TypeOK, Control
<1>5. ASSUME NEW kind \in {"data", "hb", "bad"}, Read(kind) PROVE TypeInv'
  <2>1. pc' \in [Threads -> Places] /\ Control'
    BY <1>1, <1>5, GotoType DEF Read, Places
  <2>2. rxQueue' \in Seq(Nat)
    BY <1>1, <1>5 DEF Read, TypeOK
  <2>3. /\ reads' \in Nat /\ crcErrors' \in Nat /\ rxFrames' \in Nat /\ rxHb' \in Nat
    BY <1>1, <1>5 DEF Read, TypeOK
  <2> QED
    BY <1>1, <1>5, <2>1, <2>2, <2>3 DEF Read, TypeInv, TypeOK, Places
<1>6. CASE ReadTimesOut
  <2>1. pc' \in [Threads -> Places] /\ Control'
    BY <1>1, <1>6, GotoType DEF ReadTimesOut, Places
  <2> QED
    BY <1>1, <1>6, <2>1 DEF ReadTimesOut, TypeInv, TypeOK, Places
<1>7. CASE ReadFails
  <2>1. pc' \in [Threads -> Places] /\ Control'
    BY <1>1, <1>7, GotoType DEF ReadFails, Places
  <2> QED
    BY <1>1, <1>7, <2>1 DEF ReadFails, TypeInv, TypeOK, Places
<1>8. CASE LoadCounter("rx")
  <2>1. Goto("rx", "countExpired") /\ pc["rx"] = "expired"
    BY <1>1, <1>8 DEF LoadCounter, Control
  <2>2. pc' \in [Threads -> Places] /\ Control'
    BY <1>1, <1>8, <2>1, GotoType DEF LoadCounter, Places
  <2> QED
    BY <1>1, <1>8, <2>1, <2>2 DEF LoadCounter, TypeInv, TypeOK, Places
<1>9. CASE StoreCounter("rx")
  <2>1. pc' \in [Threads -> Places] /\ Control'
    BY <1>1, <1>9, GotoType DEF StoreCounter, Places
  <2>2. txFrames' \in Nat /\ timeouts' \in Nat
    BY <1>1, <1>9 DEF StoreCounter, TypeOK
  <2> QED
    BY <1>1, <1>9, <2>1, <2>2 DEF StoreCounter, TypeInv, TypeOK, Places
<1> QED
  BY <1>2, <1>3, <1>4, <1>5, <1>6, <1>7, <1>8, <1>9 DEF RxNext, RxInput

LEMMA NextTypeInv == TypeInv /\ [Next]_vars => TypeInv'
<1>1. TypeInv /\ UNCHANGED vars => TypeInv'
  BY DEF TypeInv, TypeOK, Control, vars, mainVars, seqVars, cntVars, rxVars
<1> QED
  BY <1>1, MainTypeInv, AppTypeInv, TxTypeInv, HbTypeInv, RxTypeInv DEF Next

\* The host daemon never leaves its types, however its unlocked counters race
\* and wherever close() overtakes a transfer.
THEOREM HostTypes == Spec => []TypeOK
<1>1. Spec => []TypeInv
  BY InitTypeInv, NextTypeInv, PTL DEF Spec
<1>2. TypeInv => TypeOK
  BY DEF TypeInv
<1> QED
  BY <1>1, <1>2, PTL

-----------------------------------------------------------------------------
HIDE HostConstants
(* EveryNumberOnce: a number goes from the counter to a hand or to the lost  *)
(* ones, and from a hand to the wire or to the lost ones.                    *)

\* The steps that touch numbers; all others leave the four places alone.
LEMMA NumberSteps ==
  ASSUME TypeInv, [Next]_vars
  PROVE  \/ UNCHANGED <<txSeq, hand, wire, lost>>
         \/ \E t \in Writers : Number(t)
         \/ \E t \in Writers : PackDies(t)
         \/ \E t \in Writers :
              /\ pc[t] = "out" /\ hand' = [hand EXCEPT ![t] = NoFrame]
              /\ Taken(t) \/ Refused(t)
              /\ UNCHANGED <<txSeq, popped, txQueue>>
<1> USE DEF mainVars, seqVars, cntVars, rxVars
<1>1. CASE MainNext \/ AppNext \/ RxNext \/ UNCHANGED vars
  BY <1>1 DEF MainNext, Open, OpenFails, Signal, Run, Stop, Close, Exit, AppNext, Send, RxNext,
              LoopTest, BeginTransfer, Segfault, RxInput, Read, ReadTimesOut, ReadFails,
              LoadCounter, StoreCounter, vars
<1>2. ASSUME NEW t \in Writers, WriterNext(t)
      PROVE  \/ UNCHANGED <<txSeq, hand, wire, lost>>
             \/ Number(t) \/ PackDies(t)
             \/ /\ pc[t] = "out" /\ hand' = [hand EXCEPT ![t] = NoFrame]
                /\ Taken(t) \/ Refused(t)
                /\ UNCHANGED <<txSeq, popped, txQueue>>
  BY <1>2 DEF WriterNext, BeginTransfer, WriteDone, WriteTimesOut, WriteFails, Segfault,
              LoadCounter, StoreCounter
<1>3. CASE LoopTest("tx", "pop") \/ Idle \/ Pop \/ LoopTest("hb", "number")
  BY <1>3 DEF LoopTest, Idle, Pop
<1> QED
  BY <1>1, <1>2, <1>3, Names DEF Next, TxNext, HbNext

LEMMA NextOnce == TypeInv /\ EveryNumberOnce /\ [Next]_vars => EveryNumberOnce'
<1> SUFFICES ASSUME TypeInv, EveryNumberOnce, [Next]_vars PROVE EveryNumberOnce'
  OBVIOUS
<1>1. /\ txSeq \in Nat /\ hand \in [Writers -> Frame \cup {NoFrame}] /\ wire \in Seq(Frame)
      /\ txSeq \notin 0 .. txSeq - 1
  BY DEF TypeInv, TypeOK
<1>2. txSeq \notin HandSeqs \cup WireSeqs \cup lost
  BY <1>1 DEF EveryNumberOnce
<1>3. CASE UNCHANGED <<txSeq, hand, wire, lost>>
  <2>1. HandSeqs' = HandSeqs /\ WireSeqs' = WireSeqs
    BY <1>3 DEF HandSeqs, WireSeqs
  <2> QED
    BY <1>3, <2>1 DEF EveryNumberOnce
<1>4. ASSUME NEW t \in Writers, Number(t) PROVE EveryNumberOnce'
  <2>1. hand[t] = NoFrame /\ txSeq' = txSeq + 1 /\ hand' = [hand EXCEPT ![t] = Numbered(t)]
        /\ UNCHANGED <<wire, lost>>
    BY <1>4 DEF Number, TypeInv, Control
  <2>2. Numbered(t).seq = txSeq /\ Numbered(t) # NoFrame
    BY HostConstants, NumberedType DEF Numbered
  <2>3. hand'[t] = Numbered(t) /\ \A u \in Writers \ {t} : hand'[u] = hand[u]
    BY <1>1, <2>1
  <2>4. HandSeqs' = HandSeqs \cup {txSeq}
    BY <2>1, <2>2, <2>3 DEF HandSeqs
  <2>5. WireSeqs' = WireSeqs /\ 0 .. txSeq' - 1 = (0 .. txSeq - 1) \cup {txSeq}
    BY <1>1, <2>1 DEF WireSeqs
  <2>6. (hand["tx"] # NoFrame /\ hand["hb"] # NoFrame => hand["tx"].seq # hand["hb"].seq)'
    <3>1. \A u \in Writers : hand[u] # NoFrame => hand[u].seq # txSeq
      BY <1>2 DEF HandSeqs
    <3> QED
      BY <2>2, <2>3, <3>1, Names
  <2> QED
    BY <1>2, <2>1, <2>4, <2>5, <2>6 DEF EveryNumberOnce
<1>5. ASSUME NEW t \in Writers, PackDies(t) PROVE EveryNumberOnce'
  <2>1. txSeq' = txSeq + 1 /\ lost' = lost \cup {txSeq} /\ UNCHANGED <<hand, wire>>
    BY <1>5 DEF PackDies
  <2>2. HandSeqs' = HandSeqs /\ WireSeqs' = WireSeqs
        /\ 0 .. txSeq' - 1 = (0 .. txSeq - 1) \cup {txSeq}
    BY <1>1, <2>1 DEF HandSeqs, WireSeqs
  <2> QED
    BY <1>2, <2>1, <2>2 DEF EveryNumberOnce
<1>6. ASSUME NEW t \in Writers, pc[t] = "out", hand' = [hand EXCEPT ![t] = NoFrame],
             Taken(t) \/ Refused(t), txSeq' = txSeq
      PROVE  EveryNumberOnce'
  <2>1. hand[t] \in Frame /\ hand[t] # NoFrame
    BY <1>6, HandFrame, HostConstants
  <2>2. hand'[t] = NoFrame /\ \A u \in Writers \ {t} : hand'[u] = hand[u]
    BY <1>1, <1>6
  <2>3. hand[t].seq \in HandSeqs
        /\ \A u \in Writers \ {t} : hand[u] # NoFrame => hand[u].seq # hand[t].seq
    BY <2>1, Names DEF HandSeqs, EveryNumberOnce
  <2>4. HandSeqs' = HandSeqs \ {hand[t].seq}
    BY <2>2, <2>3 DEF HandSeqs
  <2>5. (hand["tx"] # NoFrame /\ hand["hb"] # NoFrame => hand["tx"].seq # hand["hb"].seq)'
    BY <2>2, Names
  <2>6. CASE Refused(t)
    <3>1. lost' = lost \cup {hand[t].seq} /\ wire' = wire /\ WireSeqs' = WireSeqs
      BY <2>6 DEF Refused, WireSeqs
    <3> QED
      BY <1>6, <2>3, <2>4, <2>5, <3>1 DEF EveryNumberOnce
  <2>7. CASE Taken(t)
    <3> DEFINE f == hand[t]
    <3>1. wire' = Append(wire, f) /\ lost' = lost /\ f \in Frame
      BY <2>1, <2>7 DEF Taken
    <3> HIDE DEF f
    <3>2. /\ Len(wire') = Len(wire) + 1 /\ Len(wire) \in Nat
          /\ \A i \in 1 .. Len(wire) : wire'[i] = wire[i]
          /\ wire'[Len(wire) + 1] = f
      BY <1>1, <3>1
    <3>3. WireSeqs' = WireSeqs \cup {f.seq}
      BY <3>2 DEF WireSeqs
    <3>4. f.seq \in HandSeqs /\ f.seq \notin WireSeqs \cup lost
      BY <2>3 DEF f, EveryNumberOnce
    <3>5. \A i, j \in 1 .. Len(wire') : wire'[i].seq = wire'[j].seq => i = j
      <4>1. \A i \in 1 .. Len(wire) : wire[i].seq \in WireSeqs
        BY DEF WireSeqs
      <4>2. \A i \in 1 .. Len(wire') : i \in 1 .. Len(wire) \/ i = Len(wire) + 1
        BY <3>2
      <4>3. \A i, j \in 1 .. Len(wire) : wire[i].seq = wire[j].seq => i = j
        BY DEF EveryNumberOnce
      <4> QED
        BY <3>2, <3>4, <4>1, <4>2, <4>3
    <3>6. HandSeqs' = HandSeqs \ {f.seq}
      BY <2>4 DEF f
    <3> QED
      BY <1>6, <2>5, <3>1, <3>3, <3>4, <3>5, <3>6 DEF EveryNumberOnce
  <2> QED
    BY <1>6, <2>6, <2>7
<1> QED
  BY <1>3, <1>4, <1>5, <1>6, NumberSteps

\* No interleaving of the two writers, of timeouts that race the device and of
\* close() loses a number unnoticed, repeats one or puts it on two frames.
THEOREM HostNumbersConserved == Spec => []EveryNumberOnce
<1>1. Init => EveryNumberOnce
  BY DEF Init, EveryNumberOnce, HandSeqs, WireSeqs, Writers
<1>2. Spec => []TypeInv
  BY InitTypeInv, NextTypeInv, PTL DEF Spec
<1> QED
  BY <1>1, <1>2, NextOnce, PTL DEF Spec

-----------------------------------------------------------------------------
(* DataInOrder.                                                              *)

\* The payloads on the wire, then the one in tx's hand or on its way to it,
\* then the queue: the order of the send() calls.
OrderInv ==
  /\ DataInOrder
  /\ \A i \in 1 .. Len(wire) : ~wire[i].hb => wire[i].payload.id <= popped.id
  /\ pc["tx"] \in {"number", "write", "out"} =>
       \A i \in 1 .. Len(wire) : ~wire[i].hb => wire[i].payload.id < popped.id
  /\ \A j \in 1 .. Len(txQueue) : popped.id < txQueue[j].id /\ txQueue[j].id <= sends
  /\ \A j, k \in 1 .. Len(txQueue) : j < k => txQueue[j].id < txQueue[k].id
  /\ hand["tx"] # NoFrame => hand["tx"].payload = popped
  /\ hand["hb"] # NoFrame => hand["hb"].hb
  /\ popped.id <= sends

\* How a step moves the frames along.
LEMMA OrderSteps ==
  ASSUME TypeInv, [Next]_vars
  PROVE  \/ /\ UNCHANGED <<hand, wire, txQueue, popped, sends>>
            /\ pc'["tx"] \in {"number", "write", "out"} => pc["tx"] \in {"number", "write", "out"}
         \/ \E fits \in BOOLEAN : Send(fits)
         \/ Pop
         \/ \E t \in Writers : Number(t)
         \/ \E t \in Writers :
              /\ pc[t] = "out" /\ hand' = [hand EXCEPT ![t] = NoFrame]
              /\ Taken(t) \/ UNCHANGED wire
              /\ UNCHANGED <<popped, txQueue, sends>>
              /\ \E l \in {"sent", "expired", "top"} : pc' = [pc EXCEPT ![t] = l]
<1> USE DEF mainVars, seqVars, cntVars, rxVars
<1>1. pc \in [Threads -> Places] /\ Threads = {"tx", "hb", "rx"} /\ Writers = {"tx", "hb"}
  BY Names DEF TypeInv, TypeOK, Places
<1> DEFINE Still == /\ UNCHANGED <<hand, wire, txQueue, popped, sends>>
                    /\ pc'["tx"] \in {"number", "write", "out"}
                         => pc["tx"] \in {"number", "write", "out"}
<1>2. CASE MainNext \/ UNCHANGED vars
  BY <1>1, <1>2 DEF MainNext, Open, OpenFails, Signal, Run, Stop, Close, Exit, vars
<1>3. CASE RxNext
  <2>1. UNCHANGED <<hand, wire, txQueue, popped, sends>>
    BY <1>3 DEF RxNext, LoopTest, BeginTransfer, Segfault, RxInput, Read, ReadTimesOut,
                ReadFails, LoadCounter, StoreCounter
  <2>2. pc'["tx"] = pc["tx"]
    BY <1>1, <1>3 DEF RxNext, LoopTest, BeginTransfer, Segfault, RxInput, Read, ReadTimesOut,
                ReadFails, LoadCounter, StoreCounter, Goto
  <2> QED
    BY <2>1, <2>2
<1>4. ASSUME NEW t \in Writers, WriterNext(t)
      PROVE  \/ Still \/ Number(t)
             \/ /\ pc[t] = "out" /\ hand' = [hand EXCEPT ![t] = NoFrame]
                /\ Taken(t) \/ UNCHANGED wire
                /\ UNCHANGED <<popped, txQueue, sends>>
                /\ \E l \in {"sent", "expired", "top"} : pc' = [pc EXCEPT ![t] = l]
  <2>1. CASE WriteDone(t) \/ WriteTimesOut(t) \/ WriteFails(t)
    BY <2>1 DEF WriteDone, WriteTimesOut, WriteFails, Refused, Goto
  <2>2. CASE PackDies(t) \/ LoadCounter(t) \/ StoreCounter(t) \/ Segfault(t)
    BY <1>1, <2>2 DEF PackDies, LoadCounter, StoreCounter, Segfault, Goto
  <2>3. CASE BeginTransfer(t)
    BY <1>1, <2>3 DEF BeginTransfer, Goto, TypeInv, Control
  <2> QED
    BY <1>4, <2>1, <2>2, <2>3 DEF WriterNext
<1>5. CASE LoopTest("tx", "pop") \/ Idle
  BY <1>1, <1>5 DEF LoopTest, Idle, Goto
<1>6. CASE LoopTest("hb", "number")
  BY <1>1, <1>6 DEF LoopTest, Goto
<1> HIDE DEF Still
<1>7. Still => \/ /\ UNCHANGED <<hand, wire, txQueue, popped, sends>>
                  /\ pc'["tx"] \in {"number", "write", "out"} => pc["tx"] \in {"number", "write", "out"}
  BY DEF Still
<1> QED
  BY <1>1, <1>2, <1>3, <1>4, <1>5, <1>6, <1>7 DEF Next, TxNext, HbNext, AppNext

LEMMA SendOrder == TypeInv /\ OrderInv /\ (\E fits \in BOOLEAN : Send(fits)) => OrderInv'
<1> SUFFICES ASSUME TypeInv, OrderInv, NEW fits \in BOOLEAN, Send(fits) PROVE OrderInv'
  OBVIOUS
<1> DEFINE x == [id |-> sends + 1, fits |-> fits]
<1>1. txQueue' = Append(txQueue, x) /\ sends' = sends + 1
      /\ UNCHANGED <<pc, wire, hand, popped>>
  BY DEF Send, seqVars
<1>2. sends \in Nat /\ txQueue \in Seq(Payload) /\ popped.id \in Nat
      /\ \A j \in 1 .. Len(txQueue) : txQueue[j].id \in Nat
  <2>1. sends \in Nat /\ txQueue \in Seq(Payload) /\ popped \in Payload
    BY DEF TypeInv, TypeOK
  <2>2. \A j \in 1 .. Len(txQueue) : txQueue[j] \in Payload
    BY <2>1
  <2> QED
    BY <2>1, <2>2 DEF Payload
<1>3. x \in Payload /\ x.id = sends + 1
  BY <1>2 DEF Payload
<1> HIDE DEF x
<1>4. /\ Len(txQueue') = Len(txQueue) + 1 /\ Len(txQueue) \in Nat
      /\ \A j \in 1 .. Len(txQueue) : txQueue'[j] = txQueue[j]
      /\ txQueue'[Len(txQueue) + 1] = x
  BY <1>1, <1>2, <1>3
<1>5. \A j \in 1 .. Len(txQueue') : j \in 1 .. Len(txQueue) \/ j = Len(txQueue) + 1
  BY <1>4
<1>6. \A j \in 1 .. Len(txQueue') : popped.id < txQueue'[j].id /\ txQueue'[j].id <= sends'
  BY <1>1, <1>2, <1>3, <1>4, <1>5 DEF OrderInv
<1>7. ASSUME NEW j \in 1 .. Len(txQueue'), NEW k \in 1 .. Len(txQueue'), j < k
      PROVE  txQueue'[j].id < txQueue'[k].id
  <2>1. j \in 1 .. Len(txQueue)
    BY <1>4, <1>5, <1>7
  <2>2. CASE k \in 1 .. Len(txQueue)
    BY <1>4, <1>7, <2>1, <2>2 DEF OrderInv
  <2>3. CASE k = Len(txQueue) + 1
    BY <1>2, <1>3, <1>4, <2>1, <2>3 DEF OrderInv
  <2> QED
    BY <1>5, <2>2, <2>3
<1>8. popped.id <= sends'
  BY <1>1, <1>2 DEF OrderInv
<1> QED
  BY <1>1, <1>6, <1>7, <1>8 DEF OrderInv, DataInOrder

LEMMA PopOrder == TypeInv /\ OrderInv /\ Pop => OrderInv'
<1> SUFFICES ASSUME TypeInv, OrderInv, Pop PROVE OrderInv'
  OBVIOUS
<1>1. txQueue \in Seq(Payload) /\ txQueue # <<>> /\ popped' = txQueue[1]
      /\ UNCHANGED <<wire, hand, sends>>
  BY DEF Pop, TypeInv, TypeOK, mainVars
<1>2. /\ Len(txQueue) \in Nat /\ 1 \in 1 .. Len(txQueue)
      /\ Len(txQueue') = Len(txQueue) - 1
      /\ \A j \in 1 .. Len(txQueue') : txQueue'[j] = txQueue[j + 1]
  BY <1>1 DEF Pop
<1>3. popped.id < popped'.id /\ popped'.id <= sends
  BY <1>1, <1>2 DEF OrderInv
<1>4. \A j \in 1 .. Len(txQueue') : j + 1 \in 1 .. Len(txQueue) /\ 1 < j + 1
  BY <1>2
<1>5. \A j \in 1 .. Len(txQueue') : popped'.id < txQueue'[j].id /\ txQueue'[j].id <= sends
  BY <1>1, <1>2, <1>4 DEF OrderInv
<1>6. \A j, k \in 1 .. Len(txQueue') : j < k => txQueue'[j].id < txQueue'[k].id
  <2> SUFFICES ASSUME NEW j \in 1 .. Len(txQueue'), NEW k \in 1 .. Len(txQueue'), j < k
               PROVE  txQueue'[j].id < txQueue'[k].id
    OBVIOUS
  <2>1. j + 1 < k + 1
    BY <1>2
  <2> QED
    BY <1>2, <1>4, <2>1 DEF OrderInv
<1>7. \A i \in 1 .. Len(wire) : ~wire[i].hb => wire[i].payload.id < popped'.id
  <2>1. popped.id \in Nat /\ popped'.id \in Nat
        /\ \A i \in 1 .. Len(wire) : wire[i].payload.id \in Nat
    <3>1. txQueue[1] \in Payload /\ popped \in Payload /\ wire \in Seq(Frame)
      BY <1>1, <1>2 DEF TypeInv, TypeOK
    <3>2. \A i \in 1 .. Len(wire) : wire[i] \in Frame
      BY <3>1
    <3> QED
      BY <1>1, <3>1, <3>2 DEF Frame, Payload
  <2> QED
    BY <1>3, <2>1 DEF OrderInv
<1>8. hand'["tx"] = NoFrame
  BY <1>1, Names DEF Pop, TypeInv, Control
<1>9. \A i \in 1 .. Len(wire) : ~wire[i].hb => wire[i].payload.id <= popped'.id
  <2>1. popped'.id \in Nat /\ \A i \in 1 .. Len(wire) : wire[i].payload.id \in Nat
    <3>1. txQueue[1] \in Payload /\ wire \in Seq(Frame)
      BY <1>1, <1>2 DEF TypeInv, TypeOK
    <3>2. \A i \in 1 .. Len(wire) : wire[i] \in Frame
      BY <3>1
    <3> QED
      BY <1>1, <3>1, <3>2 DEF Frame, Payload
  <2> QED
    BY <1>7, <2>1
<1> QED
  BY <1>1, <1>3, <1>5, <1>6, <1>7, <1>8, <1>9 DEF OrderInv, DataInOrder

LEMMA NumberOrder ==
  ASSUME TypeInv, OrderInv, NEW t \in Writers, Number(t)
  PROVE  OrderInv'
<1>1. /\ hand' = [hand EXCEPT ![t] = Numbered(t)] /\ pc' = [pc EXCEPT ![t] = "write"]
      /\ pc[t] = "number" /\ UNCHANGED <<wire, txQueue, popped, sends>>
  BY DEF Number, Goto, mainVars
<1>2. Numbered("tx").payload = popped /\ Numbered("hb").hb
  BY DEF Numbered
<1>3. /\ hand'["tx"] # NoFrame => hand'["tx"].payload = popped
      /\ hand'["hb"] # NoFrame => hand'["hb"].hb
  BY <1>1, <1>2, Names DEF OrderInv, TypeInv, TypeOK
<1>4. pc'["tx"] \in {"number", "write", "out"} => pc["tx"] \in {"number", "write", "out"}
  BY <1>1, Names DEF TypeInv, TypeOK
<1> QED
  BY <1>1, <1>3, <1>4 DEF OrderInv, DataInOrder

LEMMA FinishOrder ==
  ASSUME TypeInv, OrderInv, NEW t \in Writers, pc[t] = "out",
         hand' = [hand EXCEPT ![t] = NoFrame], Taken(t) \/ UNCHANGED wire,
         UNCHANGED <<popped, txQueue, sends>>,
         NEW l \in {"sent", "expired", "top"}, pc' = [pc EXCEPT ![t] = l]
  PROVE  OrderInv'
<1>1. /\ hand'["tx"] # NoFrame => hand'["tx"].payload = popped
      /\ hand'["hb"] # NoFrame => hand'["hb"].hb
      /\ pc'["tx"] \in {"number", "write", "out"} => pc["tx"] \in {"number", "write", "out"} /\ t # "tx"
  BY Names DEF OrderInv, TypeInv, TypeOK
<1>2. CASE UNCHANGED wire
  BY <1>1, <1>2 DEF OrderInv, DataInOrder
<1>3. CASE Taken(t)
  <2> DEFINE f == hand[t]
  <2>1. f \in Frame /\ wire \in Seq(Frame) /\ wire' = Append(wire, f)
    BY <1>3, HandFrame DEF Taken, TypeInv, TypeOK
  <2>2. f.hb \/ (t = "tx" /\ f.payload = popped)
    BY <2>1, HostConstants, Names DEF OrderInv
  <2> HIDE DEF f
  <2>3. /\ Len(wire') = Len(wire) + 1 /\ Len(wire) \in Nat
        /\ \A i \in 1 .. Len(wire) : wire'[i] = wire[i]
        /\ wire'[Len(wire) + 1] = f
        /\ \A i \in 1 .. Len(wire') : i \in 1 .. Len(wire) \/ i = Len(wire) + 1
    BY <2>1
  <2>4. popped.id \in Nat
    <3>1. popped \in Payload
      BY DEF TypeInv, TypeOK
    <3> QED
      BY <3>1 DEF Payload
  <2>5. \A i \in 1 .. Len(wire') : ~wire'[i].hb => wire'[i].payload.id <= popped.id
    BY <2>2, <2>3, <2>4 DEF OrderInv
  <2>6. DataInOrder'
    <3> SUFFICES ASSUME NEW i \in 1 .. Len(wire'), NEW j \in 1 .. Len(wire'), i < j,
                        ~wire'[i].hb, ~wire'[j].hb
                 PROVE  wire'[i].payload.id < wire'[j].payload.id
      BY DEF DataInOrder
    <3>1. i \in 1 .. Len(wire)
      BY <2>3
    <3>2. CASE j \in 1 .. Len(wire)
      BY <2>3, <3>1, <3>2 DEF OrderInv, DataInOrder
    <3>3. CASE j = Len(wire) + 1
      <4>1. t = "tx" /\ f.payload = popped /\ pc["tx"] = "out"
        BY <2>2, <2>3, <3>3
      <4> QED
        BY <2>3, <3>1, <3>3, <4>1 DEF OrderInv
    <3> QED
      BY <2>3, <3>2, <3>3
  <2>7. pc'["tx"] \in {"number", "write", "out"} =>
          \A i \in 1 .. Len(wire') : ~wire'[i].hb => wire'[i].payload.id < popped.id
    BY <1>1, <2>2, <2>3 DEF OrderInv
  <2> QED
    BY <1>1, <2>5, <2>6, <2>7 DEF OrderInv
<1> QED
  BY <1>2, <1>3

LEMMA NextOrder == TypeInv /\ OrderInv /\ [Next]_vars => OrderInv'
<1> SUFFICES ASSUME TypeInv, OrderInv, [Next]_vars PROVE OrderInv'
  OBVIOUS
<1>1. CASE /\ UNCHANGED <<hand, wire, txQueue, popped, sends>>
           /\ pc'["tx"] \in {"number", "write", "out"} => pc["tx"] \in {"number", "write", "out"}
  BY <1>1 DEF OrderInv, DataInOrder
<1> QED
  BY <1>1, OrderSteps, SendOrder, PopOrder, NumberOrder, FinishOrder

\* Whatever the heartbeats do in between, and whatever times out, the payloads
\* the device took are in the order of the application's send() calls.
THEOREM HostDataOrdered == Spec => []DataInOrder
<1>1. Init => OrderInv
  BY Names DEF Init, OrderInv, DataInOrder, NoPayload
<1>2. Spec => []TypeInv
  BY InitTypeInv, NextTypeInv, PTL DEF Spec
<1>3. OrderInv => DataInOrder
  BY DEF OrderInv
<1> QED
  BY <1>1, <1>2, <1>3, NextOrder, PTL DEF Spec

-----------------------------------------------------------------------------
(* CountersUnderReport.                                                      *)

At(t, places) == IF pc[t] \in places THEN 1 ELSE 0
Uncounted == At("tx", {"sent", "count"}) + At("hb", {"sent", "count"})
Unlapsed  == At("tx", {"expired", "countExpired"}) + At("hb", {"expired", "countExpired"})
             + At("rx", {"expired", "countExpired"})

\* Not only the counters but also the stale values about to be stored leave
\* room for what is still to be counted: a store may set a counter back, never
\* beyond the truth.
CounterInv ==
  /\ txFrames + Uncounted <= Len(wire) /\ timeouts + Unlapsed <= expiries
  /\ \A t \in Threads : pc[t] = "count" => tmp[t] + Uncounted <= Len(wire)
  /\ \A t \in Threads : pc[t] = "countExpired" => tmp[t] + Unlapsed <= expiries

LEMMA CountsAreNat ==
  ASSUME TypeInv
  PROVE  /\ Uncounted \in Nat /\ Unlapsed \in Nat /\ Len(wire) \in Nat /\ expiries \in Nat
         /\ txFrames \in Nat /\ timeouts \in Nat /\ \A t \in Threads : tmp[t] \in Nat
         /\ pc \in [Threads -> Places]
BY DEF Uncounted, Unlapsed, At, TypeInv, TypeOK, Places

\* How moving one thread changes what is still to be counted.
LEMMA MoveCounts ==
  ASSUME TypeInv, NEW t \in Threads, NEW l \in Places, Goto(t, l),
         t = "rx" => l \notin {"sent", "count"}
  PROVE  /\ \A u \in Threads \ {t} : pc'[u] = pc[u]
         /\ pc'[t] = l
         /\ Uncounted' = Uncounted - At(t, {"sent", "count"})
                          + (IF l \in {"sent", "count"} THEN 1 ELSE 0)
         /\ Unlapsed' = Unlapsed - At(t, {"expired", "countExpired"})
                         + (IF l \in {"expired", "countExpired"} THEN 1 ELSE 0)
<1>1. pc' = [pc EXCEPT ![t] = l] /\ pc \in [Threads -> Places] /\ pc["rx"] \notin {"sent", "count"}
  BY CountsAreNat DEF Goto, TypeInv, Control
<1>2. pc'[t] = l /\ \A u \in Threads \ {t} : pc'[u] = pc[u]
  BY <1>1
<1>3. t \in {"tx", "hb", "rx"} /\ Threads = {"tx", "hb", "rx"}
  BY Names
<1>4. Uncounted' = Uncounted - At(t, {"sent", "count"})
                    + (IF l \in {"sent", "count"} THEN 1 ELSE 0)
  BY <1>1, <1>2, <1>3 DEF Uncounted, At
<1>5. Unlapsed' = Unlapsed - At(t, {"expired", "countExpired"})
                   + (IF l \in {"expired", "countExpired"} THEN 1 ELSE 0)
  BY <1>2, <1>3 DEF Unlapsed, At
<1> QED
  BY <1>2, <1>4, <1>5

\* A thread moves between places that count nothing.
LEMMA QuietMove ==
  ASSUME TypeInv, CounterInv, NEW t \in Threads,
         NEW l \in Places \ {"sent", "count", "expired", "countExpired"}, Goto(t, l),
         pc[t] \notin {"sent", "count", "expired", "countExpired"},
         UNCHANGED <<txFrames, timeouts, tmp, expiries, wire>>
  PROVE  CounterInv'
<1>1. Uncounted' = Uncounted /\ Unlapsed' = Unlapsed
      /\ pc'[t] = l /\ \A u \in Threads \ {t} : pc'[u] = pc[u]
  BY MoveCounts, CountsAreNat DEF At
<1> QED
  BY <1>1 DEF CounterInv

\* A transfer ends: on the wire, timed out, or neither.
LEMMA FinishCounts ==
  ASSUME TypeInv, CounterInv, NEW t \in Threads, pc[t] \in {"out", "in"},
         NEW l \in {"sent", "expired", "top"}, Goto(t, l), t = "rx" => l # "sent",
         UNCHANGED <<txFrames, timeouts, tmp>>,
         Len(wire') \in Nat, Len(wire') >= Len(wire), expiries' >= expiries, expiries' \in Nat,
         l = "sent" => Len(wire') >= Len(wire) + 1, l = "expired" => expiries' >= expiries + 1
  PROVE  CounterInv'
<1>1. l \in Places
  BY DEF Places
<1>2. /\ Uncounted' = Uncounted + (IF l = "sent" THEN 1 ELSE 0)
      /\ Unlapsed' = Unlapsed + (IF l = "expired" THEN 1 ELSE 0)
      /\ pc'[t] = l /\ \A u \in Threads \ {t} : pc'[u] = pc[u]
  BY <1>1, MoveCounts, CountsAreNat DEF At
<1>3. /\ Uncounted \in Nat /\ Unlapsed \in Nat /\ Len(wire) \in Nat /\ expiries \in Nat
      /\ txFrames \in Nat /\ timeouts \in Nat /\ \A u \in Threads : tmp[u] \in Nat
  BY CountsAreNat
<1>4. txFrames' + Uncounted' <= Len(wire') /\ timeouts' + Unlapsed' <= expiries'
  BY <1>2, <1>3 DEF CounterInv
<1>5. ASSUME NEW u \in Threads, pc'[u] = "count" PROVE tmp'[u] + Uncounted' <= Len(wire')
  <2>1. pc[u] = "count" /\ tmp'[u] = tmp[u] /\ tmp[u] \in Nat
    BY <1>2, <1>3, <1>5
  <2>2. tmp[u] + Uncounted <= Len(wire)
    BY <2>1 DEF CounterInv
  <2> QED
    BY <1>2, <1>3, <2>1, <2>2
<1>6. ASSUME NEW u \in Threads, pc'[u] = "countExpired" PROVE tmp'[u] + Unlapsed' <= expiries'
  <2>1. pc[u] = "countExpired" /\ tmp'[u] = tmp[u] /\ tmp[u] \in Nat
    BY <1>2, <1>3, <1>6
  <2>2. tmp[u] + Unlapsed <= expiries
    BY <2>1 DEF CounterInv
  <2> QED
    BY <1>2, <1>3, <2>1, <2>2
<1> QED
  BY <1>4, <1>5, <1>6 DEF CounterInv

LEMMA LoadCounts ==
  ASSUME TypeInv, CounterInv, NEW t \in Threads, LoadCounter(t)
  PROVE  CounterInv'
<1> DEFINE l == IF pc[t] = "sent" THEN "count" ELSE "countExpired"
<1>1. /\ pc[t] \in {"sent", "expired"} /\ Goto(t, l)
      /\ tmp' = [tmp EXCEPT ![t] = IF pc[t] = "sent" THEN txFrames ELSE timeouts]
      /\ UNCHANGED <<txFrames, timeouts, expiries, wire>>
  BY DEF LoadCounter, seqVars
<1>2. l \in Places /\ (t = "rx" => pc[t] # "sent")
  BY DEF Places, TypeInv, Control
<1>3. /\ Uncounted' = Uncounted /\ Unlapsed' = Unlapsed
      /\ pc'[t] = l /\ \A u \in Threads \ {t} : pc'[u] = pc[u]
  BY <1>1, <1>2, MoveCounts, CountsAreNat DEF At
<1>4. /\ tmp'[t] = (IF pc[t] = "sent" THEN txFrames ELSE timeouts)
      /\ \A u \in Threads \ {t} : tmp'[u] = tmp[u]
  BY <1>1 DEF TypeInv, TypeOK
<1> QED
  BY <1>1, <1>3, <1>4 DEF CounterInv

LEMMA StoreCounts ==
  ASSUME TypeInv, CounterInv, NEW t \in Threads, StoreCounter(t)
  PROVE  CounterInv'
<1>1. /\ pc[t] \in {"count", "countExpired"} /\ Goto(t, "top")
      /\ txFrames' = (IF pc[t] = "count" THEN tmp[t] + 1 ELSE txFrames)
      /\ timeouts' = (IF pc[t] = "countExpired" THEN tmp[t] + 1 ELSE timeouts)
      /\ UNCHANGED <<tmp, expiries, wire>>
  BY DEF StoreCounter, seqVars
<1>2. /\ Uncounted' = Uncounted - (IF pc[t] = "count" THEN 1 ELSE 0)
      /\ Unlapsed' = Unlapsed - (IF pc[t] = "countExpired" THEN 1 ELSE 0)
      /\ pc'[t] = "top" /\ \A u \in Threads \ {t} : pc'[u] = pc[u]
  BY <1>1, MoveCounts, CountsAreNat DEF At, Places
<1>3. /\ Uncounted \in Nat /\ Unlapsed \in Nat /\ Len(wire) \in Nat /\ expiries \in Nat
      /\ txFrames \in Nat /\ timeouts \in Nat /\ \A u \in Threads : tmp[u] \in Nat
  BY CountsAreNat
<1>4. txFrames' + Uncounted' <= Len(wire)
  BY <1>1, <1>2, <1>3 DEF CounterInv
<1>5. timeouts' + Unlapsed' <= expiries
  BY <1>1, <1>2, <1>3 DEF CounterInv
<1>6. ASSUME NEW u \in Threads, pc'[u] = "count" PROVE tmp'[u] + Uncounted' <= Len(wire)
  <2>1. pc[u] = "count" /\ tmp[u] \in Nat
    BY <1>2, <1>3, <1>6
  <2>2. tmp[u] + Uncounted <= Len(wire)
    BY <2>1 DEF CounterInv
  <2> QED
    BY <1>1, <1>2, <1>3, <2>1, <2>2
<1>7. ASSUME NEW u \in Threads, pc'[u] = "countExpired" PROVE tmp'[u] + Unlapsed' <= expiries
  <2>1. pc[u] = "countExpired" /\ tmp[u] \in Nat
    BY <1>2, <1>3, <1>7
  <2>2. tmp[u] + Unlapsed <= expiries
    BY <2>1 DEF CounterInv
  <2> QED
    BY <1>1, <1>2, <1>3, <2>1, <2>2
<1> QED
  BY <1>1, <1>4, <1>5, <1>6, <1>7 DEF CounterInv

LEMMA NextCounts == TypeInv /\ CounterInv /\ [Next]_vars => CounterInv'
<1> SUFFICES ASSUME TypeInv, CounterInv, [Next]_vars PROVE CounterInv'
  OBVIOUS
<1> USE DEF mainVars, seqVars, cntVars, rxVars
<1>1. ASSUME UNCHANGED <<pc, txFrames, timeouts, tmp, expiries, wire>> PROVE CounterInv'
  <2>1. Uncounted' = Uncounted /\ Unlapsed' = Unlapsed
    BY <1>1 DEF Uncounted, Unlapsed, At
  <2> QED
    BY <1>1, <2>1 DEF CounterInv
<1>2. CASE MainNext
  <2>1. CASE Run
    <3>1. /\ pc' = [t \in Threads |-> "top"] /\ \A t \in Threads : pc[t] = "off"
          /\ UNCHANGED <<txFrames, timeouts, tmp, expiries, wire>>
      BY <2>1 DEF Run, TypeInv, Control
    <3>2. Uncounted' = Uncounted /\ Unlapsed' = Unlapsed
      BY <3>1, Names DEF Uncounted, Unlapsed, At
    <3> QED
      BY <3>1, <3>2 DEF CounterInv
  <2> QED
    BY <1>1, <1>2, <2>1 DEF MainNext, Open, OpenFails, Signal, Stop, Close, Exit
<1>3. CASE AppNext
  BY <1>1, <1>3 DEF AppNext, Send
<1>4. ASSUME NEW t \in Threads, NEW body \in {"pop", "number", "read"}, LoopTest(t, body)
      PROVE  CounterInv'
  <2>1. PICK l \in {"pop", "number", "read", "done"} : Goto(t, l)
    BY <1>4 DEF LoopTest
  <2> QED
    BY <1>4, <2>1, QuietMove DEF LoopTest, Places
<1>5. CASE Idle \/ Pop
  BY <1>5, QuietMove, Names DEF Idle, Pop, Places
<1>6. ASSUME NEW t \in Threads, BeginTransfer(t) PROVE CounterInv'
  BY <1>6, QuietMove DEF BeginTransfer, Places
<1>7. ASSUME NEW t \in Threads, Segfault(t) PROVE CounterInv'
  BY <1>1, <1>7 DEF Segfault
<1>8. ASSUME NEW t \in Writers, WriterNext(t) PROVE CounterInv'
  <2>1. t \in Threads /\ t # "rx"
    BY Names
  <2>2. CASE Number(t) \/ PackDies(t)
    BY <2>1, <2>2, QuietMove DEF Number, PackDies, Places
  <2>3. CASE WriteDone(t) \/ WriteTimesOut(t) \/ WriteFails(t)
    <3>1. wire \in Seq(Frame) /\ hand[t] \in Frame /\ expiries \in Nat /\ pc[t] = "out"
      BY <2>3, HandFrame DEF WriteDone, WriteTimesOut, WriteFails, TypeInv, TypeOK
    <3>2. Taken(t) => Len(wire') = Len(wire) + 1
      BY <3>1 DEF Taken
    <3>3. Refused(t) => Len(wire') = Len(wire)
      BY DEF Refused
    <3>4. Len(wire) \in Nat
      BY <3>1
    <3>5. CASE WriteDone(t)
      BY <2>1, <3>1, <3>2, <3>4, <3>5, FinishCounts DEF WriteDone
    <3>6. CASE WriteTimesOut(t)
      BY <2>1, <3>1, <3>2, <3>3, <3>4, <3>6, FinishCounts DEF WriteTimesOut
    <3>7. CASE WriteFails(t)
      BY <2>1, <3>1, <3>3, <3>4, <3>7, FinishCounts DEF WriteFails
    <3> QED
      BY <2>3, <3>5, <3>6, <3>7
  <2> QED
    BY <1>6, <1>7, <1>8, <2>1, <2>2, <2>3, LoadCounts, StoreCounts DEF WriterNext
<1>9. CASE RxNext
  <2>1. "rx" \in Threads /\ Len(wire) \in Nat /\ expiries \in Nat
    BY Names, CountsAreNat
  <2>2. ASSUME NEW kind \in {"data", "hb", "bad"}, Read(kind) PROVE CounterInv'
    BY <2>1, <2>2, QuietMove DEF Read, Places
  <2>3. CASE ReadTimesOut
    BY <2>1, <2>3, FinishCounts DEF ReadTimesOut
  <2>4. CASE ReadFails
    BY <2>1, <2>4, QuietMove DEF ReadFails, Places
  <2> QED
    BY <1>4, <1>6, <1>7, <1>9, <2>1, <2>2, <2>3, <2>4, LoadCounts, StoreCounts DEF RxNext, RxInput
<1>10. CASE UNCHANGED vars
  BY <1>1, <1>10 DEF vars
<1> QED
  BY <1>2, <1>3, <1>4, <1>5, <1>8, <1>9, <1>10, Names DEF Next, TxNext, HbNext

\* However the threads' loads and stores interleave, the unlocked counters never
\* show more than happened.
THEOREM CountersNeverOver == Spec => []CountersUnderReport
<1>1. Init => CounterInv
  BY Names DEF Init, CounterInv, Uncounted, Unlapsed, At
<1>2. Spec => []TypeInv
  BY InitTypeInv, NextTypeInv, PTL DEF Spec
<1>3. TypeInv /\ CounterInv => CountersUnderReport
  BY CountsAreNat DEF CounterInv, CountersUnderReport
<1> QED
  BY <1>1, <1>2, <1>3, NextCounts, PTL DEF Spec

\* What reaches the wire as data is some send() call's payload.
OfSomeCall ==
  /\ \A i \in 1 .. Len(wire) : ~wire[i].hb => wire[i].payload.id >= 1
  /\ pc["tx"] \in {"number", "write", "out"} => popped.id >= 1

LEMMA InitOfSomeCall == Init => OfSomeCall
BY Names DEF Init, OfSomeCall

LEMMA NextOfSomeCall == TypeInv /\ OrderInv /\ OfSomeCall /\ [Next]_vars => OfSomeCall'
<1> SUFFICES ASSUME TypeInv, OrderInv, OfSomeCall, [Next]_vars PROVE OfSomeCall'
  OBVIOUS
<1>1. CASE /\ UNCHANGED <<hand, wire, txQueue, popped, sends>>
           /\ pc'["tx"] \in {"number", "write", "out"} => pc["tx"] \in {"number", "write", "out"}
  BY <1>1 DEF OfSomeCall
<1>2. CASE \E fits \in BOOLEAN : Send(fits)
  BY <1>2 DEF OfSomeCall, Send, seqVars
<1>3. CASE Pop
  <2>1. txQueue \in Seq(Payload) /\ txQueue # <<>> /\ popped' = txQueue[1] /\ wire' = wire
    BY <1>3 DEF Pop, TypeInv, TypeOK
  <2>2. popped \in Payload /\ txQueue[1] \in Payload /\ popped.id < txQueue[1].id
    BY <2>1 DEF TypeInv, TypeOK, OrderInv
  <2>3. popped'.id >= 1
    BY <2>1, <2>2 DEF Payload
  <2> QED
    BY <2>1, <2>3 DEF OfSomeCall
<1>4. ASSUME NEW t \in Writers, Number(t) PROVE OfSomeCall'
  <2>1. pc' = [pc EXCEPT ![t] = "write"] /\ pc[t] = "number" /\ UNCHANGED <<wire, popped>>
    BY <1>4 DEF Number, Goto
  <2>2. pc'["tx"] \in {"number", "write", "out"} => pc["tx"] \in {"number", "write", "out"}
    BY <2>1, Names DEF TypeInv, TypeOK
  <2> QED
    BY <2>1, <2>2 DEF OfSomeCall
<1>5. ASSUME NEW t \in Writers, pc[t] = "out", Taken(t) \/ UNCHANGED wire, UNCHANGED popped,
             NEW l \in {"sent", "expired", "top"}, pc' = [pc EXCEPT ![t] = l]
      PROVE  OfSomeCall'
  <2>1. pc'["tx"] \in {"number", "write", "out"} => pc["tx"] \in {"number", "write", "out"}
    BY <1>5, Names DEF TypeInv, TypeOK
  <2>2. wire \in Seq(Frame) /\ hand[t] \in Frame /\ hand[t] # NoFrame
    BY <1>5, HandFrame, HostConstants DEF TypeInv, TypeOK
  <2>3. ~hand[t].hb => hand[t].payload.id >= 1
    BY <1>5, <2>2, Names DEF OrderInv, OfSomeCall
  <2>4. \A i \in 1 .. Len(wire') : ~wire'[i].hb => wire'[i].payload.id >= 1
    BY <1>5, <2>2, <2>3 DEF OfSomeCall, Taken
  <2> QED
    BY <1>5, <2>1, <2>4 DEF OfSomeCall
<1> QED
  BY <1>1, <1>2, <1>3, <1>4, <1>5, OrderSteps

-----------------------------------------------------------------------------
(* How far the two writers can overtake each other.                          *)

\* What fits the 32-bit field when it is packed still fits it on the wire.
Packed ==
  /\ \A i \in 1 .. Len(wire) : wire[i].seq < SeqMod
  /\ \A t \in Writers : hand[t] # NoFrame => hand[t].seq < SeqMod

\* The numbers below one of the first i on the wire that are neither among these
\* nor lost.
Overtaken(i) == {k \in Nat : /\ \E j \in 1 .. i : k < wire[j].seq
                             /\ \A j \in 1 .. i : wire[j].seq # k
                             /\ k \notin lost}
OneOvertaken == \A i \in 0 .. Len(wire) : \A a, b \in Overtaken(i) : a = b

LEMMA NextPacked == TypeInv /\ Packed /\ [Next]_vars => Packed'
<1> SUFFICES ASSUME TypeInv, Packed, [Next]_vars PROVE Packed'
  OBVIOUS
<1>1. hand \in [Writers -> Frame \cup {NoFrame}] /\ wire \in Seq(Frame)
  BY DEF TypeInv, TypeOK
<1>2. CASE UNCHANGED <<hand, wire>>
  BY <1>2 DEF Packed
<1>3. ASSUME NEW t \in Writers, Number(t) PROVE Packed'
  <2>1. hand' = [hand EXCEPT ![t] = Numbered(t)] /\ Numbered(t).seq < SeqMod /\ wire' = wire
    BY <1>3 DEF Number, Packs
  <2> QED
    BY <1>1, <2>1 DEF Packed
<1>4. ASSUME NEW t \in Writers, pc[t] = "out", hand' = [hand EXCEPT ![t] = NoFrame],
             wire' = Append(wire, hand[t]) \/ wire' = wire
      PROVE  Packed'
  <2>1. hand[t] \in Frame /\ hand[t].seq < SeqMod
    BY <1>4, HandFrame, HostConstants DEF Packed
  <2>2. \A i \in 1 .. Len(wire') : wire'[i].seq < SeqMod
    BY <1>1, <1>4, <2>1 DEF Packed
  <2>3. \A u \in Writers : hand'[u] = NoFrame \/ hand'[u] = hand[u]
    BY <1>1, <1>4
  <2> QED
    BY <2>2, <2>3 DEF Packed
<1> QED
  BY <1>2, <1>3, <1>4, NumberSteps DEF PackDies, Taken, Refused

LEMMA Below ==
  ASSUME NEW m, m \in Nat, NEW n, n \in 0 .. m - 1, NEW a, a \in Nat, a < n
  PROVE  a \in 0 .. m - 1
OBVIOUS

\* A frame is written by the only writer that was not already past its turn:
\* all other numbers taken are on the wire, lost, or in the other's hand.
LEMMA NextOvertaken ==
  TypeInv /\ EveryNumberOnce /\ OneOvertaken /\ [Next]_vars => OneOvertaken'
<1> SUFFICES ASSUME TypeInv, EveryNumberOnce, OneOvertaken, [Next]_vars PROVE OneOvertaken'
  OBVIOUS
<1>1. hand \in [Writers -> Frame \cup {NoFrame}] /\ wire \in Seq(Frame) /\ Len(wire) \in Nat
  BY DEF TypeInv, TypeOK
<1>2. ASSUME wire' = wire, lost \subseteq lost' PROVE OneOvertaken'
  <2>1. \A i \in 0 .. Len(wire) : Overtaken(i)' \subseteq Overtaken(i)
    BY <1>2 DEF Overtaken
  <2> QED
    BY <1>2, <2>1 DEF OneOvertaken
<1>3. ASSUME NEW t \in Writers, pc[t] = "out", hand' = [hand EXCEPT ![t] = NoFrame], Taken(t)
      PROVE  OneOvertaken'
  <2>1. hand[t] \in Frame /\ wire' = Append(wire, hand[t]) /\ lost' = lost
    BY <1>3, HandFrame DEF Taken
  <2>2. Len(wire') = Len(wire) + 1 /\ wire' \in Seq(Frame)
        /\ \A j \in 1 .. Len(wire) : wire'[j] = wire[j]
    BY <1>1, <2>1
  <2>3. ASSUME NEW i \in 0 .. Len(wire) PROVE \A a, b \in Overtaken(i)' : a = b
    <3>1. \A j \in 1 .. i : wire'[j] = wire[j]
      BY <1>1, <2>2
    <3>2. Overtaken(i)' = Overtaken(i)
      BY <2>1, <3>1 DEF Overtaken
    <3> QED
      BY <3>2 DEF OneOvertaken
  <2>4. ASSUME NEW i \in Nat, i = Len(wire), NEW a \in Overtaken(i + 1)' PROVE a \in HandSeqs'
    <3>1. EveryNumberOnce' /\ TypeInv'
      BY NextOnce, NextTypeInv, HostConstants
    <3>2. /\ a \in Nat /\ a \notin lost'
          /\ \E j \in 1 .. Len(wire') : a < wire'[j].seq
          /\ \A j \in 1 .. Len(wire') : wire'[j].seq # a
      BY <2>2, <2>4 DEF Overtaken
    <3>3. 0 .. txSeq' - 1 = HandSeqs' \cup WireSeqs' \cup lost'
      BY <3>1 DEF EveryNumberOnce
    <3>4. txSeq' \in Nat
      BY <3>1 DEF TypeInv, TypeOK
    <3>5. \A j \in 1 .. Len(wire') : wire'[j].seq \in WireSeqs'
      BY DEF WireSeqs
    <3>6. a \in 0 .. txSeq' - 1
      <4>1. PICK j \in 1 .. Len(wire') : a < wire'[j].seq
        BY <3>2
      <4>2. wire'[j].seq \in 0 .. txSeq' - 1
        BY <3>3, <3>5
      <4>3. a \in Nat
        BY <3>2
      <4> QED
        BY <3>4, <4>1, <4>2, <4>3, Below
    <3>7. a \notin WireSeqs'
      BY <3>2 DEF WireSeqs
    <3> QED
      BY <3>2, <3>3, <3>6, <3>7
  <2>5. \A a, b \in HandSeqs' : a = b
    <3>1. hand'[t] = NoFrame
      BY <1>1, <1>3
    <3> QED
      BY <3>1, Names DEF HandSeqs
  <2>6. ASSUME NEW i \in 0 .. Len(wire)' PROVE \A a, b \in Overtaken(i)' : a = b
    <3>1. i \in 0 .. Len(wire) \/ (Len(wire) \in Nat /\ i = Len(wire) + 1)
      BY <1>1, <2>2
    <3> QED
      BY <2>3, <2>4, <2>5, <3>1
  <2> QED
    BY <2>6 DEF OneOvertaken
<1> QED
  BY <1>2, <1>3, NumberSteps DEF Number, PackDies, Taken, Refused

LEMMA InitOvertaken == Init => Packed /\ OneOvertaken
BY DEF Init, Packed, OneOvertaken, Overtaken

\* At any point of the wire at most one number is still to come that a greater
\* one has passed: the lock is free while a frame is written, but there are
\* only two writers and each finishes its frame before it numbers another.
THEOREM HostOvertakesByOne == Spec => [](Packed /\ OneOvertaken)
<1>1. Spec => []TypeInv
  BY InitTypeInv, NextTypeInv, HostConstants, PTL DEF Spec
<1> QED
  BY <1>1, InitOvertaken, NextPacked, NextOvertaken, HostNumbersConserved, HostConstants, PTL DEF Spec

\* What a composition with this daemon may rely on.
HostInv == /\ TypeInv /\ EveryNumberOnce /\ OrderInv /\ OfSomeCall
           /\ Packed /\ OneOvertaken

LEMMA HostInvariants == Spec => []HostInv
<1>1. Spec => []TypeInv
  BY InitTypeInv, NextTypeInv, HostConstants, PTL DEF Spec
<1>2. Init => OrderInv
  BY Names DEF Init, OrderInv, DataInOrder, NoPayload
<1>3. Spec => []OrderInv
  BY <1>1, <1>2, NextOrder, HostConstants, PTL DEF Spec
<1>4. Spec => []OfSomeCall
  BY <1>1, <1>3, InitOfSomeCall, NextOfSomeCall, HostConstants, PTL DEF Spec
<1> QED
  BY <1>1, <1>3, <1>4, HostNumbersConserved, HostOvertakesByOne, HostConstants, PTL DEF HostInv
=============================================================================
