----------------------------- MODULE UdfNodeProofs -----------------------------
(***************************************************************************)
(* Proofs about the dual-cable node, for any number of application threads *)
(* and neighbours, any frames received, and any bound on numbers, reads    *)
(* and start() calls.                                                      *)
(***************************************************************************)
EXTENDS UdfNode, FiniteSetTheorems, SequenceTheorems, TLAPS

(* Sequences.                                                               *)

LEMMA AppendRight ==
  ASSUME NEW S, NEW a \in Seq(S), NEW d \in Seq(S), NEW x \in S
  PROVE  a \o Append(d, x) = Append(a \o d, x)
<1>1. Append(d, x) = d \o <<x>> /\ <<x>> \in Seq(S) /\ a \o d \in Seq(S)
  BY AppendIsConcat, ConcatProperties
<1>2. Append(a \o d, x) = (a \o d) \o <<x>>
  BY <1>1, AppendIsConcat
<1> QED
  BY <1>1, <1>2, ConcatAssociative

LEMMA HeadFirst ==
  ASSUME NEW S, NEW a \in Seq(S), NEW d \in Seq(S), d # <<>>
  PROVE  (a \o <<Head(d)>>) \o Tail(d) = a \o d
<1>1. Head(d) \in S /\ Tail(d) \in Seq(S) /\ <<Head(d)>> \in Seq(S)
  BY HeadTailProperties
<1>2. <<Head(d)>> \o Tail(d) = d
  BY <1>1
<1> QED
  BY <1>1, <1>2, ConcatAssociative

LEMMA ConcatParts ==
  ASSUME NEW S, NEW a \in Seq(S), NEW b \in Seq(S), NEW m, NEW n, Len(a) = m, Len(b) = n
  PROVE  /\ a \o b \in Seq(S) /\ m \in Nat /\ n \in Nat /\ Len(a \o b) = m + n
         /\ \A i \in 1 .. m + n : (a \o b)[i] = IF i <= m THEN a[i] ELSE b[i - m]
OBVIOUS

LEMMA ConcatThree ==
  ASSUME NEW S, NEW a \in Seq(S), NEW b \in Seq(S), NEW c \in Seq(S), NEW w, w = (a \o b) \o c
  PROVE  /\ w \in Seq(S) /\ Len(w) = Len(a) + Len(b) + Len(c)
         /\ \A i \in 1 .. Len(a) : w[i] = a[i]
         /\ \A i \in 1 .. Len(b) : w[Len(a) + i] = b[i]
         /\ \A i \in 1 .. Len(c) : w[Len(a) + Len(b) + i] = c[i]
<1> DEFINE A == Len(a)  B == Len(b)  C == Len(c)  u == a \o b  m == A + B
<1>1. A \in Nat /\ B \in Nat /\ C \in Nat
  OBVIOUS
<1>2. u \in Seq(S) /\ Len(u) = m /\ \A i \in 1 .. m : u[i] = IF i <= A THEN a[i] ELSE b[i - A]
  BY ConcatParts
<1>3. w = u \o c
  OBVIOUS
<1> HIDE DEF u
<1>4. /\ u \o c \in Seq(S) /\ Len(u \o c) = m + C
      /\ \A i \in 1 .. m + C : (u \o c)[i] = IF i <= m THEN u[i] ELSE c[i - m]
  <2>1. u \in Seq(S) /\ Len(u) = m /\ Len(c) = C
    BY <1>2
  <2> HIDE DEF m, C
  <2> QED
    BY <2>1, ConcatParts
<1>5. /\ w \in Seq(S) /\ Len(w) = m + C /\ \A i \in 1 .. m : w[i] = u[i]
      /\ \A i \in m + 1 .. m + C : w[i] = c[i - m]
  BY <1>1, <1>3, <1>4
<1>6. \A i \in 1 .. A : w[i] = a[i]
  BY <1>1, <1>2, <1>5
<1>7. ASSUME NEW i \in 1 .. B PROVE w[A + i] = b[i]
  <2>1. A + i \in 1 .. m /\ ~(A + i <= A) /\ (A + i) - A = i
    BY <1>1
  <2> QED
    BY <1>2, <1>5, <2>1
<1>8. ASSUME NEW i \in 1 .. C PROVE w[m + i] = c[i]
  <2>1. m + i \in m + 1 .. m + C /\ (m + i) - m = i
    BY <1>1
  <2> QED
    BY <1>5, <2>1
<1> QED
  BY <1>5, <1>6, <1>7, <1>8

\* Where the elements come from when the one after A + B others moves to the
\* place after the first A: each is found again.
Rotated(A, B, n) == [i \in 1 .. n |-> IF i = A + 1 THEN A + B + 1
                                      ELSE IF i \in A + 2 .. A + 1 + B THEN i - 1 ELSE i]

Permutes(g, n) == /\ g \in [1 .. n -> 1 .. n]
                  /\ \A i, j \in 1 .. n : g[i] = g[j] => i = j
                  /\ \A j \in 1 .. n : \E i \in 1 .. n : g[i] = j

LEMMA RotationPermutes ==
  ASSUME NEW A \in Nat, NEW B \in Nat, NEW n \in Nat, A + B + 1 <= n
  PROVE  Permutes(Rotated(A, B, n), n)
<1> DEFINE g == Rotated(A, B, n)
<1>1. g \in [1 .. n -> 1 .. n]
  BY DEF Rotated
<1>2. \A i, j \in 1 .. n : g[i] = g[j] => i = j
  BY DEF Rotated
<1>3. \A j \in 1 .. n : \E i \in 1 .. n : g[i] = j
  <2> SUFFICES ASSUME NEW j \in 1 .. n PROVE \E i \in 1 .. n : g[i] = j
    OBVIOUS
  <2> DEFINE i == IF j = A + B + 1 THEN A + 1 ELSE IF j \in A + 1 .. A + B THEN j + 1 ELSE j
  <2>1. i \in 1 .. n /\ g[i] = j
    BY DEF Rotated
  <2> QED
    BY <2>1
<1> QED
  BY <1>1, <1>2, <1>3 DEF Permutes

Rearranged(new, old) ==
  /\ Len(new) = Len(old) /\ Len(old) \in Nat
  /\ \E g : Permutes(g, Len(old)) /\ \A i \in 1 .. Len(old) : new[i] = old[g[i]]

LEMMA MoveForward ==
  ASSUME NEW S, NEW a \in Seq(S), NEW b \in Seq(S), NEW c \in Seq(S), NEW x \in S
  PROVE  Rearranged(Append(a, x) \o b \o <<>> \o c, a \o b \o <<x>> \o c)
<1> DEFINE A == Len(a)  B == Len(b)  C == Len(c)  q == Append(a, x)  y == <<x>>  v == a \o b
           old == a \o b \o <<x>> \o c  new == Append(a, x) \o b \o <<>> \o c
<1>1. A \in Nat /\ B \in Nat /\ C \in Nat /\ Len(a) = A /\ Len(b) = B /\ Len(c) = C
  OBVIOUS
<1>2. q \in Seq(S) /\ Len(q) = A + 1 /\ q[A + 1] = x /\ \A i \in 1 .. A : q[i] = a[i]
  OBVIOUS
<1>3. y \in Seq(S) /\ Len(y) = 1 /\ y[1] = x
  OBVIOUS
<1>4. old = (v \o y) \o c /\ new = (q \o b) \o c
  <2>1. (q \o b) \o <<>> = q \o b
    BY <1>2, ConcatEmptySeq, ConcatProperties
  <2> QED
    BY <2>1
<1> HIDE DEF q, y, v, old, new
<1>5. v \in Seq(S) /\ Len(v) = A + B /\ \A i \in 1 .. A + B : v[i] = IF i <= A THEN a[i] ELSE b[i - A]
  BY ConcatParts DEF v
<1> HIDE DEF A, B, C
<1>6. /\ Len(old) = A + B + 1 + C
      /\ \A i \in 1 .. A + B : old[i] = v[i]
      /\ \A i \in 1 .. 1 : old[A + B + i] = y[i]
      /\ \A i \in 1 .. C : old[A + B + 1 + i] = c[i]
  <2>1. /\ Len(old) = Len(v) + Len(y) + Len(c)
        /\ \A i \in 1 .. Len(v) : old[i] = v[i]
        /\ \A i \in 1 .. Len(y) : old[Len(v) + i] = y[i]
        /\ \A i \in 1 .. Len(c) : old[Len(v) + Len(y) + i] = c[i]
    <3>1. v \in Seq(S) /\ y \in Seq(S) /\ c \in Seq(S) /\ old = (v \o y) \o c
      BY <1>3, <1>4, <1>5
    <3> QED
      BY <3>1, ConcatThree
  <2> QED
    BY <1>1, <1>3, <1>5, <2>1
<1>7. /\ Len(new) = A + 1 + B + C
      /\ \A i \in 1 .. A + 1 : new[i] = q[i]
      /\ \A i \in 1 .. B : new[A + 1 + i] = b[i]
      /\ \A i \in 1 .. C : new[A + 1 + B + i] = c[i]
  <2>1. /\ Len(new) = Len(q) + Len(b) + Len(c)
        /\ \A i \in 1 .. Len(q) : new[i] = q[i]
        /\ \A i \in 1 .. Len(b) : new[Len(q) + i] = b[i]
        /\ \A i \in 1 .. Len(c) : new[Len(q) + Len(b) + i] = c[i]
    <3>1. q \in Seq(S) /\ b \in Seq(S) /\ c \in Seq(S) /\ new = (q \o b) \o c
      BY <1>2, <1>4
    <3> QED
      BY <3>1, ConcatThree
  <2> QED
    BY <1>1, <1>2, <2>1
<1>8. \A i \in 1 .. A : old[i] = a[i] /\ new[i] = a[i]
  BY <1>1, <1>2, <1>5, <1>6, <1>7
<1>9. ASSUME NEW i \in 1 .. B PROVE old[A + i] = b[i] /\ new[A + 1 + i] = b[i]
  <2>1. A + i \in 1 .. A + B /\ ~(A + i <= A) /\ (A + i) - A = i
    BY <1>1
  <2> QED
    BY <1>5, <1>6, <1>7, <2>1
<1>10. ASSUME NEW i \in 1 .. C PROVE old[A + B + 1 + i] = c[i] /\ new[A + B + 1 + i] = c[i]
  <2>1. A + 1 + B + i = A + B + 1 + i
    BY <1>1
  <2> QED
    BY <1>6, <1>7, <2>1
<1>11. old[A + B + 1] = x /\ new[A + 1] = x
  <2>1. A + 1 \in 1 .. A + 1 /\ 1 \in 1 .. 1
    BY <1>1
  <2> QED
    BY <1>2, <1>3, <1>6, <1>7, <2>1
<1>12. Len(old) = A + B + 1 + C /\ Len(new) = A + B + 1 + C /\ Len(old) \in Nat
  BY <1>1, <1>6, <1>7
<1>13. \E g : Permutes(g, Len(old)) /\ \A i \in 1 .. Len(old) : new[i] = old[g[i]]
  <2> DEFINE n == Len(old)  g == Rotated(A, B, n)
  <2>1. n = A + B + 1 + C /\ n \in Nat /\ A + B + 1 <= n
    BY <1>1, <1>12
  <2> HIDE DEF n
  <2>2. \A i \in 1 .. n : new[i] = old[g[i]]
    <3> SUFFICES ASSUME NEW i \in 1 .. n PROVE new[i] = old[g[i]]
      OBVIOUS
    <3>1. CASE i \in 1 .. A
      BY <1>1, <1>8, <2>1, <3>1 DEF Rotated
    <3>2. CASE i = A + 1
      BY <1>1, <1>11, <2>1, <3>2 DEF Rotated
    <3>3. CASE i \in A + 2 .. A + 1 + B
      <4> DEFINE k == i - A - 1
      <4>1. k \in 1 .. B /\ i = A + 1 + k /\ g[i] = A + k
        BY <1>1, <2>1, <3>3 DEF Rotated
      <4> QED
        BY <1>9, <4>1
    <3>4. CASE i \in A + B + 2 .. n
      <4> DEFINE k == i - A - B - 1
      <4>1. k \in 1 .. C /\ i = A + B + 1 + k /\ g[i] = i
        BY <1>1, <2>1, <3>4 DEF Rotated
      <4> QED
        BY <1>10, <4>1
    <3>5. i \in 1 .. A \/ i = A + 1 \/ i \in A + 2 .. A + 1 + B \/ i \in A + B + 2 .. n
      BY <1>1, <2>1
    <3> QED
      BY <3>1, <3>2, <3>3, <3>4, <3>5
  <2>3. Permutes(g, n)
    BY <1>1, <2>1, RotationPermutes
  <2> QED
    BY <2>2, <2>3 DEF n
<1> QED
  BY <1>12, <1>13 DEF old, new, Rearranged

\* One element leaves, the others keep their order.
Thinned(new, old) ==
  /\ Len(new) \in Nat /\ Len(old) \in Nat
  /\ \E g \in [1 .. Len(new) -> 1 .. Len(old)] :
       /\ \A i, j \in 1 .. Len(new) : i < j => g[i] < g[j]
       /\ \A i \in 1 .. Len(new) : new[i] = old[g[i]]

LEMMA TakeOut ==
  ASSUME NEW S, NEW b \in Seq(S), NEW c \in Seq(S), NEW x \in S
  PROVE  Thinned(b \o <<>> \o c, b \o <<x>> \o c)
<1> DEFINE B == Len(b)  C == Len(c)  y == <<x>>
           old == b \o <<x>> \o c  new == b \o <<>> \o c
<1>1. B \in Nat /\ C \in Nat /\ Len(b) = B /\ Len(c) = C
  OBVIOUS
<1>2. y \in Seq(S) /\ Len(y) = 1
  OBVIOUS
<1>3. old = (b \o y) \o c /\ new = b \o c
  BY ConcatEmptySeq
<1> HIDE DEF y, old, new, B, C
<1>4. /\ Len(old) = B + 1 + C /\ \A i \in 1 .. B : old[i] = b[i]
      /\ \A i \in 1 .. C : old[B + 1 + i] = c[i]
  <2>1. b \in Seq(S) /\ y \in Seq(S) /\ c \in Seq(S) /\ old = (b \o y) \o c
    BY <1>2, <1>3
  <2>2. /\ Len(old) = Len(b) + Len(y) + Len(c)
        /\ \A i \in 1 .. Len(b) : old[i] = b[i]
        /\ \A i \in 1 .. Len(c) : old[Len(b) + Len(y) + i] = c[i]
    BY <2>1, ConcatThree
  <2> QED
    BY <1>1, <1>2, <2>2
<1>5. Len(new) = B + C /\ \A i \in 1 .. B + C : new[i] = IF i <= B THEN b[i] ELSE c[i - B]
  <2>1. /\ Len(b \o c) = B + C
        /\ \A i \in 1 .. B + C : (b \o c)[i] = IF i <= B THEN b[i] ELSE c[i - B]
    BY <1>1, ConcatParts
  <2> QED
    BY <1>3, <2>1
<1> DEFINE g == [i \in 1 .. Len(new) |-> IF i <= B THEN i ELSE i + 1]
<1>6. Len(new) \in Nat /\ Len(old) \in Nat
  BY <1>1, <1>4, <1>5
<1>7. g \in [1 .. Len(new) -> 1 .. Len(old)]
  BY <1>1, <1>4, <1>5
<1>8. \A i, j \in 1 .. Len(new) : i < j => g[i] < g[j]
  BY <1>1, <1>5
<1>9. ASSUME NEW i \in 1 .. Len(new) PROVE new[i] = old[g[i]]
  <2>1. CASE i <= B
    BY <1>1, <1>4, <1>5, <2>1
  <2>2. CASE ~(i <= B)
    <3> DEFINE k == i - B
    <3>1. k \in 1 .. C /\ g[i] = B + 1 + k /\ new[i] = c[k]
      BY <1>1, <1>5, <2>2
    <3> QED
      BY <1>4, <3>1
  <2> QED
    BY <2>1, <2>2
<1> HIDE DEF g
<1>10. Thinned(new, old)
  BY <1>6, <1>7, <1>8, <1>9 DEF Thinned
<1> QED
  BY <1>10 DEF old, new

-----------------------------------------------------------------------------
(* The invariant the proofs rest on.                                        *)

Places == {"off", "ready", "top", "put", "count", "read", "route",
           "get", "write", "beat", "done", "dead"}

\* Where a thread can stand.
Legal(t) ==
  CASE t \in Senders   -> {"ready", "put", "count", "dead"}
    [] t \in RxThreads -> {"off", "top", "read", "route", "put", "count", "done", "dead"}
    [] t = "tx"        -> {"off", "top", "get", "write", "done"}
    [] OTHER           -> {"off", "top", "beat", "done", "dead"}

\* A thread holds a frame exactly where its code has one at hand, a producer
\* only its own; and between stop() and start() no thread of the node runs.
Control ==
  /\ phase = "idle" => \A t \in Own : pc[t] \in Over
  /\ \A t \in Threads : pc[t] \in Legal(t)
  /\ \A p \in Producers : (pc[p] = "put" <=> hand[p] # NoFrame)
                          /\ (hand[p] # NoFrame => hand[p].by = p)
  /\ \A r \in RxThreads : pc[r] = "route" <=> rxHand[r] # NoFrame
  /\ pc["tx"] = "write" <=> taken # NoFrame

TypeInv == TypeOK /\ Control

USE NodeConstants

LEMMA Names ==
  /\ RxThreads = {"gadgetRx", "hostRx"} /\ Own = {"gadgetRx", "hostRx", "tx", "hb"}
  /\ Threads = Senders \cup Own /\ Producers = Senders \cup RxThreads
  /\ Producers \subseteq Threads /\ "tx" \in Threads \ Producers /\ "hb" \in Threads \ Producers
  /\ Senders \cap RxThreads = {} /\ "tx" \notin Senders /\ "hb" \notin Senders
BY DEF RxThreads, Own, Threads, Producers

LEMMA LegalPlaces ==
  /\ \A t : Legal(t) \subseteq Places
  /\ \A s \in Senders : Legal(s) = {"ready", "put", "count", "dead"}
  /\ \A r \in RxThreads :
       Legal(r) = {"off", "top", "read", "route", "put", "count", "done", "dead"}
  /\ Legal("tx") = {"off", "top", "get", "write", "done"}
  /\ Legal("hb") = {"off", "top", "beat", "done", "dead"}
BY Names DEF Legal, Places

LEMMA InitTypeInv == Init => TypeInv
<1> SUFFICES ASSUME Init PROVE TypeInv
  OBVIOUS
<1>1. /\ txQueue \in Seq(Packet) /\ wire \in Seq(Packet) /\ gone \in Seq(Packet)
      /\ rxQueue \in Seq(Frame)
  BY DEF Init
<1>2. seqHostTx \in Nat /\ burned \in SUBSET (0 .. seqHostTx - 1)
  BY DEF Init
<1>3. TypeOK
  BY <1>1, <1>2 DEF Init, TypeOK
<1>4. \A t \in Threads : pc[t] \in Legal(t)
  BY LegalPlaces, Names DEF Init
<1>5. \A t \in Own : pc[t] \in Over
  BY Names DEF Init, Over
<1>6. \A t \in Threads : pc[t] \in {"ready", "off"}
  BY DEF Init
<1>7. Control
  BY <1>4, <1>5, <1>6, Names DEF Init, Control
<1> QED
  BY <1>3, <1>7 DEF TypeInv

-----------------------------------------------------------------------------
(* TypeOK.                                                                  *)

\* One thread moves, and holds there what its code has at hand.
LEMMA MoveControl ==
  ASSUME TypeInv, NEW t \in Threads, NEW l \in Legal(t), Goto(t, l),
         t \in Senders \/ pc[t] \notin Over, phase' = phase \/ phase' # "idle",
         t \in Producers => /\ l = "put" <=> hand'[t] # NoFrame
                            /\ hand'[t] # NoFrame => hand'[t].by = t,
         \A p \in Producers \ {t} : hand'[p] = hand[p],
         t \in RxThreads => (l = "route" <=> rxHand'[t] # NoFrame),
         \A r \in RxThreads \ {t} : rxHand'[r] = rxHand[r],
         t = "tx" => (l = "write" <=> taken' # NoFrame), t # "tx" => taken' = taken
  PROVE  pc' \in [Threads -> Places] /\ Control'
<1>1. pc \in [Threads -> Places] /\ pc' = [pc EXCEPT ![t] = l] /\ l \in Places
  BY LegalPlaces DEF TypeInv, TypeOK, Places, Goto
<1>2. pc'[t] = l /\ \A u \in Threads \ {t} : pc'[u] = pc[u]
  BY <1>1
<1>3. phase' = "idle" => \A u \in Own : pc'[u] \in Over
  BY <1>2, Names DEF TypeInv, Control
<1>4. \A u \in Threads : pc'[u] \in Legal(u)
  BY <1>2 DEF TypeInv, Control
<1>5. \A p \in Producers : (pc'[p] = "put" <=> hand'[p] # NoFrame)
                           /\ (hand'[p] # NoFrame => hand'[p].by = p)
  BY <1>2, Names DEF TypeInv, Control
<1>6. \A r \in RxThreads : pc'[r] = "route" <=> rxHand'[r] # NoFrame
  BY <1>2, Names DEF TypeInv, Control
<1>7. pc'["tx"] = "write" <=> taken' # NoFrame
  BY <1>2, Names DEF TypeInv, Control
<1> QED
  BY <1>1, <1>3, <1>4, <1>5, <1>6, <1>7 DEF Control

\* One thread moves with empty hands.
LEMMA QuietControl ==
  ASSUME TypeInv, NEW t \in Threads, NEW l \in Legal(t), Goto(t, l),
         t \in Senders \/ pc[t] \notin Over, phase' = phase \/ phase' # "idle",
         l \notin {"put", "route", "write"}, pc[t] \notin {"put", "route", "write"},
         UNCHANGED <<hand, rxHand, taken>>
  PROVE  pc' \in [Threads -> Places] /\ Control'
<1>1. /\ t \in Producers => hand[t] = NoFrame
      /\ t \in RxThreads => rxHand[t] = NoFrame
      /\ t = "tx" => taken = NoFrame
  BY DEF TypeInv, Control
<1> QED
  BY <1>1, MoveControl

LEMMA MainTypeInv == TypeInv /\ MainNext => TypeInv'
<1> SUFFICES ASSUME TypeInv, MainNext PROVE TypeInv'
  OBVIOUS
<1> USE DEF mainVars, seqVars, rxCounts, rxVars, dropVars, countVars, outVars
<1>1. TypeOK /\ Control /\ pc \in [Threads -> Places]
  BY DEF TypeInv, TypeOK, Places
<1>2. \A plugged : Opened(plugged) \in [Cables -> {"none", "open", "stale"}]
  BY <1>1 DEF TypeOK, Opened
<1>3. ASSUME NEW plugged, Start(plugged) PROVE TypeInv'
  <2>1. /\ phase = "idle" /\ phase' = "up" /\ running' = TRUE /\ starts' = starts + 1
        /\ fd' = Opened(plugged) /\ pc' = [t \in Threads |-> IF t \in Own THEN "top" ELSE pc[t]]
        /\ UNCHANGED <<lockHeld, seqVars, txQueue, rxVars, dropVars, countVars, outVars>>
    BY <1>3 DEF Start
  <2>2. TypeOK'
    <3>1. pc' \in [Threads -> Places] /\ starts' \in Nat /\ (lockHeld' => phase' = "joining")
      BY <1>1, <2>1 DEF TypeOK, Places
    <3> QED
      BY <1>1, <1>2, <2>1, <3>1 DEF TypeOK, Places
  <2>3. \A t \in Own : pc[t] \notin {"put", "route", "write"}
    BY <1>1, <2>1 DEF Control, Over
  <2>4. Control'
    <3>1. \A t \in Threads : pc'[t] \in Legal(t)
      BY <1>1, <2>1, LegalPlaces, Names DEF Control
    <3> QED
      BY <1>1, <2>1, <2>3, <3>1, Names DEF Control
  <2> QED
    BY <2>2, <2>4 DEF TypeInv
<1>4. ASSUME NEW plugged, StartFails(plugged) PROVE TypeInv'
  <2>1. TypeOK'
    BY <1>1, <1>2, <1>4 DEF StartFails, TypeOK
  <2>2. Control'
    BY <1>1, <1>4 DEF StartFails, Control
  <2> QED
    BY <2>1, <2>2 DEF TypeInv
<1>5. CASE StopFlag
  <2>1. TypeOK'
    BY <1>1, <1>5 DEF StopFlag, TypeOK
  <2>2. Control'
    BY <1>1, <1>5 DEF StopFlag, Control
  <2> QED
    BY <2>1, <2>2 DEF TypeInv
<1>6. CASE StopClose
  <2>1. fd' \in [Cables -> {"none", "open", "stale"}]
    BY <1>6 DEF StopClose
  <2>2. TypeOK'
    BY <1>1, <1>6, <2>1 DEF StopClose, TypeOK
  <2>3. Control'
    BY <1>1, <1>6 DEF StopClose, Joined, Control
  <2> QED
    BY <2>2, <2>3 DEF TypeInv
<1>7. ASSUME NEW s \in OnMain, Interrupt(s) PROVE TypeInv'
  <2>1. s \in Senders /\ s \in Threads /\ s \notin RxThreads /\ s # "tx"
    BY Names
  <2>2. /\ pc[s] \in {"ready", "count"} /\ Goto(s, "dead") /\ phase' = "joining" /\ lockHeld' = TRUE
        /\ running' = FALSE /\ UNCHANGED <<fd, starts, txQueue, rxVars, dropVars, outVars, hand>>
        /\ seqHostTx' \in {seqHostTx, seqHostTx + 1} /\ forwarded' = forwarded
        /\ \/ seqHostTx' = seqHostTx /\ burned' = burned
           \/ seqHostTx' = seqHostTx + 1 /\ burned' = burned \cup {seqHostTx}
        /\ framesTx' \in {framesTx, framesTx + 1}
    BY <1>7 DEF Interrupt, PackFails, NextSeq
  <2>3. pc' \in [Threads -> Places] /\ Control'
    BY <2>1, <2>2, QuietControl, LegalPlaces
  <2>4. seqHostTx' \in Nat /\ burned' \in SUBSET (0 .. seqHostTx' - 1) /\ framesTx' \in Nat
    <3>1. seqHostTx \in Nat /\ burned \in SUBSET (0 .. seqHostTx - 1) /\ framesTx \in Nat
      BY <1>1 DEF TypeOK
    <3>2. /\ seqHostTx + 1 \in Nat /\ burned \in SUBSET (0 .. (seqHostTx + 1) - 1)
          /\ burned \cup {seqHostTx} \in SUBSET (0 .. (seqHostTx + 1) - 1)
      BY <3>1
    <3>3. framesTx' \in Nat
      BY <2>2, <3>1
    <3>4. CASE seqHostTx' = seqHostTx /\ burned' = burned
      BY <3>1, <3>3, <3>4
    <3>5. CASE seqHostTx' = seqHostTx + 1 /\ burned' = burned \cup {seqHostTx}
      BY <3>2, <3>3, <3>5
    <3> QED
      BY <2>2, <3>4, <3>5
  <2> QED
    BY <1>1, <2>2, <2>3, <2>4 DEF TypeInv, TypeOK, Places
<1> QED
  BY <1>3, <1>4, <1>5, <1>6, <1>7 DEF MainNext

\* A number is taken and its frame packed, or the number is burned.
LEMMA PackType ==
  ASSUME TypeInv, NEW p \in Producers, NEW f \in Frame, Pack(p, f)
  PROVE  /\ seqHostTx' \in Nat /\ burned' \in SUBSET (0 .. seqHostTx' - 1)
         /\ hand' \in [Producers -> Packet \cup {NoFrame}]
         /\ hand'[p] # NoFrame /\ hand'[p].by = p
         /\ \A q \in Producers \ {p} : hand'[q] = hand[q]
<1>1. seqHostTx \in Nat /\ burned \in SUBSET (0 .. seqHostTx - 1)
      /\ hand \in [Producers -> Packet \cup {NoFrame}]
  BY DEF TypeInv, TypeOK
<1> DEFINE k == [by |-> p, seq |-> seqHostTx, frame |-> f]
<1>2. k \in Packet /\ k.by = p
  BY <1>1 DEF Packet
<1>3. hand' = [hand EXCEPT ![p] = k] /\ seqHostTx' = seqHostTx + 1 /\ burned' = burned
  BY DEF Pack, NextSeq
<1> HIDE DEF k
<1> QED
  BY <1>1, <1>2, <1>3

LEMMA PackFailsType ==
  ASSUME TypeInv, PackFails
  PROVE  seqHostTx' \in Nat /\ burned' \in SUBSET (0 .. seqHostTx' - 1) /\ hand' = hand
BY DEF TypeInv, TypeOK, PackFails, NextSeq

LEMMA AppTypeInv == TypeInv /\ AppNext => TypeInv'
<1> SUFFICES ASSUME TypeInv, AppNext PROVE TypeInv'
  OBVIOUS
<1> USE DEF mainVars, seqVars, rxCounts, rxVars, dropVars, countVars, outVars
<1>1. TypeOK /\ Control /\ pc \in [Threads -> Places]
  BY DEF TypeInv, TypeOK, Places
<1>2. CASE Recv
  <2>1. rxQueue' \in Seq(Frame) /\ recvd' \in Nat
    BY <1>1, <1>2 DEF Recv, TypeOK
  <2>2. TypeOK'
    BY <1>1, <1>2, <2>1 DEF Recv, TypeOK
  <2>3. Control'
    BY <1>1, <1>2 DEF Recv, Control
  <2> QED
    BY <2>2, <2>3 DEF TypeInv
<1>3. ASSUME NEW s \in Senders, SendFails(s) PROVE TypeInv'
  <2>1. TypeOK'
    BY <1>1, <1>3, PackFailsType DEF SendFails, TypeOK
  <2>2. Control'
    BY <1>1, <1>3, PackFailsType DEF SendFails, Control
  <2> QED
    BY <2>1, <2>2 DEF TypeInv
<1>4. ASSUME NEW s \in Senders, NEW d \in Peers, Send(s, d) PROVE TypeInv'
  <2>1. Data(d) \in Frame
    BY DEF Data, Frame, Dest
  <2>2. /\ s \in Producers /\ s \in Threads /\ s \notin RxThreads /\ s # "tx" /\ "put" \in Legal(s)
    BY Names, LegalPlaces
  <2>3. Pack(s, Data(d)) /\ Goto(s, "put")
        /\ UNCHANGED <<mainVars, txQueue, rxVars, dropVars, countVars, outVars>>
    BY <1>4 DEF Send, Pack
  <2>4. /\ seqHostTx' \in Nat /\ burned' \in SUBSET (0 .. seqHostTx' - 1)
        /\ hand' \in [Producers -> Packet \cup {NoFrame}]
        /\ hand'[s] # NoFrame /\ hand'[s].by = s
        /\ \A q \in Producers \ {s} : hand'[q] = hand[q]
    BY <2>1, <2>2, <2>3, PackType
  <2>5. pc' \in [Threads -> Places] /\ Control'
    BY <2>2, <2>3, <2>4, MoveControl
  <2> QED
    BY <1>1, <2>3, <2>4, <2>5 DEF TypeInv, TypeOK, Places
<1> QED
  BY <1>2, <1>3, <1>4 DEF AppNext

LEMMA QueueingTypeInv == TypeInv /\ Queueing => TypeInv'
<1> SUFFICES ASSUME TypeInv, NEW p \in Producers, Put(p) \/ Count(p) PROVE TypeInv'
  BY DEF Queueing
<1> USE DEF mainVars, seqVars, rxCounts, rxVars, dropVars, countVars, outVars
<1>1. TypeOK /\ Control /\ pc \in [Threads -> Places]
  BY DEF TypeInv, TypeOK, Places
<1>2. p \in Threads /\ p # "tx" /\ "count" \in Legal(p)
      /\ (IF p \in Senders THEN "ready" ELSE "top") \in Legal(p)
      /\ (p \in Senders \/ pc[p] \notin Over \/ pc[p] \notin {"put", "count"})
  BY Names, LegalPlaces DEF Over
<1>3. CASE Put(p)
  <2>1. hand[p] \in Packet
    BY <1>1, <1>3 DEF Put, Control, TypeOK
  <2>2. txQueue' \in Seq(Packet)
    BY <1>1, <1>3, <2>1 DEF Put, TypeOK
  <2>3. /\ hand' \in [Producers -> Packet \cup {NoFrame}] /\ hand'[p] = NoFrame
        /\ \A q \in Producers \ {p} : hand'[q] = hand[q]
    BY <1>1, <1>3 DEF Put, TypeOK
  <2>4. p \in RxThreads => rxHand[p] = NoFrame
    BY <1>1, <1>3 DEF Put, Control
  <2>5. pc' \in [Threads -> Places] /\ Control'
    BY <1>2, <1>3, <2>3, <2>4, MoveControl DEF Put
  <2> QED
    BY <1>1, <1>3, <2>2, <2>3, <2>5 DEF Put, TypeInv, TypeOK, Places
<1>4. CASE Count(p)
  <2>1. pc' \in [Threads -> Places] /\ Control'
    <3> DEFINE l == IF p \in Senders THEN "ready" ELSE "top"
    <3>1. Goto(p, l) /\ pc[p] = "count" /\ UNCHANGED <<phase, hand, rxHand, taken>>
      BY <1>4 DEF Count
    <3>2. l \in Legal(p) /\ l \notin {"put", "route", "write"}
      BY <1>2
    <3> HIDE DEF l
    <3> QED
      BY <1>2, <3>1, <3>2, QuietControl
  <2>2. framesTx' \in Nat /\ forwarded' \in Nat
    BY <1>1, <1>4 DEF Count, TypeOK
  <2> QED
    BY <1>1, <1>4, <2>1, <2>2 DEF Count, TypeInv, TypeOK, Places
<1> QED
  BY <1>3, <1>4

LEMMA LoopTestTypeInv ==
  ASSUME TypeInv, NEW t \in Own, NEW body \in Legal(t), body \in {"read", "get", "beat"},
         LoopTest(t, body)
  PROVE  TypeInv'
<1> USE DEF mainVars, seqVars, rxCounts, rxVars, dropVars, countVars, outVars
<1> DEFINE l == IF running THEN body ELSE "done"
<1>1. Goto(t, l) /\ pc[t] = "top"
      /\ UNCHANGED <<mainVars, seqVars, txQueue, rxVars, dropVars, countVars, outVars>>
  BY DEF LoopTest
<1>2. l \in Legal(t) /\ l \notin {"put", "route", "write"} /\ t \in Threads
  BY Names, LegalPlaces
<1> HIDE DEF l
<1>3. pc' \in [Threads -> Places] /\ Control'
  BY <1>1, <1>2, QuietControl DEF Over
<1> QED
  BY <1>1, <1>3 DEF TypeInv, TypeOK, Places

LEMMA TxTypeInv == TypeInv /\ TxNext => TypeInv'
<1> SUFFICES ASSUME TypeInv, TxNext PROVE TypeInv'
  OBVIOUS
<1> USE DEF mainVars, seqVars, rxCounts, rxVars, dropVars, countVars, outVars
<1>1. /\ TypeOK /\ Control /\ "tx" \in Own /\ "tx" \in Threads /\ "tx" \notin Producers
      /\ "tx" \notin RxThreads /\ {"top", "get", "write"} \subseteq Legal("tx")
  BY Names, LegalPlaces DEF TypeInv
<1>2. CASE LoopTest("tx", "get")
  BY <1>1, <1>2, LoopTestTypeInv
<1>3. CASE GetTimesOut
  <2>1. pc' \in [Threads -> Places] /\ Control'
    BY <1>1, <1>3, QuietControl DEF GetTimesOut, Over
  <2> QED
    BY <1>1, <1>3, <2>1 DEF GetTimesOut, TypeInv, TypeOK, Places
<1>4. CASE Get
  <2>1. taken' \in Packet /\ txQueue' \in Seq(Packet)
    BY <1>1, <1>4 DEF Get, TypeOK
  <2>2. taken' # NoFrame
    BY <2>1
  <2>3. pc' \in [Threads -> Places] /\ Control'
    BY <1>1, <1>4, <2>2, MoveControl DEF Get, Over
  <2> QED
    BY <1>1, <1>4, <2>1, <2>3 DEF Get, TypeInv, TypeOK, Places
<1>5. CASE Write \/ WriteFails \/ WriteNowhere
  <2>1. taken \in Packet
    BY <1>1, <1>5 DEF Write, WriteFails, WriteNowhere, Control, TypeOK
  <2>2. /\ pc["tx"] = "write" /\ Goto("tx", "top") /\ taken' = NoFrame
        /\ UNCHANGED <<mainVars, seqVars, txQueue, rxVars, hopDrops, countVars>>
    BY <1>5 DEF Write, WriteFails, WriteNowhere
  <2>3. wire' \in Seq(Packet) /\ gone' \in Seq(Packet)
    <3>1. wire \in Seq(Packet) /\ gone \in Seq(Packet)
      BY <1>1 DEF TypeOK
    <3>2. \/ wire' = Append(wire, taken) /\ gone' = gone
          \/ wire' = wire /\ gone' = Append(gone, taken)
      BY <1>5 DEF Write, WriteFails, WriteNowhere
    <3>3. Append(wire, taken) \in Seq(Packet) /\ Append(gone, taken) \in Seq(Packet)
      BY <2>1, <3>1
    <3> QED
      BY <3>1, <3>2, <3>3
  <2>4. pc' \in [Threads -> Places] /\ Control'
    BY <1>1, <2>2, MoveControl DEF Over
  <2>5. dropped' \in Nat /\ errorDrops' \in Nat
    <3>1. dropped \in Nat /\ errorDrops \in Nat
      BY <1>1 DEF TypeOK
    <3>2. dropped' \in {dropped, dropped + 1} /\ errorDrops' \in {errorDrops, errorDrops + 1}
      BY <1>5 DEF Write, WriteFails, WriteNowhere
    <3> QED
      BY <3>1, <3>2
  <2> QED
    BY <1>1, <2>2, <2>3, <2>4, <2>5 DEF TypeInv, TypeOK, Places
<1> QED
  BY <1>2, <1>3, <1>4, <1>5 DEF TxNext

LEMMA HbTypeInv == TypeInv /\ HbNext => TypeInv'
<1> SUFFICES ASSUME TypeInv, HbNext PROVE TypeInv'
  OBVIOUS
<1> USE DEF mainVars, seqVars, rxCounts, rxVars, dropVars, countVars, outVars
<1>1. /\ TypeOK /\ "hb" \in Own /\ "hb" \in Threads /\ {"beat", "dead"} \subseteq Legal("hb")
  BY Names, LegalPlaces DEF TypeInv
<1>2. CASE Heartbeat
  <2>1. PackFails /\ Goto("hb", "dead") /\ pc["hb"] = "beat"
        /\ UNCHANGED <<mainVars, txQueue, rxVars, dropVars, countVars, outVars>>
    BY <1>2 DEF Heartbeat
  <2>2. seqHostTx' \in Nat /\ burned' \in SUBSET (0 .. seqHostTx' - 1) /\ hand' = hand
    BY <2>1, PackFailsType
  <2>3. pc' \in [Threads -> Places] /\ Control'
    BY <1>1, <2>1, <2>2, QuietControl DEF Over
  <2> QED
    BY <1>1, <2>1, <2>2, <2>3 DEF TypeInv, TypeOK, Places
<1> QED
  BY <1>1, <1>2, LoopTestTypeInv DEF HbNext

LEMMA RxTypeInv == TypeInv /\ (\E r \in RxThreads : RxNext(r)) => TypeInv'
<1> SUFFICES ASSUME TypeInv, NEW r \in RxThreads, RxNext(r) PROVE TypeInv'
  OBVIOUS
<1> USE DEF mainVars, seqVars, rxCounts, rxVars, dropVars, countVars, outVars
<1>1. /\ TypeOK /\ Control /\ r \in Own /\ r \in Threads /\ r \in Producers /\ r # "tx"
      /\ {"top", "read", "route", "put", "dead"} \subseteq Legal(r) /\ r \notin Senders
  BY Names, LegalPlaces DEF TypeInv
<1>2. CASE LoopTest(r, "read")
  BY <1>1, <1>2, LoopTestTypeInv
<1>3. CASE ReadNothing(r)
  <2>1. pc' \in [Threads -> Places] /\ Control'
    BY <1>1, <1>3, QuietControl DEF ReadNothing, Over
  <2> QED
    BY <1>1, <1>3, <2>1 DEF ReadNothing, TypeInv, TypeOK, Places
<1>4. ASSUME NEW f \in Inbound, Read(r, f) PROVE TypeInv'
  <2>1. f \in Frame /\ f # NoFrame /\ hand[r] = NoFrame
    BY <1>1, <1>4 DEF Read, Control
  <2>2. /\ rxHand' \in [RxThreads -> Frame \cup {NoFrame}] /\ rxHand'[r] = f
        /\ \A q \in RxThreads \ {r} : rxHand'[q] = rxHand[q]
    BY <1>1, <1>4, <2>1 DEF Read, TypeOK
  <2>3. pc' \in [Threads -> Places] /\ Control'
    BY <1>1, <1>4, <2>1, <2>2, MoveControl DEF Read, Over
  <2>4. reads' \in Nat /\ framesRx' \in Nat
    BY <1>1, <1>4 DEF Read, TypeOK
  <2> QED
    BY <1>1, <1>4, <2>2, <2>3, <2>4 DEF Read, TypeInv, TypeOK, Places
<1>5. ASSUME pc[r] = "route", Routed(r)
      PROVE  /\ rxHand[r] \in Frame /\ hand[r] = NoFrame
             /\ rxHand' \in [RxThreads -> Frame \cup {NoFrame}] /\ rxHand'[r] = NoFrame
             /\ \A q \in RxThreads \ {r} : rxHand'[q] = rxHand[q]
  BY <1>1, <1>5 DEF Routed, Control, TypeOK
<1>6. ASSUME Deliver(r) \/ HopDrop(r) PROVE TypeInv'
  <2>1. /\ pc[r] = "route" /\ Routed(r) /\ Goto(r, "top")
        /\ UNCHANGED <<mainVars, seqVars, txQueue, framesRx, recvd, reads, diedHolding,
                       errorDrops, countVars, outVars>>
    BY <1>6 DEF Deliver, HopDrop
  <2>2. pc' \in [Threads -> Places] /\ Control'
    BY <1>1, <1>5, <2>1, MoveControl DEF Over
  <2>3. rxQueue' \in Seq(Frame)
    <3>1. rxQueue \in Seq(Frame) /\ rxHand[r] \in Frame
      BY <1>1, <1>5, <2>1 DEF TypeOK
    <3> QED
      BY <1>6, <3>1 DEF Deliver, HopDrop
  <2>4. dropped' \in Nat /\ hopDrops' \in Nat
    <3>1. dropped \in Nat /\ hopDrops \in Nat
      BY <1>1 DEF TypeOK
    <3>2. dropped' \in {dropped, dropped + 1} /\ hopDrops' \in {hopDrops, hopDrops + 1}
      BY <1>6 DEF Deliver, HopDrop
    <3> QED
      BY <3>1, <3>2
  <2> QED
    BY <1>1, <1>5, <2>1, <2>2, <2>3, <2>4 DEF TypeInv, TypeOK, Places
<1>7. CASE Forward(r)
  <2>1. /\ pc[r] = "route" /\ Routed(r) /\ rxHand[r].hop < MaxHop
        /\ Pack(r, Forwarded(rxHand[r])) /\ Goto(r, "put")
        /\ UNCHANGED <<mainVars, txQueue, rxCounts, dropVars, countVars, outVars>>
    BY <1>7 DEF Forward, Pack
  <2>2. Forwarded(rxHand[r]) \in Frame
    <3>1. rxHand[r] \in Frame
      BY <1>5, <2>1
    <3>2. rxHand[r].hop + 1 \in 0 .. 255
      BY <2>1, <3>1 DEF Frame
    <3> QED
      BY <3>1, <3>2 DEF Forwarded, Frame
  <2>3. /\ seqHostTx' \in Nat /\ burned' \in SUBSET (0 .. seqHostTx' - 1)
        /\ hand' \in [Producers -> Packet \cup {NoFrame}]
        /\ hand'[r] # NoFrame /\ hand'[r].by = r
        /\ \A q \in Producers \ {r} : hand'[q] = hand[q]
    BY <1>1, <2>1, <2>2, PackType
  <2>4. pc' \in [Threads -> Places] /\ Control'
    BY <1>1, <1>5, <2>1, <2>3, MoveControl DEF Over
  <2> QED
    BY <1>1, <1>5, <2>1, <2>3, <2>4 DEF TypeInv, TypeOK, Places
<1>8. CASE ForwardDies(r)
  <2>1. /\ pc[r] = "route" /\ Routed(r) /\ PackFails /\ Goto(r, "dead")
        /\ diedHolding' = diedHolding + 1
        /\ UNCHANGED <<mainVars, txQueue, rxQueue, framesRx, recvd, reads, dropVars,
                       countVars, outVars>>
    BY <1>8 DEF ForwardDies
  <2>2. seqHostTx' \in Nat /\ burned' \in SUBSET (0 .. seqHostTx' - 1) /\ hand' = hand
    BY <2>1, PackFailsType
  <2>3. pc' \in [Threads -> Places] /\ Control'
    BY <1>1, <1>5, <2>1, <2>2, MoveControl DEF Over
  <2> QED
    <3>1. diedHolding' \in Nat
      BY <1>1, <2>1 DEF TypeOK
    <3>2. rxHand' \in [RxThreads -> Frame \cup {NoFrame}]
      BY <1>5, <2>1
    <3>3. pc' \in [Threads -> Places] /\ Control'
      BY <2>3
    <3> QED
      BY <1>1, <2>1, <2>2, <3>1, <3>2, <3>3 DEF TypeInv, TypeOK, Places
<1> QED
  BY <1>2, <1>3, <1>4, <1>6, <1>7, <1>8 DEF RxNext, RxInput

LEMMA NextTypeInv == TypeInv /\ [Next]_vars => TypeInv'
<1>1. TypeInv /\ UNCHANGED vars => TypeInv'
  BY DEF TypeInv, TypeOK, Control, vars, mainVars, seqVars, rxCounts, rxVars, dropVars,
         countVars, outVars
<1> QED
  BY <1>1, MainTypeInv, AppTypeInv, QueueingTypeInv, TxTypeInv, HbTypeInv, RxTypeInv DEF Next

\* The node never leaves its types: no frame it relays outgrows the hop field,
\* the lock is kept by an interrupted caller only while stop() runs.
THEOREM NodeTypes == Spec => []TypeOK
<1>1. Spec => []TypeInv
  BY InitTypeInv, NextTypeInv, PTL DEF Spec
<1>2. TypeInv => TypeOK
  BY DEF TypeInv
<1> QED
  BY <1>1, <1>2, PTL

-----------------------------------------------------------------------------
(* What a step does to the numbers and to the line of packets.              *)

LEMMA LineTypes ==
  ASSUME TypeInv
  PROVE  /\ TakenSeq \in Seq(Packet) /\ Queued \in Seq(Packet) /\ Line \in Seq(Packet)
         /\ gone \in Seq(Packet) /\ wire \in Seq(Packet) /\ txQueue \in Seq(Packet)
         /\ gone \o wire \in Seq(Packet) /\ wire \o TakenSeq \in Seq(Packet)
         /\ gone \o wire \o TakenSeq \in Seq(Packet)
<1>1. gone \in Seq(Packet) /\ wire \in Seq(Packet) /\ txQueue \in Seq(Packet)
      /\ taken \in Packet \cup {NoFrame}
  BY DEF TypeInv, TypeOK
<1>2. TakenSeq \in Seq(Packet)
  BY <1>1 DEF TakenSeq
<1> QED
  BY <1>1, <1>2, ConcatProperties DEF Queued, Line

\* The kinds of steps the numbers and the packets see.
Still    == UNCHANGED <<seqVars, Queued, Line>>
Burns    == /\ seqHostTx' = seqHostTx + 1 /\ burned' = burned \cup {seqHostTx}
            /\ UNCHANGED <<hand, Queued, Line>>
Packs(p) == /\ hand[p] = NoFrame /\ seqHostTx' = seqHostTx + 1 /\ UNCHANGED <<burned, Queued, Line>>
            /\ \E f \in Frame : hand' = [hand EXCEPT ![p] = [by |-> p, seq |-> seqHostTx, frame |-> f]]
Puts(p)  == /\ hand[p] # NoFrame /\ hand' = [hand EXCEPT ![p] = NoFrame]
            /\ Queued' = Append(Queued, hand[p]) /\ Line' = Append(Line, hand[p])
            /\ UNCHANGED <<seqHostTx, burned>>
Drops    == /\ taken # NoFrame /\ taken' = NoFrame /\ gone' = Append(gone, taken)
            /\ UNCHANGED <<seqVars, wire, txQueue>>

LEMMA SameLine == UNCHANGED <<gone, wire, taken, txQueue>> => UNCHANGED <<Queued, Line>>
BY DEF Queued, Line, TakenSeq

LEMMA PutStep == ASSUME TypeInv, NEW p \in Producers, Put(p) PROVE Puts(p)
<1>1. /\ pc[p] = "put" /\ txQueue' = Append(txQueue, hand[p]) /\ hand' = [hand EXCEPT ![p] = NoFrame]
      /\ UNCHANGED <<seqHostTx, burned, gone, wire, taken>>
  BY DEF Put, outVars
<1>2. hand[p] \in Packet /\ hand[p] # NoFrame
  BY <1>1 DEF TypeInv, TypeOK, Control
<1>3. TakenSeq' = TakenSeq
  BY <1>1 DEF TakenSeq
<1>4. Queued' = (gone \o wire \o TakenSeq) \o Append(txQueue, hand[p])
      /\ Line' = (wire \o TakenSeq) \o Append(txQueue, hand[p])
  BY <1>1, <1>3 DEF Queued, Line
<1>5. Queued' = Append(Queued, hand[p]) /\ Line' = Append(Line, hand[p])
  <2> DEFINE a == gone \o wire \o TakenSeq  b == wire \o TakenSeq  x == hand[p]
  <2>1. a \in Seq(Packet) /\ b \in Seq(Packet) /\ txQueue \in Seq(Packet) /\ x \in Packet
    BY <1>2, LineTypes
  <2>2. /\ Queued' = a \o Append(txQueue, x) /\ Line' = b \o Append(txQueue, x)
        /\ Queued = a \o txQueue /\ Line = b \o txQueue
    BY <1>4 DEF Queued, Line
  <2> HIDE DEF a, b
  <2>3. a \o Append(txQueue, x) = Append(a \o txQueue, x)
        /\ b \o Append(txQueue, x) = Append(b \o txQueue, x)
    BY <2>1, AppendRight
  <2> QED
    BY <2>2, <2>3
<1> QED
  BY <1>1, <1>2, <1>5 DEF Puts

LEMMA GetStep == ASSUME TypeInv, Get PROVE Still
<1>1. /\ pc["tx"] = "get" /\ txQueue # <<>> /\ taken' = Head(txQueue) /\ txQueue' = Tail(txQueue)
      /\ UNCHANGED <<seqVars, gone, wire>>
  BY DEF Get
<1>2. taken = NoFrame /\ Head(txQueue) \in Packet
  BY <1>1 DEF TypeInv, TypeOK, Control
<1>3. TakenSeq = <<>> /\ TakenSeq' = <<Head(txQueue)>>
  BY <1>1, <1>2 DEF TakenSeq
<1>4. gone \o wire \o TakenSeq = gone \o wire /\ wire \o TakenSeq = wire
  BY <1>3, LineTypes, ConcatEmptySeq
<1>5. Queued' = ((gone \o wire) \o <<Head(txQueue)>>) \o Tail(txQueue)
      /\ Line' = (wire \o <<Head(txQueue)>>) \o Tail(txQueue)
  BY <1>1, <1>3 DEF Queued, Line
<1>6. Queued' = (gone \o wire) \o txQueue /\ Line' = wire \o txQueue
  <2>1. gone \o wire \in Seq(Packet) /\ wire \in Seq(Packet) /\ txQueue \in Seq(Packet) /\ txQueue # <<>>
    BY <1>1, LineTypes
  <2>2. ((gone \o wire) \o <<Head(txQueue)>>) \o Tail(txQueue) = (gone \o wire) \o txQueue
    BY <2>1, HeadFirst
  <2>3. (wire \o <<Head(txQueue)>>) \o Tail(txQueue) = wire \o txQueue
    BY <2>1, HeadFirst
  <2> QED
    BY <1>5, <2>2, <2>3
<1> QED
  BY <1>1, <1>4, <1>6 DEF Still, Queued, Line

LEMMA PacketsAssociate == \A s, t, u \in Seq(Packet) : (s \o t) \o u = s \o (t \o u)
BY ConcatAssociative

LEMMA WriteStep == ASSUME TypeInv, Write PROVE Still
<1>1. /\ pc["tx"] = "write" /\ wire' = Append(wire, taken) /\ taken' = NoFrame
      /\ UNCHANGED <<seqVars, txQueue, gone>>
  BY DEF Write
<1>2. taken \in Packet /\ taken # NoFrame
  BY <1>1 DEF TypeInv, TypeOK, Control
<1>3. TakenSeq = <<taken>> /\ TakenSeq' = <<>> /\ wire \o TakenSeq = Append(wire, taken)
  BY <1>1, <1>2, LineTypes, AppendIsConcat DEF TakenSeq
<1>4. Append(wire, taken) \in Seq(Packet) /\ gone \o Append(wire, taken) \in Seq(Packet)
  BY <1>2, LineTypes, AppendProperties, ConcatProperties
<1>5. Queued' = (gone \o Append(wire, taken)) \o <<>> \o txQueue
      /\ Line' = Append(wire, taken) \o <<>> \o txQueue
  BY <1>1, <1>3 DEF Queued, Line
<1>6. Queued' = (gone \o (wire \o TakenSeq)) \o txQueue /\ Line' = (wire \o TakenSeq) \o txQueue
  BY <1>3, <1>4, <1>5, ConcatEmptySeq
<1>7. gone \o (wire \o TakenSeq) = gone \o wire \o TakenSeq
  <2>1. gone \in Seq(Packet) /\ wire \in Seq(Packet) /\ TakenSeq \in Seq(Packet)
    BY LineTypes
  <2>2. (gone \o wire) \o TakenSeq = gone \o (wire \o TakenSeq)
    BY <2>1, PacketsAssociate
  <2> QED
    BY <2>2
<1> QED
  BY <1>1, <1>6, <1>7 DEF Still, Queued, Line

LEMMA Steps ==
  ASSUME TypeInv, [Next]_vars
  PROVE  \/ Still \/ Burns \/ Drops \/ \E p \in Producers : Packs(p) \/ Puts(p)
<1> USE DEF mainVars, rxCounts, rxVars, dropVars, countVars, outVars
<1>1. ASSUME UNCHANGED <<seqVars, txQueue, outVars>> PROVE Still
  BY <1>1, SameLine DEF Still
<1>2. ASSUME PackFails, UNCHANGED <<txQueue, outVars>> PROVE Burns
  BY <1>2, SameLine DEF Burns, PackFails, NextSeq
<1>3. ASSUME NEW p \in Producers, NEW f \in Frame, pc[p] # "put", Pack(p, f),
             UNCHANGED <<txQueue, outVars>>
      PROVE  Packs(p)
  BY <1>3, SameLine DEF Packs, Pack, NextSeq, TypeInv, Control
<1>4. CASE UNCHANGED vars
  BY <1>1, <1>4 DEF vars
<1>5. CASE MainNext
  <2>1. ASSUME NEW s \in OnMain, Interrupt(s) PROVE Still \/ Burns
    BY <1>1, <1>2, <2>1 DEF Interrupt
  <2> QED
    BY <1>1, <1>5, <2>1 DEF MainNext, Start, StartFails, StopFlag, StopClose
<1>6. CASE AppNext
  <2>1. ASSUME NEW s \in Senders, NEW d \in Peers, Send(s, d) PROVE Packs(s)
    <3>1. Data(d) \in Frame /\ s \in Producers
      BY Names DEF Data, Frame, Dest
    <3> QED
      BY <1>3, <2>1, <3>1 DEF Send
  <2> QED
    BY <1>1, <1>2, <1>6, <2>1, Names DEF AppNext, Recv, SendFails
<1>7. CASE Queueing
  BY <1>1, <1>7, PutStep DEF Queueing, Count
<1>8. CASE TxNext
  <2>1. ASSUME WriteFails \/ WriteNowhere PROVE Drops
    BY <2>1 DEF WriteFails, WriteNowhere, Drops, TypeInv, Control
  <2> QED
    BY <1>1, <1>8, <2>1, GetStep, WriteStep DEF TxNext, LoopTest, GetTimesOut
<1>9. CASE HbNext
  BY <1>1, <1>2, <1>9 DEF HbNext, LoopTest, Heartbeat
<1>10. ASSUME NEW r \in RxThreads, RxNext(r) PROVE Still \/ Burns \/ Packs(r)
  <2>1. CASE Forward(r)
    <3>1. Forwarded(rxHand[r]) \in Frame
      <4>1. rxHand[r] \in Frame /\ rxHand[r].hop < MaxHop
        BY <2>1 DEF Forward, TypeInv, TypeOK, Control
      <4>2. rxHand[r].hop + 1 \in 0 .. 255
        BY <4>1 DEF Frame
      <4> QED
        BY <4>1, <4>2 DEF Forwarded, Frame
    <3> QED
      BY <1>3, <2>1, <3>1, Names DEF Forward
  <2> QED
    BY <1>1, <1>2, <1>10, <2>1
       DEF RxNext, LoopTest, ReadNothing, RxInput, Read, Deliver, HopDrop, ForwardDies
<1> QED
  BY <1>4, <1>5, <1>6, <1>7, <1>8, <1>9, <1>10, Names DEF Next

\* A dropped packet joins those gone: the packets queued so far change places.
LEMMA DropMoves == ASSUME TypeInv, Drops PROVE Rearranged(Queued', Queued)
<1>1. gone \in Seq(Packet) /\ wire \in Seq(Packet) /\ txQueue \in Seq(Packet) /\ taken \in Packet
  BY DEF TypeInv, TypeOK, Drops
<1>2. /\ Queued = gone \o wire \o <<taken>> \o txQueue
      /\ Queued' = Append(gone, taken) \o wire \o <<>> \o txQueue
  BY DEF Drops, Queued, TakenSeq
<1>3. Rearranged(Append(gone, taken) \o wire \o <<>> \o txQueue, gone \o wire \o <<taken>> \o txQueue)
  BY <1>1, MoveForward
<1> QED
  BY <1>2, <1>3

-----------------------------------------------------------------------------
(* EveryNumberOnce.                                                         *)

HandSeqs == {hand[p].seq : p \in InHand}
OutSeqs  == {Queued[i].seq : i \in 1 .. Len(Queued)}

OneOwner ==
  /\ 0 .. seqHostTx - 1 = burned \cup HandSeqs \cup OutSeqs
  /\ burned \cap (HandSeqs \cup OutSeqs) = {} /\ HandSeqs \cap OutSeqs = {}
  /\ \A p, q \in InHand : hand[p].seq = hand[q].seq => p = q
  /\ \A i, j \in 1 .. Len(Queued) : Queued[i].seq = Queued[j].seq => i = j

LEMMA OneOwnerEquiv == EveryNumberOnce <=> OneOwner
BY DEF EveryNumberOnce, OneOwner, HandSeqs, OutSeqs

LEMMA NumbersAreNat ==
  ASSUME TypeInv
  PROVE  /\ seqHostTx \in Nat /\ hand \in [Producers -> Packet \cup {NoFrame}]
         /\ \A p \in InHand : hand[p] \in Packet /\ hand[p].seq \in Nat
         /\ Len(Queued) \in Nat /\ \A i \in 1 .. Len(Queued) : Queued[i].seq \in Nat
         /\ Len(Line) \in Nat /\ \A i \in 1 .. Len(Line) : Line[i].seq \in Nat
<1>1. Queued \in Seq(Packet) /\ Line \in Seq(Packet)
  BY LineTypes
<1>2. \A k \in Packet : k.seq \in Nat
  BY DEF Packet
<1> QED
  BY <1>1, <1>2 DEF TypeInv, TypeOK, InHand

LEMMA NextNumbers == TypeInv /\ OneOwner /\ [Next]_vars => OneOwner'
<1> SUFFICES ASSUME TypeInv, OneOwner, [Next]_vars PROVE OneOwner'
  OBVIOUS
<1>1. /\ 0 .. seqHostTx - 1 = burned \cup HandSeqs \cup OutSeqs
      /\ burned \cap (HandSeqs \cup OutSeqs) = {} /\ HandSeqs \cap OutSeqs = {}
      /\ \A p, q \in InHand : hand[p].seq = hand[q].seq => p = q
      /\ \A i, j \in 1 .. Len(Queued) : Queued[i].seq = Queued[j].seq => i = j
  BY DEF OneOwner
<1>3. seqHostTx \in Nat /\ ~(seqHostTx \in 0 .. seqHostTx - 1)
      /\ 0 .. (seqHostTx + 1) - 1 = (0 .. seqHostTx - 1) \cup {seqHostTx}
  BY NumbersAreNat
<1>4. ASSUME UNCHANGED hand PROVE UNCHANGED <<InHand, HandSeqs>>
  BY <1>4 DEF InHand, HandSeqs
<1>5. ASSUME UNCHANGED Queued PROVE UNCHANGED OutSeqs
  BY <1>5 DEF OutSeqs
<1>6. CASE Still
  BY <1>1, <1>4, <1>5, <1>6 DEF Still, seqVars, OneOwner
<1>7. CASE Burns
  BY <1>1, <1>3, <1>4, <1>5, <1>7 DEF Burns, OneOwner
<1>8. ASSUME NEW p \in Producers, Packs(p) PROVE OneOwner'
  <2>1. PICK f \in Frame : hand' = [hand EXCEPT ![p] = [by |-> p, seq |-> seqHostTx, frame |-> f]]
    BY <1>8 DEF Packs
  <2> DEFINE k == [by |-> p, seq |-> seqHostTx, frame |-> f]
  <2>2. k \in Packet /\ k.seq = seqHostTx /\ k # NoFrame
    BY <1>3 DEF Packet
  <2> HIDE DEF k
  <2>3. hand'[p] = k /\ \A q \in Producers \ {p} : hand'[q] = hand[q]
    BY <2>1, NumbersAreNat DEF k
  <2>4. InHand' = InHand \cup {p} /\ p \notin InHand
    BY <1>8, <2>2, <2>3 DEF InHand, Packs
  <2>5. HandSeqs' = HandSeqs \cup {seqHostTx}
    <3>1. \A q \in InHand : hand'[q] = hand[q]
      BY <2>3, <2>4 DEF InHand
    <3> QED
      BY <2>2, <2>3, <2>4, <3>1 DEF HandSeqs
  <2>6. \A q \in InHand : hand'[q].seq = hand[q].seq /\ hand[q].seq # seqHostTx
    <3>1. \A q \in InHand : hand[q].seq \in HandSeqs
      BY DEF HandSeqs
    <3> QED
      BY <1>1, <1>3, <2>3, <2>4, <3>1 DEF InHand
  <2>7. \A q, r \in InHand' : hand'[q].seq = hand'[r].seq => q = r
    BY <1>1, <2>2, <2>3, <2>4, <2>6
  <2>8. /\ seqHostTx' = seqHostTx + 1 /\ burned' = burned /\ Queued' = Queued /\ OutSeqs' = OutSeqs
    BY <1>5, <1>8 DEF Packs
  <2>9. burned \cup HandSeqs' \cup OutSeqs = 0 .. (seqHostTx + 1) - 1
    BY <1>1, <1>3, <2>5
  <2>10. burned \cap (HandSeqs' \cup OutSeqs) = {} /\ HandSeqs' \cap OutSeqs = {}
    BY <1>1, <1>3, <2>5
  <2> QED
    BY <1>1, <2>7, <2>8, <2>9, <2>10 DEF OneOwner
<1>9. ASSUME NEW p \in Producers, Puts(p) PROVE OneOwner'
  <2> DEFINE k == hand[p]  n == Len(Queued)
  <2>1. p \in InHand /\ k \in Packet /\ k.seq \in Nat /\ n \in Nat /\ k.seq \in HandSeqs
    BY <1>9, NumbersAreNat DEF Puts, InHand, HandSeqs
  <2>2. Queued \in Seq(Packet) /\ Queued' = Append(Queued, k)
    BY <1>9, LineTypes DEF Puts
  <2>3. hand'[p] = NoFrame /\ \A q \in Producers \ {p} : hand'[q] = hand[q]
    BY <1>9, NumbersAreNat DEF Puts
  <2> HIDE DEF k
  <2>4. Len(Queued') = n + 1 /\ Queued'[n + 1] = k /\ \A i \in 1 .. n : Queued'[i] = Queued[i]
    BY <2>1, <2>2
  <2>5. \A i \in 1 .. Len(Queued') : i \in 1 .. n \/ i = n + 1
    BY <2>1, <2>4
  <2>6. OutSeqs' = OutSeqs \cup {k.seq}
    <3>1. 1 .. Len(Queued') = (1 .. n) \cup {n + 1}
      BY <2>1, <2>4
    <3> QED
      BY <2>4, <3>1 DEF OutSeqs
  <2>7. InHand' = InHand \ {p} /\ \A q \in InHand' : hand'[q] = hand[q]
    BY <2>3 DEF InHand
  <2>8. HandSeqs' = HandSeqs \ {k.seq}
    <3>1. \A q \in InHand : hand[q].seq = k.seq <=> q = p
      BY <1>1, <2>1 DEF k
    <3> QED
      BY <2>7, <3>1 DEF HandSeqs
  <2>9. \A i \in 1 .. n : Queued[i].seq # k.seq
    BY <1>1, <2>1 DEF OutSeqs
  <2>10. \A i, j \in 1 .. Len(Queued') : Queued'[i].seq = Queued'[j].seq => i = j
    BY <1>1, <2>4, <2>5, <2>9
  <2>11. \A q, r \in InHand' : hand'[q].seq = hand'[r].seq => q = r
    BY <1>1, <2>7
  <2>12. seqHostTx' = seqHostTx /\ burned' = burned
    BY <1>9 DEF Puts
  <2>13. burned \cup HandSeqs' \cup OutSeqs' = 0 .. seqHostTx - 1
    BY <1>1, <2>1, <2>6, <2>8
  <2>14. burned \cap (HandSeqs' \cup OutSeqs') = {} /\ HandSeqs' \cap OutSeqs' = {}
    BY <1>1, <2>1, <2>6, <2>8
  <2> QED
    BY <2>10, <2>11, <2>12, <2>13, <2>14 DEF OneOwner
<1>10. CASE Drops
  <2> DEFINE Q == Queued  R == Queued'
  <2>1. PICK g : Permutes(g, Len(Q)) /\ \A i \in 1 .. Len(Q) : R[i] = Q[g[i]]
    BY <1>10, DropMoves DEF Rearranged
  <2>2. Len(R) = Len(Q)
    BY <1>10, DropMoves DEF Rearranged
  <2>3. \A i \in 1 .. Len(Q) : R[i] = Q[g[i]] /\ g[i] \in 1 .. Len(Q)
    BY <2>1 DEF Permutes
  <2>4. ASSUME NEW j \in 1 .. Len(Q) PROVE \E i \in 1 .. Len(Q) : R[i] = Q[j]
    <3>1. PICK i \in 1 .. Len(Q) : g[i] = j
      BY <2>1 DEF Permutes
    <3> QED
      BY <2>3, <3>1
  <2>5. \A i, j \in 1 .. Len(Q) : Q[i].seq = Q[j].seq => i = j
    BY <1>1
  <2>6. OutSeqs' = {R[i].seq : i \in 1 .. Len(Q)} /\ OutSeqs = {Q[i].seq : i \in 1 .. Len(Q)}
    BY <2>2 DEF OutSeqs
  <2>7. \A i, j \in 1 .. Len(Q) : g[i] = g[j] => i = j
    BY <2>1 DEF Permutes
  <2> HIDE DEF Q, R
  <2>9. OutSeqs' = OutSeqs
    <3>1. OutSeqs' \subseteq OutSeqs
      BY <2>3, <2>6
    <3>2. OutSeqs \subseteq OutSeqs'
      BY <2>4, <2>6
    <3> QED
      BY <3>1, <3>2
  <2>10. \A i, j \in 1 .. Len(R) : R[i].seq = R[j].seq => i = j
    BY <2>2, <2>3, <2>5, <2>7
  <2> QED
    BY <1>1, <1>4, <1>10, <2>9, <2>10 DEF Drops, seqVars, OneOwner, Q, R
<1> QED
  BY <1>6, <1>7, <1>8, <1>9, <1>10, Steps

\* However the application, the relaying threads, the heartbeat, the failed
\* writes and the restarts interleave, no number is used twice or forgotten.
THEOREM NodeNumbersConserved == Spec => []EveryNumberOnce
<1>1. Init => OneOwner
  <2> SUFFICES ASSUME Init PROVE OneOwner
    OBVIOUS
  <2>1. Queued = <<>>
    BY DEF Init, Queued, TakenSeq
  <2>2. InHand = {} /\ burned = {} /\ seqHostTx = 0 /\ Len(Queued) = 0
    BY <2>1 DEF Init, InHand
  <2> QED
    BY <2>2 DEF OneOwner, HandSeqs, OutSeqs
<1>2. Spec => []TypeInv
  BY InitTypeInv, NextTypeInv, PTL DEF Spec
<1> QED
  BY <1>1, <1>2, NextNumbers, OneOwnerEquiv, PTL DEF Spec

-----------------------------------------------------------------------------
(* ProducerOrder.                                                           *)

\* What a producer has queued is numbered below what it has in hand, and all
\* of it below the counter.
OrderInv ==
  /\ ProducerOrder
  /\ \A i \in 1 .. Len(Line) : Line[i].seq < seqHostTx
  /\ \A p \in InHand : hand[p].seq < seqHostTx
  /\ \A i \in 1 .. Len(Line), p \in InHand : Line[i].by = p => Line[i].seq < hand[p].seq

LEMMA NextOrder == TypeInv /\ OrderInv /\ [Next]_vars => OrderInv'
<1> SUFFICES ASSUME TypeInv, OrderInv, [Next]_vars PROVE OrderInv'
  OBVIOUS
<1> DEFINE n == Len(Line)
<1>1. /\ \A i, j \in 1 .. n : i < j /\ Line[i].by = Line[j].by => Line[i].seq < Line[j].seq
      /\ \A i \in 1 .. n : Line[i].seq < seqHostTx
      /\ \A p \in InHand : hand[p].seq < seqHostTx
      /\ \A i \in 1 .. n, p \in InHand : Line[i].by = p => Line[i].seq < hand[p].seq
  BY DEF OrderInv, ProducerOrder
<1>2. /\ seqHostTx \in Nat /\ n \in Nat
      /\ \A i \in 1 .. n : Line[i].seq \in Nat
      /\ \A p \in InHand : hand[p].seq \in Nat
  BY NumbersAreNat
<1>3. ASSUME UNCHANGED <<hand, Line>>, seqHostTx' \in {seqHostTx, seqHostTx + 1} PROVE OrderInv'
  <2>1. InHand' = InHand
    BY <1>3 DEF InHand
  <2>2. \A m \in Nat : m < seqHostTx => m < seqHostTx'
    BY <1>2, <1>3
  <2> QED
    BY <1>1, <1>2, <1>3, <2>1, <2>2 DEF OrderInv, ProducerOrder
<1>4. ASSUME NEW p \in Producers, Packs(p) PROVE OrderInv'
  <2>1. PICK f \in Frame : hand' = [hand EXCEPT ![p] = [by |-> p, seq |-> seqHostTx, frame |-> f]]
    BY <1>4 DEF Packs
  <2>2. /\ hand'[p].seq = seqHostTx /\ \A q \in Producers \ {p} : hand'[q] = hand[q]
        /\ seqHostTx' = seqHostTx + 1 /\ Line' = Line
    BY <1>4, <2>1, NumbersAreNat DEF Packs
  <2>3. \A q \in InHand' : (q \in InHand /\ hand'[q] = hand[q]) \/ q = p
    BY <2>2 DEF InHand
  <2>4. \A q \in InHand' : hand'[q].seq < seqHostTx'
    BY <1>1, <1>2, <2>2, <2>3
  <2>5. \A i \in 1 .. n : Line[i].seq < seqHostTx'
    BY <1>1, <1>2, <2>2
  <2>6. \A i \in 1 .. n, q \in InHand' : Line[i].by = q => Line[i].seq < hand'[q].seq
    BY <1>1, <2>2, <2>3
  <2> QED
    BY <1>1, <2>2, <2>4, <2>5, <2>6 DEF OrderInv, ProducerOrder
<1>5. ASSUME NEW p \in Producers, Puts(p) PROVE OrderInv'
  <2> DEFINE k == hand[p]
  <2>1. k \in Packet /\ p \in InHand /\ k.by = p
    BY <1>5, NumbersAreNat DEF Puts, InHand, TypeInv, Control
  <2>2. /\ hand'[p] = NoFrame /\ \A q \in Producers \ {p} : hand'[q] = hand[q]
        /\ seqHostTx' = seqHostTx
    BY <1>5, NumbersAreNat DEF Puts
  <2>3. Line \in Seq(Packet) /\ Line' = Append(Line, k)
    BY <1>5, LineTypes DEF Puts
  <2>4. k.seq < seqHostTx /\ \A i \in 1 .. n : Line[i].by = k.by => Line[i].seq < k.seq
    BY <1>1, <2>1
  <2> HIDE DEF k
  <2>5. Len(Line') = n + 1 /\ Line'[n + 1] = k /\ \A i \in 1 .. n : Line'[i] = Line[i]
    BY <1>2, <2>1, <2>3
  <2> HIDE DEF n
  <2>6. \A i \in 1 .. Len(Line') : i \in 1 .. n \/ i = n + 1
    BY <1>2, <2>5
  <2>7. \A q \in InHand' : q \in InHand /\ hand'[q] = hand[q] /\ q # p
    BY <2>2 DEF InHand
  <2>8. \A i \in 1 .. Len(Line') : Line'[i].seq < seqHostTx'
    BY <1>1, <2>2, <2>4, <2>5, <2>6
  <2>9. \A i \in 1 .. Len(Line'), q \in InHand' : Line'[i].by = q => Line'[i].seq < hand'[q].seq
    BY <1>1, <2>1, <2>5, <2>6, <2>7
  <2>10. ASSUME NEW i \in 1 .. Len(Line'), NEW j \in 1 .. Len(Line'), i < j,
                Line'[i].by = Line'[j].by
         PROVE  Line'[i].seq < Line'[j].seq
    <3>1. i \in 1 .. n
      BY <1>2, <2>6, <2>10
    <3> QED
      BY <1>1, <2>4, <2>5, <2>6, <2>10, <3>1
  <2>11. \A q \in InHand' : hand'[q].seq < seqHostTx'
    BY <1>1, <2>2, <2>7
  <2> QED
    BY <2>8, <2>9, <2>10, <2>11 DEF OrderInv, ProducerOrder
<1>6. CASE Drops
  <2> DEFINE R == Line'
  <2>1. Thinned(R, Line)
    <3>1. wire \in Seq(Packet) /\ txQueue \in Seq(Packet) /\ taken \in Packet
      BY <1>6 DEF TypeInv, TypeOK, Drops
    <3>2. Line = wire \o <<taken>> \o txQueue /\ Line' = wire \o <<>> \o txQueue
      BY <1>6 DEF Drops, Line, TakenSeq
    <3>3. Thinned(wire \o <<>> \o txQueue, wire \o <<taken>> \o txQueue)
      BY <3>1, TakeOut
    <3> QED
      BY <3>2, <3>3
  <2>2. PICK g \in [1 .. Len(R) -> 1 .. n] :
             /\ \A i, j \in 1 .. Len(R) : i < j => g[i] < g[j]
             /\ \A i \in 1 .. Len(R) : R[i] = Line[g[i]]
    BY <2>1 DEF Thinned
  <2>3. UNCHANGED <<hand, seqHostTx>> /\ InHand' = InHand
    BY <1>6 DEF Drops, seqVars, InHand
  <2>4. \A i \in 1 .. Len(R) : R[i].seq < seqHostTx
    BY <1>1, <2>2
  <2>5. \A i \in 1 .. Len(R), p \in InHand : R[i].by = p => R[i].seq < hand[p].seq
    BY <1>1, <2>2
  <2>6. ASSUME NEW i \in 1 .. Len(R), NEW j \in 1 .. Len(R), i < j, R[i].by = R[j].by
        PROVE  R[i].seq < R[j].seq
    <3>1. g[i] \in 1 .. n /\ g[j] \in 1 .. n /\ g[i] < g[j]
      BY <2>2, <2>6
    <3>2. R[i] = Line[g[i]] /\ R[j] = Line[g[j]]
      BY <2>2
    <3> QED
      BY <1>1, <2>6, <3>1, <3>2
  <2> QED
    BY <1>1, <2>3, <2>4, <2>5, <2>6 DEF OrderInv, ProducerOrder
<1>7. CASE Still \/ Burns
  BY <1>3, <1>7 DEF Still, Burns, seqVars
<1> QED
  BY <1>4, <1>5, <1>6, <1>7, Steps

\* What one thread sends leaves in the order it sent it, whoever else sends,
\* whatever the cable drops, and however often the node stops and starts.
THEOREM NodeProducerOrdered == Spec => []ProducerOrder
<1>1. Init => OrderInv
  <2> SUFFICES ASSUME Init PROVE OrderInv
    OBVIOUS
  <2>1. Line = <<>> /\ InHand = {}
    BY DEF Init, Line, TakenSeq, InHand
  <2> QED
    BY <2>1 DEF OrderInv, ProducerOrder
<1>2. Spec => []TypeInv
  BY InitTypeInv, NextTypeInv, PTL DEF Spec
<1>3. OrderInv => ProducerOrder
  BY DEF OrderInv
<1> QED
  BY <1>1, <1>2, <1>3, NextOrder, PTL DEF Spec

-----------------------------------------------------------------------------
(* TxStats and RxStats.                                                     *)

At(P, L)  == Cardinality({p \in P : pc[p] \in L})
MadeBy(P) == {i \in 1 .. Len(Queued) : Queued[i].by \in P}

\* The threads the statistics speak of.
SendDue  == At(Senders, {"count"})
RelayDue == At(RxThreads, {"count"})
Cut      == At(OnMain, {"dead"})
Handling == At(RxThreads, {"route", "put", "count"})

\* One thread moves.
LEMMA AtMoves ==
  ASSUME TypeInv, NEW t \in Threads, NEW l, Goto(t, l),
         NEW P \in SUBSET Threads, IsFiniteSet(P), NEW L
  PROVE  /\ At(P, L) \in Nat
         /\ At(P, L)' = At(P, L) - (IF t \in P /\ pc[t] \in L THEN 1 ELSE 0)
                                 + (IF t \in P /\ l \in L THEN 1 ELSE 0)
<1> DEFINE A == {p \in P : pc[p] \in L}  B == {p \in P : pc'[p] \in L}
<1>1. pc'[t] = l /\ \A u \in Threads \ {t} : pc'[u] = pc[u]
  BY DEF TypeInv, TypeOK, Goto
<1>2. A \ {t} = B \ {t}
  BY <1>1
<1>3. (t \in A <=> t \in P /\ pc[t] \in L) /\ (t \in B <=> t \in P /\ l \in L)
  BY <1>1
<1>4. IsFiniteSet(A) /\ IsFiniteSet(B)
  BY FS_Subset
<1>5. At(P, L) = Cardinality(A) /\ At(P, L)' = Cardinality(B)
  BY DEF At
<1> HIDE DEF A, B
<1>6. /\ Cardinality(A \ {t}) = IF t \in A THEN Cardinality(A) - 1 ELSE Cardinality(A)
      /\ Cardinality(B \ {t}) = IF t \in B THEN Cardinality(B) - 1 ELSE Cardinality(B)
      /\ Cardinality(A) \in Nat /\ Cardinality(B) \in Nat
  BY <1>4, FS_RemoveElement, FS_CardinalityType
<1> DEFINE a == IF t \in A THEN 1 ELSE 0  b == IF t \in B THEN 1 ELSE 0
<1>7. Cardinality(A) - a = Cardinality(B) - b
  <2>1. Cardinality(A \ {t}) = Cardinality(A) - a
    BY <1>6
  <2>2. Cardinality(B \ {t}) = Cardinality(B) - b
    BY <1>6
  <2>3. Cardinality(A \ {t}) = Cardinality(B \ {t})
    BY <1>2
  <2> QED
    BY <2>1, <2>2, <2>3
<1>8. a = (IF t \in P /\ pc[t] \in L THEN 1 ELSE 0) /\ b = (IF t \in P /\ l \in L THEN 1 ELSE 0)
      /\ a \in Nat /\ b \in Nat
  BY <1>3
<1> HIDE DEF a, b
<1>9. Cardinality(B) = Cardinality(A) - a + b
  BY <1>6, <1>7, <1>8
<1> QED
  BY <1>5, <1>6, <1>8, <1>9

LEMMA AtSame == UNCHANGED pc => UNCHANGED <<SendDue, RelayDue, Cut, Handling>>
BY DEF At, SendDue, RelayDue, Cut, Handling

LEMMA FiniteParts ==
  /\ IsFiniteSet(Senders) /\ IsFiniteSet(RxThreads) /\ IsFiniteSet(OnMain)
  /\ Senders \in SUBSET Threads /\ RxThreads \in SUBSET Threads /\ OnMain \in SUBSET Threads
<1>1. IsFiniteSet(OnMain)
  BY FS_Subset
<1>2. IsFiniteSet(RxThreads)
  <2>1. IsFiniteSet({}) /\ RxThreads = ({} \cup {"gadgetRx"}) \cup {"hostRx"}
    BY FS_EmptySet, Names
  <2> QED
    BY <2>1, FS_AddElement
<1> QED
  BY <1>1, <1>2, Names

\* The node is not touched where the statistics are due: another thread moves.
LEMMA DueTypes ==
  ASSUME TypeInv
  PROVE  SendDue \in Nat /\ RelayDue \in Nat /\ Cut \in Nat /\ Handling \in Nat
<1>1. ASSUME NEW P, IsFiniteSet(P), NEW L PROVE At(P, L) \in Nat
  <2>1. IsFiniteSet({p \in P : pc[p] \in L})
    BY <1>1, FS_Subset
  <2> QED
    BY <2>1, FS_CardinalityType DEF At
<1> QED
  BY <1>1, FiniteParts DEF SendDue, RelayDue, Cut, Handling

LEMMA DueMoves ==
  ASSUME TypeInv, NEW t \in Threads, NEW l, Goto(t, l)
  PROVE  /\ SendDue' = SendDue - (IF t \in Senders /\ pc[t] = "count" THEN 1 ELSE 0)
                               + (IF t \in Senders /\ l = "count" THEN 1 ELSE 0)
         /\ RelayDue' = RelayDue - (IF t \in RxThreads /\ pc[t] = "count" THEN 1 ELSE 0)
                                 + (IF t \in RxThreads /\ l = "count" THEN 1 ELSE 0)
         /\ Cut' = Cut - (IF t \in OnMain /\ pc[t] = "dead" THEN 1 ELSE 0)
                       + (IF t \in OnMain /\ l = "dead" THEN 1 ELSE 0)
         /\ Handling' = Handling
                - (IF t \in RxThreads /\ pc[t] \in {"route", "put", "count"} THEN 1 ELSE 0)
                + (IF t \in RxThreads /\ l \in {"route", "put", "count"} THEN 1 ELSE 0)
<1>1. /\ pc[t] \in {"count"} <=> pc[t] = "count"
      /\ l \in {"count"} <=> l = "count"
      /\ pc[t] \in {"dead"} <=> pc[t] = "dead"
      /\ l \in {"dead"} <=> l = "dead"
  OBVIOUS
<1>2. At(Senders, {"count"})' = At(Senders, {"count"})
         - (IF t \in Senders /\ pc[t] \in {"count"} THEN 1 ELSE 0)
         + (IF t \in Senders /\ l \in {"count"} THEN 1 ELSE 0)
  BY AtMoves, FiniteParts
<1>3. At(RxThreads, {"count"})' = At(RxThreads, {"count"})
         - (IF t \in RxThreads /\ pc[t] \in {"count"} THEN 1 ELSE 0)
         + (IF t \in RxThreads /\ l \in {"count"} THEN 1 ELSE 0)
  BY AtMoves, FiniteParts
<1>4. At(OnMain, {"dead"})' = At(OnMain, {"dead"})
         - (IF t \in OnMain /\ pc[t] \in {"dead"} THEN 1 ELSE 0)
         + (IF t \in OnMain /\ l \in {"dead"} THEN 1 ELSE 0)
  BY AtMoves, FiniteParts
<1>5. At(RxThreads, {"route", "put", "count"})' = At(RxThreads, {"route", "put", "count"})
         - (IF t \in RxThreads /\ pc[t] \in {"route", "put", "count"} THEN 1 ELSE 0)
         + (IF t \in RxThreads /\ l \in {"route", "put", "count"} THEN 1 ELSE 0)
  BY AtMoves, FiniteParts
<1>6. SendDue' = SendDue - (IF t \in Senders /\ pc[t] = "count" THEN 1 ELSE 0)
                         + (IF t \in Senders /\ l = "count" THEN 1 ELSE 0)
  BY <1>1, <1>2 DEF SendDue
<1>7. RelayDue' = RelayDue - (IF t \in RxThreads /\ pc[t] = "count" THEN 1 ELSE 0)
                           + (IF t \in RxThreads /\ l = "count" THEN 1 ELSE 0)
  BY <1>1, <1>3 DEF RelayDue
<1>8. Cut' = Cut - (IF t \in OnMain /\ pc[t] = "dead" THEN 1 ELSE 0)
                 + (IF t \in OnMain /\ l = "dead" THEN 1 ELSE 0)
  BY <1>1, <1>4 DEF Cut
<1> QED
  BY <1>5, <1>6, <1>7, <1>8 DEF Handling

\* start() finds no thread where something is due.
LEMMA DueStart ==
  ASSUME TypeInv, NEW plugged, Start(plugged)
  PROVE  UNCHANGED <<SendDue, RelayDue, Cut, Handling>>
<1>1. \A t \in Own : pc[t] \in Over /\ pc'[t] = "top"
  BY Names DEF Start, TypeInv, Control
<1>2. \A s \in Senders : pc'[s] = pc[s]
  BY Names DEF Start
<1>3. {s \in Senders : pc'[s] \in {"count"}} = {s \in Senders : pc[s] \in {"count"}}
      /\ {s \in OnMain : pc'[s] \in {"dead"}} = {s \in OnMain : pc[s] \in {"dead"}}
  BY <1>2
<1>4. \A L : L \subseteq {"route", "put", "count"} =>
             {r \in RxThreads : pc'[r] \in L} = {r \in RxThreads : pc[r] \in L}
  BY <1>1, Names DEF Over
<1>5. /\ {r \in RxThreads : pc'[r] \in {"count"}} = {r \in RxThreads : pc[r] \in {"count"}}
      /\ {r \in RxThreads : pc'[r] \in {"route", "put", "count"}}
           = {r \in RxThreads : pc[r] \in {"route", "put", "count"}}
  BY <1>4
<1> QED
  BY <1>3, <1>5 DEF SendDue, RelayDue, Cut, Handling, At

-----------------------------------------------------------------------------
LEMMA MadeFinite ==
  ASSUME TypeInv, NEW P PROVE IsFiniteSet(MadeBy(P)) /\ Cardinality(MadeBy(P)) \in Nat
<1>1. IsFiniteSet(1 .. Len(Queued))
  BY NumbersAreNat, FS_Interval
<1> QED
  BY <1>1, FS_Subset, FS_CardinalityType DEF MadeBy

LEMMA MadePut ==
  ASSUME TypeInv, NEW p \in Producers, Put(p), NEW P
  PROVE  Cardinality(MadeBy(P)') = Cardinality(MadeBy(P)) + (IF p \in P THEN 1 ELSE 0)
<1> DEFINE n == Len(Queued)  k == hand[p]
<1>1. Queued' = Append(Queued, k) /\ k \in Packet /\ k.by = p /\ Queued \in Seq(Packet)
  BY PutStep, LineTypes DEF Puts, TypeInv, TypeOK, Control
<1> HIDE DEF k
<1>2. n \in Nat /\ Len(Queued') = n + 1 /\ Queued'[n + 1] = k /\ \A i \in 1 .. n : Queued'[i] = Queued[i]
  BY <1>1
<1>3. n + 1 \notin MadeBy(P)
  BY <1>2 DEF MadeBy
<1>4. MadeBy(P)' = IF p \in P THEN MadeBy(P) \cup {n + 1} ELSE MadeBy(P)
  <2>1. \A i : i \in 1 .. Len(Queued') <=> i \in 1 .. n \/ i = n + 1
    BY <1>2
  <2>2. \A i \in 1 .. n : Queued'[i].by = Queued[i].by
    BY <1>2
  <2>3. Queued'[n + 1].by = p
    BY <1>1, <1>2
  <2> HIDE DEF n
  <2>4. MadeBy(P) = {i \in 1 .. n : Queued[i].by \in P}
    BY DEF MadeBy, n
  <2>5. MadeBy(P)' = {i \in 1 .. Len(Queued') : Queued'[i].by \in P}
    BY DEF MadeBy
  <2> QED
    BY <2>1, <2>2, <2>3, <2>4, <2>5
<1>5. IsFiniteSet(MadeBy(P)) /\ Cardinality(MadeBy(P)) \in Nat
  BY MadeFinite
<1>6. Cardinality(MadeBy(P) \cup {n + 1}) = Cardinality(MadeBy(P)) + 1
  BY <1>3, <1>5, FS_AddElement
<1> QED
  BY <1>4, <1>5, <1>6

LEMMA MadeDrop ==
  ASSUME TypeInv, Drops, NEW P
  PROVE  Cardinality(MadeBy(P)') = Cardinality(MadeBy(P))
<1> DEFINE n == Len(Queued)  R == Queued'
<1>1. PICK g : Permutes(g, n) /\ \A i \in 1 .. n : R[i] = Queued[g[i]]
  BY DropMoves DEF Rearranged
<1>2. Len(R) = n
  BY DropMoves DEF Rearranged
<1> DEFINE M == MadeBy(P)  N == {i \in 1 .. n : R[i].by \in P}  h == [i \in N |-> g[i]]
<1>3. MadeBy(P)' = N /\ M = {i \in 1 .. n : Queued[i].by \in P}
  BY <1>2 DEF MadeBy
<1> HIDE DEF M
<1>4. h \in [N -> M]
  BY <1>1, <1>3 DEF Permutes
<1>5. \A i, j \in N : h[i] = h[j] => i = j
  BY <1>1 DEF Permutes
<1>6. ASSUME NEW j \in M PROVE \E i \in N : h[i] = j
  <2>1. PICK i \in 1 .. n : g[i] = j
    BY <1>1, <1>3 DEF Permutes
  <2>2. i \in N
    BY <1>1, <1>3, <2>1
  <2> QED
    BY <2>1, <2>2
<1> HIDE DEF N, h
<1>7. h \in Bijection(N, M)
  <2>1. h \in Injection(N, M)
    BY <1>4, <1>5 DEF Injection, IsInjective
  <2>2. h \in Surjection(N, M)
    BY <1>4, <1>6 DEF Surjection
  <2> QED
    BY <2>1, <2>2 DEF Bijection
<1>8. IsFiniteSet(N) /\ ExistsBijection(N, M)
  <2>1. IsFiniteSet(1 .. n) /\ N \in SUBSET (1 .. n)
    BY NumbersAreNat, FS_Interval DEF N
  <2> QED
    BY <1>7, <2>1, FS_Subset DEF ExistsBijection
<1> QED
  BY <1>3, <1>8, FS_Bijection DEF M

LEMMA MadeSame == ASSUME Queued' = Queued, NEW P PROVE MadeBy(P)' = MadeBy(P)
BY DEF MadeBy

Made(P) == Cardinality(MadeBy(P))

TxInv ==
  /\ Made(Senders) - (framesTx + SendDue) \in 0 .. Cut
  /\ Made(RxThreads) = forwarded + RelayDue

LEMMA TxStatsEquiv == TxStats <=> TxInv
<1>1. /\ {p \in Senders : pc[p] \in {"count"}} = {p \in Senders : pc[p] = "count"}
      /\ {p \in RxThreads : pc[p] \in {"count"}} = {p \in RxThreads : pc[p] = "count"}
      /\ {s \in OnMain : pc[s] \in {"dead"}} = {s \in OnMain : pc[s] = "dead"}
  OBVIOUS
<1> QED
  BY <1>1 DEF TxStats, TxInv, SendDue, RelayDue, Cut, At, Made, MadeBy

RxInv ==
  /\ framesRx = Len(rxQueue) + recvd + forwarded + hopDrops + diedHolding + Handling
  /\ dropped = hopDrops + errorDrops

LEMMA RxStatsEquiv == RxStats <=> RxInv
BY DEF RxStats, RxInv, Handling, At

LEMMA MadeTypes == ASSUME TypeInv PROVE Made(Senders) \in Nat /\ Made(RxThreads) \in Nat
BY MadeFinite DEF Made

\* Only put and the removals touch the queue.
LEMMA MadeUnchanged ==
  ASSUME TypeInv, Still \/ Burns \/ Drops \/ \E p \in Producers : Packs(p)
  PROVE  UNCHANGED <<Made(Senders), Made(RxThreads)>>
<1>1. CASE Drops
  BY <1>1, MadeDrop DEF Made
<1>2. CASE ~Drops
  <2>1. Queued' = Queued
    BY <1>2 DEF Still, Burns, Packs
  <2> QED
    BY <2>1, MadeSame DEF Made
<1> QED
  BY <1>1, <1>2

\* A thread moves where the transmit counters owe nothing.
LEMMA TxQuiet ==
  ASSUME TypeInv, TxInv, NEW t \in Threads, NEW l, Goto(t, l), l # "count",
         pc[t] \notin {"count", "dead"}, UNCHANGED <<framesTx, forwarded>>,
         UNCHANGED <<Made(Senders), Made(RxThreads)>>
  PROVE  TxInv'
<1>1. /\ Made(Senders) - (framesTx + SendDue) \in 0 .. Cut
      /\ Made(RxThreads) = forwarded + RelayDue
  BY DEF TxInv
<1>2. SendDue' = SendDue /\ RelayDue' = RelayDue /\ Cut' \in {Cut, Cut + 1}
  BY DueMoves, DueTypes
<1>3. /\ Made(Senders) \in Nat /\ Made(RxThreads) \in Nat /\ framesTx \in Nat
      /\ SendDue \in Nat /\ Cut \in Nat
  BY MadeTypes, DueTypes DEF TypeInv, TypeOK
<1> HIDE DEF Made, SendDue, RelayDue, Cut
<1>4. Made(Senders)' - (framesTx' + SendDue') \in 0 .. Cut'
  BY <1>1, <1>2, <1>3
<1>5. Made(RxThreads)' = forwarded' + RelayDue'
  BY <1>1, <1>2
<1> QED
  BY <1>4, <1>5 DEF TxInv

LEMMA TxStill ==
  ASSUME TypeInv, TxInv, UNCHANGED <<framesTx, forwarded>>,
         UNCHANGED <<Made(Senders), Made(RxThreads)>>, UNCHANGED <<SendDue, RelayDue, Cut>>
  PROVE  TxInv'
BY DEF TxInv

LEMMA NextTxInv == TypeInv /\ TxInv /\ [Next]_vars => TxInv'
<1> SUFFICES ASSUME TypeInv, TxInv, [Next]_vars PROVE TxInv'
  OBVIOUS
<1> USE DEF mainVars, rxCounts, rxVars, dropVars, countVars
<1>1. /\ Made(Senders) - (framesTx + SendDue) \in 0 .. Cut
      /\ Made(RxThreads) = forwarded + RelayDue
  BY DEF TxInv
<1>2. /\ Made(Senders) \in Nat /\ Made(RxThreads) \in Nat /\ framesTx \in Nat /\ forwarded \in Nat
      /\ SendDue \in Nat /\ RelayDue \in Nat /\ Cut \in Nat
  BY MadeTypes, DueTypes DEF TypeInv, TypeOK
<1>3. ASSUME UNCHANGED <<txQueue, outVars>>
      PROVE  UNCHANGED <<Made(Senders), Made(RxThreads)>>
  <2>1. Queued' = Queued
    BY <1>3, SameLine DEF outVars
  <2> QED
    BY <2>1, MadeSame DEF Made
<1>4. CASE UNCHANGED vars
  BY <1>3, <1>4, AtSame, TxStill DEF vars
<1>5. CASE MainNext
  <2>1. ASSUME NEW plugged, Start(plugged) PROVE TxInv'
    <3>1. UNCHANGED <<framesTx, forwarded, txQueue, outVars>>
      BY <2>1 DEF Start
    <3> QED
      BY <1>3, <2>1, <3>1, DueStart, TxStill
  <2>2. ASSUME NEW s \in OnMain, Interrupt(s) PROVE TxInv'
    <3>1. s \in Senders /\ s \in Threads /\ s \notin RxThreads
      BY Names
    <3>2. /\ Goto(s, "dead") /\ forwarded' = forwarded /\ UNCHANGED <<txQueue, outVars>>
          /\ \/ pc[s] = "ready" /\ framesTx' = framesTx
             \/ pc[s] = "count" /\ framesTx' \in {framesTx, framesTx + 1}
      BY <2>2 DEF Interrupt
    <3>3. UNCHANGED <<Made(Senders), Made(RxThreads)>>
      BY <1>3, <3>2
    <3>4. CASE pc[s] = "ready" /\ framesTx' = framesTx
      BY <3>1, <3>2, <3>3, <3>4, TxQuiet
    <3>5. CASE pc[s] = "count" /\ framesTx' \in {framesTx, framesTx + 1}
      <4>1. SendDue' = SendDue - 1 /\ RelayDue' = RelayDue /\ Cut' = Cut + 1
        BY <1>2, <3>1, <3>2, <3>5, DueMoves
      <4>2. Made(Senders)' - (framesTx' + SendDue') \in 0 .. Cut'
        BY <1>1, <1>2, <3>3, <3>5, <4>1
      <4>3. Made(RxThreads)' = forwarded' + RelayDue'
        BY <1>1, <3>2, <3>3, <4>1
      <4> QED
        BY <4>2, <4>3 DEF TxInv
    <3> QED
      BY <3>2, <3>4, <3>5
  <2>3. CASE StopFlag \/ StopClose \/ \E plugged : StartFails(plugged)
    <3>1. UNCHANGED <<pc, framesTx, forwarded, txQueue, outVars>>
      BY <2>3 DEF StopFlag, StopClose, StartFails
    <3> QED
      BY <1>3, <3>1, AtSame, TxStill
  <2> QED
    BY <1>5, <2>1, <2>2, <2>3 DEF MainNext
<1>6. CASE AppNext
  <2>1. ASSUME NEW s \in Senders, NEW d \in Peers, Send(s, d) PROVE TxInv'
    <3>1. /\ s \in Threads /\ pc[s] = "ready" /\ Goto(s, "put")
          /\ UNCHANGED <<framesTx, forwarded, txQueue, outVars>>
      BY <2>1, Names DEF Send, Pack
    <3> QED
      BY <1>3, <3>1, TxQuiet
  <2>2. CASE Recv \/ \E s \in Senders : SendFails(s)
    <3>1. UNCHANGED <<pc, framesTx, forwarded, txQueue, outVars>>
      BY <2>2 DEF Recv, SendFails
    <3> QED
      BY <1>3, <3>1, AtSame, TxStill
  <2> QED
    BY <1>6, <2>1, <2>2 DEF AppNext
<1>7. ASSUME NEW p \in Producers, Put(p) PROVE TxInv'
  <2>1. /\ p \in Threads /\ pc[p] = "put" /\ Goto(p, "count") /\ UNCHANGED <<framesTx, forwarded>>
        /\ (p \in Senders \/ p \in RxThreads) /\ ~(p \in Senders /\ p \in RxThreads)
    BY <1>7, Names DEF Put
  <2>2. /\ Made(Senders)' = Made(Senders) + (IF p \in Senders THEN 1 ELSE 0)
        /\ Made(RxThreads)' = Made(RxThreads) + (IF p \in RxThreads THEN 1 ELSE 0)
    BY <1>7, MadePut DEF Made
  <2>3. /\ SendDue' = SendDue + (IF p \in Senders THEN 1 ELSE 0)
        /\ RelayDue' = RelayDue + (IF p \in RxThreads THEN 1 ELSE 0)
        /\ Cut' = Cut
    BY <1>2, <2>1, DueMoves
  <2>4. Made(Senders)' - (framesTx' + SendDue') \in 0 .. Cut'
    BY <1>1, <1>2, <2>1, <2>2, <2>3
  <2>5. Made(RxThreads)' = forwarded' + RelayDue'
    BY <1>1, <1>2, <2>1, <2>2, <2>3
  <2> QED
    BY <2>4, <2>5 DEF TxInv
<1>8. ASSUME NEW p \in Producers, Count(p) PROVE TxInv'
  <2> DEFINE l == IF p \in Senders THEN "ready" ELSE "top"
  <2>1. /\ p \in Threads /\ pc[p] = "count" /\ Goto(p, l) /\ UNCHANGED <<txQueue, outVars>>
        /\ framesTx' = framesTx + (IF p \in Senders THEN 1 ELSE 0)
        /\ forwarded' = forwarded + (IF p \in RxThreads THEN 1 ELSE 0)
    BY <1>8, Names DEF Count
  <2>2. l # "count" /\ l # "dead"
    OBVIOUS
  <2> HIDE DEF l
  <2>3. UNCHANGED <<Made(Senders), Made(RxThreads)>>
    BY <1>3, <2>1
  <2>4. /\ SendDue' = SendDue - (IF p \in Senders THEN 1 ELSE 0)
        /\ RelayDue' = RelayDue - (IF p \in RxThreads THEN 1 ELSE 0)
        /\ Cut' = Cut
    BY <1>2, <2>1, <2>2, DueMoves
  <2>5. Made(Senders)' - (framesTx' + SendDue') \in 0 .. Cut'
    BY <1>1, <1>2, <2>1, <2>3, <2>4
  <2>6. Made(RxThreads)' = forwarded' + RelayDue'
    BY <1>1, <1>2, <2>1, <2>3, <2>4
  <2> QED
    BY <2>5, <2>6 DEF TxInv
<1>9. ASSUME NEW t \in Own, NEW body \in {"read", "get", "beat"}, LoopTest(t, body) PROVE TxInv'
  <2>1. PICK l \in {"read", "get", "beat", "done"} : Goto(t, l)
    BY <1>9 DEF LoopTest
  <2>2. t \in Threads /\ pc[t] = "top" /\ UNCHANGED <<framesTx, forwarded, txQueue, outVars>>
    BY <1>9, Names DEF LoopTest
  <2> QED
    BY <1>3, <2>1, <2>2, TxQuiet
<1>10. CASE TxNext
  <2>1. CASE LoopTest("tx", "get")
    BY <1>9, <2>1, Names
  <2>2. ASSUME NEW l \in {"top", "write"}, Goto("tx", l), pc["tx"] \in {"get", "write"},
               UNCHANGED countVars, Still \/ Drops
        PROVE  TxInv'
    <3>1. UNCHANGED <<Made(Senders), Made(RxThreads)>>
      BY <2>2, MadeUnchanged
    <3> QED
      BY <2>2, <3>1, TxQuiet, Names
  <2>3. CASE GetTimesOut
    <3>1. Still
      BY <2>3, SameLine DEF GetTimesOut, Still, outVars
    <3> QED
      BY <2>2, <2>3, <3>1 DEF GetTimesOut
  <2>4. CASE Get
    BY <2>2, <2>4, GetStep DEF Get
  <2>5. CASE Write
    BY <2>2, <2>5, WriteStep DEF Write
  <2>6. CASE WriteFails \/ WriteNowhere
    <3>1. Drops
      BY <2>6 DEF WriteFails, WriteNowhere, Drops, TypeInv, Control
    <3> QED
      BY <2>2, <2>6, <3>1 DEF WriteFails, WriteNowhere
  <2> QED
    BY <1>10, <2>1, <2>3, <2>4, <2>5, <2>6 DEF TxNext
<1>11. CASE HbNext
  <2>1. CASE Heartbeat
    <3>1. /\ "hb" \in Threads /\ pc["hb"] = "beat" /\ Goto("hb", "dead")
          /\ UNCHANGED <<framesTx, forwarded, txQueue, outVars>>
      BY <2>1, Names DEF Heartbeat
    <3> QED
      BY <1>3, <3>1, TxQuiet
  <2> QED
    BY <1>9, <1>11, <2>1, Names DEF HbNext
<1>12. ASSUME NEW r \in RxThreads, RxNext(r) PROVE TxInv'
  <2>1. CASE LoopTest(r, "read")
    BY <1>9, <2>1, Names
  <2>2. CASE ~LoopTest(r, "read")
    <3>1. /\ r \in Threads /\ pc[r] \in {"read", "route"}
          /\ \E l \in {"top", "route", "put", "dead"} : Goto(r, l)
          /\ UNCHANGED <<framesTx, forwarded, txQueue, outVars>>
      BY <1>12, <2>2, Names DEF RxNext, ReadNothing, RxInput, Read, Deliver, HopDrop, Forward,
                                ForwardDies, Pack
    <3>2. PICK l \in {"top", "route", "put", "dead"} : Goto(r, l)
      BY <3>1
    <3> QED
      BY <1>3, <3>1, <3>2, TxQuiet
  <2> QED
    BY <2>1, <2>2
<1> QED
  BY <1>4, <1>5, <1>6, <1>7, <1>8, <1>10, <1>11, <1>12 DEF Next, Queueing

\* The transmit counters split the queued frames by origin although numbering,
\* queueing and counting are three critical sections; only a caller the signal
\* handler never returns to is missing from frames_tx.
THEOREM NodeTxStats == Spec => []TxStats
<1>1. Init => TxInv
  <2> SUFFICES ASSUME Init PROVE TxInv
    OBVIOUS
  <2>1. Queued = <<>>
    BY DEF Init, Queued, TakenSeq
  <2>2. MadeBy(Senders) = {} /\ MadeBy(RxThreads) = {}
    BY <2>1 DEF MadeBy
  <2>3. /\ {p \in Senders : pc[p] \in {"count"}} = {}
        /\ {p \in RxThreads : pc[p] \in {"count"}} = {}
        /\ {p \in OnMain : pc[p] \in {"dead"}} = {}
    BY Names DEF Init
  <2>4. Made(Senders) = 0 /\ Made(RxThreads) = 0 /\ SendDue = 0 /\ RelayDue = 0 /\ Cut = 0
    BY <2>2, <2>3, FS_EmptySet DEF Made, SendDue, RelayDue, Cut, At
  <2> QED
    BY <2>4 DEF Init, TxInv
<1>2. Spec => []TypeInv
  BY InitTypeInv, NextTypeInv, PTL DEF Spec
<1> QED
  BY <1>1, <1>2, NextTxInv, TxStatsEquiv, PTL DEF Spec

-----------------------------------------------------------------------------
(* The receive counters.                                                    *)

LEMMA RxTypes ==
  ASSUME TypeInv
  PROVE  /\ Handling \in Nat /\ Len(rxQueue) \in Nat /\ framesRx \in Nat /\ recvd \in Nat
         /\ forwarded \in Nat /\ hopDrops \in Nat /\ diedHolding \in Nat
         /\ dropped \in Nat /\ errorDrops \in Nat
<1>1. Len(rxQueue) \in Nat
  BY DEF TypeInv, TypeOK
<1> QED
  BY <1>1, DueTypes DEF TypeInv, TypeOK

RxParts == <<rxQueue, framesRx, recvd, forwarded, hopDrops, diedHolding, dropped, errorDrops>>

LEMMA RxStill == RxInv /\ UNCHANGED RxParts /\ Handling' = Handling => RxInv'
BY DEF RxInv, RxParts

\* A thread moves, and no rx thread takes up or finishes a frame by it.
LEMMA RxQuiet ==
  ASSUME TypeInv, RxInv, NEW t \in Threads, NEW l, Goto(t, l), UNCHANGED RxParts,
         t \in RxThreads => (pc[t] \in {"route", "put", "count"} <=> l \in {"route", "put", "count"})
  PROVE  RxInv'
<1>1. Handling' = Handling
  BY DueMoves, DueTypes
<1> QED
  BY <1>1, RxStill

LEMMA NextRxInv == TypeInv /\ RxInv /\ [Next]_vars => RxInv'
<1> SUFFICES ASSUME TypeInv, RxInv, [Next]_vars PROVE RxInv'
  OBVIOUS
<1> USE DEF mainVars, rxCounts, rxVars, dropVars, countVars, RxParts
<1>0. /\ Handling \in Nat /\ Len(rxQueue) \in Nat /\ framesRx \in Nat /\ recvd \in Nat
      /\ forwarded \in Nat /\ hopDrops \in Nat /\ diedHolding \in Nat
      /\ dropped \in Nat /\ errorDrops \in Nat
  BY RxTypes
<1>1. CASE UNCHANGED vars
  BY <1>1, AtSame, RxStill DEF vars
<1>2. CASE MainNext
  <2>1. ASSUME NEW plugged, Start(plugged) PROVE RxInv'
    <3>1. UNCHANGED RxParts
      BY <2>1 DEF Start
    <3> QED
      BY <2>1, <3>1, DueStart, RxStill
  <2>2. ASSUME NEW s \in OnMain, Interrupt(s) PROVE RxInv'
    <3>1. s \in Threads /\ s \notin RxThreads /\ Goto(s, "dead") /\ UNCHANGED RxParts
      BY <2>2, Names DEF Interrupt
    <3> QED
      BY <3>1, RxQuiet
  <2>3. CASE StopFlag \/ StopClose \/ \E plugged : StartFails(plugged)
    <3>1. UNCHANGED pc /\ UNCHANGED RxParts
      BY <2>3 DEF StopFlag, StopClose, StartFails
    <3> QED
      BY <3>1, AtSame, RxStill
  <2> QED
    BY <1>2, <2>1, <2>2, <2>3 DEF MainNext
<1>3. CASE AppNext
  <2>1. ASSUME NEW s \in Senders, NEW d \in Peers, Send(s, d) PROVE RxInv'
    <3>1. s \in Threads /\ s \notin RxThreads /\ Goto(s, "put") /\ UNCHANGED RxParts
      BY <2>1, Names DEF Send, Pack
    <3> QED
      BY <3>1, RxQuiet
  <2>2. ASSUME NEW s \in Senders, SendFails(s) PROVE RxInv'
    <3>1. UNCHANGED pc /\ UNCHANGED RxParts
      BY <2>2 DEF SendFails
    <3> QED
      BY <3>1, AtSame, RxStill
  <2>3. CASE Recv
    <3>1. Handling' = Handling
      BY <2>3, AtSame DEF Recv
    <3>2. Len(rxQueue') = Len(rxQueue) - 1 /\ recvd' = recvd + 1
      BY <2>3 DEF Recv, TypeInv, TypeOK
    <3>3. UNCHANGED <<framesRx, forwarded, hopDrops, diedHolding, dropped, errorDrops>>
      BY <2>3 DEF Recv
    <3> QED
      BY <3>1, <3>2, <3>3, <1>0 DEF RxInv
  <2> QED
    BY <1>3, <2>1, <2>2, <2>3 DEF AppNext
<1>4. ASSUME NEW p \in Producers, Put(p) PROVE RxInv'
  <2>1. p \in Threads /\ pc[p] = "put" /\ Goto(p, "count") /\ UNCHANGED RxParts
    BY <1>4, Names DEF Put
  <2> QED
    BY <2>1, RxQuiet
<1>5. ASSUME NEW p \in Producers, Count(p) PROVE RxInv'
  <2> DEFINE l == IF p \in Senders THEN "ready" ELSE "top"
             one == IF p \in RxThreads THEN 1 ELSE 0
  <2>1. /\ p \in Threads /\ pc[p] = "count" /\ Goto(p, l) /\ forwarded' = forwarded + one
        /\ Len(rxQueue') = Len(rxQueue) /\ UNCHANGED <<framesRx, recvd, hopDrops, diedHolding, dropped, errorDrops>>
    BY <1>5, Names DEF Count
  <2>2. l \notin {"route", "put", "count"}
    OBVIOUS
  <2> HIDE DEF l
  <2>3. Handling' = Handling - one
    BY <2>1, <2>2, DueMoves, DueTypes
  <2> QED
    BY <2>1, <2>3, <1>0 DEF RxInv
<1>6. ASSUME NEW t \in Own, NEW body \in {"read", "get", "beat"}, LoopTest(t, body) PROVE RxInv'
  <2>1. PICK l \in {"read", "get", "beat", "done"} : Goto(t, l)
    BY <1>6 DEF LoopTest
  <2>2. t \in Threads /\ pc[t] = "top" /\ UNCHANGED RxParts
    BY <1>6, Names DEF LoopTest
  <2> QED
    BY <2>1, <2>2, RxQuiet
<1>7. CASE TxNext
  <2>1. CASE LoopTest("tx", "get")
    BY <1>6, <2>1, Names
  <2>2. CASE GetTimesOut \/ Get \/ Write \/ WriteNowhere
    <3>1. \E l \in {"top", "write"} : Goto("tx", l)
      BY <2>2 DEF GetTimesOut, Get, Write, WriteNowhere
    <3>2. UNCHANGED RxParts
      BY <2>2 DEF GetTimesOut, Get, Write, WriteNowhere
    <3> QED
      BY <3>1, <3>2, RxQuiet, Names
  <2>3. CASE WriteFails
    <3>1. Goto("tx", "top") /\ "tx" \in Threads /\ "tx" \notin RxThreads
      BY <2>3, Names DEF WriteFails
    <3>2. Handling' = Handling
      BY <3>1, DueMoves, DueTypes
    <3>3. /\ dropped' = dropped + 1 /\ errorDrops' = errorDrops + 1
          /\ Len(rxQueue') = Len(rxQueue) /\ UNCHANGED <<framesRx, recvd, forwarded, hopDrops, diedHolding>>
      BY <2>3 DEF WriteFails
    <3> QED
      BY <3>2, <3>3, <1>0 DEF RxInv
  <2> QED
    BY <1>7, <2>1, <2>2, <2>3 DEF TxNext
<1>8. CASE HbNext
  <2>1. CASE Heartbeat
    <3>1. "hb" \in Threads /\ "hb" \notin RxThreads /\ Goto("hb", "dead") /\ UNCHANGED RxParts
      BY <2>1, Names DEF Heartbeat
    <3> QED
      BY <3>1, RxQuiet
  <2> QED
    BY <1>6, <1>8, <2>1, Names DEF HbNext
<1>9. ASSUME NEW r \in RxThreads, RxNext(r) PROVE RxInv'
  <2>1. r \in Threads /\ r \in Own
    BY Names
  <2>2. CASE LoopTest(r, "read")
    BY <1>6, <2>1, <2>2
  <2>3. CASE ReadNothing(r)
    <3>1. pc[r] = "read" /\ Goto(r, "top") /\ UNCHANGED RxParts
      BY <2>3 DEF ReadNothing
    <3> QED
      BY <2>1, <3>1, RxQuiet
  <2>4. ASSUME NEW f \in Inbound, Read(r, f) PROVE RxInv'
    <3>1. pc[r] = "read" /\ Goto(r, "route") /\ framesRx' = framesRx + 1
          /\ Len(rxQueue') = Len(rxQueue) /\ UNCHANGED <<recvd, forwarded, hopDrops, diedHolding, dropped, errorDrops>>
      BY <2>4 DEF Read
    <3>2. Handling' = Handling + 1
      BY <2>1, <3>1, DueMoves, DueTypes
    <3> QED
      BY <3>1, <3>2, <1>0 DEF RxInv
  <2>5. ASSUME pc[r] = "route", NEW l \in {"top", "dead"}, Goto(r, l)
        PROVE  Handling' = Handling - 1
    BY <2>1, <2>5, DueMoves, DueTypes
  <2>6. CASE Deliver(r)
    <3>1. rxQueue' = Append(rxQueue, rxHand[r])
          /\ UNCHANGED <<framesRx, recvd, forwarded, hopDrops, diedHolding, dropped, errorDrops>>
      BY <2>6 DEF Deliver
    <3>2. Len(rxQueue') = Len(rxQueue) + 1
      BY <3>1 DEF TypeInv, TypeOK
    <3>3. Handling' = Handling - 1
      BY <2>5, <2>6 DEF Deliver
    <3> QED
      BY <3>1, <3>2, <3>3, <1>0 DEF RxInv
  <2>7. CASE HopDrop(r)
    <3>1. /\ dropped' = dropped + 1 /\ hopDrops' = hopDrops + 1
          /\ Len(rxQueue') = Len(rxQueue) /\ UNCHANGED <<framesRx, recvd, forwarded, diedHolding, errorDrops>>
      BY <2>7 DEF HopDrop
    <3>2. Handling' = Handling - 1
      BY <2>5, <2>7 DEF HopDrop
    <3> QED
      BY <3>1, <3>2, <1>0 DEF RxInv
  <2>8. CASE Forward(r)
    <3>1. pc[r] = "route" /\ Goto(r, "put") /\ UNCHANGED RxParts
      BY <2>8 DEF Forward, Pack
    <3> QED
      BY <2>1, <3>1, RxQuiet
  <2>9. CASE ForwardDies(r)
    <3>1. /\ diedHolding' = diedHolding + 1
          /\ Len(rxQueue') = Len(rxQueue) /\ UNCHANGED <<framesRx, recvd, forwarded, hopDrops, dropped, errorDrops>>
      BY <2>9 DEF ForwardDies
    <3>2. Handling' = Handling - 1
      BY <2>5, <2>9 DEF ForwardDies
    <3> QED
      BY <3>1, <3>2, <1>0 DEF RxInv
  <2> QED
    BY <1>9, <2>2, <2>3, <2>4, <2>6, <2>7, <2>8, <2>9 DEF RxNext, RxInput
<1> QED
  BY <1>1, <1>2, <1>3, <1>4, <1>5, <1>7, <1>8, <1>9 DEF Next, Queueing

\* Every frame counted in frames_rx is delivered or received by the application,
\* relayed, dropped at the hop limit, lost with the thread that died on it, or
\* still in a thread's hands, between the critical sections of forward() too.
THEOREM NodeRxStats == Spec => []RxStats
<1>1. Init => RxInv
  <2> SUFFICES ASSUME Init PROVE RxInv
    OBVIOUS
  <2>1. {r \in RxThreads : pc[r] \in {"route", "put", "count"}} = {}
    BY Names DEF Init
  <2>2. Handling = 0
    BY <2>1, FS_EmptySet DEF Handling, At
  <2>3. Len(rxQueue) = 0
    BY DEF Init
  <2> QED
    BY <2>2, <2>3 DEF Init, RxInv
<1>2. Spec => []TypeInv
  BY InitTypeInv, NextTypeInv, PTL DEF Spec
<1> QED
  BY <1>1, <1>2, NextRxInv, RxStatsEquiv, PTL DEF Spec
=============================================================================
