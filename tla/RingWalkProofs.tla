---------------------------- MODULE RingWalkProofs ----------------------------
(***************************************************************************)
(* Proofs that tables computed independently on every node of a ring lead  *)
(* a frame along a shortest path, for every ring size and hop limit.       *)
(***************************************************************************)
EXTENDS RingWalk, TLAPS

\* Distances on a ring, without the modulus.
LEMMA ModSmall ==
  ASSUME NEW a \in Nat, NEW n \in Nat \ {0}, a < n
  PROVE  a % n = a
OBVIOUS

LEMMA ModNegative ==
  ASSUME NEW a \in Int, NEW n \in Nat \ {0}, a < 0, -n <= a
  PROVE  a % n = a + n
OBVIOUS

LEMMA ModItself ==
  ASSUME NEW n \in Nat \ {0}
  PROVE  n % n = 0
OBVIOUS

LEMMA ClockwiseStep ==
  ASSUME NEW n \in Nat \ {0}, NEW i \in 1 .. n
  PROVE  Clockwise(i, n) = IF i = n THEN 1 ELSE i + 1
BY ModSmall, ModItself DEF Clockwise

LEMMA CounterStep ==
  ASSUME NEW n \in Nat \ {0, 1}, NEW i \in 1 .. n
  PROVE  Counter(i, n) = IF i = 1 THEN n ELSE i - 1
<1>1. CASE i = 1
  <2>1. (i - 2) % n = -1 + n
    BY <1>1, ModNegative
  <2> QED
    BY <1>1, <2>1 DEF Counter
<1>2. CASE i # 1
  <2>1. i - 2 \in Nat /\ i - 2 < n
    BY <1>2
  <2>2. (i - 2) % n = i - 2
    BY <2>1, ModSmall
  <2> QED
    BY <1>2, <2>2 DEF Counter
<1> QED
  BY <1>1, <1>2

LEMMA ModDifference ==
  ASSUME NEW n \in Nat \ {0}, NEW i \in 1 .. n, NEW m \in 1 .. n
  PROVE  (i - m) % n = IF i >= m THEN i - m ELSE i - m + n
<1>1. CASE i >= m
  <2>1. i - m \in Nat /\ i - m < n
    BY <1>1
  <2> QED
    BY <1>1, <2>1, ModSmall
<1>2. CASE i < m
  <2>1. i - m \in Int /\ i - m < 0 /\ -n <= i - m
    BY <1>2
  <2> QED
    BY <1>2, <2>1, ModNegative
<1> QED
  BY <1>1, <1>2

\* One link in the direction the code computes brings a frame one closer.
LEMMA ShorterWayIsCloser ==
  ASSUME NEW n \in Nat \ {0, 1}, NEW m \in 1 .. n, NEW d \in 1 .. n, m # d
  PROVE  LET p == Peer(m, ShorterWay(d, m, n), n)
         IN p \in 1 .. n /\ Dist(p, d, n) = Dist(m, d, n) - 1
<1> DEFINE p == Peer(m, ShorterWay(d, m, n), n)
<1>1. (d - m) % n = IF d >= m THEN d - m ELSE d - m + n
  BY ModDifference
<1>2. (m - d) % n = IF m >= d THEN m - d ELSE m - d + n
  BY ModDifference
<1>3. Clockwise(m, n) = IF m = n THEN 1 ELSE m + 1
  BY ClockwiseStep
<1>4. Counter(m, n) = IF m = 1 THEN n ELSE m - 1
  BY CounterStep
<1>5. CASE (d - m) % n <= (m - d) % n
  <2>1. p = IF m = n THEN 1 ELSE m + 1
    BY <1>3, <1>5 DEF Peer, ShorterWay
  <2> HIDE DEF p
  <2> QED
    BY <1>1, <1>2, <1>5, <2>1 DEF Dist, p
<1>6. CASE ~((d - m) % n <= (m - d) % n)
  <2>1. p = IF m = 1 THEN n ELSE m - 1
    BY <1>4, <1>6 DEF Peer, ShorterWay
  <2> QED
    BY <1>1, <1>2, <1>6, <2>1 DEF Dist
<1> QED
  BY <1>5, <1>6

-----------------------------------------------------------------------------
(* What bringing the ring up leaves in a node's table.                       *)

LEMMA RingFacts ==
  ASSUME NEW n \in Nat \ {0}
  PROVE  /\ Ring(n) \in Seq(1 .. n) /\ Len(Ring(n)) = n /\ Range(Ring(n)) = 1 .. n
         /\ \A i \in 1 .. n : Ring(n)[i] = i
<1>1. Ring(n) \in Seq(1 .. n) /\ Len(Ring(n)) = n /\ DOMAIN Ring(n) = 1 .. n
  BY DEF Ring
<1>2. \A i \in 1 .. n : Ring(n)[i] = i
  BY DEF Ring
<1>3. Range(Ring(n)) = 1 .. n
  BY <1>1, <1>2 DEF Range
<1> QED
  BY <1>1, <1>2, <1>3

\* Adopting the full ring routes every other node the shorter way.
LEMMA RingRoutesShorter ==
  ASSUME NEW n \in Nat \ {0, 1}, NEW me \in 1 .. n, NEW d \in 1 .. n, d # me
  PROVE  d \in DOMAIN RingRoutes(Ring(n), me)
         /\ RingRoutes(Ring(n), me)[d] = ShorterWay(d, me, n)
<1> DEFINE r == Ring(n)
<1>1. Len(r) = n /\ Range(r) = 1 .. n /\ \A i \in 1 .. n : r[i] = i
  BY RingFacts
<1>2. {i \in 1 .. Len(r) : r[i] = me} = {me} /\ {i \in 1 .. Len(r) : r[i] = d} = {d}
  BY <1>1
<1>3. Min({me}) = me /\ Max({d}) = d
  BY DEF Min, Max
<1>4. SelectInSeq(r, LAMBDA x : x = me) = me
  BY <1>2, <1>3 DEF SelectInSeq
<1>5. SelectLastInSeq(r, LAMBDA x : x = d) = d
  BY <1>2, <1>3 DEF SelectLastInSeq
<1> QED
  BY <1>1, <1>4, <1>5 DEF RingRoutes

LEMMA AppendNewFacts ==
  ASSUME NEW S, NEW r \in Seq(S), NEW x \in S
  PROVE  /\ AppendNew(r, x) \in Seq(S) /\ Range(AppendNew(r, x)) = Range(r) \cup {x}
         /\ Len(AppendNew(r, x)) = IF x \in Range(r) THEN Len(r) ELSE Len(r) + 1
         /\ x \in Range(r) => AppendNew(r, x) = r
<1>1. CASE x \in Range(r)
  BY <1>1 DEF AppendNew
<1>2. CASE x \notin Range(r)
  <2>1. AppendNew(r, x) = Append(r, x)
    BY <1>2 DEF AppendNew
  <2>2. /\ Append(r, x) \in Seq(S) /\ Len(Append(r, x)) = Len(r) + 1 /\ Len(r) \in Nat
        /\ \A i \in 1 .. Len(r) : Append(r, x)[i] = r[i]
        /\ Append(r, x)[Len(r) + 1] = x
    OBVIOUS
  <2>3. DOMAIN Append(r, x) = 1 .. Len(r) + 1 /\ DOMAIN r = 1 .. Len(r)
    BY <2>2
  <2>4. \A i \in 1 .. Len(r) + 1 : i \in 1 .. Len(r) \/ i = Len(r) + 1
    BY <2>2
  <2>5. Range(Append(r, x)) = Range(r) \cup {x}
    BY <2>2, <2>3, <2>4 DEF Range
  <2> QED
    BY <1>2, <2>1, <2>2, <2>5
<1> QED
  BY <1>1, <1>2

\* Registering the two neighbours leaves a ring no longer than the real one.
LEMMA NeighborRing ==
  ASSUME NEW n \in Nat \ {0, 1}, NEW me \in 1 .. n
  PROVE  LET one == AddNeighbor(EmptyTable, me, Clockwise(me, n), "host")
             two == AddNeighbor(one, me, Counter(me, n), "gadget")
         IN Len(two.ring) <= n
<1> DEFINE c == Clockwise(me, n)
           k == Counter(me, n)
           S == 1 .. n
           one == AddNeighbor(EmptyTable, me, c, "host")
           two == AddNeighbor(one, me, k, "gadget")
           r1 == AppendNew(AppendNew(<<>>, c), me)
           r2 == AppendNew(AppendNew(one.ring, k), me)
<1>1. c # me /\ c \in S /\ k # me /\ k \in S /\ me \in S /\ (n = 2 => k = c)
  BY ClockwiseStep, CounterStep
<1> HIDE DEF c, k, S
<1>2. <<>> \in Seq(S) /\ Range(<<>>) = {} /\ Len(<<>>) = 0
  BY DEF Range
<1>3. r1 \in Seq(S) /\ Range(r1) = {c, me} /\ Len(r1) = 2
  <2> DEFINE q == AppendNew(<<>>, c)
  <2>1. q = <<c>>
    BY DEF AppendNew, Range
  <2>2. q \in Seq(S) /\ Range(q) = {c} /\ Len(q) = 1 /\ me \notin Range(q)
    <3>1. <<c>> \in Seq(S) /\ Len(<<c>>) = 1
      BY <1>1
    <3>2. Range(<<c>>) = {c}
      BY DEF Range
    <3> QED
      BY <1>1, <2>1, <3>1, <3>2
  <2> HIDE DEF q
  <2>3. /\ AppendNew(q, me) \in Seq(S) /\ Range(AppendNew(q, me)) = Range(q) \cup {me}
        /\ Len(AppendNew(q, me)) = IF me \in Range(q) THEN Len(q) ELSE Len(q) + 1
    BY <1>1, <2>2, AppendNewFacts
  <2>4. r1 = AppendNew(q, me)
    BY DEF q
  <2> HIDE DEF r1
  <2> QED
    BY <2>2, <2>3, <2>4
<1> HIDE DEF r1
<1>4. AppendNew(r1, me) = r1
  BY <1>3 DEF AppendNew
<1>5. one.ring = r1
  BY <1>3, <1>4 DEF AddNeighbor, Recompute, EmptyTable, r1
<1> HIDE DEF one
<1>6. r2 \in Seq(S) /\ me \in Range(r2) /\ Len(r2) = IF k = c THEN 2 ELSE 3
  <2> DEFINE q == AppendNew(r1, k)
  <2>1. q \in Seq(S) /\ me \in Range(q) /\ Len(q) = IF k = c THEN 2 ELSE 3
    <3>1. /\ q \in Seq(S) /\ Range(q) = Range(r1) \cup {k}
          /\ Len(q) = IF k \in Range(r1) THEN Len(r1) ELSE Len(r1) + 1
      BY <1>1, <1>3, AppendNewFacts
    <3>2. k \in Range(r1) <=> k = c
      BY <1>1, <1>3
    <3> HIDE DEF q
    <3> QED
      BY <1>3, <3>1, <3>2
  <2> HIDE DEF q
  <2>2. AppendNew(q, me) = q
    BY <2>1 DEF AppendNew
  <2> QED
    BY <1>5, <2>1, <2>2 DEF q
<1> HIDE DEF r2
<1>7. AppendNew(r2, me) = r2
  BY <1>6 DEF AppendNew
<1>8. two.ring = r2
  BY <1>6, <1>7 DEF AddNeighbor, Recompute, r2
<1> HIDE DEF two
<1>9. Len(two.ring) <= n
  <2>1. k = c \/ n >= 3
    BY <1>1
  <2> QED
    <3>1. Len(r2) <= n
      BY <1>6, <2>1
    <3> QED
      BY <1>8, <3>1
<1> QED
  BY <1>9 DEF one, two, c, k

LEMMA NextHopShorter ==
  ASSUME WalkConstants, NEW n \in Sizes, NEW me \in 1 .. n, NEW d \in 1 .. n, d # me
  PROVE  GetNextHop(Tables[n][me], d, Broadcast) = ShorterWay(d, me, n)
<1> DEFINE one == AddNeighbor(EmptyTable, me, Clockwise(me, n), "host")
           two == AddNeighbor(one, me, Counter(me, n), "gadget")
           t == [two EXCEPT !.ring = Ring(n)]
<1>1. n \in Nat \ {0, 1} /\ d # Broadcast
  BY DEF WalkConstants
<1>2. Len(two.ring) <= n /\ Len(Ring(n)) = n /\ me \in Range(Ring(n))
  BY <1>1, NeighborRing, RingFacts
<1>3. AppendNew(Ring(n), me) = Ring(n)
  BY <1>2 DEF AppendNew
<1>4. "ring" \in DOMAIN two /\ "routes" \in DOMAIN two
  BY DEF AddNeighbor, Recompute
<1> HIDE DEF two
<1>5. UpdateFromHello(two, me, Ring(n)) = Recompute(t, me)
  BY <1>2, <1>3 DEF UpdateFromHello
<1>6. t.ring = Ring(n) /\ "routes" \in DOMAIN t
  BY <1>4
<1> HIDE DEF t
<1>7. Recompute(t, me).routes = Update(t.routes, RingRoutes(Ring(n), me))
  BY <1>1, <1>2, <1>3, <1>6 DEF Recompute
<1>8. /\ d \in DOMAIN Recompute(t, me).routes
      /\ Recompute(t, me).routes[d] = ShorterWay(d, me, n)
  BY <1>1, <1>7, RingRoutesShorter DEF Update
<1>9. Tables[n][me] = Recompute(t, me)
  BY <1>5 DEF Tables, TableOf, Nodes, two
<1> QED
  BY <1>1, <1>8, <1>9 DEF GetNextHop

-----------------------------------------------------------------------------
\* ShortestPath with what makes it inductive: the hop count lags the links by
\* one, and a frame dropped has used the whole limit short of its destination.
WalkInv ==
  /\ TypeOK /\ ShortestPath /\ src # dst
  /\ links = 0 => at = src
  /\ links > 0 => links = hop + 1
  /\ fate = "dropped" => at # dst /\ links > 0 /\ hop = MaxHop

USE WalkConstants

LEMMA InitWalk == Init => WalkInv
<1> SUFFICES ASSUME Init PROVE WalkInv
  OBVIOUS
<1>1. TypeOK
  BY DEF Init, TypeOK, Nodes
<1>2. Dist(at, dst, size) \in Int
  BY <1>1 DEF TypeOK, Dist, Nodes, WalkConstants
<1>3. ShortestPath
  BY <1>2 DEF Init, ShortestPath
<1> QED
  BY <1>1, <1>3 DEF Init, WalkInv

LEMMA CrossWalk ==
  ASSUME WalkInv, NEW h \in 0 .. MaxHop, Cross(h), at # dst, fate = "held", links = h
  PROVE  WalkInv'
<1>1. size \in Sizes /\ size \in Nat \ {0, 1} /\ at \in 1 .. size /\ dst \in 1 .. size
      /\ src \in 1 .. size /\ links \in Nat
  BY DEF WalkInv, TypeOK, Nodes, WalkConstants
<1>2. at' = Peer(at, ShorterWay(dst, at, size), size)
  BY <1>1, NextHopShorter DEF Cross
<1>3. at' \in 1 .. size /\ Dist(at', dst, size) = Dist(at, dst, size) - 1
  BY <1>1, <1>2, ShorterWayIsCloser
<1>4. Dist(at, dst, size) \in Int /\ Dist(src, dst, size) \in Int
  BY <1>1 DEF Dist
<1>5. UNCHANGED <<size, src, dst, fate>> /\ hop' = h /\ links' = links + 1
  BY DEF Cross
<1>6. ShortestPath'
  BY <1>1, <1>3, <1>4, <1>5 DEF WalkInv, ShortestPath
<1>7. TypeOK'
  BY <1>1, <1>3, <1>5 DEF WalkInv, TypeOK, Nodes
<1> QED
  BY <1>1, <1>5, <1>6, <1>7 DEF WalkInv

LEMMA NextWalk == WalkInv /\ [Next]_vars => WalkInv'
<1> SUFFICES ASSUME WalkInv, [Next]_vars PROVE WalkInv'
  OBVIOUS
<1>1. CASE Originate
  BY <1>1, CrossWalk DEF Originate, WalkInv, WalkConstants
<1>2. CASE Forward
  <2>1. hop \in 0 .. MaxHop /\ hop < MaxHop /\ links = hop + 1
    BY <1>2 DEF Forward, WalkInv, TypeOK
  <2> QED
    BY <1>2, <2>1, CrossWalk DEF Forward, WalkConstants
<1>3. CASE Deliver
  BY <1>3 DEF Deliver, WalkInv, TypeOK, ShortestPath, Nodes
<1>4. CASE Drop
  BY <1>4 DEF Drop, WalkInv, TypeOK, ShortestPath, Nodes
<1>5. CASE UNCHANGED vars
  BY <1>5 DEF vars, WalkInv, TypeOK, ShortestPath, Nodes
<1> QED
  BY <1>1, <1>2, <1>3, <1>4, <1>5 DEF Next

\* The walk stays on the ring and within the hop limit: every table routes every
\* frame to a neighbour that exists, whatever the ring's size.
THEOREM WalkTypes == Spec => []TypeOK
<1>1. WalkInv => TypeOK
  BY DEF WalkInv
<1> QED
  BY <1>1, InitWalk, NextWalk, PTL DEF Spec

\* In a ring of any size, the routes each node computes from its own position
\* lead a frame along a shortest path.
THEOREM WalkIsShortest == Spec => []ShortestPath
<1>1. WalkInv => ShortestPath
  BY DEF WalkInv
<1> QED
  BY <1>1, InitWalk, NextWalk, PTL DEF Spec

\* The hop limit never drops a frame whose destination is within MaxHop + 1
\* links, whatever the ring's size.
THEOREM LimitSparesNear == Spec => []DroppedOnlyWhenFar
<1>1. WalkInv => DroppedOnlyWhenFar
  <2> SUFFICES ASSUME WalkInv, fate = "dropped" PROVE Dist(src, dst, size) > MaxHop + 1
    BY DEF DroppedOnlyWhenFar
  <2>1. size \in Nat \ {0, 1} /\ at \in 1 .. size /\ dst \in 1 .. size /\ at # dst
    BY DEF WalkInv, TypeOK, Nodes, WalkConstants
  <2>2. Dist(at, dst, size) \in Nat \ {0}
    BY <2>1 DEF Dist
  <2>3. links = MaxHop + 1 /\ links + Dist(at, dst, size) = Dist(src, dst, size)
    BY DEF WalkInv, ShortestPath
  <2> QED
    BY <2>2, <2>3 DEF WalkConstants
<1> QED
  BY <1>1, InitWalk, NextWalk, PTL DEF Spec

\* The walk of a frame through any ring implements the delivery promise: its
\* initial states are the promise's, and every step is a step of it.
THEOREM WalkKeepsPromise == Spec => Promise!Spec
<1>1. WalkInv => /\ MaxHop \in Nat /\ hop \in 0 .. MaxHop /\ links \in Nat
                 /\ src \in 1 .. size /\ dst \in 1 .. size /\ at \in 1 .. size
                 /\ size \in Nat \ {0, 1} /\ Dist(at, dst, size) \in Nat
                 /\ Dist(src, dst, size) \in Nat
                 /\ at # dst <=> Dist(at, dst, size) # 0
  BY DEF WalkInv, TypeOK, Nodes, WalkConstants, Dist
<1>2. Init => Promise!Init
  <2> SUFFICES ASSUME Init PROVE Promise!Init
    OBVIOUS
  <2>1. at # dst /\ links = 0 /\ fate = "held" /\ Dist(at, dst, size) \in Nat \ {0}
    BY <1>1, InitWalk DEF Init
  <2> QED
    BY <2>1 DEF Promise!Init, WalkConstants
<1>3. WalkInv /\ WalkInv' /\ [Next]_vars => [Promise!Next]_(Promise!vars)
  <2> SUFFICES ASSUME WalkInv, WalkInv', [Next]_vars PROVE [Promise!Next]_(Promise!vars)
    OBVIOUS
  <2>1. ASSUME NEW h \in 0 .. MaxHop, Cross(h), fate = "held", at # dst, links = h
        PROVE  Promise!Approach
    <3>1. Dist(at', dst, size) = Dist(at, dst, size) - 1
      <4>1. UNCHANGED <<size, src, dst>> /\ links' = links + 1
        BY <2>1 DEF Cross
      <4>2. /\ links + Dist(at, dst, size) = Dist(src, dst, size)
            /\ links' + Dist(at', dst, size) = Dist(src, dst, size)
        BY <4>1 DEF WalkInv, ShortestPath
      <4>3. Dist(at', dst, size) \in Int
        <5>1. at' \in 1 .. size
          BY <4>1 DEF WalkInv, TypeOK, Nodes
        <5> QED
          BY <1>1, <5>1 DEF Dist
      <4> QED
        BY <1>1, <4>1, <4>2, <4>3
    <3>2. links' = links + 1 /\ UNCHANGED <<size, dst, fate>>
      BY <2>1 DEF Cross
    <3> QED
      BY <1>1, <2>1, <3>1, <3>2 DEF Promise!Approach
  <2>2. CASE Originate
    BY <1>1, <2>1, <2>2 DEF Originate, WalkInv, Promise!Next
  <2>3. CASE Forward
    BY <1>1, <2>1, <2>3 DEF Forward, WalkInv, Promise!Next
  <2>4. CASE Deliver
    BY <1>1, <2>4 DEF Deliver, Promise!Deliver, Promise!Next
  <2>5. CASE Drop
    BY <1>1, <2>5 DEF Drop, WalkInv, Promise!GiveUp, Promise!Next
  <2>6. CASE UNCHANGED vars
    BY <2>6 DEF vars, Promise!vars
  <2> QED
    BY <2>2, <2>3, <2>4, <2>5, <2>6 DEF Next
<1> QED
  BY <1>2, <1>3, InitWalk, NextWalk, PTL DEF Spec, Promise!Spec
================================================================================
