--------------------------- MODULE UdfFrameProofs ---------------------------
(***************************************************************************)
(* Proofs about the frame codec of UdfFrame, for every set of inputs and   *)
(* keys: what a receiver accepts is what was sent, the limits the code     *)
(* names are exactly those of its reads, and the contents of CAP and HELLO *)
(* frames come back.                                                       *)
(***************************************************************************)
EXTENDS UdfFrame, WellFoundedInduction, TLAPS

\* Padding, for every length, and the two limits it turns into.
LEMMA Padding ==
  ASSUME NEW n \in Nat
  PROVE  /\ Pad16(n) \in Nat /\ Pad16(n) % 16 = 0 /\ Pad16(n) - n \in 0 .. 15
         /\ Pad16(n) <= MAX_PAYLOAD <=> n <= MAX_PAYLOAD
         /\ Pad16(n) <= MAX_PAYLOAD_AUTH <=> n <= MAX_PAYLOAD_AUTH
BY SMT DEF Pad16, MAX_PAYLOAD, MAX_PAYLOAD_AUTH, AUTH_TAG_SIZE

\* Every constructor makes a frame of the six fields, its payload of two.
LEMMA Shape ==
  ASSUME NEW i \in Inputs
  PROVE  LET f == Made(i)
         IN /\ f.payload.len \in Nat
            /\ f = [src |-> f.src, dst |-> f.dst, seq |-> f.seq, hop |-> f.hop, flags |-> f.flags,
                    payload |-> [len |-> f.payload.len, data |-> f.payload.data]]
<1>1. i.kind \in {"hb", "syn", "ack", "cap", "hello", "data"}
      /\ (i.kind = "data" => i.payload \in [len : Nat, data : Seq(Nat)])
      /\ (i.kind = "hello" => i.nodes \in Seq(Nat))
  BY FrameConstants
<1>2. CASE i.kind = "hb"
  BY <1>2 DEF Made, MakeHeartbeat, Plain, NoPayload
<1>3. CASE i.kind = "syn"
  BY <1>3 DEF Made, MakeSyn, Plain, NoPayload
<1>4. CASE i.kind = "ack"
  BY <1>4 DEF Made, MakeAck, Plain, NoPayload
<1>5. CASE i.kind = "cap"
  BY <1>5 DEF Made, MakeCap, Plain, CapPayload
<1>6. CASE i.kind = "hello"
  <2> DEFINE l == 3 + Len(i.nodes)
             d == <<HELLO_MAGIC, i.src, Len(i.nodes)>> \o i.nodes
  <2>1. l \in Nat
    BY <1>1, <1>6
  <2>2. Made(i) = [src |-> i.src, dst |-> 255, seq |-> i.seq, hop |-> 0, flags |-> {},
                   payload |-> [len |-> l, data |-> d]]
    BY <1>6 DEF Made, MakeHello, Plain, HelloPayload
  <2> HIDE DEF l, d
  <2> QED
    BY <2>1, <2>2
<1>7. CASE i.kind = "data"
  <2>1. Made(i) = [src |-> i.src, dst |-> i.dst, seq |-> i.seq, hop |-> i.hop, flags |-> {},
                   payload |-> i.payload]
    BY <1>7 DEF Made, MakeData, Plain
  <2>2. i.payload = [len |-> i.payload.len, data |-> i.payload.data] /\ i.payload.len \in Nat
    BY <1>1, <1>7
  <2> QED
    BY <2>1, <2>2
<1> QED
  BY <1>1, <1>2, <1>3, <1>4, <1>5, <1>6, <1>7

TagSize(k) == IF k = NoKey THEN 0 ELSE AUTH_TAG_SIZE
CrcAt(i, k) == HDR_SIZE + Pad16(Made(i).payload.len) + TagSize(k)

\* A packed frame part by part, and that reading the parts gives the frame back.
LEMMA PackedShape ==
  ASSUME NEW i \in Inputs, NEW k \in Keys \cup {NoKey}
  PROVE  LET f == Made(i)  b == Packed(i, k)
         IN /\ b = [size |-> CrcAt(i, k) + CRC_SIZE, magic |-> "UF", head |-> Header(f), body |-> b.body,
                    tag |-> b.tag, crc |-> [at |-> CrcAt(i, k), of |-> <<Header(f), b.body, b.tag>>]]
            /\ b.tag = IF k = NoKey THEN NoKey ELSE ComputeTag(k, Header(f), b.body)
            /\ Header(f).plen = f.payload.len
            /\ FrameOf(b) = f
<1> DEFINE f == Made(i)
<1>1. f = [src |-> f.src, dst |-> f.dst, seq |-> f.seq, hop |-> f.hop, flags |-> f.flags,
           payload |-> [len |-> f.payload.len, data |-> f.payload.data]]
  BY Shape
<1> HIDE DEF f
<1>2. NoKey \notin Keys
  BY FrameConstants
<1>3. CASE k = NoKey
  BY <1>1, <1>3 DEF Packed, Pack, PackAs, Header, FrameOf, CrcAt, TagSize, f
<1>4. CASE k # NoKey
  BY <1>1, <1>4 DEF Packed, PackAuthenticated, PackAs, Header, FrameOf, CrcAt, TagSize, f
<1> QED
  BY <1>3, <1>4

\* A frame that is carried unaltered is accepted with the sender's key and the
\* whole of it at hand, and in no other case.
LEMMA ReadUnaltered ==
  ASSUME NEW i \in Inputs, NEW k \in Keys \cup {NoKey}, NEW n \in Int,
         NEW b, b = [Packed(i, k) EXCEPT !.size = n]
  PROVE  /\ Unpack(b) = IF k = NoKey /\ n >= CrcAt(i, k) + CRC_SIZE THEN Made(i) ELSE Error
         /\ \A j \in Keys : UnpackAuthenticated(b, j) =
              IF j = k /\ n >= CrcAt(i, k) + CRC_SIZE THEN Made(i) ELSE Error
<1> DEFINE f == Made(i)  p == Packed(i, k)  pad == Pad16(f.payload.len)
<1>1. /\ p = [size |-> CrcAt(i, k) + CRC_SIZE, magic |-> "UF", head |-> Header(f), body |-> p.body,
              tag |-> p.tag, crc |-> [at |-> CrcAt(i, k), of |-> <<Header(f), p.body, p.tag>>]]
      /\ p.tag = IF k = NoKey THEN NoKey ELSE ComputeTag(k, Header(f), p.body)
      /\ Header(f).plen = f.payload.len /\ FrameOf(p) = f
  BY PackedShape
<1>2. pad \in Nat /\ NoKey \notin Keys
  BY Shape, Padding, FrameConstants
<1>3. CrcAt(i, k) = HDR_SIZE + pad + TagSize(k)
  BY DEF CrcAt
<1> HIDE DEF f, p, pad
<1>4. /\ b.size = n /\ b.magic = "UF" /\ b.head = Header(f) /\ b.body = p.body /\ b.tag = p.tag
      /\ b.crc = [at |-> CrcAt(i, k), of |-> <<Header(f), p.body, p.tag>>]
  BY <1>1 DEF p
<1>5. FrameOf(b) = f /\ Pad16(b.head.plen) = pad
  BY <1>1, <1>4 DEF FrameOf, pad
<1>6. ASSUME NEW at PROVE Accepts(b, at) <=> at = CrcAt(i, k) /\ n >= at + CRC_SIZE
  BY <1>4 DEF Accepts, CrcMatches
<1>7. HDR_SIZE + pad = CrcAt(i, k) <=> k = NoKey
  BY <1>2, <1>3 DEF TagSize, HDR_SIZE, AUTH_TAG_SIZE
<1>8. HDR_SIZE + pad + AUTH_TAG_SIZE = CrcAt(i, k) <=> k # NoKey
  BY <1>2, <1>3 DEF TagSize, HDR_SIZE, AUTH_TAG_SIZE
<1>9. Unpack(b) = IF k = NoKey /\ n >= CrcAt(i, k) + CRC_SIZE THEN f ELSE Error
  BY <1>5, <1>6, <1>7 DEF Unpack
<1>10. ASSUME NEW j \in Keys
       PROVE UnpackAuthenticated(b, j) = IF j = k /\ n >= CrcAt(i, k) + CRC_SIZE THEN f ELSE Error
  <2>1. CASE k = NoKey
    BY <1>2, <1>5, <1>6, <1>8, <2>1 DEF UnpackAuthenticated
  <2>2. CASE k # NoKey
    <3>1. b.tag = ComputeTag(j, b.head, b.body) <=> j = k
      BY <1>1, <1>4, <2>2 DEF ComputeTag
    <3> QED
      BY <1>5, <1>6, <1>8, <2>2, <3>1 DEF UnpackAuthenticated
  <2> QED
    BY <2>1, <2>2
<1> QED
  BY <1>9, <1>10 DEF f

\* An altered frame is accepted by no one, with whatever length it is read.
LEMMA ReadAltered ==
  ASSUME NEW i \in Inputs, NEW k \in Keys \cup {NoKey}, NEW n,
         NEW a \in Altered(Packed(i, k)), NEW b, b = [a EXCEPT !.size = n]
  PROVE  Unpack(b) = Error /\ \A j \in Keys : UnpackAuthenticated(b, j) = Error
<1> DEFINE h == Header(Made(i))  p == Packed(i, k)  at == CrcAt(i, k)
<1>1. p = [size |-> at + CRC_SIZE, magic |-> "UF", head |-> h, body |-> p.body,
           tag |-> p.tag, crc |-> [at |-> at, of |-> <<h, p.body, p.tag>>]]
  BY PackedShape
<1>2. Garbled # p.body /\ Garbled # p.tag /\ Garbled # p.crc.of
  BY FrameConstants
<1> HIDE DEF h, p, at
<1> SUFFICES \A x : ~Accepts(b, x)
  BY DEF Unpack, UnpackAuthenticated
<1>3. CASE a = [p EXCEPT !.magic = "??"]
  BY <1>1, <1>3 DEF Accepts
<1>4. CASE a = [p EXCEPT !.crc.of = Garbled]
  <2>1. b.crc.of = Garbled /\ <<b.head, b.body, b.tag>> = p.crc.of
    BY <1>1, <1>4
  <2> QED
    BY <1>2, <2>1 DEF Accepts, CrcMatches
<1>5. ASSUME NEW o \in OtherHeads(p.head), a = [p EXCEPT !.head = o] PROVE \A x : ~Accepts(b, x)
  <2>1. o # h
    BY <1>1 DEF OtherHeads
  <2>2. b.head = o /\ b.crc.of = <<h, p.body, p.tag>>
    BY <1>1, <1>5
  <2> QED
    BY <2>1, <2>2 DEF Accepts, CrcMatches
<1>6. CASE a = [p EXCEPT !.body = Garbled]
  <2>1. b.body = Garbled /\ b.crc.of = <<h, p.body, p.tag>>
    BY <1>1, <1>6
  <2> QED
    BY <1>2, <2>1 DEF Accepts, CrcMatches
<1>7. CASE a = [p EXCEPT !.tag = Garbled]
  <2>1. b.tag = Garbled /\ b.crc.of = <<h, p.body, p.tag>>
    BY <1>1, <1>7
  <2> QED
    BY <1>2, <2>1 DEF Accepts, CrcMatches
<1> QED
  BY <1>3, <1>4, <1>5, <1>6, <1>7 DEF Altered, p
-----------------------------------------------------------------------------
\* The inductive invariant: the buffer that is read is the packed one, cut by
\* the read alone or to some other length, or nobody accepts it.
Unreadable == /\ Unpack(buf) = Error
              /\ \A k \in Keys : UnpackAuthenticated(buf, k) = Error
ReadIs(n)  == buf = [Packed(asked, key) EXCEPT !.size = n]

Journey ==
  /\ asked \in Inputs /\ key \in Keys \cup {NoKey}
  /\ pc \in {"ask", "wire", "read", "done"} /\ whole \in BOOLEAN
  /\ pc \in {"ask", "wire"} => whole /\ got = Error
  /\ pc = "wire" => buf = Packed(asked, key)
  /\ pc = "read" => IF whole THEN ReadIs(AsRead(CrcAt(asked, key) + CRC_SIZE))
                    ELSE Unreadable \/ (buf.size \in Int /\ ReadIs(buf.size))
  /\ AcceptedIsSent /\ LimitIsExact

LEMMA Begins == Init => Journey
<1>1. ASSUME Init PROVE Journey
  BY <1>1 DEF Init, Journey, AcceptedIsSent, LimitIsExact, Received
<1> QED
  BY <1>1

\* The limits are those of the read: the whole of a packed frame fits one read
\* exactly when its payload is within its limit.
LEMMA LimitOfRead ==
  ASSUME NEW i \in Inputs, NEW k \in Keys \cup {NoKey}
  PROVE  /\ CrcAt(i, k) \in Nat
         /\ AsRead(CrcAt(i, k) + CRC_SIZE) \in Int
         /\ AsRead(CrcAt(i, k) + CRC_SIZE) >= CrcAt(i, k) + CRC_SIZE
              <=> Made(i).payload.len <= IF k = NoKey THEN MAX_PAYLOAD ELSE MAX_PAYLOAD_AUTH
<1> DEFINE l == Made(i).payload.len
<1>1. l \in Nat
  BY Shape
<1> HIDE DEF l
<1>2. /\ Pad16(l) \in Nat
      /\ Pad16(l) <= MAX_PAYLOAD <=> l <= MAX_PAYLOAD
      /\ Pad16(l) <= MAX_PAYLOAD_AUTH <=> l <= MAX_PAYLOAD_AUTH
  BY <1>1, Padding
<1>3. CrcAt(i, k) = HDR_SIZE + Pad16(l) + TagSize(k)
  BY DEF CrcAt, l
<1> QED
  BY <1>2, <1>3 DEF TagSize, HDR_SIZE, AUTH_TAG_SIZE, CRC_SIZE, BUF_SIZE, AsRead, MAX_PAYLOAD,
     MAX_PAYLOAD_AUTH, l

\* What the two properties say of any result of reading.
LEMMA ResultIsSound ==
  ASSUME Journey, NEW api \in {"frame", "tuple"}, NEW j, NEW f, Result(api, j, f),
         \/ j = NoKey /\ f = (IF api = "frame" THEN Unpack(buf) ELSE UnpackFrame(buf))
         \/ j \in Keys /\ api = "frame" /\ f = UnpackAuthenticated(buf, j)
  PROVE  Journey'
<1> DEFINE m == Made(asked)  end == CrcAt(asked, key) + CRC_SIZE
<1>1. /\ pc = "read" /\ pc' = "done" /\ got' = [api |-> api, key |-> j, frame |-> f]
      /\ asked' = asked /\ key' = key /\ buf' = buf /\ whole' = whole
  BY DEF Result
<1>2. /\ asked \in Inputs /\ key \in Keys \cup {NoKey} /\ whole \in BOOLEAN
      /\ IF whole THEN ReadIs(AsRead(end)) ELSE Unreadable \/ (buf.size \in Int /\ ReadIs(buf.size))
  BY <1>1 DEF Journey
<1>3. Error # m /\ Error # TupleOf(m)
  BY <1>2, FrameConstants, PackedShape
<1>4. SUFFICES /\ f # Error => j = key /\ f = (IF api = "frame" THEN m ELSE TupleOf(m))
               /\ whole /\ j = key =>
                    (f # Error <=> m.payload.len <= IF key = NoKey THEN MAX_PAYLOAD ELSE MAX_PAYLOAD_AUTH)
  BY <1>1, <1>2 DEF Journey, AcceptedIsSent, LimitIsExact, Received
<1> HIDE DEF m, end
<1>5. NoKey \notin Keys
  BY FrameConstants
<1>6. CASE ~whole /\ Unreadable
  BY <1>6 DEF Unreadable, UnpackFrame
<1>7. ASSUME NEW n \in Int, ReadIs(n), whole => n = AsRead(end)
      PROVE  /\ f # Error => j = key /\ f = (IF api = "frame" THEN m ELSE TupleOf(m))
             /\ whole /\ j = key => (f # Error <=> AsRead(end) >= end)
  <2>1. /\ Unpack(buf) = IF key = NoKey /\ n >= end THEN m ELSE Error
        /\ \A x \in Keys : UnpackAuthenticated(buf, x) = IF x = key /\ n >= end THEN m ELSE Error
    BY <1>2, <1>7, ReadUnaltered DEF ReadIs, m, end
  <2> QED
    BY <1>3, <1>5, <1>7, <2>1 DEF UnpackFrame
<1>8. /\ AsRead(end) \in Int
      /\ AsRead(end) >= end <=> m.payload.len <= IF key = NoKey THEN MAX_PAYLOAD ELSE MAX_PAYLOAD_AUTH
  BY <1>2, LimitOfRead DEF m, end
<1> QED
  BY <1>2, <1>6, <1>7, <1>8

\* The carrier keeps the invariant: it delivers the packed frame in some length,
\* or an altered one that nobody accepts.
LEMMA CarrierKeeps ==
  ASSUME Journey,
         Carry \/ (\E n \in Sizes : CarryOtherSize(n)) \/ (\E b \in Altered(buf) : CarryAltered(b))
  PROVE  Journey'
<1> DEFINE p == Packed(asked, key)  end == CrcAt(asked, key) + CRC_SIZE
<1>1. /\ pc = "wire" /\ pc' = "read" /\ asked' = asked /\ key' = key /\ got' = got
  BY DEF Carry, CarryOtherSize, CarryAltered
<1>2. /\ asked \in Inputs /\ key \in Keys \cup {NoKey} /\ whole = TRUE /\ buf = p
  BY <1>1 DEF Journey
<1>3. end \in Int /\ AsRead(end) \in Int /\ p.size = end
  BY <1>2, LimitOfRead, PackedShape DEF CRC_SIZE
<1>4. p = [size |-> p.size, magic |-> p.magic, head |-> p.head, body |-> p.body, tag |-> p.tag, crc |-> p.crc]
  BY <1>2, PackedShape
<1> HIDE DEF p, end
<1>5. SUFFICES /\ whole' \in BOOLEAN
               /\ IF whole' THEN buf' = [p EXCEPT !.size = AsRead(end)]
                  ELSE Unreadable' \/ (buf'.size \in Int /\ buf' = [p EXCEPT !.size = buf'.size])
  BY <1>1, <1>2 DEF Journey, AcceptedIsSent, LimitIsExact, Received, ReadIs, p, end
<1>6. CASE Carry
  BY <1>2, <1>3, <1>6 DEF Carry
<1>7. ASSUME NEW n \in Sizes, CarryOtherSize(n)
      PROVE  whole' = FALSE /\ buf'.size \in Int /\ buf' = [p EXCEPT !.size = buf'.size]
  <2>1. n \in Int
    BY <1>2, <1>3 DEF Sizes, MIN_FRAME, HDR_SIZE, CRC_SIZE
  <2>2. whole' = FALSE /\ buf' = [p EXCEPT !.size = n]
    BY <1>2, <1>7 DEF CarryOtherSize
  <2>3. buf'.size = n
    BY <1>4, <2>2
  <2> QED
    BY <2>1, <2>2, <2>3
<1>8. ASSUME NEW b \in Altered(buf), CarryAltered(b)
      PROVE  whole' = FALSE /\ Unreadable'
  <2>1. whole' = FALSE /\ buf' = [b EXCEPT !.size = AsRead(@)] /\ b \in Altered(p)
    BY <1>2, <1>8 DEF CarryAltered
  <2>2. PICK n : buf' = [b EXCEPT !.size = n]
    BY <2>1
  <2>3. Unpack(buf') = Error /\ \A j \in Keys : UnpackAuthenticated(buf', j) = Error
    BY <1>2, <2>1, <2>2, ReadAltered DEF p
  <2> QED
    BY <2>1, <2>3 DEF Unreadable
<1> QED
  BY <1>6, <1>7, <1>8

LEMMA JourneyGoesOn == Journey /\ [Next]_vars => Journey'
<1> SUFFICES ASSUME Journey, [Next]_vars PROVE Journey'
  OBVIOUS
<1>1. CASE Send
  BY <1>1 DEF Journey, Send, AcceptedIsSent, LimitIsExact, Received
<1>2. CASE SendFails
  BY <1>2 DEF Journey, SendFails, AcceptedIsSent, LimitIsExact, Received
<1>3. CASE Carry \/ (\E n \in Sizes : CarryOtherSize(n)) \/ (\E b \in Altered(buf) : CarryAltered(b))
  BY <1>3, CarrierKeeps
<1>4. CASE Receive
  BY <1>4, ResultIsSound DEF Receive
<1>5. CASE ReceiveTuple
  BY <1>5, ResultIsSound DEF ReceiveTuple
<1>6. ASSUME NEW k \in Keys, ReceiveAuthenticated(k) PROVE Journey'
  BY <1>6, ResultIsSound DEF ReceiveAuthenticated
<1>7. CASE UNCHANGED vars
  BY <1>7 DEF vars, Journey, AcceptedIsSent, LimitIsExact, Received, ReadIs, Unreadable
<1> QED
  BY <1>1, <1>2, <1>3, <1>4, <1>5, <1>6, <1>7 DEF Next

LEMMA JourneyHolds == Spec => []Journey
<1> QED
  BY Begins, JourneyGoesOn, PTL DEF Spec

\* Whatever is cut, added or altered on the way, a receiver accepts only what
\* was sent, in the sender's mode and with its key: for every set of frames and
\* keys, under an ideal CRC and tag.
THEOREM OnlyTheSent == Spec => []AcceptedIsSent
<1>1. Journey => AcceptedIsSent
  BY DEF Journey
<1> QED
  BY <1>1, JourneyHolds, PTL

\* The limits MAX_PAYLOAD and MAX_PAYLOAD_AUTH are exact for every frame and key.
THEOREM LimitsOfTheRead == Spec => []LimitIsExact
<1>1. Journey => LimitIsExact
  BY DEF Journey
<1> QED
  BY <1>1, JourneyHolds, PTL

\* Every packed frame is whole blocks, with room for its payload and no spare one.
THEOREM FramesAreBlocks == Spec => []TypeOK
<1>1. ASSUME Journey PROVE TypeOK
  <2>1. asked \in Inputs /\ key \in Keys \cup {NoKey}
    BY <1>1 DEF Journey
  <2> DEFINE l == Made(asked).payload.len
  <2>2. l \in Nat /\ Packed(asked, key).size = HDR_SIZE + Pad16(l) + TagSize(key) + CRC_SIZE
    BY <2>1, Shape, PackedShape DEF CrcAt
  <2> HIDE DEF l
  <2>3. Pad16(l) \in Nat /\ Pad16(l) % 16 = 0 /\ Pad16(l) - l \in 0 .. 15
    BY <2>2, Padding
  <2>4. Packed(asked, key).size - MIN_FRAME - (IF key = NoKey THEN 0 ELSE AUTH_TAG_SIZE) = Pad16(l)
    BY <2>2, <2>3 DEF TagSize, MIN_FRAME, HDR_SIZE, CRC_SIZE, AUTH_TAG_SIZE
  <2> QED
    BY <1>1, <2>3, <2>4 DEF Journey, TypeOK, l
<1> QED
  BY <1>1, JourneyHolds, PTL

-----------------------------------------------------------------------------
(* What CAP and HELLO frames carry: by induction over a name's characters.   *)

\* A set of naturals that holds 0 and every successor holds them all.
LEMMA AllNaturals ==
  ASSUME NEW S \in SUBSET Nat, 0 \in S, \A n \in S : n + 1 \in S
  PROVE  S = Nat
<1> DEFINE R == OpToRel(<, Nat)  T == Nat \ S
<1>1. SUFFICES ASSUME T # {} PROVE FALSE
  OBVIOUS
<1>2. R = {s \in Nat \X Nat : s[1] < s[2]}
  BY DEF OpToRel
<1>3. IsWellFoundedOn(R, Nat)
  BY NatLessThanWellFounded
<1>4. T \subseteq Nat
  OBVIOUS
<1> HIDE DEF R, T
<1>5. PICK m \in T : \A k \in T : ~(<<k, m>> \in R)
  BY <1>1, <1>3, <1>4, WFMin
<1>6. m - 1 \in Nat /\ m - 1 < m
  BY <1>5 DEF T
<1>7. <<m - 1, m>> \in R
  BY <1>2, <1>4, <1>5, <1>6
<1>8. m - 1 \in S
  BY <1>5, <1>6, <1>7 DEF T
<1>9. (m - 1) + 1 = m
  BY <1>4, <1>5
<1> QED
  BY <1>5, <1>8, <1>9 DEF T

\* The recursive definition of Bytes has a solution: one for every prefix.
Sums(name, m, f) ==
  f = [k \in 0 .. m |-> IF k = 0 THEN 0 ELSE f[k - 1] + Width(name[k])]

LEMMA SumsExist ==
  ASSUME NEW name, NEW n \in Nat
  PROVE  \E f : Sums(name, n, f)
<1> DEFINE S == {m \in Nat : \E f : Sums(name, m, f)}
<1>1. 0 \in S
  <2> DEFINE f == [k \in 0 .. 0 |-> 0]
  <2>1. Sums(name, 0, f)
    BY DEF Sums
  <2> QED
    BY <2>1
<1>2. ASSUME NEW m \in S PROVE m + 1 \in S
  <2>1. m \in Nat
    OBVIOUS
  <2>2. PICK f : Sums(name, m, f)
    BY <1>2
  <2> DEFINE g == [k \in 0 .. m + 1 |-> IF k = m + 1 THEN f[m] + Width(name[m + 1]) ELSE f[k]]
             h == [k \in 0 .. m + 1 |-> IF k = 0 THEN 0 ELSE g[k - 1] + Width(name[k])]
  <2>3. ASSUME NEW k \in 0 .. m + 1 PROVE g[k] = h[k]
    <3>1. CASE k = m + 1
      <4>1. m \in 0 .. m + 1 /\ m # m + 1 /\ k # 0 /\ k - 1 = m
        BY <2>1, <3>1
      <4> QED
        BY <3>1, <4>1
    <3>2. CASE k = 0
      <4>1. 0 \in 0 .. m /\ 0 # m + 1
        BY <2>1
      <4>2. f[0] = 0
        BY <2>2, <4>1 DEF Sums
      <4> QED
        BY <3>2, <4>1, <4>2
    <3>3. CASE k # m + 1 /\ k # 0
      <4>1. k \in 0 .. m /\ k - 1 \in 0 .. m + 1 /\ k - 1 # m + 1
        BY <2>1, <3>3
      <4>2. f[k] = f[k - 1] + Width(name[k])
        BY <2>2, <3>3, <4>1 DEF Sums
      <4> QED
        BY <3>3, <4>1, <4>2
    <3> QED
      BY <3>1, <3>2, <3>3
  <2>4. g = h
    BY <2>3
  <2>5. Sums(name, m + 1, g)
    BY <2>4 DEF Sums
  <2> QED
    BY <2>1, <2>5
<1>3. S \in SUBSET Nat
  OBVIOUS
<1> HIDE DEF S
<1>4. S = Nat
  BY <1>1, <1>2, <1>3, AllNaturals
<1> QED
  BY <1>4 DEF S

LEMMA BytesOfPrefixes ==
  ASSUME NEW name \in Seq(Nat)
  PROVE  /\ Bytes(name)[0] = 0
         /\ \A k \in 1 .. Len(name) : Bytes(name)[k] = Bytes(name)[k - 1] + Width(name[k])
<1> DEFINE f == CHOOSE g : Sums(name, Len(name), g)
<1>1. Bytes(name) = f
  BY DEF Bytes, Sums
<1>2. Len(name) \in Nat
  OBVIOUS
<1>3. Sums(name, Len(name), f)
  BY <1>2, SumsExist
<1> HIDE DEF f
<1>4. f[0] = 0
  BY <1>2, <1>3 DEF Sums
<1>5. ASSUME NEW k \in 1 .. Len(name) PROVE f[k] = f[k - 1] + Width(name[k])
  BY <1>2, <1>3 DEF Sums
<1> QED
  BY <1>1, <1>4, <1>5

LEMMA BytesNat ==
  ASSUME NEW name \in Seq(Nat), NEW k \in 0 .. Len(name)
  PROVE  Bytes(name)[k] \in Nat
<1> DEFINE S == {m \in Nat : m <= Len(name) => Bytes(name)[m] \in Nat}
<1>1. Len(name) \in Nat /\ \A i \in 1 .. Len(name) : name[i] \in Nat
  OBVIOUS
<1>2. 0 \in S
  BY BytesOfPrefixes
<1>3. ASSUME NEW m \in S PROVE m + 1 \in S
  <2> SUFFICES ASSUME m + 1 <= Len(name) PROVE Bytes(name)[m + 1] \in Nat
    OBVIOUS
  <2>1. m \in Nat /\ m + 1 \in 1 .. Len(name) /\ (m + 1) - 1 = m
    BY <1>1
  <2>2. Bytes(name)[m] \in Nat
    BY <1>1, <1>3, <2>1
  <2>3. Width(name[m + 1]) \in Nat
    BY <1>1, <2>1 DEF Width
  <2>4. Bytes(name)[m + 1] = Bytes(name)[m] + Width(name[m + 1])
    BY <2>1, BytesOfPrefixes
  <2> QED
    BY <2>2, <2>3, <2>4
<1>4. S \in SUBSET Nat
  OBVIOUS
<1>5. k \in Nat /\ k <= Len(name)
  BY <1>1
<1> HIDE DEF S
<1>6. S = Nat
  BY <1>2, <1>3, <1>4, AllNaturals
<1> QED
  BY <1>5, <1>6 DEF S

\* A set of naturals below a bound has a largest one.
LEMMA LargestExists ==
  ASSUME NEW n \in Nat, NEW F \in SUBSET (0 .. n), F # {}
  PROVE  \E m \in F : \A j \in F : j <= m
<1> DEFINE HasLargest(G) == \E m \in G : \A j \in G : j <= m
           S == {b \in Nat : \A G \in SUBSET (0 .. b) : G # {} => HasLargest(G)}
<1>1. 0 \in S
  <2> SUFFICES ASSUME NEW G \in SUBSET (0 .. 0), G # {} PROVE HasLargest(G)
    OBVIOUS
  <2>1. 0 .. 0 = {0}
    OBVIOUS
  <2>2. G = {0}
    BY <2>1
  <2> QED
    BY <2>2
<1>2. ASSUME NEW b \in S PROVE b + 1 \in S
  <2>1. b \in Nat
    OBVIOUS
  <2> SUFFICES ASSUME NEW G \in SUBSET (0 .. b + 1), G # {} PROVE HasLargest(G)
    BY <2>1
  <2>2. CASE b + 1 \in G
    <3>1. \A j \in G : j <= b + 1
      BY <2>1
    <3> QED
      BY <2>2, <3>1
  <2>3. CASE b + 1 \notin G
    <3>1. G \in SUBSET (0 .. b)
      BY <2>1, <2>3
    <3> QED
      BY <3>1
  <2> QED
    BY <2>2, <2>3
<1>3. S \in SUBSET Nat
  OBVIOUS
<1> HIDE DEF S
<1>4. S = Nat
  BY <1>1, <1>2, <1>3, AllNaturals
<1> QED
  BY <1>4 DEF S

\* What the first nine bytes of a name keep of it.
LEMMA CutFacts ==
  ASSUME NEW name \in Seq(Nat)
  PROVE  NameArrives(name, Cut(name, 9))
<1> DEFINE F == {k \in 0 .. Len(name) : Bytes(name)[k] <= 9}
           n == CHOOSE k \in F : \A j \in F : j <= k
<1>1. Len(name) \in Nat /\ F \in SUBSET (0 .. Len(name))
  OBVIOUS
<1>2. F # {}
  <2>1. 0 \in F
    BY <1>1, BytesOfPrefixes
  <2> QED
    BY <2>1
<1>3. n \in F /\ \A j \in F : j <= n
  <2>1. \E m \in F : \A j \in F : j <= m
    <3> HIDE DEF F
    <3> QED
      BY <1>1, <1>2, LargestExists
  <2> HIDE DEF F
  <2> QED
    BY <2>1
<1>4. Cut(name, 9) = SubSeq(name, 1, n) \o IF n = Len(name) \/ Bytes(name)[n] = 9 THEN <<>> ELSE <<Mark>>
  BY DEF Cut
<1> HIDE DEF n
<1>5. n \in 0 .. Len(name) /\ Bytes(name)[n] <= 9 /\ n \in Nat
  BY <1>1, <1>3
<1>6. ASSUME n < Len(name) PROVE Bytes(name)[n + 1] > 9
  <2>1. n + 1 \in 0 .. Len(name) /\ ~(n + 1 <= n)
    BY <1>1, <1>5, <1>6
  <2>2. ~(Bytes(name)[n + 1] <= 9)
    BY <1>3, <2>1
  <2>3. Bytes(name)[n + 1] \in Nat
    BY <2>1, BytesNat
  <2> QED
    BY <2>2, <2>3
<1> DEFINE cut == SubSeq(name, 1, n)
<1>7. cut \in Seq(Nat)
  BY <1>5
<1> HIDE DEF cut, F
<1>8. cut \o <<>> = cut /\ cut \o <<Mark>> = Append(cut, Mark)
  BY <1>7
<1>9. CASE n = Len(name) \/ Bytes(name)[n] = 9
  <2>1. Cut(name, 9) = cut
    BY <1>4, <1>8, <1>9 DEF cut
  <2> QED
    BY <1>5, <1>6, <1>9, <2>1 DEF NameArrives, cut
<1>10. CASE ~(n = Len(name) \/ Bytes(name)[n] = 9)
  <2>1. Cut(name, 9) = Append(cut, Mark)
    BY <1>4, <1>8, <1>10 DEF cut
  <2>2. n < Len(name)
    BY <1>1, <1>5, <1>10
  <2> QED
    BY <1>5, <1>6, <2>1, <2>2 DEF NameArrives, cut
<1> QED
  BY <1>9, <1>10

\* A name is text: no character of it is the NUL that ends it in the frame.
NamesAreText == \A i \in Inputs : i.kind = "cap" => i.name \in Seq(Nat \ {0})

LEMMA CutHasNoNul ==
  ASSUME NEW name \in Seq(Nat \ {0})
  PROVE  Cut(name, 9) \in Seq(Nat \ {0}) /\ NameArrives(name, Cut(name, 9))
<1> DEFINE c == Cut(name, 9)
<1>1. name \in Seq(Nat) /\ NameArrives(name, c)
  <2>1. name \in Seq(Nat)
    OBVIOUS
  <2> QED
    BY <2>1, CutFacts
<1> HIDE DEF c
<1>2. PICK n \in 0 .. Len(name) : \/ c = SubSeq(name, 1, n)
                                  \/ c = Append(SubSeq(name, 1, n), Mark)
  BY <1>1 DEF NameArrives
<1>3. SubSeq(name, 1, n) \in Seq(Nat \ {0})
  OBVIOUS
<1>4. Mark \in Nat \ {0}
  BY DEF Mark
<1>5. c \in Seq(Nat \ {0})
  <2> DEFINE T == Nat \ {0}  q == SubSeq(name, 1, n)
  <2>1. q \in Seq(T) /\ Mark \in T
    BY <1>3, <1>4
  <2> HIDE DEF T, q
  <2>2. Append(q, Mark) \in Seq(T)
    BY <2>1
  <2>3. c = q \/ c = Append(q, Mark)
    BY <1>2 DEF q
  <2>4. c \in Seq(T)
    BY <2>1, <2>2, <2>3
  <2> QED
    BY <2>4 DEF T
<1> QED
  BY <1>1, <1>5 DEF c

\* parse_cap reads back what make_cap wrote, the name as far as it was kept.
LEMMA CapComesBack ==
  ASSUME NEW i, i.name \in Seq(Nat \ {0})
  PROVE  LET c == ParseCap(CapPayload(i))
         IN /\ <<c.version, c.maxFrame, c.node, c.features>> = <<i.version, i.maxFrame, i.src, i.features>>
            /\ NameArrives(i.name, c.name)
<1> DEFINE name == Cut(i.name, 9)
           four == <<i.version, i.maxFrame, i.src, i.features>>
           data == four \o name
           raw  == SubSeq(data, 5, Len(data))
           end  == {k \in 1 .. Len(raw) : raw[k] = 0}
           c    == ParseCap(CapPayload(i))
<1>1. name \in Seq(Nat \ {0}) /\ NameArrives(i.name, name)
  BY CutHasNoNul
<1> HIDE DEF name
<1>2. /\ Len(name) \in Nat /\ Len(data) = 4 + Len(name)
      /\ data[1] = i.version /\ data[2] = i.maxFrame /\ data[3] = i.src /\ data[4] = i.features
      /\ \A k \in 1 .. Len(name) : data[4 + k] = name[k]
  BY <1>1
<1>3. raw = name
  <2> HIDE DEF data
  <2>1. raw = [k \in 1 .. Len(name) |-> data[4 + k]]
    BY <1>2
  <2>2. name = [k \in 1 .. Len(name) |-> name[k]]
    BY <1>1
  <2> QED
    BY <1>2, <2>1, <2>2
<1> DEFINE p == CapPayload(i)
<1>4. p.len = 16 /\ p.data = data
  BY DEF CapPayload, name
<1> HIDE DEF data, p
<1>5. c = [version |-> data[1], maxFrame |-> data[2], node |-> data[3], features |-> data[4],
           name |-> IF end = {} THEN raw ELSE SubSeq(raw, 1, (CHOOSE k \in end : \A j \in end : k <= j) - 1)]
  <2>1. ~(p.len < 16)
    BY <1>4
  <2> QED
    BY <1>4, <2>1 DEF ParseCap, p
<1>6. end = {}
  BY <1>1, <1>3
<1> HIDE DEF c, end, raw
<1>7. /\ c.version = i.version /\ c.maxFrame = i.maxFrame /\ c.node = i.src /\ c.features = i.features
      /\ c.name = name
  BY <1>2, <1>3, <1>5, <1>6
<1> QED
  BY <1>1, <1>7 DEF c

\* parse_hello reads back the path make_hello wrote.
LEMMA HelloComesBack ==
  ASSUME NEW i, i.nodes \in Seq(Nat)
  PROVE  ParseHello(HelloPayload(i)) = <<i.src, i.nodes>>
<1> DEFINE n == Len(i.nodes)
           data == <<HELLO_MAGIC, i.src, n>> \o i.nodes
           p == HelloPayload(i)
<1>1. n \in Nat /\ i.nodes = [k \in 1 .. n |-> i.nodes[k]]
  OBVIOUS
<1>2. /\ Len(data) = 3 + n /\ data[1] = HELLO_MAGIC /\ data[2] = i.src /\ data[3] = n
      /\ \A k \in 1 .. n : data[3 + k] = i.nodes[k]
  BY <1>1
<1>3. p.len = 3 + n /\ p.data = data
  BY DEF HelloPayload
<1> HIDE DEF data, p
<1>4. ParseHello(p) = <<data[2], SubSeq(data, 4, 3 + n)>>
  <2>1. ~(p.len < 3 \/ p.data[1] # HELLO_MAGIC) /\ ~(3 + p.data[3] < p.len)
    BY <1>1, <1>2, <1>3
  <2>2. ParseHello(p) = <<p.data[2], SubSeq(p.data, 4, IF 3 + p.data[3] < p.len THEN 3 + p.data[3] ELSE p.len)>>
    BY <2>1 DEF ParseHello
  <2> QED
    BY <1>3, <2>1, <2>2
<1>5. SubSeq(data, 4, 3 + n) = i.nodes
  <2>1. SubSeq(data, 4, 3 + n) = [k \in 1 .. n |-> data[3 + k]]
    BY <1>1
  <2> HIDE DEF n
  <2> QED
    BY <1>1, <1>2, <2>1
<1> QED
  BY <1>2, <1>4, <1>5 DEF p

\* Whatever frames are packed and whatever happens to them, an accepted CAP frame
\* has the capabilities and as much of the name as nine bytes hold, an accepted
\* HELLO the whole path, for names of any length and characters of any width.
THEOREM ContentsComeBack ==
  ASSUME NamesAreText
  PROVE  Spec => []ContentSurvives
<1>1. ASSUME Journey PROVE ContentSurvives
  <2> SUFFICES ASSUME Received, got.api = "frame" PROVE
                 /\ asked.kind = "cap" =>
                      LET c == ParseCap(got.frame.payload)
                      IN /\ <<c.version, c.maxFrame, c.node, c.features>>
                              = <<asked.version, asked.maxFrame, asked.src, asked.features>>
                         /\ NameArrives(asked.name, c.name)
                 /\ asked.kind = "hello" => ParseHello(got.frame.payload) = <<asked.src, asked.nodes>>
    BY DEF ContentSurvives
  <2>1. got.frame = Made(asked) /\ asked \in Inputs
    BY <1>1 DEF Journey, AcceptedIsSent
  <2>2. CASE asked.kind = "cap"
    <3>1. Made(asked).payload = CapPayload(asked)
      BY <2>2 DEF Made, MakeCap, Plain
    <3>2. asked.name \in Seq(Nat \ {0})
      BY <2>1, <2>2 DEF NamesAreText
    <3> QED
      BY <2>1, <2>2, <3>1, <3>2, CapComesBack
  <2>3. CASE asked.kind = "hello"
    <3>1. Made(asked).payload = HelloPayload(asked)
      BY <2>3 DEF Made, MakeHello, Plain
    <3>2. asked.nodes \in Seq(Nat)
      BY <2>1, <2>3, FrameConstants
    <3> QED
      BY <2>1, <2>3, <3>1, <3>2, HelloComesBack
  <2> QED
    BY <2>2, <2>3
<1> QED
  BY <1>1, JourneyHolds, PTL
=============================================================================
