------------------------------ MODULE UdfFrame ------------------------------
(***************************************************************************)
(* The frame codec (src/src/common/frame.py) and the HELLO helpers of      *)
(* routing.py: what is packed, carried in one USB read and unpacked.       *)
(* A buffer keeps its header, its padded body, the tag and the CRC as      *)
(* values and their places as numbers; the CRC is ideal, the place and the *)
(* content it was computed for, and so is the tag.  One buffer travels     *)
(* from the packing of a frame to the reading of it: the carrier delivers  *)
(* it whole, cut, followed by other bytes, or with one part altered.       *)
(***************************************************************************)
EXTENDS Integers, Sequences

CONSTANTS
  SeqMod,    \* 2^32, the range of the sequence field
  Inputs,    \* what the application asks to be sent
  Keys,      \* link keys
  Garbled,   \* stands for altered content
  Error      \* a ValueError, or None from the tuple API

HDR_SIZE         == 16
CRC_SIZE         == 4
AUTH_TAG_SIZE    == 16
MIN_FRAME        == HDR_SIZE + CRC_SIZE
MAX_PAYLOAD      == 16368
MAX_PAYLOAD_AUTH == MAX_PAYLOAD - AUTH_TAG_SIZE
BUF_SIZE         == 16388  \* the length every receiver reads with

\* A payload is its length and the bytes (or fields) at its head that matter.
NoPayload == [len |-> 0, data |-> <<>>]

\* The header of a frame with the fields src, dst, seq, hop, flags and payload.
Header(f) == [src |-> f.src, dst |-> f.dst, seq |-> f.seq, hop |-> f.hop, flags |-> f.flags,
              plen |-> f.payload.len]

\* A link key is what it is derived from.
DeriveLinkKey(psk, src, dst, nonce) == <<psk, src, dst, nonce>>
NoKey == <<>>

VARIABLES
  pc,      \* "ask", "wire", "read", "done"
  asked,   \* the application's input
  key,     \* the sender's link key, or NoKey
  buf,     \* the packed frame, as it is on the wire or as it was read
  whole,   \* history: the buffer is the one packed, cut at most by BUF_SIZE
  got      \* the frame the receiver made of it, or Error

vars == <<pc, asked, key, buf, whole, got>>

-----------------------------------------------------------------------------
(* Packing.                                                                 *)

Pad16Full(n) == (n + 16) - (n % 16)  \* mutant: a full block after a full block
Pad16(n) == (n + 15) - ((n + 15) % 16)

\* What struct.pack accepts: the width of every field.
Packs(f) == /\ {f.src, f.dst, f.hop} \subseteq 0 .. 255 /\ f.seq < SeqMod
            /\ f.payload.len <= 65535

\* The tag covers header and body; the CRC stands behind what it covers.
ComputeTag(k, head, body) == <<k, head, body>>

PackAs(f, k, tag, tagSize) ==
  LET at   == HDR_SIZE + Pad16(f.payload.len) + tagSize
      head == Header(f)
      body == f.payload.data
  IN [size |-> at + CRC_SIZE, magic |-> "UF", head |-> head, body |-> body, tag |-> tag,
      crc |-> [at |-> at, of |-> <<head, body, tag>>]]

Pack(f) == PackAs(f, NoKey, NoKey, 0)
PackAuthenticated(f, k) ==
  PackAs(f, k, ComputeTag(k, Header(f), f.payload.data), AUTH_TAG_SIZE)

-----------------------------------------------------------------------------
(* Unpacking.                                                               *)

\* The four bytes at `at` are the CRC of all before them: nothing but the
\* sender's CRC is, and only when what it covers is unaltered.
CrcMatches(b, at) == b.crc = [at |-> at, of |-> <<b.head, b.body, b.tag>>]

\* The code's first length test only keeps the header readable: the second
\* asks for as much or more.
Accepts(b, at) == b.magic = "UF" /\ b.size >= at + CRC_SIZE /\ CrcMatches(b, at)

FrameOf(b) == [src |-> b.head.src, dst |-> b.head.dst, seq |-> b.head.seq, hop |-> b.head.hop,
               flags |-> b.head.flags, payload |-> [len |-> b.head.plen, data |-> b.body]]

Unpack(b) == IF Accepts(b, HDR_SIZE + Pad16(b.head.plen)) THEN FrameOf(b) ELSE Error

\* Mutant: the tag is taken on trust.
UnpackUnverified(b, k) ==
  IF Accepts(b, HDR_SIZE + Pad16(b.head.plen) + AUTH_TAG_SIZE) THEN FrameOf(b) ELSE Error

UnpackAuthenticated(b, k) ==
  IF /\ Accepts(b, HDR_SIZE + Pad16(b.head.plen) + AUTH_TAG_SIZE)
     /\ b.tag = ComputeTag(k, b.head, b.body)
  THEN FrameOf(b) ELSE Error

\* The tuple API, which the daemons use: without the hop count.
TupleOf(f) == <<f.flags, f.seq, f.src, f.dst, f.payload>>
UnpackFrame(b) == IF Unpack(b) = Error THEN Error ELSE TupleOf(Unpack(b))

-----------------------------------------------------------------------------
(* The constructors, and the two payloads that have a format.               *)

\* A character's UTF-8 width, and the bytes of a name's first k characters.
Width(c) == IF c < 128 THEN 1 ELSE IF c < 2048 THEN 2 ELSE IF c < 65536 THEN 3 ELSE 4
Bytes(name) == LET upTo[k \in 0 .. Len(name)] == IF k = 0 THEN 0 ELSE upTo[k - 1] + Width(name[k])
               IN upTo
Mark == 65533  \* U+FFFD, what the decoder makes of a character cut short
Cut(name, limit) ==
  LET fit == {k \in 0 .. Len(name) : Bytes(name)[k] <= limit}
      n   == CHOOSE k \in fit : \A j \in fit : j <= k
  IN SubSeq(name, 1, n) \o IF n = Len(name) \/ Bytes(name)[n] = limit THEN <<>> ELSE <<Mark>>

\* Mutant: ten bytes of the name, and no room for the terminator.
CapPayloadTen(i) == [len |-> 16, data |-> <<i.version, i.maxFrame, i.src, i.features>> \o Cut(i.name, 10)]
CapPayload(i) == [len |-> 16, data |-> <<i.version, i.maxFrame, i.src, i.features>> \o Cut(i.name, 9)]
ParseCap(p) ==
  LET raw == SubSeq(p.data, 5, Len(p.data))
      end == {k \in 1 .. Len(raw) : raw[k] = 0}
  IN IF p.len < 16 THEN Error
     ELSE [version |-> p.data[1], maxFrame |-> p.data[2], node |-> p.data[3], features |-> p.data[4],
           name |-> IF end = {} THEN raw ELSE SubSeq(raw, 1, (CHOOSE k \in end : \A j \in end : k <= j) - 1)]

HELLO_MAGIC == 72  \* 'H'
HelloPayload(i) == [len  |-> 3 + Len(i.nodes), data |-> <<HELLO_MAGIC, i.src, Len(i.nodes)>> \o i.nodes]
ParseHello(p) ==
  IF p.len < 3 \/ p.data[1] # HELLO_MAGIC THEN Error
  ELSE <<p.data[2], SubSeq(p.data, 4, IF 3 + p.data[3] < p.len THEN 3 + p.data[3] ELSE p.len)>>

Plain(i, flags, payload) == [src |-> i.src, dst |-> i.dst, seq |-> i.seq, hop |-> 0, flags |-> flags,
                             payload |-> payload]
MakeHeartbeat(i) == Plain(i, {"HB"}, NoPayload)
MakeSyn(i)       == Plain(i, {"SYN"}, NoPayload)
MakeAck(i)       == Plain(i, {"ACK"}, NoPayload)
MakeCap(i)       == Plain(i, {"CAP"}, CapPayload(i))
MakeHello(i)     == [Plain(i, {}, HelloPayload(i)) EXCEPT !.dst = 255]
MakeData(i)      == [Plain(i, {}, i.payload) EXCEPT !.hop = i.hop]

Made(i) == CASE i.kind = "hb"    -> MakeHeartbeat(i)
             [] i.kind = "syn"   -> MakeSyn(i)
             [] i.kind = "ack"   -> MakeAck(i)
             [] i.kind = "cap"   -> MakeCap(i)
             [] i.kind = "hello" -> MakeHello(i)
             [] i.kind = "data"  -> MakeData(i)

\* The constructors' own struct.pack calls; bytes() refuses other ids than bytes.
Formats(i) ==
  /\ i.kind = "cap" => i.version <= 65535 /\ i.maxFrame <= 65535 /\ i.features <= 255
  /\ i.kind = "hello" => Len(i.nodes) <= 255 /\ \A k \in 1 .. Len(i.nodes) : i.nodes[k] <= 255
  /\ Packs(Made(i))

Packed(i, k) == IF k = NoKey THEN Pack(Made(i)) ELSE PackAuthenticated(Made(i), k)

ASSUME FrameConstants ==
  /\ SeqMod \in Nat /\ NoKey \notin Keys
  /\ \A i \in Inputs :
       /\ i.kind \in {"hb", "syn", "ack", "cap", "hello", "data"}
       /\ i.kind = "data" => i.payload \in [len : Nat, data : Seq(Nat)]
       /\ i.kind = "hello" => i.nodes \in Seq(Nat)
       /\ \A k \in Keys \cup {NoKey} :
            LET b == Packed(i, k)
            IN /\ Garbled \notin {b.body, b.tag, b.crc.of}
               /\ Error \notin {FrameOf(b), TupleOf(FrameOf(b))}

-----------------------------------------------------------------------------
(* From the sender to the receiver.                                         *)

Init == /\ pc = "ask" /\ asked \in Inputs /\ key \in Keys \cup {NoKey}
        /\ buf = Error /\ got = Error /\ whole = TRUE

Send ==
  /\ pc = "ask" /\ Formats(asked) /\ pc' = "wire"
  /\ buf' = Packed(asked, key)
  /\ UNCHANGED <<asked, key, whole, got>>

\* struct.error or ValueError leaves pack(): there is no frame.
SendFails ==
  /\ pc = "ask" /\ ~Formats(asked) /\ pc' = "done"
  /\ UNCHANGED <<asked, key, buf, whole, got>>

\* One read returns the frame, or as much of it as the receiver's buffer takes.
AsRead(n) == IF n > BUF_SIZE THEN BUF_SIZE ELSE n
Carry ==
  /\ pc = "wire" /\ pc' = "read"
  /\ buf' = [buf EXCEPT !.size = AsRead(@)]
  /\ UNCHANGED <<asked, key, whole, got>>

\* A frame whose writing was broken off, or that shares its read with others.
CarryOtherSize(n) ==
  /\ pc = "wire" /\ pc' = "read"
  /\ n <= BUF_SIZE /\ buf' = [buf EXCEPT !.size = n]
  /\ whole' = FALSE
  /\ UNCHANGED <<asked, key, got>>

Sizes == {MIN_FRAME - 1, MIN_FRAME, buf.size - CRC_SIZE, buf.size - 1, buf.size + 1, buf.size + MIN_FRAME}

OtherHeads(h) == {[h EXCEPT !.plen = (@ + 16) % 65536], [h EXCEPT !.plen = (@ + 65535) % 65536],
                  [h EXCEPT !.hop = (@ + 1) % 256], [h EXCEPT !.seq = (@ + 1) % SeqMod]} \ {h}
Altered(b) == {[b EXCEPT !.magic = "??"], [b EXCEPT !.crc.of = Garbled]}
       \cup {[b EXCEPT !.head = h] : h \in OtherHeads(b.head)}
       \cup (IF b.head.plen = 0 THEN {} ELSE {[b EXCEPT !.body = Garbled]})
       \cup (IF b.tag = NoKey THEN {} ELSE {[b EXCEPT !.tag = Garbled]})

CarryAltered(b) ==
  /\ pc = "wire" /\ pc' = "read"
  /\ buf' = [b EXCEPT !.size = AsRead(@)]
  /\ whole' = FALSE
  /\ UNCHANGED <<asked, key, got>>

Result(api, k, f) == /\ pc = "read" /\ pc' = "done" /\ got' = [api |-> api, key |-> k, frame |-> f]
                     /\ UNCHANGED <<asked, key, buf, whole>>
Receive      == Result("frame", NoKey, Unpack(buf))
ReceiveTuple == Result("tuple", NoKey, UnpackFrame(buf))
ReceiveAuthenticated(k) == Result("frame", k, UnpackAuthenticated(buf, k))

Next == \/ Send \/ SendFails \/ Carry \/ Receive \/ ReceiveTuple
        \/ pc = "wire" /\ \E n \in Sizes : CarryOtherSize(n)
        \/ pc = "wire" /\ \E b \in Altered(buf) : CarryAltered(b)
        \/ \E k \in Keys : ReceiveAuthenticated(k)

Spec == Init /\ [][Next]_vars

-----------------------------------------------------------------------------
Received == pc = "done" /\ got # Error /\ got.frame # Error

\* A packed frame is whole 16-byte blocks and a CRC, however long its payload,
\* with room for the payload and never a block more than it needs.
TypeOK ==
  /\ pc \in {"ask", "wire", "read", "done"} /\ asked \in Inputs /\ key \in Keys \cup {NoKey}
  /\ whole \in BOOLEAN
  /\ pc = "wire" =>
       LET room == buf.size - MIN_FRAME - (IF key = NoKey THEN 0 ELSE AUTH_TAG_SIZE)
       IN room % 16 = 0 /\ room - Made(asked).payload.len \in 0 .. 15

\* Nothing is received but what was sent: the same fields and payload, in the
\* sender's mode and with its key, whatever was cut, added or altered on the way.
AcceptedIsSent ==
  Received =>
    /\ got.key = key
    /\ got.frame = IF got.api = "frame" THEN Made(asked) ELSE TupleOf(Made(asked))

\* The limits MAX_PAYLOAD and MAX_PAYLOAD_AUTH, which pack never compares with,
\* are exactly those of the receivers' 16388-byte reads: a payload within them
\* always arrives, one byte more never does although it was packed.
LimitIsExact ==
  pc = "done" /\ got # Error /\ whole /\ got.key = key =>
    (got.frame # Error <=>
       Made(asked).payload.len <= IF key = NoKey THEN MAX_PAYLOAD ELSE MAX_PAYLOAD_AUTH)

\* The name a CAP frame brings: all of it if nine bytes hold it, else what fits
\* and a mark for a character cut in two.
NameArrives(name, read) ==
  \E n \in 0 .. Len(name) :
    /\ Bytes(name)[n] <= 9 /\ (n < Len(name) => Bytes(name)[n + 1] > 9)
    /\ \/ read = SubSeq(name, 1, n) /\ (n < Len(name) => Bytes(name)[n] = 9)
       \/ read = Append(SubSeq(name, 1, n), Mark) /\ n < Len(name)

\* Capabilities and HELLO paths come out as they were put in, at the limits of
\* their fields too.
ContentSurvives ==
  Received /\ got.api = "frame" =>
    /\ asked.kind = "cap" =>
         LET c == ParseCap(got.frame.payload)
         IN /\ <<c.version, c.maxFrame, c.node, c.features>>
                 = <<asked.version, asked.maxFrame, asked.src, asked.features>>
            /\ NameArrives(asked.name, c.name)
    /\ asked.kind = "hello" => ParseHello(got.frame.payload) = <<asked.src, asked.nodes>>
=============================================================================
