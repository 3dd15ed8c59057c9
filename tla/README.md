# USB Direct Fabric: TLA+ models, checks and proofs

USB Direct Fabric (UDF) carries frames between machines over USB 3 cables: on
every cable one machine is the USB *host*, the other the USB *gadget*. This
directory models the Python daemons of `src/src/`, model-checks them with TLC
and proves some of their properties, for all parameter values, with TLAPS.

## 1. Inventory of the system

| Part (source) | State | Operations | What is hard |
|---|---|---|---|
| Gadget daemon (`gadget/udf_gadget.py`) | running flag, three fds, `tx_queue`, `rx_queue`, `tx_seq`, `expected_seq`, counters, one lock | `start`, `stop` (signal handler), `send`; threads rx, tx, hb, stats, ep0 | number taken under the lock, frame queued outside it; partial writes; stop at any point; wrap |
| Host daemon (`host/udf_host.py`) | running flag, libusb handle, deques, `_tx_seq`, counters without a lock | `open`, `run`, `stop`, `close`, `send`, signal handler; threads rx, tx, hb, stats | timeouts racing the device; lost updates; close under running threads; a signal before `run` |
| Dual-cable node (`common/node.py`) | running flag, fds, two queues, `_seq_host_tx`, statistics under a lock | `start`, `stop`, `send`, `recv`, `forward`; threads gadget-rx, host-rx, host-tx, gadget-tx (idle), heartbeat | three critical sections per frame; uncaught exceptions; restart with old queue and stale fds; joins |
| Routing table (`common/routing.py`) | neighbours, ring order, routes | `add_neighbor`, `remove_neighbor`, `update_from_hello`, `recompute`, `get_next_hop`, `get_all_ports` | long call sequences; routes that outlive what they came from; independent decisions that must agree |
| Neighbour monitor (`common/routing.py`) | last-seen times, without a lock | `heartbeat_received`, `check_dead`, `forget` | a dictionary changed while it is iterated over; late heartbeats; a sweep that fails half way |
| Frame codec (`common/frame.py`) | none | `pack`, `unpack`, tuple API, constructors, CAP, authenticated variants | sizes at their limits; a length field that is used before anything is verified |
| HELLO helpers (`common/routing.py`) | none | `make_hello`, `parse_hello` | counts and ids at their limits |
| USB link (host and gadget daemon, one cable) | both daemons' | a payload's way from `send` to the other side's `rx_queue` | two writers, timeouts that race the device, numbers out of order |
| Scripts (`*.sh`), benchmarks | none | set-up and measurement | none |

Interaction. A host daemon's OUT endpoint is its gadget's `ep2`, its IN endpoint
the gadget's `ep1`. A gadget daemon forwards a frame that is not for it back to
its own `ep1`; a node forwards to its host cable. No daemon calls the routing
table or the neighbour monitor: they are a library, exercised by the self-test
of `routing.py` and by `tests/test_conformance.py`. The SYN/CAP/FIN handshake of
the specification has frame constructors and no code that uses them.

What makes each part correct: a daemon loses, repeats and renumbers no frame
between its API and the cable, counts what happened, and stops when told; the
table sends every frame the shorter way over a port that leads there, and
forgets what is gone; a ring of such tables carries a frame to its destination;
a link delivers payloads at most once and in order; a receiver accepts nothing
but what was sent; the monitor reports every silence once and nothing else.

The hazards behind the properties, each at its line, are in `PROJECT.json`.

## 2. Modules

| Module | Models |
|---|---|
| `UdfGadget` | the gadget daemon |
| `UdfGadgetProofs` | theorems about it: types, numbers, order, counts, routing, reordering |
| `UdfHost` | the host daemon |
| `UdfHostProofs` | theorems about it |
| `UdfLink` | both daemons joined by one cable: extends `UdfGadget`, instantiates `UdfHost` |
| `UdfLinkProofs` | theorems about it, on top of those about the two daemons |
| `LossyChannel` | abstract: what a link promises its payloads; `UdfLink` implements it |
| `UdfNode` | the dual-cable node |
| `UdfNodeProofs` | theorems about it |
| `Routing` | the methods of `RoutingTable`, as functions from table to table |
| `RoutingTable` | one table under any sequence of calls |
| `RoutingTableProofs` | theorems about it |
| `RingWalk` | a frame crossing a ring of nodes that route by `Routing` tables |
| `RingDelivery` | abstract: what a ring promises one frame; `RingWalk` implements it |
| `RingWalkProofs` | theorems about the walk |
| `NeighborMonitor` | the heartbeat monitor under racing threads |
| `NeighborMonitorProofs` | theorems about it |
| `UdfFrame` | the codec, the authenticated mode, CAP and HELLO payloads |
| `UdfFrameProofs` | theorems about it |
| `MCUdfGadget`, `MCUdfNode`, `MCRoutingTable`, `MCUdfFrame`, `MCUdfLink` | values for TLC: inbound frames, HELLO paths, payloads and names at their limits |

### Conventions

`pc[t]` is where thread `t` stands in its loop; a step of a thread is what it
does up to the next point where another thread can observe or change something
it uses (a critical section, a queue operation, a system call, a test of the
running flag). Operators named "mutant" in their comment are wrong variants of
the definition that follows them; no specification uses them.

### UdfGadget

`start` is `WriteDescriptors`, `WaitForEnable`, `StartThreads`, with `StartFails`
for the exceptions it lets out; `stop` is `StopFlag` and `StopClose`, or
`StopEarly` when a signal finds the descriptors not yet set. Taking a number
(`NextSeq`, in `Pack`) and queueing (`Put`) are two steps for each producer: an
application thread, the heartbeat, and the rx thread when it forwards. The tx
thread's write loop is `Get`, `WriteTest`, `Write(k)`, `WriteBlocks`,
`WriteFails`, `CountSent`; a frame is `FrameLen` pieces. The host is free to
write any frame of `Inbound`, or a corrupt buffer. The stats and ep0 threads
only print. `send()` is called after start-up only.

The counter is read and incremented in one step, as the lock makes it; a packet
keeps the position `n` of its number among all taken, and `Numbered` ties the number
the frame carries to it (`NextSeqUnlocked`, the increment without the lock, breaks
that). At the hop limit itself the code and the documents disagree: `RoutedOnce`
leaves open what becomes of a frame in transit that arrives with hop count 15, and
`RelaysUpToLimit` states the documents' reading, which the code does not have.

After `StopClose` a read or a write may still succeed, fail or block: it may
have been under way.

### UdfHost

The frame is numbered (`Number`), written (`BeginTransfer`, then `WriteDone`,
`WriteTimesOut` or `WriteFails`) and counted (`LoadCounter`, `StoreCounter`: `+= 1`
without a lock). A timed-out frame may or may not have been taken by the device.
`PackDies` is the uncaught `struct.error` of a number or payload that does not
fit. `close()` runs under the threads: a transfer begun or overtaken after it may
end the process (`Segfault`). `signalled` records whether a signal was handled
before or after `run()` began.

### UdfNode

`Start(plugged)` opens the cables that are there; `StopClose` waits for all
threads, closes, and leaves the descriptors `"stale"`. Using a stale one fails,
unless a later start that opened the other cable only was given its number: then
the wrong cable is read or written. `Usable` allows both. Producers number (`Pack`),
queue (`Put`) and count (`Count`) in three steps. `WriteNowhere` is the silent
discard without a host cable, `ForwardDies` and `Heartbeat` the exceptions that
end a thread. Every call of the threads returns within 100 ms, but for the lock:
`Interrupt(s)` is a signal that finds the main thread inside one of `send()`'s
critical sections. Its handler calls `stop()` there with the lock held, so that
every step that takes the lock waits (`~lockHeld`) and `Joined` lets the joins
give up, as their two seconds do; `sys.exit` then leaves `send()`.

### UdfLink

The two daemons' modules unchanged, with the cable in between: what the device
took of the host's bulk writes (`hWire`) is read by the gadget in that order, one
transfer per read; what the gadget's tx thread wrote whole is read by the host.
`ToGadget` gives payloads the broadcast address and heartbeats the address 0, as
the host daemon does; the gadget's own branch then forwards those heartbeats back.
The gadget is up before the host opens the device and applications send while
both run; start failures, shutdown, reads that time out and outright failed
writes (which leave less behind than a timeout) stay with the single modules, and
payloads always fit. `LossyChannel` knows two variables, how many payloads were
accepted and which were delivered; `Delivered` maps the gadget's `rx_queue` to it:
the frames in it that are no heartbeats, in order, each with the payload that the
frame of that number has on the cable. The prover knows nothing of a selection by
predicate, so `PayloadIds` names the k-th of them by its place. In the link's run
`Inbound` is what the host can write; the link itself reads the cable instead.

### NeighborMonitor

Reading the clock and storing it are two steps of a heartbeat. `check_dead` is
`CheckBegin` (clock and iterator), one `Visit(n)` per entry, then one `Delete(n)`
per dead entry and `Return`; any other call may come between two of them. Python's
iterator compares the dictionary's size with every step: `CollectFails` is the
RuntimeError after an insertion or a removal, `DeleteFails` the KeyError of a
`del` whose entry `forget()` has taken. `joins`, `reports` and `losses` are
history. The repository has no caller: one rx thread per neighbour, one checker
that goes on calling after an exception, and an application that may forget are
this project's reading of the class's contract.

### UdfFrame

A buffer is its size, its header, the head of its body, and tag and CRC as what
they were computed for and where they stand: a CRC or a tag matches only what it
was computed from. One frame is packed (`Send`), carried whole (`Carry`), as a
different number of bytes (`CarryOtherSize`) or with one part altered
(`CarryAltered`), and unpacked by one of the three readers. Bytes are counted
where the code counts them: padding, the 16-bit length, nine bytes of a UTF-8
name, ids that `bytes()` refuses. Fields that a format refuses make `SendFails`.

### Routing, RoutingTable, RingWalk

Dictionaries are functions, the ring is a sequence, a port is `"host"` (clockwise)
or `"gadget"`. A list comprehension and the merge loop of a partial HELLO are
`Pick`: the elements at a set of places, in order, which the prover can reason
about where it knows nothing of a selection by predicate or a fold. `RingWalk` builds
each node's table as the self-test does (two `add_neighbor` calls, then a HELLO
with the full order) and moves a frame from node to node over `GetNextHop`, under
the hop rule of the gadget daemon's forwarding branch; `DroppedOnlyWhenFar` and
`Arrives` ask only what this rule and the documents' agree on, and `RingDelivery`
is given the code's grant of 16 links. The composition is this project's: no
daemon of the repository consults the table yet. `RingDelivery` sees only a distance, the links
a frame may still cross, and its fate; `Promise` maps the walk to it.

## 3. Runs

Each run finishes in less than four minutes on two cores. Deadlock checking is off
where the program may stop (a stopped or failed daemon, a frame that has arrived)
or where a bound ends the behaviour.

| Run | Bounds | Shows |
|---|---|---|
| `gadget_tx` | 1 application and the heartbeat, 3 numbers modulo 2, 2 pieces per frame, nothing read | types; no number lost or doubled; order per producer; `frames_tx` exact; every numbered frame reaches the tx thread |
| `gadget_rx` | 3 buffers of 4 frames (one above the hop limit) or corrupt, 3 numbers | the forwarder's numbers, receive counters, routing, and reordering by at most one frame per other producer |
| `routing_table` | 4 nodes, all lists of distinct nodes as HELLO paths | no duplicates, no ghosts among removed nodes, routes match the ring |
| `ring_walk` | rings of 2-7, 32-34 and 36 nodes, hop limit 15 | shortest path; arrival within 16 links, a drop beyond 17; `RingDelivery` implemented, fairness included |
| `host` | 2 payloads, 3 numbers modulo 2, 1 buffer, 1 timeout | numbers, order of data, counters never above the truth; a signal during `run` ends the daemon |
| `node` | 1 application, modulus 3 and up to 5 numbers, 2 frames on 2 cables, 2 sessions | no number lost or doubled, order per producer, statistics that add up, through a restart |
| `node_live` | 2 sessions, `send()` on the main thread, 1 frame to relay | `stop()` returns, from inside the signal handler too |
| `monitor` | 2 neighbours with 2 heartbeats each, 1 `forget`, timeout 1, 3 ticks | every entry answered once, exact verdicts, no silence unseen for ever |
| `frame` | every constructor; 14 payload lengths around each boundary, 6 names, 5 paths, 2 keys | nothing accepted but what was sent; exact limits; content of CAP and HELLO |
| `link` | 2 payloads, 3 numbers of the host, 1 of the gadget, 1 timeout, 1 read of the host; numbers and reads 3 together | `LossyChannel` implemented; every gap explained |
| `gadget_hop` | up to 2 buffers, each a frame in transit at hop limit 15 | the first disagreement below |
| `host_signal` | one signal | the second |

Why the bounds are enough for the question asked: two producers race in each run
of the gadget daemon (an application or the forwarder, and the heartbeat), so
three numbers let one of them be overtaken while the other numbers twice, and a
modulus of 2 wraps; the theorems hold for any number of producers. Two pieces
make a partial write; two writers make a lost update. In rings of 32 and 33 nodes
hop limit 15 reaches everyone, in one of 34 the code and the documents differ,
and one of 36 has destinations too far by either. Four nodes give ties, both
directions and a partial HELLO; two neighbours are what a size change under
iteration and a half-finished removal need; three ticks let a silence outlast a
timeout that a heartbeat has renewed; three numbers from two writers arrive out
of order with a frame after the late one. In `monitor` heartbeats end with
`MaxBeats`: an application that keeps forgetting a neighbour that keeps beating
can make every sweep fail for ever, and the bound hides it. What holds for all
sizes is the subject of section 5.

### Disagreements found

Two runs must be found violated by TLC, each with a finding in `PROJECT.json` that
quotes the document:

| Run | The code | The document |
|---|---|---|
| `gadget_hop` | a frame in transit is forwarded only if `hop < 15` (`udf_gadget.py:219`, `node.py:97`): with hop count 15 it is dropped | "if `hop_count > 15` → drop frame" (`spec/usb-direct-fabric-v1.0.md:770`; 571, `spec/udf-wire-format-v0.1.md:433` and `tests/test_conformance.py:145` likewise) |
| `host_signal` | `run()` sets the flag again that a signal handled during `open()` has cleared | "Signal ..., shutting down..." |

The documents do not agree among themselves on the first: `usb-direct-fabric-v1.0.md:92`
(15 forwarding hops at most) and the range 0-15 of `udf-wire-format-v0.1.md:87` fit the
code. It decides whether a ring of 34 nodes is served whole.

The models show further disagreements, for which no run is kept:

* `recompute` routes by order of arrival: `add_neighbor` for the host side, then
  for the gadget side (the self-test's order) leaves both neighbours on each
  other's port until a HELLO comes (`routing.py:113`; the docstring at line 26
  says "Register directly connected neighbor on given port");
* unlocked `timeouts += 1` in three threads can take the host's counter down
  (`udf_host.py:104`; `spec/usb-direct-fabric-v1.0.md:588`: monotonically
  increasing); `CountersUnderReport` is what remains true;
* `frame.pack_heartbeat` does not exist (`node.py:236`): the node's heartbeat
  thread dies on its first beat, a number taken ("Send heartbeat every 100ms");
* the host's heartbeats are addressed to 0 (`udf_host.py:164`) and the gadget
  forwards each back (`udf_gadget.py:219`), so that the host's `rx_hb` counts its
  own (`spec/udf-wire-format-v0.1.md:400`: destination ignored by receiver);
* the host's two writers leave the lock before they write: a cable that loses
  nothing shows gaps (`udf_host.py:155`; `spec/usb-direct-fabric-v1.0.md:1221`
  asks for zero); `GapsExplained` bounds them;
* authenticated payloads may have 16352 bytes (`frame.py:147`, and the test
  suite); `spec/usb-direct-fabric-v1.0.md:630` says 16336. `LimitIsExact` shows
  the code's number to be the one the 16388-byte reads allow;
* `pack` accepts payloads beyond `MAX_PAYLOAD`, which no receiver can read whole;
* a CAP name is cut inside a character (`frame.py:112`;
  `spec/usb-direct-fabric-v1.0.md:404` says partial characters are removed): the
  reader sees a replacement mark;
* the daemons unpack without the tag, and reject authenticated frames;
* after number 2^32 - 1 the gadget's `expected_seq` is 2^32 for ever
  (`udf_gadget.py:212`; `spec/udf-wire-format-v0.1.md:140` says the receiver
  detects wrap implicitly): `TypeOK` has to admit the value;
* a frame numbered below `expected_seq` is delivered (`udf_gadget.py:210`;
  `spec/usb-direct-fabric-v1.0.md:456` says drop and count it);
* host and node do not mask their counters: `PackDies` and `ForwardDies` end a
  thread at 2^32 (`spec/usb-direct-fabric-v1.0.md:451`: wraps to 0);
* a node that a newer HELLO no longer names keeps its route (`routing.py:107`;
  the docstring at line 49 says `None` if unreachable), and after
  `remove_neighbor` survivors can be routed to the port that has just lost its
  neighbour (`routing.py:45`; the docstring says the math still works);
* neither daemon forwards a broadcast (`node.py:177`, `udf_gadget.py:217`;
  `spec/usb-direct-fabric-v1.0.md:782`: forward on all other links).

## 4. Fairness

Invariants need none. `gadget_tx`: a producer that has a frame in hand
queues it and the tx thread runs (weak fairness: the lock is never held across a
blocking call); strong fairness of `Get` and of a successful `Write` says that
the host keeps polling `ep1`, without which the tx thread may block for ever.
`host`, `host_signal`: only the main thread is fair; `run()` polls the flag or
sleeps for a finite duration. `node_live`: every thread runs; all calls return
(non-blocking descriptors, `get` with a timeout, a join with one). `ring_walk`:
the holder of the frame acts. `monitor`: the checker keeps calling `check_dead`
and gets on with each call, whatever the last one raised; heartbeats, `forget`
and the clock owe nothing.

## 5. Theorems

A theorem is `Spec => []P` for a `P` that a run checks. Where `P` is not inductive,
the invariant that is has a name below; `TypeInv`, the types with what the threads
hold at each place, goes with all of them.

`UdfGadgetProofs` assumes `GadgetConstants` only (a positive
modulus, a hop limit that fits its byte, inbound frames that are frames, distinct
names, finitely many application threads) and hold for any set of application
threads.

* `TypeCorrect`: `TypeOK`. It is not inductive: that `Put` appends a frame needs
  `hand[p]` to hold one exactly when the thread is at `"put"`, and that `Write`
  finds an entry needs `sent` non-empty when tx is in its write loop. `Control`
  states these; `TypeInv == TypeOK /\ Control`.
* `NumbersConserved`: `EveryNumberOnce`. Its part `PositionsOnce` is inductive with
  `TypeInv`: each producing step moves one position from "not allocated" to a hand,
  `Put` from a hand to the queue, `Get` from the queue to `sent`. Its part `Numbered`
  needs that `tx_seq` is the number of allocations modulo `SeqMod` (`RouteInv`, below).
* `OrderPerProducer`: `ProducerOrder`, from `OrderInv`, which adds that
  every frame in the line or in a hand is older than the next number.
* `CountsWholeFrames`: `TxAccounting`, from `CountInv`, which adds that the
  tx thread is never back at a write with the whole frame written, nor at the count
  without it.
* `ReceiveCountsExact`: `RxAccounting`. `ReceiveInv` is the same with the sets named;
  a received frame enlarges the set of numbers seen by one.
* `ReorderBounded`: `BoundedReorder`, from `OvertakeInv`: once a producer has a frame
  in the line, its next one, in hand or queued, is newer than all that went before
  that frame. The bound is then a count: the late numbers, one per producer, are
  mapped one to one into the producers other than the frame's own.
* `EachRoutedOnce`: `RoutedOnce`, from `RouteInv`: the n-th frame for this node is the
  n-th in `rx_queue`, the n-th in transit below the hop limit the n-th relayed frame of
  the line or the one in hand, and `tx_seq` is the number of allocations modulo `SeqMod`. Both sides
  are counted by `Rank`, the place of an element in a set of numbers.

`UdfHostProofs` assumes `HostConstants` only and holds for every bound.

* `HostTypes`: `TypeOK`, with `Control` (a writer holds a frame exactly while it
  transfers it, and none runs before `run()`).
* `HostNumbersConserved`: `EveryNumberOnce`, through the transfers that time out and
  those that `close()` overtakes.
* `HostDataOrdered`: `DataInOrder`, from `OrderInv`: the payloads on the wire, the one
  in tx's hand or on its way there, and the queue are the order of the `send()`
  calls, although heartbeats are written past the queue.
* `CountersNeverOver`: `CountersUnderReport`, from `CounterInv`, which speaks of the
  stale value a thread is about to store as well as of the counter: a lost update
  sets a counter back, never beyond the truth.
* `HostOvertakesByOne`: of the numbers below one that is on the wire, at most one is
  neither there nor lost, whatever prefix of the wire one looks at. It holds
  because numbers are handed out in order and each of the two writers has at most
  one in hand: the number overtaken is the other writer's.

`UdfLinkProofs` assumes `GadgetConstants` and `LinkConstants` and holds for every
bound and any modulus. The host's theorems are taken over by instantiating
`UdfHostProofs` with the link's variables.

* `LinkRunsHost`: `LinkSpec => H!Spec`, since the link's host steps are host steps; so
  the host's invariants (`HostInv`) hold in the link.
* `LinkRunsGadget`: `LinkSpec => Spec`, if `Inbound` has whatever this host can write
  (`FromHost`); so the gadget's numbers, counters and routing are as in `UdfGadget`.
* `GapsAlwaysExplained`: `GapsExplained`. `Cable` says that the gadget has counted
  the frames of a prefix of `hWire`, in order, the last one perhaps still in its
  hands. `GapInv` speaks of `Skipped`, the numbers below `expected_seq` that were lost,
  came late or have not come, and says that `seq_gaps` does not exceed their
  number: a frame that counts a gap adds `expected_seq` itself to them, and a number
  that comes late stays among them. `HostOvertakesByOne` then bounds those to come.
* `LinkKeepsOrder`: `KeepsOrder`, that is `LinkSpec => Channel!Spec`. The invariant `Queue`
  says that the frames of `rx_queue` are frames of the part of the cable the gadget has
  dealt with, in the cable's order, and that `Rank` counts those that carry a
  payload. A step of the host maps to `Accept` or to nothing: a longer
  cable leaves every frame where it was. `Deliver` maps to the channel's `Deliver`, with
  the payload of the next frame of the cable, newer than all before it by the
  host's `DataInOrder`, or to nothing when that frame is a heartbeat.

`UdfNodeProofs` assumes `NodeConstants` only (finitely many application threads among
it) and holds for any number of them, any frames on the two cables and any
number of restarts.

* `NodeTypes`: `TypeOK`, with `Control`: a thread holds a frame, of its own making,
  exactly where its code has one at hand.
* `NodeNumbersConserved`: `EveryNumberOnce`, inductive with `TypeInv`: every number taken
  is burned, in one hand, or in one place of all that was ever queued. `OneOwner` is the
  same with these sets named.
* `NodeProducerOrdered`: `ProducerOrder`, from `OrderInv`, as for the gadget.
* `NodeTxStats` and `NodeRxStats`: `TxStats` and `RxStats`, inductive with `TypeInv`;
  `TxInv` and `RxInv` name the counts of what the applications and the relaying
  threads have queued, and for each place between two critical sections the
  count that is due.

`RoutingTableProofs` assumes `TableConstants` only and holds for any fabric and any
set of HELLO paths, unless said otherwise.

* `TableTypes`: `TypeOK`, from `TypeInv`: a ring with anyone in it has the node
  itself in it, so that `recompute` always finds its own place.
* `GoneStaysAway`: `GoneIsUnreachable`, from `GoneInv`: a removed node is in none of
  the three collections; one left behind would be enough for the next
  `recompute` to bring the node back.
* `RingKeepsPlaces`, `RoutesAreShortest`: `RingHasNoDuplicates` and
  `RoutesFollowRing`, under the hypothesis that no HELLO names a node twice
  (`update_from_hello` adopts what it is given; a path taken from a table's own
  ring satisfies it, by this very theorem). `RouteInv` says that every member
  is routed by the place where it stands; `ClockwiseIsLinks` and `ShorterByLinks`
  then show that the code's two remainders compare the two walks round the ring.

`RingWalkProofs` assumes `WalkConstants` only and holds for rings of every size
and any hop limit.

* `WalkTypes`: `TypeOK`: no table ever sends a frame off the ring.
* `WalkIsShortest`: `ShortestPath`. The lemmas show that the self-test's
  three calls leave a table whose ring is the full order, so that `GetNextHop` is
  `ShorterWay`, and that a link crossed that way lowers the distance by one.
* `LimitSparesNear`: `DroppedOnlyWhenFar`, from the invariant `WalkInv`
  that ties `hop` to the links crossed.
* `WalkKeepsPromise`: `Spec => Promise!Spec`. Every initial state maps to one of
  `RingDelivery`'s, every step to its step: `Originate` and `Forward` to
  `Approach`, the others to their namesakes.

`UdfFrameProofs` assumes `FrameConstants` (inputs of the constructors' kinds, and
that the stand-ins for altered content and errors are none of the values they
stand against) and holds for payloads of every length and any set of keys.

* `OnlyTheSent`, `LimitsOfTheRead`, `FramesAreBlocks`: `AcceptedIsSent`,
  `LimitIsExact` and `TypeOK` always hold. The invariant `Journey` says what the
  buffer is at each stage: as packed on the wire, and in the reader's hands either
  as packed up to its size, or altered in one part that the CRC or the magic
  gives away. That a reader in the wrong mode finds no CRC is the arithmetic of
  `Padding`: the two modes look for it 16 bytes apart.
* `ContentsComeBack`: `ContentSurvives`, under the hypothesis `NamesAreText`: a node
  name has no NUL character, since the reader ends a name at the first one. How
  many characters fit is a fact about the sizes of all prefixes of a name, a
  recursive function; it is proved by the least counterexample (`AllNaturals`, from
  the well-founded order of the naturals), as the induction theorem proper cannot
  be instantiated here.

`NeighborMonitorProofs` assumes `MonitorConstants` and holds for any neighbours.

* `MonitorTypes`, `JoinsAnswered`, `ExactChecks`: `TypeOK`, `EveryJoinAnswered` and
  `CheckIsExact` always hold. None is inductive. `Ledger` adds that the entries
  still to be removed are in the dictionary as long as nobody has called
  `forget()` (`Removal`), and that an untouched neighbour has kept the timestamp
  the check began with and has been judged by it or is still to be visited
  (`Verdicts`).

### Only model-checked

Liveness (`Drained`, `Arrives`, `RunningSignalStops`, `StopReturns`, `SilenceEnds`,
the fairness in `KeepsPromise`): temporal
reasoning under fairness is outside what the proof system does. Every other
property of a passing run is a theorem.

## 6. Not modelled

The stats and ep0 threads (print only), the byte counters, the idle gadget-tx
thread, the USB descriptors, the shell scripts and benchmarks. Short writes of
the node's `os.write` pass for whole ones, as in the code.

The exchange of HELLOs: nodes whose HELLOs disagree could route a frame back and
forth (`routing.py:71`), but no code sends, relays or consumes a HELLO, and
`spec/usb-direct-fabric-v1.0.md:828` says that the ring order is configured and
HELLO does not establish it (`update_from_hello`'s docstring says otherwise).
The handshake (SYN, CAP, FIN) and the reaction to a dead neighbour
(`spec/usb-direct-fabric-v1.0.md:808`) exist in the specification only.

## 7. Open ends

The liveness properties rest on the runs alone. The link is composed in steady
state: a link whose daemons start, stop and fail while frames are on the cable
would be the next module. A ring of nodes that forward by their routing tables
can be modelled beyond `RingWalk` once a daemon of the repository consults one.
