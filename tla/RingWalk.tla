------------------------------- MODULE RingWalk -------------------------------
(***************************************************************************)
(* A frame crossing a ring whose nodes route by their own tables.  Every   *)
(* node has learnt the ring as the routing self-test does (its two         *)
(* neighbours, then a HELLO with the full order); a frame is handed from   *)
(* node to node over the port get_next_hop names, under the hop rule of    *)
(* the forwarding code: the originator sends hop 0, a forwarder adds one   *)
(* and refuses a frame that has reached the limit.                         *)
(***************************************************************************)
EXTENDS Routing

CONSTANTS
  Sizes,      \* ring sizes considered
  MaxHop,     \* 15 in the code
  Broadcast   \* 0xFF

ASSUME WalkConstants ==
  Sizes \subseteq Nat \ {0, 1} /\ MaxHop \in Nat /\ \A n \in Sizes : Broadcast \notin 1 .. n

VARIABLES
  size,       \* the number of nodes; node i is at position i
  src, dst,   \* of the frame
  at,         \* the node that holds it
  hop,        \* its hop count
  links,      \* history: links crossed
  fate        \* "held", "delivered" or "dropped"

vars == <<size, src, dst, at, hop, links, fate>>

Nodes(n) == 1 .. n
Ring(n) == [i \in 1 .. n |-> i]
Clockwise(i, n) == (i % n) + 1
Counter(i, n) == ((i - 2) % n) + 1

\* What node `me` knows once the ring is up.
TableOf(me, n) ==
  LET one == AddNeighbor(EmptyTable, me, Clockwise(me, n), "host")
      two == AddNeighbor(one, me, Counter(me, n), "gadget")
  IN UpdateFromHello(two, me, Ring(n))

Tables == [n \in Sizes |-> [me \in Nodes(n) |-> TableOf(me, n)]]

\* The node at the other end of a port's cable.
Peer(i, port, n) == IF port = "host" THEN Clockwise(i, n) ELSE Counter(i, n)

Init ==
  /\ size \in Sizes
  /\ src \in Nodes(size) /\ dst \in Nodes(size) \ {src}
  /\ at = src /\ hop = 0 /\ links = 0 /\ fate = "held"

Cross(h) ==
  /\ at' = Peer(at, GetNextHop(Tables[size][at], dst, Broadcast), size)
  /\ hop' = h /\ links' = links + 1
  /\ UNCHANGED <<size, src, dst, fate>>

\* Mutant: the originator counts itself as a hop.
OriginateCounted == fate = "held" /\ links = 0 /\ Cross(1)

Originate == fate = "held" /\ links = 0 /\ Cross(0)

Deliver == /\ fate = "held" /\ links > 0 /\ at = dst /\ fate' = "delivered"
           /\ UNCHANGED <<size, src, dst, at, hop, links>>

\* Mutant: no limit.
ForwardNoLimit == fate = "held" /\ links > 0 /\ at # dst /\ Cross(hop + 1)

Forward == fate = "held" /\ links > 0 /\ at # dst /\ hop < MaxHop /\ Cross(hop + 1)

\* Mutant: the limit is one hop too low.
DropEarly == /\ fate = "held" /\ links > 0 /\ at # dst /\ hop + 1 >= MaxHop /\ fate' = "dropped"
             /\ UNCHANGED <<size, src, dst, at, hop, links>>

Drop == /\ fate = "held" /\ links > 0 /\ at # dst /\ hop >= MaxHop /\ fate' = "dropped"
        /\ UNCHANGED <<size, src, dst, at, hop, links>>

Next == Originate \/ Deliver \/ Forward \/ Drop

Spec == Init /\ [][Next]_vars
FairSpec == Spec /\ WF_vars(Next)

-----------------------------------------------------------------------------
\* Distance round the ring, the shorter way.
Dist(i, j, n) == LET d == IF i >= j THEN i - j ELSE j - i
                 IN IF d <= n - d THEN d ELSE n - d

\* The state of the walk.
TypeOK ==
  /\ size \in Sizes /\ src \in Nodes(size) /\ dst \in Nodes(size) /\ at \in Nodes(size)
  /\ hop \in 0 .. MaxHop /\ links \in Nat
  /\ fate \in {"held", "delivered", "dropped"}

\* Independently computed tables agree: each link crossed brings the frame one
\* closer, so it follows a shortest path and never turns back, although every
\* node decides the direction anew from its own position.
ShortestPath == links + Dist(at, dst, size) = Dist(src, dst, size)

\* The hop limit never costs a frame whose destination is within MaxHop + 1
\* links.  That is so by the code's rule and by the documents' (which forwards
\* at hop 15 too, and would reach one link farther: UdfGadget!RelaysUpToLimit).
DroppedOnlyWhenFar == fate = "dropped" => Dist(src, dst, size) > MaxHop + 1

\* Every frame ends its walk: delivered if its destination is near enough,
\* dropped if it is too far.  A destination MaxHop + 2 links away is served by
\* the documents' rule and not by the code's; its frames need only end.
Arrives ==
  LET far == Dist(src, dst, size)
  IN <>(/\ fate # "held"
        /\ far <= MaxHop + 1 => fate = "delivered"
        /\ far > MaxHop + 2  => fate = "dropped")

\* The walk implements the delivery promise: to whoever looks only at distances,
\* the grant of links and the fate, node after node deciding for itself cannot be
\* told from a frame that simply approaches; under fairness too.  The grant of
\* MaxHop + 1 links is the code's; the documents' rule grants one more.
Promise == INSTANCE RingDelivery WITH
             Grant <- MaxHop + 1,
             distance <- Dist(at, dst, size), granted <- MaxHop + 1 - links
KeepsPromise == Promise!FairSpec
=============================================================================
