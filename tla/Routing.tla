------------------------------- MODULE Routing -------------------------------
(***************************************************************************)
(* The ring-aware routing table (RoutingTable of src/src/common/routing.py)*)
(* as functions on tables: each method is the table it leaves behind.  The *)
(* two ports follow the code's convention: "host" leads clockwise, to the  *)
(* next node of the ring, "gadget" counter-clockwise.                      *)
(***************************************************************************)
EXTENDS Integers, Sequences, SequencesExt, FiniteSets

Ports == {"host", "gadget"}

\* A table of node `me`: the neighbours' ports, the ring order and the routes.
EmptyTable == [neighbors |-> <<>>, ring |-> <<>>, routes |-> <<>>]

\* On dictionaries: the entries of e written over those of d, one entry
\* written, and pop(key, None).
Update(d, e) == [k \in DOMAIN d \cup DOMAIN e |-> IF k \in DOMAIN e THEN e[k] ELSE d[k]]
Assign(d, k, v) == Update(d, [x \in {k} |-> v])
Pop(d, k) == Restrict(d, DOMAIN d \ {k})

\* The elements of s at the positions in I, in order: a list comprehension.
Pick(s, I) ==
  [k \in 1 .. Cardinality(I) |-> s[CHOOSE i \in I : Cardinality({j \in I : j <= i}) = k]]

AppendNew(ring, n) == IF n \in Range(ring) THEN ring ELSE Append(ring, n)

\* Mutant: equidistant nodes and all farther ones go the longer way.
LongerWay(i, m, n) == IF (i - m) % n >= (m - i) % n THEN "host" ELSE "gadget"

\* The direction from position m to position i of a ring of n, clockwise on a tie.
ShorterWay(i, m, n) == IF (i - m) % n <= (m - i) % n THEN "host" ELSE "gadget"

\* Mutant: the node gets a route to itself.
RingRoutesSelf(ring, me) ==
  LET m     == SelectInSeq(ring, LAMBDA x : x = me)
      At(n) == SelectLastInSeq(ring, LAMBDA x : x = n)
  IN [n \in Range(ring) |-> ShorterWay(At(n), m, Len(ring))]

\* The loop over the ring: a route for every member but the node itself; a
\* member listed twice is routed by its last position.
RingRoutes(ring, me) ==
  LET m     == SelectInSeq(ring, LAMBDA x : x = me)  \* ring.index(self.node_id)
      At(n) == SelectLastInSeq(ring, LAMBDA x : x = n)
  IN [n \in Range(ring) \ {me} |-> ShorterWay(At(n), m, Len(ring))]

\* recompute(): with fewer than two ring members only the neighbours are
\* known; else the routes of ring members are overwritten, all others stay.
Recompute(t, me) ==
  IF Len(t.ring) < 2 THEN [t EXCEPT !.routes = t.neighbors]
  ELSE LET ring == AppendNew(t.ring, me)
       IN [t EXCEPT !.ring = ring, !.routes = Update(@, RingRoutes(ring, me))]

AddNeighbor(t, me, n, port) ==
  Recompute([neighbors |-> Assign(t.neighbors, n, port),
             ring      |-> AppendNew(AppendNew(t.ring, n), me),
             routes    |-> Assign(t.routes, n, port)], me)

\* Mutant: the dead node stays in the ring order.
RemoveNeighborKeepsRing(t, me, n) ==
  Recompute([neighbors |-> Pop(t.neighbors, n), ring |-> t.ring,
             routes    |-> Pop(t.routes, n)], me)

RemoveNeighbor(t, me, n) ==
  Recompute([neighbors |-> Pop(t.neighbors, n),
             ring      |-> Pick(t.ring, {i \in DOMAIN t.ring : t.ring[i] # n}),
             routes    |-> Pop(t.routes, n)], me)

\* Mutant: a partial HELLO is appended whole.
UpdateFromHelloAppends(t, me, path) ==
  LET ring == IF Len(path) >= Len(t.ring) THEN path ELSE t.ring \o path
  IN Recompute([t EXCEPT !.ring = AppendNew(ring, me)], me)

\* The places in path of the nodes that ring has not, each at its first mention.
News(ring, path) ==
  {i \in DOMAIN path : path[i] \notin Range(ring) \cup {path[j] : j \in 1 .. i - 1}}

\* A HELLO path at least as long as the ring replaces it; a shorter one adds
\* the nodes it has and the ring has not.
UpdateFromHello(t, me, path) ==
  LET ring == IF Len(path) >= Len(t.ring) THEN path
              ELSE t.ring \o Pick(path, News(t.ring, path))
  IN Recompute([t EXCEPT !.ring = AppendNew(ring, me)], me)

\* get_next_hop: a broadcast and an unknown destination have no port.
GetNextHop(t, dst, broadcast) ==
  IF dst = broadcast \/ dst \notin DOMAIN t.routes THEN "none" ELSE t.routes[dst]

GetAllPorts(t) == Range(t.neighbors)
=============================================================================
