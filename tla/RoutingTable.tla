----------------------------- MODULE RoutingTable -----------------------------
(***************************************************************************)
(* One node's routing table under every sequence of calls: neighbours come *)
(* and go on its two ports, HELLO paths arrive in any order.               *)
(***************************************************************************)
EXTENDS Routing, FiniteSets

CONSTANTS
  Me,         \* the node that owns the table
  Others,     \* the other nodes of the fabric
  Broadcast,  \* 0xFF
  HelloPaths  \* the node lists a HELLO may carry

ASSUME TableConstants ==
  /\ Me \notin Others /\ Broadcast \notin Others \cup {Me}
  /\ HelloPaths \subseteq Seq(Others \cup {Me})

VARIABLES
  table,      \* the RoutingTable object
  gone        \* history: nodes removed and not heard of since

vars == <<table, gone>>

Init == table = EmptyTable /\ gone = {}

Add(n, port) ==
  /\ table' = AddNeighbor(table, Me, n, port)
  /\ gone' = gone \ {n}

RemoveDead(n) ==
  /\ table' = RemoveNeighbor(table, Me, n)
  /\ gone' = gone \cup {n}

Hello(path) ==
  /\ table' = UpdateFromHello(table, Me, path)
  /\ gone' = gone \ Range(path)

Next == \/ \E n \in Others, port \in Ports : Add(n, port)
        \/ \E n \in Others : RemoveDead(n)
        \/ \E path \in HelloPaths : Hello(path)

Spec == Init /\ [][Next]_vars

-----------------------------------------------------------------------------
Members == Range(table.ring) \ {Me}

\* The table's three dictionaries and lists are over the fabric's nodes; the
\* node is in its own ring as soon as it knows anyone, and never routes to itself.
TypeOK ==
  /\ DOMAIN table.neighbors \subseteq Others /\ Range(table.neighbors) \subseteq Ports
  /\ Range(table.ring) \subseteq Others \cup {Me}
  /\ DOMAIN table.routes \subseteq Others /\ Range(table.routes) \subseteq Ports
  /\ Members # {} => Me \in Range(table.ring)

\* Positions on the ring mean something: no call sequence of joins, deaths and
\* HELLOs without repetitions lists a node twice (distances are taken modulo
\* the list's length).
RingHasNoDuplicates == IsInjective(table.ring)

\* A node removed as dead is unreachable, in the ring and in the routes, until
\* a HELLO or add_neighbor names it again: recompute does not bring it back.
GoneIsUnreachable ==
  \A n \in gone : n \notin Range(table.ring) /\ GetNextHop(table, n, Broadcast) = "none"

\* Every ring member is routed the shorter way round the ring as it now stands,
\* whatever came before: the direction is recounted here by walking clockwise.
RoutesFollowRing ==
  LET n  == Len(table.ring)
      At(x) == CHOOSE i \in 1 .. n : table.ring[i] = x
      Clockwise(x) == CHOOSE d \in 1 .. n : (At(Me) + d) % n = At(x) % n
  IN \A x \in Members :
       GetNextHop(table, x, Broadcast) = IF 2 * Clockwise(x) <= n THEN "host" ELSE "gadget"
=============================================================================
