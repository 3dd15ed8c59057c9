------------------------------ MODULE MCUdfNode ------------------------------
(* Instances of the dual-cable node for TLC.                                *)
EXTENDS UdfNode

CONSTANTS a1, me, far, bc, none

In(d, h) == [src |-> far, dst |-> d, hop |-> h, fwd |-> FALSE]

\* A broadcast, a frame to relay, and one at the hop limit.
MCInbound == {In(bc, 0), In(far, 0), In(far, MaxHop)}
MCTransit == {In(far, 0)}
=============================================================================
