----------------------------- MODULE MCUdfGadget -----------------------------
(* Instances of the gadget daemon for TLC.                                  *)
EXTENDS UdfGadget

CONSTANTS a1, me, far, bc, bad, none

\* Frames the host may write: numbers in and out of order, each kind of
\* destination, hop counts below and above the limit.
In(s, d, h) == [src |-> far, dst |-> d, seq |-> s, hop |-> h, flags |-> {},
                payload |-> far]
MCInbound == {In(2, far, 0), In(0, me, 0), In(1, bc, 0), In(1, far, MaxHop + 1)}

\* A frame in transit that arrives with the hop limit itself.
MCAtLimit == {In(0, far, MaxHop)}
=============================================================================
