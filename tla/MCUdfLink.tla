------------------------------ MODULE MCUdfLink ------------------------------
(* An instance of the link for TLC.                                         *)
EXTENDS UdfLink
CONSTANTS me, host, zero, bc, bad, none

\* What the gadget alone would be sent: here it reads the cable instead.
HostFrames == {ToGadget([hb |-> b, seq |-> n]) : b \in BOOLEAN, n \in Seq32}
=============================================================================
