---------------------------- MODULE LossyChannel ----------------------------
(***************************************************************************)
(* What a link promises the payloads given to it, with no daemon in sight: *)
(* they are numbered as they are accepted, and delivered at most once and  *)
(* in that order.  Some may never be: there is no acknowledgement and no   *)
(* retransmission.                                                         *)
(***************************************************************************)
EXTENDS Naturals, Sequences

VARIABLES
  accepted,   \* how many payloads were given to the channel
  delivered   \* the numbers of those delivered, in order

Last == IF delivered = <<>> THEN 0 ELSE delivered[Len(delivered)]

Init == accepted = 0 /\ delivered = <<>>

Accept == accepted' = accepted + 1 /\ UNCHANGED delivered

Deliver == /\ \E m \in Last + 1 .. accepted : delivered' = Append(delivered, m)
           /\ UNCHANGED accepted

Next == Accept \/ Deliver

Spec == Init /\ [][Next]_<<accepted, delivered>>
=============================================================================
