----------------------------- MODULE RingDelivery -----------------------------
(***************************************************************************)
(* What a ring promises for one frame, whatever its size and its routing   *)
(* tables: the frame comes one link closer to its destination with every   *)
(* link it is granted, is delivered when it is there, and is given up only *)
(* when its grant is used up.                                              *)
(***************************************************************************)
EXTENDS Naturals

CONSTANT
  Grant         \* links a frame may cross

VARIABLES
  distance,     \* links between the frame and its destination
  granted,      \* links it may still cross
  fate          \* "held", "delivered" or "dropped"

vars == <<distance, granted, fate>>

Init == distance \in Nat \ {0} /\ granted = Grant /\ fate = "held"

Approach == /\ fate = "held" /\ distance > 0 /\ granted > 0
            /\ distance' = distance - 1 /\ granted' = granted - 1 /\ UNCHANGED fate

Deliver == fate = "held" /\ distance = 0 /\ fate' = "delivered" /\ UNCHANGED <<distance, granted>>

GiveUp == /\ fate = "held" /\ distance > 0 /\ granted = 0 /\ fate' = "dropped"
          /\ UNCHANGED <<distance, granted>>

Next == Approach \/ Deliver \/ GiveUp

Spec == Init /\ [][Next]_vars
FairSpec == Spec /\ WF_vars(Next)
=============================================================================
