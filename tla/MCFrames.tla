------------------------------ MODULE MCFrames ------------------------------
(* Instances of Frames for TLC: packets of three, two and one frame, or
   of two frames each. *)
EXTENDS Frames

ThreeTwoOne == [p \in Packets |-> CASE p = "large" -> 3 [] p = "medium" -> 2 [] p = "small" -> 1]
TwoEach == [p \in Packets |-> 2]
=============================================================================
