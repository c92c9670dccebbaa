------------------------------- MODULE MCPhase -------------------------------
(* Instances of Phase for TLC: slots of neighbouring platforms alternate. *)
EXTENDS Phase

Intervals == [w \in Workers |-> 2]
Offsets == [w \in Workers |-> w % 2]
=============================================================================
