-------------------------------- MODULE MCCycle --------------------------------
(* A small host for TLC: two platforms with their cycles. *)
EXTENDS Cycle

CONSTANTS p1, p2, a1, b1, FirstCycles, SecondCycles

MCPlatformOf == [a \in Accounts |-> IF a = b1 THEN p2 ELSE p1]
MCMaxCycles == [p \in Platforms |-> IF p = p1 THEN FirstCycles ELSE SecondCycles]
================================================================================
