------------------------------ MODULE MCAnalysis ------------------------------
(* Small instances of Analysis for TLC: two posts, published one after the other. *)
EXTENDS Analysis

CONSTANTS older, newer, OldPoints, YoungPoints

MCPublishedAt == [p \in Posts |-> IF p = older THEN 1 ELSE 2]
MCOffset == [p \in Posts |-> IF p = older THEN 1 ELSE 0]
MCMaxPoints == [p \in Posts |-> IF p = older THEN OldPoints ELSE YoungPoints]
MCDelays == <<1, 2>>
==============================================================================
