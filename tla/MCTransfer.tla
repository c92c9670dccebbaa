----------------------------- MODULE MCTransfer -----------------------------
(* Instances of Transfer for TLC. *)
EXTENDS Transfer, TLC

\* Senders run the same code, and so do handlers.  Used by safety runs only.
Symmetry == Permutations(Senders) \cup Permutations(Handlers)
=============================================================================
