--------------------------- MODULE MCResponseCache ---------------------------
(* Small instances of ResponseCache for TLC: the tasks of the first process, and the rest. *)
EXTENDS ResponseCache

CONSTANTS local, remote, FirstTasks

MCHome == [t \in Tasks |-> IF t \in FirstTasks THEN local ELSE remote]
=============================================================================
