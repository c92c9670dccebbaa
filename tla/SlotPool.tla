------------------------------- MODULE SlotPool -------------------------------
(***************************************************************************)
(* The collect slots of a host as a counting semaphore: whoever takes a    *)
(* turn takes a slot with it, and the slot is given back at the latest     *)
(* when the turn is over.  It may be lost before that, with the session    *)
(* that holds it, and then another may take it while the first goes on;    *)
(* that is all that may go wrong.                                          *)
(*                                                                         *)
(* Module Phase implements this specification with announcements, a queue  *)
(* and advisory locks; in module Cycle, a cycle that is cancelled or       *)
(* killed gives back the slot it took.                                     *)
(***************************************************************************)
EXTENDS Naturals, FiniteSets

CONSTANTS
    Platforms,
    Size     \* the number of slots

VARIABLES
    turn,    \* the platforms that have a turn
    held     \* those of them that hold a slot

pool == <<turn, held>>

PoolInit == turn = {} /\ held = {}

Take(p) ==
    /\ p \notin turn /\ Cardinality(held) < Size
    /\ turn' = turn \cup {p}
    /\ held' = held \cup {p}

Lose(p) ==
    /\ p \in held
    /\ held' = held \ {p}
    /\ UNCHANGED turn

Leave(p) ==
    /\ p \in turn
    /\ turn' = turn \ {p}
    /\ held' = held \ {p}

PoolNext == \E p \in Platforms : Take(p) \/ Lose(p) \/ Leave(p)

PoolSpec == PoolInit /\ [][PoolNext]_pool

=============================================================================
