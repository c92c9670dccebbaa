------------------------------ MODULE RunLedger ------------------------------
(***************************************************************************)
(* What collection_run promises to whoever reads it, and nothing of who    *)
(* writes it: the runs of one line (of a platform, under one version of    *)
(* the collector) are opened one at a time and in the order of their       *)
(* slots, an open run may only end, and an ended one stays ended.          *)
(*                                                                         *)
(* Nothing in the schema sees to that: start_run opens whatever run it is  *)
(* asked to, and reopens one that failed.  It is what planning, resuming   *)
(* and ending add up to.  Modules Phase and Cycle implement this           *)
(* specification, the first with crashes between any two statements, the   *)
(* second with what happens inside a cycle.                                *)
(***************************************************************************)
EXTENDS Naturals

CONSTANTS
    Lines,
    Times    \* the slots, or the numbers of the runs: natural numbers

VARIABLES
    open,    \* the runs of each line that were begun and have not ended
    ended    \* those that have, well or badly

ledger == <<open, ended>>

LedgerTypeOK ==
    /\ open \in [Lines -> SUBSET Times]
    /\ ended \in [Lines -> SUBSET Times]

LedgerInit ==
    /\ open = [l \in Lines |-> {}]
    /\ ended = [l \in Lines |-> {}]

\* A slot left out (missed, or given up) is left out for good.
Open(l, t) ==
    /\ open[l] = {}
    /\ \A u \in ended[l] : u < t
    /\ open' = [open EXCEPT ![l] = {t}]
    /\ UNCHANGED ended

End(l, t) ==
    /\ t \in open[l]
    /\ open' = [open EXCEPT ![l] = @ \ {t}]
    /\ ended' = [ended EXCEPT ![l] = @ \cup {t}]

LedgerNext == \E l \in Lines, t \in Times : Open(l, t) \/ End(l, t)

LedgerSpec == LedgerInit /\ [][LedgerNext]_ledger

=============================================================================
