--------------------------- MODULE TransferPromise ---------------------------
(***************************************************************************)
(* What the raw data transfer between the two servers promises about one   *)
(* sealed batch, and nothing of how: once the producer owes a batch, the   *)
(* consumer takes it durably before the producer may consider it confirmed *)
(* (and so delete its own copy), and nothing is ever taken back.           *)
(*                                                                         *)
(* Source of the promise: the "Decision" and "State machines" sections of  *)
(* docs/architecture/raw-data-transfer.md, as the code keeps them.         *)
(* Module Transfer implements this specification.                          *)
(***************************************************************************)

CONSTANT Batches

VARIABLE stage

Stages == {"absent", "owed", "landed", "confirmed"}

PromiseTypeOK == stage \in [Batches -> Stages]

PromiseInit == stage = [b \in Batches |-> "absent"]

Advance(b, from, to) ==
    /\ stage[b] = from
    /\ stage' = [stage EXCEPT ![b] = to]

Owe(b)     == Advance(b, "absent", "owed")
Land(b)    == Advance(b, "owed", "landed")
Confirm(b) == Advance(b, "landed", "confirmed")

PromiseNext == \E b \in Batches : Owe(b) \/ Land(b) \/ Confirm(b)

PromiseSpec == PromiseInit /\ [][PromiseNext]_stage

=============================================================================
