--------------------------------- MODULE Phase ---------------------------------
(***************************************************************************)
(* Arbitration of collection cycles on one host.                           *)
(*                                                                         *)
(* One collector process per platform runs the loop of collector_target's  *)
(* __main__: it plans the next logical slot, announces it in its row of    *)
(* ops_and_admin.operational_checkpoint, waits for its turn, takes one of  *)
(* the collect slots (a session advisory lock), runs the cycle and marks   *)
(* the slot as completed.  Rows and runs are durable; a lock lives as long *)
(* as its database session.                                                *)
(*                                                                         *)
(* Every SQL statement of the arbiter is one autocommit transaction, hence *)
(* one action: the processes interleave between any two of them, crash,    *)
(* lose their session, and are restarted with another collector_version.   *)
(* Instants are ticks; 0 stands for NULL.                                  *)
(***************************************************************************)
EXTENDS Naturals, FiniteSets

CONSTANTS
    Workers,    \* platforms, numbered in the order of Platform
    Interval,   \* seconds between two slots of a platform
    Offset,     \* its offset within the interval
    Slots,      \* names of the collect slots (collect_slots of them)
    Versions,   \* collector_version values a process may be started with
    None,       \* no worker
    Epoch,      \* the first instant
    Horizon,    \* bound: the last instant
    MaxFaults   \* bound: crashes, lost sessions, failed statements and hold-ups

ASSUME PhaseAssumption ==
    /\ Workers \subseteq Nat /\ IsFiniteSet(Workers)
    /\ Interval \in [Workers -> Nat \ {0}]
    /\ Offset \in [Workers -> Nat]
    /\ \A w \in Workers : Offset[w] < Interval[w] /\ Interval[w] + Offset[w] <= Epoch
    /\ IsFiniteSet(Slots) /\ Slots # {}
    /\ Versions # {}
    /\ None \notin Workers
    /\ Epoch \in Nat /\ Horizon \in Nat /\ Epoch <= Horizon
    /\ MaxFaults \in Nat

VARIABLES
    now,      \* the instant
    pc,       \* where each process stands in its loop
    version,  \* the collector_version it was started with
    plan,     \* pending_phase: the slot it is about to run and its due time
    row,      \* its row of the phase checkpoint
    holder,   \* whose session holds each collect slot
    runs,     \* collection_run.status by platform, version and slot
    faults

vars == <<now, pc, version, plan, row, holder, runs, faults>>

-----------------------------------------------------------------------------
(* Types *)

Instants == 0..(Horizon + Horizon)   \* a due time may lie one interval ahead
Acquiring == {"planned", "waiting", "selected", "locked", "claiming"}
Running == {"leased", "collecting", "ran", "done"}
Terminal == {"succeeded", "failed"}

NoPlan == [sched |-> 0, due |-> 0]
NoRow == [state |-> "none", sched |-> 0, due |-> 0, fresh |-> FALSE, last |-> 0]

\* Every variable has its type, and a process past planning knows its slot.
TypeOK ==
    /\ now \in Epoch..Horizon
    /\ pc \in [Workers -> {"off", "idle"} \cup Acquiring \cup Running]
    /\ version \in [Workers -> Versions]
    /\ plan \in [Workers -> [sched : 0..Horizon, due : Instants]]
    /\ row \in [Workers -> [state : {"none", "requested", "active", "completed"},
                            sched : 0..Horizon, due : Instants, fresh : BOOLEAN,
                            last : 0..Horizon]]
    /\ holder \in [Slots -> Workers \cup {None}]
    /\ runs \in [Workers -> [Versions -> [1..Horizon -> {"none", "running"} \cup Terminal]]]
    /\ faults \in 0..MaxFaults
    /\ \A w \in Workers : pc[w] \in Acquiring \cup Running => plan[w].sched \in 1..now

Init ==
    /\ now = Epoch
    /\ pc = [w \in Workers |-> "off"]
    /\ version \in [Workers -> Versions]
    /\ plan = [w \in Workers |-> NoPlan]
    /\ row = [w \in Workers |-> NoRow]
    /\ holder = [s \in Slots |-> None]
    /\ runs = [w \in Workers |-> [v \in Versions |-> [t \in 1..Horizon |-> "none"]]]
    /\ faults = 0

-----------------------------------------------------------------------------
(* The plan of a process: a run to resume, or the slot that is due *)

\* scheduled_slot: the most recent slot.
Slot(w) == now - ((now - Offset[w]) % Interval[w])

Own(w) == runs[w][version[w]]
Resumable(w) == {t \in DOMAIN Own(w) : Own(w)[t] = "running"}
Completed(w) == {t \in DOMAIN Own(w) : Own(w)[t] \in Terminal}

\* ORDER BY scheduled_at LIMIT 1: at most one element.
Earliest(S) == {t \in S : \A u \in S : t <= u}
Latest(S) == {t \in S : \A u \in S : u <= t}

Moves(w, from, to) == pc[w] = from /\ pc' = [pc EXCEPT ![w] = to]

\* last is the latest completed slot, 0 when there is none.
NewSlot(w, last) == [sched |-> Slot(w),
                     due   |-> IF last = 0 THEN Slot(w) ELSE last + Interval[w]]

\* Mutant of Plan: a slot that is due goes before a run to resume.
PlanNewFirst(w) ==
    /\ Moves(w, "idle", "planned")
    /\ \E last \in Latest({0} \cup Completed(w)) :
         \/ Slot(w) > last /\ plan' = [plan EXCEPT ![w] = NewSlot(w, last)]
         \/ /\ Slot(w) <= last
            /\ \E t \in Earliest(Resumable(w)) :
                 plan' = [plan EXCEPT ![w] = [sched |-> t, due |-> t]]
    /\ UNCHANGED <<now, version, row, holder, runs, faults>>

\* resumable_scheduled_at, last_completed_scheduled_at and due_slot: missed
\* slots coalesce into the current one; with nothing due the process sleeps.
Plan(w) ==
    /\ Moves(w, "idle", "planned")
    /\ \/ \E t \in Earliest(Resumable(w)) :
            plan' = [plan EXCEPT ![w] = [sched |-> t, due |-> t]]
       \/ /\ Resumable(w) = {}
          /\ \E last \in Latest({0} \cup Completed(w)) :
               Slot(w) > last /\ plan' = [plan EXCEPT ![w] = NewSlot(w, last)]
    /\ UNCHANGED <<now, version, row, holder, runs, faults>>

-----------------------------------------------------------------------------
(* Waiting for a turn *)

\* The row is written, or its heartbeat renewed, unless this slot or a later
\* one was completed: then the plan is dropped.
Announce(w) ==
    /\ IF row[w].last < plan[w].sched
         THEN /\ Moves(w, "planned", "waiting")
              /\ row' = [row EXCEPT ![w] = [state |-> "requested", fresh |-> TRUE,
                             sched |-> plan[w].sched, due |-> plan[w].due, last |-> @.last]]
              /\ UNCHANGED plan
         ELSE /\ Moves(w, "planned", "idle")
              /\ plan' = [plan EXCEPT ![w] = NoPlan]
              /\ UNCHANGED row
    /\ UNCHANGED <<now, version, holder, runs, faults>>

\* Mutant of Contenders: requests never become stale.
ContendersAnyAge == {w \in Workers : row[w].state = "requested"}

\* Requests whose heartbeat is not older than the cutoff.
Contenders == {w \in Workers : row[w].state = "requested" /\ row[w].fresh}

\* ORDER BY due_at, platform.
Before(v, w) == \/ row[v].due < row[w].due
                \/ row[v].due = row[w].due /\ v < w
Earlier(w) == {v \in Contenders : Before(v, w)}

\* Among the first collect_slots contenders.
Selected(w) == w \in Contenders /\ Cardinality(Earlier(w)) < Cardinality(Slots)

Look(w) ==
    /\ Moves(w, "waiting", IF Selected(w) THEN "selected" ELSE "planned")
    /\ UNCHANGED <<now, version, plan, row, holder, runs, faults>>

FreeSlots == {s \in Slots : holder[s] = None}
Holds(w) == \E s \in Slots : holder[s] = w
Freed(w) == [s \in Slots |-> IF holder[s] = w THEN None ELSE holder[s]]

\* Mutant of Lock: the request that found no slot is forgotten.
LockForgets(w) ==
    \/ /\ Moves(w, "selected", "locked")
       /\ \E s \in FreeSlots : holder' = [holder EXCEPT ![s] = w]
       /\ UNCHANGED <<now, version, plan, row, runs, faults>>
    \/ /\ FreeSlots = {}
       /\ Moves(w, "selected", "planned")
       /\ plan' = [plan EXCEPT ![w] = NoPlan]
       /\ UNCHANGED <<now, version, row, holder, runs, faults>>

\* Any free slot will do; with none the process sleeps and announces again.
Lock(w) ==
    \/ /\ Moves(w, "selected", "locked")
       /\ \E s \in FreeSlots : holder' = [holder EXCEPT ![s] = w]
       /\ UNCHANGED <<now, version, plan, row, runs, faults>>
    \/ /\ FreeSlots = {}
       /\ Moves(w, "selected", "planned")
       /\ UNCHANGED <<now, version, plan, row, holder, runs, faults>>

\* Mutant of Recheck: the lock is taken for the turn.
RecheckSkipped(w) ==
    /\ Moves(w, "locked", "claiming")
    /\ UNCHANGED <<now, version, plan, row, holder, runs, faults>>

\* The turn is checked again under the lock, which is given back if it passed.
Recheck(w) ==
    \/ /\ Selected(w)
       /\ Moves(w, "locked", "claiming")
       /\ UNCHANGED <<now, version, plan, row, holder, runs, faults>>
    \/ /\ ~Selected(w)
       /\ Moves(w, "locked", "planned")
       /\ holder' = Freed(w)
       /\ UNCHANGED <<now, version, plan, row, runs, faults>>

Claim(w) ==
    /\ Moves(w, "claiming", "leased")
    /\ row' = [row EXCEPT ![w].state = "active"]
    /\ UNCHANGED <<now, version, plan, holder, runs, faults>>

-----------------------------------------------------------------------------
(* The cycle *)

SetRun(w, status) == runs' = [runs EXCEPT ![w][version[w]][plan[w].sched] = status]

\* start_run inserts the run, or reopens one that did not succeed.
Begin(w) ==
    /\ Moves(w, "leased", "collecting")
    /\ IF Own(w)[plan[w].sched] = "succeeded" THEN UNCHANGED runs
                                              ELSE SetRun(w, "running")
    /\ UNCHANGED <<now, version, plan, row, holder, faults>>

\* finish_run: succeeded, or failed in part or as a whole.
EndRun(w) ==
    /\ Moves(w, "collecting", "ran")
    /\ \E status \in Terminal : SetRun(w, status)
    /\ UNCHANGED <<now, version, plan, row, holder, faults>>

\* Deadline, lost lease or an exception: the cycle is cancelled and the run
\* failed.  When the database cannot be reached for that, the run is left as it is:
\* running, or closed by a finish_run whose answer was lost.
FailRun(w) ==
    /\ Moves(w, "collecting", "done")
    /\ \/ SetRun(w, "failed") /\ UNCHANGED faults
       \/ /\ faults < MaxFaults /\ faults' = faults + 1
          /\ UNCHANGED runs \/ \E status \in Terminal : SetRun(w, status)
    /\ UNCHANGED <<now, version, plan, row, holder>>

\* Mutant of FinishPhase: completed is marked with the instant it ended.
FinishPhaseAtEnd(w) ==
    /\ Moves(w, "ran", "done")
    /\ row' = IF Holds(w)
                THEN [row EXCEPT ![w].state = "completed", ![w].last = now]
                ELSE row
    /\ UNCHANGED <<now, version, plan, holder, runs, faults>>

\* PhaseLease.finish, over the session that holds the lock: when it is gone the
\* statement raises and the row stays as it was.
FinishPhase(w) ==
    /\ Moves(w, "ran", "done")
    /\ row' = IF Holds(w)
                THEN [row EXCEPT ![w].state = "completed", ![w].last = plan[w].sched]
                ELSE row
    /\ UNCHANGED <<now, version, plan, holder, runs, faults>>

Release(w) ==
    /\ Moves(w, "done", "idle")
    /\ holder' = Freed(w)
    /\ plan' = [plan EXCEPT ![w] = NoPlan]
    /\ UNCHANGED <<now, version, row, runs, faults>>

-----------------------------------------------------------------------------
(* Environment *)

Tick ==
    /\ now < Horizon
    /\ now' = now + 1
    /\ UNCHANGED <<pc, version, plan, row, holder, runs, faults>>

Start(w) ==
    /\ Moves(w, "off", "idle")
    /\ \E v \in Versions : version' = [version EXCEPT ![w] = v]
    /\ UNCHANGED <<now, plan, row, holder, runs, faults>>

\* No heartbeat for longer than the cutoff: the process is gone.
Ages(w) == /\ row[w].state = "requested" /\ row[w].fresh
           /\ row' = [row EXCEPT ![w].fresh = FALSE]

GoStale(w) ==
    /\ pc[w] \in {"off", "idle"}
    /\ Ages(w)
    /\ UNCHANGED <<now, pc, version, plan, holder, runs, faults>>

Fault == faults < MaxFaults /\ faults' = faults + 1

\* The process is held up between two attempts, by the disk gate for instance.
HeldUp(w) ==
    /\ Fault
    /\ pc[w] = "planned"
    /\ Ages(w)
    /\ UNCHANGED <<now, pc, version, plan, holder, runs>>

\* The process dies or is stopped; the database drops its session.
Crash(w) ==
    /\ Fault
    /\ pc[w] # "off"
    /\ pc' = [pc EXCEPT ![w] = "off"]
    /\ plan' = [plan EXCEPT ![w] = NoPlan]
    /\ holder' = Freed(w)
    /\ UNCHANGED <<now, version, row, runs>>

\* The session is lost: try_acquire starts over on a new one, a cycle under way
\* goes on until its probe notices.
LoseSession(w) ==
    /\ Fault
    /\ Holds(w)
    /\ holder' = Freed(w)
    /\ pc' = IF pc[w] \in {"locked", "claiming"} THEN [pc EXCEPT ![w] = "selected"] ELSE pc
    /\ UNCHANGED <<now, version, plan, row, runs>>

\* Mutant of GiveUp: the lease is not released.
GiveUpKeepsSlot(w) ==
    /\ Fault
    /\ pc[w] \in Acquiring \cup {"leased"}
    /\ pc' = [pc EXCEPT ![w] = "idle"]
    /\ plan' = [plan EXCEPT ![w] = NoPlan]
    /\ UNCHANGED <<now, version, row, holder, runs>>

\* A statement fails twice, start_run fails, or the disk gate refuses the cycle
\* after the claim: the lease is released, the plan is dropped.
GiveUp(w) ==
    /\ Fault
    /\ pc[w] \in Acquiring \cup {"leased"}
    /\ pc' = [pc EXCEPT ![w] = "idle"]
    /\ plan' = [plan EXCEPT ![w] = NoPlan]
    /\ holder' = Freed(w)
    /\ UNCHANGED <<now, version, row, runs>>

-----------------------------------------------------------------------------
(* Specification *)

Step(w) == \/ Plan(w) \/ Announce(w) \/ Look(w) \/ Lock(w) \/ Recheck(w) \/ Claim(w)
           \/ Begin(w) \/ EndRun(w) \/ FailRun(w) \/ FinishPhase(w) \/ Release(w)

Next ==
    \/ Tick
    \/ \E w \in Workers : \/ Step(w) \/ Start(w) \/ GoStale(w)
                          \/ Crash(w) \/ LoseSession(w) \/ GiveUp(w) \/ HeldUp(w)

Spec == Init /\ [][Next]_vars

\* A process that is up makes its next step, every cycle ends (it has a
\* deadline), time passes and unattended requests age.  No process needs to be
\* started again.
FairSpec == /\ Spec
            /\ WF_vars(Tick)
            /\ \A w \in Workers : WF_vars(Step(w)) /\ WF_vars(GoStale(w))

-----------------------------------------------------------------------------
(* Properties *)

\* A run left behind is resumed before a newer slot is begun: a collector of one
\* version never has two runs open, whatever crashed or was lost.
OneOpenRun ==
    \A w \in Workers, v \in Versions : \A t, u \in 1..Horizon :
       runs[w][v][t] = "running" /\ runs[w][v][u] = "running" => t = u

\* A slot whose run has ended, well or badly, is never collected again.
KeepsEnded == \A w \in Workers, v \in Versions, t \in 1..Horizon :
                 runs[w][v][t] \in Terminal => runs'[w][v][t] = runs[w][v][t]
EndedForGood == [][KeepsEnded]_vars

\* Both of these and their order: a collector of one version has its runs one at a
\* time, each for a later slot than all that ended before, and none opens again.
Lines == Workers \X Versions
OpenRuns == [l \in Lines |-> {t \in 1..Horizon : runs[l[1]][l[2]][t] = "running"}]
EndedRuns == [l \in Lines |-> {t \in 1..Horizon : runs[l[1]][l[2]][t] \in Terminal}]
Ledger == INSTANCE RunLedger WITH Times <- 1..Horizon, open <- OpenRuns, ended <- EndedRuns
ImplementsLedger == Ledger!LedgerSpec

\* The advisory locks, the sessions that hold them and the ways to lose one are a
\* counting semaphore: nobody holds two slots or keeps one after the turn.
InTurn == {w \in Workers : pc[w] \in {"locked", "claiming"} \cup Running}
Holding == {w \in Workers : Holds(w)}
Pool == INSTANCE SlotPool WITH Platforms <- Workers, Size <- Cardinality(Slots),
                               turn <- InTurn, held <- Holding
ImplementsPool == Pool!PoolSpec

\* A turn is taken only while a slot is left for each request that comes first.
NoQueueJumping ==
    [][\A w \in Workers : pc[w] = "locked" /\ pc'[w] = "claiming"
          => Cardinality(Earlier(w)) <= Cardinality(FreeSlots)]_vars

\* The mark that refuses requests as superseded is that of a slot whose run has
\* really ended, under some version: it never refuses a slot still to come.
CompletedTrue ==
    \A w \in Workers : row[w].last # 0 =>
       \E v \in Versions : runs[w][v][row[w].last] \in Terminal

\* It only moves to a later slot, although what a process is told to run was planned
\* long before and the row may have changed since, and only to one that has ended.
MovesOn == \A w \in Workers : row'[w].last # row[w].last =>
              /\ row[w].last < row'[w].last
              /\ \E v \in Versions : runs[w][v][row'[w].last] \in Terminal
MarksAdvance == [][MovesOn]_vars

\* No collector starves, and none is held up for ever by a dead one: once time
\* has come to rest, one that is up has ended the run of the current slot.
CaughtUp == \A w \in Workers : <>[](pc[w] = "off" \/ Own(w)[Slot(w)] \in Terminal)

\* A collector that stays up resumes the run its version has left running.
ResumesInterrupted ==
    \A w \in Workers : (pc[w] = "idle" /\ Resumable(w) # {}) ~>
                       (pc[w] = "off" \/ Resumable(w) = {})
=============================================================================
