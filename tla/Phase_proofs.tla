----------------------------- MODULE Phase_proofs -----------------------------
(* Theorems about Phase: for any number of platforms, slots and versions, any  *)
(* intervals, any horizon and any number of faults.                            *)
EXTENDS Phase, FiniteSetTheorems, TLAPS

(***************************************************************************)
(* OneOpenRun is not inductive: a process decides what to run in Plan and  *)
(* begins it many steps later, so what it read then has to hold still.     *)
(* PlanClear says so: until its run has ended, the planned slot is later   *)
(* than that of every ended run, and no other run of its version is open.  *)
(* It stays true because only the process itself writes the runs of its    *)
(* version.  Collects says which run the cycle is about to end.            *)
(***************************************************************************)
Undecided == Acquiring \cup {"leased", "collecting"}

PlanClear ==
    \A w \in Workers : pc[w] \in Undecided => \A t \in 1..Horizon :
       /\ Own(w)[t] \in Terminal => t < plan[w].sched
       /\ Own(w)[t] = "running" => t = plan[w].sched

\* A run that is open is later than all that ended.
OpenIsLatest ==
    \A w \in Workers, v \in Versions : \A t, u \in 1..Horizon :
       runs[w][v][t] = "running" /\ runs[w][v][u] \in Terminal => u < t

Collects == \A w \in Workers : pc[w] = "collecting" => Own(w)[plan[w].sched] = "running"

RunsClear == OneOpenRun /\ OpenIsLatest /\ PlanClear /\ Collects

\* No run is of a slot still to come.
NoneAhead == \A w \in Workers, v \in Versions, t \in 1..Horizon :
                runs[w][v][t] # "none" => t <= now

PhaseInv == TypeOK /\ RunsClear /\ NoneAhead

-----------------------------------------------------------------------------
(* The slots *)

\* The most recent slot of a platform is neither ahead of the clock nor NULL.
LEMMA SlotInRange ==
    ASSUME NEW w \in Workers, now \in Epoch..Horizon
    PROVE  Slot(w) \in 1..now
<1>1. /\ Interval[w] \in Nat \ {0} /\ Offset[w] \in Nat /\ Epoch \in Nat
      /\ Interval[w] + Offset[w] <= Epoch /\ now \in Nat /\ Epoch <= now
  BY PhaseAssumption
<1>2. now - Offset[w] \in Nat
  BY <1>1
<1>3. (now - Offset[w]) % Interval[w] \in 0..(Interval[w] - 1)
  BY <1>1, <1>2
<1> QED
  BY <1>1, <1>3 DEF Slot

LEMMA InitPhaseInv == Init => PhaseInv
<1> SUFFICES ASSUME Init PROVE PhaseInv
  OBVIOUS
<1>1. TypeOK
  BY PhaseAssumption DEF Init, TypeOK, NoPlan, NoRow, Instants, Acquiring, Running, Terminal
<1>2. OneOpenRun /\ OpenIsLatest
  BY DEF Init, OneOpenRun, OpenIsLatest
<1>3. PlanClear /\ Collects
  BY DEF Init, PlanClear, Collects, Undecided, Acquiring
<1>4. NoneAhead
  BY DEF Init, NoneAhead
<1> QED
  BY <1>1, <1>2, <1>3, <1>4 DEF PhaseInv, RunsClear

-----------------------------------------------------------------------------
(* One step *)

\* The runs and the programme counters are all that RunsClear depends on: a step of
\* one process that neither begins nor plans keeps it.
LEMMA ClearKept ==
    ASSUME PhaseInv, NEW w \in Workers, UNCHANGED <<version, runs>>,
           \A u \in Workers \ {w} : pc'[u] = pc[u] /\ plan'[u] = plan[u],
           pc'[w] \in Undecided => pc[w] \in Undecided /\ plan'[w] = plan[w],
           pc'[w] # "collecting" \/ pc'[w] = pc[w]
    PROVE  RunsClear'
<1>1. OneOpenRun' /\ OpenIsLatest'
  BY DEF PhaseInv, RunsClear, OneOpenRun, OpenIsLatest
<1>2. PlanClear'
  BY DEF PhaseInv, RunsClear, PlanClear, Own
<1>3. Collects'
  BY DEF PhaseInv, RunsClear, Collects, Own, Undecided
<1> QED
  BY <1>1, <1>2, <1>3 DEF RunsClear

Rows == [state : {"none", "requested", "active", "completed"},
         sched : 0..Horizon, due : Instants, fresh : BOOLEAN, last : 0..Horizon]

\* A process on its way keeps its plan: only its counter, its row, the locks and
\* the count of faults have to be looked at.
LEMMA OnItsWay ==
    ASSUME TypeOK, NEW w \in Workers, pc[w] \in Acquiring \cup Running,
           NEW to \in {"off", "idle"} \cup Acquiring \cup Running,
           pc' = [pc EXCEPT ![w] = to],
           UNCHANGED <<now, version, plan, runs>>,
           row' \in [Workers -> Rows], holder' \in [Slots -> Workers \cup {None}],
           faults' \in 0..MaxFaults
    PROVE  TypeOK'
<1>1. pc' \in [Workers -> {"off", "idle"} \cup Acquiring \cup Running]
  BY DEF TypeOK
<1>2. \A u \in Workers : pc'[u] \in Acquiring \cup Running => plan'[u].sched \in 1..now'
  BY DEF TypeOK
<1> QED
  BY <1>1, <1>2 DEF TypeOK, Rows

LEMMA FreedType ==
    ASSUME TypeOK, NEW w \in Workers
    PROVE  Freed(w) \in [Slots -> Workers \cup {None}]
BY DEF TypeOK, Freed

LEMMA PlanKeeps ==
    ASSUME PhaseInv, NEW w \in Workers, Plan(w)
    PROVE  PhaseInv'
<1>1. /\ TypeOK /\ OneOpenRun /\ OpenIsLatest /\ PlanClear /\ Collects /\ NoneAhead
      /\ pc' = [pc EXCEPT ![w] = "planned"]
      /\ UNCHANGED <<now, version, row, holder, runs, faults>>
  BY DEF PhaseInv, RunsClear, Plan, Moves
<1>2. Own(w) \in [1..Horizon -> {"none", "running"} \cup Terminal]
  BY <1>1 DEF TypeOK, Own
<1>3. Slot(w) \in 1..now /\ now \in 1..Horizon /\ Interval[w] \in 1..Horizon
      /\ Horizon \in Nat
  <2>1. now \in Epoch..Horizon /\ Epoch \in Nat /\ Horizon \in Nat /\ Epoch <= Horizon
    BY <1>1, PhaseAssumption DEF TypeOK
  <2>2. Interval[w] \in Nat \ {0} /\ Offset[w] \in Nat /\ Interval[w] + Offset[w] <= Epoch
    BY PhaseAssumption
  <2>3. Slot(w) \in 1..now
    BY <2>1, SlotInRange
  <2> QED
    BY <2>1, <2>2, <2>3
<1>4. PICK p : /\ plan' = [plan EXCEPT ![w] = p]
               /\ p \in [sched : 1..Horizon, due : Instants]
               /\ p.sched <= now
               /\ \A t \in 1..Horizon : Own(w)[t] \in Terminal => t < p.sched
               /\ \A t \in 1..Horizon : Own(w)[t] = "running" => t = p.sched
  <2>1. CASE \E t \in Earliest(Resumable(w)) :
                plan' = [plan EXCEPT ![w] = [sched |-> t, due |-> t]]
    <3>1. PICK t \in Resumable(w) : plan' = [plan EXCEPT ![w] = [sched |-> t, due |-> t]]
      BY <2>1 DEF Earliest
    <3>2. t \in 1..Horizon /\ Own(w)[t] = "running"
      BY <1>2, <3>1 DEF Resumable
    <3>3. \A u \in 1..Horizon : Own(w)[u] = "running" => u = t
      BY <1>1, <3>2 DEF OneOpenRun, Own, TypeOK
    <3>4. t <= now
      BY <1>1, <3>2 DEF NoneAhead, Own, TypeOK
    <3> DEFINE p == [sched |-> t, due |-> t]
    <3>5. p \in [sched : 1..Horizon, due : Instants] /\ p.sched = t
      BY <3>2, <1>3 DEF Instants
    <3>6. \A u \in 1..Horizon : Own(w)[u] \in Terminal => u < p.sched
      BY <1>1, <3>2, <3>5 DEF OpenIsLatest, Own, TypeOK
    <3>7. plan' = [plan EXCEPT ![w] = p]
      BY <3>1
    <3> HIDE DEF p
    <3> QED
      BY <3>3, <3>4, <3>5, <3>6, <3>7
  <2>2. CASE Resumable(w) = {} /\ \E last \in Latest({0} \cup Completed(w)) :
                Slot(w) > last /\ plan' = [plan EXCEPT ![w] = NewSlot(w, last)]
    <3>1. PICK last \in Latest({0} \cup Completed(w)) :
             Slot(w) > last /\ plan' = [plan EXCEPT ![w] = NewSlot(w, last)]
      BY <2>2
    <3>2. last \in 0..Horizon
      BY <1>2, <1>3, <3>1 DEF Latest, Completed
    <3>3. NewSlot(w, last) \in [sched : 1..Horizon, due : Instants]
      BY <1>3, <3>2 DEF NewSlot, Instants
    <3>4. /\ Slot(w) \in 1..Horizon /\ Slot(w) <= now
          /\ NewSlot(w, last).sched = Slot(w)
      BY <1>3, <3>2 DEF NewSlot
    <3>6. \A t \in 1..Horizon : Own(w)[t] \in Terminal => t < Slot(w)
      BY <1>2, <3>1, <3>2, <3>4 DEF Latest, Completed
    <3>5. \A t \in 1..Horizon : Own(w)[t] # "running"
      BY <1>2, <2>2 DEF Resumable
    <3> QED
      BY <3>1, <3>3, <3>4, <3>5, <3>6
  <2> QED
    BY <2>1, <2>2 DEF Plan
<1>5. TypeOK'
  BY <1>1, <1>3, <1>4 DEF TypeOK, Acquiring, Running
<1>6. OneOpenRun' /\ OpenIsLatest'
  BY <1>1 DEF OneOpenRun, OpenIsLatest
<1>7. PlanClear'
  BY <1>1, <1>4 DEF PlanClear, Own, TypeOK
<1>8. Collects'
  BY <1>1, <1>4 DEF Collects, Own, TypeOK
<1>9. NoneAhead'
  BY <1>1 DEF NoneAhead
<1> QED
  BY <1>5, <1>6, <1>7, <1>8, <1>9 DEF PhaseInv, RunsClear

\* The steps from the announcement to the claim neither plan nor write a run.
LEMMA TurnKeeps ==
    ASSUME PhaseInv, NEW w \in Workers,
           Announce(w) \/ Look(w) \/ Lock(w) \/ Recheck(w) \/ Claim(w)
    PROVE  PhaseInv'
<1> USE DEF Acquiring, Running, Moves
<1>1. ASSUME Announce(w) PROVE TypeOK'
  <2>1. CASE row[w].last < plan[w].sched
    <3> DEFINE r == [state |-> "requested", fresh |-> TRUE, sched |-> plan[w].sched,
                     due |-> plan[w].due, last |-> row[w].last]
    <3>1. row' = [row EXCEPT ![w] = r]
      BY <1>1, <2>1 DEF Announce, PhaseInv, TypeOK
    <3>2. r \in [state : {"none", "requested", "active", "completed"},
                 sched : 0..Horizon, due : Instants, fresh : BOOLEAN, last : 0..Horizon]
      BY DEF PhaseInv, TypeOK
    <3> HIDE DEF r
    <3> QED
      BY <1>1, <2>1, <3>1, <3>2 DEF PhaseInv, TypeOK, Announce
  <2>2. CASE ~(row[w].last < plan[w].sched)
    <3>1. NoPlan \in [sched : 0..Horizon, due : Instants]
      BY PhaseAssumption DEF NoPlan, Instants
    <3>2. /\ pc' = [pc EXCEPT ![w] = "idle"]
          /\ plan' = [plan EXCEPT ![w] = NoPlan]
          /\ UNCHANGED <<now, version, row, holder, runs, faults>>
      BY <1>1, <2>2 DEF Announce
    <3> HIDE DEF NoPlan
    <3>3. plan' \in [Workers -> [sched : 0..Horizon, due : Instants]]
      BY <3>1, <3>2 DEF PhaseInv, TypeOK
    <3>4. pc' \in [Workers -> {"off", "idle"} \cup Acquiring \cup Running]
      BY <3>2 DEF PhaseInv, TypeOK
    <3>5. \A u \in Workers : pc'[u] \in Acquiring \cup Running => plan'[u].sched \in 1..now'
      BY <3>2 DEF PhaseInv, TypeOK
    <3> QED
      BY <3>2, <3>3, <3>4, <3>5 DEF PhaseInv, TypeOK
  <2> QED
    BY <2>1, <2>2
<1>a. /\ TypeOK
      /\ row \in [Workers -> Rows]
      /\ holder \in [Slots -> Workers \cup {None}]
      /\ faults \in 0..MaxFaults
  BY DEF PhaseInv, TypeOK, Rows
<1>2. ASSUME Look(w) PROVE TypeOK'
  <2>1. PICK to \in {"selected", "planned"} : pc' = [pc EXCEPT ![w] = to]
    BY <1>2 DEF Look
  <2> QED
    BY <1>2, <1>a, <2>1, OnItsWay DEF Look
<1>3. ASSUME Lock(w) PROVE TypeOK'
  <2>1. PICK to \in {"locked", "planned"} : pc' = [pc EXCEPT ![w] = to]
    BY <1>3 DEF Lock
  <2>2. holder' \in [Slots -> Workers \cup {None}]
    BY <1>3, <1>a DEF Lock, FreeSlots
  <2>3. pc[w] = "selected" /\ UNCHANGED <<now, version, plan, row, runs, faults>>
    BY <1>3 DEF Lock
  <2> QED
    BY <1>a, <2>1, <2>2, <2>3, OnItsWay
<1>4. ASSUME Recheck(w) PROVE TypeOK'
  <2>1. PICK to \in {"claiming", "planned"} : pc' = [pc EXCEPT ![w] = to]
    BY <1>4 DEF Recheck
  <2>2. holder' \in [Slots -> Workers \cup {None}]
    BY <1>4, <1>a, FreedType DEF Recheck
  <2>3. pc[w] = "locked" /\ UNCHANGED <<now, version, plan, row, runs, faults>>
    BY <1>4 DEF Recheck
  <2> QED
    BY <1>a, <2>1, <2>2, <2>3, OnItsWay
<1>5. ASSUME Claim(w) PROVE TypeOK'
  <2>1. row' \in [Workers -> Rows]
    BY <1>5, <1>a DEF Claim, Rows
  <2> QED
    BY <1>5, <1>a, <2>1, OnItsWay DEF Claim
<1>6. /\ pc[w] \in Undecided
      /\ pc'[w] \in Undecided => plan'[w] = plan[w]
      /\ pc'[w] # "collecting"
      /\ \A u \in Workers \ {w} : pc'[u] = pc[u] /\ plan'[u] = plan[u]
      /\ UNCHANGED <<now, version, runs>>
  BY DEF PhaseInv, TypeOK, Announce, Look, Lock, Recheck, Claim, Undecided
<1>7. RunsClear'
  BY <1>6, ClearKept
<1>8. NoneAhead'
  BY <1>6 DEF PhaseInv, NoneAhead
<1> QED
  BY <1>1, <1>2, <1>3, <1>4, <1>5, <1>7, <1>8 DEF PhaseInv

\* What SetRun does: one run of the version the process was started with.
LEMMA SetRunWrites ==
    ASSUME TypeOK, NEW w \in Workers, pc[w] \in Undecided,
           NEW status \in {"running"} \cup Terminal, SetRun(w, status)
    PROVE  /\ plan[w].sched \in 1..Horizon /\ plan[w].sched <= now
           /\ runs' \in [Workers -> [Versions ->
                            [1..Horizon -> {"none", "running"} \cup Terminal]]]
           /\ runs'[w][version[w]][plan[w].sched] = status
           /\ \A u \in Workers, v \in Versions, t \in 1..Horizon :
                 \/ u = w /\ v = version[w] /\ t = plan[w].sched
                 \/ runs'[u][v][t] = runs[u][v][t]
<1>1. plan[w].sched \in 1..Horizon /\ plan[w].sched <= now /\ version[w] \in Versions
  BY PhaseAssumption DEF TypeOK, Undecided, Running
<1>2. runs \in [Workers -> [Versions -> [1..Horizon -> {"none", "running"} \cup Terminal]]]
  BY DEF TypeOK
<1> DEFINE own == [runs[w][version[w]] EXCEPT ![plan[w].sched] = status]
           all == [runs[w] EXCEPT ![version[w]] = own]
<1>3. runs' = [runs EXCEPT ![w] = all]
  BY <1>1, <1>2 DEF SetRun
<1>4. /\ own \in [1..Horizon -> {"none", "running"} \cup Terminal]
      /\ own[plan[w].sched] = status
      /\ \A t \in 1..Horizon : t # plan[w].sched => own[t] = runs[w][version[w]][t]
  <2> DEFINE old == runs[w][version[w]]
  <2>1. old \in [1..Horizon -> {"none", "running"} \cup Terminal]
    BY <1>1, <1>2
  <2> HIDE DEF old
  <2>2. own = [old EXCEPT ![plan[w].sched] = status]
    BY DEF old
  <2> HIDE DEF own
  <2>3. /\ own \in [1..Horizon -> {"none", "running"} \cup Terminal]
        /\ own[plan[w].sched] = status
        /\ \A t \in 1..Horizon : t # plan[w].sched => own[t] = old[t]
    BY <1>1, <2>1, <2>2
  <2> QED
    BY <2>3 DEF old
<1> HIDE DEF own
<1>5. /\ all \in [Versions -> [1..Horizon -> {"none", "running"} \cup Terminal]]
      /\ all[version[w]] = own
      /\ \A v \in Versions : v # version[w] => all[v] = runs[w][v]
  BY <1>1, <1>2, <1>4
<1> HIDE DEF all
<1>6. /\ runs' \in [Workers -> [Versions -> [1..Horizon -> {"none", "running"} \cup Terminal]]]
      /\ runs'[w] = all
      /\ \A u \in Workers : u # w => runs'[u] = runs[u]
  BY <1>2, <1>3, <1>5
<1> QED
  BY <1>1, <1>4, <1>5, <1>6

\* A run of the planned slot opens, or ends: what else is open, or ahead of the
\* clock, stays as it is.
LEMMA RunWritten ==
    ASSUME PhaseInv, NEW w \in Workers, pc[w] \in Undecided,
           NEW status \in {"running"} \cup Terminal, SetRun(w, status),
           UNCHANGED <<now, version>>,
           \A u \in Workers \ {w} : pc'[u] = pc[u] /\ plan'[u] = plan[u],
           pc'[w] \in Undecided => status = "running" /\ plan'[w] = plan[w]
    PROVE  RunsClear' /\ NoneAhead'
<1>1. /\ TypeOK /\ OneOpenRun /\ OpenIsLatest /\ PlanClear /\ Collects /\ NoneAhead
      /\ version[w] \in Versions /\ now \in Nat /\ "running" \notin Terminal
  BY PhaseAssumption DEF PhaseInv, RunsClear, TypeOK, Terminal
<1>2. /\ plan[w].sched \in 1..Horizon /\ plan[w].sched <= now
      /\ runs'[w][version[w]][plan[w].sched] = status
      /\ \A u \in Workers, v \in Versions, t \in 1..Horizon :
            \/ u = w /\ v = version[w] /\ t = plan[w].sched
            \/ runs'[u][v][t] = runs[u][v][t]
  BY <1>1, SetRunWrites
<1>3. \A t \in 1..Horizon :
         /\ runs'[w][version[w]][t] = "running" => t = plan[w].sched
         /\ runs'[w][version[w]][t] \in Terminal => t < plan[w].sched \/ t = plan[w].sched
  BY <1>1, <1>2 DEF PlanClear, Own
<1>4. OneOpenRun'
  BY <1>1, <1>2, <1>3 DEF OneOpenRun
<1>5. OpenIsLatest'
  <2> SUFFICES ASSUME NEW u \in Workers, NEW v \in Versions,
                      NEW t \in 1..Horizon, NEW s \in 1..Horizon,
                      runs'[u][v][t] = "running", runs'[u][v][s] \in Terminal
               PROVE  s < t
    BY DEF OpenIsLatest
  <2>1. CASE u = w /\ v = version[w]
    BY <1>1, <1>2, <1>3, <2>1
  <2>2. CASE ~(u = w /\ v = version[w])
    BY <1>1, <1>2, <2>2 DEF OpenIsLatest
  <2> QED
    BY <2>1, <2>2
<1>6. \A u \in Workers \ {w} : pc'[u] \in Undecided =>
         /\ plan[u].sched \in 1..Horizon /\ version[u] \in Versions
         /\ \A t \in 1..Horizon : Own(u)'[t] = Own(u)[t]
  <2> SUFFICES ASSUME NEW u \in Workers \ {w}, pc'[u] \in Undecided
               PROVE  /\ plan[u].sched \in 1..Horizon /\ version[u] \in Versions
                      /\ \A t \in 1..Horizon : Own(u)'[t] = Own(u)[t]
    OBVIOUS
  <2>1. plan[u].sched \in 1..Horizon /\ version[u] \in Versions
    BY <1>1, PhaseAssumption DEF TypeOK, Undecided, Running
  <2> QED
    BY <1>2, <2>1 DEF Own
<1>7. PlanClear'
  <2> SUFFICES ASSUME NEW u \in Workers, pc'[u] \in Undecided, NEW t \in 1..Horizon
               PROVE  /\ Own(u)'[t] \in Terminal => t < plan'[u].sched
                      /\ Own(u)'[t] = "running" => t = plan'[u].sched
    BY DEF PlanClear
  <2>1. CASE u = w
    BY <1>1, <1>2, <1>3, <2>1 DEF Own
  <2>2. CASE u # w
    BY <1>1, <1>6, <2>2 DEF PlanClear
  <2> QED
    BY <2>1, <2>2
<1>8. Collects'
  <2> SUFFICES ASSUME NEW u \in Workers, pc'[u] = "collecting"
               PROVE  Own(u)'[plan'[u].sched] = "running"
    BY DEF Collects
  <2>1. pc'[u] \in Undecided
    BY DEF Undecided
  <2>2. CASE u = w
    BY <1>2, <2>1, <2>2 DEF Own
  <2>3. CASE u # w
    BY <1>1, <1>6, <2>1, <2>3 DEF Collects
  <2> QED
    BY <2>2, <2>3
<1>9. NoneAhead'
  BY <1>1, <1>2 DEF NoneAhead
<1> QED
  BY <1>4, <1>5, <1>7, <1>8, <1>9 DEF RunsClear

\* The steps of a cycle, from its start to the release of its slot.
LEMMA CycleKeeps ==
    ASSUME PhaseInv, NEW w \in Workers,
           Begin(w) \/ EndRun(w) \/ FailRun(w) \/ FinishPhase(w) \/ Release(w)
    PROVE  PhaseInv'
<1> USE DEF Acquiring, Running, Moves
<1>1. ASSUME Begin(w) PROVE PhaseInv'
  <2>1. SetRun(w, "running")
    <3>1. Own(w)[plan[w].sched] \notin Terminal
      <4>1. plan[w].sched \in 1..Horizon
        BY <1>1, PhaseAssumption DEF PhaseInv, TypeOK, Begin
      <4> QED
        BY <1>1, <4>1 DEF PhaseInv, RunsClear, PlanClear, Undecided, Begin
    <3> QED
      BY <1>1, <3>1 DEF Begin, Terminal
  <2>2. RunsClear' /\ NoneAhead'
    BY <1>1, <2>1, RunWritten DEF PhaseInv, TypeOK, Begin, Undecided
  <2>3. TypeOK'
    BY <1>1, <2>1, SetRunWrites DEF PhaseInv, TypeOK, Begin, Undecided
  <2> QED
    BY <2>2, <2>3 DEF PhaseInv
<1>2. ASSUME EndRun(w) PROVE PhaseInv'
  <2>1. PICK status \in Terminal : SetRun(w, status)
    BY <1>2 DEF EndRun
  <2>2. RunsClear' /\ NoneAhead'
    BY <1>2, <2>1, RunWritten DEF PhaseInv, TypeOK, EndRun, Undecided
  <2>3. TypeOK'
    BY <1>2, <2>1, SetRunWrites DEF PhaseInv, TypeOK, EndRun, Undecided
  <2> QED
    BY <2>2, <2>3 DEF PhaseInv
<1>3. ASSUME FailRun(w) PROVE PhaseInv'
  <2>1. CASE SetRun(w, "failed") /\ UNCHANGED faults
    <3>1. "failed" \in Terminal
      BY DEF Terminal
    <3>2. RunsClear' /\ NoneAhead'
      BY <1>3, <2>1, <3>1, RunWritten DEF PhaseInv, TypeOK, FailRun, Undecided
    <3>3. TypeOK'
      BY <1>3, <2>1, <3>1, SetRunWrites DEF PhaseInv, TypeOK, FailRun, Undecided
    <3> QED
      BY <3>2, <3>3 DEF PhaseInv
  <2>2. CASE faults < MaxFaults /\ faults' = faults + 1 /\ UNCHANGED runs
    <3>1. RunsClear'
      BY <1>3, <2>2, ClearKept DEF PhaseInv, TypeOK, FailRun, Undecided
    <3>2. faults' \in 0..MaxFaults
      BY <2>2, PhaseAssumption DEF PhaseInv, TypeOK
    <3>3. /\ TypeOK /\ pc[w] = "collecting" /\ pc' = [pc EXCEPT ![w] = "done"]
          /\ UNCHANGED <<now, version, plan, row, holder, runs>>
      BY <1>3, <2>2 DEF PhaseInv, FailRun
    <3>4. row' \in [Workers -> Rows] /\ holder' \in [Slots -> Workers \cup {None}]
      BY <3>3 DEF TypeOK, Rows
    <3>5. TypeOK'
      BY <3>2, <3>3, <3>4, OnItsWay
    <3>6. NoneAhead'
      BY <3>3 DEF PhaseInv, NoneAhead
    <3> QED
      BY <3>1, <3>5, <3>6 DEF PhaseInv
  <2>3. ASSUME faults < MaxFaults, faults' = faults + 1,
               NEW status \in Terminal, SetRun(w, status)
        PROVE  PhaseInv'
    <3>1. RunsClear' /\ NoneAhead'
      BY <1>3, <2>3, RunWritten DEF PhaseInv, TypeOK, FailRun, Undecided
    <3>2. faults' \in 0..MaxFaults
      BY <2>3, PhaseAssumption DEF PhaseInv, TypeOK
    <3>3. TypeOK'
      BY <1>3, <2>3, <3>2, SetRunWrites DEF PhaseInv, TypeOK, FailRun, Undecided
    <3> QED
      BY <3>1, <3>3 DEF PhaseInv
  <2> QED
    BY <1>3, <2>1, <2>2, <2>3 DEF FailRun
<1>4. ASSUME FinishPhase(w) PROVE PhaseInv'
  <2>1. RunsClear'
    BY <1>4, ClearKept DEF PhaseInv, TypeOK, FinishPhase, Undecided
  <2>2. plan[w].sched \in 0..Horizon
    BY DEF PhaseInv, TypeOK
  <2>3. TypeOK'
    <3>1. /\ TypeOK /\ pc[w] = "ran" /\ pc' = [pc EXCEPT ![w] = "done"]
          /\ UNCHANGED <<now, version, plan, holder, runs, faults>>
      BY <1>4 DEF PhaseInv, FinishPhase
    <3>2. row' \in [Workers -> Rows]
      <4>1. row \in [Workers -> Rows]
        BY <3>1 DEF TypeOK, Rows
      <4>2. CASE Holds(w)
        <5> DEFINE r == [row[w] EXCEPT !.state = "completed", !.last = plan[w].sched]
        <5>1. r \in Rows
          BY <2>2, <4>1 DEF Rows
        <5>2. row' = [row EXCEPT ![w] = r]
          BY <1>4, <4>2 DEF FinishPhase
        <5> HIDE DEF r
        <5> QED
          BY <4>1, <5>1, <5>2
      <4> QED
        BY <1>4, <4>1, <4>2 DEF FinishPhase
    <3>3. holder' \in [Slots -> Workers \cup {None}] /\ faults' \in 0..MaxFaults
      BY <3>1 DEF TypeOK
    <3> QED
      BY <3>1, <3>2, <3>3, OnItsWay
  <2> QED
    BY <1>4, <2>1, <2>3 DEF PhaseInv, NoneAhead, FinishPhase
<1>5. ASSUME Release(w) PROVE PhaseInv'
  <2>1. RunsClear'
    BY <1>5, ClearKept DEF PhaseInv, TypeOK, Release, Undecided
  <2>2. NoPlan \in [sched : 0..Horizon, due : Instants]
    BY PhaseAssumption DEF NoPlan, Instants
  <2>3. TypeOK'
    BY <1>5, <2>2 DEF PhaseInv, TypeOK, Release, Freed
  <2> QED
    BY <1>5, <2>1, <2>3 DEF PhaseInv, NoneAhead, Release
<1> QED
  BY <1>1, <1>2, <1>3, <1>4, <1>5

\* Time, starts and faults: none of them writes a run or leaves a process with a
\* plan it had not made.
LEMMA EnvironmentKeeps ==
    ASSUME PhaseInv,
           \/ Tick
           \/ \E w \in Workers : \/ Start(w) \/ GoStale(w) \/ HeldUp(w)
                                 \/ Crash(w) \/ LoseSession(w) \/ GiveUp(w)
    PROVE  PhaseInv'
<1> USE DEF Acquiring, Running, Moves
<1>1. ASSUME Tick PROVE PhaseInv'
  <2>1. TypeOK' /\ NoneAhead'
    BY <1>1, PhaseAssumption DEF PhaseInv, TypeOK, NoneAhead, Tick
  <2>2. RunsClear'
    BY <1>1 DEF PhaseInv, RunsClear, OneOpenRun, OpenIsLatest, PlanClear, Collects, Own, Tick
  <2> QED
    BY <2>1, <2>2 DEF PhaseInv
<1>2. ASSUME NEW w \in Workers, Start(w) PROVE PhaseInv'
  <2>1. TypeOK'
    BY <1>2 DEF PhaseInv, TypeOK, Start
  <2>2. PlanClear' /\ Collects'
    BY <1>2 DEF PhaseInv, RunsClear, TypeOK, PlanClear, Collects, Own, Start, Undecided
  <2> QED
    BY <1>2, <2>1, <2>2 DEF PhaseInv, RunsClear, OneOpenRun, OpenIsLatest, NoneAhead, Start
<1>3. ASSUME NEW w \in Workers, GoStale(w) PROVE PhaseInv'
  <2>1. TypeOK'
    BY <1>3 DEF PhaseInv, TypeOK, GoStale, Ages
  <2>2. RunsClear'
    BY <1>3, ClearKept DEF GoStale
  <2> QED
    BY <1>3, <2>1, <2>2 DEF PhaseInv, NoneAhead, GoStale
<1>4. ASSUME NEW w \in Workers, HeldUp(w) PROVE PhaseInv'
  <2>1. TypeOK'
    <3>1. row' \in [Workers -> Rows]
      <4> DEFINE r == [row[w] EXCEPT !.fresh = FALSE]
      <4>1. row \in [Workers -> Rows]
        BY DEF PhaseInv, TypeOK, Rows
      <4>2. r \in Rows
        BY <4>1 DEF Rows
      <4>3. row' = [row EXCEPT ![w] = r]
        BY <1>4 DEF HeldUp, Ages
      <4> HIDE DEF r
      <4> QED
        BY <4>1, <4>2, <4>3
    <3>2. faults' \in 0..MaxFaults
      BY <1>4, PhaseAssumption DEF PhaseInv, TypeOK, HeldUp, Fault
    <3> QED
      BY <1>4, <3>1, <3>2 DEF PhaseInv, TypeOK, HeldUp, Rows
  <2>2. RunsClear'
    BY <1>4, ClearKept DEF HeldUp
  <2> QED
    BY <1>4, <2>1, <2>2 DEF PhaseInv, NoneAhead, HeldUp
<1>5. NoPlan \in [sched : 0..Horizon, due : Instants]
  BY PhaseAssumption DEF NoPlan, Instants
<1>6. ASSUME NEW w \in Workers, Crash(w) PROVE PhaseInv'
  <2>1. TypeOK'
    BY <1>5, <1>6, PhaseAssumption DEF PhaseInv, TypeOK, Crash, Fault, Freed
  <2>2. RunsClear'
    BY <1>6, ClearKept DEF PhaseInv, TypeOK, Crash, Undecided
  <2> QED
    BY <1>6, <2>1, <2>2 DEF PhaseInv, NoneAhead, Crash
<1>7. ASSUME NEW w \in Workers, LoseSession(w) PROVE PhaseInv'
  <2>1. TypeOK'
    BY <1>7, PhaseAssumption DEF PhaseInv, TypeOK, LoseSession, Fault, Freed
  <2>2. RunsClear'
    BY <1>7, ClearKept DEF PhaseInv, TypeOK, LoseSession, Undecided
  <2> QED
    BY <1>7, <2>1, <2>2 DEF PhaseInv, NoneAhead, LoseSession
<1>8. ASSUME NEW w \in Workers, GiveUp(w) PROVE PhaseInv'
  <2>1. TypeOK'
    BY <1>5, <1>8, PhaseAssumption DEF PhaseInv, TypeOK, GiveUp, Fault, Freed
  <2>2. RunsClear'
    BY <1>8, ClearKept DEF PhaseInv, TypeOK, GiveUp, Undecided
  <2> QED
    BY <1>8, <2>1, <2>2 DEF PhaseInv, NoneAhead, GiveUp
<1> QED
  BY <1>1, <1>2, <1>3, <1>4, <1>6, <1>7, <1>8

LEMMA StepPhaseInv == PhaseInv /\ [Next]_vars => PhaseInv'
<1>1. PhaseInv /\ Next => PhaseInv'
  BY PlanKeeps, TurnKeeps, CycleKeeps, EnvironmentKeeps DEF Next, Step
<1>2. PhaseInv /\ UNCHANGED vars => PhaseInv'
  BY DEF PhaseInv, RunsClear, TypeOK, OneOpenRun, OpenIsLatest, PlanClear, Collects, Own,
         NoneAhead, vars
<1> QED
  BY <1>1, <1>2

LEMMA PhaseInvHolds == Spec => []PhaseInv
BY InitPhaseInv, StepPhaseInv, PTL DEF Spec

-----------------------------------------------------------------------------
(* Ended runs *)

\* Only the three steps that write a run could reopen an ended one, and each of
\* them writes the planned slot, which PlanClear says has not ended.
LEMMA StepKeepsEnded == PhaseInv /\ [Next]_vars => KeepsEnded
<1> SUFFICES ASSUME PhaseInv, [Next]_vars PROVE KeepsEnded
  OBVIOUS
<1>1. TypeOK /\ PlanClear
  BY DEF PhaseInv, RunsClear
<1>2. ASSUME NEW w \in Workers, pc[w] \in Undecided,
             NEW status \in {"running"} \cup Terminal, SetRun(w, status)
      PROVE  KeepsEnded
  BY <1>1, <1>2, SetRunWrites DEF KeepsEnded, PlanClear, Own
<1>3. ASSUME UNCHANGED runs PROVE KeepsEnded
  BY <1>3 DEF KeepsEnded
<1>4. ASSUME NEW w \in Workers, Begin(w) \/ EndRun(w) \/ FailRun(w) PROVE KeepsEnded
  <2>1. pc[w] \in Undecided
    BY <1>4 DEF Begin, EndRun, FailRun, Moves, Undecided
  <2>2. UNCHANGED runs \/ \E status \in {"running"} \cup Terminal : SetRun(w, status)
    BY <1>4 DEF Begin, EndRun, FailRun, Terminal
  <2> QED
    BY <1>2, <1>3, <2>1, <2>2
<1>5. \/ UNCHANGED runs
      \/ \E w \in Workers : Begin(w) \/ EndRun(w) \/ FailRun(w)
  BY DEF Next, Step, Tick, Plan, Announce, Look, Lock, Recheck, Claim, FinishPhase,
         Release, Start, GoStale, HeldUp, Crash, LoseSession, GiveUp, vars
<1> QED
  BY <1>3, <1>4, <1>5

(***************************************************************************)
(* The mark of a completed slot is written one step after its run ended,   *)
(* over another connection, by a process that may be restarted with a      *)
(* version of which that run is not.  RanTrue carries the fact across, and *)
(* AheadOfMark what was compared when the turn was announced.              *)
(***************************************************************************)
RanTrue == \A w \in Workers : pc[w] = "ran" => Own(w)[plan[w].sched] \in Terminal

Admitted == {"waiting", "selected", "locked", "claiming", "leased", "collecting", "ran"}
AheadOfMark == \A w \in Workers : pc[w] \in Admitted => row[w].last < plan[w].sched

MarkInv == PhaseInv /\ RanTrue /\ CompletedTrue /\ AheadOfMark

\* A process whose cycle ran has just ended it, or goes on as it was.
LEMMA RanStays ==
    ASSUME PhaseInv, [Next]_vars, NEW w \in Workers, pc'[w] = "ran"
    PROVE  \/ EndRun(w)
           \/ pc[w] = "ran" /\ plan'[w] = plan[w] /\ version'[w] = version[w]
<1>1. TypeOK
  BY DEF PhaseInv
<1>2. CASE UNCHANGED vars
  BY <1>2 DEF vars
<1>3. CASE Tick
  BY <1>3 DEF Tick
<1>4. ASSUME NEW u \in Workers,
             Plan(u) \/ Announce(u) \/ Look(u) \/ Lock(u) \/ Recheck(u) \/ Claim(u)
      PROVE  pc[w] = "ran" /\ plan'[w] = plan[w] /\ version'[w] = version[w]
  BY <1>1, <1>4 DEF TypeOK, Moves, Plan, Announce, Look, Lock, Recheck, Claim
<1>5. ASSUME NEW u \in Workers,
             Begin(u) \/ EndRun(u) \/ FailRun(u) \/ FinishPhase(u) \/ Release(u)
      PROVE  \/ EndRun(w)
             \/ pc[w] = "ran" /\ plan'[w] = plan[w] /\ version'[w] = version[w]
  BY <1>1, <1>5 DEF TypeOK, Moves, Begin, EndRun, FailRun, FinishPhase, Release
<1>6. ASSUME NEW u \in Workers,
             Start(u) \/ GoStale(u) \/ HeldUp(u) \/ Crash(u) \/ LoseSession(u) \/ GiveUp(u)
      PROVE  pc[w] = "ran" /\ plan'[w] = plan[w] /\ version'[w] = version[w]
  BY <1>1, <1>6 DEF TypeOK, Moves, Start, GoStale, HeldUp, Crash, LoseSession, GiveUp
<1> QED
  BY <1>2, <1>3, <1>4, <1>5, <1>6 DEF Next, Step

\* A process is admitted by its announcement, and keeps its plan while it is.
LEMMA AdmittedStays ==
    ASSUME PhaseInv, [Next]_vars, NEW w \in Workers, pc'[w] \in Admitted
    PROVE  /\ plan'[w] = plan[w]
           /\ pc[w] \in Admitted \/ row[w].last < plan[w].sched
<1>1. TypeOK
  BY DEF PhaseInv
<1>2. CASE UNCHANGED vars
  BY <1>2 DEF vars
<1>3. CASE Tick
  BY <1>3 DEF Tick
<1>4. ASSUME NEW u \in Workers, Plan(u)
      PROVE  plan'[w] = plan[w] /\ pc[w] \in Admitted
  <2>1. u # w
    BY <1>1, <1>4 DEF TypeOK, Moves, Plan, Admitted
  <2>2. pc'[w] = pc[w]
    BY <1>1, <1>4, <2>1 DEF TypeOK, Moves, Plan
  <2>3. plan'[w] = plan[w]
    <3>1. PICK p : plan' = [plan EXCEPT ![u] = p]
      BY <1>4 DEF Plan
    <3> QED
      BY <1>1, <2>1, <3>1 DEF TypeOK
  <2> QED
    BY <2>2, <2>3
<1>5. ASSUME NEW u \in Workers,
             Announce(u) \/ Look(u) \/ Lock(u) \/ Recheck(u) \/ Claim(u)
      PROVE  plan'[w] = plan[w] /\ (pc[w] \in Admitted \/ row[w].last < plan[w].sched)
  BY <1>1, <1>5 DEF TypeOK, Moves, Announce, Look, Lock, Recheck, Claim, Admitted
<1>6. ASSUME NEW u \in Workers,
             Begin(u) \/ EndRun(u) \/ FailRun(u) \/ FinishPhase(u) \/ Release(u)
      PROVE  plan'[w] = plan[w] /\ pc[w] \in Admitted
  BY <1>1, <1>6 DEF TypeOK, Moves, Begin, EndRun, FailRun, FinishPhase, Release, Admitted
<1>7. ASSUME NEW u \in Workers,
             Start(u) \/ GoStale(u) \/ HeldUp(u) \/ Crash(u) \/ LoseSession(u) \/ GiveUp(u)
      PROVE  plan'[w] = plan[w] /\ pc[w] \in Admitted
  BY <1>1, <1>7 DEF TypeOK, Moves, Start, GoStale, HeldUp, Crash, LoseSession, GiveUp,
                    Admitted
<1> QED
  BY <1>2, <1>3, <1>4, <1>5, <1>6, <1>7 DEF Next, Step

\* The mark moves in FinishPhase only, to the slot that has been run.
LEMMA MarkMoves ==
    ASSUME PhaseInv, [Next]_vars, NEW w \in Workers
    PROVE  \/ row'[w].last = row[w].last
           \/ FinishPhase(w) /\ row'[w].last = plan[w].sched
<1>1. TypeOK
  BY DEF PhaseInv
<1>2. ASSUME UNCHANGED row PROVE row'[w].last = row[w].last
  BY <1>2
<1>3. ASSUME NEW u \in Workers, Announce(u) PROVE row'[w].last = row[w].last
  <2>1. CASE row[u].last < plan[u].sched
    <3> DEFINE r == [state |-> "requested", fresh |-> TRUE, sched |-> plan[u].sched,
                     due |-> plan[u].due, last |-> row[u].last]
    <3>1. row' = [row EXCEPT ![u] = r]
      BY <1>1, <1>3, <2>1 DEF Announce, TypeOK
    <3>2. r.last = row[u].last
      OBVIOUS
    <3> HIDE DEF r
    <3> QED
      BY <1>1, <3>1, <3>2 DEF TypeOK
  <2> QED
    BY <1>3, <2>1 DEF Announce
<1>4. ASSUME NEW u \in Workers, Claim(u) \/ GoStale(u) \/ HeldUp(u)
      PROVE  row'[w].last = row[w].last
  <2>1. row[u] \in Rows
    BY <1>1 DEF TypeOK, Rows
  <2>2. CASE Claim(u)
    <3> DEFINE r == [row[u] EXCEPT !.state = "active"]
    <3>1. row' = [row EXCEPT ![u] = r]
      BY <2>2 DEF Claim
    <3>2. r.last = row[u].last
      BY <2>1 DEF Rows
    <3> HIDE DEF r
    <3> QED
      BY <1>1, <3>1, <3>2 DEF TypeOK
  <2>3. CASE GoStale(u) \/ HeldUp(u)
    <3> DEFINE r == [row[u] EXCEPT !.fresh = FALSE]
    <3>1. row' = [row EXCEPT ![u] = r]
      BY <2>3 DEF GoStale, HeldUp, Ages
    <3>2. r.last = row[u].last
      BY <2>1 DEF Rows
    <3> HIDE DEF r
    <3> QED
      BY <1>1, <3>1, <3>2 DEF TypeOK
  <2> QED
    BY <1>4, <2>2, <2>3
<1>5. ASSUME NEW u \in Workers, FinishPhase(u)
      PROVE  \/ row'[w].last = row[w].last
             \/ FinishPhase(w) /\ row'[w].last = plan[w].sched
  BY <1>1, <1>5 DEF TypeOK, FinishPhase
<1>6. \/ UNCHANGED row
      \/ \E u \in Workers : \/ Announce(u) \/ Claim(u) \/ GoStale(u) \/ HeldUp(u)
                            \/ FinishPhase(u)
  BY DEF Next, Step, Tick, Plan, Look, Lock, Recheck, Begin, EndRun, FailRun, Release,
         Start, Crash, LoseSession, GiveUp, vars
<1> QED
  BY <1>2, <1>3, <1>4, <1>5, <1>6

LEMMA StepMarkInv == MarkInv /\ [Next]_vars => MarkInv'
<1> SUFFICES ASSUME MarkInv, [Next]_vars PROVE MarkInv'
  OBVIOUS
<1>1. PhaseInv /\ TypeOK /\ RanTrue /\ CompletedTrue /\ AheadOfMark
  BY DEF MarkInv, PhaseInv
<1>2. PhaseInv' /\ TypeOK' /\ KeepsEnded
  BY <1>1, StepPhaseInv, StepKeepsEnded DEF PhaseInv
<1>3. \A w \in Workers : pc[w] \in Running =>
         plan[w].sched \in 1..Horizon /\ version[w] \in Versions
  BY <1>1, PhaseAssumption DEF TypeOK
<1>4. RanTrue'
  <2> SUFFICES ASSUME NEW w \in Workers, pc'[w] = "ran"
               PROVE  runs'[w][version'[w]][plan'[w].sched] \in Terminal
    BY DEF RanTrue, Own
  <2>1. CASE EndRun(w)
    <3>1. PICK status \in Terminal : SetRun(w, status)
      BY <2>1 DEF EndRun
    <3>2. pc[w] \in Undecided /\ UNCHANGED <<version, plan>>
      BY <2>1 DEF EndRun, Moves, Undecided
    <3> QED
      BY <1>1, <3>1, <3>2, SetRunWrites
  <2>2. CASE pc[w] = "ran" /\ plan'[w] = plan[w] /\ version'[w] = version[w]
    <3>1. runs[w][version[w]][plan[w].sched] \in Terminal
      BY <1>1, <2>2 DEF RanTrue, Own
    <3> QED
      BY <1>2, <1>3, <2>2, <3>1 DEF KeepsEnded, Running
  <2> QED
    BY <1>1, <2>1, <2>2, RanStays
<1>5. CompletedTrue'
  <2> SUFFICES ASSUME NEW w \in Workers, row'[w].last # 0
               PROVE  \E v \in Versions : runs'[w][v][row'[w].last] \in Terminal
    BY DEF CompletedTrue
  <2>1. CASE row'[w].last = row[w].last
    <3>1. PICK v \in Versions : runs[w][v][row[w].last] \in Terminal
      BY <1>1, <2>1 DEF CompletedTrue
    <3>2. row[w].last \in 1..Horizon
      BY <1>1, <2>1, PhaseAssumption DEF TypeOK
    <3> QED
      BY <1>2, <2>1, <3>1, <3>2 DEF KeepsEnded
  <2>2. CASE FinishPhase(w) /\ row'[w].last = plan[w].sched
    <3>1. pc[w] = "ran"
      BY <2>2 DEF FinishPhase, Moves
    <3>2. runs[w][version[w]][plan[w].sched] \in Terminal
      BY <1>1, <3>1 DEF RanTrue, Own
    <3> QED
      BY <1>2, <1>3, <2>2, <3>1, <3>2 DEF KeepsEnded, Running
  <2> QED
    BY <1>1, <2>1, <2>2, MarkMoves
<1>6. AheadOfMark'
  <2> SUFFICES ASSUME NEW w \in Workers, pc'[w] \in Admitted
               PROVE  row'[w].last < plan'[w].sched
    BY DEF AheadOfMark
  <2>1. plan'[w] = plan[w] /\ row[w].last < plan[w].sched
    BY <1>1, AdmittedStays DEF AheadOfMark
  <2>2. row'[w].last = row[w].last
    <3>1. ~FinishPhase(w)
      BY <1>1 DEF TypeOK, FinishPhase, Moves, Admitted
    <3> QED
      BY <1>1, <3>1, MarkMoves
  <2> QED
    BY <2>1, <2>2
<1> QED
  BY <1>2, <1>4, <1>5, <1>6 DEF MarkInv

\* Where the mark moves to has ended, and lies ahead of where it was.
LEMMA StepMovesOn == MarkInv /\ [Next]_vars => MovesOn
<1> SUFFICES ASSUME MarkInv, [Next]_vars, NEW w \in Workers,
                    row'[w].last # row[w].last
             PROVE  /\ row[w].last < row'[w].last
                    /\ \E v \in Versions : runs[w][v][row'[w].last] \in Terminal
  BY DEF MovesOn
<1>1. PhaseInv /\ TypeOK /\ RanTrue /\ AheadOfMark
  BY DEF MarkInv, PhaseInv
<1>2. FinishPhase(w) /\ row'[w].last = plan[w].sched
  BY <1>1, MarkMoves
<1>3. pc[w] = "ran" /\ version[w] \in Versions
  BY <1>1, <1>2 DEF FinishPhase, Moves, TypeOK
<1>4. row[w].last < plan[w].sched
  BY <1>1, <1>3 DEF AheadOfMark, Admitted
<1>5. runs[w][version[w]][plan[w].sched] \in Terminal
  BY <1>1, <1>3 DEF RanTrue, Own
<1> QED
  BY <1>2, <1>3, <1>4, <1>5

LEMMA MarkInvHolds == Spec => []MarkInv
<1>1. Init => MarkInv
  BY InitPhaseInv DEF MarkInv, Init, RanTrue, CompletedTrue, AheadOfMark, Admitted, NoRow
<1> QED
  BY <1>1, StepMarkInv, PTL DEF Spec

-----------------------------------------------------------------------------
(* The ledger of runs *)

\* What one write does to the runs of each line.
LEMMA OneRunWritten ==
    ASSUME TypeOK, NEW w \in Workers, pc[w] \in Undecided,
           NEW status \in {"running"} \cup Terminal, SetRun(w, status),
           NEW l, l = <<w, version[w]>>, NEW s, s = plan[w].sched
    PROVE  /\ l \in Lines /\ s \in 1..Horizon
           /\ \A t : t \in OpenRuns[l] <=> t \in 1..Horizon /\ Own(w)[t] = "running"
           /\ \A t : t \in EndedRuns[l] <=> t \in 1..Horizon /\ Own(w)[t] \in Terminal
           /\ status = "running" =>
                 /\ OpenRuns' = [OpenRuns EXCEPT ![l] = @ \cup {s}]
                 /\ EndedRuns' = [EndedRuns EXCEPT ![l] = @ \ {s}]
           /\ status \in Terminal =>
                 /\ OpenRuns' = [OpenRuns EXCEPT ![l] = @ \ {s}]
                 /\ EndedRuns' = [EndedRuns EXCEPT ![l] = @ \cup {s}]
<1>1. /\ version[w] \in Versions /\ s \in 1..Horizon /\ "running" \notin Terminal
      /\ runs'[w][version[w]][s] = status
      /\ \A u \in Workers, v \in Versions, t \in 1..Horizon :
            \/ u = w /\ v = version[w] /\ t = s
            \/ runs'[u][v][t] = runs[u][v][t]
  BY SetRunWrites DEF TypeOK, Terminal
<1>2. l \in Lines /\ l[1] = w /\ l[2] = version[w]
  BY <1>1 DEF Lines
<1>3. \A k \in Lines, t \in 1..Horizon :
         \/ k = l /\ t = s /\ runs'[k[1]][k[2]][t] = status
         \/ (k # l \/ t # s) /\ runs'[k[1]][k[2]][t] = runs[k[1]][k[2]][t]
  <2> SUFFICES ASSUME NEW k \in Lines, NEW t \in 1..Horizon
               PROVE  \/ k = l /\ t = s /\ runs'[k[1]][k[2]][t] = status
                      \/ (k # l \/ t # s) /\ runs'[k[1]][k[2]][t] = runs[k[1]][k[2]][t]
    OBVIOUS
  <2>1. k[1] \in Workers /\ k[2] \in Versions /\ k = <<k[1], k[2]>>
    BY DEF Lines
  <2> QED
    BY <1>1, <1>2, <2>1
<1> DEFINE Opened(k) == {t \in 1..Horizon : runs[k[1]][k[2]][t] = "running"}
           OpenedNow(k) == {t \in 1..Horizon : runs'[k[1]][k[2]][t] = "running"}
           Closed(k) == {t \in 1..Horizon : runs[k[1]][k[2]][t] \in Terminal}
           ClosedNow(k) == {t \in 1..Horizon : runs'[k[1]][k[2]][t] \in Terminal}
<1>4. \A k \in Lines \ {l} : OpenedNow(k) = Opened(k) /\ ClosedNow(k) = Closed(k)
  BY <1>3
<1>5. /\ status = "running" => OpenedNow(l) = Opened(l) \cup {s}
      /\ status = "running" => ClosedNow(l) = Closed(l) \ {s}
      /\ status \in Terminal => OpenedNow(l) = Opened(l) \ {s}
      /\ status \in Terminal => ClosedNow(l) = Closed(l) \cup {s}
  BY <1>1, <1>2, <1>3
<1>6. /\ OpenRuns = [k \in Lines |-> Opened(k)] /\ OpenRuns' = [k \in Lines |-> OpenedNow(k)]
      /\ EndedRuns = [k \in Lines |-> Closed(k)] /\ EndedRuns' = [k \in Lines |-> ClosedNow(k)]
  BY DEF OpenRuns, EndedRuns, Lines
<1>7. /\ \A t : t \in Opened(l) <=> t \in 1..Horizon /\ Own(w)[t] = "running"
      /\ \A t : t \in Closed(l) <=> t \in 1..Horizon /\ Own(w)[t] \in Terminal
  BY <1>2 DEF Own
<1> HIDE DEF Opened, OpenedNow, Closed, ClosedNow
<1>8. OpenRuns[l] = Opened(l) /\ EndedRuns[l] = Closed(l)
  BY <1>2, <1>6
<1>9. ASSUME NEW S, OpenedNow(l) = S PROVE OpenRuns' = [OpenRuns EXCEPT ![l] = S]
  BY <1>2, <1>4, <1>6, <1>9
<1>10. ASSUME NEW S, ClosedNow(l) = S PROVE EndedRuns' = [EndedRuns EXCEPT ![l] = S]
  BY <1>2, <1>4, <1>6, <1>10
<1>11. status = "running" =>
          /\ OpenRuns' = [OpenRuns EXCEPT ![l] = @ \cup {s}]
          /\ EndedRuns' = [EndedRuns EXCEPT ![l] = @ \ {s}]
  BY <1>5, <1>8, <1>9, <1>10
<1>12. status \in Terminal =>
          /\ OpenRuns' = [OpenRuns EXCEPT ![l] = @ \ {s}]
          /\ EndedRuns' = [EndedRuns EXCEPT ![l] = @ \cup {s}]
  BY <1>5, <1>8, <1>9, <1>10
<1> QED
  BY <1>1, <1>2, <1>7, <1>8, <1>11, <1>12

\* A run of the planned slot opens when no other of its line is open and all that
\* ended are earlier; a run that was left open is just resumed.
LEMMA BeginOpens ==
    ASSUME PhaseInv, NEW w \in Workers, Begin(w)
    PROVE  Ledger!LedgerNext \/ UNCHANGED Ledger!ledger
<1>1. /\ TypeOK /\ PlanClear /\ pc[w] = "leased" /\ pc[w] \in Undecided
      /\ plan[w].sched \in 1..Horizon /\ "running" \notin Terminal
  BY PhaseAssumption DEF PhaseInv, RunsClear, TypeOK, Begin, Moves, Undecided, Running, Terminal
<1>2. PICK l, s : l = <<w, version[w]>> /\ s = plan[w].sched
  OBVIOUS
<1>3. /\ Own(w)[s] \notin Terminal
      /\ \A u \in 1..Horizon : Own(w)[u] \in Terminal => u < s
      /\ \A u \in 1..Horizon : Own(w)[u] = "running" => u = s
  BY <1>1, <1>2 DEF PlanClear
<1>4. SetRun(w, "running")
  BY <1>2, <1>3 DEF Begin, Terminal
<1>5. /\ l \in Lines /\ s \in 1..Horizon
      /\ \A t : t \in OpenRuns[l] <=> t \in 1..Horizon /\ Own(w)[t] = "running"
      /\ \A t : t \in EndedRuns[l] <=> t \in 1..Horizon /\ Own(w)[t] \in Terminal
      /\ OpenRuns' = [OpenRuns EXCEPT ![l] = @ \cup {s}]
      /\ EndedRuns' = [EndedRuns EXCEPT ![l] = @ \ {s}]
  BY <1>1, <1>2, <1>4, OneRunWritten
<1>6. EndedRuns' = EndedRuns
  <2>1. s \notin EndedRuns[l]
    BY <1>3, <1>5
  <2>2. EndedRuns[l] \ {s} = EndedRuns[l]
    BY <2>1
  <2>3. EndedRuns = [k \in Lines |-> EndedRuns[k]]
    BY DEF EndedRuns
  <2> QED
    BY <1>5, <2>2, <2>3
<1>7. CASE Own(w)[s] = "running"
  <2>1. s \in OpenRuns[l]
    BY <1>5, <1>7
  <2>2. OpenRuns[l] \cup {s} = OpenRuns[l]
    BY <2>1
  <2>3. OpenRuns = [k \in Lines |-> OpenRuns[k]]
    BY DEF OpenRuns
  <2>4. OpenRuns' = OpenRuns
    BY <1>5, <2>2, <2>3
  <2> QED
    BY <1>6, <2>4 DEF Ledger!ledger
<1>8. CASE Own(w)[s] # "running"
  <2>1. OpenRuns[l] = {}
    BY <1>3, <1>5, <1>8
  <2>2. OpenRuns[l] \cup {s} = {s}
    BY <2>1
  <2>3. OpenRuns' = [OpenRuns EXCEPT ![l] = {s}]
    BY <1>5, <2>2
  <2>4. \A u \in EndedRuns[l] : u < s
    BY <1>3, <1>5
  <2>5. Ledger!Open(l, s)
    BY <1>6, <2>1, <2>3, <2>4 DEF Ledger!Open
  <2> QED
    BY <1>5, <2>5 DEF Ledger!LedgerNext
<1> QED
  BY <1>7, <1>8

\* What ends is the run that the cycle has open.
LEMMA WriteEnds ==
    ASSUME PhaseInv, NEW w \in Workers, pc[w] = "collecting",
           NEW status \in Terminal, SetRun(w, status)
    PROVE  Ledger!LedgerNext
<1>1. /\ TypeOK /\ Collects /\ pc[w] \in Undecided
      /\ status \in {"running"} \cup Terminal
  BY DEF PhaseInv, RunsClear, Undecided
<1>2. PICK l, s : l = <<w, version[w]>> /\ s = plan[w].sched
  OBVIOUS
<1>3. /\ l \in Lines /\ s \in 1..Horizon
      /\ \A t : t \in OpenRuns[l] <=> t \in 1..Horizon /\ Own(w)[t] = "running"
      /\ OpenRuns' = [OpenRuns EXCEPT ![l] = @ \ {s}]
      /\ EndedRuns' = [EndedRuns EXCEPT ![l] = @ \cup {s}]
  BY <1>1, <1>2, OneRunWritten
<1>4. s \in OpenRuns[l]
  BY <1>1, <1>2, <1>3 DEF Collects
<1>5. Ledger!End(l, s)
  BY <1>3, <1>4 DEF Ledger!End
<1> QED
  BY <1>3, <1>5 DEF Ledger!LedgerNext

LEMMA StepImplementsLedger ==
    PhaseInv /\ [Next]_vars => [Ledger!LedgerNext]_(Ledger!ledger)
<1> SUFFICES ASSUME PhaseInv, [Next]_vars
             PROVE  Ledger!LedgerNext \/ UNCHANGED Ledger!ledger
  OBVIOUS
<1>1. ASSUME UNCHANGED runs PROVE UNCHANGED Ledger!ledger
  BY <1>1 DEF Ledger!ledger, OpenRuns, EndedRuns, Lines
<1>2. ASSUME NEW w \in Workers, EndRun(w) \/ FailRun(w)
      PROVE  Ledger!LedgerNext \/ UNCHANGED Ledger!ledger
  <2>1. pc[w] = "collecting"
    BY <1>2 DEF EndRun, FailRun, Moves
  <2>2. UNCHANGED runs \/ \E status \in Terminal : SetRun(w, status)
    BY <1>2 DEF EndRun, FailRun, Terminal
  <2> QED
    BY <1>1, <2>1, <2>2, WriteEnds
<1>3. \/ UNCHANGED runs
      \/ \E w \in Workers : Begin(w) \/ EndRun(w) \/ FailRun(w)
  BY DEF Next, Step, Tick, Plan, Announce, Look, Lock, Recheck, Claim, FinishPhase,
         Release, Start, GoStale, HeldUp, Crash, LoseSession, GiveUp, vars
<1> QED
  BY <1>1, <1>2, <1>3, BeginOpens

-----------------------------------------------------------------------------
(* The pool of slots *)

\* A lock is held for a turn only: what a process has when it looks for a slot is
\* none.  It follows step by step from the pool itself (PoolKeeps).
SlotsInTurn == Holding \subseteq InTurn

\* While a slot is free fewer platforms than slots hold one.
LEMMA FreeSlotFewerHolders ==
    ASSUME TypeOK, NEW s \in FreeSlots
    PROVE  Cardinality(Holding) < Cardinality(Slots)
<1> DEFINE used == Slots \ {s}
           f == [r \in {r \in Slots : holder[r] # None} |-> holder[r]]
           taken == {r \in Slots : holder[r] # None}
<1>1. IsFiniteSet(Slots) /\ s \in Slots /\ holder[s] = None
  BY PhaseAssumption DEF FreeSlots
<1>2. /\ IsFiniteSet(used) /\ Cardinality(used) = Cardinality(Slots) - 1
      /\ Cardinality(used) \in Nat /\ Cardinality(Slots) \in Nat
  BY <1>1, FS_RemoveElement, FS_CardinalityType
<1>3. taken \subseteq used
  BY <1>1
<1>4. f \in Surjection(taken, Holding)
  BY PhaseAssumption DEF Holding, Holds, Surjection, TypeOK
<1> HIDE DEF f, taken, used
<1>5. IsFiniteSet(taken) /\ Cardinality(taken) <= Cardinality(used)
  BY <1>2, <1>3, FS_Subset
<1>6. IsFiniteSet(Holding) /\ Cardinality(Holding) <= Cardinality(taken)
  BY <1>4, <1>5, FS_Surjection
<1>7. Cardinality(taken) \in Nat /\ Cardinality(Holding) \in Nat
  BY <1>5, <1>6, FS_CardinalityType
<1> QED
  BY <1>2, <1>5, <1>6, <1>7

\* Giving a slot back, or losing the session, leaves all other locks as they are.
LEMMA FreedHolding ==
    ASSUME TypeOK, NEW w \in Workers, holder' = Freed(w)
    PROVE  Holding' = Holding \ {w}
<1>1. \A s \in Slots : holder'[s] = IF holder[s] = w THEN None ELSE holder[s]
  BY DEF Freed
<1>2. None \notin Workers
  BY PhaseAssumption
<1> QED
  BY <1>1, <1>2 DEF Holding, Holds

LEMMA LockedHolding ==
    ASSUME TypeOK, NEW w \in Workers, NEW s \in FreeSlots,
           holder' = [holder EXCEPT ![s] = w]
    PROVE  Holding' = Holding \cup {w}
<1>1. s \in Slots /\ holder[s] = None /\ None \notin Workers
  BY PhaseAssumption DEF FreeSlots
<1>2. \A r \in Slots : holder'[r] = IF r = s THEN w ELSE holder[r]
  BY <1>1 DEF TypeOK
<1> QED
  BY <1>1, <1>2 DEF Holding, Holds

Turn == {"locked", "claiming"} \cup Running

\* A process comes to its turn, goes on in it, or its turn is over.
LEMMA TurnMoves ==
    ASSUME TypeOK, NEW w \in Workers, NEW to, pc' = [pc EXCEPT ![w] = to]
    PROVE  InTurn' = IF to \in Turn THEN InTurn \cup {w} ELSE InTurn \ {w}
<1>1. \A u \in Workers : pc'[u] = IF u = w THEN to ELSE pc[u]
  BY DEF TypeOK
<1> QED
  BY <1>1 DEF InTurn, Turn

LEMMA PoolKeeps == SlotsInTurn /\ [Pool!PoolNext]_(Pool!pool) => SlotsInTurn'
BY DEF SlotsInTurn, Pool!PoolNext, Pool!Take, Pool!Lose, Pool!Leave, Pool!pool

\* The turn is over and the lock given back, or there was neither.
LEMMA LeavesPool ==
    ASSUME TypeOK, SlotsInTurn, NEW w \in Workers, holder' = Freed(w),
           NEW to, to \notin Turn, pc' = [pc EXCEPT ![w] = to]
    PROVE  Pool!PoolNext \/ UNCHANGED Pool!pool
<1>1. Holding' = Holding \ {w} /\ InTurn' = InTurn \ {w}
  BY FreedHolding, TurnMoves
<1>2. CASE w \in InTurn
  BY <1>1, <1>2 DEF Pool!PoolNext, Pool!Leave
<1>3. CASE w \notin InTurn
  BY <1>1, <1>3 DEF SlotsInTurn, Pool!pool
<1> QED
  BY <1>2, <1>3

\* Steps that touch no lock and neither begin a turn nor end one.
LEMMA PoolUntouched ==
    ASSUME TypeOK, NEW w \in Workers, NEW to, pc' = [pc EXCEPT ![w] = to],
           UNCHANGED holder, pc[w] \in Turn <=> to \in Turn
    PROVE  UNCHANGED Pool!pool
<1>1. Holding' = Holding
  BY DEF Holding, Holds
<1>2. w \in InTurn <=> to \in Turn
  BY DEF InTurn, Turn
<1>3. InTurn' = InTurn
  BY <1>2, TurnMoves
<1> QED
  BY <1>1, <1>3 DEF Pool!pool

\* From the plan to the claim: the lock, and what may follow it.
LEMMA TurnUsesPool ==
    ASSUME TypeOK, SlotsInTurn, NEW w \in Workers,
           Plan(w) \/ Announce(w) \/ Look(w) \/ Lock(w) \/ Recheck(w) \/ Claim(w)
    PROVE  Pool!PoolNext \/ UNCHANGED Pool!pool
<1> USE DEF Turn, Running, Moves
<1>1. CASE Plan(w) \/ Announce(w) \/ Look(w)
  <2>1. /\ pc[w] \in {"idle", "planned", "waiting"} /\ UNCHANGED holder
        /\ \E to \in {"planned", "waiting", "idle", "selected"} : pc' = [pc EXCEPT ![w] = to]
    BY <1>1 DEF Plan, Announce, Look
  <2> QED
    BY <2>1, PoolUntouched
<1>2. CASE Lock(w)
  <2>1. CASE FreeSlots = {} /\ UNCHANGED holder
    <3>1. pc[w] = "selected"
      BY <1>2 DEF Lock
    <3>2. pc' = [pc EXCEPT ![w] = "planned"]
      BY <1>2, <2>1 DEF Lock
    <3> QED
      BY <2>1, <3>1, <3>2, PoolUntouched
  <2>2. CASE pc' = [pc EXCEPT ![w] = "locked"]
               /\ \E s \in FreeSlots : holder' = [holder EXCEPT ![s] = w]
    <3>1. PICK s \in FreeSlots : holder' = [holder EXCEPT ![s] = w]
      BY <2>2
    <3>2. Holding' = Holding \cup {w} /\ Cardinality(Holding) < Cardinality(Slots)
      BY <3>1, LockedHolding, FreeSlotFewerHolders
    <3>3. InTurn' = InTurn \cup {w}
      BY <2>2, TurnMoves
    <3>4. w \notin InTurn
      BY <1>2 DEF Lock, InTurn
    <3>5. Pool!Cardinality(Holding) = Cardinality(Holding)
      BY DEF Pool!Cardinality, Cardinality
    <3> QED
      BY <3>2, <3>3, <3>4, <3>5 DEF Pool!PoolNext, Pool!Take
  <2> QED
    BY <1>2, <2>1, <2>2 DEF Lock
<1>3. CASE Recheck(w)
  <2>1. CASE pc[w] = "locked" /\ pc' = [pc EXCEPT ![w] = "claiming"] /\ UNCHANGED holder
    BY <2>1, PoolUntouched
  <2>2. CASE pc' = [pc EXCEPT ![w] = "planned"] /\ holder' = Freed(w)
    BY <2>2, LeavesPool
  <2> QED
    BY <1>3, <2>1, <2>2 DEF Recheck
<1>4. CASE Claim(w)
  BY <1>4, PoolUntouched DEF Claim
<1> QED
  BY <1>1, <1>2, <1>3, <1>4

\* The cycle keeps its slot to the end.
LEMMA CycleUsesPool ==
    ASSUME TypeOK, SlotsInTurn, NEW w \in Workers,
           Begin(w) \/ EndRun(w) \/ FailRun(w) \/ FinishPhase(w) \/ Release(w)
    PROVE  Pool!PoolNext \/ UNCHANGED Pool!pool
<1> USE DEF Turn, Running, Moves
<1>1. CASE Begin(w) \/ EndRun(w) \/ FailRun(w) \/ FinishPhase(w)
  <2>1. /\ pc[w] \in Running /\ UNCHANGED holder
        /\ \E to \in Running : pc' = [pc EXCEPT ![w] = to]
    BY <1>1 DEF Begin, EndRun, FailRun, FinishPhase
  <2> QED
    BY <2>1, PoolUntouched
<1>2. CASE Release(w)
  BY <1>2, LeavesPool DEF Release
<1> QED
  BY <1>1, <1>2

\* Faults: a session may be lost in the middle of a turn, and the slot with it.
LEMMA EnvironmentUsesPool ==
    ASSUME TypeOK, SlotsInTurn, NEW w \in Workers,
           \/ Start(w) \/ GoStale(w) \/ HeldUp(w)
           \/ Crash(w) \/ LoseSession(w) \/ GiveUp(w)
    PROVE  Pool!PoolNext \/ UNCHANGED Pool!pool
<1> USE DEF Turn, Running, Moves
<1>1. CASE Start(w)
  BY <1>1, PoolUntouched DEF Start
<1>2. CASE GoStale(w) \/ HeldUp(w)
  BY <1>2 DEF GoStale, HeldUp, Pool!pool, InTurn, Holding, Holds
<1>3. CASE Crash(w)
  BY <1>3, LeavesPool DEF Crash
<1>4. CASE GiveUp(w)
  BY <1>4, LeavesPool DEF GiveUp
<1>5. CASE LoseSession(w)
  <2>1. holder' = Freed(w) /\ w \in Holding
    BY <1>5 DEF LoseSession, Holding
  <2>2. CASE pc[w] \in {"locked", "claiming"}
    BY <1>5, <2>1, <2>2, LeavesPool DEF LoseSession
  <2>3. CASE pc[w] \notin {"locked", "claiming"}
    <3>1. InTurn' = InTurn
      BY <1>5, <2>3 DEF LoseSession, InTurn
    <3>2. Holding' = Holding \ {w}
      BY <2>1, FreedHolding
    <3> QED
      BY <2>1, <3>1, <3>2 DEF Pool!PoolNext, Pool!Lose
  <2> QED
    BY <2>2, <2>3
<1> QED
  BY <1>1, <1>2, <1>3, <1>4, <1>5

LEMMA StepUsesPool ==
    TypeOK /\ SlotsInTurn /\ [Next]_vars => [Pool!PoolNext]_(Pool!pool)
<1> SUFFICES ASSUME TypeOK, SlotsInTurn, [Next]_vars
             PROVE  Pool!PoolNext \/ UNCHANGED Pool!pool
  OBVIOUS
<1>1. CASE Tick \/ UNCHANGED vars
  BY <1>1 DEF Tick, vars, Pool!pool, InTurn, Holding, Holds
<1>2. CASE Next
  BY <1>1, <1>2, TurnUsesPool, CycleUsesPool, EnvironmentUsesPool DEF Next, Step
<1> QED
  BY <1>1, <1>2

LEMMA SlotsInTurnHolds == Spec => []SlotsInTurn
<1>1. Init => SlotsInTurn
  BY PhaseAssumption DEF Init, SlotsInTurn, Holding, Holds
<1>2. TypeOK /\ SlotsInTurn /\ [Next]_vars => SlotsInTurn'
  BY StepUsesPool, PoolKeeps
<1>3. PhaseInv => TypeOK
  BY DEF PhaseInv
<1> QED
  BY <1>1, <1>2, <1>3, PhaseInvHolds, PTL DEF Spec

-----------------------------------------------------------------------------
(* Theorems *)

\* Every variable of the arbitration keeps its type, and a process past planning
\* has a slot that is not ahead of the clock.
THEOREM PhaseTypeCorrect == Spec => []TypeOK
<1>1. PhaseInv => TypeOK
  BY DEF PhaseInv
<1> QED
  BY <1>1, PhaseInvHolds, PTL

\* An interrupted run is resumed before a newer slot is begun: at no time are two
\* runs of one collector version open.
THEOREM OneRunAtATime == Spec => []OneOpenRun
<1>1. PhaseInv => OneOpenRun
  BY DEF PhaseInv, RunsClear
<1> QED
  BY <1>1, PhaseInvHolds, PTL

\* A run that ended is never reopened, so its slot is never collected again.
THEOREM EndedRunsStay == Spec => EndedForGood
<1>1. PhaseInv /\ [Next]_vars => [KeepsEnded]_vars
  BY StepKeepsEnded
<1> QED
  BY <1>1, PhaseInvHolds, PTL DEF Spec, EndedForGood

\* The row that refuses requests as superseded names a slot whose run has really
\* ended, whatever the version of the process was and is.
THEOREM MarksAreTrue == Spec => []CompletedTrue
<1>1. MarkInv => CompletedTrue
  BY DEF MarkInv
<1> QED
  BY <1>1, MarkInvHolds, PTL

\* The mark never goes back, and moves only to the slot of a run that has ended.
THEOREM MarksOnlyAdvance == Spec => MarksAdvance
<1>1. MarkInv /\ [Next]_vars => [MovesOn]_vars
  BY StepMovesOn
<1> QED
  BY <1>1, MarkInvHolds, PTL DEF Spec, MarksAdvance

\* collection_run is a ledger: under one version a collector's runs are opened one at
\* a time in the order of their slots, and what has ended stays ended.
THEOREM RunsAreALedger == Spec => ImplementsLedger
<1>1. Init => Ledger!LedgerInit
  <2> SUFFICES ASSUME Init PROVE Ledger!LedgerInit
    OBVIOUS
  <2>1. OpenRuns = [l \in Lines |-> {}] /\ EndedRuns = [l \in Lines |-> {}]
    BY DEF Init, OpenRuns, EndedRuns, Lines, Terminal
  <2> QED
    BY <2>1 DEF Ledger!LedgerInit
<1> QED
  BY <1>1, PhaseInvHolds, StepImplementsLedger, PTL
  DEF Spec, ImplementsLedger, Ledger!LedgerSpec

\* The locks, the queue around them and the sessions they live and die with are a
\* counting semaphore: no more platforms hold a slot than there are slots, one that
\* gives up, crashes or lets another go first keeps none, and whoever is refused
\* may ask again.
THEOREM SlotsAreAPool == Spec => ImplementsPool
<1>1. Init => Pool!PoolInit
  BY PhaseAssumption DEF Init, Pool!PoolInit, InTurn, Running, Holding, Holds
<1>2. PhaseInv => TypeOK
  BY DEF PhaseInv
<1> QED
  BY <1>1, <1>2, PhaseInvHolds, SlotsInTurnHolds, StepUsesPool, PTL
  DEF Spec, ImplementsPool, Pool!PoolSpec

\* With one slot, the default, whoever takes a turn is the first of all who wait: the
\* turn that was looked up before the lock is looked up again under it.
THEOREM FirstInLine ==
    ASSUME Cardinality(Slots) = 1
    PROVE  Spec => NoQueueJumping
<1>1. ASSUME TypeOK, [Next]_vars, NEW w \in Workers, pc[w] = "locked", pc'[w] = "claiming"
      PROVE  Recheck(w) /\ Selected(w)
  <2>1. ASSUME NEW u \in Workers, Step(u) PROVE Recheck(w) /\ Selected(w)
    BY <1>1, <2>1 DEF TypeOK, Step, Moves, Plan, Announce, Look, Lock, Recheck, Claim,
                      Begin, EndRun, FailRun, FinishPhase, Release
  <2>2. ASSUME NEW u \in Workers,
               \/ Start(u) \/ GoStale(u) \/ HeldUp(u)
               \/ Crash(u) \/ LoseSession(u) \/ GiveUp(u)
        PROVE  FALSE
    BY <1>1, <2>2 DEF TypeOK, Moves, Start, GoStale, HeldUp, Crash, LoseSession, GiveUp
  <2> QED
    BY <1>1, <2>1, <2>2 DEF Next, Tick, vars
<1>2. ASSUME NEW w \in Workers, Selected(w)
      PROVE  Cardinality(Earlier(w)) <= Cardinality(FreeSlots)
  <2>1. IsFiniteSet(Contenders) /\ IsFiniteSet(Earlier(w)) /\ IsFiniteSet(FreeSlots)
    BY PhaseAssumption, FS_Subset DEF Contenders, Earlier, FreeSlots
  <2>2. Cardinality(Earlier(w)) \in Nat /\ Cardinality(FreeSlots) \in Nat
    BY <2>1, FS_CardinalityType
  <2> QED
    BY <1>2, <2>2 DEF Selected
<1>3. PhaseInv /\ [Next]_vars =>
        [\A w \in Workers : pc[w] = "locked" /\ pc'[w] = "claiming"
           => Cardinality(Earlier(w)) <= Cardinality(FreeSlots)]_vars
  BY <1>1, <1>2 DEF PhaseInv
<1> QED
  BY <1>3, PhaseInvHolds, PTL DEF Spec, NoQueueJumping
=============================================================================
