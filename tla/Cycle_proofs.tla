------------------------------ MODULE Cycle_proofs ------------------------------
(* Theorems about Cycle: for any number of platforms, accounts, slots and cycles *)
(* and any number of troubles.                                                   *)
EXTENDS Cycle, TLAPS

(***************************************************************************)
(* The guard.  GuardReturned says what holding the lock implies; apart from *)
(* it one needs the converse, that a thread past pg_advisory_lock whose     *)
(* connection is good is the holder's, and the mutex of each process.       *)
(***************************************************************************)
Holding == {"writing", "kept", "raised"}

HolderWrites ==
    guard # None => /\ guard \in Platforms /\ session[guard]
                    /\ \E k \in Threads : Owner(k) = guard /\ thread[k] \in Holding

WriterHolds ==
    Guarded => \A k \in Threads :
      thread[k] \in Holding /\ session[Owner(k)] => guard = Owner(k)

OneInside ==
    Guarded => \A j, k \in Threads :
      Owner(j) = Owner(k) /\ thread[j] \in Inside /\ thread[k] \in Inside => j = k

Unguarded ==
    ~Guarded => guard = None /\ \A k \in Threads : thread[k] # "locking"

\* A thread belongs to a cycle there has been, and to a task that has collected.
ThreadBorn ==
    \A k \in Threads : thread[k] # "none" =>
      LET p == Owner(k) IN
      /\ k[2] <= cycle[p]
      /\ k[2] = cycle[p] /\ pc[p] = "running" => task[k[1]] \notin {"queued", "collect"}

GuardInv == TypeOK /\ HolderWrites /\ WriterHolds /\ OneInside /\ Unguarded

(***************************************************************************)
(* The runs.  A cycle finishes its run as a success when every task is over *)
(* and none was fatal, so a task that is over must have left a result: what *)
(* TaskTrue says, by way of what the thread of a waiting task has stored.   *)
(* RaisingOver: after a commit of finish_run that raised no task is left to *)
(* record a failure.                                                        *)
(***************************************************************************)
Live(p) == pc[p] # "idle" => cycle[p] \in Cycles /\ Current(p) \in Cycles

TaskTrue(a) ==
    LET p == PlatformOf[a]  r == Current(p) IN
    pc[p] = "running" =>
      /\ a \in offered[<<p, r>>] => task[a] # "none"
      /\ task[a] = "done" => result[<<a, r>>] \in {"succeeded", "failed"}
      /\ task[a] = "saved" => result[<<a, r>>] = "succeeded"
      /\ task[a] = "persist" /\ thread[<<a, cycle[p]>>] = "kept"
           => result[<<a, r>>] = "succeeded"

RunOpen(p) == pc[p] = "running" => run[<<p, Current(p)>>] = "running"

RaisingOver(p) ==
    pc[p] = "raising" /\ run[<<p, Current(p)>>] = "succeeded" => Gathered(p)

OfferedOwn == \A p \in Platforms, r \in Cycles : offered[<<p, r>>] \subseteq AccountsOf(p)

SuccessInv ==
    /\ TypeOK /\ HonestSuccess /\ OfferedOwn
    /\ \A p \in Platforms : Live(p) /\ RunOpen(p) /\ RaisingOver(p)
    /\ \A a \in Accounts : TaskTrue(a)

-----------------------------------------------------------------------------
(* Types *)

LEMMA CyclesAreNumbers == \A n \in Cycles : n \in Nat /\ n > 0
  BY CycleAssumption DEF Cycles

\* The next cycle of a platform that may start one has a number.
LEMMA NextCycle ==
    ASSUME TypeOK, NEW p \in Platforms, cycle[p] < MaxCycles[p]
    PROVE  cycle[p] + 1 \in Cycles
<1>1. cycle[p] \in Nat
  <2>1. cycle[p] = 0 \/ cycle[p] \in Cycles
    BY DEF TypeOK
  <2> QED
    BY <2>1, CyclesAreNumbers
<1>2. MaxCycles[p] \in Nat
  BY CycleAssumption
<1>3. cycle[p] + 1 \in 1..MaxCycles[p]
  BY <1>1, <1>2
<1> QED
  BY <1>3 DEF Cycles

LEMMA ThreadParts ==
    ASSUME NEW k \in Threads
    PROVE  k[1] \in Accounts /\ k[2] \in Cycles /\ k = <<k[1], k[2]>> /\ Owner(k) \in Platforms
  BY CycleAssumption DEF Threads, Owner

LEMMA InitType == Init => TypeOK
  BY CycleAssumption DEF Init, TypeOK

LEMMA SpendType ==
    ASSUME TypeOK, Spend
    PROVE  troubles' \in 0..MaxTroubles
  BY CycleAssumption DEF Spend, TypeOK

\* What a cycle is closed with is a status of collection_run.
LEMMA VerdictStatus == \A p : Verdict(p) \in Closed
  BY DEF Verdict, Closed

\* The end of a thread changes the task of its account at most.
LEMMA EndsType ==
    ASSUME TypeOK, NEW k \in Threads, NEW outcome \in Working, Ends(k, outcome)
    PROVE  /\ task' \in [Accounts -> {"none", "queued", "done", "fatal"} \cup Working]
           /\ thread' \in [Threads -> {"none", "queued"} \cup Inside]
  BY DEF TypeOK, Ends

LEMMA StepType == TypeOK /\ [Next]_vars => TypeOK'
<1> SUFFICES ASSUME TypeOK, [Next]_vars PROVE TypeOK'
  OBVIOUS
<1>1. ASSUME NEW p \in Platforms, NEW r \in Cycles, NEW S \in SUBSET AccountsOf(p), Start(p, r, S)
      PROVE  TypeOK'
  <2>1. cycle[p] + 1 \in Cycles
    BY <1>1, NextCycle DEF Start
  <2>2. S \subseteq Accounts
    BY DEF AccountsOf
  <2>3. troubles' \in 0..MaxTroubles
    BY <1>1, SpendType DEF Start, TypeOK
  <2>4. cycle' \in [Platforms -> {0} \cup Cycles] /\ runOf' \in [Platforms \X Cycles -> {0} \cup Cycles]
    BY <1>1, <2>1 DEF Start, TypeOK
  <2>5. offered' \in [Platforms \X Cycles -> SUBSET Accounts]
    BY <1>1, <2>2 DEF Start, TypeOK
  <2>6. task' \in [Accounts -> {"none", "queued", "done", "fatal"} \cup Working]
    BY <1>1 DEF Start, TypeOK
  <2>7. run' \in [Platforms \X Cycles -> {"none", "running"} \cup Closed]
    BY <1>1 DEF Start, TypeOK
  <2>8. pc' \in [Platforms -> {"idle", "running", "raising"}] /\ held' \subseteq Platforms
    BY <1>1 DEF Start, TypeOK
  <2> QED
    BY <1>1, <2>3, <2>4, <2>5, <2>6, <2>7, <2>8 DEF Start, TypeOK
<1>2. ASSUME NEW a \in Accounts, Begin(a) PROVE TypeOK'
  <2>1. troubles' \in 0..MaxTroubles
    BY <1>2, SpendType DEF Begin, TypeOK
  <2>2. task' \in [Accounts -> {"none", "queued", "done", "fatal"} \cup Working]
    BY <1>2 DEF Begin, Moves, TypeOK, Working
  <2>3. result' \in [Threads -> {"none", "running", "succeeded", "failed"}]
    BY <1>2 DEF Begin, TypeOK
  <2> QED
    BY <1>2, <2>1, <2>2, <2>3 DEF Begin, TypeOK, locks
<1>3. ASSUME NEW a \in Accounts, Collected(a) \/ CollectFails(a) \/ Saved(a) PROVE TypeOK'
  BY <1>3 DEF Collected, CollectFails, Saved, Moves, TypeOK, Working, rows, locks
<1>4. ASSUME NEW a \in Accounts, RecordFailure(a) PROVE TypeOK'
  <2>1. troubles' \in 0..MaxTroubles
    BY <1>4, SpendType DEF RecordFailure, TypeOK
  <2>2. thread' \in [Threads -> {"none", "queued"} \cup Inside]
    BY <1>4 DEF RecordFailure, TypeOK
  <2>3. result' \in [Threads -> {"none", "running", "succeeded", "failed"}]
    BY <1>4 DEF RecordFailure, TypeOK
  <2>4. task' \in [Accounts -> {"none", "queued", "done", "fatal"} \cup Working]
    BY <1>4 DEF RecordFailure, TypeOK
  <2> QED
    BY <1>4, <2>1, <2>2, <2>3, <2>4 DEF RecordFailure, TypeOK, locks
<1>5. ASSUME NEW p \in Platforms, Cancel(p) PROVE TypeOK'
  BY <1>5 DEF Cancel, TypeOK, rows, locks
<1>6. ASSUME NEW p \in Platforms, EndCycle(p) PROVE TypeOK'
  <2>1. troubles' \in 0..MaxTroubles
    BY <1>6, SpendType DEF EndCycle, Finish, Fail, TypeOK
  <2>2. run' \in [Platforms \X Cycles -> {"none", "running"} \cup Closed]
    <3>1. Verdict(p) \in Closed /\ "failed" \in Closed
      BY VerdictStatus DEF Closed
    <3> QED
      BY <1>6, <3>1 DEF EndCycle, Finish, Fail, TypeOK
  <2>3. pc' \in [Platforms -> {"idle", "running", "raising"}] /\ held' \subseteq Platforms
    BY <1>6 DEF EndCycle, Finish, Fail, Over, TypeOK
  <2> QED
    BY <1>6, <2>1, <2>2, <2>3 DEF EndCycle, Finish, Fail, TypeOK
<1>7. ASSUME NEW k \in Threads, Enter(k) \/ Acquire(k) \/ Commit(k) \/ Rollback(k) PROVE TypeOK'
  <2>1. troubles' \in 0..MaxTroubles
    BY <1>7, SpendType DEF Enter, Acquire, Commit, Rollback, TypeOK
  <2>2. thread' \in [Threads -> {"none", "queued"} \cup Inside]
    BY <1>7 DEF Enter, Acquire, Commit, Rollback, TypeOK, Inside
  <2>3. result' \in [Threads -> {"none", "running", "succeeded", "failed"}]
    BY <1>7 DEF Enter, Acquire, Commit, Rollback, TypeOK
  <2>4. guard' \in Platforms \cup {None}
    BY <1>7, ThreadParts DEF Enter, Acquire, Commit, Rollback, TypeOK, locks
  <2> QED
    BY <1>7, <2>1, <2>2, <2>3, <2>4 DEF Enter, Acquire, Commit, Rollback, TypeOK, threadSees, locks
<1>8. ASSUME NEW k \in Threads, Refused(k) \/ Leave(k) PROVE TypeOK'
  <2>1. /\ task' \in [Accounts -> {"none", "queued", "done", "fatal"} \cup Working]
        /\ thread' \in [Threads -> {"none", "queued"} \cup Inside]
    BY <1>8, EndsType DEF Refused, Leave, Working
  <2>2. guard' \in Platforms \cup {None} /\ session' \in [Platforms -> BOOLEAN]
    BY <1>8 DEF Refused, Leave, TypeOK
  <2> QED
    BY <1>8, <2>1, <2>2 DEF Refused, Leave, TypeOK, threadSees
<1>9. ASSUME NEW p \in Platforms, SlotLost(p) \/ GuardLost(p) PROVE TypeOK'
  BY <1>9, SpendType DEF SlotLost, GuardLost, TypeOK, rows
<1>10. ASSUME NEW p \in Platforms, Crash(p) PROVE TypeOK'
  BY <1>10, SpendType DEF Crash, TypeOK, rows
<1>11. CASE UNCHANGED vars
  BY <1>11 DEF vars, rows, locks, TypeOK
<1> QED
  BY <1>1, <1>2, <1>3, <1>4, <1>5, <1>6, <1>7, <1>8, <1>9, <1>10, <1>11
     DEF Next, Task, Thread, EndCycle

-----------------------------------------------------------------------------
(* Threads *)

LEMMA InitBorn == Init => ThreadBorn
  BY DEF Init, ThreadBorn

LEMMA StepBorn == TypeOK /\ ThreadBorn /\ [Next]_vars => ThreadBorn'
<1> SUFFICES ASSUME TypeOK, ThreadBorn, [Next]_vars PROVE ThreadBorn'
  OBVIOUS
<1> SUFFICES ASSUME NEW k \in Threads, thread'[k] # "none"
             PROVE  /\ k[2] <= cycle'[Owner(k)]
                    /\ k[2] = cycle'[Owner(k)] /\ pc'[Owner(k)] = "running"
                         => task'[k[1]] \notin {"queued", "collect"}
  BY DEF ThreadBorn, Owner
<1>1. /\ k[1] \in Accounts /\ k[2] \in Cycles /\ k = <<k[1], k[2]>>
      /\ Owner(k) = PlatformOf[k[1]] /\ Owner(k) \in Platforms
  BY ThreadParts DEF Owner
<1>2. k[2] \in Nat /\ cycle[Owner(k)] \in Nat
  <2>1. cycle[Owner(k)] = 0 \/ cycle[Owner(k)] \in Cycles
    BY <1>1 DEF TypeOK
  <2> QED
    BY <1>1, <2>1, CyclesAreNumbers
\* A thread there was already, of a task that does not go back.
<1>3. ASSUME thread[k] # "none", cycle'[Owner(k)] = cycle[Owner(k)],
             pc'[Owner(k)] = "running" => pc[Owner(k)] = "running",
             task'[k[1]] \in {"queued", "collect"} => task[k[1]] \in {"queued", "collect"}
      PROVE  /\ k[2] <= cycle'[Owner(k)]
             /\ k[2] = cycle'[Owner(k)] /\ pc'[Owner(k)] = "running"
                  => task'[k[1]] \notin {"queued", "collect"}
  BY <1>3 DEF ThreadBorn
<1>4. ASSUME NEW p \in Platforms, NEW r \in Cycles, NEW S \in SUBSET AccountsOf(p), Start(p, r, S)
      PROVE  /\ k[2] <= cycle'[Owner(k)]
             /\ k[2] = cycle'[Owner(k)] /\ pc'[Owner(k)] = "running"
                  => task'[k[1]] \notin {"queued", "collect"}
  <2>1. thread' = thread
    BY <1>4 DEF Start
  <2>2. CASE Owner(k) = p
    <3>1. cycle'[p] = cycle[p] + 1
      BY <1>4 DEF Start, TypeOK
    <3>2. k[2] <= cycle[p]
      BY <2>1, <2>2 DEF ThreadBorn
    <3> QED
      BY <1>2, <2>2, <3>1, <3>2
  <2>3. CASE Owner(k) # p
    <3>1. cycle'[Owner(k)] = cycle[Owner(k)] /\ pc'[Owner(k)] = pc[Owner(k)]
      BY <1>1, <1>4, <2>3 DEF Start, TypeOK
    <3>2. task'[k[1]] = task[k[1]]
      BY <1>1, <1>4, <2>3 DEF Start
    <3> QED
      BY <1>3, <2>1, <3>1, <3>2
  <2> QED
    BY <2>2, <2>3
<1>5. ASSUME NEW a \in Accounts, Begin(a) \/ CollectFails(a) \/ Saved(a)
      PROVE  /\ k[2] <= cycle'[Owner(k)]
             /\ k[2] = cycle'[Owner(k)] /\ pc'[Owner(k)] = "running"
                  => task'[k[1]] \notin {"queued", "collect"}
  <2>1. thread' = thread /\ cycle' = cycle /\ pc' = pc
    BY <1>5 DEF Begin, CollectFails, Saved
  <2>2. task'[k[1]] \in {"queued", "collect"} => task[k[1]] \in {"queued", "collect"}
    BY <1>1, <1>5 DEF Begin, CollectFails, Saved, Moves, TypeOK
  <2> QED
    BY <1>3, <2>1, <2>2
<1>6. ASSUME NEW a \in Accounts, Collected(a)
      PROVE  /\ k[2] <= cycle'[Owner(k)]
             /\ k[2] = cycle'[Owner(k)] /\ pc'[Owner(k)] = "running"
                  => task'[k[1]] \notin {"queued", "collect"}
  <2>1. cycle' = cycle /\ pc' = pc /\ task[a] = "collect" /\ task' = [task EXCEPT ![a] = "persist"]
    BY <1>6 DEF Collected, Moves
  <2>2. task'[k[1]] = IF k[1] = a THEN "persist" ELSE task[k[1]]
    BY <1>1, <2>1 DEF TypeOK
  <2>3. CASE k = <<a, cycle[PlatformOf[a]]>>
    BY <1>1, <1>2, <2>1, <2>2, <2>3
  <2>4. CASE k # <<a, cycle[PlatformOf[a]]>>
    <3>1. thread'[k] = thread[k]
      BY <1>6, <2>4 DEF Collected, TypeOK
    <3> QED
      BY <1>3, <2>1, <2>2, <3>1
  <2> QED
    BY <2>3, <2>4
<1>7. ASSUME NEW a \in Accounts, RecordFailure(a)
      PROVE  /\ k[2] <= cycle'[Owner(k)]
             /\ k[2] = cycle'[Owner(k)] /\ pc'[Owner(k)] = "running"
                  => task'[k[1]] \notin {"queued", "collect"}
  <2>1. cycle' = cycle /\ pc' = pc
    BY <1>7 DEF RecordFailure
  <2>2. task'[k[1]] \in {"queued", "collect"} => task[k[1]] \in {"queued", "collect"}
    BY <1>1, <1>7 DEF RecordFailure, TypeOK
  <2> DEFINE t == <<a, cycle[PlatformOf[a]]>>
  <2>3. \/ thread' = thread
        \/ thread[t] = "queued" /\ thread' = [thread EXCEPT ![t] = "none"]
    BY <1>7 DEF RecordFailure
  <2> HIDE DEF t
  <2>4. thread[k] # "none"
    BY <2>3 DEF TypeOK
  <2> QED
    BY <1>3, <2>1, <2>2, <2>4
<1>8. ASSUME NEW p \in Platforms, Cancel(p) \/ EndCycle(p) \/ SlotLost(p) \/ GuardLost(p) \/ Crash(p)
      PROVE  /\ k[2] <= cycle'[Owner(k)]
             /\ k[2] = cycle'[Owner(k)] /\ pc'[Owner(k)] = "running"
                  => task'[k[1]] \notin {"queued", "collect"}
  <2>1. cycle' = cycle /\ thread[k] # "none"
    BY <1>8 DEF Cancel, EndCycle, Finish, Fail, SlotLost, GuardLost, Crash
  <2>2. pc'[Owner(k)] = "running" => pc[Owner(k)] = "running"
    BY <1>1, <1>8 DEF Cancel, EndCycle, Finish, Fail, Over, SlotLost, GuardLost, Crash, TypeOK
  <2>3. task'[k[1]] \in {"queued", "collect"} => task[k[1]] \in {"queued", "collect"}
    BY <1>1, <1>8 DEF Cancel, EndCycle, Finish, Fail, SlotLost, GuardLost, Crash
  <2> QED
    BY <1>3, <2>1, <2>2, <2>3
<1>9. ASSUME NEW j \in Threads, Thread(j)
      PROVE  /\ k[2] <= cycle'[Owner(k)]
             /\ k[2] = cycle'[Owner(k)] /\ pc'[Owner(k)] = "running"
                  => task'[k[1]] \notin {"queued", "collect"}
  <2>1. cycle' = cycle /\ pc' = pc
    BY <1>9 DEF Thread, Enter, Acquire, Refused, Commit, Rollback, Leave, threadSees
  <2>2. thread[k] # "none"
    BY <1>9 DEF Thread, Enter, Acquire, Refused, Commit, Rollback, Leave, Ends, TypeOK
  <2>3. \/ task' = task
        \/ \E outcome \in {"saved", "failing"} : task' = [task EXCEPT ![j[1]] = outcome]
    BY <1>9 DEF Thread, Enter, Acquire, Refused, Commit, Rollback, Leave, Ends
  <2>4. task'[k[1]] \in {"queued", "collect"} => task[k[1]] \in {"queued", "collect"}
    BY <1>1, <2>3 DEF TypeOK
  <2> QED
    BY <1>3, <2>1, <2>2, <2>4
<1>10. CASE UNCHANGED vars
  BY <1>3, <1>10 DEF vars
<1> QED
  BY <1>4, <1>5, <1>6, <1>7, <1>8, <1>9, <1>10 DEF Next, Task

-----------------------------------------------------------------------------
(* The guard *)

LEMMA InitGuardInv == Init => GuardInv
<1> SUFFICES ASSUME Init PROVE GuardInv
  OBVIOUS
<1>1. TypeOK
  BY InitType
<1>2. HolderWrites /\ WriterHolds /\ OneInside /\ Unguarded
  BY DEF Init, HolderWrites, WriterHolds, OneInside, Unguarded, Holding, Inside
<1> QED
  BY <1>1, <1>2 DEF GuardInv

\* A step that leaves the locks alone and moves threads only outside the guard.
LEMMA GuardKept ==
    ASSUME GuardInv, TypeOK', guard' = guard, session' = session,
           \A k \in Threads : \/ thread'[k] = thread[k]
                              \/ thread[k] \notin Inside /\ thread'[k] \notin Inside
                              \/ thread[k] \in Holding /\ thread'[k] \in Holding
    PROVE  GuardInv'
<1> USE DEF Holding, Inside, GuardInv
<1>1. HolderWrites'
  BY DEF HolderWrites, Owner
<1>2. WriterHolds'
  BY DEF WriterHolds, Owner, Guarded
<1>3. OneInside'
  BY DEF OneInside, Owner, Guarded
<1>4. Unguarded'
  BY DEF Unguarded, Guarded
<1> QED
  BY <1>1, <1>2, <1>3, <1>4

\* A thread past the guard's mutex ends: it was the only one of its process, so the
\* lock its process may have held is given back by this and by nothing else.
LEMMA ThreadGone ==
    ASSUME GuardInv, TypeOK', NEW k \in Threads, thread[k] \in Inside,
           thread' = [thread EXCEPT ![k] = "none"],
           guard' = IF guard = Owner(k) THEN None ELSE guard,
           session' = [session EXCEPT ![Owner(k)] = TRUE]
    PROVE  GuardInv'
<1> USE DEF Holding, Inside, GuardInv
<1>1. Owner(k) \in Platforms /\ None \notin Platforms
  BY ThreadParts, CycleAssumption
<1>2. \A j \in Threads : j # k => thread'[j] = thread[j]
  BY DEF TypeOK
<1>3. thread'[k] = "none"
  BY DEF TypeOK
<1>4. \A p \in Platforms : session'[p] = IF p = Owner(k) THEN TRUE ELSE session[p]
  BY DEF TypeOK
<1>5. HolderWrites'
  BY <1>1, <1>2, <1>3, <1>4 DEF HolderWrites, Owner
<1>6. WriterHolds'
  <2> SUFFICES ASSUME Guarded, NEW j \in Threads, thread'[j] \in Holding, session'[Owner(j)]
               PROVE  guard' = Owner(j)
    BY DEF WriterHolds, Owner, Guarded
  <2>1. j # k /\ thread[j] \in Holding
    BY <1>2, <1>3
  <2>2. Owner(j) # Owner(k)
    BY <2>1 DEF OneInside
  <2>3. session[Owner(j)] /\ Owner(j) \in Platforms
    BY <1>4, <2>2, ThreadParts
  <2> QED
    BY <2>1, <2>2, <2>3 DEF WriterHolds
<1>7. OneInside'
  BY <1>2, <1>3 DEF OneInside, Owner, Guarded
<1>8. Unguarded'
  BY <1>2, <1>3 DEF Unguarded, Guarded
<1> QED
  BY <1>5, <1>6, <1>7, <1>8

LEMMA StepGuardInv == GuardInv /\ ThreadBorn /\ [Next]_vars => GuardInv'
<1> SUFFICES ASSUME GuardInv, ThreadBorn, [Next]_vars PROVE GuardInv'
  OBVIOUS
<1>1. TypeOK /\ TypeOK'
  BY StepType DEF GuardInv
<1>2. ASSUME NEW p \in Platforms, NEW r \in Cycles, NEW S \in SUBSET AccountsOf(p), Start(p, r, S)
      PROVE  GuardInv'
  <2>1. guard' = guard /\ session' = session /\ \A k \in Threads : thread'[k] = thread[k]
    BY <1>2 DEF Start
  <2> QED
    BY <1>1, <2>1, GuardKept
<1>3. ASSUME NEW a \in Accounts, Begin(a) \/ CollectFails(a) \/ Saved(a) PROVE GuardInv'
  <2>1. guard' = guard /\ session' = session /\ \A k \in Threads : thread'[k] = thread[k]
    BY <1>3 DEF Begin, CollectFails, Saved, locks
  <2> QED
    BY <1>1, <2>1, GuardKept
<1>4. ASSUME NEW a \in Accounts, Collected(a) PROVE GuardInv'
  <2> DEFINE t == <<a, cycle[PlatformOf[a]]>>
  <2>1. guard' = guard /\ session' = session
    BY <1>4 DEF Collected, locks
  <2>2. t \in Threads => thread[t] = "none"
    BY <1>1, <1>4, CycleAssumption DEF Collected, Moves, ThreadBorn, Owner
  <2>3. \A k \in Threads : thread'[k] = IF k = t THEN "queued" ELSE thread[k]
    BY <1>1, <1>4 DEF Collected, TypeOK
  <2> HIDE DEF t
  <2> QED
    BY <1>1, <2>1, <2>2, <2>3, GuardKept DEF Inside
<1>5. ASSUME NEW a \in Accounts, RecordFailure(a) PROVE GuardInv'
  <2> DEFINE t == <<a, cycle[PlatformOf[a]]>>
  <2>1. guard' = guard /\ session' = session
    BY <1>5 DEF RecordFailure, locks
  <2>2. \/ thread' = thread
        \/ thread[t] = "queued" /\ thread' = [thread EXCEPT ![t] = "none"]
    BY <1>5 DEF RecordFailure
  <2> HIDE DEF t
  <2>3. \A k \in Threads : \/ thread'[k] = thread[k]
                           \/ thread[k] = "queued" /\ thread'[k] = "none"
    BY <1>1, <2>2 DEF TypeOK
  <2> QED
    BY <1>1, <2>1, <2>3, GuardKept DEF Inside
<1>6. ASSUME NEW p \in Platforms, Cancel(p) \/ EndCycle(p) \/ SlotLost(p) PROVE GuardInv'
  <2>1. guard' = guard /\ session' = session /\ \A k \in Threads : thread'[k] = thread[k]
    BY <1>6 DEF Cancel, EndCycle, Finish, Fail, SlotLost, locks
  <2> QED
    BY <1>1, <2>1, GuardKept
<1>7. ASSUME NEW k \in Threads, Enter(k) PROVE GuardInv'
  <2> USE DEF Holding, Inside, GuardInv
  <2>1. /\ thread[k] = "queued" /\ thread'[k] = IF Guarded THEN "locking" ELSE "writing"
        /\ \A j \in Threads : j # k => thread'[j] = thread[j]
        /\ guard' = guard /\ session' = session
    BY <1>1, <1>7 DEF Enter, TypeOK, locks
  <2>2. Guarded => \A j \in Threads : Owner(j) = Owner(k) => thread[j] \notin Inside
    BY <1>7 DEF Enter
  <2>3. HolderWrites'
    BY <2>1 DEF HolderWrites, Owner
  <2>4. WriterHolds'
    BY <2>1 DEF WriterHolds, Owner, Guarded
  <2>5. OneInside'
    BY <2>1, <2>2 DEF OneInside, Owner, Guarded
  <2>6. Unguarded'
    BY <2>1 DEF Unguarded, Guarded
  <2> QED
    BY <1>1, <2>3, <2>4, <2>5, <2>6
<1>8. ASSUME NEW k \in Threads, Acquire(k) PROVE GuardInv'
  <2> USE DEF Holding, Inside, GuardInv
  <2>1. /\ thread[k] = "locking" /\ thread'[k] = "writing"
        /\ \A j \in Threads : j # k => thread'[j] = thread[j]
        /\ session[Owner(k)] /\ guard = None /\ guard' = Owner(k) /\ session' = session
        /\ Owner(k) \in Platforms
    BY <1>1, <1>8, ThreadParts DEF Acquire, TypeOK
  <2>2. Guarded
    BY <2>1 DEF Unguarded
  <2>3. HolderWrites'
    BY <2>1 DEF HolderWrites, Owner
  <2>4. WriterHolds'
    <3> SUFFICES ASSUME NEW j \in Threads, j # k, thread[j] \in Holding, session[Owner(j)]
                 PROVE  Owner(k) = Owner(j)
      BY <2>1 DEF WriterHolds, Owner, Guarded
    <3>1. None = Owner(j) /\ Owner(j) \in Platforms
      BY <2>1, <2>2, ThreadParts DEF WriterHolds
    <3> QED
      BY <3>1, CycleAssumption
  <2>5. OneInside'
    BY <2>1 DEF OneInside, Owner, Guarded
  <2>6. Unguarded'
    BY <2>1, <2>2 DEF Unguarded, Guarded
  <2> QED
    BY <1>1, <2>3, <2>4, <2>5, <2>6
<1>9. ASSUME NEW k \in Threads, Commit(k) \/ Rollback(k) PROVE GuardInv'
  <2>1. /\ \A j \in Threads : j # k => thread'[j] = thread[j]
        /\ thread[k] = "writing" /\ thread'[k] \in Holding
        /\ guard' = guard /\ session' = session
    BY <1>1, <1>9 DEF Commit, Rollback, TypeOK, Holding, locks
  <2> QED
    BY <1>1, <2>1, GuardKept DEF Holding
<1>10. ASSUME NEW k \in Threads, Refused(k) PROVE GuardInv'
  <2>1. thread[k] = "locking" /\ Guarded
    BY <1>10 DEF Refused, GuardInv, Unguarded
  <2>2. guard # Owner(k)
    <3> SUFFICES ASSUME guard = Owner(k) PROVE FALSE
      OBVIOUS
    <3>1. guard # None
      BY ThreadParts, CycleAssumption
    <3>2. PICK j \in Threads : Owner(j) = Owner(k) /\ thread[j] \in Holding
      BY <3>1 DEF GuardInv, HolderWrites
    <3> QED
      BY <2>1, <3>2 DEF GuardInv, OneInside, Inside, Holding
  <2> QED
    BY <1>1, <1>10, <2>1, <2>2, ThreadGone DEF Refused, Ends, Inside
<1>11. ASSUME NEW k \in Threads, Leave(k) PROVE GuardInv'
  BY <1>1, <1>11, ThreadGone DEF Leave, Ends, Inside
<1>12. ASSUME NEW p \in Platforms, GuardLost(p) PROVE GuardInv'
  <2> USE DEF Holding, Inside, GuardInv
  <2>1. /\ Guarded /\ thread' = thread
        /\ guard' = IF guard = p THEN None ELSE guard
        /\ \A q \in Platforms : session'[q] = IF q = p THEN FALSE ELSE session[q]
    BY <1>1, <1>12 DEF GuardLost, TypeOK
  <2>2. HolderWrites'
    BY <2>1 DEF HolderWrites, Owner
  <2>3. WriterHolds'
    <3> SUFFICES ASSUME NEW j \in Threads, thread[j] \in Holding, session'[Owner(j)]
                 PROVE  guard' = Owner(j)
      BY <2>1 DEF WriterHolds, Owner, Guarded
    <3>1. Owner(j) # p /\ session[Owner(j)]
      BY <2>1, ThreadParts
    <3> QED
      BY <2>1, <3>1 DEF WriterHolds
  <2>4. OneInside' /\ Unguarded'
    BY <2>1 DEF OneInside, Unguarded, Owner, Guarded
  <2> QED
    BY <1>1, <2>2, <2>3, <2>4
<1>13. ASSUME NEW p \in Platforms, Crash(p) PROVE GuardInv'
  <2> USE DEF Holding, Inside, GuardInv
  <2>1. /\ \A k \in Threads : thread'[k] = IF Owner(k) = p THEN "none" ELSE thread[k]
        /\ guard' = IF guard = p THEN None ELSE guard
        /\ \A q \in Platforms : session'[q] = IF q = p THEN TRUE ELSE session[q]
    BY <1>1, <1>13 DEF Crash, TypeOK
  <2>2. HolderWrites'
    BY <2>1 DEF HolderWrites, Owner
  <2>3. WriterHolds'
    <3> SUFFICES ASSUME Guarded, NEW j \in Threads, thread'[j] \in Holding, session'[Owner(j)]
                 PROVE  guard' = Owner(j)
      BY DEF WriterHolds, Owner, Guarded
    <3>1. Owner(j) # p /\ thread[j] \in Holding /\ session[Owner(j)]
      BY <2>1, ThreadParts
    <3> QED
      BY <2>1, <3>1 DEF WriterHolds
  <2>4. OneInside' /\ Unguarded'
    BY <2>1 DEF OneInside, Unguarded, Owner, Guarded
  <2> QED
    BY <1>1, <2>2, <2>3, <2>4
<1>14. CASE UNCHANGED vars
  <2>1. guard' = guard /\ session' = session /\ \A k \in Threads : thread'[k] = thread[k]
    BY <1>14 DEF vars, locks
  <2> QED
    BY <1>1, <2>1, GuardKept
<1> QED
  BY <1>2, <1>3, <1>4, <1>5, <1>6, <1>7, <1>8, <1>9, <1>10, <1>11, <1>12, <1>13, <1>14
     DEF Next, Task, Thread

LEMMA GuardInvHolds == Spec => [](GuardInv /\ ThreadBorn)
<1>1. Init => GuardInv /\ ThreadBorn
  BY InitGuardInv, InitBorn
<1>2. GuardInv /\ ThreadBorn /\ [Next]_vars => (GuardInv /\ ThreadBorn)'
  BY StepGuardInv, StepBorn DEF GuardInv
<1> QED
  BY <1>1, <1>2, PTL DEF Spec

-----------------------------------------------------------------------------
(* The runs *)

LEMMA InitSuccessInv == Init => SuccessInv
<1> SUFFICES ASSUME Init PROVE SuccessInv
  OBVIOUS
<1>1. TypeOK
  BY InitType
<1>2. HonestSuccess /\ OfferedOwn
  BY DEF Init, HonestSuccess, OfferedOwn
<1>3. \A p \in Platforms : Live(p) /\ RunOpen(p) /\ RaisingOver(p)
  BY DEF Init, Live, RunOpen, RaisingOver
<1>4. \A a \in Accounts : TaskTrue(a)
  BY CycleAssumption DEF Init, TaskTrue
<1> QED
  BY <1>1, <1>2, <1>3, <1>4 DEF SuccessInv

\* What is known of a cycle stays so when it goes on in the same run, or ends.
LEMMA CycleKept ==
    ASSUME SuccessInv, NEW p \in Platforms, cycle'[p] = cycle[p],
           Current(p)' = Current(p), pc'[p] \in {"idle", pc[p]},
           pc'[p] # "idle" => run'[<<p, Current(p)>>] = run[<<p, Current(p)>>],
           pc'[p] = "raising" /\ Gathered(p) => Gathered(p)'
    PROVE  Live(p)' /\ RunOpen(p)' /\ RaisingOver(p)'
  BY DEF SuccessInv, Live, RunOpen, RaisingOver

\* What is known of a task stays so while it stays as it is, whoever writes another
\* success of its account.
LEMMA TaskKept ==
    ASSUME SuccessInv, NEW a \in Accounts, NEW p, p = PlatformOf[a],
           pc'[p] = "running" =>
             /\ pc[p] = "running" /\ cycle'[p] = cycle[p] /\ Current(p)' = Current(p)
             /\ offered'[<<p, Current(p)>>] = offered[<<p, Current(p)>>]
             /\ task'[a] = task[a]
             /\ thread'[<<a, cycle[p]>>] = "kept" => thread[<<a, cycle[p]>>] = "kept"
             /\ result'[<<a, Current(p)>>] \in {result[<<a, Current(p)>>], "succeeded"}
    PROVE  TaskTrue(a)'
  BY DEF SuccessInv, TaskTrue

\* The cycle of another platform is another's affair.
LEMMA StartSuccess ==
    ASSUME SuccessInv, TypeOK', NEW p \in Platforms, NEW r \in Cycles,
           NEW S \in SUBSET AccountsOf(p), Start(p, r, S)
    PROVE  SuccessInv'
<1>1. TypeOK /\ cycle[p] + 1 \in Cycles
  BY NextCycle DEF SuccessInv, Start
<1>2. /\ cycle' = [cycle EXCEPT ![p] = cycle[p] + 1]
      /\ runOf' = [runOf EXCEPT ![<<p, cycle[p] + 1>>] = r]
      /\ run' = [run EXCEPT ![<<p, r>>] = "running"]
      /\ result' = result /\ thread' = thread
      /\ pc[p] = "idle" /\ pc'[p] # "idle"
  BY <1>1 DEF Start, TypeOK
<1>3. /\ \A q \in Platforms, n \in Cycles :
            <<q, n>> # <<p, r>> => offered'[<<q, n>>] = offered[<<q, n>>]
      /\ offered'[<<p, r>>] \subseteq AccountsOf(p)
      /\ \A a \in Accounts : PlatformOf[a] = p /\ pc'[p] = "running" =>
           task'[a] = IF a \in offered'[<<p, r>>] THEN "queued" ELSE "none"
  <2>1. CASE /\ offered' = [offered EXCEPT ![<<p, r>>] = S]
             /\ task' = [a \in Accounts |-> IF PlatformOf[a] # p THEN task[a]
                                            ELSE IF a \in S THEN "queued" ELSE "none"]
    <3>1. offered'[<<p, r>>] = S
      BY <1>1, <2>1 DEF TypeOK
    <3> QED
      BY <1>1, <2>1, <3>1 DEF TypeOK
  <2>2. CASE pc' = [pc EXCEPT ![p] = "raising"] /\ offered' = [offered EXCEPT ![<<p, r>>] = {}]
    BY <1>1, <2>2 DEF TypeOK
  <2> QED
    BY <2>1, <2>2 DEF Start
<1>4. \A q \in Platforms : q # p => pc'[q] = pc[q] /\ cycle'[q] = cycle[q] /\ Current(q)' = Current(q)
  BY <1>1, <1>2 DEF Start, TypeOK, Current
<1>5. \A a \in Accounts : PlatformOf[a] # p => task'[a] = task[a]
  BY DEF Start
<1>6. cycle'[p] = cycle[p] + 1 /\ Current(p)' = r
  BY <1>1, <1>2 DEF TypeOK, Current
<1>7. run'[<<p, r>>] = "running"
  BY <1>1, <1>2 DEF TypeOK
<1>8. \A q \in Platforms, n \in Cycles : <<q, n>> # <<p, r>> =>
         run'[<<q, n>>] = run[<<q, n>>] /\ offered'[<<q, n>>] = offered[<<q, n>>]
  BY <1>1, <1>2, <1>3 DEF TypeOK
<1>9. HonestSuccess'
  <2> SUFFICES ASSUME NEW q \in Platforms, NEW n \in Cycles, run'[<<q, n>>] = "succeeded",
                      NEW b \in offered'[<<q, n>>]
               PROVE  result'[<<b, n>>] = "succeeded"
    BY DEF HonestSuccess
  <2>1. <<q, n>> # <<p, r>>
    BY <1>7
  <2> QED
    BY <1>2, <1>8, <2>1 DEF HonestSuccess, SuccessInv
<1>10. OfferedOwn'
  <2> SUFFICES ASSUME NEW q \in Platforms, NEW n \in Cycles
               PROVE  offered'[<<q, n>>] \subseteq AccountsOf(q)
    BY DEF OfferedOwn, AccountsOf
  <2>1. CASE <<q, n>> = <<p, r>>
    BY <1>3, <2>1
  <2>2. CASE <<q, n>> # <<p, r>>
    BY <1>8, <2>2 DEF OfferedOwn, SuccessInv
  <2> QED
    BY <2>1, <2>2
<1>11. ASSUME NEW q \in Platforms PROVE Live(q)' /\ RunOpen(q)' /\ RaisingOver(q)'
  <2>1. CASE q = p
    BY <1>1, <1>6, <1>7, <2>1 DEF Live, RunOpen, RaisingOver
  <2>2. CASE q # p
    <3>1. pc'[q] # "idle" => Current(q) \in Cycles
      BY <1>4, <2>2 DEF SuccessInv, Live
    <3>2. Gathered(q) => Gathered(q)'
      BY <1>5, <2>2 DEF Gathered, AccountsOf
    <3> QED
      BY <1>4, <1>8, <2>2, <3>1, <3>2, CycleKept
  <2> QED
    BY <2>1, <2>2
<1>12. ASSUME NEW a \in Accounts PROVE TaskTrue(a)'
  <2>1. CASE PlatformOf[a] = p
    BY <1>3, <1>6, <1>7, <2>1 DEF TaskTrue
  <2>2. CASE PlatformOf[a] # p
    <3> DEFINE q == PlatformOf[a]
    <3>1. q \in Platforms
      BY CycleAssumption
    <3>2. pc[q] = "running" => Current(q) \in Cycles
      BY <3>1 DEF SuccessInv, Live
    <3>3. pc[q] = "running" => offered'[<<q, Current(q)>>] = offered[<<q, Current(q)>>]
      BY <1>8, <2>2, <3>1, <3>2
    <3>4. pc'[q] = pc[q] /\ cycle'[q] = cycle[q] /\ Current(q)' = Current(q) /\ task'[a] = task[a]
      BY <1>4, <1>5, <2>2, <3>1
    <3> QED
      BY <1>2, <3>3, <3>4, TaskKept
  <2> QED
    BY <2>1, <2>2
<1> QED
  BY <1>9, <1>10, <1>11, <1>12 DEF SuccessInv

\* A step that closes no run, starts no cycle, and stores no result but a success or
\* one of an account of an open run whose task it moves: a is that account, if any.
LEMMA StepOfTask ==
    ASSUME SuccessInv, TypeOK', NEW a \in Accounts, NEW p, p = PlatformOf[a],
           UNCHANGED <<run, offered, pc, cycle, runOf>>, pc[p] # "idle",
           \A b \in Accounts : b # a => task'[b] = task[b],
           task[a] \notin {"none", "done", "fatal"},
           \A k \in Threads : k # <<a, Current(p)>> => result'[k] = result[k],
           \A k \in Threads : k # <<a, cycle[p]>> => thread'[k] = thread[k],
           TaskTrue(a)'
    PROVE  SuccessInv'
<1>1. p \in Platforms /\ Current(p) \in Cycles /\ cycle[p] \in Cycles
  BY CycleAssumption DEF SuccessInv, Live
<1>2. \A q \in Platforms : Current(q)' = Current(q)
  BY DEF Current
<1>3. ~Gathered(p)
  BY DEF Gathered, AccountsOf
<1>4. run[<<p, Current(p)>>] # "succeeded"
  <2>1. CASE pc[p] = "running"
    BY <1>1, <2>1 DEF SuccessInv, RunOpen
  <2>2. CASE pc[p] = "raising"
    BY <1>1, <1>3, <2>2 DEF SuccessInv, RaisingOver
  <2> QED
    BY <1>1, <2>1, <2>2 DEF SuccessInv, TypeOK
<1>5. HonestSuccess'
  <2> SUFFICES ASSUME NEW q \in Platforms, NEW r \in Cycles, run[<<q, r>>] = "succeeded",
                      NEW b \in offered[<<q, r>>]
               PROVE  result'[<<b, r>>] = "succeeded"
    BY DEF HonestSuccess
  <2>1. b \in Accounts /\ PlatformOf[b] = q
    BY DEF SuccessInv, OfferedOwn, AccountsOf
  <2>2. result[<<b, r>>] = "succeeded"
    BY DEF SuccessInv, HonestSuccess
  <2>3. <<b, r>> # <<a, Current(p)>>
    BY <1>4, <2>1
  <2> QED
    BY <2>1, <2>2, <2>3 DEF Threads
<1>6. OfferedOwn'
  BY DEF SuccessInv, OfferedOwn, AccountsOf
<1>7. ASSUME NEW q \in Platforms PROVE Live(q)' /\ RunOpen(q)' /\ RaisingOver(q)'
  <2>1. Gathered(q) => Gathered(q)'
    BY <1>3 DEF Gathered, AccountsOf
  <2> QED
    BY <1>2, <2>1, CycleKept DEF SuccessInv, TypeOK
<1>8. ASSUME NEW b \in Accounts, b # a PROVE TaskTrue(b)'
  <2> DEFINE q == PlatformOf[b]
  <2>1. q \in Platforms
    BY CycleAssumption
  <2>2. pc[q] = "running" => <<b, Current(q)>> \in Threads /\ <<b, cycle[q]>> \in Threads
    BY <2>1 DEF SuccessInv, Live, Threads
  <2>3. pc[q] = "running" => /\ thread'[<<b, cycle[q]>>] = thread[<<b, cycle[q]>>]
                             /\ result'[<<b, Current(q)>>] = result[<<b, Current(q)>>]
    BY <1>8, <2>2
  <2> HIDE DEF q
  <2> QED
    BY <1>2, <1>8, <2>1, <2>3, TaskKept DEF q
<1> QED
  BY <1>5, <1>6, <1>7, <1>8 DEF SuccessInv

\* A thread that acts stores no result but a success, and moves no task but the one
\* that waits for it; a task that learns of a success has one.
LEMMA ThreadSuccess ==
    ASSUME SuccessInv, TypeOK', NEW k \in Threads, Thread(k)
    PROVE  SuccessInv'
<1> DEFINE p == Owner(k)
<1>1. /\ k[1] \in Accounts /\ k[2] \in Cycles /\ k = <<k[1], k[2]>>
      /\ p = PlatformOf[k[1]] /\ p \in Platforms
  BY ThreadParts DEF Owner
<1>2. run' = run /\ offered' = offered /\ pc' = pc /\ cycle' = cycle /\ runOf' = runOf
  BY DEF Thread, Enter, Acquire, Refused, Commit, Rollback, Leave, threadSees
<1>3. \A q \in Platforms : Current(q)' = Current(q)
  BY <1>2 DEF Current
<1>4. \A j \in Threads : result'[j] \in {result[j], "succeeded"}
  BY DEF Thread, Enter, Acquire, Refused, Commit, Rollback, Leave, SuccessInv, TypeOK
<1>5. \A j \in Threads : j # k => thread'[j] = thread[j]
  BY DEF Thread, Enter, Acquire, Refused, Commit, Rollback, Leave, Ends, SuccessInv, TypeOK
<1>6. \/ task' = task
      \/ /\ pc[p] = "running" /\ cycle[p] = k[2] /\ task[k[1]] = "persist"
         /\ \/ task' = [task EXCEPT ![k[1]] = "failing"]
            \/ thread[k] = "kept" /\ task' = [task EXCEPT ![k[1]] = "saved"]
         /\ thread'[k] = "none" /\ result' = result
  BY DEF Thread, Enter, Acquire, Refused, Commit, Rollback, Leave, Ends, SuccessInv, TypeOK
<1>7. \A b \in Accounts : b # k[1] => task'[b] = task[b]
  BY <1>6 DEF SuccessInv, TypeOK
<1>8. HonestSuccess'
  <2> SUFFICES ASSUME NEW q \in Platforms, NEW r \in Cycles, run[<<q, r>>] = "succeeded",
                      NEW b \in offered[<<q, r>>]
               PROVE  result'[<<b, r>>] = "succeeded"
    BY <1>2 DEF HonestSuccess
  <2>1. <<b, r>> \in Threads
    BY DEF SuccessInv, OfferedOwn, AccountsOf, Threads
  <2> QED
    BY <1>4, <2>1 DEF SuccessInv, HonestSuccess
<1>9. OfferedOwn'
  BY <1>2 DEF SuccessInv, OfferedOwn, AccountsOf
<1>10. ASSUME NEW q \in Platforms PROVE Live(q)' /\ RunOpen(q)' /\ RaisingOver(q)'
  <2>1. Gathered(q) => Gathered(q)'
    BY <1>1, <1>6, <1>7 DEF Gathered, AccountsOf, SuccessInv, TypeOK
  <2> QED
    BY <1>2, <1>3, <2>1, CycleKept DEF SuccessInv, TypeOK
<1>11. ASSUME NEW b \in Accounts PROVE TaskTrue(b)'
  <2> DEFINE q == PlatformOf[b]
  <2>1. q \in Platforms
    BY CycleAssumption
  <2>2. pc[q] = "running" => <<b, Current(q)>> \in Threads /\ <<b, cycle[q]>> \in Threads
    BY <2>1 DEF SuccessInv, Live, Threads
  <2>3. CASE <<b, cycle[q]>> # k
    <3>1. task'[b] = task[b]
      BY <1>1, <1>6, <1>7, <2>3
    <3>2. pc[q] = "running" => thread'[<<b, cycle[q]>>] = thread[<<b, cycle[q]>>]
      BY <1>5, <2>2, <2>3
    <3>3. pc[q] = "running" => result'[<<b, Current(q)>>] \in {result[<<b, Current(q)>>], "succeeded"}
      BY <1>4, <2>2
    <3> HIDE DEF q
    <3> QED
      BY <1>2, <1>3, <2>1, <3>1, <3>2, <3>3, TaskKept DEF q
  <2>4. CASE <<b, cycle[q]>> = k /\ task' = task
    <3>1. pc[q] = "running" => result'[<<b, Current(q)>>] \in {result[<<b, Current(q)>>], "succeeded"}
      BY <1>4, <2>2
    <3>2. pc[q] = "running" /\ thread'[k] = "kept" =>
             thread[k] = "kept" \/ result'[<<b, Current(q)>>] = "succeeded"
      <4>1. CASE Commit(k)
        <5>1. result' = [result EXCEPT ![<<b, runOf[<<q, cycle[q]>>]>>] = "succeeded"]
          BY <1>1, <2>4, <4>1 DEF Commit
        <5> QED
          BY <2>2, <5>1 DEF Current, SuccessInv, TypeOK
      <4>2. CASE ~Commit(k)
        BY <4>2 DEF Thread, Enter, Acquire, Refused, Rollback, Leave, Ends, SuccessInv, TypeOK
      <4> QED
        BY <4>1, <4>2
    <3>3. TaskTrue(b) /\ cycle'[q] = cycle[q] /\ pc'[q] = pc[q] /\ Current(q)' = Current(q)
      BY <1>2, <1>3, <2>1 DEF SuccessInv
    <3> QED
      BY <1>2, <2>4, <3>1, <3>2, <3>3 DEF TaskTrue
  <2>5. CASE <<b, cycle[q]>> = k /\ task' # task
    <3>1. /\ b = k[1] /\ thread'[k] = "none" /\ result' = result
          /\ pc[q] = "running" /\ task[b] = "persist"
          /\ task'[b] = "failing" \/ (task'[b] = "saved" /\ thread[k] = "kept")
      <4>1. b = k[1] /\ q = p
        BY <1>1, <2>5
      <4> QED
        BY <1>6, <2>5, <4>1 DEF SuccessInv, TypeOK
    <3>2. TaskTrue(b) /\ cycle'[q] = cycle[q] /\ pc'[q] = pc[q] /\ Current(q)' = Current(q)
      BY <1>2, <1>3, <2>1 DEF SuccessInv
    <3> QED
      BY <1>2, <2>5, <3>1, <3>2 DEF TaskTrue
  <2> QED
    BY <2>3, <2>4, <2>5
<1> QED
  BY <1>8, <1>9, <1>10, <1>11 DEF SuccessInv

\* finish_run counts no failure only if no account it was offered has one.
LEMMA VerdictHonest ==
    ASSUME SuccessInv, NEW p \in Platforms, pc[p] = "running", Gathered(p), ~Fatal(p),
           Verdict(p) = "succeeded", NEW a \in offered[<<p, Current(p)>>]
    PROVE  result[<<a, Current(p)>>] = "succeeded"
<1>1. a \in AccountsOf(p) /\ a \in Accounts /\ PlatformOf[a] = p
  BY DEF SuccessInv, OfferedOwn, Live, AccountsOf
<1>2. task[a] = "done"
  BY <1>1 DEF Gathered, Fatal, SuccessInv, TaskTrue
<1>3. result[<<a, Current(p)>>] \in {"succeeded", "failed"}
  BY <1>1, <1>2 DEF SuccessInv, TaskTrue
<1>4. result[<<a, Current(p)>>] # "failed"
  BY <1>1 DEF Verdict
<1> QED
  BY <1>3, <1>4

\* The end of a cycle, and what can be cut short: one platform is concerned, and
\* its tasks at most end.
LEMMA EndSuccess ==
    ASSUME SuccessInv, TypeOK', NEW p \in Platforms,
           EndCycle(p) \/ Cancel(p) \/ SlotLost(p) \/ GuardLost(p) \/ Crash(p)
    PROVE  SuccessInv'
<1>1. result' = result /\ offered' = offered /\ cycle' = cycle /\ runOf' = runOf
  BY DEF EndCycle, Finish, Fail, Cancel, SlotLost, GuardLost, Crash, rows
<1>2. \A q \in Platforms : Current(q)' = Current(q)
  BY <1>1 DEF Current
<1>3. \A q \in Platforms : q # p => pc'[q] = pc[q]
  BY DEF EndCycle, Finish, Fail, Over, Cancel, SlotLost, GuardLost, Crash, SuccessInv, TypeOK
<1>4. \A a \in Accounts : PlatformOf[a] # p =>
         task'[a] = task[a] /\ \A n \in Cycles : thread'[<<a, n>>] = thread[<<a, n>>]
  BY DEF EndCycle, Finish, Fail, Cancel, SlotLost, GuardLost, Crash, Threads, Owner
<1>5. pc'[p] = "running" => pc[p] = "running" /\ task' = task /\ thread' = thread
  BY DEF EndCycle, Finish, Fail, Over, Cancel, SlotLost, GuardLost, Crash, SuccessInv, TypeOK
<1>6. \/ run' = run
      \/ run' = [run EXCEPT ![<<p, Current(p)>>] = "failed"]
      \/ Finish(p) /\ run' = [run EXCEPT ![<<p, Current(p)>>] = Verdict(p)]
  BY DEF EndCycle, Finish, Fail, Cancel, SlotLost, GuardLost, Crash, rows
<1>7. \A q \in Platforms, r \in Cycles : <<q, r>> # <<p, Current(p)>> => run'[<<q, r>>] = run[<<q, r>>]
  BY <1>6 DEF SuccessInv, TypeOK
<1>8. HonestSuccess'
  <2> SUFFICES ASSUME NEW q \in Platforms, NEW r \in Cycles, run'[<<q, r>>] = "succeeded",
                      NEW a \in offered[<<q, r>>]
               PROVE  result[<<a, r>>] = "succeeded"
    BY <1>1 DEF HonestSuccess
  <2>1. CASE run[<<q, r>>] = "succeeded"
    BY <2>1 DEF SuccessInv, HonestSuccess
  <2>2. CASE run[<<q, r>>] # "succeeded"
    <3>1. q = p /\ r = Current(p)
      BY <1>7, <2>2
    <3>2. Finish(p) /\ Verdict(p) = "succeeded"
      BY <1>6, <2>2, <3>1 DEF SuccessInv, TypeOK
    <3> QED
      BY <3>1, <3>2, VerdictHonest DEF Finish
  <2> QED
    BY <2>1, <2>2
<1>9. OfferedOwn'
  BY <1>1 DEF SuccessInv, OfferedOwn, AccountsOf
<1>10. ASSUME NEW q \in Platforms PROVE Live(q)' /\ RunOpen(q)' /\ RaisingOver(q)'
  <2>1. CASE q # p
    <3>1. Gathered(q) => Gathered(q)'
      BY <1>4, <2>1 DEF Gathered, AccountsOf
    <3>2. pc[q] # "idle" => run'[<<q, Current(q)>>] = run[<<q, Current(q)>>]
      BY <1>7, <2>1 DEF SuccessInv, Live
    <3> QED
      BY <1>1, <1>2, <1>3, <2>1, <3>1, <3>2, CycleKept
  <2>2. CASE q = p /\ EndCycle(p)
    <3>1. pc'[p] \in {"idle", "raising"} /\ Gathered(p) /\ task' = task /\ pc[p] # "idle"
      BY <2>2 DEF EndCycle, Finish, Fail, Over, SuccessInv, TypeOK
    <3>2. Gathered(p)'
      BY <3>1 DEF Gathered, AccountsOf
    <3> QED
      BY <1>1, <1>2, <2>2, <3>1, <3>2 DEF SuccessInv, Live, RunOpen, RaisingOver
  <2>3. CASE q = p /\ Cancel(p)
    <3>1. pc[p] = "running" /\ pc'[p] = "raising" /\ run' = run
      BY <2>3 DEF Cancel, rows, SuccessInv, TypeOK
    <3> QED
      BY <1>1, <1>2, <2>3, <3>1 DEF SuccessInv, Live, RunOpen, RaisingOver
  <2>4. CASE q = p /\ (SlotLost(p) \/ GuardLost(p))
    <3>1. pc' = pc /\ run' = run /\ task' = task
      BY <2>4 DEF SlotLost, GuardLost, rows
    <3>2. Gathered(p) => Gathered(p)'
      BY <3>1 DEF Gathered, AccountsOf
    <3> QED
      BY <1>1, <1>2, <2>4, <3>1, <3>2, CycleKept DEF SuccessInv, TypeOK
  <2>5. CASE q = p /\ Crash(p)
    <3>1. pc'[p] = "idle"
      BY <2>5 DEF Crash, SuccessInv, TypeOK
    <3> QED
      BY <2>5, <3>1 DEF Live, RunOpen, RaisingOver
  <2> QED
    BY <2>1, <2>2, <2>3, <2>4, <2>5
<1>11. ASSUME NEW a \in Accounts PROVE TaskTrue(a)'
  <2> DEFINE q == PlatformOf[a]
  <2>1. q \in Platforms
    BY CycleAssumption
  <2>2. pc[q] = "running" => cycle[q] \in Cycles
    BY <2>1 DEF SuccessInv, Live
  <2>3. pc'[q] = "running" => /\ pc[q] = "running" /\ task'[a] = task[a]
                              /\ thread'[<<a, cycle[q]>>] = thread[<<a, cycle[q]>>]
    BY <1>3, <1>4, <1>5, <2>1, <2>2
  <2> HIDE DEF q
  <2> QED
    BY <1>1, <1>2, <2>1, <2>3, TaskKept DEF q
<1> QED
  BY <1>8, <1>9, <1>10, <1>11 DEF SuccessInv

LEMMA StepSuccessInv == SuccessInv /\ [Next]_vars => SuccessInv'
<1> SUFFICES ASSUME SuccessInv, [Next]_vars PROVE SuccessInv'
  OBVIOUS
<1>1. TypeOK /\ TypeOK'
  BY StepType DEF SuccessInv
<1>2. ASSUME NEW a \in Accounts, Task(a) \/ Collected(a) \/ CollectFails(a) PROVE SuccessInv'
  <2> DEFINE p == PlatformOf[a]
  <2>1. p \in Platforms /\ TaskTrue(a) /\ Live(p)
    BY CycleAssumption DEF SuccessInv
  <2>2. UNCHANGED <<run, offered, pc, cycle, runOf>> /\ pc[p] # "idle"
    BY <1>2 DEF Task, Begin, Saved, RecordFailure, Cancelled, Collected, CollectFails, rows
  <2>3. <<a, Current(p)>> \in Threads /\ <<a, cycle[p]>> \in Threads /\ Current(p)' = Current(p)
    BY <2>1, <2>2 DEF Live, Threads, Current
  <2>4. task[a] \notin {"none", "done", "fatal"} /\ \A b \in Accounts : b # a => task'[b] = task[b]
    BY <1>1, <1>2 DEF Task, Begin, Saved, RecordFailure, Cancelled, Collected, CollectFails, Moves,
                      Working, TypeOK
  <2>5. \A k \in Threads : k # <<a, Current(p)>> => result'[k] = result[k]
    BY <1>1, <1>2 DEF Task, Begin, Saved, RecordFailure, Collected, CollectFails, rows, TypeOK
  <2>6. \A k \in Threads : k # <<a, cycle[p]>> => thread'[k] = thread[k]
    BY <1>1, <1>2 DEF Task, Begin, Saved, RecordFailure, Collected, CollectFails, TypeOK
  <2>7. TaskTrue(a)'
    <3>1. CASE Begin(a)
      <4>1. thread' = thread /\ task'[a] \in {"done", "collect", "fatal"}
            /\ (task'[a] = "done" => result' = result /\ result[<<a, Current(p)>>] = "succeeded")
        BY <1>1, <3>1 DEF Begin, Moves, TypeOK
      <4> QED
        BY <2>1, <2>2, <2>3, <4>1 DEF TaskTrue
    <3>2. CASE Saved(a) \/ Collected(a) \/ CollectFails(a)
      <4>1. /\ result' = result /\ pc[p] = "running"
            /\ \/ task[a] = "saved" /\ task'[a] = "done"
               \/ task'[a] = "failing"
               \/ task'[a] = "persist" /\ thread'[<<a, cycle[p]>>] = "queued"
        BY <1>1, <2>3, <3>2 DEF Saved, Collected, CollectFails, Moves, rows, TypeOK
      <4> QED
        BY <2>1, <2>2, <2>3, <4>1 DEF TaskTrue
    <3>3. CASE RecordFailure(a)
      <4>1. \/ task'[a] = "fatal"
            \/ task'[a] = "done" /\ result'[<<a, Current(p)>>] = "failed"
        BY <1>1, <2>3, <3>3 DEF RecordFailure, TypeOK
      <4> QED
        BY <2>2, <2>3, <4>1 DEF TaskTrue
    <3> QED
      BY <1>2, <3>1, <3>2, <3>3 DEF Task
  <2> HIDE DEF p
  <2> QED
    BY <1>1, <2>2, <2>4, <2>5, <2>6, <2>7, StepOfTask DEF p
<1>3. CASE UNCHANGED vars
  <2>1. /\ run' = run /\ result' = result /\ offered' = offered /\ pc' = pc /\ cycle' = cycle
        /\ runOf' = runOf /\ task' = task /\ thread' = thread
    BY <1>3 DEF vars, rows
  <2> QED
    BY <1>1, <2>1 DEF SuccessInv, HonestSuccess, OfferedOwn, Live, RunOpen, RaisingOver, TaskTrue,
                      Gathered, Current, AccountsOf
<1> QED
  BY <1>1, <1>2, <1>3, StartSuccess, ThreadSuccess, EndSuccess DEF Next

LEMMA SuccessInvHolds == Spec => []SuccessInv
  BY InitSuccessInv, StepSuccessInv, PTL DEF Spec

-----------------------------------------------------------------------------
(* Closed runs *)

\* Only the cycle that works for a run writes it, and only the tasks of that cycle
\* write its results, apart from commits.
LEMMA StepKeepsClosed == TypeOK /\ [Next]_vars => [KeepsClosed]_vars
<1> SUFFICES ASSUME TypeOK, Next, NEW p \in Platforms, NEW r \in Cycles, Settled(p, r)
             PROVE  /\ run'[<<p, r>>] = run[<<p, r>>]
                    /\ \A a \in AccountsOf(p) :
                         \/ result'[<<a, r>>] = result[<<a, r>>]
                         \/ /\ result'[<<a, r>>] = "succeeded"
                            /\ \E n \in Cycles : /\ runOf[<<p, n>>] = r
                                                 /\ thread[<<a, n>>] = "writing"
  BY DEF KeepsClosed
<1>1. \A a \in AccountsOf(p) : a \in Accounts /\ PlatformOf[a] = p /\ <<a, r>> \in Threads
  BY DEF AccountsOf, Threads
<1>2. ASSUME NEW q \in Platforms, NEW n \in Cycles, NEW S \in SUBSET AccountsOf(q), Start(q, n, S)
      PROVE  run'[<<p, r>>] = run[<<p, r>>] /\ result' = result
  <2>1. run[<<q, n>>] \notin Closed /\ run[<<p, r>>] \in Closed
    BY <1>2 DEF Start, NextRun, Settled, Closed
  <2> QED
    BY <1>2, <2>1 DEF Start, TypeOK
<1>3. ASSUME NEW a \in Accounts, Task(a) \/ Collected(a) \/ CollectFails(a)
      PROVE  run' = run /\ \A b \in AccountsOf(p) : result'[<<b, r>>] = result[<<b, r>>]
  <2>1. run' = run /\ pc[PlatformOf[a]] # "idle"
    BY <1>3 DEF Task, Begin, Saved, RecordFailure, Cancelled, Collected, CollectFails, rows
  <2>2. \A k \in Threads : k # <<a, Current(PlatformOf[a])>> => result'[k] = result[k]
    BY <1>3 DEF Task, Begin, Saved, RecordFailure, Collected, CollectFails, rows, TypeOK
  <2>3. \A b \in AccountsOf(p) : <<b, r>> # <<a, Current(PlatformOf[a])>>
    BY <1>1, <2>1 DEF Settled
  <2> QED
    BY <1>1, <2>1, <2>2, <2>3
<1>4. ASSUME NEW q \in Platforms, Cancel(q) \/ EndCycle(q) \/ SlotLost(q) \/ GuardLost(q) \/ Crash(q)
      PROVE  run'[<<p, r>>] = run[<<p, r>>] /\ result' = result
  <2>1. /\ result' = result
        /\ \/ run' = run
           \/ /\ pc[q] # "idle"
              /\ \E status : run' = [run EXCEPT ![<<q, Current(q)>>] = status]
    BY <1>4 DEF Cancel, EndCycle, Finish, Fail, SlotLost, GuardLost, Crash, rows
  <2> QED
    BY <2>1 DEF Settled, TypeOK
<1>5. ASSUME NEW k \in Threads, Thread(k), ~Commit(k)
      PROVE  run' = run /\ result' = result
  BY <1>5 DEF Thread, Enter, Acquire, Refused, Rollback, Leave, threadSees
<1>6. ASSUME NEW k \in Threads, Commit(k), NEW a \in AccountsOf(p),
             result'[<<a, r>>] # result[<<a, r>>]
      PROVE  /\ result'[<<a, r>>] = "succeeded"
             /\ \E n \in Cycles : runOf[<<p, n>>] = r /\ thread[<<a, n>>] = "writing"
  <2>1. /\ thread[k] = "writing"
        /\ result' = [result EXCEPT ![<<k[1], runOf[<<Owner(k), k[2]>>]>>] = "succeeded"]
    BY <1>6 DEF Commit
  <2>2. k[1] = a /\ runOf[<<Owner(k), k[2]>>] = r /\ result'[<<a, r>>] = "succeeded"
    BY <1>1, <1>6, <2>1 DEF TypeOK
  <2>3. Owner(k) = p /\ k[2] \in Cycles /\ k = <<a, k[2]>>
    BY <1>1, <2>2, ThreadParts DEF Owner
  <2> QED
    BY <2>1, <2>2, <2>3
<1>7. ASSUME NEW k \in Threads, Commit(k) PROVE run' = run
  BY <1>7 DEF Commit, threadSees
<1> QED
  BY <1>2, <1>3, <1>4, <1>5, <1>6, <1>7 DEF Next, Thread

-----------------------------------------------------------------------------
(* The ledger of runs *)

\* A run is begun only when all before it are closed, and the cycle works for a run
\* that was begun.
RunsInOrder ==
    \A p \in Platforms, r, q \in Cycles :
      run[<<p, r>>] # "none" /\ q < r => run[<<p, q>>] \in Closed

Worked == \A p \in Platforms : pc[p] # "idle" => run[<<p, Current(p)>>] # "none"

LedgerInv == SuccessInv /\ RunsInOrder /\ Worked

\* What a step may do to the runs of a host: begin or resume the next one of a
\* platform that has no cycle, or close the one its cycle works for.
BeginsRun(p, r) ==
    /\ pc[p] = "idle" /\ NextRun(p, r) /\ Current(p)' = r
    /\ run' = [run EXCEPT ![<<p, r>>] = "running"]
ClosesRun(p, status) ==
    /\ pc[p] # "idle"
    /\ run' = [run EXCEPT ![<<p, Current(p)>>] = status]

LEMMA StartBegins ==
    ASSUME TypeOK, NEW p \in Platforms, NEW r \in Cycles, NEW S \in SUBSET AccountsOf(p),
           Start(p, r, S)
    PROVE  BeginsRun(p, r) /\ \A q \in Platforms \ {p} : pc'[q] = pc[q] /\ Current(q)' = Current(q)
<1>1. cycle[p] + 1 \in Cycles /\ cycle[p] \in Nat
  BY NextCycle, CyclesAreNumbers DEF Start, TypeOK
<1>2. /\ cycle' = [cycle EXCEPT ![p] = cycle[p] + 1]
      /\ runOf' = [runOf EXCEPT ![<<p, cycle[p] + 1>>] = r]
  BY DEF Start, TypeOK
<1>3. Current(p)' = r /\ \A q \in Platforms \ {p} : Current(q)' = Current(q)
  BY <1>1, <1>2 DEF TypeOK, Current
<1>4. \A q \in Platforms \ {p} : pc'[q] = pc[q]
  BY DEF Start, TypeOK
<1> QED
  BY <1>3, <1>4 DEF BeginsRun, Start

LEMMA RunsWritten ==
    ASSUME TypeOK, [Next]_vars
    PROVE  \/ \E p \in Platforms, r \in Cycles :
                 /\ BeginsRun(p, r)
                 /\ \A q \in Platforms \ {p} : pc'[q] = pc[q] /\ Current(q)' = Current(q)
           \/ /\ \/ UNCHANGED run
                 \/ \E p \in Platforms, status \in Closed : ClosesRun(p, status)
              /\ \A q \in Platforms : /\ pc'[q] # "idle" => pc[q] # "idle"
                                      /\ Current(q)' = Current(q)
<1>1. CASE UNCHANGED vars
  BY <1>1 DEF vars, rows, Current
<1>2. ASSUME NEW p \in Platforms, NEW r \in Cycles, NEW S \in SUBSET AccountsOf(p), Start(p, r, S)
      PROVE  /\ BeginsRun(p, r)
             /\ \A q \in Platforms \ {p} : pc'[q] = pc[q] /\ Current(q)' = Current(q)
  BY <1>2, StartBegins
<1>3. ASSUME NEW a \in Accounts, Task(a) \/ Collected(a) \/ CollectFails(a)
      PROVE  UNCHANGED <<run, pc, cycle, runOf>>
  BY <1>3 DEF Task, Begin, Saved, RecordFailure, Collected, CollectFails, rows
<1>4. ASSUME NEW k \in Threads, Thread(k) PROVE UNCHANGED <<run, pc, cycle, runOf>>
  BY <1>4 DEF Thread, Enter, Acquire, Refused, Commit, Rollback, Leave, threadSees
<1>5. ASSUME NEW p \in Platforms,
             Cancel(p) \/ EndCycle(p) \/ SlotLost(p) \/ GuardLost(p) \/ Crash(p)
      PROVE  /\ UNCHANGED run \/ \E status \in Closed : ClosesRun(p, status)
             /\ UNCHANGED <<cycle, runOf>>
             /\ \A q \in Platforms : pc'[q] # "idle" => pc[q] # "idle"
  <2>1. UNCHANGED <<cycle, runOf>> /\ \A q \in Platforms : pc'[q] # "idle" => pc[q] # "idle"
    BY <1>5 DEF Cancel, EndCycle, Finish, Fail, Over, SlotLost, GuardLost, Crash, TypeOK
  <2>2. CASE Cancel(p) \/ SlotLost(p) \/ GuardLost(p) \/ Crash(p)
    BY <2>1, <2>2 DEF Cancel, SlotLost, GuardLost, Crash, rows
  <2>3. CASE EndCycle(p)
    <3>1. pc[p] # "idle"
      BY <2>3 DEF EndCycle, Finish, Fail
    <3>2. \/ UNCHANGED run
          \/ \E status \in Closed : run' = [run EXCEPT ![<<p, Current(p)>>] = status]
      BY <2>3, VerdictStatus DEF EndCycle, Finish, Fail, Closed
    <3> QED
      BY <2>1, <3>1, <3>2 DEF ClosesRun
  <2> QED
    BY <1>5, <2>1, <2>2, <2>3
<1> QED
  BY <1>1, <1>2, <1>3, <1>4, <1>5 DEF Next, Current

LEMMA StepLedgerInv == LedgerInv /\ [Next]_vars => LedgerInv'
<1> SUFFICES ASSUME LedgerInv, [Next]_vars PROVE RunsInOrder' /\ Worked'
  BY StepSuccessInv DEF LedgerInv
<1>1. TypeOK /\ RunsInOrder /\ Worked /\ \A p \in Platforms : Live(p)
  BY DEF LedgerInv, SuccessInv
<1>2. ASSUME NEW p \in Platforms, NEW r \in Cycles, BeginsRun(p, r),
             \A q \in Platforms \ {p} : pc'[q] = pc[q] /\ Current(q)' = Current(q)
      PROVE  RunsInOrder' /\ Worked'
  <2>1. \A k \in Platforms \X Cycles : run'[k] = IF k = <<p, r>> THEN "running" ELSE run[k]
    BY <1>1, <1>2 DEF BeginsRun, TypeOK
  <2>2. /\ run[<<p, r>>] \notin Closed
        /\ \A q \in Cycles : q < r => run[<<p, q>>] \in Closed
    BY <1>2, CyclesAreNumbers DEF BeginsRun, NextRun, Closed
  <2>3. RunsInOrder'
    <3> SUFFICES ASSUME NEW s \in Platforms, NEW n \in Cycles, NEW q \in Cycles,
                        run'[<<s, n>>] # "none", q < n
                 PROVE  run'[<<s, q>>] \in Closed
      BY DEF RunsInOrder
    <3>1. CASE <<s, n>> = <<p, r>>
      <4>1. <<s, q>> # <<p, r>> /\ run[<<s, q>>] \in Closed
        BY <2>2, <3>1, CyclesAreNumbers
      <4> QED
        BY <2>1, <4>1
    <3>2. CASE <<s, n>> # <<p, r>>
      <4>1. run[<<s, q>>] \in Closed
        BY <1>1, <2>1, <3>2 DEF RunsInOrder
      <4> QED
        BY <2>1, <2>2, <4>1
    <3> QED
      BY <3>1, <3>2
  <2>4. Worked'
    <3> SUFFICES ASSUME NEW s \in Platforms, pc'[s] # "idle"
                 PROVE  run'[<<s, Current(s)'>>] # "none"
      BY DEF Worked
    <3>1. CASE s = p
      BY <1>2, <2>1, <3>1 DEF BeginsRun
    <3>2. CASE s # p
      BY <1>1, <1>2, <2>1, <3>2 DEF Worked, Live
    <3> QED
      BY <3>1, <3>2
  <2> QED
    BY <2>3, <2>4
<1>3. ASSUME \A q \in Platforms : (pc'[q] # "idle" => pc[q] # "idle") /\ Current(q)' = Current(q),
             NEW p \in Platforms, NEW status \in Closed, ClosesRun(p, status)
      PROVE  RunsInOrder' /\ Worked'
  <2>1. Current(p) \in Cycles /\ run[<<p, Current(p)>>] # "none" /\ "none" \notin Closed
    BY <1>1, <1>3 DEF ClosesRun, Live, Worked, Closed
  <2>2. \A k \in Platforms \X Cycles :
           run'[k] = IF k = <<p, Current(p)>> THEN status ELSE run[k]
    BY <1>1, <1>3 DEF ClosesRun, TypeOK
  <2>3. \A s \in Platforms, q \in Cycles :
           /\ (run'[<<s, q>>] # "none") <=> (run[<<s, q>>] # "none")
           /\ (run[<<s, q>>] \in Closed) => (run'[<<s, q>>] \in Closed)
    <3> SUFFICES ASSUME NEW s \in Platforms, NEW q \in Cycles
                 PROVE  /\ (run'[<<s, q>>] # "none") <=> (run[<<s, q>>] # "none")
                        /\ (run[<<s, q>>] \in Closed) => (run'[<<s, q>>] \in Closed)
      OBVIOUS
    <3>1. CASE <<s, q>> = <<p, Current(p)>>
      BY <1>3, <2>1, <2>2, <3>1
    <3>2. CASE <<s, q>> # <<p, Current(p)>>
      BY <2>2, <3>2
    <3> QED
      BY <3>1, <3>2
  <2>4. RunsInOrder'
    BY <1>1, <2>3 DEF RunsInOrder
  <2>5. Worked'
    <3> SUFFICES ASSUME NEW s \in Platforms, pc'[s] # "idle"
                 PROVE  run'[<<s, Current(s)'>>] # "none"
      BY DEF Worked
    <3>1. pc[s] # "idle" /\ Current(s)' = Current(s) /\ Current(s) \in Cycles
      BY <1>1, <1>3 DEF Live
    <3> QED
      BY <1>1, <2>3, <3>1 DEF Worked
  <2> QED
    BY <2>4, <2>5
<1>4. ASSUME \A q \in Platforms : (pc'[q] # "idle" => pc[q] # "idle") /\ Current(q)' = Current(q),
             UNCHANGED run
      PROVE  RunsInOrder' /\ Worked'
  <2>1. RunsInOrder'
    BY <1>1, <1>4 DEF RunsInOrder
  <2>2. Worked'
    BY <1>1, <1>4 DEF Worked
  <2> QED
    BY <2>1, <2>2
<1> QED
  BY <1>1, <1>2, <1>3, <1>4, RunsWritten

LEMMA LedgerInvHolds == Spec => []LedgerInv
<1>1. Init => LedgerInv
  BY InitSuccessInv DEF LedgerInv, Init, RunsInOrder, Worked
<1> QED
  BY <1>1, StepLedgerInv, PTL DEF Spec

\* What one write does to the runs of each platform.
LEMMA OneRunWritten ==
    ASSUME TypeOK, NEW p \in Platforms, NEW r \in Cycles,
           NEW status \in {"running"} \cup Closed, run' = [run EXCEPT ![<<p, r>>] = status]
    PROVE  /\ \A q : q \in OpenRuns[p] <=> q \in Cycles /\ run[<<p, q>>] = "running"
           /\ \A q : q \in EndedRuns[p] <=> q \in Cycles /\ run[<<p, q>>] \in Closed
           /\ status = "running" =>
                 /\ OpenRuns' = [OpenRuns EXCEPT ![p] = @ \cup {r}]
                 /\ EndedRuns' = [EndedRuns EXCEPT ![p] = @ \ {r}]
           /\ status \in Closed =>
                 /\ OpenRuns' = [OpenRuns EXCEPT ![p] = @ \ {r}]
                 /\ EndedRuns' = [EndedRuns EXCEPT ![p] = @ \cup {r}]
<1>1. /\ run'[<<p, r>>] = status /\ "running" \notin Closed
      /\ \A s \in Platforms, q \in Cycles :
            s # p \/ q # r => run'[<<s, q>>] = run[<<s, q>>]
  BY DEF TypeOK, Closed
<1> DEFINE Opened(s) == {q \in Cycles : run[<<s, q>>] = "running"}
           OpenedNow(s) == {q \in Cycles : run'[<<s, q>>] = "running"}
           Ended(s) == {q \in Cycles : run[<<s, q>>] \in Closed}
           EndedNow(s) == {q \in Cycles : run'[<<s, q>>] \in Closed}
<1>2. \A s \in Platforms \ {p} : OpenedNow(s) = Opened(s) /\ EndedNow(s) = Ended(s)
  BY <1>1
<1>3. /\ status = "running" => OpenedNow(p) = Opened(p) \cup {r}
      /\ status = "running" => EndedNow(p) = Ended(p) \ {r}
      /\ status \in Closed => OpenedNow(p) = Opened(p) \ {r}
      /\ status \in Closed => EndedNow(p) = Ended(p) \cup {r}
  BY <1>1
<1>4. /\ OpenRuns = [s \in Platforms |-> Opened(s)] /\ OpenRuns' = [s \in Platforms |-> OpenedNow(s)]
      /\ EndedRuns = [s \in Platforms |-> Ended(s)] /\ EndedRuns' = [s \in Platforms |-> EndedNow(s)]
  BY DEF OpenRuns, EndedRuns, Cycles
<1>5. /\ \A q : q \in Opened(p) <=> q \in Cycles /\ run[<<p, q>>] = "running"
      /\ \A q : q \in Ended(p) <=> q \in Cycles /\ run[<<p, q>>] \in Closed
  OBVIOUS
<1> HIDE DEF Opened, OpenedNow, Ended, EndedNow
<1>6. OpenRuns[p] = Opened(p) /\ EndedRuns[p] = Ended(p)
  BY <1>4
<1>7. ASSUME NEW S, OpenedNow(p) = S PROVE OpenRuns' = [OpenRuns EXCEPT ![p] = S]
  BY <1>2, <1>4, <1>7
<1>8. ASSUME NEW S, EndedNow(p) = S PROVE EndedRuns' = [EndedRuns EXCEPT ![p] = S]
  BY <1>2, <1>4, <1>8
<1>9. status = "running" =>
         /\ OpenRuns' = [OpenRuns EXCEPT ![p] = @ \cup {r}]
         /\ EndedRuns' = [EndedRuns EXCEPT ![p] = @ \ {r}]
  BY <1>3, <1>6, <1>7, <1>8
<1>10. status \in Closed =>
          /\ OpenRuns' = [OpenRuns EXCEPT ![p] = @ \ {r}]
          /\ EndedRuns' = [EndedRuns EXCEPT ![p] = @ \cup {r}]
  BY <1>3, <1>6, <1>7, <1>8
<1> QED
  BY <1>5, <1>6, <1>9, <1>10

\* What the sets add or take away that they have, or have not, changes nothing.
LEMMA SameSets ==
    /\ \A S, p, r : S = [s \in Platforms |-> S[s]] /\ r \in S[p]
                     => [S EXCEPT ![p] = @ \cup {r}] = S
    /\ \A S, p, r : S = [s \in Platforms |-> S[s]] /\ r \notin S[p]
                     => [S EXCEPT ![p] = @ \ {r}] = S
<1>1. ASSUME NEW S, NEW p, NEW r, S = [s \in Platforms |-> S[s]], r \in S[p]
      PROVE  [S EXCEPT ![p] = @ \cup {r}] = S
  <2>1. S[p] \cup {r} = S[p]
    BY <1>1
  <2> QED
    BY <1>1, <2>1
<1>2. ASSUME NEW S, NEW p, NEW r, S = [s \in Platforms |-> S[s]], r \notin S[p]
      PROVE  [S EXCEPT ![p] = @ \ {r}] = S
  <2>1. S[p] \ {r} = S[p]
    BY <1>2
  <2> QED
    BY <1>2, <2>1
<1> QED
  BY <1>1, <1>2

LEMMA BeginOpens ==
    ASSUME LedgerInv, NEW p \in Platforms, NEW r \in Cycles, BeginsRun(p, r)
    PROVE  Ledger!LedgerNext \/ UNCHANGED Ledger!ledger
<1>1. /\ TypeOK /\ RunsInOrder /\ run[<<p, r>>] \in {"none", "running"}
      /\ \A q \in Cycles : q < r => run[<<p, q>>] \in Closed
      /\ run' = [run EXCEPT ![<<p, r>>] = "running"]
      /\ {"none", "running"} \cap Closed = {}
  BY CyclesAreNumbers DEF LedgerInv, SuccessInv, BeginsRun, NextRun, Closed
<1>2. /\ \A q : q \in OpenRuns[p] <=> q \in Cycles /\ run[<<p, q>>] = "running"
      /\ \A q : q \in EndedRuns[p] <=> q \in Cycles /\ run[<<p, q>>] \in Closed
      /\ OpenRuns' = [OpenRuns EXCEPT ![p] = @ \cup {r}]
      /\ EndedRuns' = [EndedRuns EXCEPT ![p] = @ \ {r}]
  BY <1>1, OneRunWritten
<1>3. /\ OpenRuns = [s \in Platforms |-> OpenRuns[s]]
      /\ EndedRuns = [s \in Platforms |-> EndedRuns[s]]
  BY DEF OpenRuns, EndedRuns
<1>4. EndedRuns' = EndedRuns
  <2>1. r \notin EndedRuns[p]
    BY <1>1, <1>2
  <2> QED
    BY <1>2, <1>3, <2>1, SameSets
<1>5. CASE run[<<p, r>>] = "running"
  <2>1. OpenRuns' = OpenRuns
    BY <1>2, <1>3, <1>5, SameSets
  <2> QED
    BY <1>4, <2>1 DEF Ledger!ledger
<1>6. CASE run[<<p, r>>] = "none"
  <2>1. ASSUME NEW q \in Cycles, q >= r PROVE run[<<p, q>>] = "none"
    BY <1>1, <1>6, <2>1, CyclesAreNumbers DEF RunsInOrder
  <2>2. \A q \in Cycles : run[<<p, q>>] = "running" \/ run[<<p, q>>] \in Closed => q < r
    BY <1>1, <2>1, CyclesAreNumbers
  <2>3. OpenRuns[p] = {}
    BY <1>1, <1>2, <2>2
  <2>4. \A q \in EndedRuns[p] : q < r
    BY <1>2, <2>2
  <2>5. OpenRuns[p] \cup {r} = {r}
    BY <2>3
  <2>6. OpenRuns' = [OpenRuns EXCEPT ![p] = {r}]
    BY <1>2, <2>5
  <2>7. Ledger!Open(p, r)
    BY <1>4, <2>3, <2>4, <2>6 DEF Ledger!Open
  <2> QED
    BY <2>7 DEF Ledger!LedgerNext
<1> QED
  BY <1>1, <1>5, <1>6

\* A run that finish_run has closed already stays ended when fail_run closes it again.
LEMMA CloseEnds ==
    ASSUME LedgerInv, NEW p \in Platforms, NEW status \in Closed, ClosesRun(p, status)
    PROVE  Ledger!LedgerNext \/ UNCHANGED Ledger!ledger
<1>1. PICK r : r = Current(p)
  OBVIOUS
<1>2. /\ TypeOK /\ r \in Cycles /\ run[<<p, r>>] \in {"running"} \cup Closed
      /\ run' = [run EXCEPT ![<<p, r>>] = status] /\ status \in {"running"} \cup Closed
      /\ "running" \notin Closed
  BY <1>1 DEF LedgerInv, SuccessInv, Live, Worked, TypeOK, ClosesRun, Closed
<1>3. /\ \A q : q \in OpenRuns[p] <=> q \in Cycles /\ run[<<p, q>>] = "running"
      /\ \A q : q \in EndedRuns[p] <=> q \in Cycles /\ run[<<p, q>>] \in Closed
      /\ OpenRuns' = [OpenRuns EXCEPT ![p] = @ \ {r}]
      /\ EndedRuns' = [EndedRuns EXCEPT ![p] = @ \cup {r}]
  BY <1>2, OneRunWritten
<1>4. CASE run[<<p, r>>] = "running"
  <2>1. r \in OpenRuns[p]
    BY <1>2, <1>3, <1>4
  <2>2. Ledger!End(p, r)
    BY <1>3, <2>1 DEF Ledger!End
  <2> QED
    BY <1>2, <2>2 DEF Ledger!LedgerNext
<1>5. CASE run[<<p, r>>] \in Closed
  <2>1. r \notin OpenRuns[p] /\ r \in EndedRuns[p]
    BY <1>2, <1>3, <1>5
  <2>2. /\ OpenRuns = [s \in Platforms |-> OpenRuns[s]]
        /\ EndedRuns = [s \in Platforms |-> EndedRuns[s]]
    BY DEF OpenRuns, EndedRuns
  <2>3. OpenRuns' = OpenRuns /\ EndedRuns' = EndedRuns
    BY <1>3, <2>1, <2>2, SameSets
  <2> QED
    BY <2>3 DEF Ledger!ledger
<1> QED
  BY <1>2, <1>4, <1>5

LEMMA StepImplementsLedger ==
    LedgerInv /\ [Next]_vars => [Ledger!LedgerNext]_(Ledger!ledger)
<1> SUFFICES ASSUME LedgerInv, [Next]_vars
             PROVE  Ledger!LedgerNext \/ UNCHANGED Ledger!ledger
  OBVIOUS
<1>1. TypeOK
  BY DEF LedgerInv, SuccessInv
<1>2. ASSUME UNCHANGED run PROVE UNCHANGED Ledger!ledger
  BY <1>2 DEF Ledger!ledger, OpenRuns, EndedRuns, Cycles
<1> QED
  BY <1>1, <1>2, RunsWritten, BeginOpens, CloseEnds

-----------------------------------------------------------------------------
(* The pool of slots *)

\* Only a cycle holds a slot.
HeldInTurn == held \subseteq InTurn

\* A step that leaves every cycle begun or not begun as it was.
LEMMA PoolUntouched ==
    ASSUME UNCHANGED held,
           \A q \in Platforms : pc'[q] # "idle" <=> pc[q] # "idle"
    PROVE  UNCHANGED Pool!pool
  BY DEF Pool!pool, InTurn

LEMMA StartTakes ==
    ASSUME TypeOK, NEW p \in Platforms, NEW r \in Cycles, NEW S \in SUBSET AccountsOf(p),
           Start(p, r, S)
    PROVE  Pool!Take(p)
<1>1. /\ pc[p] = "idle" /\ Cardinality(held) < Slots
      /\ held' = held \cup {p}
  BY DEF Start
<1>2. \E to \in {"running", "raising"} : pc' = [pc EXCEPT ![p] = to]
  BY DEF Start
<1>3. p \notin InTurn /\ InTurn' = InTurn \cup {p}
  BY <1>1, <1>2 DEF InTurn, TypeOK
<1>4. Pool!Cardinality(held) = Cardinality(held)
  BY DEF Pool!Cardinality, Cardinality
<1> QED
  BY <1>1, <1>3, <1>4 DEF Pool!Take

\* A cycle that is over, or dies, gives its slot back.
LEMMA OverLeaves ==
    ASSUME TypeOK, HeldInTurn, NEW p \in Platforms,
           pc' = [pc EXCEPT ![p] = "idle"], held' = held \ {p}
    PROVE  Pool!Leave(p) \/ UNCHANGED Pool!pool
<1>1. InTurn' = InTurn \ {p}
  BY DEF InTurn, TypeOK
<1>2. CASE p \in InTurn
  BY <1>1, <1>2 DEF Pool!Leave
<1>3. CASE p \notin InTurn
  <2>1. held' = held /\ InTurn' = InTurn
    BY <1>1, <1>3 DEF HeldInTurn
  <2> QED
    BY <2>1 DEF Pool!pool
<1> QED
  BY <1>2, <1>3

LEMMA StepUsesPool ==
    TypeOK /\ HeldInTurn /\ [Next]_vars => [Pool!PoolNext]_(Pool!pool)
<1> SUFFICES ASSUME TypeOK, HeldInTurn, [Next]_vars
             PROVE  Pool!PoolNext \/ UNCHANGED Pool!pool
  OBVIOUS
<1>1. CASE UNCHANGED vars
  BY <1>1, PoolUntouched DEF vars, locks
<1>2. ASSUME NEW p \in Platforms, NEW r \in Cycles, NEW S \in SUBSET AccountsOf(p), Start(p, r, S)
      PROVE  Pool!PoolNext
  BY <1>2, StartTakes DEF Pool!PoolNext
<1>3. ASSUME NEW a \in Accounts, Task(a) \/ Collected(a) \/ CollectFails(a)
      PROVE  UNCHANGED Pool!pool
  <2>1. UNCHANGED <<held, pc>>
    BY <1>3 DEF Task, Begin, Saved, RecordFailure, Collected, CollectFails, locks
  <2> QED
    BY <2>1, PoolUntouched
<1>4. ASSUME NEW k \in Threads, Thread(k) PROVE UNCHANGED Pool!pool
  <2>1. UNCHANGED <<held, pc>>
    BY <1>4 DEF Thread, Enter, Acquire, Refused, Commit, Rollback, Leave, threadSees, locks
  <2> QED
    BY <2>1, PoolUntouched
<1>5. ASSUME NEW p \in Platforms, Cancel(p) \/ GuardLost(p) PROVE UNCHANGED Pool!pool
  <2>1. UNCHANGED held
    BY <1>5 DEF Cancel, GuardLost, locks
  <2>2. \A q \in Platforms : pc'[q] # "idle" <=> pc[q] # "idle"
    BY <1>5 DEF Cancel, GuardLost, TypeOK
  <2> QED
    BY <2>1, <2>2, PoolUntouched
<1>6. ASSUME NEW p \in Platforms, EndCycle(p) \/ Crash(p)
      PROVE  Pool!PoolNext \/ UNCHANGED Pool!pool
  <2>1. CASE pc' = [pc EXCEPT ![p] = "idle"] /\ held' = held \ {p}
    BY <2>1, OverLeaves DEF Pool!PoolNext
  <2>2. CASE pc[p] = "running" /\ pc' = [pc EXCEPT ![p] = "raising"] /\ UNCHANGED held
    BY <2>2, PoolUntouched DEF TypeOK
  <2> QED
    BY <1>6, <2>1, <2>2 DEF EndCycle, Finish, Fail, Crash, Over
<1>7. ASSUME NEW p \in Platforms, SlotLost(p) PROVE Pool!PoolNext
  BY <1>7 DEF SlotLost, InTurn, Pool!PoolNext, Pool!Lose
<1> QED
  BY <1>1, <1>2, <1>3, <1>4, <1>5, <1>6, <1>7 DEF Next

\* The pool gives slots to none but those in turn.
LEMMA PoolKeeps ==
    HeldInTurn /\ [Pool!PoolNext]_(Pool!pool) => HeldInTurn'
  BY DEF HeldInTurn, Pool!PoolNext, Pool!pool, Pool!Take, Pool!Lose, Pool!Leave

LEMMA HeldInTurnHolds == Spec => []HeldInTurn
<1>1. Init => HeldInTurn
  BY DEF Init, HeldInTurn
<1>2. GuardInv /\ ThreadBorn => TypeOK
  BY DEF GuardInv
<1> QED
  BY <1>1, <1>2, StepUsesPool, PoolKeeps, GuardInvHolds, PTL DEF Spec

-----------------------------------------------------------------------------
(* Theorems *)

\* Every variable of the cycles keeps its type.
THEOREM CycleTypeCorrect == Spec => []TypeOK
<1>1. GuardInv /\ ThreadBorn => TypeOK
  BY DEF GuardInv
<1> QED
  BY <1>1, GuardInvHolds, PTL

\* With the persist guard two threads write at once only if one of them has lost the
\* guard's connection, whatever cycles they come from and whichever were cancelled.
THEOREM WritersStayApart == Spec => []WritesApart
<1>1. GuardInv /\ ThreadBorn => WritesApart
  <2> SUFFICES ASSUME GuardInv, Guarded, NEW j \in Threads, NEW k \in Threads,
                      thread[j] = "writing", thread[k] = "writing", j # k,
                      session[Owner(j)], session[Owner(k)]
               PROVE  FALSE
    BY ThreadParts DEF WritesApart, GuardInv, TypeOK
  <2>1. Owner(j) = Owner(k)
    BY DEF GuardInv, WriterHolds, Holding
  <2> QED
    BY <2>1 DEF GuardInv, OneInside, Inside
<1> QED
  BY <1>1, GuardInvHolds, PTL

\* The lock of the host is held only while a thread of its holder is between
\* pg_advisory_lock and pg_advisory_unlock: every way out of a write gives it back.
THEOREM GuardIsReturned == Spec => []GuardReturned
<1>1. GuardInv /\ ThreadBorn => GuardReturned
  BY DEF GuardInv, HolderWrites, GuardReturned, Holding
<1> QED
  BY <1>1, GuardInvHolds, PTL

\* A run stored as a success has a stored success of every account it was offered.
THEOREM SuccessIsHonest == Spec => []HonestSuccess
<1>1. SuccessInv => HonestSuccess
  BY DEF SuccessInv
<1> QED
  BY <1>1, SuccessInvHolds, PTL

\* A closed run whose cycle is over stays as it is, and only the commit of a thread
\* that outlived the cycle can change a result of it, to a success.
THEOREM ClosedRunsStay == Spec => ClosedRuns
<1>1. TypeOK /\ [Next]_vars => [KeepsClosed]_vars
  BY StepKeepsClosed
<1> QED
  BY <1>1, CycleTypeCorrect, PTL DEF Spec, ClosedRuns

\* collection_run is a ledger: a platform's runs are opened one at a time and in
\* order, and what has ended stays ended, although a cycle may fail after it has
\* closed its run, or be killed before.
THEOREM RunsAreALedger == Spec => ImplementsLedger
<1>1. Init => Ledger!LedgerInit
  BY DEF Init, Ledger!LedgerInit, OpenRuns, EndedRuns, Closed
<1> QED
  BY <1>1, LedgerInvHolds, StepImplementsLedger, PTL
  DEF Spec, ImplementsLedger, Ledger!LedgerSpec

\* The slots are a counting semaphore to the cycles: one that starts takes a slot, and
\* however it ends (a verdict, a failure, a kill) it leaves none taken.
THEOREM CyclesShareSlots == Spec => UsesPool
<1>1. Init => Pool!PoolInit
  BY DEF Init, Pool!PoolInit, InTurn
<1>2. GuardInv /\ ThreadBorn => TypeOK
  BY DEF GuardInv
<1> QED
  BY <1>1, <1>2, GuardInvHolds, HeldInTurnHolds, StepUsesPool, PTL
  DEF Spec, UsesPool, Pool!PoolSpec

================================================================================
