--------------------------------- MODULE Cycle ---------------------------------
(***************************************************************************)
(* One cycle of a collector after another, on a host with several of them: *)
(* collector_target's PollCycleCoordinator, the rows of collection_run and *)
(* collection_account_result it keeps, and the guard around each write.    *)
(*                                                                         *)
(* The cycle of a platform starts when it has a collect slot, collects its *)
(* accounts concurrently in one event loop, and hands every batch to a     *)
(* thread that writes it, because a write may wait for the guard.  A cycle *)
(* past its deadline, without its slot or told to stop is cancelled: that  *)
(* cancels the tasks, not the threads, which write on without a cycle.     *)
(* With one slot there is no guard.                                        *)
(*                                                                         *)
(* One action is one transaction or one lock operation.  How a slot is won *)
(* is the subject of Phase; what a batch holds, of Availability and        *)
(* Transfer.                                                               *)
(***************************************************************************)
EXTENDS Integers, FiniteSets

CONSTANTS
    Platforms, Accounts,
    PlatformOf,          \* the platform of each account
    Slots,               \* collector_collect_concurrency
    AccountConcurrency,  \* account_concurrency
    None,
    MaxCycles,           \* bound: cycles of each platform
    MaxTroubles          \* bound: statements and sessions lost, crashes

ASSUME CycleAssumption ==
    /\ PlatformOf \in [Accounts -> Platforms]
    /\ Slots \in Nat \ {0} /\ AccountConcurrency \in Nat \ {0}
    /\ None \notin Platforms
    /\ MaxCycles \in [Platforms -> Nat] /\ MaxTroubles \in Nat

VARIABLES
    run,       \* collection_run.status of each run of each platform
    result,    \* collection_account_result.status of each account and run
    held,      \* platforms whose session holds a collect slot
    guard,     \* the platform whose session holds the persist lock
    session,   \* whether the guard's connection of each platform is good
    pc,        \* the cycle of each platform; raising: an exception unwinds it
    cycle,     \* its number
    runOf,     \* the run each cycle works for
    task,      \* the task of each account in the cycle
    thread,    \* the thread that writes the batch of an account and a cycle
    offered,   \* history: the accounts of the last cycle of each run
    troubles

rows == <<run, result, offered>>
locks == <<held, guard, session>>
vars == <<rows, locks, pc, cycle, runOf, task, thread, troubles>>

Cycles == UNION {1..MaxCycles[p] : p \in Platforms}
Threads == Accounts \X Cycles
Owner(k) == PlatformOf[k[1]]
AccountsOf(p) == {a \in Accounts : PlatformOf[a] = p}

\* The guard is built only if more than one platform may collect at a time.
Guarded == Slots > 1

Closed == {"succeeded", "partial", "failed"}
Working == {"collect", "persist", "saved", "failing"}  \* tasks inside the semaphore
Inside == {"locking", "writing", "kept", "raised"}     \* threads past the guard's mutex

\* Every variable has its type.
TypeOK ==
    /\ run \in [Platforms \X Cycles -> {"none", "running"} \cup Closed]
    /\ result \in [Threads -> {"none", "running", "succeeded", "failed"}]
    /\ held \subseteq Platforms
    /\ guard \in Platforms \cup {None}
    /\ session \in [Platforms -> BOOLEAN]
    /\ pc \in [Platforms -> {"idle", "running", "raising"}]
    /\ cycle \in [Platforms -> {0} \cup Cycles]
    /\ runOf \in [Platforms \X Cycles -> {0} \cup Cycles]
    /\ task \in [Accounts -> {"none", "queued", "done", "fatal"} \cup Working]
    /\ thread \in [Threads -> {"none", "queued"} \cup Inside]
    /\ offered \in [Platforms \X Cycles -> SUBSET Accounts]
    /\ troubles \in 0..MaxTroubles

Init ==
    /\ run = [k \in Platforms \X Cycles |-> "none"]
    /\ result = [k \in Threads |-> "none"]
    /\ held = {}
    /\ guard = None
    /\ session = [p \in Platforms |-> TRUE]
    /\ pc = [p \in Platforms |-> "idle"]
    /\ cycle = [p \in Platforms |-> 0]
    /\ runOf = [k \in Platforms \X Cycles |-> 0]
    /\ task = [a \in Accounts |-> "none"]
    /\ thread = [k \in Threads |-> "none"]
    /\ offered = [k \in Platforms \X Cycles |-> {}]
    /\ troubles = 0

Spend == troubles < MaxTroubles /\ troubles' = troubles + 1

\* The run the cycle of a platform works for.
Current(p) == runOf[<<p, cycle[p]>>]

-----------------------------------------------------------------------------
(* The cycle *)

\* Mutants of NextRun: a run that failed is taken up again; one left open is not.
NextRunFailed(p, r) ==
    /\ run[<<p, r>>] \in {"none", "running", "failed"}
    /\ \A q \in 1..(r - 1) : run[<<p, q>>] \in Closed

NextRunFresh(p, r) ==
    /\ run[<<p, r>>] = "none"
    /\ \A q \in 1..(r - 1) : run[<<p, q>>] # "none"

\* The run left open, or the next one (ORDER BY scheduled_at LIMIT 1).
NextRun(p, r) ==
    /\ run[<<p, r>>] \in {"none", "running"}
    /\ \A q \in 1..(r - 1) : run[<<p, q>>] \in Closed

\* start_run and enabled_accounts: the accounts of S are offered.  If reading them
\* fails the cycle is unwound with none; if start_run fails there is no cycle.
Start(p, r, S) ==
    /\ pc[p] = "idle" /\ p \notin held /\ Cardinality(held) < Slots
    /\ cycle[p] < MaxCycles[p] /\ NextRun(p, r)
    /\ held' = held \cup {p}
    /\ cycle' = [cycle EXCEPT ![p] = @ + 1]
    /\ runOf' = [runOf EXCEPT ![<<p, cycle[p] + 1>>] = r]
    /\ run' = [run EXCEPT ![<<p, r>>] = "running"]
    /\ \/ /\ pc' = [pc EXCEPT ![p] = "running"]
          /\ offered' = [offered EXCEPT ![<<p, r>>] = S]
          /\ task' = [a \in Accounts |-> IF PlatformOf[a] # p THEN task[a]
                                         ELSE IF a \in S THEN "queued" ELSE "none"]
          /\ UNCHANGED troubles
       \/ /\ S = {} /\ Spend
          /\ pc' = [pc EXCEPT ![p] = "raising"]
          /\ offered' = [offered EXCEPT ![<<p, r>>] = {}]
          /\ task' = [a \in Accounts |-> IF PlatformOf[a] # p THEN task[a] ELSE "none"]
    /\ UNCHANGED <<result, guard, session, thread>>

Moves(a, from, to) == task[a] = from /\ task' = [task EXCEPT ![a] = to]

\* begin_account, inside the semaphore: an account that succeeded in this run
\* before is not collected again.  A release deleted from the disk, or a lost
\* database, is the failure of the process and not of the account.
Begin(a) ==
    LET p == PlatformOf[a]  k == <<a, Current(p)>> IN
    /\ pc[p] = "running"
    /\ Cardinality({b \in AccountsOf(p) : task[b] \in Working}) < AccountConcurrency
    /\ \/ /\ result[k] = "succeeded" /\ Moves(a, "queued", "done")
          /\ UNCHANGED <<result, troubles>>
       \/ /\ result[k] # "succeeded" /\ Moves(a, "queued", "collect")
          /\ result' = [result EXCEPT ![k] = "running"]
          /\ UNCHANGED troubles
       \/ Moves(a, "queued", "fatal") /\ Spend /\ UNCHANGED result
    /\ UNCHANGED <<run, offered, locks, pc, cycle, runOf, thread>>

\* The provider has answered: to_thread takes the batch.
Collected(a) ==
    LET p == PlatformOf[a] IN
    /\ pc[p] = "running" /\ Moves(a, "collect", "persist")
    /\ thread' = [thread EXCEPT ![<<a, cycle[p]>>] = "queued"]
    /\ UNCHANGED <<rows, locks, pc, cycle, runOf, troubles>>

\* The provider fails, or the batch is rejected and quarantined.
CollectFails(a) ==
    /\ pc[PlatformOf[a]] = "running" /\ Moves(a, "collect", "failing")
    /\ UNCHANGED <<rows, locks, pc, cycle, runOf, thread, troubles>>

\* The task goes on after its thread.
Saved(a) ==
    /\ pc[PlatformOf[a]] = "running" /\ Moves(a, "saved", "done")
    /\ UNCHANGED <<rows, locks, pc, cycle, runOf, thread, troubles>>

\* Mutant of Cancelled: a task inside the provider is left to its answer.
CancelledButCollect(a) == pc[PlatformOf[a]] = "raising" /\ task[a] \in Working \ {"collect"}

\* CancelledError is raised wherever the task waits.
Cancelled(a) == pc[PlatformOf[a]] = "raising" /\ task[a] \in Working

\* record_account_failure, in one handler or the other, whatever has become of the
\* thread; one that the pool has not started yet never starts.  If the database is
\* lost the task ends with that.
RecordFailure(a) ==
    LET p == PlatformOf[a]  t == <<a, cycle[p]>> IN
    /\ \/ Cancelled(a)
       \/ pc[p] = "running" /\ task[a] = "failing"
    /\ \/ /\ result' = [result EXCEPT ![<<a, Current(p)>>] = "failed"]
          /\ task' = [task EXCEPT ![a] = "done"]
          /\ UNCHANGED troubles
       \/ /\ Spend /\ UNCHANGED result
          /\ task' = [task EXCEPT ![a] = "fatal"]
    /\ \/ UNCHANGED thread
       \/ thread[t] = "queued" /\ thread' = [thread EXCEPT ![t] = "none"]
    /\ UNCHANGED <<run, offered, locks, pc, cycle, runOf>>

\* The deadline passes, the slot is found lost, or the grace of a stop is over:
\* tasks that wait for the semaphore just end.
Cancel(p) ==
    /\ pc[p] = "running"
    /\ pc' = [pc EXCEPT ![p] = "raising"]
    /\ task' = [a \in Accounts |-> IF PlatformOf[a] = p /\ task[a] = "queued" THEN "done"
                                   ELSE task[a]]
    /\ UNCHANGED <<rows, locks, cycle, runOf, thread, troubles>>

\* gather has the result of every task.
Gathered(p) == \A a \in AccountsOf(p) : task[a] \in {"none", "done", "fatal"}
Fatal(p) == \E a \in AccountsOf(p) : task[a] = "fatal"

\* Mutant of Verdict: a run without a single result is told apart.
VerdictSkipped(p) ==
    LET results == {result[<<a, Current(p)>>] : a \in AccountsOf(p)} IN
    IF results = {"none"} THEN "skipped"
    ELSE IF "failed" \notin results THEN "succeeded"
    ELSE IF "succeeded" \notin results THEN "failed" ELSE "partial"

\* finish_run: rows still running, of accounts no longer offered, do not count.
Verdict(p) ==
    LET results == {result[<<a, Current(p)>>] : a \in AccountsOf(p)} IN
    IF "failed" \notin results THEN "succeeded"
    ELSE IF "succeeded" \notin results THEN "failed" ELSE "partial"

Over(p) == pc' = [pc EXCEPT ![p] = "idle"] /\ held' = held \ {p}

\* Mutant of Finish: the exceptions gather has collected are not looked at.
FinishAnyway(p) ==
    /\ pc[p] = "running" /\ Gathered(p)
    /\ run' = [run EXCEPT ![<<p, Current(p)>>] = Verdict(p)]
    /\ Over(p)
    /\ UNCHANGED <<result, offered, guard, session, cycle, runOf, task, thread, troubles>>

\* finish_run may fail, before its commit or after it.
Finish(p) ==
    /\ pc[p] = "running" /\ Gathered(p) /\ ~Fatal(p)
    /\ \/ /\ run' = [run EXCEPT ![<<p, Current(p)>>] = Verdict(p)]
          /\ Over(p) /\ UNCHANGED troubles
       \/ /\ Spend
          /\ pc' = [pc EXCEPT ![p] = "raising"]
          /\ run' \in {run, [run EXCEPT ![<<p, Current(p)>>] = Verdict(p)]}
          /\ UNCHANGED held
    /\ UNCHANGED <<result, offered, guard, session, cycle, runOf, task, thread>>

\* fail_run, whose own failure is only logged: the run is then left open.
Fail(p) ==
    /\ \/ pc[p] = "raising"
       \/ pc[p] = "running" /\ Fatal(p)
    /\ Gathered(p)
    /\ \/ run' = [run EXCEPT ![<<p, Current(p)>>] = "failed"] /\ UNCHANGED troubles
       \/ Spend /\ UNCHANGED run
    /\ Over(p)
    /\ UNCHANGED <<result, offered, guard, session, cycle, runOf, task, thread>>

-----------------------------------------------------------------------------
(* The threads *)

threadSees == <<run, offered, pc, cycle, runOf>>

\* The mutex of the process comes before the lock of the host.
Enter(k) ==
    /\ thread[k] = "queued"
    /\ Guarded => \A j \in Threads : Owner(j) = Owner(k) => thread[j] \notin Inside
    /\ thread' = [thread EXCEPT ![k] = IF Guarded THEN "locking" ELSE "writing"]
    /\ UNCHANGED <<threadSees, result, locks, task, troubles>>

\* pg_advisory_lock.
Acquire(k) ==
    /\ thread[k] = "locking" /\ session[Owner(k)] /\ guard = None
    /\ guard' = Owner(k)
    /\ thread' = [thread EXCEPT ![k] = "writing"]
    /\ UNCHANGED <<threadSees, result, held, session, task, troubles>>

\* The thread is over.  Only a task that still waits for it learns how.
Ends(k, outcome) ==
    /\ thread' = [thread EXCEPT ![k] = "none"]
    /\ task' = IF /\ pc[Owner(k)] = "running" /\ cycle[Owner(k)] = k[2]
                  /\ task[k[1]] = "persist"
               THEN [task EXCEPT ![k[1]] = outcome]
               ELSE task

\* Mutant of Refused: after the wait the batch is written anyway.
RefusedWritesAnyway(k) ==
    /\ thread[k] = "locking" /\ (~session[Owner(k)] \/ guard # None)
    /\ thread' = [thread EXCEPT ![k] = "writing"]
    /\ UNCHANGED <<threadSees, result, locks, task, troubles>>

\* lock_timeout passes while another holds the lock, or the connection proves lost
\* (the next thread makes a new one).
Refused(k) ==
    /\ thread[k] = "locking" /\ (~session[Owner(k)] \/ guard # None)
    /\ Ends(k, "failing")
    /\ session' = [session EXCEPT ![Owner(k)] = TRUE]
    /\ UNCHANGED <<threadSees, result, held, guard, troubles>>

\* persist_account_batch commits, the result of the account with it; a commit may
\* still raise, if its answer is lost.
Commit(k) ==
    /\ thread[k] = "writing"
    /\ result' = [result EXCEPT ![<<k[1], runOf[<<Owner(k), k[2]>>]>>] = "succeeded"]
    /\ \/ thread' = [thread EXCEPT ![k] = "kept"] /\ UNCHANGED troubles
       \/ thread' = [thread EXCEPT ![k] = "raised"] /\ Spend
    /\ UNCHANGED <<threadSees, locks, task>>

Rollback(k) ==
    /\ thread[k] = "writing"
    /\ thread' = [thread EXCEPT ![k] = "raised"]
    /\ UNCHANGED <<threadSees, result, locks, task, troubles>>

\* Mutant of Leave: a thread that raises leaves the lock taken.
LeaveLocked(k) ==
    LET p == Owner(k)  good == thread[k] = "kept" /\ (Guarded => session[p]) IN
    /\ thread[k] \in {"kept", "raised"}
    /\ Ends(k, IF good THEN "saved" ELSE "failing")
    /\ guard' = IF guard = p /\ good THEN None ELSE guard
    /\ session' = [session EXCEPT ![p] = TRUE]
    /\ UNCHANGED <<threadSees, result, held, troubles>>

\* __exit__ unlocks; on a connection that was lost meanwhile it raises, although
\* the batch is committed.
Leave(k) ==
    LET p == Owner(k)  good == thread[k] = "kept" /\ (Guarded => session[p]) IN
    /\ thread[k] \in {"kept", "raised"}
    /\ Ends(k, IF good THEN "saved" ELSE "failing")
    /\ guard' = IF guard = p THEN None ELSE guard
    /\ session' = [session EXCEPT ![p] = TRUE]
    /\ UNCHANGED <<threadSees, result, held, troubles>>

-----------------------------------------------------------------------------
(* Troubles *)

\* The session of the collect slot is lost; a probe notices it later (Cancel).
SlotLost(p) ==
    /\ p \in held /\ Spend
    /\ held' = held \ {p}
    /\ UNCHANGED <<rows, guard, session, pc, cycle, runOf, task, thread>>

\* The connection of the guard is lost, and the lock with it (or cannot be made).
GuardLost(p) ==
    /\ Guarded /\ session[p] /\ Spend
    /\ session' = [session EXCEPT ![p] = FALSE]
    /\ guard' = IF guard = p THEN None ELSE guard
    /\ UNCHANGED <<rows, held, pc, cycle, runOf, task, thread>>

\* The process dies, its threads and sessions with it.
Crash(p) ==
    /\ cycle[p] > 0 /\ Spend
    /\ pc' = [pc EXCEPT ![p] = "idle"]
    /\ task' = [a \in Accounts |-> IF PlatformOf[a] = p THEN "none" ELSE task[a]]
    /\ thread' = [k \in Threads |-> IF Owner(k) = p THEN "none" ELSE thread[k]]
    /\ held' = held \ {p}
    /\ guard' = IF guard = p THEN None ELSE guard
    /\ session' = [session EXCEPT ![p] = TRUE]
    /\ UNCHANGED <<rows, cycle, runOf>>

-----------------------------------------------------------------------------
Task(a) == Begin(a) \/ Saved(a) \/ RecordFailure(a)
Thread(k) == Enter(k) \/ Acquire(k) \/ Refused(k) \/ Commit(k) \/ Rollback(k) \/ Leave(k)
EndCycle(p) == Finish(p) \/ Fail(p)

Next ==
    \/ \E p \in Platforms, r \in Cycles : \E S \in SUBSET AccountsOf(p) : Start(p, r, S)
    \/ \E a \in Accounts : Task(a) \/ Collected(a) \/ CollectFails(a)
    \/ \E k \in Threads : Thread(k)
    \/ \E p \in Platforms : Cancel(p) \/ EndCycle(p) \/ SlotLost(p) \/ GuardLost(p) \/ Crash(p)

Spec == Init /\ [][Next]_vars

\* A provider may never answer; everything else goes on: the event loop runs its
\* tasks, statements and waits for locks have timeouts, a cycle has a deadline.
GoesOn ==
    \/ \E a \in Accounts : Task(a)
    \/ \E k \in Threads : Thread(k)
    \/ \E p \in Platforms : Cancel(p) \/ EndCycle(p)

FairSpec == Spec /\ WF_vars(GoesOn)

-----------------------------------------------------------------------------
(* What cycles owe each other *)

\* With the guard, of two threads that write at the same time anywhere on the host,
\* those of cycles long cancelled included, one has lost the guard's connection.
WritesApart ==
    Guarded => \A j, k \in Threads :
      thread[j] = "writing" /\ thread[k] = "writing" /\ j # k
        => ~session[Owner(j)] \/ ~session[Owner(k)]

\* The lock is held only while a thread of its holder is past pg_advisory_lock:
\* every way out of the write gives it back.
GuardReturned ==
    guard # None => \E k \in Threads : Owner(k) = guard /\ thread[k] \in {"writing", "kept", "raised"}

\* A run that counts as a success has the batch of every account it was offered,
\* however often it was resumed and whoever wrote them.
HonestSuccess ==
    \A p \in Platforms, r \in Cycles : run[<<p, r>>] = "succeeded" =>
      \A a \in offered[<<p, r>>] : result[<<a, r>>] = "succeeded"

\* The run is closed and no cycle works for it.
Settled(p, r) == run[<<p, r>>] \in Closed /\ (pc[p] = "idle" \/ Current(p) # r)

\* Once its cycle is over a closed run stays as it is; a result of it changes only
\* by the commit of a thread that outlived that cycle.
KeepsClosed ==
    \A p \in Platforms, r \in Cycles : Settled(p, r) =>
      /\ run'[<<p, r>>] = run[<<p, r>>]
      /\ \A a \in AccountsOf(p) :
           \/ result'[<<a, r>>] = result[<<a, r>>]
           \/ /\ result'[<<a, r>>] = "succeeded"
              /\ \E n \in Cycles : runOf[<<p, n>>] = r /\ thread[<<a, n>>] = "writing"
ClosedRuns == [][KeepsClosed]_vars

\* collection_run is a ledger here too, where cycles are cut short: a platform's runs
\* follow one another, and a cycle that fails after finish_run opens nothing again.
OpenRuns == [p \in Platforms |-> {r \in Cycles : run[<<p, r>>] = "running"}]
EndedRuns == [p \in Platforms |-> {r \in Cycles : run[<<p, r>>] \in Closed}]
Ledger == INSTANCE RunLedger WITH Lines <- Platforms, Times <- Cycles,
                                  open <- OpenRuns, ended <- EndedRuns
ImplementsLedger == Ledger!LedgerSpec

\* held is the pool of slots that Phase implements.
InTurn == {p \in Platforms : pc[p] # "idle"}
Pool == INSTANCE SlotPool WITH Size <- Slots, turn <- InTurn
UsesPool == Pool!PoolSpec

\* With one slot the platforms write one at a time.
OnePlatformWrites ==
    \A j, k \in Threads :
      thread[j] = "writing" /\ thread[k] = "writing" => Owner(j) = Owner(k)

\* No cycle, thread or lock of the platform is left.
AtRest(p) ==
    /\ pc[p] = "idle" /\ p \notin held /\ guard # p
    /\ \A k \in Threads : Owner(k) = p => thread[k] = "none"

\* Although a provider may hang and a cycle is cancelled anywhere, a platform comes
\* to rest again when it is not given one cycle after another (MaxCycles).
AllEnds == \A p \in Platforms : []<>AtRest(p)

================================================================================
