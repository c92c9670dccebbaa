------------------------------- MODULE Analysis -------------------------------
(***************************************************************************)
(* The schedule of the anomaly analysis, anomaly_analysis/v2: one worker   *)
(* polls a table of posts, each with the instant its next analysis is due, *)
(* claims the most recent of those overdue, and analyses, postpones or     *)
(* freezes each.  A nightly job writes versions of the norms the analysis  *)
(* compares with; an operator runs a backfill while the worker is stopped; *)
(* measurements arrive whenever the transfer delivers them.                *)
(*                                                                         *)
(* One action is one transaction that writes, with the reads before it that *)
(* nothing can come between.  The worker may lose its database before each, *)
(* and keeps what it has in memory; or die, and lose it.  Verdicts are left *)
(* out: what matters is when a post is analysed, with which norm and on     *)
(* which measurements.  An instant of the clock is longer than the minute   *)
(* for which the worker keeps to a policy without asking for it again.      *)
(***************************************************************************)
EXTENDS Integers, FiniteSets, Sequences

CONSTANTS
    Posts,
    PublishedAt,     \* the instant each post is published
    Broken,          \* posts whose analysis always raises
    Windows,         \* values of the policy finalAnalysisDays
    EnvWindow,       \* TRACK_POST_FOR_HOURS of the environment
    SeedWindow,      \* seed_window_hours
    SeedLimit,       \* seed_limit
    Limit,           \* batch_size
    MinNew,          \* min_new_points
    Gap,             \* GAP_FACTOR steps of collection
    YoungAge,        \* from this age on the interval may be stretched
    YoungStep, OldStep, MaxStretch, StretchAfter,
    Delays,          \* retry_after: 1, 2, 4 ... up to a day
    RecheckWindow,   \* recheck_window_seconds
    Offset,          \* each post's share of that window
    Nights,          \* instants at which the nightly job may run
    Horizon,         \* bound: the clock stops here
    MaxLate,         \* bound: how late a measurement arrives
    MaxPoints,       \* bound: measurements of each post
    MaxVersions,     \* bound: versions of the norms
    MaxInterruptions \* bound: see interruptions

ASSUME AnalysisAssumption ==
    /\ IsFiniteSet(Posts)
    /\ PublishedAt \in [Posts -> Nat \ {0}]
    /\ \A p, q \in Posts : PublishedAt[p] = PublishedAt[q] => p = q
    /\ Broken \subseteq Posts
    /\ Windows \subseteq Nat \ {0} /\ EnvWindow \in Windows
    /\ {SeedWindow, SeedLimit, Limit, MinNew, YoungStep, OldStep, MaxStretch, RecheckWindow}
         \subseteq Nat \ {0}
    /\ {Gap, YoungAge, StretchAfter, MaxLate, MaxVersions, MaxInterruptions} \subseteq Nat
    /\ Horizon \in Nat \ {0}
    /\ Nights \subseteq Nat /\ MaxPoints \in [Posts -> Nat]
    /\ Delays \in Seq(Nat \ {0}) /\ Delays # <<>>
    /\ Offset \in [Posts -> Nat] /\ \A p \in Posts : Offset[p] < RecheckWindow

VARIABLES
    clock,
    policy,     \* runtime_policy 'analysis', or what the environment says
    points,     \* instants of the measurements delivered of each post
    versions,   \* anomaly_norm_version: the status of each version
    row,        \* post_anomaly_state of each post
    pc,         \* where the worker stands in run_once
    now,        \* the instant its pass began
    window,     \* the final-analysis window it works with
    norm,       \* the version it has loaded, 0 for none
    batch,      \* rows claimed and not dealt with yet
    lagging,    \* the queue lags enough to stretch the longest interval
    series,     \* the measurements it has read of posts it is to postpone
    backfill,   \* posts a backfill under way has still to analyse, and its norm
    loaded,     \* history: when norm was loaded, and whether its recheck was stored
    asked,      \* history: windows asked of the pass under way, since it began
    interruptions  \* databases lost, stops and crashes, backfills, changes of the policy

workerVars == <<pc, now, window, norm, batch, lagging, series, loaded>>
vars == <<clock, policy, points, versions, row, workerVars, backfill, asked, interruptions>>

Instants == 0..Horizon
Statuses == {"none", "accepted", "rejected", "drift_review"}

\* The columns of post_anomaly_state; known: the row is there.
Rows == [known : BOOLEAN, due : Nat, analyzed : Instants, last : Instants,
         norm : 0..MaxVersions, attempts : 0..Len(Delays), frozen : BOOLEAN]

\* 0 stands for NULL; no post is published at instant 0.
Fresh(known, due) == [known |-> known, due |-> due, analyzed |-> 0, last |-> 0, norm |-> 0,
                      attempts |-> 0, frozen |-> FALSE]

NoLoad == [at |-> 0, rechecked |-> FALSE]

\* Every variable has its type.
TypeOK ==
    /\ clock \in Instants /\ now \in Instants
    /\ policy \in Windows /\ window \in Windows
    /\ points \in [Posts -> SUBSET Instants]
    /\ versions \in [1..MaxVersions -> Statuses]
    /\ row \in [Posts -> Rows]
    /\ pc \in {"down", "idle", "norms", "recheck", "claim", "write", "postpone"}
    /\ norm \in 0..MaxVersions
    /\ batch \subseteq Posts
    /\ lagging \in BOOLEAN
    /\ series \in [Posts -> SUBSET Instants]
    /\ backfill \in [todo : SUBSET Posts, norm : 0..MaxVersions]
    /\ loaded \in [at : Instants, rechecked : BOOLEAN]
    /\ asked \subseteq Windows
    /\ interruptions \in 0..MaxInterruptions

Init ==
    /\ clock = 1
    /\ policy \in Windows
    /\ points = [p \in Posts |-> {}]
    /\ versions = [v \in 1..MaxVersions |-> "none"]
    /\ row = [p \in Posts |-> Fresh(FALSE, 0)]
    /\ pc = "down"
    /\ now = 0
    /\ window = EnvWindow
    /\ norm = 0
    /\ batch = {}
    /\ lagging = FALSE
    /\ series = [p \in Posts |-> {}]
    /\ backfill = [todo |-> {}, norm |-> 0]
    /\ loaded = NoLoad
    /\ asked = {}
    /\ interruptions = 0

-----------------------------------------------------------------------------
(* The schedule *)

Greatest(S) == CHOOSE n \in S : \A k \in S : k <= n
Smallest(S) == CHOOSE n \in S : \A k \in S : n <= k

Age(p, at) == at - PublishedAt[p]

\* interval(): only the interval of the oldest band is stretched.
Steps(p, at, lag) ==
    IF Age(p, at) < YoungAge THEN {YoungStep}
    ELSE IF lag THEN {OldStep * s : s \in 1..MaxStretch} ELSE {OldStep}

\* Collection has ended: one analysis of the whole series, then the row is frozen.
Final(p, at, w) == Age(p, at) >= w

\* Measurements resumed after a gap: the first new one is far from the last analysed.
NewPoints(p, seen) == {t \in seen : t > row[p].last}
Resumed(p, seen) == /\ row[p].last # 0 /\ NewPoints(p, seen) # {}
                    /\ Smallest(NewPoints(p, seen)) - row[p].last > Gap

\* Mutant of NormRecheck: a row is left to wait for new measurements.
NormRecheckNever(p) == FALSE

NormRecheck(p) == norm # 0 /\ row[p].norm # norm

\* plan(): whether a claimed post is analysed now, given the measurements seen.
Analyze(p, seen) ==
    \/ Final(p, now, window)
    \/ row[p].analyzed = 0
    \/ Resumed(p, seen)
    \/ NormRecheck(p)
    \/ Cardinality(NewPoints(p, seen)) >= MinNew

\* What plan() says of a post it postpones: a silent one is probed earlier.
WaitUntil(p, seen, lag) ==
    LET stale == now - Greatest(seen) > Gap IN
    UNION {IF stale THEN {now + d : d \in 1..s} ELSE {now + s} : s \in Steps(p, now, lag)}

\* postpone: the rows of S come due as plan() said of the measurements seen.
PostponeTo(S, seen, lag) ==
    \E due \in [S -> UNION {WaitUntil(p, seen[p], lag) : p \in S}] :
      /\ \A p \in S : due[p] \in WaitUntil(p, seen[p], lag)
      /\ row' = [p \in Posts |-> IF p \in S THEN [row[p] EXCEPT !.due = due[p]] ELSE row[p]]

\* Mutant of NextDue: the next instant is counted from the one that was missed.
NextDueFromMissed(p, at, w, lag) ==
    IF Final(p, at, w) THEN {at} ELSE {row[p].due + s : s \in Steps(p, at, lag)}

\* Always counted from the analysis, not from the instant that was missed.
NextDue(p, at, w, lag) ==
    IF Final(p, at, w) THEN {at} ELSE {at + s : s \in Steps(p, at, lag)}

\* Mutant of Retry: a post that failed is due again at once.
RetryAtOnce(n) == 0

\* retry_after: the delay doubles with every failure, up to a day.
Retry(n) == Delays[IF n < Len(Delays) THEN n + 1 ELSE Len(Delays)]

\* The row after a successful analysis at instant at, of the measurements seen.
Analyzed(p, at, w, seen, version, due) ==
    [known |-> TRUE, due |-> due, analyzed |-> at, last |-> Greatest(seen),
     norm |-> version, attempts |-> 0, frozen |-> Final(p, at, w)]

\* Mutant of Failed: the delay is counted backwards.
FailedBackwards(p) == [row[p] EXCEPT !.due = now - Retry(row[p].attempts),
                                     !.attempts = Smallest({@ + 1, Len(Delays)})]

\* A failure keeps everything but the due instant and the count (past the longest
\* delay the count makes no difference).
Failed(p) == [row[p] EXCEPT !.due = now + Retry(row[p].attempts),
                            !.attempts = Smallest({@ + 1, Len(Delays)})]

\* ORDER BY published_at DESC LIMIT n.
Newest(S, n) == {p \in S : Cardinality({q \in S : PublishedAt[q] > PublishedAt[p]}) < n}

Overdue == {p \in Posts : row[p].known /\ ~row[p].frozen /\ row[p].due <= now}

-----------------------------------------------------------------------------
(* The environment *)

Tick == /\ clock < Horizon
        /\ clock' = clock + 1
        /\ UNCHANGED <<policy, points, versions, row, workerVars, backfill, asked, interruptions>>

\* A measurement made at instant t arrives, at once or much later.
Arrive(p, t) ==
    /\ PublishedAt[p] <= t /\ t \in (clock - MaxLate)..clock
    /\ t \notin points[p]
    /\ Cardinality(points[p]) < MaxPoints[p]
    /\ points' = [points EXCEPT ![p] = @ \cup {t}]
    /\ UNCHANGED <<clock, policy, versions, row, workerVars, backfill, asked, interruptions>>

\* An administrator sets, or clears, the window of the final analysis.
SetPolicy(w) ==
    /\ w \in Windows \ {policy} /\ interruptions < MaxInterruptions
    /\ interruptions' = interruptions + 1
    /\ policy' = w
    /\ asked' = IF asked = {} THEN {} ELSE asked \cup {w}
    /\ UNCHANGED <<clock, points, versions, row, workerVars, backfill>>

\* The nightly job: a new version is accepted, rejected by the reference, or
\* held for review of its drift.
WriteNormVersion(v, status) ==
    /\ v \in 1..MaxVersions /\ versions[v] = "none" /\ clock \in Nights
    /\ \A u \in 1..(v - 1) : versions[u] # "none"
    /\ status \in Statuses \ {"none"}
    /\ versions' = [versions EXCEPT ![v] = status]
    /\ UNCHANGED <<clock, policy, points, row, workerVars, backfill, asked, interruptions>>

\* A version held for review is accepted by hand, perhaps after a later one.
AcceptReviewed(v) ==
    /\ v \in 1..MaxVersions /\ versions[v] = "drift_review"
    /\ versions' = [versions EXCEPT ![v] = "accepted"]
    /\ UNCHANGED <<clock, policy, points, row, workerVars, backfill, asked, interruptions>>

\* Mutant of Latest: the last version counts, whatever its status.
LatestWritten == Greatest({0} \cup {v \in 1..MaxVersions : versions[v] # "none"})

\* latest_accepted_norm_version.
Latest == Greatest({0} \cup {v \in 1..MaxVersions : versions[v] = "accepted"})

-----------------------------------------------------------------------------
(* The worker: run_once, one action per transaction *)

external == <<clock, policy, points, versions, backfill>>

\* What run_once keeps for one pass is forgotten when the pass is over.
PassOver ==
    /\ now' = 0 /\ window' = EnvWindow /\ batch' = {} /\ lagging' = FALSE
    /\ series' = [p \in Posts |-> {}] /\ asked' = {}

\* The process starts without norms.
Up ==
    /\ pc = "down" /\ backfill.todo = {}
    /\ pc' = "idle"
    /\ UNCHANGED <<external, row, now, window, norm, batch, lagging, series, loaded, asked,
                   interruptions>>

\* Mutant of PassWindow: the panel may only shorten the environment's window.
PassWindowShorter(heard) == IF heard THEN Smallest({policy, EnvWindow}) ELSE EnvWindow

\* _refresh_policy: the panel's window; a read that fails answers like an empty policy.
PassWindow(heard) == IF heard THEN policy ELSE EnvWindow

\* A pass begins: the policy is read, or cannot be, and the newest posts without a
\* row get one, due at once.
Start(heard) ==
    LET w   == PassWindow(heard)
        new == Newest({p \in Posts : /\ ~row[p].known
                                     /\ 0 <= Age(p, clock)
                                     /\ Age(p, clock) <= Greatest({SeedWindow, w})}, SeedLimit) IN
    /\ pc = "idle"
    /\ IF heard THEN UNCHANGED interruptions
       ELSE /\ EnvWindow # policy
            /\ interruptions < MaxInterruptions /\ interruptions' = interruptions + 1
    /\ pc' = "norms"
    /\ now' = clock /\ window' = w
    /\ asked' = {policy} \cup (IF heard THEN {} ELSE {EnvWindow})
    /\ row' = [p \in Posts |-> IF p \in new THEN Fresh(TRUE, clock) ELSE row[p]]
    /\ UNCHANGED <<external, norm, batch, lagging, series, loaded>>

\* A version newly accepted is loaded; the worker has it from here on.
LoadNorm ==
    /\ pc = "norms"
    /\ IF Latest \in {0, norm}
       THEN pc' = "claim" /\ UNCHANGED <<norm, loaded>>
       ELSE /\ pc' = "recheck"
            /\ norm' = Latest
            /\ loaded' = [at |-> now, rechecked |-> FALSE]
    /\ UNCHANGED <<external, row, now, window, batch, lagging, series, asked, interruptions>>

\* norm_version_id IS DISTINCT FROM the version loaded.
Outdated(p) == row[p].known /\ ~row[p].frozen /\ row[p].norm # norm

\* schedule_norm_recheck: each row comes due within the window, at its own offset.
Recheck ==
    /\ pc = "recheck"
    /\ pc' = "claim"
    /\ row' = [p \in Posts |->
                  IF Outdated(p) THEN [row[p] EXCEPT !.due = Smallest({@, now + Offset[p]})]
                  ELSE row[p]]
    /\ loaded' = [loaded EXCEPT !.rechecked = TRUE]
    /\ UNCHANGED <<external, now, window, norm, batch, lagging, series, asked, interruptions>>

\* queue_state and claim_due take the newest of the rows overdue; of these,
\* _postpone_waiting postpones at once those whose progress says they may wait.
Claim ==
    LET claimed == Newest(Overdue, Limit)
        lag     == \E p \in Overdue : now - row[p].due > StretchAfter
        waiting == {p \in claimed : /\ row[p].analyzed # 0 /\ ~NormRecheck(p)
                                    /\ ~Analyze(p, points[p])} IN
    /\ pc = "claim"
    /\ PostponeTo(waiting, points, lag)
    /\ IF claimed = waiting
       THEN pc' = "idle" /\ PassOver
       ELSE /\ pc' = "write"
            /\ batch' = claimed \ waiting
            /\ lagging' = lag
            /\ UNCHANGED <<now, window, series, asked>>
    /\ UNCHANGED <<external, norm, loaded, interruptions>>

Unreadable(p) == points[p] = {} \/ p \in Broken

\* The series are read, and write_states stores the verdicts and the failures in
\* one transaction: a broken post does not hold the rest.  Posts that may wait
\* after all are left for the transaction that postpones.
Write ==
    LET done   == {p \in batch : ~Unreadable(p) /\ Analyze(p, points[p])}
        failed == {p \in batch : Unreadable(p)}
        left   == batch \ (done \cup failed) IN
    /\ pc = "write"
    /\ \E due \in [done -> UNION {NextDue(p, now, window, lagging) : p \in done}] :
          /\ \A p \in done : due[p] \in NextDue(p, now, window, lagging)
          /\ row' = [p \in Posts |->
                        IF p \in done THEN Analyzed(p, now, window, points[p], norm, due[p])
                        ELSE IF p \in failed THEN Failed(p) ELSE row[p]]
    /\ IF left = {} THEN pc' = "idle" /\ PassOver
       ELSE /\ pc' = "postpone"
            /\ batch' = left
            /\ series' = [p \in Posts |-> IF p \in left THEN points[p] ELSE {}]
            /\ UNCHANGED <<now, window, lagging, asked>>
    /\ UNCHANGED <<external, norm, loaded, interruptions>>

Postpone ==
    /\ pc = "postpone"
    /\ PostponeTo(batch, series, lagging)
    /\ pc' = "idle" /\ PassOver
    /\ UNCHANGED <<external, norm, loaded, interruptions>>

\* The database is lost in the middle of a pass: the next one begins afresh,
\* with the norms already in memory.
Trouble ==
    /\ pc \notin {"down", "idle"} /\ interruptions < MaxInterruptions
    /\ interruptions' = interruptions + 1
    /\ pc' = "idle" /\ PassOver
    /\ UNCHANGED <<external, row, norm, loaded>>

\* The process dies or is stopped.
Down ==
    /\ pc # "down" /\ interruptions < MaxInterruptions
    /\ interruptions' = interruptions + 1
    /\ pc' = "down" /\ PassOver
    /\ norm' = 0 /\ loaded' = NoLoad
    /\ UNCHANGED <<external, row>>

-----------------------------------------------------------------------------
(* The backfill, run by an operator while the worker is stopped *)

backfillSees == <<clock, policy, points, versions, workerVars, asked>>

StartBackfill ==
    /\ pc = "down" /\ backfill.todo = {} /\ interruptions < MaxInterruptions
    /\ interruptions' = interruptions + 1
    /\ backfill' = [todo |-> {p \in Posts : PublishedAt[p] <= clock}, norm |-> Latest]
    /\ UNCHANGED <<backfillSees, row>>

\* Every post is analysed, frozen or not, by the window of the environment; the
\* first account that has a failure ends the run.
BackfillPost(p) ==
    /\ p \in backfill.todo
    /\ IF points[p] = {} \/ p \in Broken
       THEN backfill' = [todo |-> {}, norm |-> 0] /\ UNCHANGED row
       ELSE /\ backfill' = [backfill EXCEPT !.todo = @ \ {p}]
            /\ \E due \in NextDue(p, clock, EnvWindow, FALSE) :
                 row' = [row EXCEPT ![p] =
                           Analyzed(p, clock, EnvWindow, points[p], backfill.norm, due)]
    /\ UNCHANGED <<backfillSees, interruptions>>

StopBackfill ==
    /\ backfill.todo # {}
    /\ backfill' = [todo |-> {}, norm |-> 0]
    /\ UNCHANGED <<backfillSees, row, interruptions>>

-----------------------------------------------------------------------------
Pass == (\E heard \in BOOLEAN : Start(heard)) \/ LoadNorm \/ Recheck \/ Claim \/ Write \/ Postpone

Next ==
    \/ Tick \/ Up \/ Pass \/ Trouble \/ Down
    \/ StartBackfill \/ StopBackfill \/ \E p \in Posts : BackfillPost(p)
    \/ \E p \in Posts, t \in Instants : Arrive(p, t)
    \/ \E w \in Windows : SetPolicy(w)
    \/ \E v \in 1..MaxVersions, status \in Statuses : WriteNormVersion(v, status)
    \/ \E v \in 1..MaxVersions : AcceptReviewed(v)

Spec == Init /\ [][Next]_vars

\* Time passes; a service that stopped is started again; a pass under way goes
\* on; a backfill begun goes on with the posts it has.
FairSpec == /\ Spec
            /\ WF_vars(Tick) /\ WF_vars(Up) /\ WF_vars(Pass)
            /\ WF_vars(\E p \in Posts : BackfillPost(p))

-----------------------------------------------------------------------------
(* What the analysis owes *)

\* No post is ever analysed with norms that the reference or the drift check has
\* not let through: latest_accepted_norm_version, read while the job writes.
NormsSound ==
    /\ \A p \in Posts : row[p].norm # 0 => versions[row[p].norm] = "accepted"
    /\ norm # 0 => versions[norm] = "accepted"

\* Once the recheck of a newly loaded version is stored, every unfrozen row that
\* was analysed with another one, and has not failed since, comes due within
\* the window of the recheck, whatever its own interval and however often it was
\* claimed meanwhile: schedule_norm_recheck and the order of plan()'s cases.
RecheckInTime ==
    pc # "down" /\ loaded.rechecked =>
      \A p \in Posts :
        row[p].norm # norm /\ ~row[p].frozen /\ row[p].analyzed # 0 /\ row[p].attempts = 0
          => row[p].due < loaded.at + RecheckWindow

\* The inductive invariant: what the worker's memory says in each state of a pass.
Memory ==
    /\ backfill.todo # {} => pc = "down"
    /\ backfill.norm # 0 => versions[backfill.norm] = "accepted"
    /\ loaded.rechecked => norm # 0
    /\ pc = "down" => ~loaded.rechecked
    /\ pc = "recheck" => loaded.at = now /\ norm # 0
    /\ pc = "postpone" => \A p \in batch : ~NormRecheck(p)
    /\ \A p \in Posts : row[p].analyzed # 0 => row[p].known

AnalysisInv == TypeOK /\ NormsSound /\ Memory /\ RecheckInTime

\* However many passes were missed, the worker analyses a post once and then not
\* before a whole interval has gone by, unless it was analysed with other norms.
CatchesUpOnce ==
    [][\A p \in Posts :
         pc = "write" /\ row'[p].analyzed # row[p].analyzed /\ row[p].analyzed # 0
           => \/ \E s \in Steps(p, row[p].analyzed, FALSE) : now >= row[p].analyzed + s
              \/ row[p].norm # norm]_vars

\* The worker takes a post out of the analysis for good only past a window that the
\* panel has had since its pass began; past the environment's as well, when that pass
\* could not read the policy.  A backfill goes by the environment's.
FrozenInTime ==
    [][\A p \in Posts : row'[p].frozen /\ ~row[p].frozen
         => \E w \in asked \cup (IF pc = "down" THEN {EnvWindow} ELSE {}) :
               Age(p, clock) >= w]_vars

\* The longest a row is left alone.
Longest == Greatest({YoungStep, OldStep * MaxStretch} \cup {Delays[i] : i \in DOMAIN Delays})

\* Every post with measurements, whose analysis can succeed, is analysed for the
\* last time and frozen in the end, whatever is claimed before it, postponed,
\* interrupted or re-seeded meanwhile (the clock leaves it the time to come due).
EventuallyFinal ==
    \A p \in Posts \ Broken :
      (row[p].known /\ points[p] # {} /\ clock + Longest <= Horizon) ~> row[p].frozen

==============================================================================
