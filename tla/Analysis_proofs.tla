--------------------------- MODULE Analysis_proofs ---------------------------
(***************************************************************************)
(* Proofs about the schedule of the analysis: its types, the norms in use, *)
(* and the deadline of a recheck, for every number of posts, every table   *)
(* of intervals and every order of the environment's steps.                *)
(***************************************************************************)
EXTENDS Analysis, TLAPS, WellFoundedInduction

-----------------------------------------------------------------------------
(* Greatest and smallest elements *)

\* Every set of naturals that is not empty has a smallest element.
LEMMA SmallestExists ==
  ASSUME NEW S, S \subseteq Nat, S # {}
  PROVE  Smallest(S) \in S /\ \A k \in S : Smallest(S) <= k
<1> DEFINE R == OpToRel(<, Nat)
<1>1. IsWellFoundedOn(R, Nat)
  BY NatLessThanWellFounded
<1>2. PICK n \in S : \A k \in S : ~(<<k, n>> \in R)
  <2> HIDE DEF R
  <2> QED BY <1>1, WFMin
<1>3. \A k \in S : <<k, n>> \in R <=> k < n
  BY DEF OpToRel
<1>4. \A k \in S : ~(k < n)
  <2> HIDE DEF R
  <2> QED BY <1>2, <1>3
<1>5. \A k \in S : n <= k
  BY <1>4
<1> QED
  BY <1>5 DEF Smallest

\* Every set of naturals with a bound that is not empty has a greatest element.
LEMMA GreatestExists ==
  ASSUME NEW N \in Nat, NEW S, S \subseteq 0..N, S # {}
  PROVE  Greatest(S) \in S /\ \A k \in S : k <= Greatest(S)
<1> DEFINE T == {N - k : k \in S}
<1>1. \A k \in S : k \in Int /\ N - k \in Nat
  OBVIOUS
<1>2. T \subseteq Nat
  BY <1>1
<1>3. \E k \in S : N - k \in T
  OBVIOUS
<1>4. PICK t \in T : \A k \in T : t <= k
  <2> HIDE DEF T
  <2> QED BY <1>2, <1>3, SmallestExists
<1>5. PICK n \in S : t = N - n
  OBVIOUS
<1>6. \A k \in S : N - k \in T
  OBVIOUS
<1>7. \A k \in S : k <= n
  <2> HIDE DEF T
  <2> QED BY <1>1, <1>4, <1>5, <1>6
<1> QED
  BY <1>7 DEF Greatest

\* Of two naturals the smaller one.
LEMMA SmallestOfTwo ==
  ASSUME NEW m \in Nat, NEW n \in Nat
  PROVE  /\ Smallest({m, n}) \in {m, n}
         /\ Smallest({m, n}) <= m /\ Smallest({m, n}) <= n
  BY SmallestExists

-----------------------------------------------------------------------------
(* Types of the operators *)

\* The latest accepted version is an accepted version, or 0.
LEMMA LatestAccepted ==
  ASSUME TypeOK
  PROVE  Latest \in 0..MaxVersions /\ (Latest # 0 => versions[Latest] = "accepted")
<1> DEFINE S == {0} \cup {v \in 1..MaxVersions : versions[v] = "accepted"}
<1>1. MaxVersions \in Nat
  BY AnalysisAssumption
<1>2. S \subseteq 0..MaxVersions /\ S # {}
  BY <1>1
<1>3. Latest \in S
  <2>1. Latest = Greatest(S)
    BY DEF Latest
  <2> HIDE DEF S
  <2> QED BY <1>1, <1>2, <2>1, GreatestExists
<1> QED
  BY <1>1, <1>3

\* What holds of the constants, one by one.
LEMMA Constants ==
  /\ {SeedWindow, SeedLimit, Limit, MinNew, YoungStep, OldStep, MaxStretch, RecheckWindow} \subseteq Nat
  /\ YoungStep \in Nat /\ OldStep \in Nat /\ MaxStretch \in Nat /\ RecheckWindow \in Nat
  /\ Horizon \in Nat \ {0} /\ MaxVersions \in Nat /\ MaxInterruptions \in Nat
  /\ \A p \in Posts : PublishedAt[p] \in Nat /\ Offset[p] \in Nat /\ Offset[p] < RecheckWindow
  /\ Windows \subseteq Nat /\ EnvWindow \in Windows
  /\ Len(Delays) \in Nat \ {0}
  /\ \A i \in 1..Len(Delays) : Delays[i] \in Nat
<1>1. Delays \in Seq(Nat \ {0}) /\ Delays # <<>>
  BY AnalysisAssumption
<1>2. Len(Delays) \in Nat \ {0} /\ \A i \in 1..Len(Delays) : Delays[i] \in Nat
  BY <1>1
<1>3. {SeedWindow, SeedLimit, Limit, MinNew, YoungStep, OldStep, MaxStretch, RecheckWindow} \subseteq Nat
  BY AnalysisAssumption
<1>4. \A p \in Posts : PublishedAt[p] \in Nat /\ Offset[p] \in Nat /\ Offset[p] < RecheckWindow
  BY AnalysisAssumption
<1>5. Horizon \in Nat \ {0} /\ MaxVersions \in Nat /\ MaxInterruptions \in Nat
  BY AnalysisAssumption
<1>6. Windows \subseteq Nat /\ EnvWindow \in Windows
  BY AnalysisAssumption
<1> QED
  BY <1>2, <1>3, <1>4, <1>5, <1>6

\* Intervals are naturals.
LEMMA StepsAreNat ==
  ASSUME NEW p, NEW at, NEW lag, NEW s \in Steps(p, at, lag)
  PROVE  s \in Nat
<1>1. \A k \in 1..MaxStretch : OldStep * k \in Nat
  BY Constants
<1> QED
  BY <1>1, Constants DEF Steps

\* A post that waits comes due at an instant, a natural.
LEMMA WaitUntilType ==
  ASSUME TypeOK, NEW p, NEW seen, NEW lag, NEW due \in WaitUntil(p, seen, lag)
  PROVE  due \in Nat /\ now <= due
<1>1. PICK s \in Steps(p, now, lag) : due = now + s \/ \E d \in 1..s : due = now + d
  BY DEF WaitUntil
<1>2. s \in Nat /\ now \in Nat
  BY StepsAreNat, Constants DEF TypeOK, Instants
<1> QED
  BY <1>1, <1>2

\* So does a post just analysed.
LEMMA NextDueType ==
  ASSUME NEW p, NEW at \in Nat, NEW w, NEW lag, NEW due \in NextDue(p, at, w, lag)
  PROVE  due \in Nat
  BY StepsAreNat DEF NextDue

\* The row after an analysis.
LEMMA AnalyzedType ==
  ASSUME NEW p \in Posts, NEW at \in Instants, NEW w \in Windows, NEW seen, seen \subseteq Instants,
         seen # {}, NEW v \in 0..MaxVersions, NEW due \in Nat
  PROVE  Analyzed(p, at, w, seen, v, due) \in Rows
<1>1. Greatest(seen) \in Instants
  BY Constants, GreatestExists DEF Instants
<1>2. 0 \in 0..Len(Delays)
  BY Constants
<1>3. Final(p, at, w) \in BOOLEAN
  BY DEF Final
<1> QED
  BY <1>1, <1>2, <1>3 DEF Analyzed, Rows

\* The row after a failure: it counts as a failed one.
LEMMA FailedType ==
  ASSUME TypeOK, NEW p \in Posts
  PROVE  /\ Failed(p) \in Rows
         /\ Failed(p).attempts # 0
         /\ Failed(p).norm = row[p].norm
         /\ Failed(p).analyzed = row[p].analyzed /\ Failed(p).known = row[p].known
         /\ Failed(p).frozen = row[p].frozen /\ now <= Failed(p).due
<1>1. row[p] \in Rows
  BY DEF TypeOK
<1> DEFINE a == row[p].attempts
<1>2. a \in 0..Len(Delays) /\ now \in Nat
  BY <1>1, Constants DEF Rows, TypeOK, Instants
<1>3. Retry(a) \in Nat
  BY <1>2, Constants DEF Retry
<1>4. Smallest({a + 1, Len(Delays)}) \in 1..Len(Delays)
  <2>1. a + 1 \in Nat /\ Len(Delays) \in Nat
    BY <1>2, Constants
  <2>2. Smallest({a + 1, Len(Delays)}) \in {a + 1, Len(Delays)} /\ Smallest({a + 1, Len(Delays)}) <= Len(Delays)
    BY <2>1, SmallestOfTwo
  <2> QED BY <1>2, <2>2, Constants
<1> HIDE DEF a
<1>5. now + Retry(a) \in Nat /\ now <= now + Retry(a)
  BY <1>2, <1>3
<1>6. Failed(p) = [row[p] EXCEPT !.due = now + Retry(a), !.attempts = Smallest({a + 1, Len(Delays)})]
  BY DEF Failed, a
<1>7. Smallest({a + 1, Len(Delays)}) \in 0..Len(Delays) /\ Smallest({a + 1, Len(Delays)}) # 0
  BY <1>4
<1> DEFINE d == now + Retry(a)
           n == Smallest({a + 1, Len(Delays)})
           r == row[p]
<1>8. Failed(p) = [r EXCEPT !.due = d, !.attempts = n]
  BY <1>6
<1>9. d \in Nat /\ n \in 0..Len(Delays) /\ n # 0 /\ r \in Rows /\ r.norm = row[p].norm
      /\ r.analyzed = row[p].analyzed /\ r.known = row[p].known
      /\ r.frozen = row[p].frozen /\ now <= d
  BY <1>1, <1>5, <1>7
<1> HIDE DEF d, n, r
<1> DEFINE q == [r EXCEPT !.due = d]
<1>10. q \in Rows /\ q.norm = r.norm /\ q.analyzed = r.analyzed /\ q.known = r.known
       /\ q.frozen = r.frozen /\ q.due = d
  BY <1>9 DEF Rows
<1>11. [r EXCEPT !.due = d, !.attempts = n] = [q EXCEPT !.attempts = n]
  OBVIOUS
<1> HIDE DEF q
<1>12. [q EXCEPT !.attempts = n] \in Rows /\ [q EXCEPT !.attempts = n].attempts = n
       /\ [q EXCEPT !.attempts = n].norm = q.norm
       /\ [q EXCEPT !.attempts = n].analyzed = q.analyzed /\ [q EXCEPT !.attempts = n].known = q.known
       /\ [q EXCEPT !.attempts = n].frozen = q.frozen /\ [q EXCEPT !.attempts = n].due = q.due
  BY <1>9, <1>10 DEF Rows
<1>13. Failed(p) = [q EXCEPT !.attempts = n]
  BY <1>8, <1>11
<1> QED
  BY <1>9, <1>10, <1>12, <1>13

-----------------------------------------------------------------------------
(* The initial states *)

\* A row of a post never analysed.
LEMMA FreshType ==
  ASSUME NEW k \in BOOLEAN, NEW due \in Nat
  PROVE  Fresh(k, due) \in Rows
<1>1. 0 \in Instants /\ 0 \in 0..MaxVersions /\ 0 \in 0..Len(Delays)
  BY Constants DEF Instants
<1> QED
  BY <1>1 DEF Fresh, Rows

\* The invariant holds at first (the clock starts at instant 1).
LEMMA InitInv ==
  ASSUME Init
  PROVE  AnalysisInv
<1>1. 0 \in Instants /\ 1 \in Instants /\ 0 \in 0..MaxVersions /\ 0 \in 0..MaxInterruptions
  BY Constants DEF Init, Instants
<1>2. row \in [Posts -> Rows]
  BY FreshType DEF Init
<1>3. backfill \in [todo : SUBSET Posts, norm : 0..MaxVersions]
      /\ loaded \in [at : Instants, rechecked : BOOLEAN]
  BY <1>1 DEF Init, NoLoad
<1>4. TypeOK
  BY <1>1, <1>2, <1>3, Constants DEF Init, TypeOK, Statuses
<1>5. NormsSound
  BY DEF Init, NormsSound, Fresh
<1>6. Memory /\ RecheckInTime
  BY DEF Init, Memory, RecheckInTime, NoLoad, Fresh
<1> QED
  BY <1>4, <1>5, <1>6 DEF AnalysisInv

-----------------------------------------------------------------------------
(* The rows after each transaction *)

\* What a step does to the row of a post, as far as the invariant goes: the row
\* is as it was, or postponed while its norm is the one in use, or due sooner,
\* or never analysed, or failed, or analysed with version v.
Kept(p)      == row'[p] = row[p]
Shifted(p)   == /\ row'[p].norm = row[p].norm /\ row'[p].attempts = row[p].attempts
                /\ row'[p].analyzed = row[p].analyzed /\ row'[p].frozen = row[p].frozen
                /\ row'[p].known = row[p].known
Unseen(p)    == row'[p].norm = 0 /\ row'[p].analyzed = 0
Erred(p)     == /\ row'[p].attempts # 0 /\ row'[p].norm = row[p].norm
                /\ row'[p].analyzed = row[p].analyzed /\ row'[p].known = row[p].known
With(p, v)   == row'[p].norm = v /\ row'[p].known

\* Postponing.
LEMMA PostponeRows ==
  ASSUME TypeOK, NEW S, S \subseteq Posts, NEW seen, NEW lag, PostponeTo(S, seen, lag)
  PROVE  /\ row' \in [Posts -> Rows]
         /\ \A p \in S : Shifted(p) /\ now <= row'[p].due
         /\ \A p \in Posts \ S : Kept(p)
<1>1. PICK due \in [S -> UNION {WaitUntil(p, seen[p], lag) : p \in S}] :
         /\ \A p \in S : due[p] \in WaitUntil(p, seen[p], lag)
         /\ row' = [p \in Posts |-> IF p \in S THEN [row[p] EXCEPT !.due = due[p]] ELSE row[p]]
  BY DEF PostponeTo
<1>2. \A p \in S : due[p] \in Nat /\ now <= due[p]
  BY <1>1, WaitUntilType
<1>3. \A p \in Posts : row[p] \in Rows
  BY DEF TypeOK
<1>4. ASSUME NEW p \in S
      PROVE  row'[p] \in Rows /\ Shifted(p) /\ now <= row'[p].due
  <2> DEFINE r == row[p]
             d == due[p]
  <2>1. row'[p] = [r EXCEPT !.due = d]
    BY <1>1
  <2>2. r \in Rows /\ d \in Nat /\ now <= d
    BY <1>2, <1>3
  <2> HIDE DEF r, d
  <2>3. /\ [r EXCEPT !.due = d] \in Rows /\ [r EXCEPT !.due = d].norm = r.norm
        /\ [r EXCEPT !.due = d].attempts = r.attempts
        /\ [r EXCEPT !.due = d].analyzed = r.analyzed /\ [r EXCEPT !.due = d].frozen = r.frozen
        /\ [r EXCEPT !.due = d].known = r.known /\ [r EXCEPT !.due = d].due = d
    BY <2>2 DEF Rows
  <2> QED
    BY <2>1, <2>2, <2>3 DEF r, Shifted
<1>5. \A p \in Posts \ S : Kept(p)
  BY <1>1 DEF Kept
<1>6. \A p \in Posts : row'[p] \in Rows
  BY <1>3, <1>4, <1>5 DEF Kept
<1>7. row' \in [Posts -> Rows]
  <2>1. row' = [p \in Posts |-> row'[p]]
    BY <1>1
  <2> QED BY <1>6, <2>1
<1> QED
  BY <1>4, <1>5, <1>7

\* The recheck of the norms: every outdated row is due within the window.
LEMMA RecheckRows ==
  ASSUME TypeOK, Recheck
  PROVE  /\ row' \in [Posts -> Rows]
         /\ \A p \in Posts : Kept(p) \/ (Shifted(p) /\ row'[p].due < now + RecheckWindow)
         /\ \A p \in Posts : Outdated(p) => row'[p].due < now + RecheckWindow
<1>1. \A p \in Posts : row[p] \in Rows
  BY DEF TypeOK
<1>2. now \in Nat
  BY Constants DEF TypeOK, Instants
<1>3. ASSUME NEW p \in Posts, Outdated(p)
      PROVE  row'[p] \in Rows /\ Shifted(p) /\ row'[p].due < now + RecheckWindow
  <2> DEFINE r == row[p]
             d == Smallest({r.due, now + Offset[p]})
  <2>1. row'[p] = [r EXCEPT !.due = d]
    BY <1>3 DEF Recheck
  <2>2. r \in Rows /\ r.due \in Nat
    BY <1>1 DEF Rows
  <2>3. Offset[p] \in Nat /\ Offset[p] < RecheckWindow /\ RecheckWindow \in Nat
    BY Constants
  <2>4. now + Offset[p] \in Nat /\ now + Offset[p] < now + RecheckWindow
    BY <1>2, <2>3
  <2>5. d \in {r.due, now + Offset[p]} /\ d <= now + Offset[p]
    BY <2>2, <2>4, SmallestOfTwo
  <2>6. d \in Nat /\ d < now + RecheckWindow
    BY <1>2, <2>2, <2>3, <2>4, <2>5
  <2> HIDE DEF r, d
  <2>7. /\ [r EXCEPT !.due = d] \in Rows /\ [r EXCEPT !.due = d].norm = r.norm
        /\ [r EXCEPT !.due = d].attempts = r.attempts /\ [r EXCEPT !.due = d].due = d
        /\ [r EXCEPT !.due = d].analyzed = r.analyzed /\ [r EXCEPT !.due = d].frozen = r.frozen
        /\ [r EXCEPT !.due = d].known = r.known
    BY <2>2, <2>6 DEF Rows
  <2> QED
    BY <2>1, <2>6, <2>7 DEF r, Shifted
<1>4. ASSUME NEW p \in Posts, ~Outdated(p)
      PROVE  Kept(p)
  BY <1>4 DEF Recheck, Kept
<1>5. \A p \in Posts : row'[p] \in Rows
  BY <1>1, <1>3, <1>4 DEF Kept
<1>6. row' \in [Posts -> Rows]
  <2>1. row' = [p \in Posts |-> row'[p]]
    BY DEF Recheck
  <2> QED BY <1>5, <2>1
<1> QED
  BY <1>3, <1>4, <1>6

\* The verdicts and the failures of a batch.
LEMMA WriteRows ==
  ASSUME TypeOK, Write
  PROVE  /\ row' \in [Posts -> Rows]
         /\ \A p \in Posts : Kept(p) \/ Erred(p) \/ With(p, norm)
<1> DEFINE done == {p \in batch : ~Unreadable(p) /\ Analyze(p, points[p])}
           failed == {p \in batch : Unreadable(p)}
<1>1. PICK due \in [done -> UNION {NextDue(p, now, window, lagging) : p \in done}] :
         /\ \A p \in done : due[p] \in NextDue(p, now, window, lagging)
         /\ row' = [p \in Posts |->
                      IF p \in done THEN Analyzed(p, now, window, points[p], norm, due[p])
                      ELSE IF p \in failed THEN Failed(p) ELSE row[p]]
  BY DEF Write
<1>2. now \in Instants /\ now \in Nat /\ window \in Windows /\ norm \in 0..MaxVersions
  BY Constants DEF TypeOK, Instants
<1>3. ASSUME NEW p \in Posts, p \in done
      PROVE  row'[p] \in Rows /\ With(p, norm)
  <2>1. row'[p] = Analyzed(p, now, window, points[p], norm, due[p])
    BY <1>1, <1>3
  <2>2. due[p] \in Nat
    BY <1>1, <1>2, <1>3, NextDueType
  <2>3. points[p] # {} /\ points[p] \subseteq Instants
    BY <1>3 DEF Unreadable, TypeOK
  <2>4. Analyzed(p, now, window, points[p], norm, due[p]) \in Rows
    BY <1>2, <2>2, <2>3, AnalyzedType
  <2> QED
    BY <2>1, <2>4 DEF With, Analyzed
<1>4. ASSUME NEW p \in Posts, p \notin done, p \in failed
      PROVE  row'[p] \in Rows /\ Erred(p)
  <2>1. row'[p] = Failed(p)
    BY <1>1, <1>4
  <2> QED
    BY <2>1, FailedType DEF Erred
<1>5. ASSUME NEW p \in Posts, p \notin done, p \notin failed
      PROVE  row'[p] \in Rows /\ Kept(p)
  <2>1. row'[p] = row[p]
    BY <1>1, <1>5
  <2> QED
    BY <2>1 DEF Kept, TypeOK
<1> HIDE DEF done, failed
<1>6. row' \in [Posts -> Rows]
  <2>1. row' = [p \in Posts |-> row'[p]]
    BY <1>1
  <2> QED BY <1>3, <1>4, <1>5, <2>1
<1> QED
  BY <1>3, <1>4, <1>5, <1>6

-----------------------------------------------------------------------------
(* Steps of the environment *)

\* Time, measurements, the policy: the rows, the norms and the worker stay.
LEMMA QuietInv ==
  ASSUME AnalysisInv, Tick \/ (\E p \in Posts, t \in Instants : Arrive(p, t)) \/ (\E w \in Windows : SetPolicy(w))
  PROVE  AnalysisInv'
<1>1. UNCHANGED <<versions, row, workerVars, backfill>>
  BY DEF Tick, Arrive, SetPolicy
<1>2. TypeOK'
  <2>1. CASE Tick
    <3>1. clock' \in Instants
      <4>1. clock \in 0..Horizon /\ Horizon \in Nat
        BY Constants DEF AnalysisInv, TypeOK, Instants
      <4>2. clock < Horizon /\ clock' = clock + 1
        BY <2>1 DEF Tick
      <4> QED BY <4>1, <4>2 DEF Instants
    <3> QED BY <1>1, <2>1, <3>1 DEF Tick, AnalysisInv, TypeOK, workerVars
  <2>2. CASE \E p \in Posts, t \in Instants : Arrive(p, t)
    BY <1>1, <2>2 DEF Arrive, AnalysisInv, TypeOK, workerVars
  <2>3. ASSUME NEW w \in Windows, SetPolicy(w)
        PROVE  TypeOK'
    <3>1. asked' \subseteq Windows
      BY <2>3 DEF SetPolicy, AnalysisInv, TypeOK
    <3>2. interruptions' \in 0..MaxInterruptions
      BY <2>3, Constants DEF SetPolicy, AnalysisInv, TypeOK
    <3> QED BY <1>1, <2>3, <3>1, <3>2 DEF SetPolicy, AnalysisInv, TypeOK, workerVars
  <2> QED BY <2>1, <2>2, <2>3
<1>3. NormsSound' /\ Memory' /\ RecheckInTime'
  BY <1>1 DEF AnalysisInv, NormsSound, Memory, RecheckInTime, NormRecheck, workerVars
<1> QED
  BY <1>2, <1>3 DEF AnalysisInv

\* The nightly job and the review: a version once accepted stays so.
LEMMA VersionsInv ==
  ASSUME AnalysisInv,
         \/ \E v \in 1..MaxVersions, status \in Statuses : WriteNormVersion(v, status)
         \/ \E v \in 1..MaxVersions : AcceptReviewed(v)
  PROVE  AnalysisInv'
<1>1. UNCHANGED <<clock, policy, points, row, workerVars, backfill, asked, interruptions>>
  BY DEF WriteNormVersion, AcceptReviewed
<1>2. versions' \in [1..MaxVersions -> Statuses]
  BY DEF WriteNormVersion, AcceptReviewed, AnalysisInv, TypeOK, Statuses
<1>3. \A v \in 1..MaxVersions : versions[v] = "accepted" => versions'[v] = "accepted"
  BY DEF WriteNormVersion, AcceptReviewed, AnalysisInv, TypeOK
<1>4. TypeOK'
  BY <1>1, <1>2 DEF AnalysisInv, TypeOK, workerVars
<1>5. \A n \in 0..MaxVersions : n # 0 => n \in 1..MaxVersions
  BY Constants
<1>6. NormsSound'
  <2>1. \A p \in Posts : row[p].norm \in 0..MaxVersions
    BY DEF AnalysisInv, TypeOK, Rows
  <2>2. norm \in 0..MaxVersions
    BY DEF AnalysisInv, TypeOK
  <2> QED BY <1>1, <1>3, <1>5, <2>1, <2>2 DEF AnalysisInv, NormsSound, workerVars
<1>7. Memory'
  <2>1. backfill.norm \in 0..MaxVersions
    BY DEF AnalysisInv, TypeOK
  <2> QED BY <1>1, <1>3, <1>5, <2>1 DEF AnalysisInv, Memory, NormRecheck, workerVars
<1>8. RecheckInTime'
  BY <1>1 DEF AnalysisInv, RecheckInTime, workerVars
<1> QED
  BY <1>4, <1>6, <1>7, <1>8 DEF AnalysisInv

-----------------------------------------------------------------------------
(* Steps of the worker *)

\* The end of a pass leaves the memory of a pass well typed.
LEMMA PassOverType ==
  ASSUME PassOver
  PROVE  /\ now' \in Instants /\ window' \in Windows /\ batch' \subseteq Posts /\ lagging' \in BOOLEAN
         /\ series' \in [Posts -> SUBSET Instants] /\ asked' \subseteq Windows
<1>1. 0 \in Instants /\ EnvWindow \in Windows
  BY Constants DEF Instants
<1>2. now' \in Instants /\ window' \in Windows /\ batch' \subseteq Posts /\ lagging' \in BOOLEAN
  BY <1>1 DEF PassOver
<1>3. series' \in [Posts -> SUBSET Instants] /\ asked' \subseteq Windows
  BY DEF PassOver
<1> QED
  BY <1>2, <1>3

\* A service started begins without a recheck to its name.
LEMMA UpInv ==
  ASSUME AnalysisInv, Up
  PROVE  AnalysisInv'
<1>1. TypeOK' /\ NormsSound'
  BY DEF AnalysisInv, TypeOK, NormsSound, Up, external
<1>2. Memory' /\ RecheckInTime'
  BY DEF AnalysisInv, Memory, RecheckInTime, Up, external
<1> QED
  BY <1>1, <1>2 DEF AnalysisInv

\* A pass begun seeds rows that have never been analysed.
LEMMA StartInv ==
  ASSUME AnalysisInv, NEW heard \in BOOLEAN, Start(heard)
  PROVE  AnalysisInv'
<1> DEFINE w == PassWindow(heard)
           new == Newest({p \in Posts : /\ ~row[p].known
                                       /\ 0 <= Age(p, clock)
                                       /\ Age(p, clock) <= Greatest({SeedWindow, w})}, SeedLimit)
<1>1. row' = [p \in Posts |-> IF p \in new THEN Fresh(TRUE, clock) ELSE row[p]]
  BY DEF Start
<1>2. clock \in Instants /\ clock \in Nat
  BY Constants DEF AnalysisInv, TypeOK, Instants
<1>0. w \in Windows /\ asked' \subseteq Windows
  BY Constants DEF PassWindow, Start, AnalysisInv, TypeOK
<1> HIDE DEF w, new
<1>3. \A p \in Posts : row'[p] = Fresh(TRUE, clock) \/ Kept(p)
  BY <1>1 DEF Kept
<1>4. row' \in [Posts -> Rows]
  <2>1. Fresh(TRUE, clock) \in Rows
    BY <1>2, FreshType
  <2> QED BY <1>1, <2>1 DEF AnalysisInv, TypeOK
<1>5. \A p \in Posts : Kept(p) \/ (row'[p].norm = 0 /\ row'[p].analyzed = 0)
  BY <1>3 DEF Fresh
<1>6. interruptions' \in 0..MaxInterruptions
  <2>1. interruptions \in 0..MaxInterruptions /\ MaxInterruptions \in Nat
    BY Constants DEF AnalysisInv, TypeOK
  <2>2. interruptions' = interruptions \/ (interruptions < MaxInterruptions /\ interruptions' = interruptions + 1)
    BY DEF Start
  <2> QED BY <2>1, <2>2
<1>7. pc = "idle" /\ pc' = "norms" /\ now' = clock /\ window' = w
      /\ UNCHANGED <<external, norm, batch, lagging, series, loaded>>
  BY DEF Start, w
<1>8. TypeOK'
  BY <1>0, <1>2, <1>4, <1>6, <1>7 DEF AnalysisInv, TypeOK, external
<1>9. NormsSound'
  BY <1>5, <1>7 DEF AnalysisInv, NormsSound, external, Kept
<1>10. Memory'
  BY <1>5, <1>7 DEF AnalysisInv, Memory, external, Kept
<1>11. RecheckInTime'
  BY <1>5, <1>7 DEF AnalysisInv, RecheckInTime, external, Kept
<1> QED
  BY <1>8, <1>9, <1>10, <1>11 DEF AnalysisInv

\* A version loaded is an accepted one, and its recheck is still to be stored.
LEMMA LoadNormInv ==
  ASSUME AnalysisInv, LoadNorm
  PROVE  AnalysisInv'
<1>1. Latest \in 0..MaxVersions /\ (Latest # 0 => versions[Latest] = "accepted")
  BY LatestAccepted DEF AnalysisInv
<1>2. pc = "norms" /\ UNCHANGED <<external, row, now, window, batch, lagging, series, asked, interruptions>>
  BY DEF LoadNorm
<1>3. \/ pc' = "claim" /\ UNCHANGED <<norm, loaded>>
      \/ /\ Latest # 0 /\ pc' = "recheck" /\ norm' = Latest
         /\ loaded' = [at |-> now, rechecked |-> FALSE]
  BY DEF LoadNorm
<1>4. TypeOK'
  <2>1. now \in Instants /\ loaded \in [at : Instants, rechecked : BOOLEAN] /\ norm \in 0..MaxVersions
    BY DEF AnalysisInv, TypeOK
  <2>2. loaded' \in [at : Instants, rechecked : BOOLEAN]
    <3>1. [at |-> now, rechecked |-> FALSE] \in [at : Instants, rechecked : BOOLEAN]
      BY <2>1
    <3> QED BY <1>3, <2>1, <3>1, Zenon
  <2>3. norm' \in 0..MaxVersions /\ pc' \in {"claim", "recheck"}
    BY <1>1, <1>3, <2>1
  <2> QED BY <1>2, <2>2, <2>3 DEF AnalysisInv, TypeOK, external
<1>5. NormsSound' /\ Memory' /\ RecheckInTime'
  BY <1>1, <1>2, <1>3 DEF AnalysisInv, NormsSound, Memory, RecheckInTime, external
<1> QED
  BY <1>4, <1>5 DEF AnalysisInv

\* The recheck stored sets the deadline.
LEMMA RecheckInv ==
  ASSUME AnalysisInv, Recheck
  PROVE  AnalysisInv'
<1>1. /\ row' \in [Posts -> Rows]
      /\ \A p \in Posts : Kept(p) \/ (Shifted(p) /\ row'[p].due < now + RecheckWindow)
      /\ \A p \in Posts : Outdated(p) => row'[p].due < now + RecheckWindow
  BY RecheckRows DEF AnalysisInv
<1>2. /\ pc = "recheck" /\ pc' = "claim" /\ loaded' = [loaded EXCEPT !.rechecked = TRUE]
      /\ UNCHANGED <<external, now, window, norm, batch, lagging, series, asked, interruptions>>
  BY DEF Recheck
<1>3. /\ loaded' \in [at : Instants, rechecked : BOOLEAN]
      /\ loaded'.at = now /\ norm # 0
  BY <1>2 DEF AnalysisInv, TypeOK, Memory
<1>4. TypeOK'
  BY <1>1, <1>2, <1>3 DEF AnalysisInv, TypeOK, external
<1>5. \A p \in Posts : /\ row'[p].norm = row[p].norm /\ row'[p].analyzed = row[p].analyzed
                       /\ row'[p].known = row[p].known /\ row'[p].frozen = row[p].frozen
  BY <1>1 DEF Kept, Shifted
<1>6. NormsSound' /\ Memory'
  BY <1>2, <1>3, <1>5 DEF AnalysisInv, NormsSound, Memory, external
<1>7. RecheckInTime'
  <2>1. \A p \in Posts : row'[p].norm # norm /\ ~row'[p].frozen /\ row'[p].analyzed # 0 => Outdated(p)
    BY <1>5 DEF AnalysisInv, Memory, Outdated
  <2> QED BY <1>1, <1>2, <1>3, <2>1 DEF RecheckInTime, external
<1> QED
  BY <1>4, <1>6, <1>7 DEF AnalysisInv

\* Where a pass stands matters to Memory and RecheckInTime only through the rows.
LEMMA RowsInv ==
  ASSUME AnalysisInv, UNCHANGED <<external, norm, loaded>>, pc # "down", pc' # "down", pc' # "recheck",
         pc' = "postpone" => \A p \in batch' : ~NormRecheck(p)',
         \A p \in Posts : \/ Kept(p)
                          \/ Erred(p)
                          \/ With(p, norm)
                          \/ Shifted(p) /\ ~NormRecheck(p)
  PROVE  NormsSound' /\ Memory' /\ RecheckInTime'
<1>1. NormsSound'
  BY DEF AnalysisInv, NormsSound, external, Kept, Erred, With, Shifted
<1>2. Memory'
  BY DEF AnalysisInv, Memory, external, Kept, Erred, With, Shifted
<1>3. ASSUME loaded.rechecked, NEW p \in Posts,
             row'[p].norm # norm, ~row'[p].frozen, row'[p].analyzed # 0, row'[p].attempts = 0
      PROVE  row'[p].due < loaded.at + RecheckWindow
  <2>1. norm # 0
    BY <1>3 DEF AnalysisInv, Memory
  <2>2. Kept(p)
    BY <1>3, <2>1 DEF Erred, With, Shifted, NormRecheck
  <2> QED
    BY <1>3, <2>2 DEF AnalysisInv, RecheckInTime, Kept
<1>4. RecheckInTime'
  BY <1>3 DEF RecheckInTime
<1> QED
  BY <1>1, <1>2, <1>4

\* Rows postponed on claiming carry the norm in use, if there is one.
LEMMA ClaimInv ==
  ASSUME AnalysisInv, Claim
  PROVE  AnalysisInv'
<1> DEFINE claimed == Newest(Overdue, Limit)
           lag     == \E p \in Overdue : now - row[p].due > StretchAfter
           waiting == {p \in claimed : /\ row[p].analyzed # 0 /\ ~NormRecheck(p)
                                      /\ ~Analyze(p, points[p])}
<1>1. claimed \subseteq Posts
  BY DEF Newest, Overdue
<1>2. waiting \subseteq Posts /\ \A p \in waiting : ~NormRecheck(p)
  BY <1>1
<1>3. /\ pc = "claim" /\ PostponeTo(waiting, points, lag)
      /\ UNCHANGED <<external, norm, loaded, interruptions>>
      /\ \/ pc' = "idle" /\ PassOver
         \/ /\ pc' = "write" /\ batch' = claimed \ waiting /\ lagging' = lag
            /\ UNCHANGED <<now, window, series, asked>>
  BY DEF Claim
<1>4. lag \in BOOLEAN
  OBVIOUS
<1> HIDE DEF claimed, lag, waiting
<1>5. /\ row' \in [Posts -> Rows]
      /\ \A p \in waiting : Shifted(p)
      /\ \A p \in Posts \ waiting : Kept(p)
  BY <1>2, <1>3, PostponeRows DEF AnalysisInv
<1>6. /\ now' \in Instants /\ window' \in Windows /\ batch' \subseteq Posts /\ lagging' \in BOOLEAN
      /\ series' \in [Posts -> SUBSET Instants] /\ asked' \subseteq Windows
  BY <1>1, <1>3, <1>4, PassOverType DEF AnalysisInv, TypeOK
<1>7. TypeOK'
  BY <1>3, <1>5, <1>6 DEF AnalysisInv, TypeOK, external
<1>8. NormsSound' /\ Memory' /\ RecheckInTime'
  BY <1>2, <1>3, <1>5, RowsInv
<1> QED
  BY <1>7, <1>8 DEF AnalysisInv

\* Rows left by the verdicts for the next transaction carry it too.
LEMMA WriteInv ==
  ASSUME AnalysisInv, Write
  PROVE  AnalysisInv'
<1> DEFINE done   == {p \in batch : ~Unreadable(p) /\ Analyze(p, points[p])}
           failed == {p \in batch : Unreadable(p)}
           left   == batch \ (done \cup failed)
<1>1. /\ row' \in [Posts -> Rows]
      /\ \A p \in Posts : Kept(p) \/ Erred(p) \/ With(p, norm)
  BY WriteRows DEF AnalysisInv
<1>2. \A p \in left : ~NormRecheck(p)
  BY DEF Analyze
<1>3. left \subseteq Posts
  BY DEF AnalysisInv, TypeOK
<1>4. /\ pc = "write" /\ UNCHANGED <<external, norm, loaded, interruptions>>
      /\ \/ pc' = "idle" /\ PassOver
         \/ /\ pc' = "postpone" /\ batch' = left
            /\ series' = [p \in Posts |-> IF p \in left THEN points[p] ELSE {}]
            /\ UNCHANGED <<now, window, lagging, asked>>
  BY DEF Write
<1>5. \A p \in left : Kept(p)
  <2>1. PICK due : row' = [p \in Posts |->
                     IF p \in done THEN Analyzed(p, now, window, points[p], norm, due[p])
                     ELSE IF p \in failed THEN Failed(p) ELSE row[p]]
    BY DEF Write
  <2> QED BY <1>3, <2>1 DEF Kept
<1> HIDE DEF done, failed, left
<1>6. /\ now' \in Instants /\ window' \in Windows /\ batch' \subseteq Posts /\ lagging' \in BOOLEAN
      /\ series' \in [Posts -> SUBSET Instants] /\ asked' \subseteq Windows
  <2>1. CASE PassOver
    BY <2>1, PassOverType
  <2>2. CASE batch' = left /\ series' = [p \in Posts |-> IF p \in left THEN points[p] ELSE {}]
             /\ UNCHANGED <<now, window, lagging, asked>>
    BY <1>3, <2>2 DEF AnalysisInv, TypeOK
  <2> QED BY <1>4, <2>1, <2>2
<1>7. TypeOK'
  BY <1>1, <1>4, <1>6 DEF AnalysisInv, TypeOK, external
<1>8. pc' = "postpone" => \A p \in batch' : ~NormRecheck(p)'
  BY <1>2, <1>4, <1>5 DEF NormRecheck, Kept, external
<1>9. NormsSound' /\ Memory' /\ RecheckInTime'
  BY <1>1, <1>4, <1>8, RowsInv
<1> QED
  BY <1>7, <1>9 DEF AnalysisInv

LEMMA PostponeInv ==
  ASSUME AnalysisInv, Postpone
  PROVE  AnalysisInv'
<1>1. /\ pc = "postpone" /\ PostponeTo(batch, series, lagging)
      /\ pc' = "idle" /\ PassOver /\ UNCHANGED <<external, norm, loaded, interruptions>>
  BY DEF Postpone
<1>2. batch \subseteq Posts /\ \A p \in batch : ~NormRecheck(p)
  BY <1>1 DEF AnalysisInv, TypeOK, Memory
<1>3. /\ row' \in [Posts -> Rows]
      /\ \A p \in batch : Shifted(p)
      /\ \A p \in Posts \ batch : Kept(p)
  BY <1>1, <1>2, PostponeRows DEF AnalysisInv
<1>4. TypeOK'
  BY <1>1, <1>3, PassOverType DEF AnalysisInv, TypeOK, external
<1>5. NormsSound' /\ Memory' /\ RecheckInTime'
  BY <1>1, <1>2, <1>3, RowsInv
<1> QED
  BY <1>4, <1>5 DEF AnalysisInv

\* A pass broken off, and a worker that dies: the rows stay.
LEMMA InterruptedInv ==
  ASSUME AnalysisInv, Trouble \/ Down
  PROVE  AnalysisInv'
<1>1. /\ PassOver /\ UNCHANGED <<external, row>> /\ pc # "down" /\ pc' \in {"idle", "down"}
      /\ interruptions < MaxInterruptions /\ interruptions' = interruptions + 1
      /\ \/ pc' # "down" /\ UNCHANGED <<norm, loaded>>
         \/ norm' = 0 /\ loaded' = NoLoad
  BY DEF Trouble, Down
<1>2. interruptions' \in 0..MaxInterruptions
  <2>1. interruptions \in 0..MaxInterruptions /\ MaxInterruptions \in Nat
    BY Constants DEF AnalysisInv, TypeOK
  <2> QED BY <1>1, <2>1
<1>3. norm' \in 0..MaxVersions /\ loaded' \in [at : Instants, rechecked : BOOLEAN]
  <2>1. 0 \in 0..MaxVersions /\ NoLoad \in [at : Instants, rechecked : BOOLEAN]
    BY Constants DEF NoLoad, Instants
  <2> QED BY <1>1, <2>1 DEF AnalysisInv, TypeOK
<1>4. TypeOK'
  BY <1>1, <1>2, <1>3, PassOverType DEF AnalysisInv, TypeOK, external
<1>5. NormsSound' /\ Memory' /\ RecheckInTime'
  BY <1>1 DEF AnalysisInv, NormsSound, Memory, RecheckInTime, NoLoad, external
<1> QED
  BY <1>4, <1>5 DEF AnalysisInv

-----------------------------------------------------------------------------
(* Steps of the backfill, and the theorems *)

\* A backfill starts with the version accepted last, or ends.
LEMMA BackfillEndsInv ==
  ASSUME AnalysisInv, StartBackfill \/ StopBackfill
  PROVE  AnalysisInv'
<1>1. Latest \in 0..MaxVersions /\ (Latest # 0 => versions[Latest] = "accepted")
  BY LatestAccepted DEF AnalysisInv
<1>2. UNCHANGED <<backfillSees, row>>
  BY DEF StartBackfill, StopBackfill
<1>3. \/ /\ backfill' = [todo |-> {p \in Posts : PublishedAt[p] <= clock}, norm |-> Latest]
         /\ pc = "down"
      \/ backfill' = [todo |-> {}, norm |-> 0]
  BY DEF StartBackfill, StopBackfill
<1>4. backfill' \in [todo : SUBSET Posts, norm : 0..MaxVersions]
  <2>1. 0 \in 0..MaxVersions
    BY Constants
  <2>2. [todo |-> {p \in Posts : PublishedAt[p] <= clock}, norm |-> Latest]
          \in [todo : SUBSET Posts, norm : 0..MaxVersions]
    BY <1>1
  <2>3. [todo |-> {}, norm |-> 0] \in [todo : SUBSET Posts, norm : 0..MaxVersions]
    BY <2>1
  <2> QED BY <1>3, <2>2, <2>3, Zenon
<1>5. interruptions' \in 0..MaxInterruptions
  <2>1. interruptions \in 0..MaxInterruptions /\ MaxInterruptions \in Nat
    BY Constants DEF AnalysisInv, TypeOK
  <2>2. interruptions' = interruptions \/ (interruptions < MaxInterruptions /\ interruptions' = interruptions + 1)
    BY DEF StartBackfill, StopBackfill
  <2> QED BY <2>1, <2>2
<1>6. TypeOK'
  BY <1>2, <1>4, <1>5 DEF AnalysisInv, TypeOK, backfillSees, workerVars
<1>7. backfill'.norm # 0 => versions[backfill'.norm] = "accepted"
  BY <1>1, <1>3
<1>8. backfill'.todo # {} => pc = "down"
  BY <1>3
<1>9. NormsSound' /\ Memory' /\ RecheckInTime'
  BY <1>2, <1>7, <1>8
     DEF AnalysisInv, NormsSound, Memory, RecheckInTime, NormRecheck, backfillSees, workerVars
<1> QED
  BY <1>6, <1>9 DEF AnalysisInv

\* A post is analysed with the version the backfill started with.
LEMMA BackfillPostInv ==
  ASSUME AnalysisInv, NEW p \in Posts, BackfillPost(p)
  PROVE  AnalysisInv'
<1>1. p \in backfill.todo /\ UNCHANGED <<backfillSees, interruptions>>
  BY DEF BackfillPost
<1>2. pc = "down" /\ ~loaded.rechecked
  BY <1>1 DEF AnalysisInv, Memory
<1>3. /\ backfill' \in [todo : SUBSET Posts, norm : 0..MaxVersions]
      /\ backfill'.norm # 0 => versions[backfill'.norm] = "accepted"
  <2>1. CASE backfill' = [todo |-> {}, norm |-> 0]
    <3>1. 0 \in 0..MaxVersions
      BY Constants
    <3> QED BY <2>1, <3>1
  <2>2. CASE backfill' = [backfill EXCEPT !.todo = @ \ {p}]
    BY <2>2 DEF AnalysisInv, TypeOK, Memory
  <2> QED BY <2>1, <2>2 DEF BackfillPost
<1>4. /\ row' \in [Posts -> Rows]
      /\ \A q \in Posts : Kept(q) \/ With(q, backfill.norm)
  <2>1. CASE UNCHANGED row
    BY <2>1 DEF AnalysisInv, TypeOK, Kept
  <2>2. CASE points[p] # {} /\ \E due \in NextDue(p, clock, EnvWindow, FALSE) :
                 row' = [row EXCEPT ![p] = Analyzed(p, clock, EnvWindow, points[p], backfill.norm, due)]
    <3>1. PICK due \in NextDue(p, clock, EnvWindow, FALSE) :
                 row' = [row EXCEPT ![p] = Analyzed(p, clock, EnvWindow, points[p], backfill.norm, due)]
      BY <2>2
    <3>2. clock \in Instants /\ clock \in Nat /\ EnvWindow \in Windows /\ backfill.norm \in 0..MaxVersions
          /\ points[p] \subseteq Instants
      BY Constants DEF AnalysisInv, TypeOK, Instants
    <3>3. due \in Nat
      BY <3>1, <3>2, NextDueType
    <3> DEFINE new == Analyzed(p, clock, EnvWindow, points[p], backfill.norm, due)
    <3>4. new \in Rows
      BY <2>2, <3>2, <3>3, AnalyzedType
    <3>5. new.norm = backfill.norm /\ new.known
      BY DEF Analyzed
    <3>6. row' = [row EXCEPT ![p] = new]
      BY <3>1
    <3> HIDE DEF new
    <3> QED BY <3>4, <3>5, <3>6 DEF AnalysisInv, TypeOK, Kept, With
  <2> QED BY <2>1, <2>2 DEF BackfillPost
<1>5. TypeOK'
  BY <1>1, <1>3, <1>4 DEF AnalysisInv, TypeOK, backfillSees, workerVars
<1>6. NormsSound'
  BY <1>1, <1>4 DEF AnalysisInv, NormsSound, Memory, backfillSees, workerVars, Kept, With
<1>7. Memory' /\ RecheckInTime'
  BY <1>1, <1>2, <1>3, <1>4 DEF AnalysisInv, Memory, RecheckInTime, backfillSees, workerVars, Kept, With
<1> QED
  BY <1>5, <1>6, <1>7 DEF AnalysisInv

\* Every step keeps the invariant.
LEMMA StepInv ==
  ASSUME AnalysisInv, [Next]_vars
  PROVE  AnalysisInv'
<1>1. CASE UNCHANGED vars
  BY <1>1 DEF AnalysisInv, TypeOK, NormsSound, Memory, RecheckInTime, NormRecheck, vars, workerVars
<1>2. CASE Next
  BY <1>2, QuietInv, VersionsInv, UpInv, StartInv, LoadNormInv, RecheckInv, ClaimInv, WriteInv,
     PostponeInv, InterruptedInv, BackfillEndsInv, BackfillPostInv
     DEF Next, Pass
<1> QED
  BY <1>1, <1>2

\* Every variable always has its type, whatever the constants.
THEOREM TypeCorrect == Spec => []TypeOK
<1>1. AnalysisInv => TypeOK
  BY DEF AnalysisInv
<1> QED
  BY <1>1, InitInv, StepInv, PTL DEF Spec

\* No post is ever analysed with norms that were not accepted: not by a worker
\* restarted, not by a backfill, not while versions are written and reviewed.
THEOREM NormsAreAccepted == Spec => []NormsSound
<1>1. AnalysisInv => NormsSound
  BY DEF AnalysisInv
<1> QED
  BY <1>1, InitInv, StepInv, PTL DEF Spec

\* Once the recheck of a version is stored, no row analysed with another one is
\* left beyond the window of the recheck.
THEOREM RecheckIsInTime == Spec => []RecheckInTime
<1>1. AnalysisInv => RecheckInTime
  BY DEF AnalysisInv
<1> QED
  BY <1>1, InitInv, StepInv, PTL DEF Spec

-----------------------------------------------------------------------------
(* One analysis for many missed passes *)

(***************************************************************************)
(* A row comes due a whole interval after its analysis, and every delay is *)
(* counted from a pass that found it overdue.  Only a recheck of the norms *)
(* brings a row forward; such a row is Behind: a newer version is accepted *)
(* than the one it was analysed with, and a pass that may claim it works   *)
(* with a newer one, even after a restart with no norms in memory.         *)
(***************************************************************************)
Working == {"recheck", "claim", "write", "postpone"}

Waits(p)  == \E s \in Steps(p, row[p].analyzed, FALSE) : row[p].analyzed + s <= row[p].due
Behind(p) == row[p].norm < Latest /\ (pc \in Working => row[p].norm < norm)
Pace(p)   == row[p].analyzed # 0 /\ ~row[p].frozen => Waits(p) \/ Behind(p)

Taken == pc \in {"write", "postpone"} => \A p \in batch : ~row[p].frozen /\ row[p].due <= now

ScheduleInv ==
    /\ pc = "down" => norm = 0
    /\ pc \in Working => \A p \in Posts : row[p].norm <= norm
    /\ Taken
    /\ \A p \in Posts : Pace(p)

\* What a step does to a row, as far as the interval goes.
Later(p)  == /\ row'[p].norm = row[p].norm /\ row'[p].analyzed = row[p].analyzed
             /\ row'[p].frozen = row[p].frozen /\ row[p].due <= row'[p].due
OnTime(p) == row'[p].frozen \/ \E s \in Steps(p, row'[p].analyzed, FALSE) :
                                  row'[p].analyzed + s <= row'[p].due

\* The numbers of a row.
LEMMA RowNumbers ==
  ASSUME NEW r \in Rows
  PROVE  /\ r.due \in Nat /\ r.analyzed \in Nat /\ r.norm \in Nat /\ r.norm \in 0..MaxVersions
         /\ r.frozen \in BOOLEAN
  BY Constants DEF Rows, Instants

\* The greatest version that f says is accepted.
Top(f) == Greatest({0} \cup {v \in 1..MaxVersions : f[v] = "accepted"})

LEMMA TopIsGreatest ==
  ASSUME NEW f
  PROVE  /\ Top(f) \in 0..MaxVersions
         /\ Top(f) # 0 => f[Top(f)] = "accepted"
         /\ \A v \in 0..MaxVersions : v # 0 /\ f[v] = "accepted" => v <= Top(f)
<1> DEFINE S == {0} \cup {v \in 1..MaxVersions : f[v] = "accepted"}
<1>1. MaxVersions \in Nat
  BY Constants
<1>2. S \subseteq 0..MaxVersions /\ S # {}
  BY <1>1
<1>3. Top(f) = Greatest(S)
  BY DEF Top
<1>4. Top(f) \in S /\ \A v \in S : v <= Top(f)
  <2> HIDE DEF S
  <2> QED BY <1>1, <1>2, <1>3, GreatestExists
<1>5. \A v \in 0..MaxVersions : v # 0 => v \in 1..MaxVersions
  BY <1>1
<1> QED
  BY <1>1, <1>2, <1>4, <1>5

\* No row was analysed with a version later than the latest accepted one.
LEMMA NormsUpToLatest ==
  ASSUME AnalysisInv
  PROVE  /\ Latest \in Nat
         /\ norm \in Nat /\ norm <= Latest
         /\ \A p \in Posts : row[p].norm \in Nat /\ row[p].norm <= Latest
<1>1. Latest = Top(versions)
  BY DEF Latest, Top
<1>2. Latest \in Nat /\ \A v \in 0..MaxVersions : v # 0 /\ versions[v] = "accepted" => v <= Latest
  BY <1>1, TopIsGreatest, Constants
<1>3. \A p \in Posts : row[p].norm \in 0..MaxVersions
  BY RowNumbers DEF AnalysisInv, TypeOK
<1>4. \A v \in 0..MaxVersions : v \in Nat /\ (v = 0 => v <= Latest)
  BY <1>2, Constants
<1> QED
  BY <1>2, <1>3, <1>4 DEF AnalysisInv, TypeOK, NormsSound

\* An accepted version stays accepted, so the latest one never goes back.
LEMMA LatestGrows ==
  ASSUME AnalysisInv, [Next]_vars
  PROVE  Latest <= Latest'
<1>1. Latest = Top(versions) /\ Latest' = Top(versions')
  BY DEF Latest, Top
<1>2. Top(versions) \in 0..MaxVersions /\ Top(versions') \in 0..MaxVersions /\ MaxVersions \in Nat
  BY TopIsGreatest, Constants
<1>3. \A v \in 0..MaxVersions : v # 0 /\ versions[v] = "accepted" => versions'[v] = "accepted"
  <2>1. CASE UNCHANGED versions
    BY <2>1
  <2>2. CASE \/ \E v \in 1..MaxVersions, status \in Statuses : WriteNormVersion(v, status)
             \/ \E v \in 1..MaxVersions : AcceptReviewed(v)
    BY <2>2, Constants DEF WriteNormVersion, AcceptReviewed, AnalysisInv, TypeOK
  <2>3. \/ UNCHANGED versions
        \/ \E v \in 1..MaxVersions, status \in Statuses : WriteNormVersion(v, status)
        \/ \E v \in 1..MaxVersions : AcceptReviewed(v)
    BY DEF Next, Pass, Tick, Up, Trouble, Down, StartBackfill, StopBackfill, BackfillPost, Arrive,
           SetPolicy, Start, LoadNorm, Recheck, Claim, Write, Postpone, external, backfillSees, vars
  <2> QED BY <2>1, <2>2, <2>3
<1>4. CASE Top(versions) = 0
  BY <1>1, <1>2, <1>4
<1>5. CASE Top(versions) # 0
  <2>1. versions[Top(versions)] = "accepted"
    BY <1>5, TopIsGreatest
  <2>2. versions'[Top(versions)] = "accepted"
    BY <1>2, <1>3, <1>5, <2>1
  <2>3. Top(versions) <= Top(versions')
    BY <1>2, <1>5, <2>2, TopIsGreatest
  <2> QED BY <1>1, <2>3
<1> QED
  BY <1>4, <1>5

\* A row just analysed waits a whole interval, unless it is frozen.
LEMMA NextDueWaits ==
  ASSUME NEW p, NEW at \in Nat, NEW w, NEW lag, NEW due \in NextDue(p, at, w, lag), ~Final(p, at, w)
  PROVE  \E s \in Steps(p, at, FALSE) : at + s <= due
<1>1. PICK s \in Steps(p, at, lag) : due = at + s
  BY DEF NextDue
<1>2. CASE Age(p, at) < YoungAge
  <2>1. s = YoungStep /\ YoungStep \in Steps(p, at, FALSE) /\ YoungStep \in Nat
    BY <1>1, <1>2, Constants DEF Steps
  <2>2. at + YoungStep <= due
    BY <1>1, <2>1
  <2> QED BY <2>1, <2>2
<1>3. CASE ~(Age(p, at) < YoungAge)
  <2>1. OldStep \in Steps(p, at, FALSE) /\ OldStep \in Nat /\ MaxStretch \in Nat
    BY <1>3, Constants DEF Steps
  <2>2. s = OldStep \/ \E k \in 1..MaxStretch : s = OldStep * k
    BY <1>1, <1>3 DEF Steps
  <2>3. ASSUME NEW k \in 1..MaxStretch PROVE OldStep * k \in Nat /\ OldStep <= OldStep * k
    <3>1. k - 1 \in Nat
      BY <2>1
    <3>2. OldStep * (k - 1) \in Nat
      BY <2>1, <3>1
    <3>3. OldStep * k = OldStep * (k - 1) + OldStep
      BY <2>1
    <3> QED BY <2>1, <3>2, <3>3
  <2>4. s \in Nat /\ OldStep <= s
    BY <2>1, <2>2, <2>3
  <2>5. at + OldStep <= due
    BY <1>1, <2>1, <2>4
  <2> QED BY <2>1, <2>5
<1> QED
  BY <1>2, <1>3

\* A row keeps its pace as long as it is not brought forward, or is Behind.
LEMMA PaceKept ==
  ASSUME AnalysisInv, AnalysisInv', ScheduleInv, Latest <= Latest',
         pc' \in Working => pc \in Working /\ norm' = norm,
         NEW p \in Posts, Kept(p) \/ Later(p) \/ Unseen(p) \/ OnTime(p) \/ Behind(p)'
  PROVE  Pace(p)'
<1>1. /\ row[p] \in Rows /\ row'[p] \in Rows
      /\ Latest \in Nat /\ row[p].norm \in Nat
  BY NormsUpToLatest DEF AnalysisInv, TypeOK
<1>2. row[p].due \in Nat /\ row'[p].due \in Nat /\ row[p].analyzed \in Nat
  BY <1>1, RowNumbers
<1>3. Latest' \in Nat
  <2>1. Latest' = Top(versions')
    BY DEF Latest, Top
  <2> QED BY <2>1, TopIsGreatest, Constants
<1>4. CASE Unseen(p) \/ OnTime(p) \/ Behind(p)'
  BY <1>4 DEF Unseen, OnTime, Pace, Waits
<1>5. CASE Kept(p) \/ Later(p)
  <2>1. /\ row'[p].norm = row[p].norm /\ row'[p].analyzed = row[p].analyzed
        /\ row'[p].frozen = row[p].frozen /\ row[p].due <= row'[p].due
    BY <1>2, <1>5 DEF Kept, Later
  <2> SUFFICES ASSUME row[p].analyzed # 0, ~row[p].frozen
               PROVE  Waits(p)' \/ Behind(p)'
    BY <2>1 DEF Pace
  <2>2. CASE Waits(p)
    <3>1. PICK s \in Steps(p, row[p].analyzed, FALSE) : row[p].analyzed + s <= row[p].due
      BY <2>2 DEF Waits
    <3>2. s \in Nat
      BY <3>1, StepsAreNat
    <3>3. row'[p].analyzed + s <= row'[p].due
      BY <1>2, <2>1, <3>1, <3>2
    <3>4. s \in Steps(p, row'[p].analyzed, FALSE)
      BY <2>1, <3>1
    <3>5. \E k \in Steps(p, row'[p].analyzed, FALSE) : row'[p].analyzed + k <= row'[p].due
      BY <3>3, <3>4
    <3>6. Steps(p, row[p].analyzed, FALSE)' = Steps(p, row'[p].analyzed, FALSE)
      BY DEF Steps, Age
    <3> QED BY <3>5, <3>6 DEF Waits
  <2>3. CASE Behind(p)
    <3>1. row'[p].norm < Latest'
      BY <1>1, <1>3, <2>1, <2>3 DEF Behind
    <3> QED BY <2>1, <2>3, <3>1 DEF Behind
  <2> QED BY <2>2, <2>3 DEF ScheduleInv, Pace
<1> QED
  BY <1>4, <1>5

\* A transaction of a pass, but for loading the norms.
LEMMA PassSchedule ==
  ASSUME AnalysisInv, AnalysisInv', ScheduleInv, Latest <= Latest', UNCHANGED norm, Taken',
         pc' # "down", pc' \in Working => pc \in Working,
         \A p \in Posts : \/ Kept(p) \/ Later(p) \/ Unseen(p)
                          \/ OnTime(p) /\ row'[p].norm = norm
                          \/ Behind(p)' /\ row'[p].norm = row[p].norm
  PROVE  ScheduleInv'
<1>1. \A p \in Posts : Pace(p)'
  BY PaceKept
<1>2. ASSUME pc' \in Working, NEW p \in Posts
      PROVE  row'[p].norm <= norm'
  <2>1. row[p].norm <= norm /\ norm \in Nat
    BY <1>2, NormsUpToLatest DEF ScheduleInv
  <2>2. row'[p].norm \in {row[p].norm, norm, 0}
    BY DEF Kept, Later, Unseen
  <2> QED BY <2>1, <2>2
<1> QED
  BY <1>1, <1>2 DEF ScheduleInv

\* What is left of a claimed batch is still overdue and not frozen.
LEMMA ClaimSchedule ==
  ASSUME AnalysisInv, ScheduleInv, Claim, Latest <= Latest'
  PROVE  ScheduleInv'
<1> DEFINE claimed == Newest(Overdue, Limit)
           lag     == \E p \in Overdue : now - row[p].due > StretchAfter
           waiting == {p \in claimed : /\ row[p].analyzed # 0 /\ ~NormRecheck(p)
                                      /\ ~Analyze(p, points[p])}
<1>1. \A p \in claimed : p \in Posts /\ ~row[p].frozen /\ row[p].due <= now
  BY DEF Newest, Overdue
<1>2. waiting \subseteq claimed
  OBVIOUS
<1>3. /\ pc = "claim" /\ PostponeTo(waiting, points, lag) /\ UNCHANGED norm
      /\ \/ pc' = "idle"
         \/ pc' = "write" /\ batch' = claimed \ waiting /\ UNCHANGED now
  BY DEF Claim
<1> HIDE DEF claimed, lag, waiting
<1>4. waiting \subseteq Posts
  BY <1>1, <1>2
<1>5. /\ \A p \in waiting : Shifted(p) /\ now <= row'[p].due
      /\ \A p \in Posts \ waiting : Kept(p)
  BY <1>3, <1>4, PostponeRows DEF AnalysisInv
<1>6. AnalysisInv'
  BY ClaimInv
<1>7. ASSUME NEW p \in waiting PROVE Later(p)
  <2>1. row[p] \in Rows /\ row'[p] \in Rows /\ now \in Nat
    BY <1>4, <1>6, <1>7, Constants DEF AnalysisInv, TypeOK, Instants
  <2>2. row[p].due \in Nat /\ row'[p].due \in Nat /\ row[p].due <= now
    BY <1>1, <1>2, <2>1, RowNumbers
  <2> QED BY <1>5, <1>7, <2>1, <2>2 DEF Shifted, Later
<1>8. Taken'
  BY <1>1, <1>3, <1>5 DEF Taken, Kept
<1> QED
  BY <1>3, <1>5, <1>6, <1>7, <1>8, PassSchedule DEF Working

LEMMA WriteSchedule ==
  ASSUME AnalysisInv, ScheduleInv, Write, Latest <= Latest'
  PROVE  ScheduleInv'
<1> DEFINE done   == {p \in batch : ~Unreadable(p) /\ Analyze(p, points[p])}
           failed == {p \in batch : Unreadable(p)}
           left   == batch \ (done \cup failed)
<1>1. PICK due \in [done -> UNION {NextDue(p, now, window, lagging) : p \in done}] :
         /\ \A p \in done : due[p] \in NextDue(p, now, window, lagging)
         /\ row' = [p \in Posts |->
                      IF p \in done THEN Analyzed(p, now, window, points[p], norm, due[p])
                      ELSE IF p \in failed THEN Failed(p) ELSE row[p]]
  BY DEF Write
<1>2. /\ pc = "write" /\ UNCHANGED norm
      /\ \/ pc' = "idle"
         \/ pc' = "postpone" /\ batch' = left /\ UNCHANGED now
  BY DEF Write
<1>3. now \in Nat /\ batch \subseteq Posts /\ AnalysisInv'
  <2>1. now \in Nat /\ batch \subseteq Posts
    BY Constants DEF AnalysisInv, TypeOK, Instants
  <2> QED BY <2>1, WriteInv
<1>4. \A p \in batch : ~row[p].frozen /\ row[p].due <= now
  BY <1>2 DEF ScheduleInv, Taken
<1>5. ASSUME NEW p \in Posts, p \in done
      PROVE  OnTime(p) /\ row'[p].norm = norm
  <2>1. row'[p] = Analyzed(p, now, window, points[p], norm, due[p])
    BY <1>1, <1>5
  <2>2. /\ row'[p].analyzed = now /\ row'[p].norm = norm /\ row'[p].due = due[p]
        /\ row'[p].frozen = Final(p, now, window)
    BY <2>1 DEF Analyzed
  <2>3. CASE ~Final(p, now, window)
    <3>1. due[p] \in NextDue(p, now, window, lagging)
      BY <1>1, <1>5
    <3>2. \E s \in Steps(p, now, FALSE) : now + s <= due[p]
      BY <1>3, <2>3, <3>1, NextDueWaits
    <3> QED BY <2>2, <3>2 DEF OnTime
  <2> QED BY <2>2, <2>3 DEF OnTime
<1>6. ASSUME NEW p \in Posts, p \notin done, p \in failed
      PROVE  Later(p)
  <2>1. row'[p] = Failed(p) /\ row[p] \in Rows /\ row'[p] \in Rows
    BY <1>1, <1>3, <1>6 DEF AnalysisInv, TypeOK
  <2>2. /\ row'[p].norm = row[p].norm /\ row'[p].analyzed = row[p].analyzed
        /\ row'[p].frozen = row[p].frozen /\ now <= row'[p].due
    BY <2>1, FailedType DEF AnalysisInv
  <2>3. row[p].due \in Nat /\ row'[p].due \in Nat /\ row[p].due <= now
    BY <1>4, <1>6, <2>1, RowNumbers
  <2> QED BY <1>3, <2>2, <2>3 DEF Later
<1>7. ASSUME NEW p \in Posts, p \notin done, p \notin failed
      PROVE  Kept(p)
  BY <1>1, <1>7 DEF Kept
<1>8. Taken'
  <2>1. \A p \in left : Kept(p) /\ ~row[p].frozen /\ row[p].due <= now
    BY <1>3, <1>4, <1>7
  <2> HIDE DEF left
  <2> QED BY <1>2, <2>1 DEF Taken, Kept
<1> HIDE DEF done, failed, left
<1> QED
  BY <1>2, <1>3, <1>5, <1>6, <1>7, <1>8, PassSchedule DEF Working

LEMMA PostponeSchedule ==
  ASSUME AnalysisInv, ScheduleInv, Postpone, Latest <= Latest'
  PROVE  ScheduleInv'
<1>1. /\ pc = "postpone" /\ PostponeTo(batch, series, lagging) /\ pc' = "idle" /\ UNCHANGED norm
  BY DEF Postpone
<1>2. batch \subseteq Posts /\ now \in Nat /\ AnalysisInv'
  BY PostponeInv, Constants DEF AnalysisInv, TypeOK, Instants
<1>3. /\ \A p \in batch : Shifted(p) /\ now <= row'[p].due
      /\ \A p \in Posts \ batch : Kept(p)
  BY <1>1, <1>2, PostponeRows DEF AnalysisInv
<1>4. ASSUME NEW p \in batch PROVE Later(p)
  <2>1. row[p] \in Rows /\ row'[p] \in Rows
    BY <1>2 DEF AnalysisInv, TypeOK
  <2>2. row[p].due \in Nat /\ row'[p].due \in Nat /\ row[p].due <= now
    BY <1>1, <2>1, RowNumbers DEF ScheduleInv, Taken
  <2> QED BY <1>2, <1>3, <2>2 DEF Shifted, Later
<1> QED
  BY <1>1, <1>2, <1>3, <1>4, PassSchedule DEF Working, Taken

\* The recheck brings forward only rows of an older version than the one loaded.
LEMMA RecheckSchedule ==
  ASSUME AnalysisInv, ScheduleInv, Recheck, Latest <= Latest'
  PROVE  ScheduleInv'
<1>1. pc = "recheck" /\ pc' = "claim" /\ UNCHANGED <<norm, versions>>
  BY DEF Recheck, external
<1>2. AnalysisInv' /\ Latest' = Latest
  BY <1>1, RecheckInv DEF Latest
<1>3. ASSUME NEW p \in Posts
      PROVE  Kept(p) \/ (Behind(p)' /\ row'[p].norm = row[p].norm)
  <2>1. CASE Outdated(p)
    <3>1. /\ row[p].norm # norm /\ row[p].norm <= norm /\ norm <= Latest
          /\ row[p].norm \in Nat /\ norm \in Nat /\ Latest \in Nat
      BY <1>1, <2>1, NormsUpToLatest DEF Outdated, ScheduleInv, Working
    <3>2. row'[p].norm = row[p].norm
      BY RecheckRows DEF AnalysisInv, Kept, Shifted
    <3> QED BY <1>1, <1>2, <3>1, <3>2 DEF Behind
  <2>2. CASE ~Outdated(p)
    BY <2>2 DEF Recheck, Kept
  <2> QED BY <2>1, <2>2
<1> QED
  BY <1>1, <1>2, <1>3, PassSchedule DEF Working, Taken

\* A pass that goes on to claim works with the latest version there was when it
\* looked, hence with none older than a row's.
LEMMA LoadSchedule ==
  ASSUME AnalysisInv, ScheduleInv, LoadNorm
  PROVE  ScheduleInv'
<1>1. /\ pc = "norms" /\ UNCHANGED <<row, versions, now, batch>>
      /\ \/ Latest \in {0, norm} /\ pc' = "claim" /\ norm' = norm
         \/ Latest \notin {0, norm} /\ pc' = "recheck" /\ norm' = Latest
  BY DEF LoadNorm, external
<1>2. Latest' = Latest
  BY <1>1 DEF Latest
<1>3. Latest \in Nat /\ norm \in Nat /\ norm <= Latest /\ norm' = Latest
  BY <1>1, NormsUpToLatest
<1>4. \A p \in Posts : row[p].norm \in Nat /\ row[p].norm <= norm'
  BY <1>3, NormsUpToLatest
<1>5. ASSUME NEW p \in Posts PROVE Pace(p)'
  BY <1>1, <1>2, <1>3 DEF ScheduleInv, Pace, Waits, Behind, Steps, Age
<1> QED
  BY <1>1, <1>4, <1>5 DEF ScheduleInv, Taken

\* A post the backfill analyses waits like any other.
LEMMA BackfillSchedule ==
  ASSUME AnalysisInv, ScheduleInv, NEW p \in Posts, BackfillPost(p), Latest <= Latest'
  PROVE  ScheduleInv'
<1>1. pc = "down" /\ pc' = pc /\ UNCHANGED norm /\ AnalysisInv'
  BY BackfillPostInv DEF BackfillPost, backfillSees, workerVars, AnalysisInv, Memory
<1>2. ASSUME NEW q \in Posts PROVE Kept(q) \/ OnTime(q)
  <2>1. CASE UNCHANGED row
    BY <2>1 DEF Kept
  <2>2. CASE \E due \in NextDue(p, clock, EnvWindow, FALSE) :
                 row' = [row EXCEPT ![p] = Analyzed(p, clock, EnvWindow, points[p], backfill.norm, due)]
    <3>1. PICK due \in NextDue(p, clock, EnvWindow, FALSE) :
                 row' = [row EXCEPT ![p] = Analyzed(p, clock, EnvWindow, points[p], backfill.norm, due)]
      BY <2>2
    <3> DEFINE new == Analyzed(p, clock, EnvWindow, points[p], backfill.norm, due)
    <3>2. new.analyzed = clock /\ new.due = due /\ new.frozen = Final(p, clock, EnvWindow)
      BY DEF Analyzed
    <3>3. row' = [row EXCEPT ![p] = new]
      BY <3>1
    <3> HIDE DEF new
    <3>4. row'[p] = new /\ (q # p => row'[q] = row[q])
      BY <3>3 DEF AnalysisInv, TypeOK
    <3>5. clock \in Nat
      BY Constants DEF AnalysisInv, TypeOK, Instants
    <3>6. ~Final(p, clock, EnvWindow) => \E s \in Steps(p, clock, FALSE) : clock + s <= due
      BY <3>1, <3>5, NextDueWaits
    <3> QED BY <3>2, <3>4, <3>6 DEF Kept, OnTime
  <2> QED BY <2>1, <2>2 DEF BackfillPost
<1>3. ASSUME NEW q \in Posts PROVE Pace(q)'
  BY <1>1, <1>2, PaceKept DEF Working
<1> QED
  BY <1>1, <1>3 DEF ScheduleInv, Working, Taken

\* Every other step leaves the rows as they are, but for those it seeds.
LEMMA OtherSchedule ==
  ASSUME AnalysisInv, AnalysisInv', ScheduleInv, Latest <= Latest',
         \A p \in Posts : Kept(p) \/ Unseen(p),
         \/ UNCHANGED <<pc, norm, batch, now, row>>
         \/ pc' \notin Working \cup {"down"} /\ norm' = norm
         \/ pc' = "down" /\ norm' = 0
  PROVE  ScheduleInv'
<1>1. \A p \in Posts : Pace(p)'
  BY PaceKept DEF Working
<1>2. Taken'
  BY DEF ScheduleInv, Taken, Working
<1>3. pc' \in Working => \A p \in Posts : row'[p].norm <= norm'
  BY DEF ScheduleInv, Working
<1>4. pc' = "down" => norm' = 0
  BY DEF ScheduleInv
<1> QED
  BY <1>1, <1>2, <1>3, <1>4 DEF ScheduleInv

LEMMA StepSchedule ==
  ASSUME AnalysisInv, ScheduleInv, [Next]_vars
  PROVE  ScheduleInv'
<1>1. AnalysisInv' /\ Latest <= Latest'
  BY StepInv, LatestGrows
<1>2. CASE UNCHANGED vars \/ Tick \/ StartBackfill \/ StopBackfill
           \/ (\E p \in Posts, t \in Instants : Arrive(p, t))
           \/ (\E w \in Windows : SetPolicy(w))
           \/ (\E v \in 1..MaxVersions, status \in Statuses : WriteNormVersion(v, status))
           \/ (\E v \in 1..MaxVersions : AcceptReviewed(v))
  <2>1. UNCHANGED <<pc, norm, batch, now, row>>
    BY <1>2 DEF vars, Tick, StartBackfill, StopBackfill, Arrive, SetPolicy, WriteNormVersion,
       AcceptReviewed, backfillSees, workerVars
  <2> QED BY <1>1, <2>1, OtherSchedule DEF Kept
<1>3. CASE Up \/ Trouble \/ Down
  <2>1. UNCHANGED row /\ (\/ pc' = "idle" /\ norm' = norm
                          \/ pc' = "down" /\ norm' = 0)
    BY <1>3 DEF Up, Trouble, Down
  <2> QED BY <1>1, <2>1, OtherSchedule DEF Kept, Working
<1>4. ASSUME NEW heard \in BOOLEAN, Start(heard) PROVE ScheduleInv'
  <2>1. pc' = "norms" /\ norm' = norm /\ \A p \in Posts : Kept(p) \/ Unseen(p)
    BY <1>4 DEF Start, Kept, Unseen, Fresh
  <2> QED BY <1>1, <2>1, OtherSchedule DEF Working
<1> QED
  BY <1>1, <1>2, <1>3, <1>4, ClaimSchedule, WriteSchedule, PostponeSchedule, RecheckSchedule,
     LoadSchedule, BackfillSchedule DEF Next, Pass

\* A post that missed many passes is analysed once, and its analyses by the
\* worker are a whole interval apart, in every order of failures, restarts,
\* postponements and changes of the norms, unless newer norms call for one.
THEOREM AnalysesAreApart == Spec => CatchesUpOnce
<1> DEFINE Apart == \A p \in Posts :
             pc = "write" /\ row'[p].analyzed # row[p].analyzed /\ row[p].analyzed # 0
               => \/ \E s \in Steps(p, row[p].analyzed, FALSE) : now >= row[p].analyzed + s
                  \/ row[p].norm # norm
<1>1. ASSUME AnalysisInv, ScheduleInv, [Next]_vars PROVE [Apart]_vars
  <2> SUFFICES ASSUME Next, NEW p \in Posts, pc = "write",
                      row'[p].analyzed # row[p].analyzed, row[p].analyzed # 0
               PROVE  \/ \E s \in Steps(p, row[p].analyzed, FALSE) : now >= row[p].analyzed + s
                      \/ row[p].norm # norm
    BY <1>1
  <2>1. Write
    BY <1>1 DEF Next, Pass, Tick, Up, Trouble, Down, StartBackfill, StopBackfill, BackfillPost,
       Arrive, SetPolicy, WriteNormVersion, AcceptReviewed, Start, LoadNorm, Recheck, Claim, Postpone,
       AnalysisInv, Memory
  <2>2. p \in batch
    <3>1. ASSUME p \notin batch PROVE row'[p] = row[p]
      BY <2>1, <3>1 DEF Write
    <3> QED BY <3>1
  <2>3. /\ row[p] \in Rows /\ now \in Nat /\ ~row[p].frozen /\ row[p].due <= now
    BY <1>1, <2>2, Constants DEF AnalysisInv, TypeOK, Instants, ScheduleInv, Taken
  <2>4. row[p].due \in Nat /\ row[p].analyzed \in Nat /\ row[p].norm \in Nat /\ norm \in Nat
    BY <1>1, <2>3, RowNumbers, NormsUpToLatest
  <2>5. CASE Waits(p)
    <3>1. PICK s \in Steps(p, row[p].analyzed, FALSE) : row[p].analyzed + s <= row[p].due
      BY <2>5 DEF Waits
    <3>2. s \in Nat
      BY <3>1, StepsAreNat
    <3>3. now >= row[p].analyzed + s
      BY <2>3, <2>4, <3>1, <3>2
    <3> QED BY <3>1, <3>3
  <2>6. CASE Behind(p)
    <3>1. row[p].norm < norm
      BY <2>6 DEF Behind, Working
    <3>2. row[p].norm # norm
      BY <2>4, <3>1
    <3> QED BY <3>2
  <2> QED BY <1>1, <2>3, <2>5, <2>6 DEF ScheduleInv, Pace
<1>2. Init => ScheduleInv
  BY DEF Init, ScheduleInv, Taken, Pace, Fresh, Working
<1> QED
  BY <1>1, <1>2, InitInv, StepInv, StepSchedule, PTL DEF Spec, CatchesUpOnce

-----------------------------------------------------------------------------
(* Frozen in time *)

\* A pass under way works with an instant that has come, and with a window asked of it.
FreezeInv ==
    /\ now <= clock
    /\ pc \in {"down", "idle"} \/ window \in asked

\* The numbers the windows are compared with.
LEMMA WindowNumbers ==
  ASSUME TypeOK
  PROVE  clock \in Nat /\ now \in Nat /\ window \in Nat /\ EnvWindow \in Nat
<1>1. clock \in 0..Horizon /\ now \in 0..Horizon /\ Horizon \in Nat
  BY Constants DEF TypeOK, Instants
<1>2. window \in Windows /\ EnvWindow \in Windows /\ Windows \subseteq Nat
  BY Constants DEF TypeOK
<1> QED
  BY <1>1, <1>2

\* The window is taken up, the panel's or the environment's, in the step that begins the
\* pass; a change of the policy adds to what is asked, and only the end of the pass,
\* which takes the worker away from it, forgets.
LEMMA StepFreeze ==
  ASSUME AnalysisInv, FreezeInv, [Next]_vars
  PROVE  FreezeInv'
<1>1. clock \in Nat /\ now \in Nat
  BY WindowNumbers DEF AnalysisInv
<1>2. CASE UNCHANGED <<clock, asked, now, window>> /\ (pc' = pc \/ pc' = "idle" \/ pc \notin {"down", "idle"})
  BY <1>2 DEF FreezeInv
<1>3. CASE clock' = clock /\ PassOver /\ pc' \in {"down", "idle"}
  BY <1>1, <1>3 DEF FreezeInv, PassOver
<1>4. CASE Tick
  BY <1>1, <1>4 DEF FreezeInv, Tick, workerVars
<1>5. ASSUME NEW w \in Windows, SetPolicy(w) PROVE FreezeInv'
  BY <1>5 DEF SetPolicy, FreezeInv, workerVars
<1>6. ASSUME NEW heard \in BOOLEAN, Start(heard) PROVE FreezeInv'
  <2>1. now' = clock /\ clock' = clock /\ window' \in asked'
    BY <1>6 DEF Start, PassWindow, external
  <2> QED BY <1>1, <2>1 DEF FreezeInv
<1>7. CASE Up \/ LoadNorm \/ Recheck
  <2>1. UNCHANGED <<clock, asked, now, window>> /\ (pc' = "idle" \/ pc \notin {"down", "idle"})
    BY <1>7 DEF Up, LoadNorm, Recheck, external
  <2> QED BY <1>2, <2>1
<1>8. CASE Claim \/ Write \/ Postpone \/ Trouble \/ Down
  <2>1. \/ UNCHANGED <<clock, asked, now, window>> /\ pc \notin {"down", "idle"}
        \/ clock' = clock /\ PassOver /\ pc' \in {"down", "idle"}
    BY <1>8 DEF Claim, Write, Postpone, Trouble, Down, external
  <2> QED BY <1>2, <1>3, <2>1
<1>9. CASE \/ UNCHANGED vars \/ StartBackfill \/ StopBackfill \/ \E p \in Posts : BackfillPost(p)
           \/ \E p \in Posts, t \in Instants : Arrive(p, t)
           \/ \E v \in 1..MaxVersions, status \in Statuses : WriteNormVersion(v, status)
           \/ \E v \in 1..MaxVersions : AcceptReviewed(v)
  <2>1. UNCHANGED <<clock, asked, now, window, pc>>
    BY <1>9 DEF vars, workerVars, StartBackfill, StopBackfill, BackfillPost, backfillSees, Arrive,
       WriteNormVersion, AcceptReviewed
  <2> QED BY <1>2, <2>1
<1> QED
  BY <1>4, <1>5, <1>6, <1>7, <1>8, <1>9 DEF Next, Pass

\* Only an analysis freezes a row, the worker's or the backfill's, and only when the
\* window it works with has passed.
LEMMA OnlyFinalFreezes ==
  ASSUME AnalysisInv, Next, NEW p \in Posts, row'[p].frozen, ~row[p].frozen
  PROVE  \/ pc = "write" /\ Final(p, now, window)
         \/ pc = "down" /\ Final(p, clock, EnvWindow)
<1>1. CASE Tick \/ Up \/ LoadNorm \/ Trouble \/ Down \/ StartBackfill \/ StopBackfill
           \/ (\E q \in Posts, t \in Instants : Arrive(q, t))
           \/ (\E w \in Windows : SetPolicy(w))
           \/ (\E v \in 1..MaxVersions, status \in Statuses : WriteNormVersion(v, status))
           \/ (\E v \in 1..MaxVersions : AcceptReviewed(v))
  BY <1>1 DEF Tick, Up, LoadNorm, Trouble, Down, StartBackfill, StopBackfill, Arrive, SetPolicy,
     WriteNormVersion, AcceptReviewed
<1>2. ASSUME NEW heard \in BOOLEAN, Start(heard) PROVE FALSE
  BY <1>2 DEF Start, Fresh
<1>3. CASE Recheck
  BY <1>3, RecheckRows DEF AnalysisInv, Kept, Shifted
<1>4. CASE Claim
  <2> DEFINE waiting == {q \in Newest(Overdue, Limit) :
                           /\ row[q].analyzed # 0 /\ ~NormRecheck(q) /\ ~Analyze(q, points[q])}
             lag     == \E q \in Overdue : now - row[q].due > StretchAfter
  <2>1. waiting \subseteq Posts
    BY DEF Newest, Overdue
  <2>2. PostponeTo(waiting, points, lag)
    BY <1>4 DEF Claim
  <2> HIDE DEF waiting, lag
  <2> QED BY <2>1, <2>2, PostponeRows DEF AnalysisInv, Kept, Shifted
<1>5. CASE Write
  <2> DEFINE done   == {q \in batch : ~Unreadable(q) /\ Analyze(q, points[q])}
             failed == {q \in batch : Unreadable(q)}
  <2>1. PICK due \in [done -> UNION {NextDue(q, now, window, lagging) : q \in done}] :
          row' = [q \in Posts |->
                    IF q \in done THEN Analyzed(q, now, window, points[q], norm, due[q])
                    ELSE IF q \in failed THEN Failed(q) ELSE row[q]]
    BY <1>5 DEF Write
  <2>2. CASE p \in done
    <3>1. row'[p] = Analyzed(p, now, window, points[p], norm, due[p])
      BY <2>1, <2>2
    <3>2. pc = "write" /\ Final(p, now, window)
      <4>1. pc = "write"
        BY <1>5 DEF Write
      <4>2. row'[p].frozen = Final(p, now, window)
        BY <3>1 DEF Analyzed
      <4> QED BY <4>1, <4>2
    <3> QED BY <3>2
  <2>3. CASE p \notin done /\ p \in failed
    <3>1. row'[p] = Failed(p)
      BY <2>1, <2>3
    <3>2. row'[p].frozen = row[p].frozen
      BY <3>1, FailedType DEF AnalysisInv
    <3> QED BY <3>2
  <2>4. CASE p \notin done /\ p \notin failed
    BY <2>1, <2>4
  <2> QED BY <2>2, <2>3, <2>4
<1>6. CASE Postpone
  <2>1. PostponeTo(batch, series, lagging) /\ batch \subseteq Posts
    BY <1>6 DEF Postpone, AnalysisInv, TypeOK
  <2> QED BY <2>1, PostponeRows DEF AnalysisInv, Kept, Shifted
<1>7. ASSUME NEW q \in Posts, BackfillPost(q) PROVE pc = "down" /\ Final(p, clock, EnvWindow)
  <2>1. PICK due : row' = [row EXCEPT ![q] =
                             Analyzed(q, clock, EnvWindow, points[q], backfill.norm, due)]
    BY <1>7 DEF BackfillPost
  <2>2. p = q /\ row'[p] = Analyzed(p, clock, EnvWindow, points[p], backfill.norm, due)
    BY <2>1 DEF AnalysisInv, TypeOK
  <2>3. pc = "down"
    BY <1>7 DEF BackfillPost, AnalysisInv, Memory
  <2> QED BY <2>2, <2>3 DEF Analyzed
<1> QED
  BY <1>1, <1>2, <1>3, <1>4, <1>5, <1>6, <1>7 DEF Next, Pass

\* The worker freezes a post only past a window that the panel has had since its pass
\* began, or past the environment's when that pass could not read the policy; only a
\* backfill goes by the environment's otherwise.  However often databases are lost, the
\* worker restarted, backfills run and the policy changed.
THEOREM FrozenOnlyInTime == Spec => FrozenInTime
<1> DEFINE InTime == \A p \in Posts : row'[p].frozen /\ ~row[p].frozen
                       => \E w \in asked \cup (IF pc = "down" THEN {EnvWindow} ELSE {}) :
                             Age(p, clock) >= w
<1>1. ASSUME AnalysisInv, FreezeInv, [Next]_vars PROVE [InTime]_vars
  <2> SUFFICES ASSUME Next, NEW p \in Posts, row'[p].frozen, ~row[p].frozen
               PROVE  \E w \in asked \cup (IF pc = "down" THEN {EnvWindow} ELSE {}) :
                         Age(p, clock) >= w
    BY <1>1
  <2>1. /\ clock \in Nat /\ now \in Nat /\ window \in Nat /\ EnvWindow \in Nat
        /\ PublishedAt[p] \in Nat
    BY <1>1, WindowNumbers, Constants DEF AnalysisInv
  <2>2. CASE pc = "write" /\ Final(p, now, window)
    <3>1. window \in asked /\ now <= clock
      BY <1>1, <2>2 DEF FreezeInv
    <3>2. Age(p, clock) >= window
      BY <2>1, <2>2, <3>1 DEF Final, Age
    <3> QED BY <3>1, <3>2
  <2>3. CASE pc = "down" /\ Final(p, clock, EnvWindow)
    BY <2>3 DEF Final
  <2> QED BY <1>1, <2>2, <2>3, OnlyFinalFreezes
<1>2. Init => FreezeInv
  BY Constants DEF Init, FreezeInv
<1> QED
  BY <1>1, <1>2, InitInv, StepInv, StepFreeze, PTL DEF Spec, FrozenInTime
==============================================================================
