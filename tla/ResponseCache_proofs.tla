------------------------- MODULE ResponseCache_proofs -------------------------
(***************************************************************************)
(* Proofs about ResponseCache.  NoLeak needs two facts more: a task at work *)
(* has a key (Serving), and where a task stands says whether end_refresh is *)
(* still ahead of it (Ownership).  LockOwned rests on NoLeak: the token a   *)
(* process gives back is that of one of its own tasks.                      *)
(***************************************************************************)
EXTENDS ResponseCache, TLAPS

\* A task at work serves a key.
Serving == \A t \in Tasks : ~At(t, "idle") => Key(t) \in Keys

\* A task that begin_refresh accepted has end_refresh ahead of it, and no other has.
Ownership ==
    \A t \in Tasks :
        /\ owner[t] => \/ background[t] /\ AnyOf(t, {"revision", "database", "adopt", "reread"})
                       \/ AnyOf(t, {"build", "end"})
        /\ background[t] => owner[t]
        /\ At(t, "end") => owner[t]

IInv == TypeOK /\ Serving /\ Ownership /\ GivenBack

Labels == {"idle", "offer", "pinned", "revision", "database", "adopt",
           "reread", "begin", "build", "wait", "end"}

TaskTypes ==
    /\ pc \in [Tasks -> Labels]
    /\ ask \in [Tasks -> [key : Keys \cup {None}, warm : BOOLEAN]]
    /\ found \in [Tasks -> 0..MaxRevision]
    /\ owner \in [Tasks -> BOOLEAN] /\ background \in [Tasks -> BOOLEAN]
    /\ patience \in [Tasks -> 0..WaitFor]

SharedTypes ==
    /\ head \in Revisions
    /\ entry \in [Keys -> Entries]
    /\ lock \in [Keys -> [holder : Tasks \cup {None}, left : 0..LockFor]]
    /\ hint \in [id : 0..MaxRevision, left : 0..Hold]
    /\ troubles \in 0..MaxTroubles

ProcessTypes ==
    /\ tokens \in [Processes -> [Keys -> Tasks \cup {None}]]
    /\ fallback \in [Processes -> SUBSET Keys]
    /\ uncertain \in [Processes -> BOOLEAN]
    /\ marking \in [Processes -> [key : Keys \cup {None}, read : Entries]]

\* The parts of the type invariant.
LEMMA Parts == TypeOK <=> TaskTypes /\ SharedTypes /\ ProcessTypes
  BY DEF TypeOK, TaskTypes, SharedTypes, ProcessTypes, Labels

LEMMA Together ==
    ASSUME TaskTypes', SharedTypes', ProcessTypes'
    PROVE  TypeOK'
  BY DEF TypeOK, TaskTypes, SharedTypes, ProcessTypes, Labels

\* No entry, lock, mark or request is of the type of its variable too.
LEMMA Nothing ==
    /\ NoEntry \in Entries /\ ~Present(NoEntry)
    /\ NoLock \in [holder : Tasks \cup {None}, left : 0..LockFor]
    /\ NoHint \in [id : 0..MaxRevision, left : 0..Hold]
    /\ NoMark \in [key : Keys \cup {None}, read : Entries]
    /\ NoAsk \in [key : Keys \cup {None}, warm : BOOLEAN]
  BY CacheAssumption DEF CacheAssumption, NoEntry, Entries, Present, NoLock, NoHint, NoMark, NoAsk

THEOREM InitIInv == Init => IInv
  <1> SUFFICES ASSUME Init PROVE IInv
    OBVIOUS
  <1> USE CacheAssumption DEF CacheAssumption
  <1>1. TaskTypes
    BY Nothing DEF Init, TaskTypes, Labels
  <1>2. SharedTypes
    BY Nothing DEF Init, SharedTypes, Revisions
  <1>3. ProcessTypes
    BY Nothing DEF Init, ProcessTypes
  <1>4. Serving /\ Ownership
    BY DEF Init, Serving, Ownership, At, AnyOf
  <1>5. GivenBack
    BY DEF Init, GivenBack
  <1> QED
    BY <1>1, <1>2, <1>3, <1>4, <1>5, Parts DEF IInv

-----------------------------------------------------------------------------
(* What the shared parts of the actions keep *)

LEMMA OverKeeps ==
    ASSUME TaskTypes, Serving, NEW t \in Tasks, Over(t)
    PROVE  TaskTypes' /\ Serving'
  <1> USE CacheAssumption, Nothing DEF CacheAssumption, Over, Goto
  <1>1. pc' \in [Tasks -> Labels]
    BY DEF TaskTypes, Labels
  <1>2. ask' \in [Tasks -> [key : Keys \cup {None}, warm : BOOLEAN]]
    BY DEF TaskTypes
  <1>3. TaskTypes'
    BY <1>1, <1>2 DEF TaskTypes
  <1>4. Serving'
    BY <1>1, <1>2 DEF TaskTypes, Serving, At, Key
  <1> QED
    BY <1>3, <1>4

LEMMA GotoKeeps ==
    ASSUME TaskTypes, Serving, NEW t \in Tasks, Key(t) \in Keys, NEW label \in Labels,
           Goto(t, label), UNCHANGED ask
    PROVE  pc' \in [Tasks -> Labels] /\ Serving'
  BY DEF TaskTypes, Goto, Serving, At, Key

LEMMA ResolvedKeeps ==
    ASSUME TaskTypes, Serving, NEW t \in Tasks, ~At(t, "idle"), NEW r \in 0..MaxRevision,
           Resolved(t, r), UNCHANGED <<ask, owner, background, patience>>
    PROVE  TaskTypes' /\ Serving'
  BY GotoKeeps DEF Serving, Resolved, Labels, TaskTypes

LEMMA LocksKeeps ==
    ASSUME TypeOK, NEW t \in Tasks, Key(t) \in Keys, NEW accepted \in BOOLEAN,
           Locks(t, accepted), UNCHANGED <<head, entry, hint, uncertain, marking>>
    PROVE  SharedTypes' /\ ProcessTypes'
  <1> DEFINE p == Home[t]
             k == Key(t)
             taken == [lock EXCEPT ![k] = [holder |-> t, left |-> LockFor]]
             kept == [tokens EXCEPT ![p] = [@ EXCEPT ![k] = t]]
  <1> USE CacheAssumption DEF CacheAssumption
  <1>1. p \in Processes /\ SharedTypes /\ ProcessTypes
    BY Parts
  <1>2. taken \in [Keys -> [holder : Tasks \cup {None}, left : 0..LockFor]]
    BY <1>1 DEF SharedTypes
  <1>3. kept \in [Processes -> [Keys -> Tasks \cup {None}]]
    BY <1>1 DEF ProcessTypes
  <1>4. /\ lock' \in {lock, taken} /\ tokens' \in {tokens, kept}
        /\ fallback' \in {fallback, [fallback EXCEPT ![p] = @ \cup {k}]}
        /\ troubles' \in 0..MaxTroubles
    BY <1>1 DEF Locks, Smoothly, Trouble, SharedTypes
  <1>5. SharedTypes'
    BY <1>1, <1>2, <1>4 DEF SharedTypes
  <1>6. [fallback EXCEPT ![p] = @ \cup {k}] \in [Processes -> SUBSET Keys]
    BY <1>1 DEF ProcessTypes
  <1>7. ProcessTypes'
    <2> HIDE DEF kept
    <2> QED
      BY <1>1, <1>3, <1>4, <1>6 DEF ProcessTypes
  <1> QED
    BY <1>5, <1>7

-----------------------------------------------------------------------------
(* Every step keeps the types, and a key for every task at work *)

LEMMA TasksKeep ==
    ASSUME TypeOK, Serving, NEW t \in Tasks, Ask(t) \/ Steps(t)
    PROVE  TypeOK' /\ Serving'
  <1> USE CacheAssumption, Nothing DEF CacheAssumption
  <1>1. TaskTypes /\ SharedTypes /\ ProcessTypes /\ Home[t] \in Processes
    BY Parts
  <1>2. ~At(t, "idle") => Key(t) \in Keys
    BY DEF Serving
  <1>3. Smoothly \/ Trouble => troubles' \in 0..MaxTroubles
    BY <1>1 DEF Smoothly, Trouble, SharedTypes
  <1>4. CASE Ask(t)
    <2>1. PICK k \in Keys, pin \in 0..head, warm \in BOOLEAN, label \in Labels :
            /\ ask' = [ask EXCEPT ![t] = [key |-> k, warm |-> warm]]
            /\ Goto(t, label)
            /\ found' \in {found, [found EXCEPT ![t] = pin]}
            /\ Smoothly \/ Trouble
      BY <1>4 DEF Ask, AskRevision, Labels
    <2>2. pin \in 0..MaxRevision
      BY <1>1 DEF SharedTypes, Revisions
    <2>3. pc' \in [Tasks -> Labels] /\ ask' \in [Tasks -> [key : Keys \cup {None}, warm : BOOLEAN]]
      BY <1>1, <2>1 DEF TaskTypes, Goto
    <2>4. found' \in [Tasks -> 0..MaxRevision]
      BY <1>1, <2>1, <2>2 DEF TaskTypes
    <2>5. TaskTypes'
      BY <1>1, <1>4, <2>3, <2>4 DEF Ask, TaskTypes
    <2>6. SharedTypes' /\ ProcessTypes'
      BY <1>1, <1>3, <1>4, <2>1 DEF Ask, redis, process, SharedTypes, ProcessTypes
    <2>7. Serving'
      BY <1>1, <2>1 DEF Serving, At, Key, Goto, TaskTypes
    <2> QED
      BY <2>5, <2>6, <2>7, Together
  <1>5. CASE Offer(t)
    <2>1. SharedTypes' /\ ProcessTypes'
      BY <1>2, <1>5, LocksKeeps DEF Offer, At
    <2>2. CASE Over(t)
      BY <1>1, <2>1, <2>2, OverKeeps, Together
    <2>3. CASE ~Over(t)
      <3>1. PICK label \in Labels : Goto(t, label)
        BY <1>5, <2>3 DEF Offer, AskRevision, Labels
      <3>2. pc' \in [Tasks -> Labels] /\ Serving'
        BY <1>1, <1>2, <1>5, <2>3, <3>1, GotoKeeps DEF Offer, At
      <3>3. TaskTypes'
        BY <1>1, <1>5, <2>3, <3>2 DEF Offer, TaskTypes
      <3> QED
        BY <2>1, <3>2, <3>3, Together
    <2> QED
      BY <2>2, <2>3
  <1>6. CASE Pinned(t) \/ Revision(t) \/ Reread(t)
    <2>1. SharedTypes' /\ ProcessTypes'
      BY <1>1, <1>3, <1>6 DEF Pinned, Revision, Reread, redis, process, SharedTypes, ProcessTypes
    <2>2. ~At(t, "idle") /\ UNCHANGED <<ask, owner, background, patience>>
      BY <1>6 DEF Pinned, Revision, Reread, At
    <2>3. found[t] \in 0..MaxRevision /\ hint.id \in 0..MaxRevision
      BY <1>1 DEF TaskTypes, SharedTypes
    <2>4. CASE \E r \in 0..MaxRevision : Resolved(t, r)
      BY <1>1, <2>1, <2>2, <2>4, ResolvedKeeps, Together
    <2>5. CASE ~\E r \in 0..MaxRevision : Resolved(t, r)
      <3>1. PICK label \in Labels : Goto(t, label)
        BY <1>6, <2>3, <2>5 DEF Pinned, Revision, Reread, AskRevision, Labels
      <3>2. found' \in {found, [found EXCEPT ![t] = 0]}
        BY <1>6, <2>3, <2>5 DEF Pinned, Revision, Reread
      <3>3. pc' \in [Tasks -> Labels] /\ Serving'
        BY <1>1, <1>2, <2>2, <3>1, GotoKeeps
      <3>4. TaskTypes'
        BY <1>1, <2>2, <3>2, <3>3 DEF TaskTypes
      <3> QED
        BY <2>1, <3>3, <3>4, Together
    <2> QED
      BY <2>4, <2>5
  <1>7. CASE ReadHead(t)
    <2>1. SharedTypes' /\ ProcessTypes'
      BY <1>1, <1>3, <1>7 DEF ReadHead, redis, SharedTypes, ProcessTypes
    <2>2. pc' \in [Tasks -> Labels] /\ Serving'
      BY <1>1, <1>2, <1>7, GotoKeeps DEF ReadHead, At, Labels
    <2>3. head \in 0..MaxRevision
      BY <1>1 DEF SharedTypes, Revisions
    <2>4. TaskTypes'
      BY <1>1, <1>7, <2>2, <2>3 DEF ReadHead, TaskTypes
    <2> QED
      BY <2>1, <2>2, <2>4, Together
  <1>8. CASE ReadFails(t) \/ Wait(t)
    <2>1. SharedTypes' /\ ProcessTypes'
      BY <1>1, <1>3, <1>8 DEF ReadFails, Wait, redis, process, SharedTypes, ProcessTypes
    <2>2. CASE Over(t)
      BY <1>1, <2>1, <2>2, OverKeeps, Together
    <2>3. CASE ~Over(t)
      <3>1. /\ Key(t) \in Keys /\ UNCHANGED <<ask, found, owner, background, patience>>
            /\ \E label \in Labels : Goto(t, label)
        BY <1>2, <1>8, <2>3 DEF ReadFails, Wait, At, AnyOf, Labels
      <3>2. pc' \in [Tasks -> Labels] /\ Serving'
        BY <1>1, <3>1, GotoKeeps
      <3>3. TaskTypes'
        BY <1>1, <3>1, <3>2 DEF TaskTypes
      <3> QED
        BY <2>1, <3>2, <3>3, Together
    <2> QED
      BY <2>2, <2>3
  <1>9. CASE Adopt(t)
    <2> DEFINE published == [id |-> found[t], left |-> Hold]
    <2>1. published \in [id : 0..MaxRevision, left : 0..Hold]
      BY <1>1 DEF TaskTypes
    <2>2. hint' \in {hint, published}
      BY <1>9 DEF Adopt
    <2>3. SharedTypes'
      BY <1>1, <1>3, <1>9, <2>1, <2>2 DEF Adopt, SharedTypes
    <2>4. ProcessTypes'
      BY <1>1, <1>9 DEF Adopt, ProcessTypes
    <2>5. /\ UNCHANGED ask /\ found' \in {found, [found EXCEPT ![t] = found[t]]}
          /\ UNCHANGED <<owner, background, patience>>
          /\ Key(t) \in Keys
          /\ \E label \in Labels : Goto(t, label)
      BY <1>2, <1>9 DEF Adopt, Resolved, At, Labels
    <2>6. pc' \in [Tasks -> Labels] /\ Serving'
      BY <1>1, <2>5, GotoKeeps
    <2>7. TaskTypes'
      BY <1>1, <2>5, <2>6 DEF TaskTypes
    <2> QED
      BY <2>3, <2>4, <2>6, <2>7, Together
  <1>10. CASE Begin(t)
    <2>1. SharedTypes' /\ ProcessTypes'
      BY <1>2, <1>10, LocksKeeps DEF Begin, At
    <2>2. /\ UNCHANGED <<ask, background>> /\ Key(t) \in Keys
          /\ found' = [found EXCEPT ![t] = 0]
          /\ owner' \in {owner, [owner EXCEPT ![t] = TRUE]}
          /\ patience' \in {patience, [patience EXCEPT ![t] = WaitFor]}
          /\ \E label \in Labels : Goto(t, label)
      BY <1>2, <1>10 DEF Begin, At, Labels
    <2>3. pc' \in [Tasks -> Labels] /\ Serving'
      BY <1>1, <2>2, GotoKeeps
    <2>4. owner' \in [Tasks -> BOOLEAN]
      BY <1>1, <2>2 DEF TaskTypes
    <2>5. found' \in [Tasks -> 0..MaxRevision] /\ patience' \in [Tasks -> 0..WaitFor]
      BY <1>1, <2>2 DEF TaskTypes
    <2>6. TaskTypes'
      BY <1>1, <2>2, <2>3, <2>4, <2>5 DEF TaskTypes
    <2> QED
      BY <2>1, <2>3, <2>6, Together
  <1>11. CASE Rebuild(t)
    <2> DEFINE new == [age |-> 0, fresh |-> FreshFor]
               built == [entry EXCEPT ![Key(t)] = new]
    <2>1. new \in Entries
      BY DEF Entries
    <2>2. built \in [Keys -> Entries]
      BY <1>1, <2>1 DEF SharedTypes
    <2>3. entry' \in {entry, built}
      BY <1>11 DEF Rebuild
    <2>4. SharedTypes' /\ ProcessTypes'
      BY <1>1, <1>3, <1>11, <2>2, <2>3 DEF Rebuild, process, SharedTypes, ProcessTypes
    <2>5. CASE Over(t)
      BY <1>1, <2>4, <2>5, OverKeeps, Together
    <2>6. CASE ~Over(t)
      <3>1. UNCHANGED <<ask, found, owner, background, patience>> /\ Goto(t, "end")
        BY <1>11, <2>6 DEF Rebuild
      <3>2. pc' \in [Tasks -> Labels] /\ Serving'
        BY <1>1, <1>2, <1>11, <3>1, GotoKeeps DEF Rebuild, At, Labels
      <3>3. TaskTypes'
        BY <1>1, <3>1, <3>2 DEF TaskTypes
      <3> QED
        BY <2>4, <3>2, <3>3, Together
    <2> QED
      BY <2>5, <2>6
  <1>12. CASE EndRefresh(t)
    <2> DEFINE p == Home[t]
               k == Key(t)
               without == [tokens EXCEPT ![p] = [@ EXCEPT ![k] = None]]
               unlocked == [lock EXCEPT ![k] = NoLock]
    <2>1. without \in [Processes -> [Keys -> Tasks \cup {None}]]
      BY <1>1 DEF ProcessTypes
    <2>2. unlocked \in [Keys -> [holder : Tasks \cup {None}, left : 0..LockFor]]
      BY <1>1 DEF SharedTypes
    <2>3. /\ lock' \in {lock, unlocked} /\ tokens' = without
          /\ fallback' = [fallback EXCEPT ![p] = @ \ {k}] /\ Over(t)
          /\ Smoothly \/ Trouble
      BY <1>12 DEF EndRefresh
    <2>4. SharedTypes'
      BY <1>1, <1>3, <1>12, <2>2, <2>3 DEF EndRefresh, SharedTypes
    <2>5. ProcessTypes'
      BY <1>1, <1>12, <2>1, <2>3 DEF EndRefresh, ProcessTypes
    <2> QED
      BY <1>1, <2>3, <2>4, <2>5, OverKeeps, Together
  <1> QED
    BY <1>4, <1>5, <1>6, <1>7, <1>8, <1>9, <1>10, <1>11, <1>12 DEF Steps

\* A step that is no task's leaves the labels and the requests alone, or is a crash.
LEMMA OthersKeep ==
    ASSUME TypeOK, Serving,
           \/ \E p \in Processes : ReadToMark(p) \/ Mark(p) \/ Clear(p) \/ Crash(p)
           \/ NewRevision \/ (\E k \in Keys : Evict(k)) \/ RedisRestart \/ DropKey \/ TimePasses
    PROVE  TypeOK' /\ Serving'
  <1> USE CacheAssumption, Nothing DEF CacheAssumption
  <1>1. TaskTypes /\ SharedTypes /\ ProcessTypes
    BY Parts
  <1>2. Smoothly \/ Trouble => troubles' \in 0..MaxTroubles
    BY <1>1 DEF Smoothly, Trouble, SharedTypes
  <1>3. ASSUME UNCHANGED <<pc, ask>> PROVE Serving'
    BY <1>3 DEF Serving, At, Key
  <1>4. CASE \E p \in Processes : ReadToMark(p)
    <2>1. PICK p \in Processes : ReadToMark(p)
      BY <1>4
    <2>2. \A k \in Keys : entry[k].age \in 0..TTL /\ entry[k].fresh \in 0..FreshFor
      BY <1>1 DEF SharedTypes, Entries
    <2>3. PICK k \in Keys :
            LET left == IF entry[k].age < MinAge THEN MinAge - entry[k].age ELSE 0
            IN  /\ left < entry[k].fresh
                /\ marking' = [marking EXCEPT ![p] =
                                 [key |-> k, read |-> [age |-> entry[k].age, fresh |-> left]]]
      BY <2>1 DEF ReadToMark
    <2>4. ProcessTypes'
      <3> DEFINE left == IF entry[k].age < MinAge THEN MinAge - entry[k].age ELSE 0
      <3>1. left \in 0..FreshFor
        BY <2>2, <2>3
      <3> HIDE DEF left
      <3>2. marking' = [marking EXCEPT ![p] =
                          [key |-> k, read |-> [age |-> entry[k].age, fresh |-> left]]]
        BY <2>3 DEF left
      <3> QED
        BY <1>1, <2>1, <2>2, <3>1, <3>2 DEF ReadToMark, ProcessTypes, Entries
    <2>5. SharedTypes' /\ TaskTypes'
      BY <1>1, <2>1 DEF ReadToMark, redis, task, SharedTypes, TaskTypes
    <2> QED
      BY <1>3, <2>1, <2>4, <2>5, Together DEF ReadToMark, task
  <1>5. CASE \E p \in Processes : Mark(p)
    <2>1. PICK p \in Processes : Mark(p)
      BY <1>5
    <2>2. marking[p].read \in Entries
      BY <1>1, <2>1 DEF ProcessTypes
    <2>3. entry' \in [Keys -> Entries]
      BY <1>1, <2>1, <2>2 DEF Mark, SharedTypes
    <2>4. SharedTypes' /\ TaskTypes'
      BY <1>1, <2>1, <2>3 DEF Mark, task, SharedTypes, TaskTypes
    <2>5. ProcessTypes'
      BY <1>1, <2>1 DEF Mark, ProcessTypes
    <2> QED
      BY <1>3, <2>1, <2>4, <2>5, Together DEF Mark, task
  <1>6. CASE \E p \in Processes : Clear(p)
    <2>1. SharedTypes' /\ TaskTypes' /\ ProcessTypes' /\ UNCHANGED <<pc, ask>>
      BY <1>1, <1>2, <1>6 DEF Clear, redis, task, SharedTypes, TaskTypes, ProcessTypes
    <2> QED
      BY <1>3, <2>1, Together
  <1>7. CASE \E p \in Processes : Crash(p)
    <2>1. PICK p \in Processes : Crash(p)
      BY <1>7
    <2>2. SharedTypes'
      BY <1>1, <1>2, <2>1 DEF Crash, redis, SharedTypes
    <2>3. ProcessTypes'
      <3>1. tokens' \in [Processes -> [Keys -> Tasks \cup {None}]]
        BY <1>1, <2>1 DEF Crash, ProcessTypes
      <3>2. fallback' \in [Processes -> SUBSET Keys]
        BY <1>1, <2>1 DEF Crash, ProcessTypes
      <3>3. uncertain' \in [Processes -> BOOLEAN]
        <4>1. PICK b \in BOOLEAN : uncertain' = [uncertain EXCEPT ![p] = b]
          BY <2>1 DEF Crash
        <4> QED
          BY <1>1, <4>1 DEF ProcessTypes
      <3>4. marking' \in [Processes -> [key : Keys \cup {None}, read : Entries]]
        BY <1>1, <2>1 DEF Crash, ProcessTypes
      <3> QED
        BY <3>1, <3>2, <3>3, <3>4 DEF ProcessTypes
    <2>4. pc' \in [Tasks -> Labels] /\ ask' \in [Tasks -> [key : Keys \cup {None}, warm : BOOLEAN]]
      BY <1>1, <2>1 DEF Crash, TaskTypes, Labels
    <2>5. found' \in [Tasks -> 0..MaxRevision] /\ patience' \in [Tasks -> 0..WaitFor]
      BY <1>1, <2>1 DEF Crash, TaskTypes
    <2>6. owner' \in [Tasks -> BOOLEAN] /\ background' \in [Tasks -> BOOLEAN]
      BY <1>1, <2>1 DEF Crash, TaskTypes
    <2>7. TaskTypes'
      BY <2>4, <2>5, <2>6 DEF TaskTypes
    <2>8. Serving'
      BY <1>1, <2>1 DEF Crash, Serving, At, Key, TaskTypes
    <2> QED
      BY <2>2, <2>3, <2>7, <2>8, Together
  <1>8. CASE NewRevision \/ (\E k \in Keys : Evict(k)) \/ RedisRestart \/ DropKey
    <2>1. TaskTypes' /\ ProcessTypes' /\ UNCHANGED <<pc, ask>>
      BY <1>1, <1>8 DEF NewRevision, Evict, RedisRestart, DropKey, process, task,
                        TaskTypes, ProcessTypes
    <2>2. head' \in Revisions
      BY <1>1, <1>8 DEF NewRevision, Evict, RedisRestart, DropKey, SharedTypes, Revisions
    <2>3. entry' \in [Keys -> Entries]
      BY <1>1, <1>8 DEF NewRevision, Evict, RedisRestart, DropKey, redis, SharedTypes
    <2>4. lock' \in [Keys -> [holder : Tasks \cup {None}, left : 0..LockFor]]
      BY <1>1, <1>8 DEF NewRevision, Evict, RedisRestart, DropKey, redis, SharedTypes
    <2>5. hint' \in [id : 0..MaxRevision, left : 0..Hold] /\ troubles' \in 0..MaxTroubles
      BY <1>1, <1>2, <1>8 DEF NewRevision, Evict, RedisRestart, DropKey, redis, SharedTypes, Smoothly
    <2>6. SharedTypes'
      BY <2>2, <2>3, <2>4, <2>5 DEF SharedTypes
    <2> QED
      BY <1>3, <2>1, <2>6, Together
  <1>9. CASE TimePasses
    <2>1. \A e \in Entries : Aged(e) \in Entries
      BY DEF Entries, Aged, Less
    <2>3. lock' \in [Keys -> [holder : Tasks \cup {None}, left : 0..LockFor]]
      BY <1>1, <1>9 DEF TimePasses, SharedTypes
    <2>4. hint' \in [id : 0..MaxRevision, left : 0..Hold]
      BY <1>1, <1>9 DEF TimePasses, SharedTypes
    <2>5. entry' \in [Keys -> Entries]
      BY <1>1, <1>9, <2>1 DEF TimePasses, SharedTypes
    <2>6. SharedTypes'
      BY <1>1, <1>9, <2>3, <2>4, <2>5 DEF TimePasses, SharedTypes
    <2>7. \A p \in Processes : marking[p] \in [key : Keys \cup {None}, read : Entries]
                              /\ Aged(marking[p].read) \in Entries
      BY <1>1, <2>1 DEF ProcessTypes
    <2>8. marking' \in [Processes -> [key : Keys \cup {None}, read : Entries]]
      <3> HIDE DEF Aged
      <3> QED
        BY <1>9, <2>7 DEF TimePasses
    <2>9. ProcessTypes'
      BY <1>1, <1>9, <2>8 DEF TimePasses, ProcessTypes
    <2>10. patience' \in [Tasks -> 0..WaitFor]
      <3>1. \A n \in 0..WaitFor : Less(n) \in 0..WaitFor
        BY DEF Less
      <3> HIDE DEF Less
      <3> QED
        BY <1>1, <1>9, <3>1 DEF TimePasses, TaskTypes
    <2>11. TaskTypes'
      BY <1>1, <1>9, <2>10 DEF TimePasses, TaskTypes
    <2> QED
      BY <1>3, <1>9, <2>6, <2>9, <2>11, Together DEF TimePasses
  <1> QED
    BY <1>4, <1>5, <1>6, <1>7, <1>8, <1>9

-----------------------------------------------------------------------------
(* Locks and tokens are kept only for tasks that give them back *)

\* A step by which a task keeps what it owns, and begin_refresh gives nothing new.
LEMMA SameOwners ==
    ASSUME TypeOK, Ownership, GivenBack, NEW t \in Tasks,
           \A u \in Tasks \ {t} : /\ pc'[u] = pc[u] /\ ask'[u] = ask[u]
                                 /\ owner'[u] = owner[u] /\ background'[u] = background[u],
           owner'[t] = owner[t] /\ (owner[t] => ask'[t] = ask[t]),
           background'[t] => owner'[t],
           owner'[t] => \/ background'[t] /\ pc'[t] \in {"revision", "database", "adopt", "reread"}
                        \/ pc'[t] \in {"build", "end"},
           pc'[t] = "end" => owner'[t],
           UNCHANGED <<tokens, fallback>>
    PROVE  Ownership' /\ GivenBack'
  <1>1. Ownership'
    BY DEF Ownership, At, AnyOf
  <1>2. \A u \in Tasks : owner[u] => owner'[u] /\ Key(u)' = Key(u)
    BY DEF Key
  <1>3. \A p \in Processes, k \in Keys : tokens[p][k] \in Tasks \cup {None}
    BY Parts DEF ProcessTypes
  <1>4. GivenBack'
    BY <1>2, <1>3 DEF GivenBack
  <1> QED
    BY <1>1, <1>4

\* A step by which begin_refresh accepts a task, or does not.
LEMMA LocksOwned ==
    ASSUME TypeOK, Ownership, GivenBack, NEW t \in Tasks, Key(t) \in Keys, NEW accepted \in BOOLEAN,
           Locks(t, accepted), ~owner[t],
           \A u \in Tasks \ {t} : /\ pc'[u] = pc[u] /\ ask'[u] = ask[u]
                                 /\ owner'[u] = owner[u] /\ background'[u] = background[u],
           owner'[t] = accepted, accepted => ask'[t] = ask[t],
           background'[t] => owner'[t],
           owner'[t] => \/ background'[t] /\ pc'[t] \in {"revision", "database", "adopt", "reread"}
                        \/ pc'[t] \in {"build", "end"},
           pc'[t] = "end" => owner'[t]
    PROVE  Ownership' /\ GivenBack'
  <1> DEFINE p == Home[t]
             k == Key(t)
  <1>1. Ownership'
    BY DEF Ownership, At, AnyOf
  <1>2. p \in Processes /\ ProcessTypes
    BY Parts, CacheAssumption DEF CacheAssumption
  <1>3. \A q \in Processes, m \in Keys :
          m \in fallback'[q] => m \in fallback[q] \/ (q = p /\ m = k /\ (accepted \/ m \in fallback[q]))
    BY <1>2 DEF Locks, ProcessTypes
  <1>4. \A q \in Processes, m \in Keys :
          tokens'[q][m] = tokens[q][m] \/ (q = p /\ m = k /\ accepted /\ tokens'[q][m] = t)
    <2> DEFINE kept == [tokens EXCEPT ![p] = [@ EXCEPT ![k] = t]]
    <2>1. tokens' = tokens \/ (tokens' = kept /\ accepted)
      BY DEF Locks
    <2>2. \A q \in Processes, m \in Keys :
            kept[q][m] = IF q = p /\ m = k THEN t ELSE tokens[q][m]
      BY <1>2 DEF ProcessTypes
    <2> HIDE DEF kept
    <2> QED
      BY <2>1, <2>2
  <1>5. \A u \in Tasks : owner[u] => owner'[u] /\ ask'[u] = ask[u]
    OBVIOUS
  <1>6. \A q \in Processes, m \in Keys : tokens[q][m] \in Tasks \cup {None}
    BY <1>2 DEF ProcessTypes
  <1>7. accepted => owner'[t] /\ ask'[t].key = k
    BY DEF Key
  <1>8. GivenBack'
    <2> HIDE DEF k, p
    <2>1. ASSUME NEW q \in Processes, NEW m \in Keys, m \in fallback'[q]
          PROVE  \E u \in Tasks : Home[u] = q /\ owner'[u] /\ ask'[u].key = m
      BY <1>3, <1>5, <1>7, <2>1 DEF GivenBack, Key, p
    <2>2. ASSUME NEW q \in Processes, NEW m \in Keys, NEW u, u = tokens'[q][m], u # None
          PROVE  Home[u] = q /\ owner'[u] /\ ask'[u].key = m
      <3>1. CASE u = tokens[q][m]
        BY <1>5, <1>6, <2>2, <3>1 DEF GivenBack, Key
      <3>2. CASE u # tokens[q][m]
        BY <1>4, <1>7, <2>2, <3>2 DEF p
      <3> QED
        BY <3>1, <3>2
    <2> QED
      BY <2>1, <2>2 DEF GivenBack, Key
  <1> QED
    BY <1>1, <1>8

\* Ownership survives a task that owns nothing and is over.
LEMMA OverOwned ==
    ASSUME TypeOK, Ownership, GivenBack, NEW t \in Tasks, Over(t), ~owner[t],
           UNCHANGED <<tokens, fallback>>
    PROVE  Ownership' /\ GivenBack'
  <1>1. /\ \A u \in Tasks \ {t} : /\ pc'[u] = pc[u] /\ ask'[u] = ask[u]
                                 /\ owner'[u] = owner[u] /\ background'[u] = background[u]
        /\ pc'[t] = "idle" /\ owner'[t] = FALSE /\ background'[t] = FALSE /\ owner[t] = FALSE
    BY Parts DEF TaskTypes, Over, Goto
  <1> QED
    BY <1>1, SameOwners

LEMMA OwnershipKept ==
    ASSUME TypeOK, Serving, Ownership, GivenBack, Next
    PROVE  Ownership' /\ GivenBack'
  <1> USE CacheAssumption DEF CacheAssumption
  <1>1. TaskTypes /\ ProcessTypes
    BY Parts
  <1>2. ASSUME NEW t \in Tasks, Ask(t) PROVE Ownership' /\ GivenBack'
    <2>1. PICK label \in {"offer", "pinned", "revision", "database"} : Goto(t, label)
      BY <1>2 DEF Ask, AskRevision
    <2>2. ~owner[t] /\ ~background[t]
      BY <1>2 DEF Ask, Ownership, At, AnyOf
    <2>3. UNCHANGED <<tokens, fallback, owner, background>>
      BY <1>2 DEF Ask, process
    <2>4. \A u \in Tasks \ {t} : pc'[u] = pc[u] /\ ask'[u] = ask[u]
      BY <1>1, <1>2, <2>1 DEF Ask, Goto, TaskTypes
    <2>5. pc'[t] = label
      BY <1>1, <2>1 DEF Goto, TaskTypes
    <2> QED
      BY <2>2, <2>3, <2>4, <2>5, SameOwners
  <1>3. ASSUME NEW t \in Tasks, Offer(t) PROVE Ownership' /\ GivenBack'
    <2>1. Key(t) \in Keys /\ ~owner[t]
      BY <1>3 DEF Offer, Serving, Ownership, At, AnyOf
    <2>2. CASE Locks(t, FALSE) /\ Over(t)
      <3>1. /\ \A u \in Tasks \ {t} : /\ pc'[u] = pc[u] /\ ask'[u] = ask[u]
                                     /\ owner'[u] = owner[u] /\ background'[u] = background[u]
            /\ pc'[t] = "idle" /\ owner'[t] = FALSE /\ ~background'[t]
        BY <1>1, <2>2 DEF TaskTypes, Over, Goto
      <3> QED
        BY <2>1, <2>2, <3>1, LocksOwned
    <2>3. CASE ~(Locks(t, FALSE) /\ Over(t))
      <3>1. PICK label \in {"revision", "database"} : Goto(t, label)
        BY <1>3, <2>3 DEF Offer, AskRevision
      <3>2. /\ Locks(t, TRUE) /\ UNCHANGED ask
            /\ owner' = [owner EXCEPT ![t] = TRUE]
            /\ background' = [background EXCEPT ![t] = TRUE]
        BY <1>3, <2>3 DEF Offer
      <3>3. /\ \A u \in Tasks \ {t} : /\ pc'[u] = pc[u] /\ ask'[u] = ask[u]
                                     /\ owner'[u] = owner[u] /\ background'[u] = background[u]
            /\ pc'[t] = label /\ owner'[t] = TRUE /\ background'[t]
        BY <1>1, <3>1, <3>2 DEF TaskTypes, Goto
      <3> QED
        BY <2>1, <3>2, <3>3, LocksOwned
    <2> QED
      BY <2>2, <2>3
  <1>4. ASSUME NEW t \in Tasks, Begin(t) PROVE Ownership' /\ GivenBack'
    <2>1. Key(t) \in Keys /\ ~owner[t] /\ ~background[t] /\ UNCHANGED <<ask, background>>
      BY <1>4 DEF Begin, Serving, Ownership, At, AnyOf
    <2>2. PICK accepted \in BOOLEAN :
            /\ Locks(t, accepted) /\ Goto(t, IF accepted THEN "build" ELSE "wait")
            /\ owner' = [owner EXCEPT ![t] = accepted]
      <3>1. owner = [owner EXCEPT ![t] = FALSE]
        BY <1>1, <2>1 DEF TaskTypes
      <3>2. CASE Locks(t, TRUE) /\ Goto(t, "build") /\ owner' = [owner EXCEPT ![t] = TRUE]
        BY <3>2
      <3>3. CASE Locks(t, FALSE) /\ Goto(t, "wait") /\ UNCHANGED owner
        BY <3>1, <3>3
      <3> QED
        BY <1>4, <3>2, <3>3 DEF Begin
    <2>3. /\ \A u \in Tasks \ {t} : /\ pc'[u] = pc[u] /\ ask'[u] = ask[u]
                                   /\ owner'[u] = owner[u] /\ background'[u] = background[u]
          /\ pc'[t] = IF accepted THEN "build" ELSE "wait"
          /\ owner'[t] = accepted /\ ~background'[t]
      BY <1>1, <2>1, <2>2 DEF TaskTypes, Goto
    <2> QED
      BY <2>1, <2>2, <2>3, LocksOwned
  <1>5. ASSUME NEW t \in Tasks, Pinned(t) \/ Revision(t) \/ ReadHead(t) \/ Adopt(t) \/ Reread(t)
        PROVE  Ownership' /\ GivenBack'
    <2>1. /\ UNCHANGED <<tokens, fallback, ask, owner, background>>
          /\ AnyOf(t, {"pinned", "revision", "database", "adopt", "reread"})
      BY <1>5 DEF Pinned, Revision, ReadHead, Adopt, Reread, process, At, AnyOf
    <2>2. background[t] <=> owner[t]
      BY <2>1 DEF Ownership, At, AnyOf
    <2>3. owner[t] => ~At(t, "pinned")
      BY <2>1 DEF Ownership, At, AnyOf
    <2>4. PICK label \in {"revision", "database", "adopt", "reread", "begin", "build"} :
            Goto(t, label) /\ (owner[t] => label # "begin") /\ (~owner[t] => label # "build")
      <3>1. \A r : Resolved(t, r) => Goto(t, IF owner[t] THEN "build" ELSE "begin")
        BY <2>2 DEF Resolved
      <3>2. CASE Pinned(t)
        BY <2>1, <3>1, <3>2 DEF Pinned, AskRevision
      <3>3. CASE Revision(t) \/ ReadHead(t)
        BY <2>1, <3>1, <3>3 DEF Revision, ReadHead
      <3>4. CASE Reread(t)
        BY <2>1, <3>1, <3>4 DEF Reread
      <3>5. CASE Adopt(t)
        BY <2>1, <2>2, <3>1, <3>5 DEF Adopt
      <3> QED
        BY <1>5, <3>2, <3>3, <3>4, <3>5
    <2>5. /\ \A u \in Tasks \ {t} : pc'[u] = pc[u]
          /\ pc'[t] = label
      BY <1>1, <2>4 DEF TaskTypes, Goto
    <2> QED
      BY <2>1, <2>2, <2>4, <2>5, SameOwners
  <1>6. ASSUME NEW t \in Tasks, ReadFails(t) PROVE Ownership' /\ GivenBack'
    <2>1. UNCHANGED <<tokens, fallback>> /\ (background[t] <=> owner[t])
      BY <1>6 DEF ReadFails, process, Ownership, At, AnyOf
    <2>2. CASE background[t]
      <3>1. Goto(t, "end") /\ UNCHANGED <<ask, owner, background>>
        BY <1>6, <2>2 DEF ReadFails
      <3>2. (\A u \in Tasks \ {t} : pc'[u] = pc[u]) /\ pc'[t] = "end"
        BY <1>1, <3>1 DEF TaskTypes, Goto
      <3> QED
        BY <2>1, <2>2, <3>1, <3>2, SameOwners
    <2>3. CASE ~background[t]
      BY <1>6, <2>1, <2>3, OverOwned DEF ReadFails
    <2> QED
      BY <2>2, <2>3
  <1>7. ASSUME NEW t \in Tasks, Wait(t) PROVE Ownership' /\ GivenBack'
    <2>1. UNCHANGED <<tokens, fallback>> /\ ~owner[t] /\ ~background[t]
      BY <1>7 DEF Wait, process, Ownership, At, AnyOf
    <2>2. CASE Over(t)
      BY <2>1, <2>2, OverOwned
    <2>3. CASE ~Over(t)
      <3>1. Goto(t, "build") /\ UNCHANGED <<ask, owner, background>>
        BY <1>7, <2>3 DEF Wait
      <3>2. (\A u \in Tasks \ {t} : pc'[u] = pc[u]) /\ pc'[t] = "build"
        BY <1>1, <3>1 DEF TaskTypes, Goto
      <3> QED
        BY <2>1, <3>1, <3>2, SameOwners
    <2> QED
      BY <2>2, <2>3
  <1>8. ASSUME NEW t \in Tasks, Rebuild(t) PROVE Ownership' /\ GivenBack'
    <2>1. UNCHANGED <<tokens, fallback>> /\ (background[t] => owner[t])
      BY <1>8 DEF Rebuild, process, Ownership
    <2>2. CASE owner[t]
      <3>1. Goto(t, "end") /\ UNCHANGED <<ask, owner, background>>
        BY <1>8, <2>2 DEF Rebuild
      <3>2. (\A u \in Tasks \ {t} : pc'[u] = pc[u]) /\ pc'[t] = "end"
        BY <1>1, <3>1 DEF TaskTypes, Goto
      <3> QED
        BY <2>1, <2>2, <3>1, <3>2, SameOwners
    <2>3. CASE ~owner[t]
      BY <1>8, <2>1, <2>3, OverOwned DEF Rebuild
    <2> QED
      BY <2>2, <2>3
  <1>9. ASSUME NEW t \in Tasks, EndRefresh(t) PROVE Ownership' /\ GivenBack'
    <2> DEFINE p == Home[t]
               k == Key(t)
               without == [tokens EXCEPT ![p] = [@ EXCEPT ![k] = None]]
    <2>1. /\ \A u \in Tasks \ {t} : /\ pc'[u] = pc[u] /\ ask'[u] = ask[u]
                                   /\ owner'[u] = owner[u] /\ background'[u] = background[u]
          /\ pc'[t] = "idle" /\ ~owner'[t] /\ ~background'[t]
      BY <1>1, <1>9 DEF EndRefresh, TaskTypes, Over, Goto
    <2>2. Ownership'
      BY <2>1 DEF Ownership, At, AnyOf
    <2>3. p \in Processes /\ k \in Keys
      BY <1>9 DEF EndRefresh, Serving, At
    <2>4. \A q \in Processes, m \in Keys :
            without[q][m] = IF q = p /\ m = k THEN None ELSE tokens[q][m]
      BY <1>1, <2>3 DEF ProcessTypes
    <2>5. tokens' = without
      BY <1>9 DEF EndRefresh
    <2>6. \A q \in Processes, m \in Keys :
            m \in fallback'[q] => m \in fallback[q] /\ ~(q = p /\ m = k)
      BY <1>1, <1>9, <2>3 DEF EndRefresh, ProcessTypes
    <2>7. \A q \in Processes, m \in Keys : tokens[q][m] \in Tasks \cup {None}
      BY <1>1 DEF ProcessTypes
    <2>8. GivenBack'
      <3> HIDE DEF without
      <3>1. ASSUME NEW q \in Processes, NEW m \in Keys, m \in fallback'[q]
            PROVE  \E u \in Tasks : Home[u] = q /\ owner'[u] /\ ask'[u].key = m
        <4>1. PICK u \in Tasks : Home[u] = q /\ owner[u] /\ ask[u].key = m
          BY <2>6, <3>1 DEF GivenBack, Key
        <4>2. u # t
          BY <2>6, <3>1, <4>1 DEF Key
        <4> QED
          BY <2>1, <4>1, <4>2
      <3>2. ASSUME NEW q \in Processes, NEW m \in Keys, NEW u, u = tokens'[q][m], u # None
            PROVE  Home[u] = q /\ owner'[u] /\ ask'[u].key = m
        <4>1. u = tokens[q][m] /\ ~(q = p /\ m = k)
          BY <2>4, <2>5, <3>2
        <4>2. u \in Tasks /\ Home[u] = q /\ owner[u] /\ ask[u].key = m
          BY <2>7, <3>2, <4>1 DEF GivenBack, Key
        <4>3. u # t
          BY <4>1, <4>2 DEF Key
        <4> QED
          BY <2>1, <4>2, <4>3
      <3> QED
        BY <3>1, <3>2 DEF GivenBack, Key
    <2> QED
      BY <2>2, <2>8
  <1>10. ASSUME NEW p \in Processes, Crash(p) PROVE Ownership' /\ GivenBack'
    <2>1. \A u \in Tasks :
            IF Home[u] = p
            THEN pc'[u] = "idle" /\ owner'[u] = FALSE /\ background'[u] = FALSE
            ELSE /\ pc'[u] = pc[u] /\ ask'[u] = ask[u]
                 /\ owner'[u] = owner[u] /\ background'[u] = background[u]
      BY <1>1, <1>10 DEF Crash, TaskTypes
    <2>2. Ownership'
      <3> SUFFICES ASSUME NEW u \in Tasks
                   PROVE  /\ owner'[u] => \/ /\ background'[u]
                                             /\ pc'[u] \in {"revision", "database", "adopt", "reread"}
                                          \/ pc'[u] \in {"build", "end"}
                          /\ background'[u] => owner'[u]
                          /\ pc'[u] = "end" => owner'[u]
        BY DEF Ownership, At, AnyOf
      <3>1. CASE Home[u] = p
        BY <2>1, <3>1
      <3>2. CASE Home[u] # p
        BY <2>1, <3>2 DEF Ownership, At, AnyOf
      <3> QED
        BY <3>1, <3>2
    <2>3. \A q \in Processes : IF q = p THEN (\A k \in Keys : tokens'[q][k] = None) /\ fallback'[q] = {}
                              ELSE tokens'[q] = tokens[q] /\ fallback'[q] = fallback[q]
      BY <1>1, <1>10 DEF Crash, ProcessTypes
    <2>4. \A q \in Processes, m \in Keys : tokens[q][m] \in Tasks \cup {None}
      BY <1>1 DEF ProcessTypes
    <2>5. GivenBack'
      BY <2>1, <2>3, <2>4 DEF GivenBack, Key
    <2> QED
      BY <2>2, <2>5
  <1>11. CASE \/ \E p \in Processes : ReadToMark(p) \/ Mark(p) \/ Clear(p)
              \/ NewRevision \/ (\E k \in Keys : Evict(k)) \/ RedisRestart \/ DropKey \/ TimePasses
    <2>1. UNCHANGED <<pc, owner, background, tokens, fallback, ask>>
      BY <1>11 DEF ReadToMark, Mark, Clear, NewRevision, Evict, RedisRestart, DropKey, TimePasses,
                   process, task
    <2> QED
      BY <2>1 DEF Ownership, GivenBack, At, AnyOf, Key
  <1> QED
    BY <1>2, <1>3, <1>4, <1>5, <1>6, <1>7, <1>8, <1>9, <1>10, <1>11 DEF Next, Steps

-----------------------------------------------------------------------------
LEMMA Stutter ==
    ASSUME IInv, UNCHANGED vars
    PROVE  IInv'
  BY DEF IInv, vars, redis, process, task, TypeOK, Serving, Ownership, GivenBack, At, AnyOf, Key

LEMMA NextIInv ==
    ASSUME IInv, [Next]_vars
    PROVE  IInv'
  <1>1. CASE Next
    <2>1. TypeOK' /\ Serving'
      BY <1>1, TasksKeep, OthersKeep DEF IInv, Next
    <2> QED
      BY <1>1, <2>1, OwnershipKept DEF IInv
  <1> QED
    BY <1>1, Stutter

LEMMA Inductive == Spec => []IInv
  BY InitIInv, NextIInv, PTL DEF Spec

\* No step leaves a lock in Redis without the token in its holder's process.
LEMMA StepNoneAbandoned ==
    ASSUME IInv, NoneAbandoned, [Next]_vars
    PROVE  NoneAbandoned'
  <1> USE CacheAssumption DEF CacheAssumption
  <1>1. /\ TypeOK /\ Serving /\ TaskTypes /\ SharedTypes /\ ProcessTypes
        /\ \A k \in Keys : lock[k].holder \in Tasks \cup {None}
    BY Parts DEF IInv, SharedTypes
  <1> SUFFICES ASSUME troubles' = 0, NEW m \in Keys, lock'[m].holder # None
               PROVE  tokens'[Home[lock'[m].holder]][m] = lock'[m].holder
    BY DEF NoneAbandoned
  <1>2. troubles = 0 /\ UNCHANGED troubles
    <2> SUFFICES Trouble \/ UNCHANGED troubles
      BY <1>1 DEF Trouble, SharedTypes
    <2>1. ASSUME NEW t \in Tasks, Ask(t) \/ Steps(t) PROVE Trouble \/ UNCHANGED troubles
      <3>1. CASE Offer(t) \/ Begin(t)
        BY <3>1 DEF Offer, Begin, Locks, Smoothly
      <3>2. CASE Pinned(t) \/ Revision(t) \/ ReadHead(t) \/ ReadFails(t)
        BY <3>2 DEF Pinned, Revision, ReadHead, ReadFails, Smoothly
      <3>3. CASE Adopt(t) \/ Reread(t) \/ Wait(t)
        BY <3>3 DEF Adopt, Reread, Wait, Smoothly
      <3>4. CASE Rebuild(t) \/ EndRefresh(t)
        BY <3>4 DEF Rebuild, EndRefresh, Smoothly
      <3>5. CASE Ask(t)
        BY <3>5 DEF Ask, Smoothly
      <3> QED
        BY <2>1, <3>1, <3>2, <3>3, <3>4, <3>5 DEF Steps
    <2>2. ASSUME NEW p \in Processes, ReadToMark(p) \/ Mark(p) \/ Clear(p) \/ Crash(p)
          PROVE  Trouble \/ UNCHANGED troubles
      BY <2>2 DEF ReadToMark, Mark, Clear, Crash
    <2>3. CASE \/ NewRevision \/ RedisRestart \/ DropKey \/ TimePasses \/ UNCHANGED vars
               \/ \E k \in Keys : Evict(k)
      BY <2>3 DEF NewRevision, RedisRestart, DropKey, TimePasses, Evict, vars
    <2> QED
      BY <2>1, <2>2, <2>3 DEF Next
  <1>3. ASSUME UNCHANGED tokens, lock'[m].holder = lock[m].holder
        PROVE  tokens'[Home[lock'[m].holder]][m] = lock'[m].holder
    BY <1>2, <1>3 DEF NoneAbandoned
  <1>4. ASSUME NEW t \in Tasks, NEW accepted \in BOOLEAN, Locks(t, accepted), Key(t) \in Keys
        PROVE  tokens'[Home[lock'[m].holder]][m] = lock'[m].holder
    <2> DEFINE p == Home[t]
               k == Key(t)
               taken == [lock EXCEPT ![k] = [holder |-> t, left |-> LockFor]]
               kept == [tokens EXCEPT ![p] = [@ EXCEPT ![k] = t]]
    <2>1. \/ UNCHANGED <<lock, tokens>>
          \/ lock' = taken /\ tokens' = kept
      BY <1>1, <1>2, <1>4 DEF Locks, Trouble, SharedTypes
    <2>2. /\ taken[k].holder = t /\ (m # k => taken[m] = lock[m])
          /\ \A q \in Processes : kept[q][m] = IF q = p /\ m = k THEN t ELSE tokens[q][m]
      BY <1>1, <1>4 DEF SharedTypes, ProcessTypes
    <2> HIDE DEF taken, kept
    <2>3. CASE UNCHANGED <<lock, tokens>>
      BY <1>3, <2>3
    <2>4. CASE lock' = taken /\ tokens' = kept
      <3>1. CASE m = k
        BY <2>2, <2>4, <3>1
      <3>2. CASE m # k
        BY <1>1, <1>2, <2>2, <2>4, <3>2 DEF NoneAbandoned
      <3> QED
        BY <3>1, <3>2
    <2> QED
      BY <2>1, <2>3, <2>4
  <1>5. ASSUME NEW t \in Tasks, EndRefresh(t)
        PROVE  tokens'[Home[lock'[m].holder]][m] = lock'[m].holder
    <2> DEFINE p == Home[t]
               k == Key(t)
               dropped == [tokens EXCEPT ![p] = [@ EXCEPT ![k] = None]]
    <2>1. k \in Keys /\ p \in Processes /\ tokens' = dropped
      BY <1>1, <1>5 DEF EndRefresh, Serving, At
    <2>2. \A q \in Processes : dropped[q][m] = IF q = p /\ m = k THEN None ELSE tokens[q][m]
      BY <1>1, <2>1 DEF ProcessTypes
    <2>3. lock' = IF tokens[p][k] # None /\ lock[k].holder = tokens[p][k]
                  THEN [lock EXCEPT ![k] = NoLock] ELSE lock
      BY <1>1, <1>2, <1>5 DEF EndRefresh, Trouble, SharedTypes
    <2> HIDE DEF dropped
    <2>4. lock'[m].holder = lock[m].holder
      BY <1>1, <2>1, <2>3 DEF SharedTypes, NoLock
    <2>5. tokens[Home[lock[m].holder]][m] = lock[m].holder /\ Home[lock[m].holder] \in Processes
      BY <1>1, <1>2, <2>4 DEF NoneAbandoned
    <2>6. ~(Home[lock[m].holder] = p /\ m = k)
      BY <1>1, <2>3, <2>4, <2>5 DEF SharedTypes, NoLock
    <2> QED
      BY <2>1, <2>2, <2>4, <2>5, <2>6
  <1>6. ASSUME TimePasses PROVE lock'[m].holder = lock[m].holder /\ UNCHANGED tokens
    BY <1>1, <1>6 DEF TimePasses, NoLock, SharedTypes
  <1>7. ASSUME NEW t \in Tasks, Offer(t) \/ Begin(t)
        PROVE  tokens'[Home[lock'[m].holder]][m] = lock'[m].holder
    <2>1. Key(t) \in Keys /\ \E accepted \in BOOLEAN : Locks(t, accepted)
      BY <1>1, <1>7 DEF Offer, Begin, Serving, At
    <2> QED
      BY <1>4, <2>1
  <1>8. CASE UNCHANGED <<lock, tokens>>
    BY <1>3, <1>8
  <1> QED
    BY <1>2, <1>3, <1>5, <1>6, <1>7, <1>8 DEF vars, redis, process, Next, Steps, Ask, Pinned,
       Revision, ReadHead, ReadFails, Adopt, Reread, Wait, Rebuild, ReadToMark, Mark, Clear,
       Crash, NewRevision, Evict, RedisRestart, DropKey, Trouble, Smoothly

\* Every variable has its type, whatever Redis, the listeners and the clock do.
THEOREM TypeCorrect == Spec => []TypeOK
  <1>1. IInv => TypeOK
    BY DEF IInv
  <1> QED
    BY <1>1, Inductive, PTL

\* No process keeps a lock of its own or a token that nobody will give back
\* (the finally of _build_or_wait and _refresh); and until something fails no lock is
\* left in Redis either.
THEOREM LocksAreGivenBack == Spec => []NoLeak
  <1>1. Init => NoneAbandoned
    BY DEF Init, NoneAbandoned, NoLock
  <1>2. IInv /\ NoneAbandoned /\ [Next]_vars => NoneAbandoned'
    BY StepNoneAbandoned
  <1>3. IInv /\ NoneAbandoned => NoLeak
    BY DEF IInv, NoLeak
  <1> QED
    BY <1>1, <1>2, <1>3, Inductive, PTL DEF Spec

\* What a task's step takes away is a lock of its own process (end_refresh).
THEOREM OthersLocksStay == Spec => LockOwned
  <1> DEFINE Owned(k) ==
        /\ lock[k].holder # None /\ lock'[k].holder # lock[k].holder
        /\ pc' # pc /\ Smoothly
        => \E t \in Tasks : Home[t] = Home[lock[k].holder] /\ At(t, "end") /\ ~At(t, "end")'
  <1>1. ASSUME IInv, [Next]_vars, NEW k \in Keys,
               lock[k].holder # None, lock'[k].holder # lock[k].holder, pc' # pc, Smoothly
        PROVE  \E t \in Tasks : Home[t] = Home[lock[k].holder] /\ At(t, "end") /\ ~At(t, "end")'
    <2>1. TaskTypes /\ SharedTypes /\ ProcessTypes
      BY <1>1, Parts DEF IInv
    <2>2. ASSUME NEW t \in Tasks, NEW accepted \in BOOLEAN, Locks(t, accepted)
          PROVE  lock' = lock \/ (lock[Key(t)].holder = None
                                 /\ lock' = [lock EXCEPT ![Key(t)] = [holder |-> t, left |-> LockFor]])
      BY <2>2 DEF Locks
    <2>3. ASSUME NEW t \in Tasks, NEW accepted \in BOOLEAN, Locks(t, accepted)
          PROVE  FALSE
      BY <1>1, <2>1, <2>2, <2>3 DEF SharedTypes
    <2>4. PICK t \in Tasks : EndRefresh(t)
      BY <1>1, <2>3 DEF vars, redis, process, task, Trouble, Smoothly, Next, Steps, Ask, Offer, Pinned,
         Revision, ReadHead, ReadFails, Adopt, Reread, Begin, Wait, Rebuild, ReadToMark, Mark,
         Clear, Crash, NewRevision, Evict, RedisRestart, DropKey, TimePasses
    <2>5. /\ k = Key(t) /\ tokens[Home[t]][k] # None
          /\ lock[k].holder = tokens[Home[t]][k]
      BY <1>1, <2>1, <2>4 DEF EndRefresh, SharedTypes
    <2>6. Home[lock[k].holder] = Home[t]
      BY <1>1, <2>5, CacheAssumption DEF IInv, GivenBack, CacheAssumption
    <2>7. pc[t] = "end" /\ pc'[t] = "idle"
      BY <2>1, <2>4 DEF EndRefresh, At, Over, Goto, TaskTypes
    <2> QED
      BY <2>6, <2>7 DEF At
  <1>2. IInv /\ [Next]_vars => [\A k \in Keys : Owned(k)]_vars
    BY <1>1
  <1> QED
    BY <1>2, Inductive, PTL DEF Spec, LockOwned

\* Processes that look the revision up while it is held build from the same one
\* (set_revision).
THEOREM SameSnapshot == Spec => OneSnapshot
  <1> DEFINE Step == /\ hint.id # 0 /\ hint'.id # 0 => hint'.id = hint.id
                     /\ \A t \in Tasks :
                          Resolves(t) /\ hint'.id # 0 /\ ~uncertain'[Home[t]] /\ Smoothly
                            => found'[t] = hint'.id
  <1>1. ASSUME IInv, Next PROVE Step
    <2>1. TaskTypes /\ SharedTypes /\ ProcessTypes
      BY <1>1, Parts DEF IInv
    <2>2. hint.id # 0 /\ hint'.id # 0 => hint'.id = hint.id
      <3>1. hint' = hint \/ hint' = NoHint \/ hint.id = 0
            \/ hint' = [id |-> hint.id, left |-> hint.left - 1]
        BY <1>1 DEF vars, redis, process, task, Next, Steps, Ask, Offer, Pinned,
           Revision, ReadHead, ReadFails, Adopt, Reread, Begin, Wait, Rebuild, EndRefresh, ReadToMark,
           Mark, Clear, Crash, NewRevision, Evict, RedisRestart, DropKey, TimePasses
      <3> QED
        BY <3>1 DEF NoHint
    <2>3. ASSUME NEW t \in Tasks, Resolves(t), hint'.id # 0, ~uncertain'[Home[t]], Smoothly
          PROVE  found'[t] = hint'.id
      <3>1. /\ pc[t] \in {"revision", "adopt", "reread"} /\ pc'[t] \in {"begin", "build"}
        BY <2>3 DEF Resolves, AnyOf, At
      <3>2. PICK u \in Tasks : Ask(u) \/ Steps(u)
        <4>1. CASE \E p \in Processes : Crash(p)
          BY <2>1, <3>1, <4>1 DEF Crash, TaskTypes
        <4>2. CASE \/ \E p \in Processes : ReadToMark(p) \/ Mark(p) \/ Clear(p)
                   \/ NewRevision \/ (\E k \in Keys : Evict(k))
                   \/ RedisRestart \/ DropKey \/ TimePasses
          <5>1. UNCHANGED pc
            BY <4>2 DEF ReadToMark, Mark, Clear, NewRevision, Evict, RedisRestart, DropKey,
                        TimePasses, process, task
          <5> QED
            BY <3>1, <5>1
        <4> QED
          BY <1>1, <4>1, <4>2 DEF Next
      <3>3. PICK label : Goto(u, label)
        BY <3>2 DEF Steps, Ask, Offer, Pinned, Revision, ReadHead, ReadFails, Adopt, Reread,
                    Begin, Wait, Rebuild, EndRefresh, Over, Resolved, AskRevision
      <3>4. u = t
        BY <2>1, <3>1, <3>3 DEF Goto, TaskTypes
      <3>5. CASE Revision(t)
        BY <2>1, <2>3, <3>1, <3>5 DEF Revision, Resolved, Goto, TaskTypes, redis
      <3>6. CASE Reread(t)
        BY <2>1, <2>3, <3>1, <3>6 DEF Reread, Resolved, Goto, TaskTypes, redis, Trouble, Smoothly, SharedTypes
      <3>7. CASE Adopt(t)
        BY <2>1, <2>3, <3>1, <3>7 DEF Adopt, Goto, TaskTypes, Trouble, Smoothly, SharedTypes
      <3>8. ~(Ask(t) \/ Offer(t) \/ Pinned(t) \/ ReadHead(t) \/ ReadFails(t) \/ Begin(t)
              \/ Wait(t) \/ Rebuild(t) \/ EndRefresh(t))
        BY <3>1 DEF Ask, Offer, Pinned, ReadHead, ReadFails, Begin, Wait, Rebuild, EndRefresh, At, AnyOf
      <3> QED
        BY <3>2, <3>4, <3>5, <3>6, <3>7, <3>8 DEF Steps
    <2> QED
      BY <2>2, <2>3
  <1>2. IInv /\ [Next]_vars => [Step]_vars
    BY <1>1
  <1> QED
    BY <1>2, Inductive, PTL DEF Spec, OneSnapshot

\* What expired or was evicted comes back only as a new answer (invalidate writes
\* with xx).
THEOREM MarkingAddsNothing == Spec => OnlyRebuildsAdd
  <1> DEFINE Step == \A k \in Keys : ~Present(entry[k]) /\ Present(entry'[k])
                       => \E t \in Tasks : At(t, "build") /\ Key(t) = k /\ pc'[t] # "build"
  <1>1. ASSUME IInv, Next, NEW k \in Keys, ~Present(entry[k]), Present(entry'[k])
        PROVE  \E t \in Tasks : At(t, "build") /\ Key(t) = k /\ pc'[t] # "build"
    <2>1. TaskTypes /\ SharedTypes /\ ProcessTypes
      BY <1>1, Parts DEF IInv
    <2>2. entry[k].age \in 0..TTL /\ TTL \in Nat
      BY <2>1, CacheAssumption DEF SharedTypes, Entries, CacheAssumption
    <2>3. ~Present(NoEntry) /\ ~Present(Aged(entry[k]))
      BY <1>1, <2>2 DEF Present, NoEntry, Aged
    <2>4. PICK t \in Tasks : Rebuild(t)
      <3>1. entry'[k] # entry[k] /\ entry'[k] # NoEntry
        BY <1>1, <2>3
      <3>2. ~TimePasses
        BY <1>1, <2>3 DEF TimePasses
      <3>3. ~\E p \in Processes : Mark(p)
        <4> SUFFICES ASSUME NEW p \in Processes, Mark(p) PROVE FALSE
          OBVIOUS
        <4>1. CASE marking[p].key = k
          BY <1>1, <3>1, <4>1 DEF Mark
        <4>2. CASE marking[p].key # k
          BY <2>1, <3>1, <4>2 DEF Mark, SharedTypes
        <4> QED
          BY <4>1, <4>2
      <3>4. ~RedisRestart /\ ~\E m \in Keys : Evict(m)
        BY <2>1, <3>1 DEF RedisRestart, Evict, SharedTypes
      <3> QED
        BY <1>1, <3>1, <3>2, <3>3, <3>4 DEF redis, process, task, Next, Steps, Ask, Offer, Pinned,
           Revision, ReadHead, ReadFails, Adopt, Reread, Begin, Wait, EndRefresh, ReadToMark,
           Clear, Crash, NewRevision, DropKey
    <2>5. Key(t) = k
      BY <1>1, <2>1, <2>4 DEF Rebuild, SharedTypes
    <2>6. At(t, "build") /\ pc'[t] # "build"
      BY <2>1, <2>4 DEF Rebuild, Goto, Over, TaskTypes, At
    <2> QED
      BY <2>5, <2>6
  <1>2. IInv /\ [Next]_vars => [Step]_vars
    BY <1>1
  <1> QED
    BY <1>2, Inductive, PTL DEF Spec, OnlyRebuildsAdd
===============================================================================
