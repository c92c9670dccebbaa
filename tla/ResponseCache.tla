---------------------------- MODULE ResponseCache ----------------------------
(***************************************************************************)
(* The cache of API responses that several API processes share in Redis,   *)
(* api/cache.py and api/cached.py: entries that are served fresh, served   *)
(* stale while one task rebuilds them in the background, or rebuilt by     *)
(* whoever misses; a lock with a bounded lifetime so that one process at a *)
(* time rebuilds a key, with a lock of the process's own when Redis does   *)
(* not answer; and the revision of the data set, published for a while so  *)
(* that every rebuild reads the same snapshot.                             *)
(*                                                                         *)
(* A task is one request and, once its stale answer is out, the background *)
(* refresh it leaves behind.  A step is what happens between two awaits: a *)
(* call of Redis or PostgreSQL and what follows it.  Lifetimes are kept as *)
(* the time that is left of them.  What a response says is left out.       *)
(***************************************************************************)
EXTENDS Integers, FiniteSets

CONSTANTS
    Processes, Tasks, Home,   \* the process in which each task runs
    Keys, None,
    TTL,          \* cache_ttl_seconds
    FreshFor,     \* cache_fresh_seconds, at most TTL
    MinAge,       \* cache_min_age_seconds, at most TTL
    WarmAge,      \* the age the warmup asks for, at least FreshFor
    Hold,         \* cache_revision_hold_seconds
    LockFor,      \* cache_refresh_lock_seconds
    WaitFor,      \* how long a request waits for another's rebuild
    RefreshLimit, \* cache_refresh_concurrency
    Markers,      \* bound: processes whose listeners mark entries
    MaxRevision,  \* bound: revisions of the data set
    MaxTroubles   \* bound: see troubles

ASSUME CacheAssumption ==
    /\ Home \in [Tasks -> Processes]
    /\ Markers \subseteq Processes
    /\ None \notin Tasks \cup Keys
    /\ {TTL, FreshFor, WarmAge, Hold, LockFor, WaitFor, RefreshLimit, MaxRevision}
         \subseteq Nat \ {0}
    /\ {MinAge, MaxTroubles} \subseteq Nat
    /\ FreshFor \in 1..TTL /\ MinAge \in 0..TTL /\ WarmAge >= FreshFor

VARIABLES
    \* PostgreSQL and Redis
    head,        \* the latest revision of the data set
    entry,       \* of each key, its age and how long it is fresh yet
    lock,        \* of each key, whose token it is and how long it lasts yet
    hint,        \* the published revision and how long it is held yet
    \* each process
    tokens,      \* of each key, the task whose token it keeps
    fallback,    \* keys locked for want of Redis
    uncertain,   \* it does not trust the hint
    marking,     \* the entry its listener has read to mark it stale
    \* each task
    pc,
    ask,         \* the key, and whether the warmup asks
    found,       \* the revision the client pinned (0: none), then the one it builds from
    owner,       \* begin_refresh accepted it
    background,  \* it is a task of _REFRESHING
    patience,    \* how long it waits yet
    troubles     \* calls that failed, reconnections, crashes and restarts

redis == <<entry, lock, hint>>
process == <<tokens, fallback, uncertain, marking>>
task == <<pc, ask, found, owner, background, patience>>
vars == <<head, redis, process, task, troubles>>

Revisions == 1..MaxRevision
Entries == [age : 0..TTL, fresh : 0..FreshFor]
NoEntry == [age |-> TTL, fresh |-> 0]
NoLock == [holder |-> None, left |-> 0]
NoHint == [id |-> 0, left |-> 0]
NoMark == [key |-> None, read |-> NoEntry]
NoAsk == [key |-> None, warm |-> FALSE]

\* Every variable has its type.
TypeOK ==
    /\ head \in Revisions
    /\ entry \in [Keys -> Entries]
    /\ lock \in [Keys -> [holder : Tasks \cup {None}, left : 0..LockFor]]
    /\ hint \in [id : 0..MaxRevision, left : 0..Hold]
    /\ tokens \in [Processes -> [Keys -> Tasks \cup {None}]]
    /\ fallback \in [Processes -> SUBSET Keys]
    /\ uncertain \in [Processes -> BOOLEAN]
    /\ marking \in [Processes -> [key : Keys \cup {None}, read : Entries]]
    /\ pc \in [Tasks -> {"idle", "offer", "pinned", "revision", "database", "adopt",
                         "reread", "begin", "build", "wait", "end"}]
    /\ ask \in [Tasks -> [key : Keys \cup {None}, warm : BOOLEAN]]
    /\ found \in [Tasks -> 0..MaxRevision]
    /\ owner \in [Tasks -> BOOLEAN] /\ background \in [Tasks -> BOOLEAN]
    /\ patience \in [Tasks -> 0..WaitFor]
    /\ troubles \in 0..MaxTroubles

Init ==
    /\ head = 1
    /\ entry = [k \in Keys |-> NoEntry]
    /\ lock = [k \in Keys |-> NoLock]
    /\ hint = NoHint
    /\ tokens = [p \in Processes |-> [k \in Keys |-> None]]
    /\ fallback = [p \in Processes |-> {}]
    /\ uncertain \in [Processes -> BOOLEAN]
    /\ marking = [p \in Processes |-> NoMark]
    /\ pc = [t \in Tasks |-> "idle"]
    /\ ask = [t \in Tasks |-> NoAsk]
    /\ found = [t \in Tasks |-> 0]
    /\ owner = [t \in Tasks |-> FALSE]
    /\ background = [t \in Tasks |-> FALSE]
    /\ patience = [t \in Tasks |-> 0]
    /\ troubles = 0

-----------------------------------------------------------------------------
Present(e) == e.age < TTL
Stale(e) == Present(e) /\ e.fresh = 0
\* What get and the age threshold of a warmup leave of an entry.
Usable(e, warm) == Present(e) /\ (warm => e.age < WarmAge)

Refreshing(p) == {t \in Tasks : Home[t] = p /\ background[t]}

\* One more failure of the bounded number.
Trouble == troubles < MaxTroubles /\ troubles' = troubles + 1
Smoothly == UNCHANGED troubles

At(t, label) == pc[t] = label
Goto(t, label) == pc' = [pc EXCEPT ![t] = label]
AnyOf(t, S) == \E label \in S : At(t, label)
Key(t) == ask[t].key

\* The task is over: the request is answered, or the background task is done.
Over(t) ==
    /\ Goto(t, "idle")
    /\ ask' = [ask EXCEPT ![t] = NoAsk]
    /\ found' = [found EXCEPT ![t] = 0]
    /\ owner' = [owner EXCEPT ![t] = FALSE]
    /\ background' = [background EXCEPT ![t] = FALSE]
    /\ patience' = [patience EXCEPT ![t] = 0]

\* After the revision a background task, which has its lock, builds; a request locks first.
Resolved(t, r) ==
    /\ found' = [found EXCEPT ![t] = r]
    /\ Goto(t, IF background[t] THEN "build" ELSE "begin")

\* get_revision asks Redis only in a process that trusts the hint.
AskRevision(t) == Goto(t, IF uncertain[Home[t]] THEN "database" ELSE "revision")

\* begin_refresh: the lock in Redis, or the process's own when Redis does not
\* answer, even if the lock in Redis was taken after all.
Locks(t, accepted) ==
    LET p == Home[t]
        k == Key(t)
        free == lock[k].holder = None
        taken == [lock EXCEPT ![k] = [holder |-> t, left |-> LockFor]]
    IN  \/ /\ Smoothly
           /\ accepted = free
           /\ lock' = IF free THEN taken ELSE lock
           /\ tokens' = IF free THEN [tokens EXCEPT ![p] = [@ EXCEPT ![k] = t]] ELSE tokens
           /\ UNCHANGED fallback
        \/ /\ Trouble
           /\ accepted = (k \notin fallback[p])
           /\ lock' \in {lock} \cup (IF free THEN {taken} ELSE {})
           /\ fallback' = [fallback EXCEPT ![p] = @ \cup {k}]
           /\ UNCHANGED tokens

-----------------------------------------------------------------------------
\* A request whose answer is in the cache, fresh, is over at once and not shown.

\* serve: a stale entry is answered with, and a task offers to refresh it if
\* there is room; a missing one, or one too old for the warmup, is built.
Ask(t) ==
    /\ At(t, "idle")
    /\ \E k \in Keys, pin \in 0..head, warm \in BOOLEAN :
        /\ ask' = [ask EXCEPT ![t] = [key |-> k, warm |-> warm]]
        /\ \/ /\ Smoothly
              /\ ~warm /\ Stale(entry[k])
              /\ Cardinality(Refreshing(Home[t])) < RefreshLimit
              /\ Goto(t, "offer")
              /\ UNCHANGED found
           \/ /\ (Smoothly /\ ~Usable(entry[k], warm)) \/ Trouble
              /\ IF pin = 0 THEN AskRevision(t) ELSE Goto(t, "pinned")
              /\ found' = [found EXCEPT ![t] = pin]
    /\ UNCHANGED <<head, redis, process, owner, background, patience>>

\* _schedule_refresh, once the room was seen.
Offer(t) ==
    /\ At(t, "offer")
    /\ \/ /\ Locks(t, TRUE)
          /\ owner' = [owner EXCEPT ![t] = TRUE]
          /\ background' = [background EXCEPT ![t] = TRUE]
          /\ AskRevision(t)
          /\ UNCHANGED <<ask, found, patience>>
       \/ Locks(t, FALSE) /\ Over(t)
    /\ UNCHANGED <<head, entry, hint, uncertain, marking>>

\* _resolve_revision: the revision the client pinned, unless it was purged.
Pinned(t) ==
    /\ At(t, "pinned") /\ Smoothly
    /\ \/ Resolved(t, found[t])
       \/ AskRevision(t) /\ found' = [found EXCEPT ![t] = 0]
    /\ UNCHANGED <<head, redis, process, ask, owner, background, patience>>

\* published_revision asks for the hint.
Revision(t) ==
    /\ At(t, "revision")
    /\ \/ Smoothly /\ hint.id # 0 /\ Resolved(t, hint.id)
       \/ ((Smoothly /\ hint.id = 0) \/ Trouble) /\ Goto(t, "database") /\ UNCHANGED found
    /\ UNCHANGED <<head, redis, process, ask, owner, background, patience>>

\* current_revision; set_revision trusts the hint again before it sends anything.
ReadHead(t) ==
    /\ At(t, "database") /\ Smoothly
    /\ found' = [found EXCEPT ![t] = head]
    /\ uncertain' = [uncertain EXCEPT ![Home[t]] = FALSE]
    /\ Goto(t, "adopt")
    /\ UNCHANGED <<head, redis, tokens, fallback, marking, ask, owner, background, patience>>

\* Mutant of ReadFails: a refresh that raised leaves its lock behind.
ReadFailsQuietly(t) ==
    /\ AnyOf(t, {"pinned", "database"}) /\ Trouble
    /\ Over(t)
    /\ UNCHANGED <<head, redis, process>>

\* A query of PostgreSQL raises: a request has no lock yet, a refresh gives its up.
ReadFails(t) ==
    /\ AnyOf(t, {"pinned", "database"}) /\ Trouble
    /\ IF background[t]
       THEN Goto(t, "end") /\ UNCHANGED <<ask, found, owner, background, patience>>
       ELSE Over(t)
    /\ UNCHANGED <<head, redis, process>>

\* Mutant of Adopt: a task that was not the first to publish keeps what it has read.
AdoptOwn(t) ==
    /\ At(t, "adopt") /\ Smoothly
    /\ hint' = IF hint.id = 0 THEN [id |-> found[t], left |-> Hold] ELSE hint
    /\ Resolved(t, found[t])
    /\ UNCHANGED <<head, entry, lock, process, ask, owner, background, patience>>

\* set_revision: publish one's own revision if none is, and otherwise read
\* the published one if the listener has not reconnected in the meantime.
Adopt(t) ==
    LET p == Home[t]
        published == [id |-> found[t], left |-> Hold]
    IN  /\ At(t, "adopt")
        /\ \/ /\ Smoothly /\ UNCHANGED <<uncertain, found>>
              /\ hint' = IF hint.id = 0 THEN published ELSE hint
              /\ Goto(t, IF hint.id # 0 /\ ~uncertain[p] THEN "reread"
                          ELSE IF background[t] THEN "build" ELSE "begin")
           \/ /\ Trouble
              /\ uncertain' = [uncertain EXCEPT ![p] = TRUE]
              /\ hint' \in {hint} \cup (IF hint.id = 0 THEN {published} ELSE {})
              /\ Resolved(t, found[t])
        /\ UNCHANGED <<head, entry, lock, tokens, fallback, marking,
                       ask, owner, background, patience>>

\* One's own revision if the published one is gone, or Redis, by now.
Reread(t) ==
    /\ At(t, "reread")
    /\ \/ Smoothly /\ Resolved(t, IF hint.id # 0 THEN hint.id ELSE found[t])
       \/ Trouble /\ Resolved(t, found[t])
    /\ UNCHANGED <<head, redis, process, ask, owner, background, patience>>

\* _build_or_wait: build, or wait for whoever holds the lock.  The revision is
\* forgotten here: what a response built from it says is left out.
Begin(t) ==
    /\ At(t, "begin")
    /\ \/ /\ Locks(t, TRUE) /\ Goto(t, "build")
          /\ owner' = [owner EXCEPT ![t] = TRUE]
          /\ UNCHANGED patience
       \/ /\ Locks(t, FALSE) /\ Goto(t, "wait")
          /\ patience' = [patience EXCEPT ![t] = WaitFor]
          /\ UNCHANGED owner
    /\ found' = [found EXCEPT ![t] = 0]
    /\ UNCHANGED <<head, entry, hint, uncertain, marking, ask, background>>

\* Mutant of Wait: there is no deadline.
WaitForever(t) ==
    /\ At(t, "wait") /\ Smoothly
    /\ Usable(entry[Key(t)], ask[t].warm) /\ Over(t)
    /\ UNCHANGED <<head, redis, process>>

\* The entry has come; at the deadline the request builds for itself, with no lock.
Wait(t) ==
    /\ At(t, "wait") /\ Smoothly
    /\ \/ Usable(entry[Key(t)], ask[t].warm) /\ Over(t)
       \/ /\ patience[t] = 0 /\ Goto(t, "build")
          /\ UNCHANGED <<ask, found, owner, background, patience>>
    /\ UNCHANGED <<head, redis, process>>

\* Mutant of Rebuild: the entry is stored fresh for its whole lifetime.
RebuildFreshThroughout(t) ==
    LET built == [entry EXCEPT ![Key(t)] = [age |-> 0, fresh |-> TTL]]
    IN  /\ At(t, "build")
        /\ (Smoothly /\ entry' = built) \/ (Trouble /\ entry' \in {entry, built})
        /\ IF owner[t]
           THEN Goto(t, "end") /\ UNCHANGED <<ask, found, owner, background, patience>>
           ELSE Over(t)
        /\ UNCHANGED <<head, lock, hint, process>>

\* _rebuild: the response is built and stored.  On trouble the build raised, or
\* Redis did not answer and may have stored it even so.
Rebuild(t) ==
    LET built == [entry EXCEPT ![Key(t)] = [age |-> 0, fresh |-> FreshFor]]
    IN  /\ At(t, "build")
        /\ (Smoothly /\ entry' = built) \/ (Trouble /\ entry' \in {entry, built})
        /\ IF owner[t]
           THEN Goto(t, "end") /\ UNCHANGED <<ask, found, owner, background, patience>>
           ELSE Over(t)
        /\ UNCHANGED <<head, lock, hint, process>>

\* Mutant of EndRefresh: the lock is deleted whosever it is.
EndRefreshAny(t) ==
    /\ At(t, "end") /\ Smoothly
    /\ lock' = [lock EXCEPT ![Key(t)] = NoLock]
    /\ tokens' = [tokens EXCEPT ![Home[t]] = [@ EXCEPT ![Key(t)] = None]]
    /\ fallback' = [fallback EXCEPT ![Home[t]] = @ \ {Key(t)}]
    /\ Over(t)
    /\ UNCHANGED <<head, entry, hint, uncertain, marking>>

\* end_refresh: release the lock in Redis if it is the token's that the process
\* keeps for the key, whoever of its tasks took it, and the process's own lock.
EndRefresh(t) ==
    LET p == Home[t]
        k == Key(t)
        released == IF tokens[p][k] # None /\ lock[k].holder = tokens[p][k]
                    THEN [lock EXCEPT ![k] = NoLock] ELSE lock
    IN  /\ At(t, "end")
        /\ (Smoothly /\ lock' = released)
             \/ (tokens[p][k] # None /\ Trouble /\ lock' \in {lock, released})
        /\ tokens' = [tokens EXCEPT ![p] = [@ EXCEPT ![k] = None]]
        /\ fallback' = [fallback EXCEPT ![p] = @ \ {k}]
        /\ Over(t)
        /\ UNCHANGED <<head, entry, hint, uncertain, marking>>

-----------------------------------------------------------------------------
\* Marking stale, as invalidate reads an entry ...
ReadToMark(p) ==
    /\ p \in Markers /\ MinAge < FreshFor
    /\ marking[p] = NoMark
    /\ \E k \in Keys :
        LET left == IF entry[k].age < MinAge THEN MinAge - entry[k].age ELSE 0
        IN  /\ Present(entry[k]) /\ left < entry[k].fresh
            /\ marking' = [marking EXCEPT ![p] =
                             [key |-> k, read |-> [age |-> entry[k].age, fresh |-> left]]]
    /\ UNCHANGED <<head, redis, tokens, fallback, uncertain, task, troubles>>

\* Mutant of Mark: the entry is written whether it is there or not.
MarkAnyway(p) ==
    /\ marking[p] # NoMark
    /\ entry' = [entry EXCEPT ![marking[p].key] = marking[p].read]
    /\ marking' = [marking EXCEPT ![p] = NoMark]
    /\ UNCHANGED <<head, lock, hint, tokens, fallback, uncertain, task, troubles>>

\* ... and writes back what it has read if an entry is there (SET xx).
Mark(p) ==
    LET k == marking[p].key
    IN  /\ k # None
        /\ entry' = IF Present(entry[k]) THEN [entry EXCEPT ![k] = marking[p].read] ELSE entry
        /\ marking' = [marking EXCEPT ![p] = NoMark]
        /\ UNCHANGED <<head, lock, hint, tokens, fallback, uncertain, task, troubles>>

\* The listener has reconnected, or cannot read a notification.
Clear(p) ==
    /\ marking[p] = NoMark /\ Trouble
    /\ uncertain' = [uncertain EXCEPT ![p] = TRUE]
    /\ UNCHANGED <<head, redis, tokens, fallback, marking, task>>

\* The process dies and is started again; its locks in Redis stay.
Crash(p) ==
    /\ Trouble
    /\ tokens' = [tokens EXCEPT ![p] = [k \in Keys |-> None]]
    /\ fallback' = [fallback EXCEPT ![p] = {}]
    /\ uncertain' \in {[uncertain EXCEPT ![p] = b] : b \in BOOLEAN}
    /\ marking' = [marking EXCEPT ![p] = NoMark]
    /\ pc' = [t \in Tasks |-> IF Home[t] = p THEN "idle" ELSE pc[t]]
    /\ ask' = [t \in Tasks |-> IF Home[t] = p THEN NoAsk ELSE ask[t]]
    /\ found' = [t \in Tasks |-> IF Home[t] = p THEN 0 ELSE found[t]]
    /\ owner' = [t \in Tasks |-> Home[t] # p /\ owner[t]]
    /\ background' = [t \in Tasks |-> Home[t] # p /\ background[t]]
    /\ patience' = [t \in Tasks |-> IF Home[t] = p THEN 0 ELSE patience[t]]
    /\ UNCHANGED <<head, redis>>

-----------------------------------------------------------------------------
\* The transfer commits a revision of the data set.
NewRevision ==
    /\ head < MaxRevision
    /\ head' = head + 1
    /\ UNCHANGED <<redis, process, task, troubles>>

\* put makes room for another entry, or Redis does.
Evict(k) ==
    /\ Present(entry[k])
    /\ entry' = [entry EXCEPT ![k] = NoEntry]
    /\ UNCHANGED <<head, lock, hint, process, task, troubles>>

\* Redis starts again: it keeps nothing on disk.
RedisRestart ==
    /\ Trouble
    /\ entry' = [k \in Keys |-> NoEntry]
    /\ lock' = [k \in Keys |-> NoLock]
    /\ hint' = NoHint
    /\ UNCHANGED <<head, process, task>>

\* Redis is out of memory and drops a lock or the hint, as volatile-lru lets it.
DropKey ==
    /\ Trouble
    /\ \/ \E k \in Keys : lock' = [lock EXCEPT ![k] = NoLock] /\ UNCHANGED hint
       \/ hint' = NoHint /\ UNCHANGED lock
    /\ UNCHANGED <<head, entry, process, task>>

Less(n) == IF n = 0 THEN 0 ELSE n - 1

Aged(e) == [age |-> IF e.age < TTL THEN e.age + 1 ELSE TTL, fresh |-> Less(e.fresh)]

\* Everything with a lifetime has less of it left.
TimePasses ==
    /\ entry' = [k \in Keys |-> Aged(entry[k])]
    /\ lock' = [k \in Keys |-> IF lock[k].left <= 1 THEN NoLock
                               ELSE [holder |-> lock[k].holder, left |-> lock[k].left - 1]]
    /\ hint' = IF hint.left <= 1 THEN NoHint ELSE [id |-> hint.id, left |-> hint.left - 1]
    /\ marking' = [p \in Processes |-> [key |-> marking[p].key, read |-> Aged(marking[p].read)]]
    /\ patience' = [t \in Tasks |-> Less(patience[t])]
    /\ UNCHANGED <<head, tokens, fallback, uncertain, pc, ask, found, owner, background, troubles>>

Steps(t) ==
    Offer(t) \/ Pinned(t) \/ Revision(t) \/ ReadHead(t) \/ ReadFails(t) \/ Adopt(t)
      \/ Reread(t) \/ Begin(t) \/ Wait(t) \/ Rebuild(t) \/ EndRefresh(t)

Next ==
    \/ \E t \in Tasks : Ask(t) \/ Steps(t)
    \/ \E p \in Processes : ReadToMark(p) \/ Mark(p) \/ Clear(p) \/ Crash(p)
    \/ NewRevision
    \/ \E k \in Keys : Evict(k)
    \/ RedisRestart \/ DropKey \/ TimePasses

Spec == Init /\ [][Next]_vars

\* The event loop runs every task whose call has returned, and every call
\* returns: Redis and PostgreSQL have timeouts.  Time goes on.
FairSpec == Spec /\ (\A t \in Tasks : WF_vars(Steps(t))) /\ WF_vars(TimePasses)

-----------------------------------------------------------------------------
\* A process keeps a lock of its own, or a token, only for a task that will give
\* it back: end_refresh is reached whatever the build raised.
GivenBack ==
    \A p \in Processes, k \in Keys :
        /\ k \in fallback[p] => \E t \in Tasks : Home[t] = p /\ owner[t] /\ Key(t) = k
        /\ tokens[p][k] # None =>
              LET t == tokens[p][k] IN Home[t] = p /\ owner[t] /\ Key(t) = k

\* Until something fails, the lock in Redis is that of such a task, although tasks
\* outlive their locks and give back those of others: none is left to expire.
NoneAbandoned ==
    troubles = 0 =>
      \A k \in Keys : LET t == lock[k].holder IN t # None => tokens[Home[t]][k] = t

NoLeak == GivenBack /\ NoneAbandoned

\* The published revision stays what it is while it is held, and a task that
\* looks it up then builds from it, whatever it has read from PostgreSQL itself
\* (the docstring of set_revision, cache.py 489: the first to publish decides).  That
\* is so of a process that has lost notifications and read a newer one, too: it does
\* not refresh the hint, as the docstring of clear(), cache.py 464, says it would.
Resolves(t) == AnyOf(t, {"revision", "adopt", "reread"}) /\ pc'[t] \in {"begin", "build"}
OneSnapshot ==
    [][/\ hint.id # 0 /\ hint'.id # 0 => hint'.id = hint.id
       /\ \A t \in Tasks :
            Resolves(t) /\ hint'.id # 0 /\ ~uncertain'[Home[t]] /\ Smoothly
              => found'[t] = hint'.id]_vars

\* While Redis answers, no task takes away a lock but one of the process that took
\* it: a task that outlived its lock leaves the next holder's in another process.
LockOwned ==
    [][\A k \in Keys :
         /\ lock[k].holder # None /\ lock'[k].holder # lock[k].holder
         /\ pc' # pc /\ Smoothly
         => \E t \in Tasks : Home[t] = Home[lock[k].holder] /\ At(t, "end") /\ ~At(t, "end")']_vars

\* An entry that expired or was evicted does not come back by being marked stale:
\* only a rebuild adds one.
OnlyRebuildsAdd ==
    [][\A k \in Keys : ~Present(entry[k]) /\ Present(entry'[k])
         => \E t \in Tasks : At(t, "build") /\ Key(t) = k /\ pc'[t] # "build"]_vars

\* Whoever asks gets an answer, though Redis fails, the lock's holder dies or the
\* builder never stores its answer.
Answered == \A t \in Tasks : []<>At(t, "idle")  \* that is, ~At(t, "idle") ~> At(t, "idle")

\* No process refreshes more entries at a time than cache_refresh_concurrency
\* (_schedule_refresh, cached.py:192).
RefreshesBounded == \A p \in Processes : Cardinality(Refreshing(p)) <= RefreshLimit
=============================================================================
