----------------------------- MODULE Availability -----------------------------
(***************************************************************************)
(* What a repository knows of the availability of one publication, and how *)
(* two repositories come to know it: the producer (the collector's own     *)
(* database) applies its batches as its cycles end, the receiver applies   *)
(* the same batches as the transfer hands them over.                       *)
(*                                                                         *)
(* A batch observes the publication ("seen"), or holds the result of a     *)
(* point lookup for a publication the feed no longer shows: authoritative  *)
(* "missing", or "unclear" (transient, rate limited, unsupported).         *)
(* Both sides run persist_account_batch_in_transaction; one application is *)
(* one transaction.  Module Transfer shows in which orders batches arrive. *)
(* That transaction first drops a sighting of a publication the repository *)
(* does not have when the publication is older than its track window; each *)
(* repository has its own.  The publication came out at instant 0, so a    *)
(* batch's instant is the publication's age.                               *)
(***************************************************************************)
EXTENDS Naturals, Sequences, FiniteSets

CONSTANTS
    Threshold,        \* deletion_confirmation_checks
    MaxObservations,  \* bound: observations ever made
    Windows,          \* the track windows a repository may be configured with
    Overlap           \* cycles of one account that may be under way at a time

ASSUME AvailabilityAssumption ==
    /\ Threshold \in Nat /\ Threshold >= 2
    /\ MaxObservations \in Nat
    /\ Windows \subseteq Nat
    /\ Overlap \in Nat \ {0}

VARIABLES
    window,    \* track_window of either repository
    clock,     \* instant of the latest observation
    observed,  \* batches of cycles that have looked but not persisted yet
    sealed,    \* persisted and sealed batches, in cursor order
    applied,   \* batches the receiver has applied
    pub,       \* the publication's rows in either repository
    taken,       \* history: the batches the receiver applied with their publication
    oldestFirst, \* history: each repository applied its batches oldest first so far
    inStep       \* history: the receiver was handed them once each, in cursor order

vars == <<window, clock, observed, sealed, applied, pub, taken, oldestFirst, inStep>>

Nodes == {"producer", "receiver"}
Kinds == {"seen", "missing", "unclear"}
Instants == 0..MaxObservations   \* 0 stands for NULL
Batch == [at : Instants \ {0}, kind : Kinds]

Statuses == {"present", "missing", "confirmed_deleted"}

\* publication_availability_state, or NoState before its first row.
State(status, outcome, checked, lastPresent, firstMissing, missing) ==
    [status |-> status, outcome |-> outcome, checked |-> checked,
     lastPresent |-> lastPresent, firstMissing |-> firstMissing, missing |-> missing]
NoState == State("none", "none", 0, 0, 0, 0)

\* deletedAt is ingest.publication.deleted_at.
Unknown == [known |-> FALSE, deletedAt |-> 0, state |-> NoState]

\* Every variable has its type.
TypeOK ==
    /\ window \in [Nodes -> Windows]
    /\ clock \in Instants
    /\ observed \subseteq Batch
    /\ sealed \in Seq(Batch)
    /\ applied \subseteq Batch
    /\ taken \subseteq applied
    /\ pub \in [Nodes -> [known : BOOLEAN, deletedAt : Instants,
                          state : [status : Statuses \cup {"none"},
                                   outcome : {"none", "present", "missing", "unclear"},
                                   checked : Instants, lastPresent : Instants,
                                   firstMissing : Instants, missing : Nat]]]
    /\ oldestFirst \in [Nodes -> BOOLEAN]
    /\ inStep \in BOOLEAN

-----------------------------------------------------------------------------
(* One batch applied to one repository *)

\* Mutant of Stale: only the very same observation is ignored.
StaleOnlyRepeat(state, at) == state.status # "none" /\ at = state.checked

\* The guard of both probe paths: an observation not newer than the last one
\* checked is ignored.
Stale(state, at) == state.status # "none" /\ at <= state.checked

\* _persist_publications inserts the publication or updates it; the update
\* clears deleted_at, however old the observation is.
Upsert(row) == [known |-> TRUE, deletedAt |-> 0, state |-> row.state]

\* Mutants of PresenceProbe: the start of the streak is kept; only a confirmed
\* deletion is revoked, a streak under way goes on; the feed's own word is
\* stored where the lookup's outcome belongs.
PresenceKeepsFirst(row, at) ==
    IF Stale(row.state, at) THEN row
    ELSE [known |-> TRUE, deletedAt |-> 0,
          state |-> State("present", "present", at, at, row.state.firstMissing, 0)]

PresenceOnlyRevives(row, at) ==
    IF Stale(row.state, at) \/ row.state.status = "missing" THEN row
    ELSE [known |-> TRUE, deletedAt |-> 0,
          state |-> State("present", "present", at, at, 0, 0)]

PresenceOutcomeSeen(row, at) ==
    IF Stale(row.state, at) THEN row
    ELSE [known |-> TRUE, deletedAt |-> 0,
          state |-> State("present", "seen", at, at, 0, 0)]

\* _persist_presence_probes, for a publication the batch observed.
PresenceProbe(row, at) ==
    IF Stale(row.state, at) THEN row
    ELSE [known |-> TRUE, deletedAt |-> 0,
          state |-> State("present", "present", at, at, 0, 0)]

\* The status a publication had before its first state row.
OldStatus(row) == IF row.state.status # "none" THEN row.state.status
                  ELSE IF row.deletedAt # 0 THEN "confirmed_deleted" ELSE "present"
OldMissing(row) == IF row.state.status # "none" THEN row.state.missing
                   ELSE IF row.deletedAt # 0 THEN 1 ELSE 0
OldFirst(row) == IF row.state.status # "none" THEN row.state.firstMissing ELSE row.deletedAt

\* Mutant of Counted: a lookup that proved nothing counts as a missing one.
CountedAlways(row, kind, at) ==
    LET missing == OldMissing(row) + 1 IN
    State(IF missing >= Threshold THEN "confirmed_deleted" ELSE "missing",
          kind, at, row.state.lastPresent,
          IF OldStatus(row) = "present" THEN at ELSE OldFirst(row), missing)

\* A missing lookup extends the streak, and confirms the deletion at the
\* threshold; an unclear one neither extends nor clears it.
Counted(row, kind, at) ==
    IF kind = "missing"
      THEN LET missing == OldMissing(row) + 1 IN
           State(IF missing >= Threshold THEN "confirmed_deleted" ELSE "missing",
                 kind, at, row.state.lastPresent,
                 IF OldStatus(row) = "present" THEN at ELSE OldFirst(row), missing)
      ELSE State(OldStatus(row), kind, at, row.state.lastPresent,
                 OldFirst(row), OldMissing(row))

\* Mutant of DeletionProbe: the publication is not marked.
DeletionUnmarked(row, kind, at) ==
    IF Stale(row.state, at) THEN row
    ELSE [known |-> TRUE, state |-> Counted(row, kind, at), deletedAt |-> row.deletedAt]

\* _persist_deletion_probe: deleted_at is set when the status is, or stays,
\* confirmed and it is not set yet.
DeletionProbe(row, kind, at) ==
    IF Stale(row.state, at) THEN row
    ELSE LET state == Counted(row, kind, at) IN
         [known |-> TRUE, state |-> state,
          deletedAt |-> IF state.status = "confirmed_deleted" /\ row.deletedAt = 0
                          THEN at ELSE row.deletedAt]

\* The rows after batch b.  The presence probe follows the upsert.
Absorb(row, b) == IF b.kind = "seen" THEN PresenceProbe(Upsert(row), b.at)
                                     ELSE DeletionProbe(row, b.kind, b.at)

\* A lookup of a publication the repository does not have raises.
Accepts(row, b) == b.kind = "seen" \/ row.known

\* Mutant of StaleDiscovery: the rule is applied to known publications too.
StaleSighting(n, b) == b.kind = "seen" /\ window[n] < b.at

\* _without_stale_discoveries: the publication would be discovered by this sighting,
\* and is too old for that.
StaleDiscovery(n, b) == b.kind = "seen" /\ ~pub[n].known /\ window[n] < b.at

-----------------------------------------------------------------------------
(* Specification *)

Init ==
    /\ window \in [Nodes -> Windows]
    /\ clock = 0
    /\ observed = {}
    /\ sealed = <<>>
    /\ applied = {}
    /\ taken = {}
    /\ pub = [n \in Nodes |-> Unknown]
    /\ oldestFirst = [n \in Nodes |-> TRUE]
    /\ inStep = TRUE

\* refresh_runtime: the collection policy of the panel sets the producer's window; the
\* receiver reads its own from the environment, at its start.
SetWindow(w) ==
    /\ window' = [window EXCEPT !["producer"] = w]
    /\ UNCHANGED <<clock, observed, sealed, applied, pub, taken, oldestFirst, inStep>>

\* tracked_publications: the ones the producer has and does not hold for deleted.
Tracked == pub["producer"].known /\ pub["producer"].deletedAt = 0

\* plan_refresh looks up tracked publications only; the feed may show the
\* publication at any time.
Observe(kind) ==
    /\ clock < MaxObservations
    /\ Cardinality(observed) < Overlap
    /\ kind # "seen" => Tracked
    /\ clock' = clock + 1
    /\ observed' = observed \cup {[at |-> clock', kind |-> kind]}
    /\ UNCHANGED <<window, sealed, applied, pub, taken, oldestFirst, inStep>>

\* A cycle that dies before its transaction leaves nothing.
Abandon(b) ==
    /\ b \in observed
    /\ observed' = observed \ {b}
    /\ UNCHANGED <<window, clock, sealed, applied, pub, taken, oldestFirst, inStep>>

\* What a repository has taken so far; the producer takes what it seals.
TakenAt(n) == IF n = "receiver" THEN taken ELSE {sealed[i] : i \in DOMAIN sealed}

\* One transaction of persist_account_batch_in_transaction, for batch b at n.
Apply(n, b) ==
    /\ Accepts(pub[n], b)
    /\ pub' = [pub EXCEPT ![n] = Absorb(@, b)]
    /\ oldestFirst' = [oldestFirst EXCEPT ![n] = @ /\ \A c \in TakenAt(n) : c.at < b.at]

\* The producer seals what it persists: nothing of a sighting it dropped.
Persist(b) ==
    /\ b \in observed
    /\ observed' = observed \ {b}
    /\ \/ /\ StaleDiscovery("producer", b)
          /\ UNCHANGED <<sealed, pub, oldestFirst>>
       \/ /\ ~StaleDiscovery("producer", b)
          /\ Apply("producer", b)
          /\ sealed' = Append(sealed, b)
    /\ UNCHANGED <<window, clock, applied, taken, inStep>>

\* The receiver applies a batch, with its publication or without.
Receive(b) ==
    /\ \/ /\ StaleDiscovery("receiver", b)
          /\ UNCHANGED <<pub, taken, oldestFirst>>
       \/ /\ ~StaleDiscovery("receiver", b)
          /\ Apply("receiver", b)
          /\ taken' = taken \cup {b}
    /\ UNCHANGED <<window, clock, observed, sealed>>

\* A batch the transfer hands over, oldest first or not.
Deliver(i) ==
    /\ i \in DOMAIN sealed
    /\ sealed[i] \notin applied
    /\ Receive(sealed[i])
    /\ applied' = applied \cup {sealed[i]}
    /\ inStep' = (inStep /\ \A j \in 1..(i - 1) : sealed[j] \in applied)

\* The receipt was pruned and the batch is sent again.
Repeat(i) ==
    /\ i \in DOMAIN sealed
    /\ sealed[i] \in applied
    /\ Receive(sealed[i])
    /\ inStep' = FALSE
    /\ UNCHANGED applied

Next ==
    \/ \E w \in Windows : SetWindow(w)
    \/ \E kind \in Kinds : Observe(kind)
    \/ \E b \in observed : Persist(b) \/ Abandon(b)
    \/ \E i \in DOMAIN sealed : Deliver(i) \/ Repeat(i)

Spec == Init /\ [][Next]_vars

-----------------------------------------------------------------------------
(* Properties *)

\* The CHECK constraints of publication_availability_state hold of every row
\* the code writes: a violated one would make the batch fail for ever.
RowAccepted(state) ==
    state.status # "none" =>
       /\ IF state.status = "present"
            THEN state.missing = 0 /\ state.firstMissing = 0
            ELSE state.missing > 0 /\ state.firstMissing # 0
       /\ state.lastPresent <= state.checked
       /\ state.firstMissing <= state.checked

ConstraintsHold == \A n \in Nodes : RowAccepted(pub[n].state)

\* A late or repeated batch changes no state: a state changes only with an observation
\* newer than the one checked last.
StateAdvances ==
    [][\A n \in Nodes : pub'[n].state # pub[n].state =>
          pub[n].state.checked < pub'[n].state.checked]_vars

\* In whatever order a repository took its batches, and how often, the newest one it
\* took has the last word: its instant is the last check, a lookup's outcome is the
\* outcome kept, and a sighting decides the whole row.  It takes all but stale
\* discoveries.
Present(at) == [known |-> TRUE, deletedAt |-> 0,
                state |-> State("present", "present", at, at, 0, 0)]
LatestWins ==
    \A n \in Nodes : \A b \in TakenAt(n) : (\A c \in TakenAt(n) : c.at <= b.at) =>
       /\ pub[n].state.checked = b.at
       /\ IF b.kind = "seen" THEN pub[n] = Present(b.at) ELSE pub[n].state.outcome = b.kind

\* A deletion is confirmed only by that many authoritative lookups, each made
\* before the last check; one that proved nothing never counts.
ConfirmedByLookups ==
    \A n \in Nodes :
       pub[n].state.status = "confirmed_deleted" =>
          Threshold <= Cardinality({i \in DOMAIN sealed :
                                       /\ sealed[i].kind = "missing"
                                       /\ sealed[i].at <= pub[n].state.checked})

\* Where batches were applied oldest first, a deletion is confirmed only by
\* lookups with no sighting in between.
StreakUnbroken ==
    \A n \in Nodes : oldestFirst[n] /\ pub[n].state.status = "confirmed_deleted" =>
       \A c \in TakenAt(n) : c.kind = "seen" =>
          \/ c.at < pub[n].state.firstMissing
          \/ c.at > pub[n].state.checked

\* There the publication is shown as deleted exactly while its deletion is
\* confirmed.
DeletedAgrees ==
    \A n \in Nodes : oldestFirst[n] =>
       (pub[n].deletedAt # 0 <=> pub[n].state.status = "confirmed_deleted")

\* The discovery, which is the first batch sealed, is no stale one for the receiver.
DiscoveryInWindow == sealed # <<>> => sealed[1].at <= window["receiver"]

\* A receiver that was handed every sealed batch once, in cursor order, holds
\* what the producer holds, however the producer's own cycles overlapped and whatever
\* becomes of the producer's window, provided the discovery is within its own.
Converged ==
    inStep /\ DiscoveryInWindow /\ (\A i \in DOMAIN sealed : sealed[i] \in applied) =>
       pub["receiver"] = pub["producer"]

\* In any order, and however often: a receiver that took the newest of the sealed
\* batches holds the producer's rows when that one is a sighting.
SightingsReconcile ==
    \A b \in taken :
       b.kind = "seen" /\ (\A i \in DOMAIN sealed : sealed[i].at <= b.at) =>
          pub["receiver"] = pub["producer"]

\* Only a batch that overtook another is refused for want of the publication: the one
\* whose predecessors are all applied is accepted, so none is refused for ever, when
\* one of them is a sighting within the receiver's window (or it is one itself).
NextAccepted ==
    \A i \in DOMAIN sealed :
       /\ \A j \in 1..(i - 1) : sealed[j] \in applied
       /\ \E j \in 1..i : sealed[j].kind = "seen" /\ sealed[j].at <= window["receiver"]
       => Accepts(pub["receiver"], sealed[i])

\* An observation that the probes ignore as older than the last check changes
\* nothing of what is shown either.
OlderChangesNothing ==
    [][\A n \in Nodes : pub[n].state # NoState /\ pub'[n].state = pub[n].state =>
          pub'[n].deletedAt = pub[n].deletedAt]_vars
=============================================================================
