------------------------- MODULE Availability_proofs -------------------------
(***************************************************************************)
(* Proofs about Availability, for every threshold, any number of           *)
(* observations and overlapping cycles, and any order of delivery.         *)
(*                                                                         *)
(* A row is well formed when it has its type, satisfies the table's CHECK  *)
(* constraints, and is blank before its first state.  Lemma AbsorbKeeps    *)
(* shows that applying any batch keeps a row well formed and never moves   *)
(* its last check backwards.  The other Absorb lemmas say what a batch     *)
(* does to the marks of a deletion, in any order (AbsorbEnough,            *)
(* AbsorbCounts) or when it is newer than the last check (AbsorbMarks,     *)
(* AbsorbStreak); OneApplies lifts them to a step of one repository.       *)
(* AbsorbLatest shows that the newest batch decides whatever the order.    *)
(***************************************************************************)
EXTENDS Availability, FiniteSetTheorems, TLAPS

Row == [known : BOOLEAN, deletedAt : Instants,
        state : [status : Statuses \cup {"none"},
                 outcome : {"none", "present", "missing", "unclear"},
                 checked : Instants, lastPresent : Instants,
                 firstMissing : Instants, missing : Nat]]

Blank(row) == row.state.status = "none" =>
    /\ row.deletedAt = 0
    /\ row.state.checked = 0 /\ row.state.lastPresent = 0
    /\ row.state.firstMissing = 0 /\ row.state.missing = 0

WellFormed(row) == row \in Row /\ RowAccepted(row.state) /\ Blank(row)

\* What a repository may come to hold, whoever applies the batch.
LEMMA UpsertKeeps ==
  ASSUME NEW row, WellFormed(row)
  PROVE  /\ WellFormed(Upsert(row))
         /\ Upsert(row).state = row.state
BY AvailabilityAssumption
   DEF WellFormed, Row, Upsert, Blank, RowAccepted, Instants

\* A sighting keeps the row well formed: it clears the streak.
LEMMA PresenceKeeps ==
  ASSUME NEW row, WellFormed(row), NEW at \in Instants \ {0}
  PROVE  /\ WellFormed(PresenceProbe(row, at))
         /\ row.state.checked <= PresenceProbe(row, at).state.checked
<1>0. row \in Row /\ row.state.checked \in Nat /\ at \in Nat /\ at > 0
  BY AvailabilityAssumption DEF WellFormed, Row, Instants
<1>1. CASE Stale(row.state, at)
  BY <1>0, <1>1 DEF PresenceProbe
<1>2. CASE ~Stale(row.state, at)
  <2>1. row.state.checked <= at
    BY <1>0, <1>2 DEF Stale, WellFormed, Blank
  <2> DEFINE after == [known |-> TRUE, deletedAt |-> 0,
                       state |-> State("present", "present", at, at, 0, 0)]
  <2>2. PresenceProbe(row, at) = after
    BY <1>2 DEF PresenceProbe
  <2>3. WellFormed(after) /\ after.state.checked = at
    BY <1>0, AvailabilityAssumption
       DEF WellFormed, Row, RowAccepted, Blank, State, Statuses, Instants
  <2> QED BY <2>1, <2>2, <2>3
<1> QED BY <1>1, <1>2

\* What a lookup counts is a well-formed state.
LEMMA CountedKeeps ==
  ASSUME NEW row, WellFormed(row), NEW at \in Instants \ {0},
         NEW kind \in {"missing", "unclear"}, ~Stale(row.state, at)
  PROVE  /\ Counted(row, kind, at) \in
              [status : Statuses, outcome : {"none", "present", "missing", "unclear"},
               checked : Instants, lastPresent : Instants,
               firstMissing : Instants, missing : Nat]
         /\ RowAccepted(Counted(row, kind, at))
         /\ Counted(row, kind, at).checked = at
         /\ row.state.checked <= at
<1>0. /\ row \in Row /\ row.state.checked \in Nat /\ at \in Nat /\ at > 0
      /\ row.state.lastPresent \in Instants /\ row.state.firstMissing \in Instants
      /\ row.deletedAt \in Instants /\ row.state.missing \in Nat
      /\ row.state.status \in Statuses \cup {"none"}
  BY AvailabilityAssumption DEF WellFormed, Row, Instants
<1>1. row.state.checked <= at
  BY <1>0 DEF Stale, WellFormed, Blank
<1>2. /\ OldStatus(row) \in Statuses /\ OldMissing(row) \in Nat /\ OldFirst(row) \in Instants
      /\ OldStatus(row) = "present" => OldMissing(row) = 0 /\ OldFirst(row) = 0
      /\ OldStatus(row) # "present" => OldMissing(row) > 0 /\ OldFirst(row) # 0
      /\ OldFirst(row) <= at
  BY <1>0, <1>1, AvailabilityAssumption
     DEF OldStatus, OldMissing, OldFirst, WellFormed, Blank, RowAccepted, Statuses, Instants
<1>3. row.state.lastPresent <= at
  BY <1>0, <1>1 DEF WellFormed, Blank, RowAccepted, Instants
<1>4. CASE kind = "missing"
  <2> DEFINE missing == OldMissing(row) + 1
             status == IF missing >= Threshold THEN "confirmed_deleted" ELSE "missing"
             first == IF OldStatus(row) = "present" THEN at ELSE OldFirst(row)
  <2>1. Counted(row, kind, at) = State(status, kind, at, row.state.lastPresent, first, missing)
    BY <1>4 DEF Counted
  <2>2. /\ status \in Statuses /\ status # "present" /\ missing \in Nat /\ missing > 0
        /\ first \in Instants /\ first # 0 /\ first <= at
    BY <1>0, <1>2, AvailabilityAssumption DEF Statuses, Instants
  <2> HIDE DEF missing, status, first
  <2> QED BY <1>0, <1>1, <1>3, <1>4, <2>1, <2>2 DEF State, RowAccepted
<1>5. CASE kind = "unclear"
  <2>1. Counted(row, kind, at) = State(OldStatus(row), kind, at, row.state.lastPresent,
                                       OldFirst(row), OldMissing(row))
    BY <1>5 DEF Counted
  <2> QED BY <1>0, <1>1, <1>2, <1>3, <1>5, <2>1 DEF State, RowAccepted
<1> QED BY <1>4, <1>5

\* A lookup keeps the row well formed.
LEMMA DeletionKeeps ==
  ASSUME NEW row, WellFormed(row), NEW at \in Instants \ {0},
         NEW kind \in {"missing", "unclear"}
  PROVE  /\ WellFormed(DeletionProbe(row, kind, at))
         /\ row.state.checked <= DeletionProbe(row, kind, at).state.checked
<1>0. row.state.checked \in Nat /\ row.deletedAt \in Instants /\ at \in Instants
  BY AvailabilityAssumption DEF WellFormed, Row, Instants
<1>1. CASE Stale(row.state, at)
  BY <1>0, <1>1 DEF DeletionProbe
<1>2. CASE ~Stale(row.state, at)
  <2> DEFINE state == Counted(row, kind, at)
             marked == IF state.status = "confirmed_deleted" /\ row.deletedAt = 0
                         THEN at ELSE row.deletedAt
  <2>1. DeletionProbe(row, kind, at) = [known |-> TRUE, state |-> state, deletedAt |-> marked]
    BY <1>2 DEF DeletionProbe
  <2>2. /\ state \in [status : Statuses, outcome : {"none", "present", "missing", "unclear"},
                      checked : Instants, lastPresent : Instants,
                      firstMissing : Instants, missing : Nat]
        /\ RowAccepted(state) /\ state.checked = at /\ row.state.checked <= at
    BY <1>2, CountedKeeps
  <2>3. marked \in Instants
    BY <1>0
  <2> HIDE DEF state, marked
  <2>4. state.status # "none"
    BY <2>2 DEF Statuses
  <2> QED BY <2>1, <2>2, <2>3, <2>4 DEF WellFormed, Row, Blank
<1> QED BY <1>1, <1>2

\* Applying any batch to a well-formed row.
LEMMA AbsorbKeeps ==
  ASSUME NEW row, WellFormed(row), NEW b \in Batch
  PROVE  /\ WellFormed(Absorb(row, b))
         /\ row.state.checked <= Absorb(row, b).state.checked
<1>1. b.at \in Instants \ {0} /\ b.kind \in Kinds
  BY DEF Batch
<1>2. CASE b.kind = "seen"
  <2>1. WellFormed(Upsert(row)) /\ Upsert(row).state = row.state
    BY UpsertKeeps
  <2> QED BY <1>1, <1>2, <2>1, PresenceKeeps DEF Absorb
<1>3. CASE b.kind # "seen"
  <2>1. b.kind \in {"missing", "unclear"}
    BY <1>1, <1>3 DEF Kinds
  <2> QED BY <1>1, <1>3, <2>1, DeletionKeeps DEF Absorb
<1> QED BY <1>2, <1>3

\* A repository has the publication once it has taken a sighting, and still has it
\* after a lookup.
LEMMA AbsorbKnown ==
  ASSUME NEW row, row.known \in BOOLEAN, NEW b,
         b.kind = "seen" \/ row.known
  PROVE  Absorb(row, b).known
<1>1. Upsert(row).known
  BY DEF Upsert
<1>2. CASE b.kind = "seen"
  BY <1>1, <1>2 DEF Absorb, PresenceProbe
<1>3. CASE b.kind # "seen"
  BY <1>3 DEF Absorb, DeletionProbe
<1> QED BY <1>2, <1>3

-----------------------------------------------------------------------------
(* Confirmed deletions *)

Confirmed(row) == row.state.status = "confirmed_deleted"

\* A confirmed row holds enough missing lookups.
Enough(row) == Confirmed(row) => Threshold <= row.state.missing

\* deleted_at and the status say the same.
Marked(row) == row.deletedAt # 0 <=> Confirmed(row)

\* No sighting of A falls within the streak of the row.
Unbroken(row, A) == row.state.status \in {"missing", "confirmed_deleted"} =>
    \A c \in A : c.kind = "seen" => c.at < row.state.firstMissing

\* A row confirmed deleted stays so only with enough lookups.
LEMMA AbsorbEnough ==
  ASSUME NEW row, WellFormed(row), Enough(row), NEW b \in Batch
  PROVE  Enough(Absorb(row, b))
<1>1. row.state.missing \in Nat /\ row.deletedAt \in Instants
  BY DEF WellFormed, Row
<1>2. CASE b.kind = "seen"
  BY <1>2 DEF Absorb, PresenceProbe, Upsert, Enough, Confirmed, State
<1>3. CASE b.kind # "seen"
  <2>1. Absorb(row, b) = DeletionProbe(row, b.kind, b.at)
    BY <1>3 DEF Absorb
  <2>2. CASE Stale(row.state, b.at)
    BY <2>1, <2>2 DEF DeletionProbe
  <2>3. CASE ~Stale(row.state, b.at)
    <3>1. Absorb(row, b).state = Counted(row, b.kind, b.at)
      BY <2>1, <2>3 DEF DeletionProbe
    <3>2. CASE b.kind = "missing"
      BY <1>1, <3>1, <3>2, AvailabilityAssumption
         DEF Counted, State, Enough, Confirmed, OldMissing
    <3>3. CASE b.kind # "missing"
      <4>1. /\ Counted(row, b.kind, b.at).status = OldStatus(row)
            /\ Counted(row, b.kind, b.at).missing = OldMissing(row)
        BY <3>3 DEF Counted, State
      <4>2. OldStatus(row) = "confirmed_deleted" =>
              OldMissing(row) = row.state.missing /\ Confirmed(row)
        BY DEF OldStatus, OldMissing, WellFormed, Blank, Confirmed
      <4> QED BY <3>1, <4>1, <4>2 DEF Enough, Confirmed
    <3> QED BY <3>2, <3>3
  <2> QED BY <2>2, <2>3
<1> QED BY <1>2, <1>3

\* The count of missing lookups grows by one with a missing lookup newer than
\* the last check, and with nothing else.
LEMMA AbsorbCounts ==
  ASSUME NEW row, WellFormed(row), NEW b \in Batch
  PROVE  \/ Absorb(row, b).state.missing <= row.state.missing
         \/ /\ b.kind = "missing"
            /\ row.state.checked < b.at
            /\ Absorb(row, b).state.checked = b.at
            /\ Absorb(row, b).state.missing = row.state.missing + 1
<1>1. /\ row.state.missing \in Nat /\ row.state.checked \in Nat
      /\ b.at \in Nat /\ b.at > 0 /\ row.deletedAt \in Instants
  BY AvailabilityAssumption DEF WellFormed, Row, Batch, Instants
<1>2. CASE b.kind = "seen"
  BY <1>1, <1>2 DEF Absorb, PresenceProbe, Upsert, State
<1>3. CASE b.kind # "seen" /\ Stale(row.state, b.at)
  BY <1>1, <1>3 DEF Absorb, DeletionProbe
<1>4. CASE b.kind # "seen" /\ ~Stale(row.state, b.at)
  <2>1. Absorb(row, b).state = Counted(row, b.kind, b.at)
    BY <1>4 DEF Absorb, DeletionProbe
  <2>2. OldMissing(row) = row.state.missing /\ row.state.checked < b.at
    BY <1>1, <1>4 DEF OldMissing, WellFormed, Blank, Stale
  <2>3. CASE b.kind = "missing"
    BY <1>1, <2>1, <2>2, <2>3 DEF Counted, State
  <2>4. CASE b.kind # "missing"
    BY <1>1, <2>1, <2>2, <2>4 DEF Counted, State
  <2> QED BY <2>3, <2>4
<1> QED BY <1>2, <1>3, <1>4

\* A batch newer than the last check keeps deleted_at and the status agreeing.
LEMMA AbsorbMarks ==
  ASSUME NEW row, WellFormed(row), Enough(row), Marked(row), NEW b \in Batch,
         row.state.checked < b.at
  PROVE  Marked(Absorb(row, b))
<1>1. /\ row.state.checked \in Nat /\ b.at \in Nat /\ b.at > 0 /\ b.kind \in Kinds
      /\ row.state.missing \in Nat /\ row.state.status \in Statuses \cup {"none"}
  BY AvailabilityAssumption DEF WellFormed, Row, Batch, Instants
<1>2. ~Stale(row.state, b.at)
  BY <1>1 DEF Stale
<1>3. CASE b.kind = "seen"
  BY <1>2, <1>3 DEF Absorb, PresenceProbe, Upsert, Marked, Confirmed, State
<1>4. CASE b.kind # "seen"
  <2> DEFINE state == Counted(row, b.kind, b.at)
  <2>1. /\ Absorb(row, b).state = state
        /\ Absorb(row, b).deletedAt =
             IF state.status = "confirmed_deleted" /\ row.deletedAt = 0 THEN b.at ELSE row.deletedAt
    BY <1>2, <1>4 DEF Absorb, DeletionProbe
  <2>2. Confirmed(row) => state.status = "confirmed_deleted"
    <3> SUFFICES ASSUME Confirmed(row) PROVE state.status = "confirmed_deleted"
      OBVIOUS
    <3>1. OldStatus(row) = "confirmed_deleted" /\ OldMissing(row) = row.state.missing
      BY DEF Confirmed, OldStatus, OldMissing
    <3>2. Threshold <= row.state.missing + 1
      BY <1>1, AvailabilityAssumption DEF Enough
    <3> QED BY <1>1, <3>1, <3>2 DEF Counted, State
  <2> HIDE DEF state
  <2> QED BY <1>1, <2>1, <2>2 DEF Marked, Confirmed
<1> QED BY <1>3, <1>4

\* A batch newer than the last check and than all of A leaves no sighting of A,
\* nor itself, within the streak.
LEMMA AbsorbStreak ==
  ASSUME NEW row, WellFormed(row), NEW A \in SUBSET Batch, Unbroken(row, A), Marked(row),
         NEW b \in Batch, row.state.checked < b.at, \A c \in A : c.at < b.at
  PROVE  Unbroken(Absorb(row, b), A \cup {b})
<1>1. /\ row.state.checked \in Nat /\ b.at \in Nat /\ b.at > 0 /\ b.kind \in Kinds
      /\ row.state.status \in Statuses \cup {"none"}
  BY AvailabilityAssumption DEF WellFormed, Row, Batch, Instants
<1>2. ~Stale(row.state, b.at)
  BY <1>1 DEF Stale
<1>3. CASE b.kind = "seen"
  BY <1>2, <1>3 DEF Absorb, PresenceProbe, Upsert, Unbroken, State
<1>4. CASE b.kind # "seen"
  <2>1. Absorb(row, b).state = Counted(row, b.kind, b.at)
    BY <1>2, <1>4 DEF Absorb, DeletionProbe
  <2>2. OldStatus(row) # "present" =>
          /\ row.state.status \in {"missing", "confirmed_deleted"}
          /\ OldFirst(row) = row.state.firstMissing
    BY <1>1 DEF OldStatus, OldFirst, WellFormed, Blank, Statuses
  <2>3. CASE OldStatus(row) = "present"
    <3>1. Counted(row, b.kind, b.at).status \in {"missing", "confirmed_deleted"} =>
            Counted(row, b.kind, b.at).firstMissing = b.at
      BY <2>3 DEF Counted, State
    <3> QED BY <1>4, <2>1, <3>1 DEF Unbroken
  <2>4. CASE OldStatus(row) # "present"
    <3>1. Counted(row, b.kind, b.at).firstMissing = row.state.firstMissing
      BY <2>2, <2>4 DEF Counted, State
    <3> QED BY <1>4, <2>1, <2>2, <2>4, <3>1 DEF Unbroken
  <2> QED BY <2>3, <2>4
<1> QED BY <1>3, <1>4

-----------------------------------------------------------------------------
(* The inductive invariant *)

\* The missing lookups a repository may have counted.
Countable(n) == {i \in DOMAIN sealed : sealed[i].kind = "missing"
                                       /\ sealed[i].at <= pub[n].state.checked}

\* What one repository holds agrees with what it was given.
Sound(n) ==
    /\ WellFormed(pub[n])
    /\ Enough(pub[n])
    /\ pub[n].state.missing <= Cardinality(Countable(n))
    /\ pub[n].state.checked = 0 \/ \E c \in TakenAt(n) : c.at = pub[n].state.checked
    /\ oldestFirst[n] => Marked(pub[n]) /\ Unbroken(pub[n], TakenAt(n))

AvailabilityInv ==
    /\ window \in [Nodes -> Windows]
    /\ clock \in Instants
    /\ observed \subseteq Batch
    /\ sealed \in Seq(Batch)
    /\ applied \subseteq {sealed[i] : i \in DOMAIN sealed}
    /\ taken \subseteq applied
    /\ pub \in [Nodes -> Row]
    /\ oldestFirst \in [Nodes -> BOOLEAN]
    /\ inStep \in BOOLEAN
    /\ \A n \in Nodes : Sound(n)

ChecksAdvance == \A n \in Nodes : pub[n].state.checked <= pub'[n].state.checked

LEMMA CountableFinite ==
  ASSUME sealed \in Seq(Batch), NEW n
  PROVE  IsFiniteSet(Countable(n)) /\ Cardinality(Countable(n)) \in Nat
<1>1. IsFiniteSet(1..Len(sealed))
  BY FS_Interval
<1>2. Countable(n) \subseteq 1..Len(sealed)
  BY DEF Countable
<1> QED BY <1>1, <1>2, FS_Subset, FS_CardinalityType

\* A publication's age and a window can be compared.
LEMMA AgesComparable ==
  ASSUME AvailabilityInv, NEW i \in DOMAIN sealed
  PROVE  sealed[i].at \in Nat /\ window["receiver"] \in Nat
<1>1. sealed[i] \in Batch /\ window["receiver"] \in Windows
  BY DEF AvailabilityInv, Nodes
<1>2. sealed[i].at \in Nat
  BY <1>1, AvailabilityAssumption DEF Batch, Instants
<1>3. window["receiver"] \in Nat
  BY <1>1, AvailabilityAssumption
<1> QED BY <1>2, <1>3

LEMMA InitAvailabilityInv == Init => AvailabilityInv
<1> SUFFICES ASSUME Init PROVE AvailabilityInv
  OBVIOUS
<1>1. \A n \in Nodes : pub[n] = Unknown
  BY DEF Init
<1>2. WellFormed(Unknown)
  BY AvailabilityAssumption
     DEF Row, WellFormed, Blank, RowAccepted, Unknown, NoState, State, Instants
<1>3. Enough(Unknown) /\ Marked(Unknown) /\ \A A : Unbroken(Unknown, A)
  BY DEF Enough, Marked, Confirmed, Unbroken, Unknown, NoState, State
<1>4. sealed \in Seq(Batch) /\ Unknown.state.missing = 0 /\ Unknown.state.checked = 0
  BY DEF Init, Unknown, NoState, State
<1>5. \A n \in Nodes : Sound(n)
  BY <1>1, <1>2, <1>3, <1>4, CountableFinite DEF Sound
<1>6. pub \in [Nodes -> Row]
  BY <1>2 DEF Init, WellFormed
<1> QED BY <1>4, <1>5, <1>6, AvailabilityAssumption DEF Init, AvailabilityInv, Instants

\* Repository n applies batch b, which is or becomes one of the sealed batches.
LEMMA OneApplies ==
  ASSUME AvailabilityInv, NEW n \in Nodes, NEW b \in Batch, Apply(n, b),
         sealed' \in Seq(Batch), DOMAIN sealed \subseteq DOMAIN sealed',
         \A i \in DOMAIN sealed : sealed'[i] = sealed[i],
         NEW j \in DOMAIN sealed', sealed'[j] = b,
         TakenAt(n)' = TakenAt(n) \cup {b},
         \A k \in Nodes \ {n} : TakenAt(k)' = TakenAt(k)
  PROVE  /\ pub' \in [Nodes -> Row]
         /\ oldestFirst' \in [Nodes -> BOOLEAN]
         /\ \A k \in Nodes : Sound(k)'
         /\ ChecksAdvance
<1> DEFINE after == Absorb(pub[n], b)
<1>0. Sound(n) /\ pub[n] \in Row /\ sealed \in Seq(Batch)
  BY DEF AvailabilityInv
<1>1. WellFormed(after) /\ pub[n].state.checked <= after.state.checked
  BY <1>0, AbsorbKeeps DEF Sound
<1>2. /\ pub' \in [Nodes -> Row]
      /\ pub'[n] = after /\ \A k \in Nodes \ {n} : pub'[k] = pub[k]
  BY <1>1 DEF Apply, AvailabilityInv, WellFormed
<1>3. /\ oldestFirst' \in [Nodes -> BOOLEAN]
      /\ oldestFirst'[n] => oldestFirst[n] /\ \A c \in TakenAt(n) : c.at < b.at
      /\ \A k \in Nodes \ {n} : oldestFirst'[k] = oldestFirst[k]
  BY DEF Apply, AvailabilityInv
<1>4. \A k \in Nodes : pub[k].state.checked \in Nat /\ pub'[k].state.checked \in Nat
                       /\ pub[k].state.missing \in Nat /\ pub'[k].state.missing \in Nat
  <2>1. \A row \in Row : row.state.checked \in Nat /\ row.state.missing \in Nat
    BY AvailabilityAssumption DEF Row, Instants
  <2>2. \A k \in Nodes : pub[k] \in Row /\ pub'[k] \in Row
    BY <1>2 DEF AvailabilityInv
  <2> QED BY <2>1, <2>2
<1>5. \A k \in Nodes : pub[k].state.checked <= pub'[k].state.checked
  BY <1>1, <1>2, <1>4
<1>6. \A k \in Nodes : /\ IsFiniteSet(Countable(k)) /\ Cardinality(Countable(k)) \in Nat
                       /\ IsFiniteSet(Countable(k)') /\ Cardinality(Countable(k)') \in Nat
  <2>1. ASSUME NEW k \in Nodes PROVE IsFiniteSet(Countable(k)) /\ Cardinality(Countable(k)) \in Nat
    BY <1>0, CountableFinite
  <2>2. ASSUME NEW k \in Nodes PROVE IsFiniteSet(Countable(k)') /\ Cardinality(Countable(k)') \in Nat
    <3>1. IsFiniteSet(1..Len(sealed'))
      BY FS_Interval
    <3>2. Countable(k)' \subseteq 1..Len(sealed')
      BY DEF Countable
    <3> QED BY <3>1, <3>2, FS_Subset, FS_CardinalityType
  <2> QED BY <2>1, <2>2
<1>7. \A k \in Nodes : Countable(k) \subseteq Countable(k)'
  <2>1. ASSUME NEW k \in Nodes, NEW i \in Countable(k) PROVE i \in Countable(k)'
    <3>1. /\ i \in DOMAIN sealed /\ sealed[i].kind = "missing"
          /\ sealed[i].at <= pub[k].state.checked
      BY <2>1 DEF Countable
    <3>2. sealed[i] \in Batch /\ sealed'[i] = sealed[i] /\ i \in DOMAIN sealed'
      BY <1>0, <3>1
    <3>3. sealed[i].at \in Nat
      BY <3>2, AvailabilityAssumption DEF Batch, Instants
    <3>4. sealed[i].at <= pub'[k].state.checked
      BY <1>4, <1>5, <3>1, <3>3
    <3> QED BY <3>1, <3>2, <3>4 DEF Countable
  <2> QED BY <2>1
<1>8. \A k \in Nodes : Cardinality(Countable(k)) <= Cardinality(Countable(k)')
  BY <1>6, <1>7, FS_Subset
<1>9. \A k \in Nodes \ {n} : Sound(k)'
  <2>1. ASSUME NEW k \in Nodes \ {n} PROVE Sound(k)'
    <3>1. Sound(k) /\ pub'[k] = pub[k] /\ oldestFirst'[k] = oldestFirst[k]
          /\ TakenAt(k)' = TakenAt(k)
      BY <1>2, <1>3 DEF AvailabilityInv
    <3>2. pub'[k].state.missing <= Cardinality(Countable(k)')
      BY <1>4, <1>6, <1>8, <3>1 DEF Sound
    <3> QED BY <3>1, <3>2 DEF Sound
  <2> QED BY <2>1
<1>10. Sound(n)'
  <2>1. Enough(after)
    BY <1>0, AbsorbEnough DEF Sound
  <2>2. after.state.missing <= Cardinality(Countable(n)')
    <3>1. CASE after.state.missing <= pub[n].state.missing
      BY <1>0, <1>2, <1>4, <1>6, <1>8, <3>1 DEF Sound
    <3>2. CASE /\ b.kind = "missing" /\ pub[n].state.checked < b.at
               /\ after.state.checked = b.at
               /\ after.state.missing = pub[n].state.missing + 1
      <4>1. j \in Countable(n)' /\ j \notin Countable(n)
        <5>1. b.at \in Nat
          BY AvailabilityAssumption DEF Batch, Instants
        <5>2. j \in Countable(n)'
          BY <1>2, <3>2, <5>1 DEF Countable
        <5>3. j \in DOMAIN sealed => sealed[j] = b
          OBVIOUS
        <5> QED BY <1>4, <3>2, <5>1, <5>2, <5>3 DEF Countable
      <4>2. Cardinality(Countable(n) \cup {j}) = Cardinality(Countable(n)) + 1
        BY <1>6, <4>1, FS_AddElement
      <4>3. Cardinality(Countable(n) \cup {j}) <= Cardinality(Countable(n)')
        BY <1>6, <1>7, <4>1, FS_Subset
      <4> QED BY <1>0, <1>4, <1>6, <3>2, <4>2, <4>3 DEF Sound
    <3> QED BY <1>0, <3>1, <3>2, AbsorbCounts DEF Sound
  <2>3. after.state.checked = 0 \/ \E c \in TakenAt(n) \cup {b} : c.at = after.state.checked
    <3>1. after.state.checked \in {pub[n].state.checked, b.at}
      BY DEF Absorb, PresenceProbe, DeletionProbe, Upsert, Counted, State
    <3> QED BY <1>0, <3>1 DEF Sound
  <2>4. ASSUME oldestFirst'[n]
        PROVE  Marked(after) /\ Unbroken(after, TakenAt(n) \cup {b})
    <3>1. b.at \in Nat /\ b.at > 0
      BY AvailabilityAssumption DEF Batch, Instants
    <3>2. Marked(pub[n]) /\ Unbroken(pub[n], TakenAt(n)) /\ \A c \in TakenAt(n) : c.at < b.at
      BY <1>0, <1>3, <2>4 DEF Sound
    <3>3. pub[n].state.checked < b.at
      BY <1>0, <3>1, <3>2 DEF Sound
    <3>4. TakenAt(n) \in SUBSET Batch
      BY <1>0 DEF AvailabilityInv, TakenAt
    <3> QED BY <1>0, <3>2, <3>3, <3>4, AbsorbMarks, AbsorbStreak DEF Sound
  <2> QED BY <1>1, <1>2, <2>1, <2>2, <2>3, <2>4 DEF Sound
<1> QED BY <1>2, <1>3, <1>5, <1>9, <1>10 DEF ChecksAdvance

\* Nothing is taken.
LEMMA NothingTaken ==
  ASSUME AvailabilityInv, UNCHANGED <<sealed, taken, pub, oldestFirst>>
  PROVE  /\ pub' \in [Nodes -> Row]
         /\ \A k \in Nodes : Sound(k)'
         /\ ChecksAdvance
<1>1. \A k \in Nodes : pub[k].state.checked \in Nat
  BY AvailabilityAssumption DEF AvailabilityInv, Row, Instants
<1>2. \A k \in Nodes : Sound(k)'
  BY DEF AvailabilityInv, Sound, Countable, TakenAt
<1> QED BY <1>1, <1>2 DEF AvailabilityInv, ChecksAdvance

LEMMA StepAvailabilityInv ==
  ASSUME AvailabilityInv, [Next]_vars
  PROVE  AvailabilityInv' /\ ChecksAdvance
<1>1. ASSUME NEW kind \in Kinds, Observe(kind)
      PROVE  AvailabilityInv' /\ ChecksAdvance
  <2>1. clock' \in Instants \ {0}
    BY <1>1, AvailabilityAssumption DEF Observe, Instants, AvailabilityInv
  <2>2. [at |-> clock', kind |-> kind] \in Batch
    BY <2>1 DEF Batch
  <2>3. UNCHANGED <<window, sealed, applied, taken, pub, oldestFirst, inStep>>
    BY <1>1 DEF Observe
  <2>4. observed' \subseteq Batch
    BY <1>1, <2>2 DEF Observe, AvailabilityInv
  <2> QED BY <2>1, <2>3, <2>4, NothingTaken DEF AvailabilityInv
<1>2. ASSUME NEW b \in observed, Abandon(b)
      PROVE  AvailabilityInv' /\ ChecksAdvance
  <2>1. /\ UNCHANGED <<window, sealed, applied, taken, pub, oldestFirst, inStep, clock>>
        /\ observed' \subseteq Batch
    BY <1>2 DEF Abandon, AvailabilityInv
  <2> QED BY <2>1, NothingTaken DEF AvailabilityInv
<1>3. ASSUME NEW b \in observed, Persist(b)
      PROVE  AvailabilityInv' /\ ChecksAdvance
  <2>1. b \in Batch /\ "producer" \in Nodes /\ sealed \in Seq(Batch)
    BY DEF Nodes, AvailabilityInv
  <2>2. /\ UNCHANGED <<window, clock, applied, taken, inStep>>
        /\ observed' \subseteq Batch
    BY <1>3 DEF Persist, AvailabilityInv
  <2>3. CASE UNCHANGED <<sealed, pub, oldestFirst>>
    BY <2>2, <2>3, NothingTaken DEF AvailabilityInv
  <2>4. CASE Apply("producer", b) /\ sealed' = Append(sealed, b)
    <3>1. /\ sealed' \in Seq(Batch) /\ DOMAIN sealed \subseteq DOMAIN sealed'
          /\ \A i \in DOMAIN sealed : sealed'[i] = sealed[i]
          /\ Len(sealed) + 1 \in DOMAIN sealed' /\ sealed'[Len(sealed) + 1] = b
          /\ \A i \in DOMAIN sealed' : i \in DOMAIN sealed \/ i = Len(sealed) + 1
      BY <2>1, <2>4
    <3>2. {sealed'[i] : i \in DOMAIN sealed'} = {sealed[i] : i \in DOMAIN sealed} \cup {b}
      BY <3>1
    <3>3. /\ TakenAt("producer")' = TakenAt("producer") \cup {b}
          /\ \A k \in Nodes \ {"producer"} : TakenAt(k)' = TakenAt(k)
      BY <2>2, <3>2 DEF TakenAt, Nodes
    <3>4. /\ pub' \in [Nodes -> Row] /\ oldestFirst' \in [Nodes -> BOOLEAN]
          /\ \A k \in Nodes : Sound(k)'
          /\ ChecksAdvance
      BY <2>1, <2>4, <3>1, <3>3, OneApplies
    <3> QED BY <2>2, <3>1, <3>2, <3>4 DEF AvailabilityInv
  <2> QED BY <1>3, <2>3, <2>4 DEF Persist
<1>4. ASSUME NEW i \in DOMAIN sealed, Deliver(i) \/ Repeat(i)
      PROVE  AvailabilityInv' /\ ChecksAdvance
  <2>1. /\ sealed \in Seq(Batch) /\ sealed[i] \in Batch /\ "receiver" \in Nodes
        /\ inStep \in BOOLEAN
    BY DEF Nodes, AvailabilityInv
  <2>2. /\ applied' = applied \cup {sealed[i]}
        /\ UNCHANGED <<window, clock, observed, sealed>>
        /\ inStep' \in BOOLEAN
    BY <1>4, <2>1 DEF Deliver, Repeat, Receive
  <2>3. CASE UNCHANGED <<pub, taken, oldestFirst>>
    BY <2>2, <2>3, NothingTaken DEF AvailabilityInv
  <2>4. CASE Apply("receiver", sealed[i]) /\ taken' = taken \cup {sealed[i]}
    <3>1. /\ TakenAt("receiver")' = TakenAt("receiver") \cup {sealed[i]}
          /\ \A k \in Nodes \ {"receiver"} : TakenAt(k)' = TakenAt(k)
      BY <2>2, <2>4 DEF TakenAt, Nodes
    <3>2. /\ pub' \in [Nodes -> Row] /\ oldestFirst' \in [Nodes -> BOOLEAN]
          /\ \A k \in Nodes : Sound(k)'
          /\ ChecksAdvance
      BY <2>1, <2>2, <2>4, <3>1, OneApplies
    <3> QED BY <2>2, <2>4, <3>2 DEF AvailabilityInv
  <2> QED BY <1>4, <2>3, <2>4 DEF Deliver, Repeat, Receive
<1>5. CASE UNCHANGED vars
  <2>1. UNCHANGED <<window, clock, observed, sealed, applied, taken, pub, oldestFirst, inStep>>
    BY <1>5 DEF vars
  <2> QED BY <2>1, NothingTaken DEF AvailabilityInv
<1>6. ASSUME NEW w \in Windows, SetWindow(w)
      PROVE  AvailabilityInv' /\ ChecksAdvance
  <2>1. /\ UNCHANGED <<clock, observed, sealed, applied, taken, pub, oldestFirst, inStep>>
        /\ window' \in [Nodes -> Windows]
    BY <1>6 DEF SetWindow, AvailabilityInv
  <2> QED BY <2>1, NothingTaken DEF AvailabilityInv
<1> QED BY <1>1, <1>2, <1>3, <1>4, <1>5, <1>6 DEF Next

LEMMA InvariantHolds == Spec => []AvailabilityInv
<1>1. AvailabilityInv /\ [Next]_vars => AvailabilityInv'
  BY StepAvailabilityInv
<1> QED BY InitAvailabilityInv, <1>1, PTL DEF Spec

-----------------------------------------------------------------------------
(* A receiver in step *)

\* Every observation has its instant, so a sealed batch is sealed once.
Distinct ==
    /\ \A b \in observed : b.at <= clock
    /\ \A b, c \in observed : b.at = c.at => b = c
    /\ \A i \in DOMAIN sealed : /\ sealed[i].at <= clock
                                /\ \A b \in observed : sealed[i].at # b.at
    /\ \A i, j \in DOMAIN sealed : sealed[i].at = sealed[j].at => i = j

LEMMA StepDistinct == AvailabilityInv /\ Distinct /\ [Next]_vars => Distinct'
<1> SUFFICES ASSUME AvailabilityInv, Distinct, [Next]_vars PROVE Distinct'
  OBVIOUS
<1>1. /\ clock \in Nat /\ observed \subseteq Batch /\ sealed \in Seq(Batch)
      /\ \A b \in Batch : b.at \in Nat
  BY AvailabilityAssumption DEF AvailabilityInv, Instants, Batch
<1>2. \A i \in DOMAIN sealed : sealed[i] \in Batch
  BY <1>1
<1>3. ASSUME NEW kind \in Kinds, Observe(kind) PROVE Distinct'
  <2>1. /\ clock' = clock + 1 /\ sealed' = sealed
        /\ \A b \in observed' : b \in observed \/ b = [at |-> clock', kind |-> kind]
    BY <1>3 DEF Observe
  <2>2. \A b \in observed : b.at \in Nat /\ b.at < clock'
    BY <1>1, <2>1 DEF Distinct
  <2>3. \A b, c \in observed' : b.at = c.at => b = c
    BY <2>1, <2>2 DEF Distinct
  <2>4. \A b \in observed' : b.at <= clock'
    BY <1>1, <2>1, <2>2
  <2>5. \A i \in DOMAIN sealed : sealed[i].at < clock'
    BY <1>1, <1>2, <2>1 DEF Distinct
  <2>6. \A i \in DOMAIN sealed : /\ sealed[i].at <= clock'
                                 /\ \A b \in observed' : sealed[i].at # b.at
    BY <1>1, <1>2, <2>1, <2>5 DEF Distinct
  <2> QED BY <2>1, <2>3, <2>4, <2>6 DEF Distinct
<1>4. ASSUME NEW b \in observed, Abandon(b) PROVE Distinct'
  BY <1>4 DEF Abandon, Distinct
<1>5. ASSUME NEW b \in observed, Persist(b) PROVE Distinct'
  <2>1. clock' = clock /\ observed' = observed \ {b} /\ b \in Batch
    BY <1>1, <1>5 DEF Persist
  <2>2. CASE sealed' = sealed
    BY <2>1, <2>2 DEF Distinct
  <2>3. CASE sealed' = Append(sealed, b)
    <3>1. /\ DOMAIN sealed' = 1..(Len(sealed) + 1) /\ DOMAIN sealed = 1..Len(sealed)
          /\ \A i \in DOMAIN sealed : sealed'[i] = sealed[i]
          /\ sealed'[Len(sealed) + 1] = b
      BY <1>1, <2>1, <2>3
    <3>2. \A i \in DOMAIN sealed' : i \in DOMAIN sealed \/ i = Len(sealed) + 1
      BY <1>1, <3>1
    <3>3. \A i, j \in DOMAIN sealed' : sealed'[i].at = sealed'[j].at => i = j
      BY <3>1, <3>2 DEF Distinct
    <3>4. \A i \in DOMAIN sealed' : /\ sealed'[i].at <= clock'
                                    /\ \A c \in observed' : sealed'[i].at # c.at
      BY <2>1, <3>1, <3>2 DEF Distinct
    <3> QED BY <2>1, <3>1, <3>3, <3>4 DEF Distinct
  <2> QED BY <1>5, <2>2, <2>3 DEF Persist
<1>6. ASSUME NEW i \in DOMAIN sealed, Deliver(i) \/ Repeat(i) PROVE Distinct'
  BY <1>6 DEF Deliver, Repeat, Receive, Distinct
<1>7. CASE UNCHANGED <<clock, observed, sealed>>
  BY <1>7 DEF Distinct
<1> QED BY <1>3, <1>4, <1>5, <1>6, <1>7 DEF Next, SetWindow, vars

(***************************************************************************)
(* The rows of the producer after each sealed batch are a history; the     *)
(* receiver in step stands somewhere in it, at the prefix it has applied.  *)
(* Both sides run the same code on the same rows, so the next batch takes  *)
(* it to the next entry, whatever instants the batches bear.  It drops     *)
(* none of them: the first one is within its window, and from there on it  *)
(* has the publication, as every entry after the first does.               *)
(***************************************************************************)
History(h) ==
    /\ h[0] = Unknown
    /\ \A i \in 1..Len(sealed) : h[i].known
    /\ \A i \in 1..Len(sealed) : h[i] = Absorb(h[i - 1], sealed[i])
    /\ h[Len(sealed)] = pub["producer"]

Follows(h) == inStep /\ DiscoveryInWindow =>
    \E k \in 0..Len(sealed) : /\ applied = {sealed[i] : i \in 1..k}
                              /\ pub["receiver"] = h[k]

Lockstep == \E h : History(h) /\ Follows(h)

LEMMA PersistLockstep ==
  ASSUME AvailabilityInv, Lockstep, NEW b \in observed, Persist(b),
         ~StaleDiscovery("producer", b)
  PROVE  Lockstep'
<1>1. sealed \in Seq(Batch) /\ Len(sealed) \in Nat /\ b \in Batch
  BY DEF AvailabilityInv
<1>2. /\ sealed' = Append(sealed, b) /\ UNCHANGED <<window, applied, inStep>>
      /\ pub'["producer"] = Absorb(pub["producer"], b)
      /\ pub'["receiver"] = pub["receiver"]
      /\ Accepts(pub["producer"], b)
  BY DEF Persist, Apply, AvailabilityInv, Nodes
<1>3. /\ Len(sealed') = Len(sealed) + 1 /\ sealed'[Len(sealed) + 1] = b
      /\ \A i \in 1..Len(sealed) : sealed'[i] = sealed[i]
  BY <1>1, <1>2
<1>4. PICK h : History(h) /\ Follows(h)
  BY DEF Lockstep
<1>5. PICK g : /\ \A i \in 0..Len(sealed) : g[i] = h[i]
               /\ g[Len(sealed) + 1] = Absorb(pub["producer"], b)
  <2> DEFINE f == [i \in 0..(Len(sealed) + 1) |->
                     IF i <= Len(sealed) THEN h[i] ELSE Absorb(pub["producer"], b)]
  <2>1. /\ \A i \in 0..Len(sealed) : f[i] = h[i]
        /\ f[Len(sealed) + 1] = Absorb(pub["producer"], b)
    BY <1>1
  <2> HIDE DEF f
  <2> QED BY <2>1
<1>6. \A i \in 1..Len(sealed') : g[i] = Absorb(g[i - 1], sealed'[i])
  <2> SUFFICES ASSUME NEW i \in 1..Len(sealed') PROVE g[i] = Absorb(g[i - 1], sealed'[i])
    OBVIOUS
  <2>1. CASE i \in 1..Len(sealed)
    <3>1. i - 1 \in 0..Len(sealed) /\ i \in 0..Len(sealed)
      BY <1>1, <2>1
    <3> QED BY <1>3, <1>4, <1>5, <2>1, <3>1 DEF History
  <2>2. CASE i = Len(sealed) + 1
    <3>1. i - 1 = Len(sealed) /\ Len(sealed) \in 0..Len(sealed)
      BY <1>1, <2>2
    <3>2. g[i - 1] = pub["producer"]
      BY <1>4, <1>5, <3>1 DEF History
    <3> QED BY <1>3, <1>5, <2>2, <3>2
  <2> QED BY <1>1, <1>3, <2>1, <2>2
<1>7. History(g)'
  <2>1. 0 \in 0..Len(sealed)
    BY <1>1
  <2>2. g[0] = Unknown
    BY <1>4, <1>5, <2>1 DEF History
  <2>3. pub["producer"] \in Row /\ Absorb(pub["producer"], b).known
    BY <1>2, AbsorbKnown DEF AvailabilityInv, Nodes, Row, Accepts
  <2>4. ASSUME NEW i \in 1..Len(sealed') PROVE g[i].known
    <3>1. CASE i \in 1..Len(sealed)
      BY <1>1, <1>4, <1>5, <3>1 DEF History
    <3>2. CASE i = Len(sealed) + 1
      BY <1>5, <2>3, <3>2
    <3> QED BY <1>1, <1>3, <3>1, <3>2
  <2> QED BY <1>2, <1>3, <1>5, <1>6, <2>2, <2>4 DEF History
<1>8. Follows(g)'
  <2> SUFFICES ASSUME inStep', DiscoveryInWindow'
               PROVE  \E k \in 0..Len(sealed') : /\ applied' = {sealed'[i] : i \in 1..k}
                                                 /\ pub'["receiver"] = g[k]
    BY DEF Follows
  <2>0. DiscoveryInWindow
    <3>1. sealed # <<>> => sealed' # <<>> /\ sealed'[1] = sealed[1]
      BY <1>1, <1>3
    <3> QED BY <1>2, <3>1 DEF DiscoveryInWindow
  <2>1. PICK k \in 0..Len(sealed) : /\ applied = {sealed[i] : i \in 1..k}
                                    /\ pub["receiver"] = h[k]
    BY <1>2, <1>4, <2>0 DEF Follows
  <2>2. k \in 0..Len(sealed') /\ \A i \in 1..k : sealed'[i] = sealed[i]
    BY <1>1, <1>3
  <2>3. applied' = {sealed'[i] : i \in 1..k}
    BY <1>2, <2>1, <2>2
  <2> QED BY <1>2, <1>5, <2>1, <2>2, <2>3
<1> QED BY <1>7, <1>8 DEF Lockstep

LEMMA DeliverLockstep ==
  ASSUME AvailabilityInv, Distinct, Lockstep, NEW n \in DOMAIN sealed, Deliver(n)
  PROVE  Lockstep'
<1>1. sealed \in Seq(Batch) /\ Len(sealed) \in Nat /\ n \in 1..Len(sealed)
  BY DEF AvailabilityInv
<1>2. /\ UNCHANGED <<window, sealed>> /\ sealed[n] \notin applied
      /\ applied' = applied \cup {sealed[n]}
      /\ inStep' = (inStep /\ \A j \in 1..(n - 1) : sealed[j] \in applied)
      /\ pub'["producer"] = pub["producer"]
  BY DEF Deliver, Receive, Apply, AvailabilityInv, Nodes
<1>3. PICK h : History(h) /\ Follows(h)
  BY DEF Lockstep
<1>4. History(h)'
  BY <1>2, <1>3 DEF History
<1>5. Follows(h)'
  <2> SUFFICES ASSUME inStep', DiscoveryInWindow'
               PROVE  \E k \in 0..Len(sealed') : /\ applied' = {sealed'[i] : i \in 1..k}
                                                 /\ pub'["receiver"] = h[k]
    BY DEF Follows
  <2>1. inStep /\ (\A j \in 1..(n - 1) : sealed[j] \in applied) /\ DiscoveryInWindow
    BY <1>2 DEF DiscoveryInWindow
  <2>2. PICK k \in 0..Len(sealed) : /\ applied = {sealed[i] : i \in 1..k}
                                    /\ pub["receiver"] = h[k]
    BY <1>3, <2>1 DEF Follows
  <2>3. n > k
    BY <1>1, <1>2, <2>2
  <2>4. n - 1 <= k
    <3> SUFFICES ASSUME n - 1 > k PROVE FALSE
      BY <1>1, <2>2
    <3>1. k + 1 \in 1..(n - 1) /\ k + 1 \in 1..Len(sealed)
      BY <1>1, <2>2
    <3>2. PICK i \in 1..k : sealed[k + 1] = sealed[i]
      BY <2>1, <2>2, <3>1
    <3>3. i \in DOMAIN sealed /\ k + 1 \in DOMAIN sealed /\ i # k + 1
      BY <1>1, <2>2, <3>1
    <3> QED BY <3>2, <3>3 DEF Distinct
  <2>5. n = k + 1 /\ n - 1 = k /\ n \in 0..Len(sealed)
    BY <1>1, <2>2, <2>3, <2>4
  <2>6. applied' = {sealed[i] : i \in 1..n}
    <3>1. \A i : i \in 1..n <=> i \in 1..k \/ i = n
      BY <1>1, <2>2, <2>5
    <3> QED BY <1>2, <2>2, <3>1
  <2>7. ~StaleDiscovery("receiver", sealed[n])
    <3>1. CASE k = 0
      <4>1. n = 1 /\ sealed # <<>>
        BY <1>1, <2>5, <3>1
      <4>2. sealed[n].at \in Nat /\ window["receiver"] \in Nat
        BY AgesComparable
      <4> QED BY <2>1, <4>1, <4>2 DEF StaleDiscovery, DiscoveryInWindow
    <3>2. CASE k # 0
      <4>1. k \in 1..Len(sealed)
        BY <1>1, <2>2, <3>2
      <4> QED BY <1>3, <2>2, <4>1 DEF History, StaleDiscovery
    <3> QED BY <3>1, <3>2
  <2>8. pub'["receiver"] = h[n]
    <3>1. pub'["receiver"] = Absorb(pub["receiver"], sealed[n])
      BY <2>7 DEF Deliver, Receive, Apply, AvailabilityInv, Nodes
    <3> QED BY <1>1, <1>3, <2>2, <2>5, <3>1 DEF History
  <2> QED BY <1>2, <2>5, <2>6, <2>8
<1> QED BY <1>4, <1>5 DEF Lockstep

LEMMA StepLockstep ==
  ASSUME AvailabilityInv, Distinct, Lockstep, [Next]_vars
  PROVE  Lockstep'
<1>1. CASE UNCHANGED <<sealed, applied, pub, inStep>> /\ window'["receiver"] = window["receiver"]
  BY <1>1 DEF Lockstep, History, Follows, DiscoveryInWindow
<1>2. ASSUME NEW i \in DOMAIN sealed, Repeat(i) PROVE Lockstep'
  <2>1. ~inStep' /\ sealed' = sealed /\ pub'["producer"] = pub["producer"]
    BY <1>2 DEF Repeat, Receive, Apply, AvailabilityInv, Nodes
  <2> QED BY <2>1 DEF Lockstep, History, Follows
<1>3. ASSUME NEW b \in observed, Persist(b), StaleDiscovery("producer", b) PROVE Lockstep'
  BY <1>1, <1>3 DEF Persist
<1>4. ASSUME NEW w \in Windows, SetWindow(w) PROVE Lockstep'
  BY <1>1, <1>4 DEF SetWindow, AvailabilityInv, Nodes
<1> QED BY <1>1, <1>2, <1>3, <1>4, PersistLockstep, DeliverLockstep
       DEF Next, Observe, Abandon, vars

LEMMA LockstepHolds == Spec => [](AvailabilityInv /\ Distinct /\ Lockstep)
<1>1. Init => Distinct
  BY DEF Init, Distinct
<1>2. Init => Lockstep
  <2> SUFFICES ASSUME Init PROVE Lockstep
    OBVIOUS
  <2> DEFINE h == [i \in 0..0 |-> Unknown]
  <2>1. Len(sealed) = 0 /\ h[0] = Unknown /\ applied = {} /\ 1..0 = {}
    BY DEF Init
  <2>2. pub["producer"] = Unknown /\ pub["receiver"] = Unknown
    BY DEF Init, Nodes
  <2> HIDE DEF h
  <2>3. History(h) /\ Follows(h)
    BY <2>1, <2>2 DEF History, Follows
  <2> QED BY <2>3 DEF Lockstep
<1>3. AvailabilityInv /\ Distinct /\ Lockstep /\ [Next]_vars => Lockstep'
  BY StepLockstep
<1> QED BY <1>1, <1>2, <1>3, StepDistinct, InvariantHolds, PTL DEF Spec

-----------------------------------------------------------------------------
(* The newest observation *)

\* What row shows of batch c, the newest it took.
LastWord(row, c) == IF c.kind = "seen" THEN row = Present(c.at)
                                       ELSE row.state.outcome = c.kind

\* Of the batches of A the newest one decides.
Latest(row, A) ==
    /\ \A c \in A : row.state.status # "none" /\ c.at <= row.state.checked
    /\ \A c \in A : c.at = row.state.checked => LastWord(row, c)

\* A batch the row has seen a newer one of, or that very batch, leaves its state as
\* it is; any other one becomes the last check.
LEMMA AbsorbState ==
  ASSUME NEW row, WellFormed(row), NEW b \in Batch
  PROVE  /\ Stale(row.state, b.at) => /\ Absorb(row, b).state = row.state
                                      /\ Absorb(row, b) \in {row, Upsert(row)}
         /\ ~Stale(row.state, b.at) => /\ row.state.checked < b.at
                                       /\ Absorb(row, b).state.checked = b.at
                                       /\ Absorb(row, b).state.status # "none"
                                       /\ LastWord(Absorb(row, b), b)
<1>1. /\ row.state.checked \in Nat /\ b.at \in Nat /\ b.at > 0 /\ b.kind \in Kinds
      /\ b.at \in Instants \ {0} /\ Upsert(row).state = row.state
  BY AvailabilityAssumption DEF WellFormed, Row, Batch, Instants, Upsert
<1>2. CASE Stale(row.state, b.at)
  BY <1>1, <1>2 DEF Absorb, PresenceProbe, DeletionProbe
<1>3. CASE ~Stale(row.state, b.at)
  <2>1. row.state.checked < b.at
    BY <1>1, <1>3 DEF Stale, WellFormed, Blank
  <2>2. CASE b.kind = "seen"
    BY <1>1, <1>3, <2>1, <2>2 DEF Absorb, PresenceProbe, LastWord, Present, State
  <2>3. CASE b.kind # "seen"
    <3>1. b.kind \in {"missing", "unclear"}
      BY <1>1, <2>3 DEF Kinds
    <3>2. Absorb(row, b).state = Counted(row, b.kind, b.at)
      BY <1>3, <2>3 DEF Absorb, DeletionProbe
    <3>3. /\ Counted(row, b.kind, b.at).checked = b.at
          /\ Counted(row, b.kind, b.at).status \in Statuses
      BY <1>1, <1>3, <3>1, CountedKeeps
    <3>4. Counted(row, b.kind, b.at).outcome = b.kind
      BY DEF Counted, State
    <3> QED BY <1>3, <2>1, <2>3, <3>2, <3>3, <3>4 DEF LastWord, Statuses
  <2> QED BY <1>3, <2>1, <2>2, <2>3
<1> QED BY <1>2, <1>3

LEMMA AbsorbLatest ==
  ASSUME NEW row, WellFormed(row), NEW A \in SUBSET Batch, Latest(row, A),
         row.state.checked = 0 \/ \E c \in A : c.at = row.state.checked,
         NEW b \in Batch, \A c \in A : c.at = b.at => c = b
  PROVE  Latest(Absorb(row, b), A \cup {b})
<1>1. /\ row.state.checked \in Nat /\ b.at \in Nat /\ b.at > 0
      /\ \A c \in A : c.at \in Nat
  BY AvailabilityAssumption DEF WellFormed, Row, Batch, Instants
<1>2. CASE Stale(row.state, b.at)
  <2>1. /\ Absorb(row, b).state = row.state /\ Absorb(row, b) \in {row, Upsert(row)}
        /\ row.state.status # "none" /\ b.at <= row.state.checked
    BY <1>2, AbsorbState DEF Stale
  <2>2. \A c \in A : c.at = row.state.checked => LastWord(Absorb(row, b), c)
    BY <2>1 DEF Latest, LastWord, Upsert, Present
  <2>3. b.at = row.state.checked => b \in A
    BY <1>1
  <2> QED BY <2>1, <2>2, <2>3 DEF Latest
<1>3. CASE ~Stale(row.state, b.at)
  <2>1. /\ row.state.checked < b.at /\ Absorb(row, b).state.checked = b.at
        /\ Absorb(row, b).state.status # "none" /\ LastWord(Absorb(row, b), b)
    BY <1>3, AbsorbState
  <2>2. \A c \in A : c.at < b.at
    BY <1>1, <2>1 DEF Latest
  <2> QED BY <1>1, <2>1, <2>2 DEF Latest
<1> QED BY <1>2, <1>3

LatestInv == \A n \in Nodes : Latest(pub[n], TakenAt(n))

LEMMA StepLatest ==
  ASSUME AvailabilityInv, Distinct, LatestInv, [Next]_vars
  PROVE  LatestInv'
<1>1. /\ sealed \in Seq(Batch) /\ observed \subseteq Batch
      /\ \A n \in Nodes : TakenAt(n) \in SUBSET Batch
      /\ \A n \in Nodes : \A c \in TakenAt(n) : \E i \in DOMAIN sealed : c = sealed[i]
  BY DEF AvailabilityInv, TakenAt
<1>2. ASSUME NEW n \in Nodes, NEW b \in Batch, Apply(n, b),
             \A c \in TakenAt(n) : c.at = b.at => c = b,
             TakenAt(n)' = TakenAt(n) \cup {b},
             \A k \in Nodes \ {n} : TakenAt(k)' = TakenAt(k)
      PROVE  LatestInv'
  <2>1. /\ pub'[n] = Absorb(pub[n], b)
        /\ \A k \in Nodes \ {n} : pub'[k] = pub[k]
    BY <1>2 DEF Apply, AvailabilityInv
  <2>2. Latest(Absorb(pub[n], b), TakenAt(n) \cup {b})
    BY <1>1, <1>2, AbsorbLatest DEF AvailabilityInv, Sound, LatestInv
  <2> QED BY <1>2, <2>1, <2>2 DEF LatestInv
<1>3. ASSUME NEW b \in observed, Persist(b), ~StaleDiscovery("producer", b) PROVE LatestInv'
  <2>1. /\ \A i \in DOMAIN sealed : sealed'[i] = sealed[i]
        /\ sealed'[Len(sealed) + 1] = b
        /\ DOMAIN sealed' = DOMAIN sealed \cup {Len(sealed) + 1}
    <3>1. sealed' = Append(sealed, b) /\ b \in Batch
      BY <1>1, <1>3 DEF Persist
    <3> QED BY <1>1, <3>1
  <2>2. {sealed'[i] : i \in DOMAIN sealed'} = {sealed[i] : i \in DOMAIN sealed} \cup {b}
    BY <2>1
  <2>3. /\ TakenAt("producer")' = TakenAt("producer") \cup {b}
        /\ \A k \in Nodes \ {"producer"} : TakenAt(k)' = TakenAt(k)
    BY <1>3, <2>2 DEF TakenAt, Nodes, Persist
  <2>4. \A c \in TakenAt("producer") : c.at # b.at
    BY <1>1, <1>3 DEF Distinct, Nodes
  <2> QED BY <1>1, <1>2, <1>3, <2>3, <2>4 DEF Persist, Nodes
<1>4. ASSUME NEW i \in DOMAIN sealed, Deliver(i) \/ Repeat(i),
             ~StaleDiscovery("receiver", sealed[i])
      PROVE  LatestInv'
  <2>1. /\ Apply("receiver", sealed[i]) /\ sealed[i] \in Batch
        /\ taken' = taken \cup {sealed[i]} /\ sealed' = sealed
    BY <1>1, <1>4 DEF Deliver, Repeat, Receive
  <2>2. /\ TakenAt("receiver")' = TakenAt("receiver") \cup {sealed[i]}
        /\ \A k \in Nodes \ {"receiver"} : TakenAt(k)' = TakenAt(k)
    BY <2>1 DEF TakenAt, Nodes
  <2>3. \A c \in TakenAt("receiver") : c.at = sealed[i].at => c = sealed[i]
    BY <1>1 DEF Distinct, Nodes
  <2> QED BY <1>2, <2>1, <2>2, <2>3 DEF Nodes
<1>5. CASE UNCHANGED <<sealed, taken, pub>>
  BY <1>5 DEF LatestInv, TakenAt
<1>6. ASSUME NEW b \in observed, Persist(b), StaleDiscovery("producer", b) PROVE LatestInv'
  BY <1>5, <1>6 DEF Persist
<1>7. ASSUME NEW i \in DOMAIN sealed, Deliver(i) \/ Repeat(i),
             StaleDiscovery("receiver", sealed[i])
      PROVE  LatestInv'
  BY <1>5, <1>7 DEF Deliver, Repeat, Receive
<1> QED BY <1>3, <1>4, <1>5, <1>6, <1>7 DEF Next, SetWindow, Observe, Abandon, vars

LEMMA LatestHolds == Spec => [](AvailabilityInv /\ Distinct /\ LatestInv)
<1>1. Init => LatestInv
  BY DEF Init, LatestInv, Latest, TakenAt, Nodes
<1>2. AvailabilityInv /\ Distinct /\ LatestInv /\ [Next]_vars => LatestInv'
  BY StepLatest
<1> QED BY <1>1, <1>2, LockstepHolds, PTL DEF Spec

-----------------------------------------------------------------------------
(* What a receiver accepts *)

Sighting(S) == \E c \in S : c.kind = "seen"

\* A repository has the publication once it has taken a sighting, the producer sealed
\* no lookup before the first one, and the receiver takes those within its window.
KnownInv ==
    /\ \A n \in Nodes : Sighting(TakenAt(n)) <=> pub[n].known
    /\ \A i \in DOMAIN sealed : sealed[i].kind = "seen" \/ Sighting({sealed[j] : j \in 1..(i - 1)})
    /\ \A b \in applied : b.kind = "seen" /\ b.at <= window["receiver"] => pub["receiver"].known

LEMMA StepKnown ==
  ASSUME AvailabilityInv, KnownInv, [Next]_vars
  PROVE  KnownInv'
<1>1. /\ sealed \in Seq(Batch) /\ Len(sealed) \in Nat
      /\ \A n \in Nodes : pub[n] \in Row
  BY DEF AvailabilityInv
<1>2. ASSUME NEW n \in Nodes, NEW b, Apply(n, b),
             TakenAt(n)' = TakenAt(n) \cup {b},
             \A k \in Nodes \ {n} : TakenAt(k)' = TakenAt(k)
      PROVE  \A k \in Nodes : Sighting(TakenAt(k)') <=> pub'[k].known
  <2>1. /\ pub'[n] = Absorb(pub[n], b) /\ Accepts(pub[n], b)
        /\ \A k \in Nodes \ {n} : pub'[k] = pub[k]
    BY <1>2 DEF Apply, AvailabilityInv
  <2>2. Sighting(TakenAt(n) \cup {b}) /\ pub'[n].known
    <3>1. b.kind = "seen" \/ pub[n].known
      BY <2>1 DEF Accepts
    <3>2. pub'[n].known
      BY <1>1, <2>1, <3>1, AbsorbKnown DEF Row
    <3>3. Sighting(TakenAt(n) \cup {b})
      BY <3>1 DEF KnownInv, Sighting
    <3> QED BY <3>2, <3>3
  <2> QED BY <1>2, <2>1, <2>2 DEF KnownInv
<1>3. ASSUME NEW b \in observed, Persist(b), ~StaleDiscovery("producer", b) PROVE KnownInv'
  <2>1. /\ \A i \in DOMAIN sealed : sealed'[i] = sealed[i]
        /\ sealed'[Len(sealed) + 1] = b
        /\ DOMAIN sealed = 1..Len(sealed) /\ DOMAIN sealed' = 1..(Len(sealed) + 1)
        /\ Accepts(pub["producer"], b)
    BY <1>1, <1>3 DEF Persist, Apply
  <2>2. {sealed'[i] : i \in DOMAIN sealed'} = {sealed[i] : i \in DOMAIN sealed} \cup {b}
    BY <1>1, <2>1
  <2>3. /\ TakenAt("producer")' = TakenAt("producer") \cup {b}
        /\ \A k \in Nodes \ {"producer"} : TakenAt(k)' = TakenAt(k)
    BY <1>3, <2>2 DEF TakenAt, Nodes, Persist
  <2>4. ASSUME NEW i \in DOMAIN sealed'
        PROVE  sealed'[i].kind = "seen" \/ Sighting({sealed'[j] : j \in 1..(i - 1)})
    <3>1. {sealed'[j] : j \in 1..(i - 1)} = {sealed[j] : j \in 1..(i - 1)}
      BY <1>1, <2>1
    <3>2. CASE i \in DOMAIN sealed
      BY <2>1, <3>1, <3>2 DEF KnownInv
    <3>3. CASE i = Len(sealed) + 1
      <4>1. TakenAt("producer") = {sealed[j] : j \in 1..(i - 1)}
        BY <1>1, <2>1, <3>3 DEF TakenAt
      <4>2. b.kind = "seen" \/ Sighting(TakenAt("producer"))
        BY <2>1 DEF Accepts, KnownInv, Nodes
      <4> QED BY <2>1, <3>1, <3>3, <4>1, <4>2
    <3> QED BY <1>1, <2>1, <3>2, <3>3
  <2>5. /\ UNCHANGED <<applied, window>> /\ pub'["receiver"] = pub["receiver"]
        /\ Apply("producer", b)
    BY <1>3 DEF Persist, Apply, AvailabilityInv, Nodes
  <2> QED BY <1>2, <2>3, <2>4, <2>5 DEF KnownInv, Nodes
<1>4. ASSUME NEW i \in DOMAIN sealed, Deliver(i) \/ Repeat(i),
             ~StaleDiscovery("receiver", sealed[i])
      PROVE  KnownInv'
  <2>1. /\ Apply("receiver", sealed[i]) /\ UNCHANGED <<sealed, window>>
        /\ applied' = applied \cup {sealed[i]} /\ taken' = taken \cup {sealed[i]}
    BY <1>4 DEF Deliver, Repeat, Receive
  <2>2. /\ TakenAt("receiver")' = TakenAt("receiver") \cup {sealed[i]}
        /\ \A k \in Nodes \ {"receiver"} : TakenAt(k)' = TakenAt(k)
    BY <2>1 DEF TakenAt, Nodes
  <2>3. pub'["receiver"].known
    BY <1>1, <2>1, AbsorbKnown DEF Apply, Accepts, Row, AvailabilityInv, Nodes
  <2>4. \A k \in Nodes : Sighting(TakenAt(k)') <=> pub'[k].known
    BY <1>2, <2>1, <2>2 DEF Nodes
  <2> QED BY <2>1, <2>3, <2>4 DEF KnownInv
<1>5. CASE UNCHANGED <<sealed, applied, taken, pub>> /\ window'["receiver"] = window["receiver"]
  BY <1>5 DEF KnownInv, TakenAt
<1>6. ASSUME NEW b \in observed, Persist(b), StaleDiscovery("producer", b) PROVE KnownInv'
  BY <1>5, <1>6 DEF Persist
<1>7. ASSUME NEW i \in DOMAIN sealed, Deliver(i) \/ Repeat(i),
             StaleDiscovery("receiver", sealed[i])
      PROVE  KnownInv'
  <2>1. UNCHANGED <<sealed, window, taken, pub>> /\ applied' = applied \cup {sealed[i]}
    BY <1>7 DEF Deliver, Repeat, Receive
  <2>2. ~(sealed[i].at <= window["receiver"])
    <3>1. sealed[i].at \in Nat /\ window["receiver"] \in Nat
      BY AgesComparable
    <3> QED BY <1>7, <3>1 DEF StaleDiscovery
  <2> QED BY <2>1, <2>2 DEF KnownInv, TakenAt
<1>8. ASSUME NEW w \in Windows, SetWindow(w) PROVE KnownInv'
  BY <1>5, <1>8 DEF SetWindow, AvailabilityInv, Nodes
<1>9. CASE UNCHANGED <<window, sealed, applied, taken, pub>>
  BY <1>5, <1>9
<1> QED BY <1>3, <1>4, <1>6, <1>7, <1>8, <1>9 DEF Next, Observe, Abandon, vars

LEMMA KnownHolds == Spec => [](AvailabilityInv /\ KnownInv)
<1>1. Init => KnownInv
  BY DEF Init, KnownInv, TakenAt, Sighting, Nodes, Unknown
<1>2. AvailabilityInv /\ KnownInv /\ [Next]_vars => KnownInv'
  BY StepKnown
<1> QED BY <1>1, <1>2, InvariantHolds, PTL DEF Spec

-----------------------------------------------------------------------------
(* Theorems *)

\* Every variable keeps its type, whatever the order of persists and deliveries.
THEOREM AvailabilityTypeCorrect == Spec => []TypeOK
<1>1. AvailabilityInv => TypeOK
  BY DEF AvailabilityInv, TypeOK, Row
<1> QED BY InvariantHolds, <1>1, PTL

\* No row either repository writes violates the CHECK constraints of
\* publication_availability_state, so no batch can fail for ever on them.
THEOREM ConstraintsAlwaysHold == Spec => []ConstraintsHold
<1>1. AvailabilityInv => ConstraintsHold
  BY DEF AvailabilityInv, ConstraintsHold, Sound, WellFormed
<1> QED BY InvariantHolds, <1>1, PTL

\* No late, repeated or overtaken batch changes what a repository knows: a state changes
\* only with an observation newer than the last one checked.
THEOREM StatesOnlyAdvance == Spec => StateAdvances
<1> DEFINE Advances == \A n \in Nodes : pub'[n].state # pub[n].state =>
                          pub[n].state.checked < pub'[n].state.checked
<1>1. ASSUME AvailabilityInv, NEW n \in Nodes, NEW b \in Batch, Apply(n, b) PROVE Advances
  <2>1. /\ pub'[n] = Absorb(pub[n], b)
        /\ \A k \in Nodes \ {n} : pub'[k] = pub[k]
    BY <1>1 DEF Apply, AvailabilityInv
  <2>2. pub'[n].state # pub[n].state => pub[n].state.checked < pub'[n].state.checked
    BY <1>1, <2>1, AbsorbState DEF AvailabilityInv, Sound
  <2> QED BY <2>1, <2>2
<1>2. ASSUME AvailabilityInv, [Next]_vars PROVE [Advances]_vars
  <2>1. ASSUME NEW b \in observed, Persist(b) PROVE Advances
    BY <1>1, <1>2, <2>1 DEF AvailabilityInv, Persist, Nodes
  <2>2. ASSUME NEW i \in DOMAIN sealed, Deliver(i) \/ Repeat(i) PROVE Advances
    <3>1. sealed[i] \in Batch /\ "receiver" \in Nodes
      BY <1>2 DEF AvailabilityInv, Nodes
    <3>2. UNCHANGED pub \/ Apply("receiver", sealed[i])
      BY <2>2 DEF Deliver, Repeat, Receive
    <3> QED BY <1>1, <1>2, <3>1, <3>2
  <2>3. CASE UNCHANGED pub
    BY <2>3
  <2> QED BY <1>2, <2>1, <2>2, <2>3 DEF Next, SetWindow, Observe, Abandon, vars
<1> QED BY InvariantHolds, <1>2, PTL DEF Spec, StateAdvances

\* In whatever order, and however often, a repository took its batches, the newest one
\* has the last word.  What it does not take are sightings of a publication that it
\* does not have and that is older than its window.
THEOREM NewestHasLastWord == Spec => []LatestWins
<1>1. ASSUME AvailabilityInv, Distinct, LatestInv PROVE LatestWins
  <2> SUFFICES ASSUME NEW n \in Nodes, NEW b \in TakenAt(n), \A c \in TakenAt(n) : c.at <= b.at
               PROVE  pub[n].state.checked = b.at /\ LastWord(pub[n], b)
    BY DEF LatestWins, LastWord
  <2>1. pub[n].state.checked \in Nat /\ b.at \in Nat /\ b.at > 0
    <3>1. b \in Batch /\ pub[n] \in Row
      BY <1>1 DEF AvailabilityInv, TakenAt
    <3> QED BY <3>1, AvailabilityAssumption DEF Row, Batch, Instants
  <2>2. b.at <= pub[n].state.checked /\ Latest(pub[n], TakenAt(n))
    BY <1>1 DEF LatestInv, Latest
  <2>3. pub[n].state.checked <= b.at
    BY <1>1, <2>1, <2>2 DEF AvailabilityInv, Sound
  <2> QED BY <2>1, <2>2, <2>3 DEF Latest
<1> QED BY LatestHolds, <1>1, PTL

\* A receiver that took the newest of the sealed batches, when that one is a sighting,
\* holds the producer's rows, whatever else it took, in any order, and whatever it lacks.
THEOREM NewestSightingReconciles == Spec => []SightingsReconcile
<1>1. ASSUME AvailabilityInv, LatestWins PROVE SightingsReconcile
  <2> SUFFICES ASSUME NEW b \in taken, b.kind = "seen",
                      \A i \in DOMAIN sealed : sealed[i].at <= b.at
               PROVE  pub["receiver"] = pub["producer"]
    BY DEF SightingsReconcile
  <2>1. b \in TakenAt("receiver") /\ b \in TakenAt("producer")
    BY <1>1 DEF TakenAt, AvailabilityInv
  <2>2. \A n \in Nodes : \A c \in TakenAt(n) : c.at <= b.at
    BY <1>1 DEF TakenAt, AvailabilityInv, Nodes
  <2> QED BY <1>1, <2>1, <2>2 DEF LatestWins, Nodes
<1> QED BY InvariantHolds, NewestHasLastWord, <1>1, PTL

\* However batches are reordered and repeated, a deletion is confirmed only by
\* as many authoritative lookups as the threshold asks for.
THEOREM DeletionsRestOnLookups == Spec => []ConfirmedByLookups
<1>1. ASSUME AvailabilityInv PROVE ConfirmedByLookups
  <2>1. ASSUME NEW n \in Nodes, pub[n].state.status = "confirmed_deleted"
        PROVE  Threshold <= Cardinality(Countable(n))
    <3>1. /\ Threshold <= pub[n].state.missing
          /\ pub[n].state.missing <= Cardinality(Countable(n))
          /\ pub[n].state.missing \in Nat
      BY <1>1, <2>1 DEF AvailabilityInv, Sound, Enough, Confirmed, Row
    <3>2. Cardinality(Countable(n)) \in Nat
      BY <1>1, CountableFinite DEF AvailabilityInv
    <3> QED BY <3>1, <3>2, AvailabilityAssumption
  <2> QED BY <2>1 DEF ConfirmedByLookups, Countable
<1> QED BY InvariantHolds, <1>1, PTL

\* Where batches are applied oldest first, no sighting lies within the streak of
\* lookups that confirmed a deletion.
THEOREM StreaksStayUnbroken == Spec => []StreakUnbroken
<1>1. AvailabilityInv => StreakUnbroken
  BY DEF AvailabilityInv, Sound, Unbroken, StreakUnbroken
<1> QED BY InvariantHolds, <1>1, PTL

\* Where batches are applied oldest first, deleted_at is set exactly while the
\* deletion is confirmed.
THEOREM DeletionShown == Spec => []DeletedAgrees
<1>1. AvailabilityInv => DeletedAgrees
  BY DEF AvailabilityInv, Sound, Marked, Confirmed, DeletedAgrees
<1> QED BY InvariantHolds, <1>1, PTL

\* A receiver that was handed every sealed batch once, in cursor order, holds the
\* producer's rows, however the producer's own cycles overlapped, whichever instants the
\* batches bear and however the producer's window changed, if the publication was young
\* enough for the receiver's own window when the producer discovered it.
THEOREM ReceiverConverges == Spec => []Converged
<1>1. ASSUME AvailabilityInv, Distinct, Lockstep PROVE Converged
  <2> SUFFICES ASSUME inStep, DiscoveryInWindow, \A i \in DOMAIN sealed : sealed[i] \in applied
               PROVE  pub["receiver"] = pub["producer"]
    BY DEF Converged
  <2>1. sealed \in Seq(Batch) /\ Len(sealed) \in Nat
    BY <1>1 DEF AvailabilityInv
  <2>2. PICK h : History(h) /\ Follows(h)
    BY <1>1 DEF Lockstep
  <2>3. PICK k \in 0..Len(sealed) : /\ applied = {sealed[i] : i \in 1..k}
                                    /\ pub["receiver"] = h[k]
    BY <2>2 DEF Follows
  <2>4. k = Len(sealed)
    <3> SUFFICES ASSUME k < Len(sealed) PROVE FALSE
      BY <2>1, <2>3
    <3>1. Len(sealed) \in DOMAIN sealed
      BY <2>1, <2>3
    <3>2. PICK i \in 1..k : sealed[Len(sealed)] = sealed[i]
      BY <2>3, <3>1
    <3>3. i \in DOMAIN sealed /\ i # Len(sealed)
      BY <2>1, <2>3
    <3> QED BY <1>1, <3>1, <3>2, <3>3 DEF Distinct
  <2> QED BY <2>2, <2>3, <2>4 DEF History
<1> QED BY LockstepHolds, <1>1, PTL

\* No batch is refused for ever for want of its publication when the receiver's window
\* lets it have one: the first batch it has not applied is accepted if that batch or
\* one before it is a sighting within the window.
THEOREM NextIsAccepted == Spec => []NextAccepted
<1>1. ASSUME AvailabilityInv, KnownInv PROVE NextAccepted
  <2> SUFFICES ASSUME NEW i \in DOMAIN sealed, \A j \in 1..(i - 1) : sealed[j] \in applied,
                      NEW j \in 1..i, sealed[j].kind = "seen",
                      sealed[j].at <= window["receiver"], sealed[i].kind # "seen"
               PROVE  pub["receiver"].known
    BY DEF NextAccepted, Accepts
  <2>1. i \in Nat /\ j # i
    BY <1>1 DEF AvailabilityInv
  <2>2. sealed[j] \in applied
    BY <2>1
  <2> QED BY <1>1, <2>2 DEF KnownInv
<1> QED BY KnownHolds, <1>1, PTL
=============================================================================
