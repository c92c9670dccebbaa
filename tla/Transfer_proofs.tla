--------------------------- MODULE Transfer_proofs ---------------------------
(* Theorems about Transfer, for every value of its constants. *)
EXTENDS Transfer, FiniteSetTheorems, WellFoundedInduction, TLAPS

-----------------------------------------------------------------------------
(* The helper operators *)

\* A finite non-empty set of numbers has a highest element, so Highest is one.
LEMMA HighestIsTop ==
    ASSUME NEW S, S \subseteq Nat, IsFiniteSet(S), S # {}
    PROVE  Highest(S) \in S /\ \A k \in S : k <= Highest(S)
<1> DEFINE Top(n, T) == \A k \in T : k <= n
           Topless == {T \in FiniteSubsetsOf(S) : T # {} /\ \A n \in T : ~Top(n, T)}
<1>1. Topless = {}
  <2> SUFFICES ASSUME Topless # {} PROVE FALSE
    OBVIOUS
  <2>1. Topless \subseteq FiniteSubsetsOf(S)
    OBVIOUS
  <2>2. PICK T \in Topless :
           \A U \in Topless : <<U, T>> \notin StrictSubsetOrdering(S)
    <3> HIDE DEF Topless
    <3> QED
      BY <2>1, FS_StrictSubsetOrderingWellFounded, WFMin, Zenon
  <2>3. PICK n \in T : ~Top(n, T)
    OBVIOUS
  <2>4. T \subseteq Nat /\ IsFiniteSet(T) /\ T \in SUBSET S
    BY <2>1 DEF FiniteSubsetsOf
  <2>5. T \ {n} \in FiniteSubsetsOf(S)
    BY <2>4, FS_RemoveElement DEF FiniteSubsetsOf
  <2>6. <<T \ {n}, T>> \in StrictSubsetOrdering(S)
    BY <2>3, <2>4 DEF StrictSubsetOrdering
  <2>7. T \ {n} \notin Topless
    BY <2>2, <2>6
  <2>8. CASE T \ {n} = {}
    <3>1. T = {n} /\ n \in Nat
      BY <2>8, <2>3, <2>4
    <3> QED
      BY <2>3, <3>1
  <2>9. CASE T \ {n} # {}
    <3>1. PICK m \in T \ {n} : Top(m, T \ {n})
      BY <2>5, <2>7, <2>9
    <3>2. m \in Nat /\ n \in Nat /\ T \subseteq Nat
      BY <2>3, <2>4, <3>1
    <3>3. m <= n \/ n <= m
      BY <3>2
    <3>4. Top(m, T) \/ Top(n, T)
      BY <3>1, <3>2, <3>3
    <3> QED
      BY <2>2, <3>4, <2>3
  <2> QED
    BY <2>8, <2>9
<1>2. S \in FiniteSubsetsOf(S)
  BY DEF FiniteSubsetsOf
<1>3. \E n \in S : Top(n, S)
  BY <1>1, <1>2
<1> QED
  BY <1>3 DEF Highest

-----------------------------------------------------------------------------
(* Type correctness *)

LEMMA InitTypeOK == Init => TypeOK
<1> SUFFICES ASSUME Init PROVE TypeOK
  OBVIOUS
<1>1. /\ row \in [Batches -> RowStates]
      /\ inbox \in [Batches -> [state : InboxStates, receipt : Nat, payload : BOOLEAN]]
      /\ window \in [Batches -> [running : BOOLEAN, count : Nat]]
      /\ rollup \in [receipts : Nat, through : Nat]
  BY DEF Init, RowStates, InboxStates, NoReceipt
<1>2. /\ \A s \in Senders : spc[s] # "await"
      /\ \A h \in Handlers : hpc[h] = "idle"
  BY DEF Init
<1> QED
  BY <1>1, <1>2 DEF Init, TypeOK

\* The steps of sealing, back-off and retention on the producer.
LEMMA OutboxTypeOK ==
    ASSUME TypeOK,
           \/ \E b \in Batches : \/ SealInsert(b) \/ SealCommit(b) \/ SealAbort(b)
                                 \/ BackoffElapses(b) \/ WindowExpires(b)
           \/ \E V \in SUBSET Batches : PurgeAcknowledged(V)
    PROVE  TypeOK'
<1> USE DEF outboxVars, senderVars, netVars, inboxVars, handlerVars, RowStates
<1>1. ASSUME NEW b \in Batches, SealInsert(b) PROVE TypeOK'
  BY <1>1 DEF TypeOK, SealInsert
<1>2. ASSUME NEW b \in Batches, SealCommit(b) PROVE TypeOK'
  BY <1>2 DEF TypeOK, SealCommit
<1>3. ASSUME NEW b \in Batches, SealAbort(b) PROVE TypeOK'
  BY <1>3 DEF TypeOK, SealAbort
<1>4. ASSUME NEW b \in Batches, BackoffElapses(b) PROVE TypeOK'
  BY <1>4 DEF TypeOK, BackoffElapses
<1>5. ASSUME NEW b \in Batches, WindowExpires(b) PROVE TypeOK'
  BY <1>5 DEF TypeOK, WindowExpires
<1>6. ASSUME NEW V \in SUBSET Batches, PurgeAcknowledged(V) PROVE TypeOK'
  BY <1>6 DEF TypeOK, PurgeAcknowledged
<1> QED
  BY <1>1, <1>2, <1>3, <1>4, <1>5, <1>6

\* Hanging up changes who waits for a request, not its shape.
LEMMA HangUpType ==
    ASSUME TypeOK, NEW s \in Senders, HangUp(s)
    PROVE  /\ wire' \subseteq Request
           /\ hreq' \in [Handlers -> Request \cup {None}]
           /\ \A h \in Handlers : hreq[h] \in Request => hreq'[h] \in Request
           /\ answer' \in [Senders -> Nat]
BY DEF TypeOK, HangUp, Orphaned, Unawaited, Request

\* The steps of deliver_pending.
LEMMA SenderTypeOK ==
    ASSUME TypeOK, NEW s \in Senders,
           \/ Select(s) \/ PassDone(s) \/ Acknowledge(s) \/ Fail(s) \/ SenderCrash(s)
           \/ \E b \in Batches : Attempt(s, b) \/ SkipRow(s, b)
    PROVE  TypeOK'
<1> USE DEF outboxVars, senderVars, netVars, inboxVars, handlerVars, RowStates
<1>1. CASE Select(s)
  BY <1>1 DEF TypeOK, Select, Eligible, Oldest
<1>2. CASE PassDone(s)
  BY <1>2 DEF TypeOK, PassDone
<1>3. CASE Acknowledge(s)
  <2>1. cur[s] \in Batches /\ answer[s] \in Nat
    BY <1>3 DEF TypeOK, Acknowledge
  <2>2. row' \in [Batches -> RowStates] /\ ackReceipt' \in [Batches -> Nat]
    BY <1>3, <2>1 DEF TypeOK, Acknowledge
  <2> QED
    BY <1>3, <2>2 DEF TypeOK, Acknowledge
<1>4. CASE Fail(s)
  <2>1. available' \in [Batches -> BOOLEAN]
    BY <1>4 DEF TypeOK, Fail
  <2> QED
    BY <1>4, <2>1, HangUpType DEF TypeOK, Fail
<1>5. CASE SenderCrash(s)
  BY <1>5, HangUpType DEF TypeOK, SenderCrash
<1>6. ASSUME NEW b \in Batches, Attempt(s, b) PROVE TypeOK'
  <2>1. window' \in [Batches -> [running : BOOLEAN, count : Nat]]
    BY <1>6 DEF TypeOK, Attempt, Counted
  <2> QED
    BY <1>6, <2>1 DEF TypeOK, Attempt, Request
<1>7. ASSUME NEW b \in Batches, SkipRow(s, b) PROVE TypeOK'
  BY <1>7 DEF TypeOK, SkipRow
<1> QED
  BY <1>1, <1>2, <1>3, <1>4, <1>5, <1>6, <1>7

\* An answer is a receipt number.
LEMMA AnswerType ==
    ASSUME TypeOK, NEW m, NEW r \in Nat, Answer(m, r)
    PROVE  answer' \in [Senders -> Nat]
BY DEF TypeOK, Answer

\* The steps of receive() and apply().
LEMMA HandlerTypeOK ==
    ASSUME TypeOK, NEW h \in Handlers,
           \/ \E m \in wire : Receive(h, m)
           \/ ApplyRead(h) \/ ApplyCommit(h) \/ ApplyFail(h)
    PROVE  TypeOK'
<1> USE DEF outboxVars, senderVars, netVars, inboxVars, handlerVars,
            InboxStates, NoReceipt
<1>1. ASSUME NEW m \in wire, Receive(h, m) PROVE TypeOK'
  <2>1. m \in Request /\ m.batch \in Batches
    BY DEF TypeOK, Request
  <2>2. inbox' \in [Batches -> [state : InboxStates, receipt : Nat, payload : BOOLEAN]]
        /\ lastReceipt' \in Nat
    <3>1. CASE inbox[m.batch].state = "none"
      <4>1. lastReceipt' \in Nat
        BY <1>1, <3>1 DEF TypeOK, Receive, Insert
      <4> QED
        <5> DEFINE kept == [state   |-> IF Incompatible(m.batch) THEN "quarantined"
                                                               ELSE "verified",
                            receipt |-> lastReceipt',
                            payload |-> ~Incompatible(m.batch)]
        <5>1. inbox' = [inbox EXCEPT ![m.batch] = kept]
          BY <1>1, <3>1 DEF Receive, Insert
        <5>2. kept \in [state : InboxStates, receipt : Nat, payload : BOOLEAN]
          BY <4>1
        <5> HIDE DEF kept
        <5> QED
          BY <2>1, <4>1, <5>1, <5>2 DEF TypeOK
    <3>2. CASE inbox[m.batch].state # "none"
      BY <1>1, <3>2 DEF TypeOK, Receive
    <3> QED
      BY <3>1, <3>2
  <2>3. inbox'[m.batch].receipt \in Nat
    BY <2>1, <2>2
  <2>4. answer' \in [Senders -> Nat]
    <3>1. CASE Incompatible(m.batch)
      BY <1>1, <2>1, <2>3, <3>1, AnswerType DEF Receive
    <3>2. CASE ~Incompatible(m.batch)
      BY <1>1, <3>2 DEF Receive, TypeOK
    <3> QED
      BY <3>1, <3>2
  <2>5. /\ hpc' \in [Handlers -> {"idle", "read", "apply"}]
        /\ hreq' \in [Handlers -> Request \cup {None}]
        /\ hreceipt' \in [Handlers -> Nat]
    <3>1. CASE Incompatible(m.batch)
      BY <1>1, <3>1 DEF Receive, TypeOK
    <3>2. CASE ~Incompatible(m.batch)
      <4>1. /\ hpc' = [hpc EXCEPT ![h] = "read"]
            /\ hreq' = [hreq EXCEPT ![h] = m]
            /\ hreceipt' = [hreceipt EXCEPT ![h] = inbox'[m.batch].receipt]
        BY <1>1, <3>2 DEF Receive
      <4> HIDE <3>2
      <4> QED
        BY <2>1, <2>3, <4>1 DEF TypeOK
    <3> QED
      BY <3>1, <3>2
  <2> QED
    BY <1>1, <2>2, <2>4, <2>5 DEF Receive, TypeOK
<1>2. ASSUME ReturnAck(h) \/ ReturnError(h)
      PROVE  /\ answer' \in [Senders -> Nat]
             /\ hpc' \in [Handlers -> {"idle", "read", "apply"}]
             /\ hpc'[h] = "idle" /\ \A k \in Handlers \ {h} : hpc'[k] = hpc[k]
             /\ hreq' \in [Handlers -> Request \cup {None}]
             /\ \A k \in Handlers \ {h} : hreq'[k] = hreq[k]
             /\ hreceipt' \in [Handlers -> Nat]
  <2>1. hreceipt[h] \in Nat
    BY DEF TypeOK
  <2>2. answer' \in [Senders -> Nat]
    BY <1>2, <2>1, AnswerType DEF TypeOK, ReturnAck, ReturnError
  <2>3. Finish(h)
    BY <1>2 DEF ReturnAck, ReturnError
  <2> QED
    BY <2>2, <2>3 DEF TypeOK, Finish
<1>3. ASSUME ApplyRead(h) PROVE TypeOK'
  <2>1. CASE ReturnAck(h) \/ ReturnError(h)
    BY <1>2, <1>3, <2>1 DEF TypeOK, ApplyRead
  <2>2. CASE hpc' = [hpc EXCEPT ![h] = "apply"] /\ UNCHANGED <<hreq, hreceipt, answer>>
    BY <1>3, <2>2 DEF TypeOK, ApplyRead
  <2> QED
    BY <1>3, <2>1, <2>2 DEF ApplyRead
<1>4. ASSUME ApplyCommit(h) PROVE TypeOK'
  <2>1. hreq[h] \in Request /\ hreq[h].batch \in Batches
    BY <1>4 DEF TypeOK, ApplyCommit, Request
  <2>2. /\ inbox' \in [Batches -> [state : InboxStates, receipt : Nat, payload : BOOLEAN]]
        /\ facts' \subseteq Batches
        /\ applies' \in Nat
    BY <1>4, <2>1 DEF TypeOK, ApplyCommit, InState
  <2>3. ReturnAck(h) \/ ReturnError(h)
    BY <1>4 DEF ApplyCommit
  <2> QED
    BY <1>2, <1>4, <2>2, <2>3 DEF TypeOK, ApplyCommit
<1>5. ASSUME ApplyFail(h) PROVE TypeOK'
  BY <1>2, <1>5 DEF TypeOK, ApplyFail
<1> QED
  BY <1>1, <1>3, <1>4, <1>5

\* A lost request, a restart of the consumer, and its retention.
LEMMA InboxTypeOK ==
    ASSUME TypeOK,
           \/ \E m \in wire : LoseRequest(m)
           \/ ConsumerRestart \/ ConsumerUpgrade
           \/ \E V \in SUBSET Batches : ReleasePayloads(V) \/ PruneReceipts(V)
    PROVE  TypeOK'
<1> USE DEF outboxVars, senderVars, netVars, inboxVars, handlerVars,
            InboxStates, NoReceipt
<1>1. ASSUME NEW m \in wire, LoseRequest(m) PROVE TypeOK'
  BY <1>1 DEF TypeOK, LoseRequest
<1>2. CASE ConsumerRestart \/ ConsumerUpgrade
  <2>1. /\ hpc' = [k \in Handlers |-> "idle"]
        /\ hreq' = [k \in Handlers |-> None]
        /\ hreceipt' = [k \in Handlers |-> 0]
        /\ upgraded' \in BOOLEAN
        /\ UNCHANGED <<inbox, lastReceipt, rollup, facts, applies>>
        /\ UNCHANGED <<outboxVars, senderVars, netVars>>
    BY <1>2 DEF TypeOK, ConsumerRestart, ConsumerUpgrade
  <2> QED
    BY <2>1 DEF TypeOK
<1>3. ASSUME NEW V \in SUBSET Batches, ReleasePayloads(V) PROVE TypeOK'
  BY <1>3 DEF TypeOK, ReleasePayloads, Bodiless
<1>4. ASSUME NEW V \in SUBSET Batches, PruneReceipts(V) PROVE TypeOK'
  <2> DEFINE S == {rollup.through} \cup {cursor[b] : b \in V}
  <2>1. IsFiniteSet(S) /\ S \subseteq Nat /\ S # {}
    <3>1. IsFiniteSet(V)
      BY TransferAssumption, FS_Subset
    <3>2. IsFiniteSet({cursor[b] : b \in V})
      <4> DEFINE f == [b \in V |-> cursor[b]]
      <4>1. f \in Surjection(V, {cursor[b] : b \in V})
        BY DEF Surjection
      <4> QED
        BY <3>1, <4>1, FS_Surjection
    <3>3. IsFiniteSet(S)
      BY <3>2, FS_AddElement
    <3> QED
      BY <3>3 DEF TypeOK
  <2>2. Highest(S) \in Nat
    BY <2>1, HighestIsTop
  <2>3. Cardinality(V) \in Nat
    BY TransferAssumption, FS_Subset, FS_CardinalityType
  <2>4. rollup' \in [receipts : Nat, through : Nat]
    BY <1>4, <2>2, <2>3 DEF TypeOK, PruneReceipts
  <2> QED
    BY <1>4, <2>4 DEF TypeOK, PruneReceipts
<1> QED
  BY <1>1, <1>2, <1>3, <1>4

LEMMA StepTypeOK == TypeOK /\ [Next]_vars => TypeOK'
<1>1. TypeOK /\ Next => TypeOK'
  BY OutboxTypeOK, SenderTypeOK, HandlerTypeOK, InboxTypeOK
  DEF Next, ProducerStep, ConsumerStep
<1>2. TypeOK /\ UNCHANGED vars => TypeOK'
  BY DEF TypeOK, vars, outboxVars, senderVars, netVars, inboxVars, handlerVars
<1> QED
  BY <1>1, <1>2

\* Every variable keeps its type, and a process that awaits or serves a request
\* knows which one.
THEOREM TypeCorrect == Spec => []TypeOK
BY InitTypeOK, StepTypeOK, PTL DEF Spec

-----------------------------------------------------------------------------
(* Nothing that landed is taken back *)

\* No step of either server makes a batch that landed unlanded: receipts are
\* pruned only once their content is committed.
LEMMA LandedStays ==
    ASSUME TypeOK, ReceiptsTrue, [Next]_vars, NEW b \in Batches, Landed(b)
    PROVE  Landed(b)'
<1> USE DEF Landed, outboxVars, senderVars, netVars, inboxVars, handlerVars
<1>1. ASSUME NEW h \in Handlers, NEW m \in wire, Receive(h, m) PROVE Landed(b)'
  <2>1. m.batch \in Batches
    BY DEF TypeOK, Request
  <2>2. CASE inbox[m.batch].state = "none"
    BY <1>1, <2>1, <2>2 DEF TypeOK, Receive, Insert
  <2>3. CASE inbox[m.batch].state # "none"
    BY <1>1, <2>3 DEF Receive
  <2> QED
    BY <2>2, <2>3
<1>2. ASSUME NEW h \in Handlers, ApplyCommit(h) PROVE Landed(b)'
  BY <1>2 DEF TypeOK, ApplyCommit, Request, InState
<1>3. ASSUME NEW V \in SUBSET Batches, ReleasePayloads(V) PROVE Landed(b)'
  BY <1>3 DEF TypeOK, ReleasePayloads, Bodiless
<1>4. ASSUME NEW V \in SUBSET Batches, PruneReceipts(V) PROVE Landed(b)'
  BY <1>4 DEF TypeOK, PruneReceipts, ReceiptsTrue, Incompatible
<1>5. CASE UNCHANGED <<inbox, facts>>
  BY <1>5
<1> QED
  <2>1. CASE ProducerStep
    BY <1>5, <2>1 DEF ProducerStep, SealInsert, SealCommit, SealAbort, BackoffElapses,
       WindowExpires, Select, PassDone, Acknowledge, Fail, SenderCrash, Attempt,
       SkipRow, PurgeAcknowledged
  <2>2. CASE ConsumerStep
    BY <1>1, <1>2, <1>3, <1>4, <1>5, <2>2
    DEF ConsumerStep, ApplyRead, ApplyFail, ConsumerRestart, ConsumerUpgrade
  <2>3. CASE \E m \in wire : LoseRequest(m)
    BY <1>5, <2>3 DEF LoseRequest
  <2>4. CASE UNCHANGED vars
    BY <1>5, <2>4 DEF vars
  <2> QED
    BY <2>1, <2>2, <2>3, <2>4 DEF Next

-----------------------------------------------------------------------------
(* What the producer deletes has landed *)

LEMMA InitDeliveryInv == Init => DeliveryInv
<1> SUFFICES ASSUME Init PROVE DeliveryInv
  OBVIOUS
<1>1. TypeOK
  BY InitTypeOK
<1>2. NeverLost /\ AnswersLanded /\ RequestsAwaited /\ OneExchange /\ ReceiptsTrue
  BY DEF Init, NeverLost, AnswersLanded, RequestsAwaited, OneExchange, Serves, ReceiptsTrue, Incompatible, Given, NoReceipt
<1> QED
  BY <1>1, <1>2 DEF DeliveryInv

\* A step that touches neither the exchange nor the consumer, and marks no row
\* as given that was not, preserves the invariant.
LEMMA OutboxStepInv ==
    ASSUME DeliveryInv, TypeOK', UNCHANGED <<senderVars, netVars, inboxVars, handlerVars>>,
           \A b \in Batches : row'[b] \in Given => row[b] \in Given
    PROVE  DeliveryInv'
BY DEF DeliveryInv, NeverLost, AnswersLanded, RequestsAwaited, OneExchange, Serves, ReceiptsTrue, Incompatible, Waits,
       Landed, senderVars, netVars, inboxVars, handlerVars

\* Where a sender that awaits nothing stands does not matter to the exchange.
LEMMA WalkStepInv ==
    ASSUME DeliveryInv, TypeOK', NEW s \in Senders, spc[s] # "await",
           \A t \in Senders \ {s} : spc'[t] = spc[t],
           UNCHANGED <<row, cur, netVars, inboxVars, handlerVars>>
    PROVE  DeliveryInv'
<1> USE DEF netVars, inboxVars, handlerVars
<1>1. NeverLost' /\ ReceiptsTrue' /\ OneExchange'
  BY DEF DeliveryInv, NeverLost, ReceiptsTrue, Incompatible, OneExchange, Serves, Landed
<1>2. AnswersLanded'
  BY DEF DeliveryInv, AnswersLanded, Landed
<1>3. RequestsAwaited'
  BY DEF DeliveryInv, RequestsAwaited, Waits
<1> QED
  BY <1>1, <1>2, <1>3 DEF DeliveryInv

\* A sender that gives up leaves no request, and no answer, with its name.
LEMMA HangUpStepInv ==
    ASSUME DeliveryInv, TypeOK', NEW s \in Senders, HangUp(s),
           \A t \in Senders \ {s} : spc'[t] = spc[t] /\ cur'[t] = cur[t],
           UNCHANGED <<row, hpc, hreceipt, inboxVars>>
    PROVE  DeliveryInv'
<1> USE DEF inboxVars
<1>1. NeverLost' /\ ReceiptsTrue'
  BY DEF DeliveryInv, NeverLost, ReceiptsTrue, Incompatible, Landed
<1>2. /\ answer'[s] = 0
      /\ \A t \in Senders \ {s} : answer'[t] = answer[t]
  BY DEF HangUp, DeliveryInv, TypeOK
<1>3. \A m \in wire' : m.to # s /\ (m.to \in Senders => m \in wire)
  <2> SUFFICES ASSUME NEW m \in wire PROVE LET n == Orphaned(m, s) IN
                 n.to # s /\ (n.to \in Senders => n = m)
    BY DEF HangUp
  <2> QED
    BY TransferAssumption DEF Orphaned, Unawaited, DeliveryInv, TypeOK, Request
<1>4. \A h \in Handlers : hpc[h] # "idle" =>
         hreq'[h].to # s /\ (hreq'[h].to \in Senders => hreq'[h] = hreq[h])
  BY TransferAssumption DEF HangUp, Orphaned, Unawaited, DeliveryInv, TypeOK, Request
<1>5. AnswersLanded'
  BY <1>2 DEF DeliveryInv, AnswersLanded, Landed
<1>6. RequestsAwaited'
  BY <1>3, <1>4 DEF DeliveryInv, RequestsAwaited, Waits
<1>7. OneExchange'
  BY <1>2, <1>3, <1>4 DEF DeliveryInv, OneExchange, Serves
<1> QED
  BY <1>1, <1>5, <1>6, <1>7 DEF DeliveryInv

\* Sending: the row is pending, and the sender has no other exchange.
LEMMA AttemptInv ==
    ASSUME DeliveryInv, TypeOK', NEW s \in Senders, NEW b \in Batches, Attempt(s, b)
    PROVE  DeliveryInv'
<1> USE DEF inboxVars, handlerVars
<1>1. NeverLost' /\ ReceiptsTrue'
  BY DEF DeliveryInv, TypeOK, NeverLost, ReceiptsTrue, Incompatible, Landed, Attempt, Given
<1>2. AnswersLanded'
  BY DEF DeliveryInv, TypeOK, AnswersLanded, Landed, Attempt
<1>3. /\ \A m \in wire : m.to # s
      /\ \A h \in Handlers : ~Serves(h, s)
      /\ answer[s] = 0
  BY DEF DeliveryInv, TypeOK, RequestsAwaited, Waits, Serves, AnswersLanded, Attempt
<1>4. RequestsAwaited'
  BY <1>3 DEF DeliveryInv, TypeOK, RequestsAwaited, Waits, Serves, Attempt
<1>5. OneExchange'
  BY <1>3 DEF DeliveryInv, OneExchange, Serves, Attempt
<1> QED
  BY <1>1, <1>2, <1>4, <1>5 DEF DeliveryInv

\* Acknowledging: the answer speaks of the batch whose row it closes.
LEMMA AcknowledgeInv ==
    ASSUME DeliveryInv, TypeOK', NEW s \in Senders, Acknowledge(s)
    PROVE  DeliveryInv'
<1> USE DEF inboxVars, handlerVars
<1>1. cur[s] \in Batches /\ Landed(cur[s])
  BY DEF DeliveryInv, TypeOK, AnswersLanded, Acknowledge
<1>2. NeverLost'
  BY <1>1 DEF DeliveryInv, TypeOK, NeverLost, Landed, Acknowledge, Given
<1>3. ReceiptsTrue'
  BY DEF DeliveryInv, ReceiptsTrue, Incompatible, Acknowledge
<1>4. AnswersLanded'
  BY DEF DeliveryInv, TypeOK, AnswersLanded, Landed, Acknowledge
<1>5. (\A m \in wire : m.to # s) /\ (\A h \in Handlers : ~Serves(h, s))
  BY DEF DeliveryInv, OneExchange, Acknowledge
<1>6. RequestsAwaited'
  BY <1>5 DEF DeliveryInv, TypeOK, RequestsAwaited, Waits, Serves, Acknowledge
<1>7. OneExchange'
  BY <1>5 DEF DeliveryInv, TypeOK, OneExchange, Serves, Acknowledge
<1> QED
  BY <1>2, <1>3, <1>4, <1>6, <1>7 DEF DeliveryInv

\* A request that vanishes, and a restart that ends all of them, answer nobody.
LEMMA LossInv ==
    ASSUME DeliveryInv, TypeOK', (\E m \in wire : LoseRequest(m)) \/ ConsumerRestart \/ ConsumerUpgrade
    PROVE  DeliveryInv'
<1> USE DEF outboxVars, senderVars, netVars, inboxVars, handlerVars
<1>1. /\ UNCHANGED <<row, spc, cur, answer, inbox, facts>>
      /\ upgraded => upgraded'
      /\ wire' \subseteq wire
      /\ \A h \in Handlers : hpc'[h] = "idle" \/ (hpc'[h] = hpc[h] /\ hreq'[h] = hreq[h])
  BY DEF LoseRequest, ConsumerRestart, ConsumerUpgrade
<1>2. NeverLost' /\ ReceiptsTrue' /\ AnswersLanded'
  BY <1>1 DEF DeliveryInv, NeverLost, ReceiptsTrue, Incompatible, AnswersLanded, Landed
<1>3. RequestsAwaited' /\ OneExchange'
  BY <1>1 DEF DeliveryInv, RequestsAwaited, Waits, OneExchange, Serves
<1> QED
  BY <1>2, <1>3 DEF DeliveryInv

\* Retention on the consumer touches only receipts whose content is committed.
LEMMA RetentionInv ==
    ASSUME DeliveryInv, TypeOK', NEW V \in SUBSET Batches,
           ReleasePayloads(V) \/ PruneReceipts(V)
    PROVE  DeliveryInv'
<1> USE DEF outboxVars, senderVars, netVars, inboxVars, handlerVars
<1>1. UNCHANGED <<row, spc, cur, answer, wire, hpc, hreq, facts, upgraded>>
  BY DEF ReleasePayloads, PruneReceipts
<1>2. \A b \in Batches : inbox'[b].state = inbox[b].state
                        \/ (inbox[b].state = "applied" /\ inbox'[b].state = "none")
  BY DEF ReleasePayloads, PruneReceipts, Bodiless, NoReceipt, DeliveryInv, TypeOK
<1>3. ReceiptsTrue'
  BY <1>1, <1>2 DEF DeliveryInv, ReceiptsTrue, Incompatible
<1>4. \A b \in Batches : Landed(b) => Landed(b)'
  BY <1>1, <1>2 DEF DeliveryInv, ReceiptsTrue, Incompatible, Landed
<1>5. NeverLost'
  BY <1>1, <1>4 DEF DeliveryInv, NeverLost
<1>6. AnswersLanded'
  BY <1>1, <1>4 DEF DeliveryInv, TypeOK, AnswersLanded
<1>7. RequestsAwaited' /\ OneExchange'
  BY <1>1 DEF DeliveryInv, RequestsAwaited, Waits, OneExchange, Serves
<1> QED
  BY <1>3, <1>5, <1>6, <1>7 DEF DeliveryInv

\* A sender has one request on its way: it awaits the answer to one batch.
LEMMA OneRequest ==
    ASSUME TypeOK, RequestsAwaited, NEW m \in wire, NEW n \in wire,
           m.to = n.to, m.to \in Senders
    PROVE  m = n
<1>1. m.batch = cur[m.to] /\ n.batch = cur[n.to]
  BY DEF RequestsAwaited, Waits
<1>2. m \in [batch : Batches, to : Senders \cup {None}]
      /\ n \in [batch : Batches, to : Senders \cup {None}]
  BY DEF TypeOK, Request
<1> QED
  BY <1>1, <1>2

\* receive(): only a batch recorded as foreign is answered here.
LEMMA ReceiveInv ==
    ASSUME DeliveryInv, TypeOK', NEW h \in Handlers, NEW m \in wire, Receive(h, m)
    PROVE  DeliveryInv'
<1> USE DEF outboxVars, senderVars, netVars, inboxVars, handlerVars
<1>1. /\ m \in Request /\ m.batch \in Batches
      /\ UNCHANGED <<row, spc, cur, facts, upgraded>>
      /\ hpc[h] = "idle" /\ wire' = wire \ {m}
  BY DEF DeliveryInv, TypeOK, Request, Receive
<1>2. /\ \A b \in Batches \ {m.batch} : inbox'[b] = inbox[b]
      /\ inbox'[m.batch].state = IF inbox[m.batch].state # "none"
                                   THEN inbox[m.batch].state
                                   ELSE IF Incompatible(m.batch) THEN "quarantined"
                                                               ELSE "verified"
  <2>1. CASE inbox[m.batch].state = "none"
    BY <1>1, <2>1 DEF Receive, Insert, DeliveryInv, TypeOK
  <2>2. CASE inbox[m.batch].state # "none"
    BY <2>2 DEF Receive
  <2> QED
    BY <2>1, <2>2
<1>3. ReceiptsTrue'
  BY <1>1, <1>2 DEF DeliveryInv, ReceiptsTrue, Incompatible
<1>4. \A b \in Batches : Landed(b) => Landed(b)'
  BY <1>1, <1>2 DEF Landed
<1>5. NeverLost'
  BY <1>1, <1>4 DEF DeliveryInv, NeverLost
<1>6. CASE Incompatible(m.batch)
  <2>1. UNCHANGED <<hpc, hreq>>
    BY <1>6 DEF Receive
  <2>2. Landed(m.batch)'
    BY <1>1, <1>2, <1>6, <1>3 DEF DeliveryInv, TypeOK, ReceiptsTrue, Incompatible, Landed, InboxStates
  <2>3. \A s \in Senders : answer'[s] = answer[s] \/ s = m.to
    BY <1>6 DEF Receive, Answer, DeliveryInv, TypeOK
  <2>4. AnswersLanded'
    BY <1>1, <1>4, <2>2, <2>3
    DEF DeliveryInv, TypeOK, AnswersLanded, RequestsAwaited, Waits
  <2>5. RequestsAwaited'
    BY <1>1, <2>1 DEF DeliveryInv, RequestsAwaited, Waits
  <2>6. \A n \in wire' : n.to # m.to \/ n.to \notin Senders
    BY <1>1, OneRequest DEF DeliveryInv
  <2>7. OneExchange'
    BY <1>1, <2>1, <2>3, <2>6 DEF DeliveryInv, OneExchange, Serves
  <2> QED
    BY <1>3, <1>5, <2>4, <2>5, <2>7 DEF DeliveryInv
<1>7. CASE ~Incompatible(m.batch)
  <2>1. /\ answer' = answer
        /\ hpc'[h] = "read" /\ hreq'[h] = m
        /\ \A k \in Handlers \ {h} : hpc'[k] = hpc[k] /\ hreq'[k] = hreq[k]
    BY <1>7 DEF Receive, DeliveryInv, TypeOK
  <2>2. AnswersLanded'
    BY <1>1, <1>4, <2>1 DEF DeliveryInv, TypeOK, AnswersLanded
  <2>3. RequestsAwaited'
    BY <1>1, <2>1 DEF DeliveryInv, RequestsAwaited, Waits
  <2>4. \A n \in wire' : n.to # m.to \/ n.to \notin Senders
    BY <1>1, OneRequest DEF DeliveryInv
  <2>5. OneExchange'
    BY <1>1, <2>1, <2>4 DEF DeliveryInv, OneExchange, Serves
  <2> QED
    BY <1>3, <1>5, <2>2, <2>3, <2>5 DEF DeliveryInv
<1> QED
  BY <1>6, <1>7

\* Handing an ACK over: the batch landed, and the handler is done with it.
LEMMA ReturnInv ==
    ASSUME DeliveryInv, TypeOK', NEW h \in Handlers, hpc[h] # "idle",
           NEW c, c = hreq[h].batch,
           UNCHANGED <<row, spc, cur, wire>>, ReceiptsTrue',
           \A b \in Batches : Landed(b) => Landed(b)',
           \/ ReturnAck(h) /\ Landed(c)'
           \/ ReturnError(h)
    PROVE  DeliveryInv'
<1>1. hreq[h] \in Request /\ c \in Batches
  BY DEF DeliveryInv, TypeOK, Request
<1>2. /\ hpc'[h] = "idle"
      /\ \A k \in Handlers \ {h} : hpc'[k] = hpc[k] /\ hreq'[k] = hreq[k]
  BY DEF ReturnAck, ReturnError, Finish, DeliveryInv, TypeOK
<1>3. \A s \in Senders : \/ answer'[s] = answer[s]
                         \/ s = hreq[h].to /\ Landed(c)'
  BY DEF ReturnAck, ReturnError, Answer, DeliveryInv, TypeOK
<1>4. NeverLost'
  BY DEF DeliveryInv, NeverLost
<1>5. AnswersLanded'
  <2>1. \A s \in Senders : s = hreq[h].to => spc[s] = "await" /\ cur[s] = c
    BY DEF DeliveryInv, RequestsAwaited, Waits
  <2>2. \A s \in Senders : answer[s] # 0 => spc[s] = "await" /\ cur[s] \in Batches /\ Landed(cur[s])
    BY DEF DeliveryInv, TypeOK, AnswersLanded
  <2>3. \A s \in Senders : answer'[s] # 0 => spc'[s] = "await" /\ Landed(cur[s])'
    BY <1>1, <1>3, <2>1, <2>2
  <2> QED
    BY <2>3 DEF AnswersLanded, Landed
<1>6. RequestsAwaited'
  BY <1>2 DEF DeliveryInv, RequestsAwaited, Waits
<1>7. OneExchange'
  BY <1>2, <1>3 DEF DeliveryInv, OneExchange, Serves
<1> QED
  BY <1>4, <1>5, <1>6, <1>7 DEF DeliveryInv

\* apply(): an ACK is returned for a receipt it read as applied, or has just applied.
LEMMA ApplyInv ==
    ASSUME DeliveryInv, TypeOK', NEW h \in Handlers,
           ApplyRead(h) \/ ApplyCommit(h) \/ ApplyFail(h)
    PROVE  DeliveryInv'
<1> USE DEF outboxVars, senderVars, netVars, inboxVars, handlerVars
<1> DEFINE c == hreq[h].batch
<1>1. hpc[h] # "idle" /\ c \in Batches /\ UNCHANGED <<row, spc, cur, wire>>
  BY DEF DeliveryInv, TypeOK, Request, ApplyRead, ApplyCommit, ApplyFail
<1>2. Held(h) = "applied" => c \in facts
  BY <1>1 DEF Held, DeliveryInv, ReceiptsTrue, Incompatible
<1>3. CASE /\ UNCHANGED <<inbox, facts, upgraded>>
           /\ \/ ReturnAck(h) /\ Held(h) = "applied"
              \/ ReturnError(h)
  <2>1. ReceiptsTrue' /\ \A b \in Batches : Landed(b) => Landed(b)'
    BY <1>3 DEF DeliveryInv, ReceiptsTrue, Incompatible, Landed
  <2>2. ASSUME NEW b, b = c, Held(h) = "applied" PROVE Landed(b)'
    BY <1>2, <1>3, <2>2 DEF Landed
  <2> QED
    BY <1>1, <1>3, <2>1, <2>2, ReturnInv
<1>4. CASE ApplyCommit(h) /\ Held(h) \notin {"none", "applied"}
  <2>1. /\ inbox'[c].state = "applied"
        /\ \A b \in Batches \ {c} : inbox'[b] = inbox[b]
        /\ facts' = facts \cup {c}
        /\ upgraded' = upgraded
        /\ ReturnAck(h)
    BY <1>1, <1>4 DEF ApplyCommit, InState, DeliveryInv, TypeOK
  <2>2. ReceiptsTrue' /\ \A b \in Batches : Landed(b) => Landed(b)'
    BY <2>1 DEF DeliveryInv, ReceiptsTrue, Incompatible, Landed
  <2>3. ASSUME NEW b, b = c PROVE Landed(b)'
    BY <2>1, <2>3 DEF Landed
  <2> QED
    BY <1>1, <2>1, <2>2, <2>3, ReturnInv
<1>5. CASE /\ ApplyRead(h)
           /\ hpc' = [hpc EXCEPT ![h] = "apply"] /\ UNCHANGED <<hreq, hreceipt, answer>>
  <2>1. /\ UNCHANGED <<row, spc, cur, answer, wire, inbox, facts, upgraded, hreq>>
        /\ hpc' = [hpc EXCEPT ![h] = "apply"]
    BY <1>5 DEF ApplyRead
  <2>2. NeverLost' /\ ReceiptsTrue' /\ AnswersLanded'
    BY <2>1 DEF DeliveryInv, NeverLost, ReceiptsTrue, Incompatible, AnswersLanded, Landed
  <2>3. RequestsAwaited' /\ OneExchange'
    BY <1>1, <2>1 DEF DeliveryInv, TypeOK, RequestsAwaited, Waits, OneExchange, Serves
  <2> QED
    BY <2>2, <2>3 DEF DeliveryInv
<1> QED
  BY <1>3, <1>4, <1>5 DEF ApplyRead, ApplyCommit, ApplyFail

LEMMA StepDeliveryInv == DeliveryInv /\ [Next]_vars => DeliveryInv'
<1> SUFFICES ASSUME DeliveryInv, [Next]_vars PROVE DeliveryInv'
  OBVIOUS
<1>1. TypeOK'
  BY StepTypeOK DEF DeliveryInv
<1>2. ASSUME NEW b \in Batches,
             \/ SealInsert(b) \/ SealCommit(b) \/ SealAbort(b)
             \/ BackoffElapses(b) \/ WindowExpires(b)
      PROVE  DeliveryInv'
  BY <1>1, <1>2, OutboxStepInv DEF SealInsert, SealCommit, SealAbort, BackoffElapses,
     WindowExpires, Given, DeliveryInv, TypeOK, RowStates
<1>3. ASSUME NEW V \in SUBSET Batches, PurgeAcknowledged(V) PROVE DeliveryInv'
  <2>1. \A b \in Batches : row'[b] \in Given => row[b] \in Given
    BY <1>3 DEF PurgeAcknowledged, Given
  <2> QED
    BY <1>1, <1>3, <2>1, OutboxStepInv DEF PurgeAcknowledged
<1>4. ASSUME NEW s \in Senders, Select(s) \/ PassDone(s) PROVE DeliveryInv'
  <2>1. /\ spc[s] # "await"
        /\ \A t \in Senders \ {s} : spc'[t] = spc[t]
        /\ UNCHANGED <<row, cur, netVars, inboxVars, handlerVars>>
    BY <1>4 DEF Select, PassDone, outboxVars, DeliveryInv, TypeOK
  <2> QED
    BY <1>1, <2>1, WalkStepInv
<1>5. ASSUME NEW s \in Senders, NEW b \in Batches, SkipRow(s, b) PROVE DeliveryInv'
  BY <1>1, <1>5, WalkStepInv DEF SkipRow, outboxVars, DeliveryInv, TypeOK
<1>6. ASSUME NEW s \in Senders, NEW b \in Batches, Attempt(s, b) PROVE DeliveryInv'
  BY <1>1, <1>6, AttemptInv
<1>7. ASSUME NEW s \in Senders, Acknowledge(s) PROVE DeliveryInv'
  BY <1>1, <1>7, AcknowledgeInv
<1>8. ASSUME NEW s \in Senders, Fail(s) PROVE DeliveryInv'
  BY <1>1, <1>8, HangUpStepInv DEF Fail, DeliveryInv, TypeOK
<1>9. ASSUME NEW s \in Senders, SenderCrash(s) PROVE DeliveryInv'
  BY <1>1, <1>9, HangUpStepInv DEF SenderCrash, outboxVars, DeliveryInv, TypeOK
<1>10. CASE ConsumerStep
  BY <1>1, <1>10, ReceiveInv, ApplyInv, LossInv, RetentionInv DEF ConsumerStep
<1>11. CASE \E m \in wire : LoseRequest(m)
  BY <1>1, <1>11, LossInv
<1>12. CASE UNCHANGED vars
  BY <1>1, <1>12, OutboxStepInv DEF vars, outboxVars
<1> QED
  BY <1>2, <1>3, <1>4, <1>5, <1>6, <1>7, <1>8, <1>9, <1>10, <1>11, <1>12
  DEF Next, ProducerStep

\* Whoever holds a request, an answer or a receipt holds what it speaks of: an
\* answer reaches the sender still waiting for that batch, once, and only after the
\* batch has landed, across crashes, retries, prunings and an upgrade.
THEOREM ExchangesKeepTheirWord == Spec => []DeliveryInv
BY InitDeliveryInv, StepDeliveryInv, PTL DEF Spec

\* A row the producer counts as delivered, and may delete, is one the consumer
\* has taken for good: for any number of batches, senders and handlers.
THEOREM NothingLost == Spec => []NeverLost
<1>1. DeliveryInv => NeverLost
  BY DEF DeliveryInv
<1> QED
  BY <1>1, ExchangesKeepTheirWord, PTL

-----------------------------------------------------------------------------
(* An acknowledged row stays acknowledged *)

\* No late failure, late answer or stale selection of any sender reopens a row
\* that was acknowledged, or replaces the receipt it was acknowledged with.
THEOREM AcknowledgedForGood == Spec => AckedStaysAcked
<1>1. TypeOK /\ [Next]_vars => KeepsAck
  <2> SUFFICES ASSUME TypeOK, [Next]_vars PROVE KeepsAck
    OBVIOUS
  <2> USE DEF outboxVars, Given, KeepsAck
  <2>1. ASSUME NEW c \in Batches,
               \/ SealInsert(c) \/ SealCommit(c) \/ SealAbort(c)
               \/ BackoffElapses(c) \/ WindowExpires(c)
        PROVE  KeepsAck
    BY <2>1 DEF TypeOK, SealInsert, SealCommit, SealAbort, BackoffElapses, WindowExpires
  <2>2. ASSUME NEW s \in Senders, NEW c \in Batches, Attempt(s, c) \/ SkipRow(s, c)
        PROVE  KeepsAck
    BY <2>2 DEF TypeOK, Attempt, SkipRow, Pending
  <2>3. ASSUME NEW s \in Senders, Acknowledge(s) PROVE KeepsAck
    <3>1. cur[s] \in Batches
      BY <2>3 DEF TypeOK, Acknowledge
    <3> QED
      BY <2>3, <3>1 DEF TypeOK, Acknowledge
  <2>4. ASSUME NEW V \in SUBSET Batches, PurgeAcknowledged(V) PROVE KeepsAck
    BY <2>4 DEF TypeOK, PurgeAcknowledged
  <2>5. CASE UNCHANGED <<row, ackReceipt>>
    BY <2>5
  <2>6. CASE ProducerStep
    BY <2>1, <2>2, <2>3, <2>4, <2>5, <2>6
    DEF ProducerStep, Select, PassDone, Fail, SenderCrash
  <2>7. CASE ConsumerStep
    BY <2>5, <2>7 DEF ConsumerStep, Receive, ApplyRead, ApplyCommit, ApplyFail,
       ConsumerRestart, ConsumerUpgrade, ReleasePayloads, PruneReceipts
  <2>8. CASE (\E m \in wire : LoseRequest(m)) \/ UNCHANGED vars
    BY <2>5, <2>8 DEF LoseRequest, vars
  <2> QED
    BY <2>6, <2>7, <2>8 DEF Next
<1> QED
  BY <1>1, TypeCorrect, PTL DEF Spec, AckedStaysAcked

-----------------------------------------------------------------------------
(* The protocol implements its promise *)

\* A batch is on its way to the consumer, or known there, only if its row left
\* the producer as 'sent' at some time.
SentOnce(b) == row[b] = "sent" \/ row[b] \in Given

SentFirst == /\ \A m \in wire : SentOnce(m.batch)
             /\ \A h \in Handlers : hpc[h] # "idle" => SentOnce(hreq[h].batch)
             /\ \A b \in Batches : b \in facts \/ inbox[b].state # "none" => SentOnce(b)

LEMMA InitSentFirst == Init => SentFirst
BY DEF Init, SentFirst, NoReceipt

LEMMA SentOnceStays ==
    ASSUME TypeOK, [Next]_vars, NEW b \in Batches, SentOnce(b)
    PROVE  SentOnce(b)'
<1> USE DEF outboxVars, Given, SentOnce
<1>1. ASSUME NEW c \in Batches,
             \/ SealInsert(c) \/ SealCommit(c) \/ SealAbort(c)
             \/ BackoffElapses(c) \/ WindowExpires(c)
      PROVE  SentOnce(b)'
  BY <1>1 DEF TypeOK, SealInsert, SealCommit, SealAbort, BackoffElapses, WindowExpires
<1>2. ASSUME NEW s \in Senders, NEW c \in Batches, Attempt(s, c) \/ SkipRow(s, c)
      PROVE  SentOnce(b)'
  BY <1>2 DEF TypeOK, Attempt, SkipRow
<1>3. ASSUME NEW s \in Senders, Acknowledge(s) PROVE SentOnce(b)'
  BY <1>3 DEF TypeOK, Acknowledge
<1>4. ASSUME NEW V \in SUBSET Batches, PurgeAcknowledged(V) PROVE SentOnce(b)'
  BY <1>4 DEF TypeOK, PurgeAcknowledged
<1>5. CASE UNCHANGED row
  BY <1>5
<1>6. CASE ProducerStep
  BY <1>1, <1>2, <1>3, <1>4, <1>5, <1>6
  DEF ProducerStep, Select, PassDone, Fail, SenderCrash
<1>7. CASE ConsumerStep
  BY <1>5, <1>7 DEF ConsumerStep, Receive, ApplyRead, ApplyCommit, ApplyFail,
     ConsumerRestart, ConsumerUpgrade, ReleasePayloads, PruneReceipts
<1>8. CASE (\E m \in wire : LoseRequest(m)) \/ UNCHANGED vars
  BY <1>5, <1>8 DEF LoseRequest, vars
<1> QED
  BY <1>6, <1>7, <1>8 DEF Next

\* A step that adds no request, no receipt and no fact of a batch never sent.
LEMMA SentFirstKept ==
    ASSUME TypeOK, SentFirst, [Next]_vars,
           \A m \in wire' : \/ m \in wire
                            \/ m.batch \in Batches /\ SentOnce(m.batch)'
                            \/ \E n \in wire : m.batch = n.batch,
           \A h \in Handlers : hpc'[h] # "idle" =>
              \/ \E m \in wire : m.batch = hreq'[h].batch
              \/ \E k \in Handlers : hpc[k] # "idle" /\ hreq[k].batch = hreq'[h].batch,
           \A b \in Batches : b \in facts' \/ inbox'[b].state # "none" =>
              \/ b \in facts \/ inbox[b].state # "none"
              \/ \E m \in wire : m.batch = b
              \/ \E h \in Handlers : hpc[h] # "idle" /\ hreq[h].batch = b
    PROVE  SentFirst'
<1>1. \A b \in Batches : SentOnce(b) => SentOnce(b)'
  BY SentOnceStays
<1>2. ASSUME NEW m \in wire' PROVE SentOnce(m.batch)'
  <2>1. \A n \in wire : n.batch \in Batches /\ SentOnce(n.batch)
    BY DEF TypeOK, Request, SentFirst
  <2> QED
    BY <1>1, <2>1
<1>3. ASSUME NEW h \in Handlers, hpc'[h] # "idle", NEW c, c = hreq'[h].batch
      PROVE  SentOnce(c)'
  <2>1. c \in Batches /\ SentOnce(c)
    BY <1>3 DEF TypeOK, Request, SentFirst
  <2> QED
    BY <1>1, <2>1
<1>4. ASSUME NEW b \in Batches, b \in facts' \/ inbox'[b].state # "none"
      PROVE  SentOnce(b)'
  BY <1>1, <1>4 DEF SentFirst
<1> QED
  BY <1>2, <1>3, <1>4 DEF SentFirst, SentOnce

LEMMA StepSentFirst == TypeOK /\ SentFirst /\ [Next]_vars => SentFirst'
<1> SUFFICES ASSUME TypeOK, SentFirst, [Next]_vars PROVE SentFirst'
  OBVIOUS
<1> USE DEF outboxVars, senderVars, netVars, inboxVars, handlerVars
<1>1. ASSUME NEW s \in Senders, NEW b \in Batches, Attempt(s, b) PROVE SentFirst'
  <2>1. row'[b] = "sent" /\ SentOnce(b)'
    BY <1>1 DEF Attempt, TypeOK, SentOnce
  <2> QED
    BY <1>1, <2>1, SentFirstKept DEF Attempt
<1>2. ASSUME NEW s \in Senders, Fail(s) \/ SenderCrash(s) PROVE SentFirst'
  <2>1. \A m \in wire' : \E n \in wire : m.batch = n.batch
    BY <1>2 DEF Fail, SenderCrash, HangUp, Orphaned, Unawaited
  <2>2. \A h \in Handlers : hpc'[h] = hpc[h]
                           /\ (hpc[h] # "idle" => hreq'[h].batch = hreq[h].batch)
    BY <1>2 DEF Fail, SenderCrash, HangUp, Orphaned, Unawaited
  <2>3. UNCHANGED <<inbox, facts>>
    BY <1>2 DEF Fail, SenderCrash
  <2> QED
    BY <2>1, <2>2, <2>3, SentFirstKept
<1>3. ASSUME NEW h \in Handlers, NEW m \in wire, Receive(h, m) PROVE SentFirst'
  <2>1. wire' = wire \ {m} /\ facts' = facts
    BY <1>3 DEF Receive
  <2>2. \A k \in Handlers : \/ hpc'[k] = hpc[k] /\ hreq'[k] = hreq[k]
                            \/ hreq'[k] = m
    BY <1>3 DEF Receive, TypeOK
  <2>3. \A b \in Batches : inbox'[b] = inbox[b] \/ b = m.batch
    BY <1>3 DEF Receive, Insert, TypeOK
  <2> QED
    BY <2>1, <2>2, <2>3, SentFirstKept
<1>4. ASSUME NEW h \in Handlers, ApplyRead(h) \/ ApplyCommit(h) \/ ApplyFail(h)
      PROVE  SentFirst'
  <2>1. wire' = wire /\ hpc[h] # "idle"
    BY <1>4 DEF ApplyRead, ApplyCommit, ApplyFail
  <2>2. \A k \in Handlers : hpc'[k] # "idle" => hpc[k] # "idle" /\ hreq'[k] = hreq[k]
    BY <1>4, <2>1 DEF ApplyRead, ApplyCommit, ApplyFail, ReturnAck, ReturnError, Finish, TypeOK
  <2>3. \A b \in Batches : \/ inbox'[b] = inbox[b] /\ (b \in facts' => b \in facts)
                           \/ b = hreq[h].batch
    BY <1>4 DEF ApplyRead, ApplyCommit, ApplyFail, TypeOK
  <2> QED
    BY <2>1, <2>2, <2>3, SentFirstKept
<1>5. ASSUME (\E m \in wire : LoseRequest(m)) \/ ConsumerRestart \/ ConsumerUpgrade PROVE SentFirst'
  BY <1>5, SentFirstKept DEF LoseRequest, ConsumerRestart, ConsumerUpgrade
<1>6. ASSUME NEW V \in SUBSET Batches, ReleasePayloads(V) \/ PruneReceipts(V)
      PROVE  SentFirst'
  <2>1. UNCHANGED <<wire, hpc, hreq, facts>>
    BY <1>6 DEF ReleasePayloads, PruneReceipts
  <2>2. \A b \in Batches : inbox'[b].state # "none" => inbox[b].state # "none"
    BY <1>6 DEF ReleasePayloads, PruneReceipts, Bodiless, NoReceipt
  <2> QED
    BY <2>1, <2>2, SentFirstKept
<1>7. CASE UNCHANGED <<netVars, inboxVars, handlerVars>>
  BY <1>7, SentFirstKept
<1>8. ASSUME NEW s \in Senders, Acknowledge(s) PROVE SentFirst'
  BY <1>8, SentFirstKept DEF Acknowledge
<1>9. CASE ProducerStep
  BY <1>1, <1>2, <1>7, <1>8, <1>9 DEF ProducerStep, SealInsert, SealCommit, SealAbort,
     BackoffElapses, WindowExpires, Select, PassDone, SkipRow, PurgeAcknowledged
<1>10. CASE ConsumerStep
  BY <1>3, <1>4, <1>5, <1>6, <1>10 DEF ConsumerStep
<1>11. CASE UNCHANGED vars
  BY <1>7, <1>11 DEF vars
<1> QED
  BY <1>5, <1>9, <1>10, <1>11 DEF Next

\* One step moves at most one batch, and only to the next stage of the promise.
Moves == {<<"absent", "owed">>, <<"owed", "landed">>, <<"landed", "confirmed">>}

StageMove == \/ \A b \in Batches : Stage(b)' = Stage(b)
             \/ \E c \in Batches : /\ <<Stage(c), Stage(c)'>> \in Moves
                                   /\ \A b \in Batches \ {c} : Stage(b)' = Stage(b)

\* A step that changes the row of at most one batch c, and not the consumer.
LEMMA RowMove ==
    ASSUME DeliveryInv, SentFirst, NEW c \in Batches, UNCHANGED <<inbox, facts>>,
           \A b \in Batches \ {c} : row'[b] = row[b],
           \/ row'[c] = row[c]
           \/ row[c] \in {"none", "open"} /\ row'[c] \in {"open", "void"}
           \/ row[c] = "open" /\ row'[c] = "sealed"
           \/ row[c] \in Pending /\ row'[c] = "sent"
           \/ row[c] = "sent" /\ row'[c] = "acknowledged" /\ Landed(c)
    PROVE  StageMove
<1>1. \A b \in Batches : Landed(b)' <=> Landed(b)
  BY DEF Landed
<1>2. \A b \in Batches \ {c} : Stage(b)' = Stage(b)
  BY <1>1 DEF Stage
<1>3. row[c] \in {"none", "open"} => ~Landed(c)
  BY DEF SentFirst, SentOnce, Given, Landed
<1>4. Stage(c)' = Stage(c) \/ <<Stage(c), Stage(c)'>> \in Moves
  BY <1>1, <1>3 DEF Stage, Given, Pending, Moves
<1> QED
  BY <1>2, <1>4 DEF StageMove

\* A step of the consumer by which no batch but c, sent before, can land.
LEMMA LandMove ==
    ASSUME TypeOK, ReceiptsTrue, NEW c \in Batches, [Next]_vars, UNCHANGED row, SentOnce(c),
           \A b \in Batches \ {c} : Landed(b)' => Landed(b)
    PROVE  StageMove
<1>1. \A b \in Batches : Landed(b) => Landed(b)'
  BY LandedStays
<1>2. \A b \in Batches \ {c} : Stage(b)' = Stage(b)
  BY <1>1 DEF Stage
<1>3. Stage(c)' = Stage(c) \/ <<Stage(c), Stage(c)'>> \in Moves
  BY <1>1 DEF Stage, SentOnce, Given, Pending, Moves
<1> QED
  BY <1>2, <1>3 DEF StageMove

LEMMA StepStageMove == DeliveryInv /\ SentFirst /\ [Next]_vars => StageMove
<1> SUFFICES ASSUME DeliveryInv, SentFirst, [Next]_vars PROVE StageMove
  OBVIOUS
<1> USE DEF outboxVars, senderVars, netVars, inboxVars, handlerVars
<1>1. ASSUME NEW c \in Batches, SealInsert(c) \/ SealCommit(c) \/ SealAbort(c)
      PROVE  StageMove
  BY <1>1, RowMove DEF SealInsert, SealCommit, SealAbort, DeliveryInv, TypeOK
<1>2. ASSUME NEW s \in Senders, NEW c \in Batches, Attempt(s, c) PROVE StageMove
  BY <1>2, RowMove DEF Attempt, DeliveryInv, TypeOK
<1>3. ASSUME NEW s \in Senders, Acknowledge(s) PROVE StageMove
  <2>1. cur[s] \in Batches /\ Landed(cur[s])
    BY <1>3 DEF Acknowledge, DeliveryInv, TypeOK, AnswersLanded
  <2> QED
    BY <1>3, <2>1, RowMove DEF Acknowledge, DeliveryInv, TypeOK
<1>4. ASSUME NEW V \in SUBSET Batches, PurgeAcknowledged(V) PROVE StageMove
  <2>1. \A b \in Batches : \/ row'[b] = row[b]
                           \/ row[b] \in Given /\ row'[b] \in Given
    BY <1>4 DEF PurgeAcknowledged, Given
  <2>2. UNCHANGED <<inbox, facts>>
    BY <1>4 DEF PurgeAcknowledged
  <2> QED
    BY <2>1, <2>2 DEF StageMove, Stage, Landed
<1>5. CASE UNCHANGED <<row, inbox, facts>>
  BY <1>5 DEF StageMove, Stage, Landed
<1>6. ASSUME NEW h \in Handlers, NEW m \in wire, Receive(h, m) PROVE StageMove
  <2>1. m.batch \in Batches /\ SentOnce(m.batch)
    BY DEF DeliveryInv, TypeOK, Request, SentFirst
  <2>2. \A b \in Batches \ {m.batch} : Landed(b)' => Landed(b)
    BY <1>6 DEF Receive, Insert, DeliveryInv, TypeOK, Landed
  <2> QED
    BY <1>6, <2>1, <2>2, LandMove DEF Receive, DeliveryInv
<1>7. ASSUME NEW h \in Handlers, ApplyCommit(h) PROVE StageMove
  <2>1. hreq[h].batch \in Batches /\ SentOnce(hreq[h].batch)
    BY <1>7 DEF ApplyCommit, DeliveryInv, TypeOK, Request, SentFirst
  <2>2. \A b \in Batches \ {hreq[h].batch} : Landed(b)' => Landed(b)
    BY <1>7 DEF ApplyCommit, DeliveryInv, TypeOK, Landed
  <2> QED
    BY <1>7, <2>1, <2>2, LandMove DEF ApplyCommit, DeliveryInv
<1>8. ASSUME NEW V \in SUBSET Batches, ReleasePayloads(V) \/ PruneReceipts(V)
      PROVE  StageMove
  <2>1. \A b \in Batches : Landed(b)' => Landed(b)
    BY <1>8 DEF ReleasePayloads, PruneReceipts, Bodiless, NoReceipt, Landed
  <2>2. \A b \in Batches : Landed(b) => Landed(b)'
    BY LandedStays DEF DeliveryInv
  <2>3. UNCHANGED row
    BY <1>8 DEF ReleasePayloads, PruneReceipts
  <2> QED
    BY <2>1, <2>2, <2>3 DEF StageMove, Stage
<1>9. CASE ProducerStep
  BY <1>1, <1>2, <1>3, <1>4, <1>5, <1>9 DEF ProducerStep, BackoffElapses, WindowExpires,
     Select, PassDone, Fail, SenderCrash, SkipRow
<1>10. CASE ConsumerStep
  BY <1>5, <1>6, <1>7, <1>8, <1>10 DEF ConsumerStep, ApplyRead, ApplyFail, ConsumerRestart, ConsumerUpgrade
<1>11. CASE (\E m \in wire : LoseRequest(m)) \/ UNCHANGED vars
  BY <1>5, <1>11 DEF LoseRequest, vars
<1> QED
  BY <1>9, <1>10, <1>11 DEF Next

\* The transfer implements its promise for any number of batches, senders and
\* handlers: owed, landed, confirmed, in this order and never back.
THEOREM Implementation == Spec => ImplementsPromise
<1>1. Init => Promise!PromiseInit
  BY DEF Init, Promise!PromiseInit, Stage, Given, Pending, Landed, NoReceipt
<1>2. StageMove => [Promise!PromiseNext]_[b \in Batches |-> Stage(b)]
  <2>1. CASE \A b \in Batches : Stage(b)' = Stage(b)
    BY <2>1
  <2>2. ASSUME NEW c \in Batches, <<Stage(c), Stage(c)'>> \in Moves,
               \A b \in Batches \ {c} : Stage(b)' = Stage(b)
        PROVE  Promise!PromiseNext
    BY <2>2 DEF Promise!PromiseNext, Promise!Owe, Promise!Land, Promise!Confirm,
       Promise!Advance, Moves
  <2> QED
    BY <2>1, <2>2 DEF StageMove
<1>3. DeliveryInv /\ SentFirst /\ [Next]_vars => DeliveryInv' /\ SentFirst'
  BY StepDeliveryInv, StepSentFirst DEF DeliveryInv
<1>4. DeliveryInv /\ SentFirst /\ [Next]_vars
        => [Promise!PromiseNext]_[b \in Batches |-> Stage(b)]
  BY <1>2, StepStageMove
<1> QED
  BY <1>1, <1>3, <1>4, InitDeliveryInv, InitSentFirst, PTL
  DEF Spec, ImplementsPromise, Promise!PromiseSpec
-----------------------------------------------------------------------------
(* The applied watermark never goes back *)

\* The cursors the watermark is the highest of.
AppliedCursors == {0, rollup.through} \cup
                  {cursor[b] : b \in {c \in Batches : inbox[c].state = "applied"}}

LEMMA CursorsBounded ==
    ASSUME NEW C \in [Batches -> Nat], NEW A \in SUBSET Batches, NEW n \in Nat,
           NEW S, S = {0, n} \cup {C[b] : b \in A}
    PROVE  IsFiniteSet(S) /\ S \subseteq Nat /\ S # {}
<1>1. IsFiniteSet(A)
  BY TransferAssumption, FS_Subset
<1>2. IsFiniteSet({C[b] : b \in A})
  <2> DEFINE f == [b \in A |-> C[b]]
  <2>1. f \in Surjection(A, {C[b] : b \in A})
    BY DEF Surjection
  <2> QED
    BY <1>1, <2>1, FS_Surjection
<1>3. IsFiniteSet({C[b] : b \in A} \cup {n})
  BY <1>2, FS_AddElement
<1>4. IsFiniteSet({C[b] : b \in A} \cup {n} \cup {0})
  BY <1>3, FS_AddElement
<1>5. S = {C[b] : b \in A} \cup {n} \cup {0}
  OBVIOUS
<1> QED
  BY <1>4, <1>5

\* A step keeps the watermark when it keeps the rollup's, and when each batch
\* that was applied still is, under the same cursor, or is covered by the rollup.
LEMMA WatermarkKept ==
    ASSUME TypeOK, TypeOK', rollup.through <= rollup'.through,
           \A b \in Batches : inbox[b].state = "applied" =>
              \/ inbox'[b].state = "applied" /\ cursor'[b] = cursor[b]
              \/ cursor[b] <= rollup'.through
    PROVE  AppliedWatermark <= AppliedWatermark'
<1> DEFINE top == Highest(AppliedCursors)
<1>1. /\ AppliedWatermark = Highest(AppliedCursors)
      /\ AppliedWatermark' = Highest(AppliedCursors')
  BY DEF AppliedWatermark, AppliedCursors
<1>2. top \in AppliedCursors /\ top \in Nat
  <2>1. /\ IsFiniteSet(AppliedCursors)
        /\ AppliedCursors \subseteq Nat
        /\ AppliedCursors # {}
    BY CursorsBounded DEF TypeOK, AppliedCursors
  <2> QED
    BY <2>1, HighestIsTop
<1>3. /\ Highest(AppliedCursors') \in Nat
      /\ \A n \in AppliedCursors' : n \in Nat /\ n <= Highest(AppliedCursors')
  <2>1. /\ IsFiniteSet(AppliedCursors')
        /\ AppliedCursors' \subseteq Nat
        /\ AppliedCursors' # {}
    BY CursorsBounded DEF TypeOK, AppliedCursors
  <2> QED
    BY <2>1, HighestIsTop
<1>4. \E n \in AppliedCursors' : top <= n
  <2>1. 0 \in AppliedCursors' /\ rollup'.through \in AppliedCursors'
    BY DEF AppliedCursors
  <2>2. CASE top \in {0, rollup.through}
    BY <2>1, <2>2 DEF TypeOK
  <2>3. ASSUME NEW b \in Batches, inbox[b].state = "applied", top = cursor[b]
        PROVE  \E n \in AppliedCursors' : top <= n
    <3>1. CASE inbox'[b].state = "applied" /\ cursor'[b] = cursor[b]
      <4>1. cursor'[b] \in AppliedCursors'
        BY <3>1 DEF AppliedCursors
      <4> QED
        BY <1>2, <2>3, <3>1, <4>1
    <3>2. CASE cursor[b] <= rollup'.through
      BY <2>1, <2>3, <3>2
    <3> QED
      BY <2>3, <3>1, <3>2
  <2> QED
    BY <1>2, <2>2, <2>3 DEF AppliedCursors
<1> QED
  BY <1>1, <1>2, <1>3, <1>4

\* Whatever receipts are pruned, in whatever order and however cursors became
\* visible, the watermark an operator reads never goes back.
THEOREM WatermarkNeverBack == Spec => WatermarkMonotone
<1>1. ASSUME TypeOK, TypeOK', SentFirst, [Next]_vars
      PROVE  AppliedWatermark <= AppliedWatermark'
  <2> USE DEF outboxVars, senderVars, netVars, inboxVars, handlerVars
  <2>1. ASSUME NEW V \in SUBSET Batches, PruneReceipts(V)
        PROVE  AppliedWatermark <= AppliedWatermark'
    <3> DEFINE S == {rollup.through} \cup {cursor[b] : b \in V}
    <3>1. IsFiniteSet(S) /\ S \subseteq Nat /\ S # {}
      <4>1. IsFiniteSet(V)
        BY TransferAssumption, FS_Subset
      <4>2. IsFiniteSet({cursor[b] : b \in V})
        <5> DEFINE f == [b \in V |-> cursor[b]]
        <5>1. f \in Surjection(V, {cursor[b] : b \in V})
          BY DEF Surjection
        <5> QED
          BY <4>1, <5>1, FS_Surjection
      <4>3. IsFiniteSet(S)
        BY <4>2, FS_AddElement
      <4> QED
        BY <1>1, <4>3 DEF TypeOK
    <3>2. \A n \in S : n <= Highest(S)
      BY <3>1, HighestIsTop
    <3>3. rollup'.through = Highest(S)
      BY <2>1 DEF PruneReceipts
    <3>4. rollup.through <= rollup'.through
      BY <3>2, <3>3
    <3>5. \A b \in V : cursor[b] <= rollup'.through
      BY <3>2, <3>3
    <3>6. \A b \in Batches \ V : inbox'[b] = inbox[b] /\ cursor'[b] = cursor[b]
      BY <2>1 DEF PruneReceipts
    <3> QED
      BY <1>1, <3>4, <3>5, <3>6, WatermarkKept
  <2>2. ASSUME NEW b \in Batches, SealInsert(b)
        PROVE  AppliedWatermark <= AppliedWatermark'
    <3>1. inbox[b].state = "none"
      BY <1>1, <2>2 DEF SealInsert, SentFirst, SentOnce, Given
    <3>2. UNCHANGED <<inbox, rollup>>
      BY <2>2 DEF SealInsert
    <3>3. \A c \in Batches \ {b} : cursor'[c] = cursor[c]
      BY <1>1, <2>2 DEF SealInsert, TypeOK
    <3> QED
      BY <1>1, <3>1, <3>2, <3>3, WatermarkKept DEF TypeOK
  <2>3. ASSUME UNCHANGED <<cursor, rollup>>,
               \A b \in Batches : inbox[b].state = "applied" => inbox'[b].state = "applied"
        PROVE  AppliedWatermark <= AppliedWatermark'
    BY <1>1, <2>3, WatermarkKept DEF TypeOK
  <2>4. ASSUME NEW h \in Handlers, NEW m \in wire, Receive(h, m)
        PROVE  AppliedWatermark <= AppliedWatermark'
    BY <1>1, <2>3, <2>4 DEF Receive, Insert, TypeOK
  <2>5. ASSUME NEW h \in Handlers, ApplyCommit(h)
        PROVE  AppliedWatermark <= AppliedWatermark'
    BY <1>1, <2>3, <2>5 DEF ApplyCommit, InState, TypeOK
  <2>6. ASSUME NEW V \in SUBSET Batches, ReleasePayloads(V)
        PROVE  AppliedWatermark <= AppliedWatermark'
    BY <2>3, <2>6 DEF ReleasePayloads, Bodiless
  <2>7. CASE UNCHANGED <<cursor, rollup, inbox>>
    BY <2>3, <2>7
  <2>8. CASE ProducerStep
    BY <2>2, <2>7, <2>8 DEF ProducerStep, SealCommit, SealAbort, BackoffElapses,
       WindowExpires, Select, PassDone, Acknowledge, Fail, SenderCrash, Attempt, SkipRow,
       PurgeAcknowledged
  <2>9. CASE ConsumerStep
    BY <2>1, <2>4, <2>5, <2>6, <2>7, <2>9 DEF ConsumerStep, ApplyRead, ApplyFail,
       ConsumerRestart, ConsumerUpgrade
  <2>10. CASE (\E m \in wire : LoseRequest(m)) \/ UNCHANGED vars
    BY <2>7, <2>10 DEF LoseRequest, vars
  <2> QED
    BY <1>1, <2>8, <2>9, <2>10 DEF Next
<1>2. TypeOK /\ SentFirst /\ [Next]_vars => SentFirst'
  BY StepSentFirst
<1> QED
  BY <1>1, <1>2, TypeCorrect, InitSentFirst, PTL DEF Spec, WatermarkMonotone

-----------------------------------------------------------------------------
(* Every application has its receipt *)

Applied == {b \in Batches : inbox[b].state = "applied"}

\* Applied receipts are finitely many, so they can be counted.
LEMMA AppliedFinite == IsFiniteSet(Applied) /\ Cardinality(Applied) \in Nat
<1>1. IsFiniteSet(Applied)
  BY TransferAssumption, FS_Subset DEF Applied
<1> QED
  BY <1>1, FS_CardinalityType

\* An application committed under the lock marks the receipt it holds, which was
\* not marked before: a pruned or already applied one ends the request.
LEMMA ApplyAccounted ==
    ASSUME TypeOK, EffectsAccounted, NEW h \in Handlers, ApplyCommit(h)
    PROVE  EffectsAccounted'
<1> DEFINE b == hreq[h].batch
<1>1. UNCHANGED rollup /\ b \in Batches
  BY DEF ApplyCommit, TypeOK, Request
<1>2. CASE UNCHANGED <<inbox, applies>>
  BY <1>1, <1>2 DEF EffectsAccounted
<1>3. CASE /\ Held(h) \notin {"none", "applied"}
           /\ inbox' = [inbox EXCEPT ![b] = InState(@, "applied")]
           /\ applies' = applies + 1
  <2>1. b \notin Applied
    BY <1>3 DEF Held, Applied
  <2>2. Applied' = Applied \cup {b}
    <3>1. inbox'[b].state = "applied" /\ \A c \in Batches \ {b} : inbox'[c] = inbox[c]
      BY <1>1, <1>3 DEF TypeOK, InState
    <3> QED
      BY <1>1, <3>1 DEF Applied
  <2>3. Cardinality(Applied') = Cardinality(Applied) + 1
    BY <2>1, <2>2, AppliedFinite, FS_AddElement
  <2>4. rollup.receipts \in Nat /\ Cardinality(Applied) \in Nat /\ applies \in Nat
    BY AppliedFinite DEF TypeOK
  <2>5. applies = rollup.receipts + Cardinality(Applied)
    BY DEF EffectsAccounted, Applied
  <2>6. applies' = rollup'.receipts + Cardinality(Applied')
    BY <1>1, <1>3, <2>3, <2>4, <2>5
  <2> QED
    BY <2>6 DEF EffectsAccounted, Applied
<1> QED
  BY <1>2, <1>3 DEF ApplyCommit

\* Pruned receipts move from the table to the rollup, one for one.
LEMMA PruneAccounted ==
    ASSUME TypeOK, EffectsAccounted, NEW V \in SUBSET Batches, PruneReceipts(V)
    PROVE  EffectsAccounted'
<1>1. V \subseteq Applied
  BY DEF PruneReceipts, Applied
<1>2. Applied' = Applied \ V
  <2>1. \A b \in Batches : inbox'[b] = IF b \in V THEN NoReceipt ELSE inbox[b]
    BY DEF PruneReceipts
  <2> QED
    BY <2>1 DEF Applied, NoReceipt
<1>3. IsFiniteSet(V) /\ Cardinality(V) \in Nat /\ Applied \cap V = V
  <2>1. IsFiniteSet(V)
    BY TransferAssumption, FS_Subset
  <2>2. Cardinality(V) \in Nat
    BY <2>1, FS_CardinalityType
  <2> QED
    BY <1>1, <2>1, <2>2
<1>4. Cardinality(Applied') = Cardinality(Applied) - Cardinality(V)
  <2>1. IsFiniteSet(Applied)
    BY AppliedFinite
  <2>2. Cardinality(Applied \ V) = Cardinality(Applied) - Cardinality(Applied \cap V)
    BY <2>1, FS_Difference
  <2> QED
    BY <1>2, <1>3, <2>2
<1>5. applies = rollup.receipts + Cardinality(Applied) /\ UNCHANGED applies
  BY DEF EffectsAccounted, Applied, PruneReceipts
<1>6. rollup'.receipts = rollup.receipts + Cardinality(V)
  BY DEF PruneReceipts
<1>7. rollup.receipts \in Nat /\ Cardinality(Applied) \in Nat
  BY AppliedFinite DEF TypeOK
<1>8. applies' = rollup'.receipts + Cardinality(Applied')
  BY <1>3, <1>4, <1>5, <1>6, <1>7
<1> QED
  BY <1>8 DEF EffectsAccounted, Applied

LEMMA StepAccounted == TypeOK /\ EffectsAccounted /\ [Next]_vars => EffectsAccounted'
<1> SUFFICES ASSUME TypeOK, EffectsAccounted, [Next]_vars PROVE EffectsAccounted'
  OBVIOUS
<1> USE DEF outboxVars, senderVars, netVars, inboxVars, handlerVars
<1>1. ASSUME UNCHANGED <<applies, rollup>>,
             \A b \in Batches : inbox'[b].state = "applied" <=> inbox[b].state = "applied"
      PROVE  EffectsAccounted'
  <2>1. Applied' = Applied
    BY <1>1 DEF Applied
  <2> QED
    BY <1>1, <2>1 DEF EffectsAccounted, Applied
<1>2. CASE UNCHANGED <<applies, rollup, inbox>>
  BY <1>1, <1>2
<1>3. ASSUME NEW h \in Handlers, NEW m \in wire, Receive(h, m) PROVE EffectsAccounted'
  <2>1. \A b \in Batches : inbox'[b].state = "applied" <=> inbox[b].state = "applied"
    BY <1>3 DEF Receive, Insert, TypeOK
  <2> QED
    BY <1>1, <1>3, <2>1 DEF Receive
<1>4. ASSUME NEW V \in SUBSET Batches, ReleasePayloads(V) PROVE EffectsAccounted'
  BY <1>1, <1>4 DEF ReleasePayloads, Bodiless
<1>5. CASE ProducerStep
  BY <1>2, <1>5 DEF ProducerStep, SealInsert, SealCommit, SealAbort, BackoffElapses,
     WindowExpires, Select, PassDone, Acknowledge, Fail, SenderCrash, Attempt, SkipRow,
     PurgeAcknowledged
<1>6. CASE ConsumerStep
  BY <1>2, <1>3, <1>4, <1>6, ApplyAccounted, PruneAccounted DEF ConsumerStep, ApplyRead,
     ApplyFail, ConsumerRestart, ConsumerUpgrade
<1>7. CASE (\E m \in wire : LoseRequest(m)) \/ UNCHANGED vars
  BY <1>2, <1>7 DEF LoseRequest, vars
<1> QED
  BY <1>5, <1>6, <1>7 DEF Next

\* Concurrent handlers, resends after a lost ACK and resends of a pruned batch
\* never apply a batch twice under one receipt: the committed applications are
\* the receipts marked applied and those folded into the rollup.
THEOREM EveryEffectHasItsReceipt == Spec => []EffectsAccounted
<1>1. Init => EffectsAccounted
  <2> SUFFICES ASSUME Init PROVE EffectsAccounted
    OBVIOUS
  <2>1. Applied = {}
    BY DEF Init, Applied, NoReceipt
  <2>2. Cardinality(Applied) = 0
    BY <2>1, FS_EmptySet
  <2> QED
    BY <2>2 DEF Init, EffectsAccounted, Applied
<1> QED
  BY <1>1, StepAccounted, TypeCorrect, PTL DEF Spec

-----------------------------------------------------------------------------
(* The budget of attempts *)

\* Passes that have read row b and not reached it yet: each of them is still
\* allowed one attempt, whatever has become of the count since.
Readers(b) == {s \in Senders : b \in todo[s]}

ReadBudget == \A b \in Batches : window[b].running =>
                 window[b].count + Cardinality(Readers(b)) < MaxAttempts + Cardinality(Senders)

LEMMA ReadersFinite ==
    ASSUME NEW b \in Batches
    PROVE  /\ IsFiniteSet(Readers(b)) /\ Cardinality(Readers(b)) \in Nat
           /\ Cardinality(Senders) \in Nat
           /\ Cardinality(Readers(b)) <= Cardinality(Senders)
<1>1. IsFiniteSet(Senders) /\ Readers(b) \in SUBSET Senders
  BY TransferAssumption DEF Readers
<1> QED
  BY <1>1, FS_Subset, FS_CardinalityType

\* A step that starts no attempt and lets no pass read a row keeps the sum.
LEMMA NoNewReader ==
    ASSUME TypeOK, ReadBudget, NEW b \in Batches, Readers(b)' \subseteq Readers(b),
           window'[b] = window[b] \/ ~window'[b].running,
           window'[b].running
    PROVE  window'[b].count + Cardinality(Readers(b)') < MaxAttempts + Cardinality(Senders)
<1>1. IsFiniteSet(Readers(b)) /\ Cardinality(Readers(b)) \in Nat
  BY ReadersFinite
<1>2. Cardinality(Readers(b)') <= Cardinality(Readers(b)) /\ Cardinality(Readers(b)') \in Nat
  BY <1>1, FS_Subset, FS_CardinalityType
<1>3. /\ window[b].count \in Nat /\ window'[b] = window[b]
      /\ window[b].count + Cardinality(Readers(b)) < MaxAttempts + Cardinality(Senders)
  BY DEF TypeOK, ReadBudget
<1>4. MaxAttempts \in Nat /\ Cardinality(Senders) \in Nat
  BY TransferAssumption, FS_CardinalityType
<1> QED
  BY <1>1, <1>2, <1>3, <1>4

LEMMA SelectBudget ==
    ASSUME TypeOK, ReadBudget, NEW s \in Senders, Select(s)
    PROVE  ReadBudget'
<1> USE DEF outboxVars
<1> SUFFICES ASSUME NEW b \in Batches, window'[b].running
             PROVE  window'[b].count + Cardinality(Readers(b)')
                      < MaxAttempts + Cardinality(Senders)
  BY DEF ReadBudget
<1>1. /\ window' = window /\ todo'[s] \subseteq Eligible
      /\ \A t \in Senders \ {s} : todo'[t] = todo[t]
  BY DEF Select, Oldest, TypeOK
<1>2. CASE b \in todo'[s]
  <2>1. window[b].count < MaxAttempts /\ window[b].count \in Nat
    BY <1>1, <1>2 DEF Eligible, TypeOK
  <2>2. Readers(b)' \in SUBSET Senders /\ IsFiniteSet(Senders) /\ MaxAttempts \in Nat
    BY TransferAssumption DEF Readers
  <2>3. /\ Cardinality(Readers(b)') <= Cardinality(Senders)
        /\ Cardinality(Readers(b)') \in Nat /\ Cardinality(Senders) \in Nat
    BY <2>2, FS_Subset, FS_CardinalityType
  <2> QED
    BY <1>1, <2>1, <2>2, <2>3
<1>3. CASE b \notin todo'[s]
  <2>1. Readers(b)' \subseteq Readers(b)
    BY <1>1, <1>3 DEF Readers
  <2> QED
    BY <1>1, <2>1, NoNewReader
<1> QED
  BY <1>2, <1>3

\* The attempt that is counted is the one its reader was allowed.
LEMMA AttemptKeepsBudget ==
    ASSUME TypeOK, ReadBudget, NEW s \in Senders, NEW c \in Batches, Attempt(s, c)
    PROVE  ReadBudget'
<1> SUFFICES ASSUME NEW b \in Batches, window'[b].running
             PROVE  window'[b].count + Cardinality(Readers(b)')
                      < MaxAttempts + Cardinality(Senders)
  BY DEF ReadBudget
<1>1. /\ c \in todo[s] /\ todo' = [todo EXCEPT ![s] = @ \ {c}]
      /\ window' = [window EXCEPT ![c] = Counted(@)]
  BY DEF Attempt, Oldest
<1>2. CASE b = c
  <2>1. s \in Readers(b) /\ Readers(b)' = Readers(b) \ {s}
    BY <1>1, <1>2 DEF Readers, TypeOK
  <2>2. /\ IsFiniteSet(Readers(b)) /\ Cardinality(Readers(b)) \in Nat
        /\ Cardinality(Readers(b)) <= Cardinality(Senders) /\ Cardinality(Senders) \in Nat
    BY ReadersFinite
  <2>3. Cardinality(Readers(b)') = Cardinality(Readers(b)) - 1
    BY <2>1, <2>2, FS_RemoveElement
  <2>4. /\ window[b].count \in Nat /\ MaxAttempts \in Nat /\ MaxAttempts >= 1
        /\ window'[b].count = IF window[b].running THEN window[b].count + 1 ELSE 1
    BY <1>1, <1>2, TransferAssumption DEF TypeOK, Counted
  <2>5. window[b].running =>
           window[b].count + Cardinality(Readers(b)) < MaxAttempts + Cardinality(Senders)
    BY DEF ReadBudget
  <2> QED
    BY <2>2, <2>3, <2>4, <2>5
<1>3. CASE b # c
  <2>1. Readers(b)' \subseteq Readers(b) /\ window'[b] = window[b]
    BY <1>1, <1>3 DEF Readers, TypeOK
  <2> QED
    BY <2>1, NoNewReader
<1> QED
  BY <1>2, <1>3

LEMMA StepBudget == TypeOK /\ ReadBudget /\ [Next]_vars => ReadBudget'
<1> SUFFICES ASSUME TypeOK, ReadBudget, [Next]_vars PROVE ReadBudget'
  OBVIOUS
<1> USE DEF outboxVars, senderVars, netVars, inboxVars, handlerVars
<1>1. ASSUME \A s \in Senders : todo'[s] \subseteq todo[s],
             \A b \in Batches : window'[b] = window[b] \/ ~window'[b].running
      PROVE  ReadBudget'
  <2>1. \A b \in Batches : Readers(b)' \subseteq Readers(b)
    BY <1>1 DEF Readers
  <2> QED
    BY <1>1, <2>1, NoNewReader DEF ReadBudget
<1>2. CASE UNCHANGED <<window, todo>>
  BY <1>1, <1>2
<1>3. ASSUME NEW b \in Batches, WindowExpires(b) PROVE ReadBudget'
  <2>1. /\ ~window'[b].running /\ UNCHANGED todo
        /\ \A c \in Batches \ {b} : window'[c] = window[c]
    BY <1>3 DEF WindowExpires, TypeOK
  <2> QED
    BY <1>1, <2>1
<1>4. ASSUME NEW s \in Senders, NEW b \in Batches, SkipRow(s, b) PROVE ReadBudget'
  BY <1>1, <1>4 DEF SkipRow, TypeOK
<1>5. ASSUME NEW s \in Senders, SenderCrash(s) PROVE ReadBudget'
  BY <1>1, <1>5 DEF SenderCrash, TypeOK
<1>6. CASE ProducerStep
  BY <1>2, <1>3, <1>4, <1>5, <1>6, SelectBudget, AttemptKeepsBudget DEF ProducerStep,
     SealInsert, SealCommit, SealAbort, BackoffElapses, PassDone, Acknowledge, Fail,
     PurgeAcknowledged
<1>7. CASE ConsumerStep
  BY <1>2, <1>7 DEF ConsumerStep, Receive, ApplyRead, ApplyCommit, ApplyFail,
     ConsumerRestart, ConsumerUpgrade, ReleasePayloads, PruneReceipts
<1>8. CASE (\E m \in wire : LoseRequest(m)) \/ UNCHANGED vars
  BY <1>2, <1>8 DEF LoseRequest, vars
<1> QED
  BY <1>6, <1>7, <1>8 DEF Next

\* However many passes read a row before one of them counts its attempt, together
\* they exceed the budget of a running window by less than one attempt each; a
\* single sender keeps to it.
THEOREM AttemptsAreBounded == Spec => []AttemptBudget
<1>1. Init => ReadBudget
  BY DEF Init, ReadBudget
<1>2. TypeOK /\ ReadBudget => AttemptBudget
  <2> SUFFICES ASSUME TypeOK, ReadBudget, NEW b \in Batches, window[b].running
               PROVE  window[b].count < MaxAttempts + Cardinality(Senders)
    BY DEF AttemptBudget
  <2>1. /\ window[b].count \in Nat /\ MaxAttempts \in Nat
        /\ window[b].count + Cardinality(Readers(b)) < MaxAttempts + Cardinality(Senders)
    BY TransferAssumption DEF TypeOK, ReadBudget
  <2> QED
    BY <2>1, ReadersFinite
<1> QED
  BY <1>1, <1>2, StepBudget, TypeCorrect, PTL DEF Spec

=============================================================================
