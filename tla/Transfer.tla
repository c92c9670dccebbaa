------------------------------- MODULE Transfer -------------------------------
(***************************************************************************)
(* Raw data transfer from Server 1 (producer) to Server 2 (consumer).      *)
(*                                                                         *)
(* Producer: a collector seals a batch into ops_and_admin.transfer_outbox  *)
(* in the transaction that persists it; any number of senders run          *)
(* PostgresTransferProducer.deliver_pending over that table.               *)
(* Consumer: request handlers run PostgresDataAdapter.receive and apply    *)
(* over ops_and_admin.transfer_inbox; a background task releases payloads  *)
(* and prunes receipts.                                                    *)
(*                                                                         *)
(* Every SQL transaction is one atomic action; everything that happens     *)
(* between two transactions of one pass or one request is interleaved with *)
(* every other process.  A process may crash between any two of its        *)
(* actions.  Requests and answers are lost, delayed, and answered after    *)
(* the sender has given up.                                                *)
(***************************************************************************)
EXTENDS Naturals, FiniteSets

CONSTANTS
    Batches,      \* batch identities: batch_id is a digest of the content
    Foreign,      \* batches sealed with the next schema version
    Poison,       \* batches whose application always raises on the consumer
    Senders,      \* concurrent executions of deliver_pending
    Handlers,     \* concurrent executions of IngestHandler.handle
    None,         \* no batch / no waiting sender
    Limit,        \* deliver_pending(limit=...)
    MaxAttempts,  \* RETRY_MAX_ATTEMPTS_PER_WINDOW
    MaxPruned     \* bound: receipts ever pruned, so that re-receipts are finite

ASSUME TransferAssumption ==
    /\ IsFiniteSet(Batches) /\ IsFiniteSet(Senders)
    /\ Foreign \subseteq Batches
    /\ Poison \subseteq Batches \ Foreign
    /\ None \notin Batches \cup Senders \cup [batch : Batches, to : Senders \cup {None}]
    /\ Limit \in Nat \ {0}
    /\ MaxAttempts \in Nat \ {0}
    /\ MaxPruned \in Nat

VARIABLES
    row,         \* transfer_outbox.state of each batch's row
    cursor,      \* transfer_outbox.cursor, 0 before it is allocated
    nextCursor,  \* the identity sequence behind cursor
    available,   \* available_at <= transaction_timestamp()
    window,      \* attempt_window_started_at (running or not) and its count
    ackReceipt,  \* transfer_outbox.ack_receipt_id, 0 when NULL
    spc,         \* where each sender stands in deliver_pending
    todo,        \* rows its SELECT returned and it has not reached yet
    cur,         \* the batch whose answer it awaits
    answer,      \* the answer on its way to it: a receipt, or none
    wire,        \* requests on their way to the consumer
    inbox,       \* transfer_inbox: one row per batch, or none
    lastReceipt, \* receipts created so far
    hpc,         \* where each handler stands in receive/apply
    hreq,        \* the request it serves
    hreceipt,    \* the receipt receive() gave it, 0 when it serves none
    rollup,      \* transfer_inbox_rollup: pruned receipts and their watermark
    facts,       \* batches whose content is committed in the consumer's tables
    applies,     \* history: committed applications
    upgraded     \* the consumer runs the release that reads the next schema version

outboxVars == <<row, cursor, nextCursor, available, window, ackReceipt>>
senderVars == <<spc, todo, cur>>
netVars    == <<answer, wire>>
inboxVars  == <<inbox, lastReceipt, rollup, facts, applies, upgraded>>
handlerVars == <<hpc, hreq, hreceipt>>

vars == <<outboxVars, senderVars, netVars, inboxVars, handlerVars>>

-----------------------------------------------------------------------------
(* Types *)

\* "open" is an inserted row whose transaction has not committed, "void" one
\* that rolled back and left a gap in the sequence, "purged" a deleted one.
RowStates == {"none", "open", "void", "sealed", "sent", "acknowledged", "purged"}
Pending == {"sealed", "sent"}
Given == {"acknowledged", "purged"}

Request == [batch : Batches, to : Senders \cup {None}]

InboxStates == {"none", "verified", "applied", "quarantined"}
NoReceipt == [state |-> "none", receipt |-> 0, payload |-> FALSE]

\* Every variable has its type, and a process that awaits or serves a request
\* knows which.
TypeOK ==
    /\ row \in [Batches -> RowStates]
    /\ cursor \in [Batches -> Nat]
    /\ nextCursor \in Nat
    /\ available \in [Batches -> BOOLEAN]
    /\ window \in [Batches -> [running : BOOLEAN, count : Nat]]
    /\ ackReceipt \in [Batches -> Nat]
    /\ spc \in [Senders -> {"idle", "walk", "await"}]
    /\ todo \in [Senders -> SUBSET Batches]
    /\ cur \in [Senders -> Batches \cup {None}]
    /\ answer \in [Senders -> Nat]
    /\ wire \subseteq Request
    /\ inbox \in [Batches -> [state : InboxStates, receipt : Nat, payload : BOOLEAN]]
    /\ lastReceipt \in Nat
    /\ hpc \in [Handlers -> {"idle", "read", "apply"}]
    /\ hreq \in [Handlers -> Request \cup {None}]
    /\ hreceipt \in [Handlers -> Nat]
    /\ rollup \in [receipts : Nat, through : Nat]
    /\ facts \subseteq Batches
    /\ applies \in Nat
    /\ upgraded \in BOOLEAN
    /\ \A s \in Senders : spc[s] = "await" => cur[s] \in Batches
    /\ \A h \in Handlers : hpc[h] # "idle" => hreq[h] \in Request

Init ==
    /\ row = [b \in Batches |-> "none"]
    /\ cursor = [b \in Batches |-> 0]
    /\ nextCursor = 1
    /\ available = [b \in Batches |-> FALSE]
    /\ window = [b \in Batches |-> [running |-> FALSE, count |-> 0]]
    /\ ackReceipt = [b \in Batches |-> 0]
    /\ spc = [s \in Senders |-> "idle"]
    /\ todo = [s \in Senders |-> {}]
    /\ cur = [s \in Senders |-> None]
    /\ answer = [s \in Senders |-> 0]
    /\ wire = {}
    /\ inbox = [b \in Batches |-> NoReceipt]
    /\ lastReceipt = 0
    /\ hpc = [h \in Handlers |-> "idle"]
    /\ hreq = [h \in Handlers |-> None]
    /\ hreceipt = [h \in Handlers |-> 0]
    /\ rollup = [receipts |-> 0, through |-> 0]
    /\ facts = {}
    /\ applies = 0
    /\ upgraded = FALSE

-----------------------------------------------------------------------------
(* Producer: sealing, inside the collector's persist transaction *)

\* The identity sequence moves when the row is inserted, not when the
\* transaction commits: cursors may become visible out of order, with gaps.
SealInsert(b) ==
    /\ row[b] = "none"
    /\ row' = [row EXCEPT ![b] = "open"]
    /\ cursor' = [cursor EXCEPT ![b] = nextCursor]
    /\ nextCursor' = nextCursor + 1
    /\ UNCHANGED <<available, window, ackReceipt>>
    /\ UNCHANGED <<senderVars, netVars, inboxVars, handlerVars>>

SealCommit(b) ==
    /\ row[b] = "open"
    /\ row' = [row EXCEPT ![b] = "sealed"]
    /\ available' = [available EXCEPT ![b] = TRUE]
    /\ UNCHANGED <<cursor, nextCursor, window, ackReceipt>>
    /\ UNCHANGED <<senderVars, netVars, inboxVars, handlerVars>>

SealAbort(b) ==
    /\ row[b] = "open"
    /\ row' = [row EXCEPT ![b] = "void"]
    /\ UNCHANGED <<cursor, nextCursor, available, window, ackReceipt>>
    /\ UNCHANGED <<senderVars, netVars, inboxVars, handlerVars>>

-----------------------------------------------------------------------------
(* Producer: deliver_pending *)

\* Mutant of Eligible: the budget is compared with <= instead of <.
EligibleOneOver ==
    {b \in Batches : /\ row[b] \in Pending
                     /\ available[b]
                     /\ window[b].running => window[b].count <= MaxAttempts}

\* The WHERE clause of the SELECT.
Eligible == {b \in Batches : /\ row[b] \in Pending
                             /\ available[b]
                             /\ window[b].running => window[b].count < MaxAttempts}

\* ORDER BY cursor LIMIT n.
Oldest(S, n) == {b \in S : Cardinality({c \in S : cursor[c] < cursor[b]}) < n}

\* The SELECT takes no lock: what it returned may be stale when a row's turn comes.
Select(s) ==
    /\ spc[s] = "idle"
    /\ Eligible # {}
    /\ spc' = [spc EXCEPT ![s] = "walk"]
    /\ todo' = [todo EXCEPT ![s] = Oldest(Eligible, Limit)]
    /\ UNCHANGED cur
    /\ UNCHANGED <<outboxVars, netVars, inboxVars, handlerVars>>

\* The sliding window is reset by the same UPDATE that counts the attempt.
Counted(w) == [running |-> TRUE, count |-> IF w.running THEN w.count + 1 ELSE 1]

\* Mutant of Attempt: the UPDATE trusts the stale SELECT and checks no state.
AttemptUnchecked(s, b) ==
    /\ spc[s] = "walk"
    /\ b \in Oldest(todo[s], 1)
    /\ row' = [row EXCEPT ![b] = "sent"]
    /\ window' = [window EXCEPT ![b] = Counted(@)]
    /\ wire' = wire \cup {[batch |-> b, to |-> s]}
    /\ spc' = [spc EXCEPT ![s] = "await"]
    /\ todo' = [todo EXCEPT ![s] = @ \ {b}]
    /\ cur' = [cur EXCEPT ![s] = b]
    /\ UNCHANGED <<cursor, nextCursor, available, ackReceipt, answer>>
    /\ UNCHANGED <<inboxVars, handlerVars>>

\* The row is re-checked for its state only, then the request leaves.
Attempt(s, b) ==
    /\ spc[s] = "walk"
    /\ b \in Oldest(todo[s], 1)
    /\ row[b] \in Pending
    /\ row' = [row EXCEPT ![b] = "sent"]
    /\ window' = [window EXCEPT ![b] = Counted(@)]
    /\ wire' = wire \cup {[batch |-> b, to |-> s]}
    /\ spc' = [spc EXCEPT ![s] = "await"]
    /\ todo' = [todo EXCEPT ![s] = @ \ {b}]
    /\ cur' = [cur EXCEPT ![s] = b]
    /\ UNCHANGED <<cursor, nextCursor, available, ackReceipt, answer>>
    /\ UNCHANGED <<inboxVars, handlerVars>>

\* The row is no longer pending: another sender was acknowledged for it.
SkipRow(s, b) ==
    /\ spc[s] = "walk"
    /\ b \in Oldest(todo[s], 1)
    /\ row[b] \notin Pending
    /\ todo' = [todo EXCEPT ![s] = @ \ {b}]
    /\ UNCHANGED <<spc, cur>>
    /\ UNCHANGED <<outboxVars, netVars, inboxVars, handlerVars>>

PassDone(s) ==
    /\ spc[s] = "walk"
    /\ todo[s] = {}
    /\ spc' = [spc EXCEPT ![s] = "idle"]
    /\ UNCHANGED <<todo, cur>>
    /\ UNCHANGED <<outboxVars, netVars, inboxVars, handlerVars>>

\* The sender's connection is gone: nobody waits for what is still under way.
Unawaited(req) == [batch |-> req.batch, to |-> None]
Orphaned(req, s) == IF req # None /\ req.to = s THEN Unawaited(req) ELSE req

HangUp(s) ==
    /\ wire' = {Orphaned(m, s) : m \in wire}
    /\ hreq' = [h \in Handlers |-> Orphaned(hreq[h], s)]
    /\ answer' = [answer EXCEPT ![s] = 0]

\* The ACK is stored only over a row still 'sent'.
Acknowledge(s) ==
    /\ spc[s] = "await"
    /\ answer[s] # 0
    /\ IF row[cur[s]] = "sent"
         THEN /\ row' = [row EXCEPT ![cur[s]] = "acknowledged"]
              /\ ackReceipt' = [ackReceipt EXCEPT ![cur[s]] = answer[s]]
         ELSE UNCHANGED <<row, ackReceipt>>
    /\ spc' = [spc EXCEPT ![s] = "walk"]
    /\ cur' = [cur EXCEPT ![s] = None]
    /\ answer' = [answer EXCEPT ![s] = 0]
    /\ UNCHANGED <<cursor, nextCursor, available, window, todo, wire>>
    /\ UNCHANGED <<inboxVars, handlerVars>>

\* Mutant of Fail: the first failure ends the pass.
FailEndsPass(s) ==
    /\ spc[s] = "await"
    /\ \E soon \in BOOLEAN :
         available' = IF row[cur[s]] = "sent"
                        THEN [available EXCEPT ![cur[s]] = soon]
                        ELSE available
    /\ spc' = [spc EXCEPT ![s] = "idle"]
    /\ todo' = [todo EXCEPT ![s] = {}]
    /\ cur' = [cur EXCEPT ![s] = None]
    /\ HangUp(s)
    /\ UNCHANGED <<row, cursor, nextCursor, window, ackReceipt, hpc, hreceipt>>
    /\ UNCHANGED inboxVars

\* A timeout, a refused or broken connection, or an error status: the sender
\* cannot tell them apart.  Full jitter: the next attempt may be due at once.
\* The pass continues with the next row.
Fail(s) ==
    /\ spc[s] = "await"
    /\ \E soon \in BOOLEAN :
         available' = IF row[cur[s]] = "sent"
                        THEN [available EXCEPT ![cur[s]] = soon]
                        ELSE available
    /\ spc' = [spc EXCEPT ![s] = "walk"]
    /\ cur' = [cur EXCEPT ![s] = None]
    /\ HangUp(s)
    /\ UNCHANGED <<row, cursor, nextCursor, window, ackReceipt, todo, hpc, hreceipt>>
    /\ UNCHANGED inboxVars

SenderCrash(s) ==
    /\ spc[s] # "idle"
    /\ spc' = [spc EXCEPT ![s] = "idle"]
    /\ todo' = [todo EXCEPT ![s] = {}]
    /\ cur' = [cur EXCEPT ![s] = None]
    /\ HangUp(s)
    /\ UNCHANGED <<outboxVars, inboxVars, hpc, hreceipt>>

BackoffElapses(b) ==
    /\ row[b] \in Pending
    /\ ~available[b]
    /\ available' = [available EXCEPT ![b] = TRUE]
    /\ UNCHANGED <<row, cursor, nextCursor, window, ackReceipt>>
    /\ UNCHANGED <<senderVars, netVars, inboxVars, handlerVars>>

WindowExpires(b) ==
    /\ row[b] \in Pending
    /\ window[b].running
    /\ window' = [window EXCEPT ![b] = [running |-> FALSE, count |-> @.count]]
    /\ UNCHANGED <<row, cursor, nextCursor, available, ackReceipt>>
    /\ UNCHANGED <<senderVars, netVars, inboxVars, handlerVars>>

\* Mutant of PurgeAcknowledged: rows whose answer is still awaited go as well.
PurgeSent(V) ==
    /\ V # {}
    /\ \A b \in V : row[b] \in {"sent", "acknowledged"}
    /\ row' = [b \in Batches |-> IF b \in V THEN "purged" ELSE row[b]]
    /\ UNCHANGED <<cursor, nextCursor, available, window, ackReceipt>>
    /\ UNCHANGED <<senderVars, netVars, inboxVars, handlerVars>>

\* Any acknowledged rows past the horizon; locked rows are skipped.
PurgeAcknowledged(V) ==
    /\ V # {}
    /\ \A b \in V : row[b] = "acknowledged"
    /\ row' = [b \in Batches |-> IF b \in V THEN "purged" ELSE row[b]]
    /\ UNCHANGED <<cursor, nextCursor, available, window, ackReceipt>>
    /\ UNCHANGED <<senderVars, netVars, inboxVars, handlerVars>>

-----------------------------------------------------------------------------
(* Between the servers *)

\* A request is lost, refused, or its handler dies before its first commit.
LoseRequest(m) ==
    /\ m \in wire
    /\ wire' = wire \ {m}
    /\ UNCHANGED answer
    /\ UNCHANGED <<outboxVars, senderVars, inboxVars, handlerVars>>

-----------------------------------------------------------------------------
(* Consumer: receive *)

\* The running release does not know the schema version batch b was sealed with.
Incompatible(b) == b \in Foreign /\ ~upgraded

Insert(b) ==
    /\ lastReceipt' = lastReceipt + 1
    /\ inbox' = [inbox EXCEPT ![b] =
           [state   |-> IF Incompatible(b) THEN "quarantined" ELSE "verified",
            receipt |-> lastReceipt',
            payload |-> ~Incompatible(b)]]

\* The sender still waiting on request m gets the receipt of its batch.
Answer(m, receipt) ==
    answer' = IF m.to \in Senders THEN [answer EXCEPT ![m.to] = receipt] ELSE answer

\* Mutant of Receive: the ACK leaves after the durable receipt, before apply().
ReceiveAcksEarly(h, m) ==
    /\ m \in wire
    /\ hpc[h] = "idle"
    /\ wire' = wire \ {m}
    /\ IF inbox[m.batch].state = "none"
         THEN Insert(m.batch)
         ELSE UNCHANGED <<inbox, lastReceipt>>
    /\ Answer(m, inbox'[m.batch].receipt)
    /\ IF Incompatible(m.batch)
         THEN UNCHANGED handlerVars
         ELSE /\ hpc' = [hpc EXCEPT ![h] = "read"]
              /\ hreq' = [hreq EXCEPT ![h] = Unawaited(m)]
              /\ hreceipt' = [hreceipt EXCEPT ![h] = inbox'[m.batch].receipt]
    /\ UNCHANGED <<rollup, facts, applies, upgraded>>
    /\ UNCHANGED <<outboxVars, senderVars>>

\* The first transaction of receive(): INSERT ... ON CONFLICT DO NOTHING, or the
\* existing receipt.  A foreign schema stores no payload and is answered at
\* once; any other batch goes on to apply().
Receive(h, m) ==
    /\ m \in wire
    /\ hpc[h] = "idle"
    /\ wire' = wire \ {m}
    /\ IF inbox[m.batch].state = "none"
         THEN Insert(m.batch)
         ELSE UNCHANGED <<inbox, lastReceipt>>
    /\ IF Incompatible(m.batch)
         THEN /\ Answer(m, inbox'[m.batch].receipt)
              /\ UNCHANGED handlerVars
         ELSE /\ hpc' = [hpc EXCEPT ![h] = "read"]
              /\ hreq' = [hreq EXCEPT ![h] = m]
              /\ hreceipt' = [hreceipt EXCEPT ![h] = inbox'[m.batch].receipt]
              /\ UNCHANGED answer
    /\ UNCHANGED <<rollup, facts, applies, upgraded>>
    /\ UNCHANGED <<outboxVars, senderVars>>

-----------------------------------------------------------------------------
(* Consumer: apply *)

\* The state of the receipt the handler holds: "none" once it was pruned, even
\* if a later request gave the same batch a new receipt.
Held(h) == LET kept == inbox[hreq[h].batch] IN
           IF kept.receipt = hreceipt[h] THEN kept.state ELSE "none"

Finish(h) ==
    /\ hpc' = [hpc EXCEPT ![h] = "idle"]
    /\ hreq' = [hreq EXCEPT ![h] = None]
    /\ hreceipt' = [hreceipt EXCEPT ![h] = 0]

ReturnAck(h) ==
    /\ Finish(h)
    /\ Answer(hreq[h], hreceipt[h])

\* Any exception is answered with an error status: no receipt, no ACK.
ReturnError(h) ==
    /\ Finish(h)
    /\ UNCHANGED answer

\* The stored row is read and decoded outside the applying transaction.  A row
\* quarantined by the release before this one has no payload to decode: the
\* request ends in an error, whatever its own body holds.
ApplyRead(h) ==
    /\ hpc[h] = "read"
    /\ \/ Held(h) = "none"    /\ ReturnError(h)
       \/ Held(h) = "applied" /\ ReturnAck(h)
       \/ /\ Held(h) \notin {"none", "applied"}
          /\ ~inbox[hreq[h].batch].payload
          /\ ReturnError(h)
       \/ /\ Held(h) \notin {"none", "applied"}
          /\ inbox[hreq[h].batch].payload
          /\ hpc' = [hpc EXCEPT ![h] = "apply"]
          /\ UNCHANGED <<hreq, hreceipt, answer>>
    /\ UNCHANGED wire
    /\ UNCHANGED <<outboxVars, senderVars, inboxVars>>

InState(kept, state) ==
    [state |-> state, receipt |-> kept.receipt, payload |-> kept.payload]

\* Mutant of ApplyCommit: the state is not read again under the lock.
ApplyUnrechecked(h) ==
    /\ hpc[h] = "apply"
    /\ \/ Held(h) = "none" /\ ReturnError(h) /\ UNCHANGED <<inbox, facts, applies>>
       \/ /\ Held(h) # "none"
          /\ hreq[h].batch \notin Poison
          /\ inbox' = [inbox EXCEPT ![hreq[h].batch] = InState(@, "applied")]
          /\ facts' = facts \cup {hreq[h].batch}
          /\ applies' = applies + 1
          /\ ReturnAck(h)
    /\ UNCHANGED <<wire, lastReceipt, rollup, upgraded>>
    /\ UNCHANGED <<outboxVars, senderVars>>

\* The row is locked and its state read again: pruned, applied by another
\* handler meanwhile, or applied here, with its content, in one transaction.
ApplyCommit(h) ==
    /\ hpc[h] = "apply"
    /\ \/ /\ Held(h) = "none"
          /\ ReturnError(h)
          /\ UNCHANGED <<inbox, facts, applies>>
       \/ /\ Held(h) = "applied"
          /\ ReturnAck(h)
          /\ UNCHANGED <<inbox, facts, applies>>
       \/ /\ Held(h) \notin {"none", "applied"}
          /\ hreq[h].batch \notin Poison
          /\ inbox' = [inbox EXCEPT ![hreq[h].batch] = InState(@, "applied")]
          /\ facts' = facts \cup {hreq[h].batch}
          /\ applies' = applies + 1
          /\ ReturnAck(h)
    /\ UNCHANGED <<wire, lastReceipt, rollup, upgraded>>
    /\ UNCHANGED <<outboxVars, senderVars>>

\* The persist path raises: the transaction rolls back.
ApplyFail(h) ==
    /\ hpc[h] = "apply"
    /\ ReturnError(h)
    /\ UNCHANGED wire
    /\ UNCHANGED <<outboxVars, senderVars, inboxVars>>

\* Server 2 restarts: every request under way ends without an answer.
ConsumerRestart ==
    /\ \E h \in Handlers : hpc[h] # "idle"
    /\ hpc' = [h \in Handlers |-> "idle"]
    /\ hreq' = [h \in Handlers |-> None]
    /\ hreceipt' = [h \in Handlers |-> 0]
    /\ UNCHANGED <<outboxVars, senderVars, netVars, inboxVars>>

\* A release that reads the next schema version is deployed: the service
\* restarts with it.  Where nothing is sealed with that version it is a restart.
ConsumerUpgrade ==
    /\ ~upgraded
    /\ Foreign # {}
    /\ upgraded' = TRUE
    /\ hpc' = [h \in Handlers |-> "idle"]
    /\ hreq' = [h \in Handlers |-> None]
    /\ hreceipt' = [h \in Handlers |-> 0]
    /\ UNCHANGED <<inbox, lastReceipt, rollup, facts, applies>>
    /\ UNCHANGED <<outboxVars, senderVars, netVars>>

-----------------------------------------------------------------------------
(* Consumer: retention *)

Bodiless(kept) == [state |-> kept.state, receipt |-> kept.receipt, payload |-> FALSE]

\* The payloads of applied receipts past the payload window.
ReleasePayloads(V) ==
    /\ V # {}
    /\ \A b \in V : inbox[b].state = "applied" /\ inbox[b].payload
    /\ inbox' = [b \in Batches |-> IF b \in V THEN Bodiless(inbox[b]) ELSE inbox[b]]
    /\ UNCHANGED <<lastReceipt, rollup, facts, applies, upgraded>>
    /\ UNCHANGED <<outboxVars, senderVars, netVars, handlerVars>>

Highest(S) == CHOOSE n \in S : \A k \in S : k <= n

\* Mutant of PruneReceipts: the rollup counts the receipts and forgets their cursors.
PruneForgetsCursors(V) ==
    /\ V # {}
    /\ \A b \in V : inbox[b].state = "applied"
    /\ rollup.receipts + Cardinality(V) <= MaxPruned
    /\ inbox' = [b \in Batches |-> IF b \in V THEN NoReceipt ELSE inbox[b]]
    /\ rollup' = [receipts |-> rollup.receipts + Cardinality(V),
                  through  |-> rollup.through]
    /\ UNCHANGED <<lastReceipt, facts, applies, upgraded>>
    /\ UNCHANGED <<outboxVars, senderVars, netVars, handlerVars>>

\* prune_transfer_inbox: applied receipts past their window are deleted and
\* folded into the rollup; unapplied and quarantined ones never are.
PruneReceipts(V) ==
    /\ V # {}
    /\ \A b \in V : inbox[b].state = "applied"
    /\ rollup.receipts + Cardinality(V) <= MaxPruned
    /\ inbox' = [b \in Batches |-> IF b \in V THEN NoReceipt ELSE inbox[b]]
    /\ rollup' = [receipts |-> rollup.receipts + Cardinality(V),
                  through  |-> Highest({rollup.through} \cup {cursor[b] : b \in V})]
    /\ UNCHANGED <<lastReceipt, facts, applies, upgraded>>
    /\ UNCHANGED <<outboxVars, senderVars, netVars, handlerVars>>

-----------------------------------------------------------------------------
(* Specification *)

ProducerStep ==
    \/ \E b \in Batches : \/ SealInsert(b) \/ SealCommit(b) \/ SealAbort(b)
                          \/ BackoffElapses(b) \/ WindowExpires(b)
    \/ \E s \in Senders : \/ Select(s) \/ PassDone(s)
                          \/ Acknowledge(s) \/ Fail(s) \/ SenderCrash(s)
    \/ \E s \in Senders, b \in Batches : Attempt(s, b) \/ SkipRow(s, b)
    \/ \E V \in SUBSET Batches : PurgeAcknowledged(V)

ConsumerStep ==
    \/ \E h \in Handlers, m \in wire : Receive(h, m)
    \/ \E h \in Handlers : ApplyRead(h) \/ ApplyCommit(h) \/ ApplyFail(h)
    \/ ConsumerRestart
    \/ ConsumerUpgrade
    \/ \E V \in SUBSET Batches : ReleasePayloads(V) \/ PruneReceipts(V)

Next ==
    \/ ProducerStep
    \/ ConsumerStep
    \/ \E m \in wire : LoseRequest(m)

Spec == Init /\ [][Next]_vars

-----------------------------------------------------------------------------
(* Fairness *)

\* The loops keep running, timers run out, a request in flight is served, a
\* handler ends and a dead peer is noticed: the services schedule all of it.
Scheduling ==
    /\ \A s \in Senders : /\ WF_vars(Select(s))
                          /\ WF_vars(\E b \in Batches : Attempt(s, b) \/ SkipRow(s, b))
                          /\ WF_vars(PassDone(s))
                          /\ WF_vars(Acknowledge(s) \/ Fail(s))
    /\ WF_vars(\E h \in Handlers, m \in wire : Receive(h, m))
    /\ \A h \in Handlers : WF_vars(ApplyRead(h) \/ ApplyCommit(h) \/ ApplyFail(h))
    /\ \A b \in Batches : /\ WF_vars(SealCommit(b) \/ SealAbort(b))
                          /\ WF_vars(BackoffElapses(b))
                          /\ WF_vars(WindowExpires(b))

\* A request of s, or its answer, is still on its way.
UnderWay(s) == \/ answer[s] # 0
               \/ \E m \in wire : m.to = s
               \/ \E h \in Handlers : hreq[h] # None /\ hreq[h].to = s

\* The consumer answers with an error: a row quarantined before the upgrade.
Refused(s) == \E h \in Handlers : /\ hreq[h] # None /\ hreq[h].to = s
                                 /\ inbox[cur[s]].state = "quarantined"
                                 /\ ApplyRead(h)

\* An exchange the consumer could have completed comes to nothing.
Cut(s) == /\ cur[s] \in Batches \ Poison
          /\ UnderWay(s)
          /\ ~UnderWay(s)'
          /\ ~Acknowledge(s)
          /\ ~Refused(s)

Interrupted(s) == (spc[s] = "await" \/ todo[s] # {}) /\ SenderCrash(s)

\* From some time on the link and both servers are up; a poison batch goes on
\* failing on every attempt.
AtLastStable == <>[][\A s \in Senders : ~Cut(s) /\ ~Interrupted(s)]_vars

FairSpec == Spec /\ Scheduling /\ AtLastStable

-----------------------------------------------------------------------------
(* Properties *)

\* Batch b reached the consumer for good: its content is committed there, or
\* the consumer has durably recorded that it cannot read its schema.
Landed(b) == b \in facts \/ inbox[b].state = "quarantined"

\* A row the producer counts as delivered, and may delete or has deleted, is
\* one the consumer has taken for good, whatever crashed, was lost, was
\* answered late or was pruned in between.
NeverLost == \A b \in Batches : row[b] \in Given => Landed(b)

\* What the parts of an exchange entitle their holder to, so that NeverLost
\* holds: an answer speaks of a batch that landed, for the sender that still
\* waits for that batch, and so does a request; a receipt marked applied has its
\* content committed, and one of a foreign schema never waits to be applied.
AnswersLanded == \A s \in Senders : answer[s] # 0 => spc[s] = "await" /\ Landed(cur[s])

Waits(req) == req.to \in Senders => spc[req.to] = "await" /\ cur[req.to] = req.batch

RequestsAwaited == /\ \A m \in wire : Waits(m)
                   /\ \A h \in Handlers : hpc[h] # "idle" => Waits(hreq[h])

Serves(h, s) == hpc[h] # "idle" /\ hreq[h].to = s

\* A sender's exchange is in one place: in flight, served by one handler, or answered.
OneExchange == \A s \in Senders :
    /\ answer[s] # 0 => /\ \A m \in wire : m.to # s
                       /\ \A h \in Handlers : ~Serves(h, s)
    /\ (\E m \in wire : m.to = s) => \A h \in Handlers : ~Serves(h, s)
    /\ \A h, k \in Handlers : Serves(h, s) /\ Serves(k, s) => h = k

ReceiptsTrue == \A b \in Batches :
    /\ inbox[b].state = "applied" => b \in facts
    /\ Incompatible(b) => inbox[b].state # "verified"

\* The inductive invariant behind NeverLost.
DeliveryInv == /\ TypeOK /\ NeverLost /\ AnswersLanded /\ RequestsAwaited
               /\ OneExchange /\ ReceiptsTrue

\* Every committed application is accounted for by exactly one receipt, live or
\* folded into the rollup: concurrent handlers of one batch and resends of an
\* applied one never apply it a second time under the same receipt.
EffectsAccounted ==
    applies = rollup.receipts
                + Cardinality({b \in Batches : inbox[b].state = "applied"})

\* SELECT checks the budget of attempts of a running window and the later UPDATE
\* only counts: passes that have read the same row may exceed it, but by less than
\* one attempt each.  Where there is one sender it is kept.
AttemptBudget ==
    \A b \in Batches : window[b].running =>
       window[b].count < MaxAttempts + Cardinality(Senders)

\* Once acknowledged a row is never pending again and keeps its receipt: the
\* late error of another sender, or a late second ACK, changes nothing.
KeepsAck == \A b \in Batches : row[b] \in Given => /\ row'[b] \in Given
                                                  /\ ackReceipt'[b] = ackReceipt[b]
AckedStaysAcked == [][KeepsAck]_vars

\* last_applied_cursor as observe() computes it from receipts and the rollup.
AppliedWatermark ==
    Highest({0, rollup.through} \cup
            {cursor[b] : b \in {c \in Batches : inbox[c].state = "applied"}})

\* Pruning receipts in any order never moves the applied watermark backwards.
WatermarkMonotone == [][AppliedWatermark <= AppliedWatermark']_vars

\* Every sealed batch the consumer is able to apply is at last acknowledged,
\* even when an older batch fails on every attempt.
EventuallyAcknowledged ==
    \A b \in Batches \ Poison : (row[b] = "sealed") ~> (row[b] \in Given)

\* What the promise sees of a batch.
Stage(b) == IF row[b] \in Given THEN "confirmed"
            ELSE IF Landed(b) THEN "landed"
            ELSE IF row[b] \in Pending THEN "owed" ELSE "absent"

Promise == INSTANCE TransferPromise WITH stage <- [b \in Batches |-> Stage(b)]

\* The protocol implements the promise: landed before confirmed, and no way back.
ImplementsPromise == Promise!PromiseSpec
=============================================================================
