------------------------------- MODULE EventSync -------------------------------
(***************************************************************************)
(* How a change of a credential on chain reaches the index the wallet and  *)
(* the admin client list credentials from:                                 *)
(*                                                                         *)
(*   CredentialRegistry --logs--> BlockchainSync --RabbitMQ--> Credential  *)
(*                                                                         *)
(* BlockchainSync polls one subscription per kind of event, each with its  *)
(* own cursor, which lives in memory only.  The Credential service keeps a *)
(* row per credential; the row itself is made by an HTTP call of whoever   *)
(* issued, which is a different path from the one status changes take.     *)
(*                                                                         *)
(* Modelled: the two kinds of event that are passed on.  CredentialIssued  *)
(* and AccreditationIssued are only stored, CredentialReactivated has no   *)
(* subscription.  Of a row, only its status column is modelled.            *)
(***************************************************************************)
EXTENDS Naturals, Sequences

CONSTANTS
  Credentials,
  MaxEvents,   \* bound on the logs of the two kinds
  MaxBlocks,   \* bound on the chain's height
  MaxFaults    \* bound on failures, crashes and restarts

ASSUME SyncAssumption ==
  MaxEvents \in Nat /\ MaxBlocks \in Nat /\ MaxFaults \in Nat

VARIABLES
  chain,      \* status of a credential in the contract, the open block included
  log,        \* events emitted so far: kind, credential and block
  tip,        \* number of the last mined block; events of the open block carry tip + 1
  mode,       \* of a subscription: starting, listening or dead
  fromBlock,  \* its cursor
  batch,      \* the logs it fetched and has not handled
  stage,      \* how far the handler of the first of them is
  stored,     \* SyncedEvent rows of a log
  marked,     \* those with IsPublished set
  inFlight,   \* messages of a log not yet acknowledged by the consumer
  index,      \* status column of the Credential service's row, if there is one
  faults,     \* faults so far
  since,      \* history: the block a subscription started at
  misreported \* history: credentials whose revocation was reported with another's transaction

chainVars == <<chain, log, tip>>
workerVars == <<mode, fromBlock, batch, stage, since>>
tableVars == <<stored, marked>>
rowVars == <<index, misreported>>
vars == <<chainVars, workerVars, tableVars, inFlight, rowVars, faults>>

Kinds == {"Suspended", "Revoked"}
Statuses == {"Active", "Suspended", "Revoked"}
Events == 1 .. MaxEvents
Emitted == DOMAIN log

Init ==
  /\ chain = [c \in Credentials |-> "None"]
  /\ log = <<>>
  /\ tip = 1
  /\ mode = [k \in Kinds |-> "starting"]
  /\ fromBlock = [k \in Kinds |-> 0]
  /\ batch = [k \in Kinds |-> {}]
  /\ stage = [k \in Kinds |-> "idle"]
  /\ stored = [e \in Events |-> 0]
  /\ marked = [e \in Events |-> 0]
  /\ inFlight = [e \in Events |-> 0]
  /\ index = [c \in Credentials |-> "NoRow"]
  /\ faults = 0
  /\ since = [k \in Kinds |-> 0]
  /\ misreported = {}

Fault == faults < MaxFaults /\ faults' = faults + 1

-----------------------------------------------------------------------------
(* The chain *)

\* A transaction of the contract, and the event it emits.
Emit(kind, c) ==
  /\ Len(log) < MaxEvents
  /\ log' = Append(log, [kind |-> kind, credential |-> c, block |-> tip + 1])
  /\ UNCHANGED <<tip, workerVars, tableVars, inFlight, rowVars, faults>>

Record(c) ==
  /\ chain[c] = "None"
  /\ chain' = [chain EXCEPT ![c] = "Active"]
  /\ UNCHANGED <<log, tip, workerVars, tableVars, inFlight, rowVars, faults>>

Suspend(c) ==
  /\ chain[c] \in {"Active", "Suspended"}
  /\ chain' = [chain EXCEPT ![c] = "Suspended"]
  /\ Emit("Suspended", c)

Revoke(c) ==
  /\ chain[c] \in {"Active", "Suspended"}
  /\ chain' = [chain EXCEPT ![c] = "Revoked"]
  /\ Emit("Revoked", c)

\* Nobody is told.
Reactivate(c) ==
  /\ chain[c] = "Suspended"
  /\ chain' = [chain EXCEPT ![c] = "Active"]
  /\ UNCHANGED <<log, tip, workerVars, tableVars, inFlight, rowVars, faults>>

\* The open block is mined; its logs can be fetched from now on.
Mine ==
  /\ tip < MaxBlocks
  /\ tip' = tip + 1
  /\ UNCHANGED <<chain, log, workerVars, tableVars, inFlight, rowVars, faults>>

-----------------------------------------------------------------------------
(* SubscribeToEventAsync: one per kind *)

\* The subscription starts at the block it finds as the last one; what was mined
\* before it is not looked at.
Start(k) ==
  /\ mode[k] = "starting"
  /\ mode' = [mode EXCEPT ![k] = "listening"]
  /\ fromBlock' = [fromBlock EXCEPT ![k] = tip]
  /\ since' = [since EXCEPT ![k] = tip]
  /\ UNCHANGED <<chainVars, batch, stage, tableVars, inFlight, rowVars, faults>>

\* This first request is made outside of the loop's try.  Its failure ends this
\* subscription, and Task.WhenAll does not report it while another one runs.
StartFails(k) ==
  /\ mode[k] = "starting"
  /\ mode' = [mode EXCEPT ![k] = "dead"]
  /\ Fault
  /\ UNCHANGED <<chainVars, fromBlock, since, batch, stage, tableVars, inFlight, rowVars>>

\* Faulty variant: the cursor is taken for the last block already looked at.
FetchedAfterCursor(k) ==
  {e \in Emitted : log[e].kind = k /\ log[e].block \in (fromBlock[k] + 1) .. tip}

FetchedLogs(k) ==
  {e \in Emitted : log[e].kind = k /\ log[e].block \in fromBlock[k] .. tip}

\* One poll.  A poll that finds nothing leaves the cursor where it is.
Poll(k) ==
  /\ mode[k] = "listening"
  /\ batch[k] = {}
  /\ FetchedLogs(k) # {}
  /\ batch' = [batch EXCEPT ![k] = FetchedLogs(k)]
  /\ UNCHANGED <<chainVars, mode, fromBlock, since, stage, tableVars, inFlight, rowVars, faults>>

\* Logs are handled in the order they were emitted.
Handling(k, e) == e \in batch[k] /\ \A d \in batch[k] : e <= d

\* The three steps of HandleRevokedAsync and HandleSuspendedAsync.
SaveEvent(k, e) ==
  /\ Handling(k, e)
  /\ stage[k] = "idle"
  /\ stage' = [stage EXCEPT ![k] = "saved"]
  /\ stored' = [stored EXCEPT ![e] = @ + 1]
  /\ UNCHANGED <<chainVars, mode, fromBlock, since, batch, marked, inFlight, rowVars, faults>>

Publish(k, e) ==
  /\ Handling(k, e)
  /\ stage[k] = "saved"
  /\ stage' = [stage EXCEPT ![k] = "published"]
  /\ inFlight' = [inFlight EXCEPT ![e] = @ + 1]
  /\ UNCHANGED <<chainVars, mode, fromBlock, since, batch, tableVars, rowVars, faults>>

\* Faulty variant: the cursor is moved past everything that was fetched.
AfterBatch(e) == tip + 1

\* The cursor after a log was handled: past its block, although other logs of the
\* same block may still wait in the batch.
After(e) == log[e].block + 1

\* The handler returns, and the loop moves on.
MarkPublished(k, e) ==
  /\ Handling(k, e)
  /\ stage[k] = "published"
  /\ marked' = [marked EXCEPT ![e] = @ + 1]
  /\ stage' = [stage EXCEPT ![k] = "idle"]
  /\ batch' = [batch EXCEPT ![k] = @ \ {e}]
  /\ fromBlock' = [fromBlock EXCEPT ![k] = After(e)]
  /\ UNCHANGED <<chainVars, mode, since, stored, inFlight, rowVars, faults>>

\* An exception in the handler, the database or the broker: the rest of the batch
\* is dropped and the loop polls again from its cursor.  What the handler did
\* before, it does again.
HandlerFails(k) ==
  /\ batch[k] # {}
  /\ batch' = [batch EXCEPT ![k] = {}]
  /\ stage' = [stage EXCEPT ![k] = "idle"]
  /\ Fault
  /\ UNCHANGED <<chainVars, mode, fromBlock, since, tableVars, inFlight, rowVars>>

\* The service stops, or crashes, and starts again: cursors and batches are gone.
Restart ==
  /\ mode' = [k \in Kinds |-> "starting"]
  /\ fromBlock' = [k \in Kinds |-> 0]
  /\ since' = [k \in Kinds |-> 0]
  /\ batch' = [k \in Kinds |-> {}]
  /\ stage' = [k \in Kinds |-> "idle"]
  /\ Fault
  /\ UNCHANGED <<chainVars, tableVars, inFlight, rowVars>>

-----------------------------------------------------------------------------
(* The Credential service *)

\* Faulty variant: the suspension handler was copied from the revocation's.
WriteRevoked(kind, status) == IF status = "NoRow" THEN "NoRow" ELSE "Revoked"

\* RecordRevokedAsync and RecordSuspendedAsync: the status is overwritten whatever
\* it was, and a message about a credential without a row is dropped.
Write(kind, status) == IF status = "NoRow" THEN "NoRow" ELSE kind

Apply(e) ==
  LET c == log[e].credential IN
  index' = [index EXCEPT ![c] = Write(log[e].kind, @)]

\* Messages are consumed in any order: each kind has its own queue, and several
\* are consumed at a time.
Consume(e) ==
  /\ inFlight[e] > 0
  /\ Apply(e)
  /\ inFlight' = [inFlight EXCEPT ![e] = @ - 1]
  /\ UNCHANGED <<chainVars, workerVars, tableVars, faults, misreported>>

\* The service goes down between the database and the acknowledgement: the
\* message is delivered again.
ConsumeUnacknowledged(e) ==
  /\ inFlight[e] > 0
  /\ Apply(e)
  /\ Fault
  /\ UNCHANGED <<chainVars, workerVars, tableVars, inFlight, misreported>>

\* An exception: no retry is configured, the message goes to the error queue.
ConsumeFails(e) ==
  /\ inFlight[e] > 0
  /\ inFlight' = [inFlight EXCEPT ![e] = @ - 1]
  /\ Fault
  /\ UNCHANGED <<chainVars, workerVars, tableVars, rowVars>>

\* Faulty variant: the row is written without looking for an existing one.
RecordAlways(c) ==
  /\ chain[c] # "None"
  /\ index' = [index EXCEPT ![c] = "Active"]
  /\ UNCHANGED <<chainVars, workerVars, tableVars, inFlight, faults, misreported>>

\* The issuer reports its transaction, at any time after it.  The row starts out
\* Active whatever became of the credential since.
RecordFromClientTx(c) ==
  /\ chain[c] # "None"
  /\ index[c] = "NoRow"
  /\ index' = [index EXCEPT ![c] = "Active"]
  /\ UNCHANGED <<chainVars, workerVars, tableVars, inFlight, faults, misreported>>

\* What a report may name: a transaction that is mined.  0 stands for those that emit
\* no event of the two kinds.
ConfirmedTxs == {e \in Emitted : log[e].block <= tip} \cup {0}

RevokedBy(c, tx) ==
  tx \in Emitted /\ log[tx].kind = "Revoked" /\ log[tx].credential = c

\* The issuer reports its revocation and the transaction that made it.  The code asks
\* of the transaction only that it is confirmed, of the credential that it is on chain.
RecordRevokedFromClientTx(c, tx) ==
  /\ chain[c] # "None"
  /\ index[c] # "NoRow"
  /\ index' = [index EXCEPT ![c] = "Revoked"]
  /\ misreported' = IF RevokedBy(c, tx) THEN misreported ELSE misreported \cup {c}
  /\ UNCHANGED <<chainVars, workerVars, tableVars, inFlight, faults>>

-----------------------------------------------------------------------------
Handle(k) ==
  \E e \in Emitted : SaveEvent(k, e) \/ Publish(k, e) \/ MarkPublished(k, e)

Next ==
  \/ \E c \in Credentials :
       Record(c) \/ Suspend(c) \/ Revoke(c) \/ Reactivate(c)
  \/ Mine
  \/ \E k \in Kinds :
       Start(k) \/ StartFails(k) \/ Poll(k) \/ Handle(k) \/ HandlerFails(k)
  \/ Restart
  \/ \E e \in Emitted : Consume(e) \/ ConsumeUnacknowledged(e) \/ ConsumeFails(e)
  \/ \E c \in Credentials :
       \/ RecordFromClientTx(c)
       \/ \E tx \in ConfirmedTxs : RecordRevokedFromClientTx(c, tx)

Spec == Init /\ [][Next]_vars

\* The loops poll for ever and the broker delivers what it holds; blocks are
\* mined.  Nothing obliges an issuer to report, or a fault to happen.
Fairness ==
  /\ WF_vars(Mine)
  /\ \A k \in Kinds : WF_vars(Start(k)) /\ WF_vars(Poll(k)) /\ WF_vars(Handle(k))
  /\ \A e \in Events : WF_vars(e \in Emitted /\ Consume(e))

FairSpec == Spec /\ Fairness

-----------------------------------------------------------------------------
(* Correctness *)

TypeOK ==
  /\ chain \in [Credentials -> Statuses \cup {"None"}]
  /\ log \in Seq([kind : Kinds, credential : Credentials, block : Nat])
  /\ Emitted \subseteq Events
  /\ tip \in Nat
  /\ mode \in [Kinds -> {"starting", "listening", "dead"}]
  /\ fromBlock \in [Kinds -> Nat]
  /\ since \in [Kinds -> Nat]
  /\ batch \in [Kinds -> SUBSET Emitted]
  /\ stage \in [Kinds -> {"idle", "saved", "published"}]
  /\ stored \in [Events -> Nat]
  /\ marked \in [Events -> Nat]
  /\ inFlight \in [Events -> Nat]
  /\ index \in [Credentials -> Statuses \cup {"NoRow"}]
  /\ faults \in 0 .. MaxFaults
  /\ misreported \subseteq Credentials

\* Another log of the same kind came before e in its block.
Follower(e) ==
  \E d \in Emitted : d < e /\ log[d].kind = log[e].kind /\ log[d].block = log[e].block

\* A running subscription skips no event mined since it started, however often its
\* handler fails: each is still ahead of the cursor, or fetched, or has been stored,
\* published and marked.  The exception the code makes is an event that shares its
\* block with an earlier one of its kind.
EveryEventAccountedFor ==
  \A e \in Emitted :
    LET k == log[e].kind IN
    mode[k] = "listening" /\ log[e].block >= since[k]
      => \/ log[e].block >= fromBlock[k]
         \/ e \in batch[k]
         \/ marked[e] > 0
         \/ Follower(e)

\* The index never runs ahead of the chain: a row exists only for a recorded
\* credential, says Suspended only of one that was, and Revoked only of one that is.
\* The exception the code makes is a credential whose revocation was reported with a
\* transaction that did not revoke it: the status is not read again before it is written.
RowsFollowTheChain ==
  \A c \in Credentials :
    /\ index[c] # "NoRow" => chain[c] # "None"
    /\ index[c] = "Revoked" => chain[c] = "Revoked" \/ c \in misreported
    /\ index[c] = "Suspended" =>
         \E e \in Emitted :
           log[e].kind = "Suspended" /\ log[e].credential = c /\ log[e].block <= tip

\* Whatever the order, duplication or loss of messages and reports, a row that has
\* left Active does not return to it.
NeverActiveAgain ==
  [][\A c \in Credentials :
       index[c] \in {"Suspended", "Revoked"} => index'[c] \in {"Suspended", "Revoked"}]_vars

\* e is on its way: in the queue, or still to be published by a running subscription.
OnItsWay(e) ==
  LET k == log[e].kind IN
  \/ inFlight[e] > 0
  \/ /\ mode[k] = "listening"
     /\ log[e].block >= fromBlock[k] \/ e \in batch[k]
     /\ ~(Handling(k, e) /\ stage[k] = "published")

\* When faults have ceased, the event of a credential with a row reaches that row,
\* which then has the event's status, if it is on its way and its block gets mined.
\* Another event may change the row again afterwards.
EventsReachTheIndex ==
  \A e \in Events :
    /\ faults = MaxFaults
    /\ e \in Emitted
    /\ log[e].block <= tip
    /\ OnItsWay(e)
    /\ index[log[e].credential] # "NoRow"
    ~> e \in Emitted /\ index[log[e].credential] = log[e].kind

\* "Records a revocation whose on-chain transaction was signed and submitted entirely by
\* the caller's browser wallet": a row says Revoked only of a credential that the chain
\* has revoked.  The code does not keep this.
RevokedRowsAreRevoked == \A c \in Credentials : index[c] = "Revoked" => chain[c] = "Revoked"

ShownRevoked(e) == e \in Emitted /\ index[log[e].credential] = "Revoked"

\* The README of the repository says of BlockchainSync that it "keeps off-chain
\* indexes current": when a revocation is on its way to a row that exists, the row
\* ends up, and stays, Revoked.  The code does not keep this.
IndexBecomesCurrent ==
  \A e \in Events :
    /\ e \in Emitted
    /\ log[e].kind = "Revoked"
    /\ log[e].block <= tip
    /\ OnItsWay(e)
    /\ index[log[e].credential] # "NoRow"
    ~> []ShownRevoked(e)
=============================================================================
