---------------------------- MODULE EventSyncProofs ----------------------------
(***************************************************************************)
(* What holds of the event pipeline for any number of credentials, events, *)
(* blocks and faults.                                                      *)
(***************************************************************************)
EXTENDS EventSync, TLAPS

Event == [kind : Kinds, credential : Credentials, block : Nat]

\* Either report of an issuer.
Reported(c) ==
  \/ RecordFromClientTx(c)
  \/ \E tx \in ConfirmedTxs : RecordRevokedFromClientTx(c, tx)

\* Next with one named disjunct per action.
LEMMA Steps ==
  ASSUME Next
  PROVE  \/ \E c \in Credentials :
               Record(c) \/ Suspend(c) \/ Revoke(c) \/ Reactivate(c)
         \/ Mine
         \/ \E k \in Kinds : Start(k) \/ StartFails(k) \/ Poll(k) \/ HandlerFails(k)
         \/ \E k \in Kinds, e \in Emitted :
              SaveEvent(k, e) \/ Publish(k, e) \/ MarkPublished(k, e)
         \/ Restart
         \/ \E e \in Emitted : Consume(e) \/ ConsumeUnacknowledged(e) \/ ConsumeFails(e)
         \/ \E c \in Credentials : Reported(c)
  BY DEF Next, Handle, Reported

\* The fields of an event in the log.
LEMMA EventOf ==
  ASSUME TypeOK, NEW e \in Emitted
  PROVE  /\ e \in Events
         /\ log[e].kind \in Kinds
         /\ log[e].credential \in Credentials
         /\ log[e].block \in Nat
<1>1. log \in Seq(Event) /\ e \in Events
  BY DEF TypeOK, Event
<1>2. log[e] \in Event
  BY <1>1 DEF Emitted
<1> QED
  BY <1>1, <1>2 DEF Event

\* What emitting does to the log.
LEMMA Emission ==
  ASSUME TypeOK, NEW kind \in Kinds, NEW c \in Credentials, Emit(kind, c)
  PROVE  /\ log' \in Seq(Event)
         /\ Emitted' = Emitted \cup {Len(log) + 1}
         /\ Emitted' \subseteq Events
         /\ Len(log) + 1 \notin Emitted
         /\ \A e \in Emitted : e < Len(log) + 1
         /\ \A e \in Emitted : log'[e] = log[e]
         /\ log'[Len(log) + 1] = [kind |-> kind, credential |-> c, block |-> tip + 1]
<1> DEFINE event == [kind |-> kind, credential |-> c, block |-> tip + 1]
<1>1. log \in Seq(Event) /\ event \in Event
  BY DEF TypeOK, Event
<1>2. Len(log) \in Nat /\ Len(log) < MaxEvents /\ log' = Append(log, event)
  BY <1>1 DEF Emit
<1> HIDE DEF event
<1>3. /\ log' \in Seq(Event)
      /\ DOMAIN log' = 1 .. Len(log) + 1
      /\ DOMAIN log = 1 .. Len(log)
      /\ \A e \in 1 .. Len(log) : log'[e] = log[e]
      /\ log'[Len(log) + 1] = event
  BY <1>1, <1>2
<1>4. /\ Emitted' = Emitted \cup {Len(log) + 1}
      /\ Len(log) + 1 \notin Emitted
      /\ \A e \in Emitted : e < Len(log) + 1
  BY <1>2, <1>3 DEF Emitted
<1>5. Emitted' \subseteq Events
  BY <1>2, <1>3, SyncAssumption DEF Emitted, Events
<1> QED
  BY <1>3, <1>4, <1>5 DEF event, Emitted

\* The values of the variables keep their types.
THEOREM SyncTypeCorrect == FairSpec => []TypeOK
<1>1. Init => TypeOK
  BY SyncAssumption DEF Init, TypeOK, Statuses, Kinds, Events, Emitted
<1>2. TypeOK /\ [Next]_vars => TypeOK'
  <2> SUFFICES ASSUME TypeOK, [Next]_vars PROVE TypeOK'
    OBVIOUS
  <2>1. CASE UNCHANGED vars
    BY <2>1 DEF TypeOK, rowVars, vars, chainVars, workerVars, tableVars, Emitted
  <2>2. ASSUME NEW c \in Credentials, Record(c) \/ Reactivate(c)
        PROVE  TypeOK'
    BY <2>2 DEF TypeOK, rowVars, Record, Reactivate, workerVars, tableVars, Emitted, Statuses
  <2>3. ASSUME NEW c \in Credentials, Suspend(c) \/ Revoke(c)
        PROVE  TypeOK'
    <3>1. PICK kind \in Kinds : Emit(kind, c)
      BY <2>3 DEF Suspend, Revoke, Kinds
    <3>2. /\ log' \in Seq(Event)
          /\ Emitted' \subseteq Events
          /\ Emitted \subseteq Emitted'
      BY <3>1, Emission
    <3>3. chain' \in [Credentials -> Statuses \cup {"None"}]
      BY <2>3 DEF Suspend, Revoke, TypeOK, Statuses
    <3> QED
      BY <3>1, <3>2, <3>3 DEF TypeOK, rowVars, Emit, workerVars, tableVars, Event
  <2>4. CASE Mine
    BY <2>4 DEF TypeOK, rowVars, Mine, workerVars, tableVars, Emitted
  <2>5. ASSUME NEW k \in Kinds,
               Start(k) \/ StartFails(k) \/ Poll(k) \/ HandlerFails(k)
        PROVE  TypeOK'
    <3>1. CASE Start(k)
      BY <3>1 DEF TypeOK, rowVars, Start, chainVars, tableVars, Emitted
    <3>2. CASE StartFails(k)
      BY <3>2, SyncAssumption DEF TypeOK, rowVars, StartFails, Fault, chainVars, tableVars, Emitted
    <3>3. CASE Poll(k)
      <4>1. FetchedLogs(k) \subseteq Emitted
        BY DEF FetchedLogs
      <4> QED
        BY <3>3, <4>1 DEF TypeOK, rowVars, Poll, chainVars, tableVars, Emitted
    <3>4. CASE HandlerFails(k)
      <4>1. Emitted' = Emitted
        BY <3>4 DEF HandlerFails, chainVars, Emitted
      <4> QED
        BY <3>4, <4>1, SyncAssumption DEF TypeOK, rowVars, HandlerFails, Fault, chainVars, tableVars
    <3> QED
      BY <2>5, <3>1, <3>2, <3>3, <3>4
  <2>6. ASSUME NEW k \in Kinds, NEW e \in Emitted,
               SaveEvent(k, e) \/ Publish(k, e) \/ MarkPublished(k, e)
        PROVE  TypeOK'
    <3>1. e \in Events /\ log[e].block \in Nat
      BY EventOf
    <3>2. Emitted' = Emitted
      BY <2>6 DEF SaveEvent, Publish, MarkPublished, chainVars, Emitted
    <3>3. stored[e] + 1 \in Nat /\ inFlight[e] + 1 \in Nat /\ marked[e] + 1 \in Nat
      <4>1. /\ stored \in [Events -> Nat]
            /\ inFlight \in [Events -> Nat]
            /\ marked \in [Events -> Nat]
        BY DEF TypeOK
      <4> QED
        BY <3>1, <4>1
    <3>4. log[e].block + 1 \in Nat
      BY <3>1
    <3>5. CASE SaveEvent(k, e)
      BY <3>2, <3>3, <3>5 DEF TypeOK, rowVars, SaveEvent, chainVars
    <3>6. CASE Publish(k, e)
      BY <3>2, <3>3, <3>6 DEF TypeOK, rowVars, Publish, chainVars, tableVars
    <3>7. CASE MarkPublished(k, e)
      BY <3>2, <3>3, <3>4, <3>7 DEF TypeOK, rowVars, MarkPublished, After, chainVars
    <3> QED
      BY <2>6, <3>5, <3>6, <3>7
  <2>7. CASE Restart
    <3>1. Emitted' = Emitted
      BY <2>7 DEF Restart, chainVars, Emitted
    <3> QED
      BY <2>7, <3>1, SyncAssumption DEF TypeOK, rowVars, Restart, Fault, chainVars, tableVars
  <2>8. ASSUME NEW e \in Emitted,
               Consume(e) \/ ConsumeUnacknowledged(e) \/ ConsumeFails(e)
        PROVE  TypeOK'
    <3>1. e \in Events /\ log[e].kind \in Kinds /\ log[e].credential \in Credentials
      BY EventOf
    <3>2. inFlight' \in [Events -> Nat]
      <4>1. inFlight[e] \in Nat /\ inFlight \in [Events -> Nat]
        BY <3>1 DEF TypeOK
      <4>2. inFlight[e] > 0 => inFlight[e] - 1 \in Nat
        BY <4>1
      <4> QED
        BY <2>8, <4>1, <4>2 DEF Consume, ConsumeUnacknowledged, ConsumeFails
    <3>3. Apply(e) => index' \in [Credentials -> Statuses \cup {"NoRow"}]
      BY <3>1 DEF TypeOK, rowVars, Apply, Write, Statuses, Kinds
    <3>4. index' \in [Credentials -> Statuses \cup {"NoRow"}]
      BY <2>8, <3>3 DEF TypeOK, rowVars, Consume, ConsumeUnacknowledged, ConsumeFails
    <3>5. faults' \in 0 .. MaxFaults
      BY <2>8, SyncAssumption
      DEF TypeOK, rowVars, Consume, ConsumeUnacknowledged, ConsumeFails, Fault
    <3>6. UNCHANGED <<chainVars, workerVars, tableVars, misreported>>
      BY <2>8 DEF rowVars, Consume, ConsumeUnacknowledged, ConsumeFails
    <3> QED
      BY <3>2, <3>4, <3>5, <3>6 DEF TypeOK, rowVars, chainVars, workerVars, tableVars, Emitted
  <2>9. ASSUME NEW c \in Credentials, Reported(c)
        PROVE  TypeOK'
    <3>1. index' \in [Credentials -> Statuses \cup {"NoRow"}]
      <4>1. index \in [Credentials -> Statuses \cup {"NoRow"}]
        BY DEF TypeOK
      <4>2. CASE RecordFromClientTx(c)
        BY <4>1, <4>2 DEF RecordFromClientTx, Statuses
      <4>3. CASE \E tx \in ConfirmedTxs : RecordRevokedFromClientTx(c, tx)
        BY <4>1, <4>3 DEF RecordRevokedFromClientTx, Statuses
      <4> QED
        BY <2>9, <4>2, <4>3 DEF Reported
    <3>2. UNCHANGED <<chainVars, workerVars, tableVars, inFlight, faults>>
      BY <2>9 DEF Reported, RecordFromClientTx, RecordRevokedFromClientTx
    <3>3. misreported' \subseteq Credentials
      BY <2>9 DEF TypeOK, Reported, RecordFromClientTx, RecordRevokedFromClientTx
    <3> QED
      BY <3>1, <3>2, <3>3 DEF TypeOK, chainVars, workerVars, tableVars, Emitted
  <2> QED
    BY <2>1, <2>2, <2>3, <2>4, <2>5, <2>6, <2>7, <2>8, <2>9, Steps
<1> QED
  BY <1>1, <1>2, PTL DEF FairSpec, Spec

-----------------------------------------------------------------------------
(* No event is skipped *)

\* Blocks are numbered in the order their events were emitted.
BlocksInOrder ==
  /\ \A e \in Emitted : log[e].block <= tip + 1
  /\ \A d, e \in Emitted : d <= e => log[d].block <= log[e].block

\* What a batch holds, and what came before it.
BatchesInOrder ==
  \A k \in Kinds :
    /\ fromBlock[k] <= tip + 1
    /\ \A e \in batch[k] :
         /\ mode[k] = "listening"
         /\ log[e].kind = k
         /\ log[e].block <= tip
         /\ log[e].block >= fromBlock[k] \/ Follower(e)
         /\ \A d \in Emitted :
              d < e /\ log[d].kind = k /\ log[d].block >= since[k]
                => d \in batch[k] \/ marked[d] > 0 \/ Follower(d)

Accounting == BlocksInOrder /\ BatchesInOrder /\ EveryEventAccountedFor

\* A step that touches neither the log nor a subscription.
LEMMA AccountingElsewhere ==
  ASSUME Accounting, UNCHANGED <<log, tip, mode, fromBlock, batch, since, marked>>
  PROVE  Accounting'
BY DEF Accounting, BlocksInOrder, BatchesInOrder, EveryEventAccountedFor, Follower, Emitted

\* A new event lies ahead of both cursors.
LEMMA AccountingEmit ==
  ASSUME TypeOK, Accounting, NEW kind \in Kinds, NEW c \in Credentials, Emit(kind, c)
  PROVE  Accounting'
<1> DEFINE new == Len(log) + 1
<1>1. /\ Emitted' = Emitted \cup {new}
      /\ new \notin Emitted
      /\ \A e \in Emitted : e < new /\ log'[e] = log[e]
      /\ log'[new] = [kind |-> kind, credential |-> c, block |-> tip + 1]
  BY Emission
<1>2. UNCHANGED <<tip, mode, fromBlock, batch, since, marked>>
  BY DEF Emit, workerVars, tableVars
<1>3. /\ Emitted \subseteq Nat
      /\ tip \in Nat
      /\ \A k \in Kinds : batch[k] \subseteq Emitted
      /\ new \in Nat
  BY DEF TypeOK, Events, Emitted
<1>4. \A e \in Emitted : Follower(e) => Follower(e)'
  BY <1>1 DEF Follower
<1>5. \A e \in Emitted : log[e].block \in Nat
  BY EventOf
<1> HIDE DEF new
<1>6. BlocksInOrder'
  <2>1. ASSUME NEW e \in Emitted'
        PROVE  log'[e].block <= tip' + 1
    <3>1. CASE e = new
      BY <3>1, <1>1, <1>2, <1>3
    <3>2. CASE e # new
      BY <3>2, <1>1, <1>2 DEF Accounting, BlocksInOrder
    <3> QED
      BY <3>1, <3>2
  <2>2. ASSUME NEW d \in Emitted', NEW e \in Emitted', d <= e
        PROVE  log'[d].block <= log'[e].block
    <3>1. CASE e = new
      BY <2>1, <3>1, <1>1, <1>2
    <3>2. CASE e # new
      <4>1. e \in Emitted /\ d \in Emitted
        BY <1>1, <1>3, <2>2, <3>2
      <4> QED
        BY <4>1, <1>1, <2>2 DEF Accounting, BlocksInOrder
    <3> QED
      BY <3>1, <3>2
  <2> QED
    BY <2>1, <2>2 DEF BlocksInOrder
<1>7. BatchesInOrder'
  <2> SUFFICES ASSUME NEW k \in Kinds
               PROVE  (/\ fromBlock[k] <= tip + 1
                       /\ \A e \in batch[k] :
                            /\ mode[k] = "listening"
                            /\ log[e].kind = k
                            /\ log[e].block <= tip
                            /\ log[e].block >= fromBlock[k] \/ Follower(e)
                            /\ \A d \in Emitted :
                                 d < e /\ log[d].kind = k /\ log[d].block >= since[k]
                                   => d \in batch[k] \/ marked[d] > 0 \/ Follower(d))'
    BY DEF BatchesInOrder
  <2>1. (fromBlock[k] <= tip + 1)'
    BY <1>2 DEF Accounting, BatchesInOrder
  <2>2. ASSUME NEW e \in batch'[k]
        PROVE  (/\ mode[k] = "listening"
                /\ log[e].kind = k
                /\ log[e].block <= tip
                /\ log[e].block >= fromBlock[k] \/ Follower(e))'
    BY <1>1, <1>2, <1>3, <1>4 DEF Accounting, BatchesInOrder
  <2>3. ASSUME NEW e \in batch'[k], NEW d \in Emitted', d < e,
               log'[d].kind = k, log'[d].block >= since'[k]
        PROVE  (d \in batch[k] \/ marked[d] > 0 \/ Follower(d))'
    <3>1. e \in batch[k] /\ e \in Emitted
      BY <1>2, <1>3, <2>3
    <3>2. e < new /\ e \in Nat
      BY <3>1, <1>1, <1>3
    <3>3. d # new
      BY <3>2, <2>3, <1>3
    <3>4. d \in Emitted
      BY <3>3, <2>3, <1>1
    <3> QED
      BY <3>1, <3>4, <2>3, <1>1, <1>2, <1>4 DEF Accounting, BatchesInOrder
  <2> QED
    BY <2>1, <2>2, <2>3
<1>8. EveryEventAccountedFor'
  <2> SUFFICES ASSUME NEW e \in Emitted',
                      mode'[log'[e].kind] = "listening",
                      log'[e].block >= since'[log'[e].kind]
               PROVE  (\/ log[e].block >= fromBlock[log[e].kind]
                       \/ e \in batch[log[e].kind]
                       \/ marked[e] > 0
                       \/ Follower(e))'
    BY DEF EveryEventAccountedFor
  <2>1. CASE e = new
    BY <2>1, <1>1, <1>2 DEF Accounting, BatchesInOrder
  <2>2. CASE e # new
    BY <2>2, <1>1, <1>2, <1>4 DEF Accounting, EveryEventAccountedFor
  <2> QED
    BY <2>1, <2>2
<1> QED
  BY <1>6, <1>7, <1>8 DEF Accounting

\* Mining a block takes no event from its place.
LEMMA AccountingMine ==
  ASSUME TypeOK, Accounting, Mine
  PROVE  Accounting'
<1>1. tip \in Nat /\ fromBlock \in [Kinds -> Nat] /\ batch \in [Kinds -> SUBSET Emitted]
  BY DEF TypeOK
<1>2. tip' = tip + 1 /\ UNCHANGED <<log, mode, fromBlock, batch, since, marked>>
  BY DEF Mine, workerVars, tableVars
<1>3. Emitted' = Emitted /\ \A e \in Emitted : Follower(e)' <=> Follower(e)
  BY <1>2 DEF Emitted, Follower
<1>4. \A e \in Emitted : log[e].block \in Nat
  BY EventOf
<1>5. BlocksInOrder'
  BY <1>1, <1>2, <1>3, <1>4 DEF Accounting, BlocksInOrder
<1>6. BatchesInOrder'
  <2> SUFFICES ASSUME NEW k \in Kinds
               PROVE  (/\ fromBlock[k] <= tip + 1
                       /\ \A e \in batch[k] :
                            /\ mode[k] = "listening"
                            /\ log[e].kind = k
                            /\ log[e].block <= tip
                            /\ log[e].block >= fromBlock[k] \/ Follower(e)
                            /\ \A d \in Emitted :
                                 d < e /\ log[d].kind = k /\ log[d].block >= since[k]
                                   => d \in batch[k] \/ marked[d] > 0 \/ Follower(d))'
    BY DEF BatchesInOrder
  <2>1. fromBlock[k] <= tip + 1 /\ batch[k] \subseteq Emitted
    BY <1>1 DEF Accounting, BatchesInOrder
  <2>2. \A e \in batch[k] : log[e].block <= tip
    BY DEF Accounting, BatchesInOrder
  <2>3. (fromBlock[k] <= tip + 1)'
    BY <1>1, <1>2, <2>1
  <2>4. \A e \in batch[k] : log[e].block <= tip + 1
    BY <1>1, <1>4, <2>1, <2>2
  <2> QED
    BY <1>2, <1>3, <2>1, <2>3, <2>4 DEF Accounting, BatchesInOrder
<1>7. EveryEventAccountedFor'
  BY <1>2, <1>3 DEF Accounting, EveryEventAccountedFor
<1> QED
  BY <1>5, <1>6, <1>7 DEF Accounting

\* Steps that start, stop, fail or restart a subscription.
LEMMA AccountingControl ==
  ASSUME TypeOK, Accounting, NEW k \in Kinds,
         Start(k) \/ StartFails(k) \/ HandlerFails(k) \/ Restart
  PROVE  Accounting'
<1>1. /\ tip \in Nat
      /\ fromBlock \in [Kinds -> Nat]
      /\ since \in [Kinds -> Nat]
      /\ mode \in [Kinds -> {"starting", "listening", "dead"}]
      /\ batch \in [Kinds -> SUBSET Emitted]
  BY DEF TypeOK
<1>2. UNCHANGED <<log, tip, marked>>
  BY DEF Start, StartFails, HandlerFails, Restart, chainVars, tableVars
<1>3. Emitted' = Emitted /\ \A e \in Emitted : Follower(e)' <=> Follower(e)
  BY <1>2 DEF Emitted, Follower
<1>4. \A e \in Emitted : log[e].block \in Nat
  BY EventOf
<1>5. BlocksInOrder'
  BY <1>2, <1>3 DEF Accounting, BlocksInOrder
<1>6. CASE Start(k)
  <2>1. /\ mode[k] = "starting"
        /\ mode' = [mode EXCEPT ![k] = "listening"]
        /\ fromBlock' = [fromBlock EXCEPT ![k] = tip]
        /\ since' = [since EXCEPT ![k] = tip]
        /\ batch' = batch
    BY <1>6 DEF Start
  <2>2. batch[k] = {}
    BY <2>1 DEF Accounting, BatchesInOrder
  <2>3. BatchesInOrder'
    BY <1>1, <1>2, <1>3, <2>1, <2>2 DEF Accounting, BatchesInOrder
  <2>4. EveryEventAccountedFor'
    BY <1>1, <1>2, <1>3, <2>1 DEF Accounting, EveryEventAccountedFor
  <2> QED
    BY <1>5, <2>3, <2>4 DEF Accounting
<1>7. CASE StartFails(k)
  <2>1. /\ mode[k] = "starting"
        /\ mode' = [mode EXCEPT ![k] = "dead"]
        /\ UNCHANGED <<fromBlock, since, batch>>
    BY <1>7 DEF StartFails
  <2>2. batch[k] = {}
    BY <2>1 DEF Accounting, BatchesInOrder
  <2>3. BatchesInOrder'
    BY <1>1, <1>2, <1>3, <2>1, <2>2 DEF Accounting, BatchesInOrder
  <2>4. EveryEventAccountedFor'
    BY <1>1, <1>2, <1>3, <2>1 DEF Accounting, EveryEventAccountedFor
  <2> QED
    BY <1>5, <2>3, <2>4 DEF Accounting
<1>8. CASE HandlerFails(k)
  <2>1. /\ batch' = [batch EXCEPT ![k] = {}]
        /\ UNCHANGED <<mode, fromBlock, since>>
    BY <1>8 DEF HandlerFails
  <2>2. BatchesInOrder'
    BY <1>1, <1>2, <1>3, <2>1 DEF Accounting, BatchesInOrder
  <2>3. EveryEventAccountedFor'
    <3> SUFFICES ASSUME NEW e \in Emitted,
                        mode[log[e].kind] = "listening",
                        log[e].block >= since[log[e].kind],
                        ~(marked[e] > 0),
                        ~Follower(e)
                 PROVE  log[e].block >= fromBlock[log[e].kind]
      BY <1>2, <1>3, <2>1 DEF EveryEventAccountedFor
    <3>1. log[e].kind \in Kinds
      BY EventOf
    <3> QED
      BY <3>1, <1>1, <2>1 DEF Accounting, BatchesInOrder, EveryEventAccountedFor
  <2> QED
    BY <1>5, <2>2, <2>3 DEF Accounting
<1>9. CASE Restart
  <2>1. /\ mode' = [j \in Kinds |-> "starting"]
        /\ fromBlock' = [j \in Kinds |-> 0]
        /\ batch' = [j \in Kinds |-> {}]
    BY <1>9 DEF Restart
  <2>2. BatchesInOrder'
    BY <1>1, <1>2, <2>1 DEF BatchesInOrder
  <2>3. EveryEventAccountedFor'
    <3>1. \A e \in Emitted : log[e].kind \in Kinds
      BY EventOf
    <3> QED
      BY <1>2, <1>3, <2>1, <3>1 DEF EveryEventAccountedFor
  <2> QED
    BY <1>5, <2>2, <2>3 DEF Accounting
<1> QED
  BY <1>6, <1>7, <1>8, <1>9

\* A poll takes everything between the cursor and the last block.
LEMMA AccountingPoll ==
  ASSUME TypeOK, Accounting, NEW k \in Kinds, Poll(k)
  PROVE  Accounting'
<1>1. /\ tip \in Nat
      /\ fromBlock \in [Kinds -> Nat]
      /\ since \in [Kinds -> Nat]
      /\ batch \in [Kinds -> SUBSET Emitted]
  BY DEF TypeOK
<1>2. /\ UNCHANGED <<log, tip, marked, mode, fromBlock, since>>
      /\ mode[k] = "listening"
      /\ batch[k] = {}
      /\ batch' = [batch EXCEPT ![k] = FetchedLogs(k)]
  BY DEF Poll, chainVars, tableVars
<1>3. Emitted' = Emitted /\ \A e \in Emitted : Follower(e)' <=> Follower(e)
  BY <1>2 DEF Emitted, Follower
<1>4. \A e \in Emitted : e \in Nat /\ log[e].block \in Nat /\ log[e].kind \in Kinds
  BY EventOf DEF Events
<1>5. \A e : e \in FetchedLogs(k) <=>
        e \in Emitted /\ log[e].kind = k /\ fromBlock[k] <= log[e].block /\ log[e].block <= tip
  BY <1>1, <1>4 DEF FetchedLogs
<1>6. BlocksInOrder'
  BY <1>2, <1>3 DEF Accounting, BlocksInOrder
<1>7. \A j \in Kinds : j # k => batch'[j] = batch[j]
  BY <1>1, <1>2
<1>8. batch'[k] = FetchedLogs(k)
  BY <1>1, <1>2
<1>9. BatchesInOrder'
  <2>1. ASSUME NEW e \in FetchedLogs(k), NEW d \in Emitted, d < e,
               log[d].kind = k, log[d].block >= since[k]
        PROVE  d \in FetchedLogs(k) \/ marked[d] > 0 \/ Follower(d)
    <3>1. log[d].block >= fromBlock[k] \/ marked[d] > 0 \/ Follower(d)
      BY <1>2, <2>1 DEF Accounting, EveryEventAccountedFor
    <3>2. e \in Nat /\ d \in Nat /\ e \in Emitted
      BY <1>4, <1>5, <2>1
    <3>3. log[d].block <= log[e].block
      BY <2>1, <3>2 DEF Accounting, BlocksInOrder
    <3>4. log[d].block <= tip
      <4>1. log[e].block <= tip
        BY <1>5
      <4>2. log[d].block \in Nat /\ log[e].block \in Nat
        BY <1>4, <3>2
      <4> QED
        BY <3>3, <4>1, <4>2, <1>1
    <3> QED
      BY <3>1, <3>4, <1>1, <1>4, <1>5, <2>1
  <2>2. ASSUME NEW j \in Kinds
        PROVE  (/\ fromBlock[j] <= tip + 1
                /\ \A e \in batch[j] :
                     /\ mode[j] = "listening"
                     /\ log[e].kind = j
                     /\ log[e].block <= tip
                     /\ log[e].block >= fromBlock[j] \/ Follower(e)
                     /\ \A d \in Emitted :
                          d < e /\ log[d].kind = j /\ log[d].block >= since[j]
                            => d \in batch[j] \/ marked[d] > 0 \/ Follower(d))'
    <3>1. CASE j = k
      BY <3>1, <1>2, <1>3, <1>5, <1>8, <2>1 DEF Accounting, BatchesInOrder
    <3>2. CASE j # k
      <4>1. batch[j] \subseteq Emitted
        BY <1>1
      <4> QED
        BY <3>2, <4>1, <1>2, <1>3, <1>7 DEF Accounting, BatchesInOrder
    <3> QED
      BY <3>1, <3>2
  <2> QED
    BY <2>2 DEF BatchesInOrder
<1>10. EveryEventAccountedFor'
  <2>1. \A j \in Kinds : batch[j] \subseteq batch'[j]
    BY <1>2, <1>7
  <2> QED
    BY <1>2, <1>3, <1>4, <2>1 DEF Accounting, EveryEventAccountedFor
<1> QED
  BY <1>6, <1>9, <1>10 DEF Accounting

\* The cursor moves past the block of the event that was handled.  Those of its
\* block that still wait in the batch are followers from here on.
LEMMA AccountingMark ==
  ASSUME TypeOK, Accounting, NEW k \in Kinds, NEW e \in Emitted, MarkPublished(k, e)
  PROVE  Accounting'
<1>1. /\ tip \in Nat
      /\ fromBlock \in [Kinds -> Nat]
      /\ since \in [Kinds -> Nat]
      /\ batch \in [Kinds -> SUBSET Emitted]
      /\ marked \in [Events -> Nat]
  BY DEF TypeOK
<1>2. /\ UNCHANGED <<log, tip, mode, since>>
      /\ e \in batch[k]
      /\ \A d \in batch[k] : e <= d
      /\ batch' = [batch EXCEPT ![k] = @ \ {e}]
      /\ marked' = [marked EXCEPT ![e] = @ + 1]
      /\ fromBlock' = [fromBlock EXCEPT ![k] = log[e].block + 1]
  BY DEF MarkPublished, Handling, After, chainVars
<1>3. Emitted' = Emitted /\ \A d \in Emitted : Follower(d)' <=> Follower(d)
  BY <1>2 DEF Emitted, Follower
<1>4. \A d \in Emitted : d \in Events /\ d \in Nat /\ log[d].block \in Nat /\ log[d].kind \in Kinds
  BY EventOf DEF Events
<1>5. marked'[e] > 0 /\ \A d \in Emitted : marked[d] > 0 => marked'[d] > 0
  BY <1>1, <1>2, <1>4
<1>6. \A j \in Kinds : j # k => batch'[j] = batch[j] /\ fromBlock'[j] = fromBlock[j]
  BY <1>1, <1>2
<1>7. batch'[k] = batch[k] \ {e} /\ fromBlock'[k] = log[e].block + 1
  BY <1>1, <1>2
<1>8. log[e].kind = k /\ log[e].block <= tip
  BY <1>2 DEF Accounting, BatchesInOrder
<1>9. BlocksInOrder'
  BY <1>2, <1>3 DEF Accounting, BlocksInOrder
<1>10. ASSUME NEW d \in Emitted, d > e, log[d].kind = k
       PROVE  log[d].block >= log[e].block + 1 \/ Follower(d)
  <2>1. log[e].block <= log[d].block
    BY <1>4, <1>10 DEF Accounting, BlocksInOrder
  <2>2. CASE log[e].block = log[d].block
    BY <2>2, <1>4, <1>8, <1>10 DEF Follower
  <2>3. CASE log[e].block # log[d].block
    BY <2>1, <2>3, <1>4
  <2> QED
    BY <2>2, <2>3
<1>11. BatchesInOrder'
  <2>1. ASSUME NEW j \in Kinds
        PROVE  (/\ fromBlock[j] <= tip + 1
                /\ \A f \in batch[j] :
                     /\ mode[j] = "listening"
                     /\ log[f].kind = j
                     /\ log[f].block <= tip
                     /\ log[f].block >= fromBlock[j] \/ Follower(f)
                     /\ \A d \in Emitted :
                          d < f /\ log[d].kind = j /\ log[d].block >= since[j]
                            => d \in batch[j] \/ marked[d] > 0 \/ Follower(d))'
    <3>1. CASE j # k
      <4>1. batch[j] \subseteq Emitted
        BY <1>1
      <4> QED
        BY <3>1, <4>1, <1>2, <1>3, <1>5, <1>6 DEF Accounting, BatchesInOrder
    <3>2. CASE j = k
      <4>1. fromBlock'[k] <= tip' + 1
        BY <1>1, <1>2, <1>4, <1>7, <1>8
      <4>2. ASSUME NEW f \in batch'[k]
            PROVE  /\ f \in batch[k] /\ f \in Emitted
                   /\ log[f].kind = k
                   /\ log[f].block >= log[e].block + 1 \/ Follower(f)
        <5>1. f \in batch[k] /\ f # e /\ f \in Emitted
          BY <4>2, <1>1, <1>7
        <5>2. f > e
          BY <5>1, <1>2, <1>4
        <5>3. log[f].kind = k
          BY <5>1 DEF Accounting, BatchesInOrder
        <5> QED
          BY <5>1, <5>2, <5>3, <1>10
      <4>3. ASSUME NEW f \in batch'[k], NEW d \in Emitted, d < f,
                   log[d].kind = k, log[d].block >= since[k]
            PROVE  d \in batch'[k] \/ marked'[d] > 0 \/ Follower(d)
        <5>1. d \in batch[k] \/ marked[d] > 0 \/ Follower(d)
          BY <4>2, <4>3 DEF Accounting, BatchesInOrder
        <5> QED
          BY <5>1, <1>5, <1>7
      <4> QED
        BY <3>2, <4>1, <4>2, <4>3, <1>2, <1>3, <1>7 DEF Accounting, BatchesInOrder
    <3> QED
      BY <3>1, <3>2
  <2> QED
    BY <2>1 DEF BatchesInOrder
<1>12. EveryEventAccountedFor'
  <2> SUFFICES ASSUME NEW d \in Emitted,
                      mode[log[d].kind] = "listening",
                      log[d].block >= since[log[d].kind]
               PROVE  \/ log[d].block >= fromBlock'[log[d].kind]
                      \/ d \in batch'[log[d].kind]
                      \/ marked'[d] > 0
                      \/ Follower(d)
    BY <1>2, <1>3 DEF EveryEventAccountedFor
  <2>1. \/ log[d].block >= fromBlock[log[d].kind]
        \/ d \in batch[log[d].kind]
        \/ marked[d] > 0
        \/ Follower(d)
    BY DEF Accounting, EveryEventAccountedFor
  <2>2. CASE log[d].kind # k
    BY <2>1, <2>2, <1>4, <1>5, <1>6
  <2>3. CASE log[d].kind = k
    <3>1. CASE d < e
      <4>1. d \in batch[k] \/ marked[d] > 0 \/ Follower(d)
        BY <2>3, <3>1, <1>2 DEF Accounting, BatchesInOrder
      <4>2. d \notin batch[k]
        BY <3>1, <1>2, <1>4
      <4> QED
        BY <4>1, <4>2, <1>5
    <3>2. CASE d = e
      BY <3>2, <1>5
    <3>3. CASE d > e
      BY <2>3, <3>3, <1>7, <1>10
    <3> QED
      BY <3>1, <3>2, <3>3, <1>4
  <2> QED
    BY <2>2, <2>3
<1> QED
  BY <1>9, <1>11, <1>12 DEF Accounting

\* A running subscription skips no event, for any number of failures and restarts.
THEOREM NoEventIsSkipped == FairSpec => []EveryEventAccountedFor
<1>1. Init => Accounting
  BY DEF Init, Accounting, BlocksInOrder, BatchesInOrder, EveryEventAccountedFor, Emitted
<1>2. TypeOK /\ Accounting /\ [Next]_vars => Accounting'
  <2> SUFFICES ASSUME TypeOK, Accounting, [Next]_vars PROVE Accounting'
    OBVIOUS
  <2>1. CASE UNCHANGED vars
    BY <2>1, AccountingElsewhere DEF vars, chainVars, workerVars, tableVars
  <2>2. ASSUME NEW c \in Credentials, Suspend(c) \/ Revoke(c)
        PROVE  Accounting'
    <3>1. PICK kind \in Kinds : Emit(kind, c)
      BY <2>2 DEF Suspend, Revoke, Kinds
    <3> QED
      BY <3>1, AccountingEmit
  <2>3. CASE Mine
    BY <2>3, AccountingMine
  <2>4. ASSUME NEW k \in Kinds, Start(k) \/ StartFails(k) \/ HandlerFails(k)
        PROVE  Accounting'
    BY <2>4, AccountingControl
  <2>5. CASE Restart
    <3>1. "Revoked" \in Kinds
      BY DEF Kinds
    <3> QED
      BY <2>5, <3>1, AccountingControl
  <2>6. ASSUME NEW k \in Kinds, Poll(k)
        PROVE  Accounting'
    BY <2>6, AccountingPoll
  <2>7. ASSUME NEW k \in Kinds, NEW e \in Emitted, MarkPublished(k, e)
        PROVE  Accounting'
    BY <2>7, AccountingMark
  <2>8. ASSUME NEW c \in Credentials,
               Record(c) \/ Reactivate(c) \/ Reported(c)
        PROVE  Accounting'
    <3>1. UNCHANGED <<log, tip, mode, fromBlock, batch, since, marked>>
      BY <2>8
      DEF Record, Reactivate, Reported, RecordFromClientTx, RecordRevokedFromClientTx, chainVars,
          workerVars, tableVars
    <3> QED
      BY <3>1, AccountingElsewhere
  <2>9. ASSUME NEW e \in Emitted,
               \/ \E k \in Kinds : SaveEvent(k, e) \/ Publish(k, e)
               \/ Consume(e) \/ ConsumeUnacknowledged(e) \/ ConsumeFails(e)
        PROVE  Accounting'
    <3>1. UNCHANGED <<log, tip, mode, fromBlock, batch, since, marked>>
      BY <2>9
      DEF SaveEvent, Publish, Consume, ConsumeUnacknowledged, ConsumeFails, chainVars,
          workerVars, tableVars
    <3> QED
      BY <3>1, AccountingElsewhere
  <2> QED
    BY <2>1, <2>2, <2>3, <2>4, <2>5, <2>6, <2>7, <2>8, <2>9, Steps
<1>3. Accounting => EveryEventAccountedFor
  BY DEF Accounting
<1>4. FairSpec => []TypeOK
  BY SyncTypeCorrect
<1> QED
  BY <1>1, <1>2, <1>3, <1>4, PTL DEF FairSpec, Spec

-----------------------------------------------------------------------------
(* The rows follow the chain *)

\* What an event in the log, and a message about it, say of the chain.
EventsAreTrue ==
  /\ \A e \in Emitted :
       /\ chain[log[e].credential] # "None"
       /\ log[e].kind = "Revoked" => chain[log[e].credential] = "Revoked"
  /\ \A k \in Kinds : \A e \in batch[k] : log[e].block <= tip
  /\ \A e \in Emitted : inFlight[e] > 0 => log[e].block <= tip
  /\ \A e \in Events : e \notin Emitted => inFlight[e] = 0

RowsInv == EventsAreTrue /\ RowsFollowTheChain

\* A step that changes neither the chain nor a row, and adds no message.
LEMMA RowsElsewhere ==
  ASSUME TypeOK, RowsInv, UNCHANGED <<chain, log, tip, index, misreported>>,
         \A e \in Events : inFlight'[e] > 0 => inFlight[e] > 0,
         \A e \in Events : inFlight[e] = 0 => inFlight'[e] = 0,
         \A k \in Kinds : \A e \in batch'[k] : log[e].block <= tip
  PROVE  RowsInv'
<1>1. Emitted' = Emitted /\ Emitted \subseteq Events
  BY DEF TypeOK, Emitted
<1>2. EventsAreTrue'
  BY <1>1 DEF RowsInv, EventsAreTrue
<1>3. RowsFollowTheChain'
  BY <1>1 DEF RowsInv, RowsFollowTheChain
<1> QED
  BY <1>2, <1>3 DEF RowsInv

\* Recording and reactivating on chain move no row and emit no event.
LEMMA RowsChain ==
  ASSUME TypeOK, RowsInv, NEW c \in Credentials, Record(c) \/ Reactivate(c)
  PROVE  RowsInv'
<1>1. /\ UNCHANGED <<log, tip, index, misreported, inFlight, batch>>
      /\ chain \in [Credentials -> Statuses \cup {"None"}]
      /\ chain[c] \in {"None", "Suspended"}
      /\ chain' = [chain EXCEPT ![c] = "Active"]
  BY DEF Record, Reactivate, workerVars, rowVars, TypeOK
<1>2. Emitted' = Emitted /\ \A e \in Emitted : log[e].credential \in Credentials
  BY <1>1, EventOf DEF Emitted
<1>3. EventsAreTrue'
  BY <1>1, <1>2 DEF RowsInv, EventsAreTrue
<1>4. RowsFollowTheChain'
  BY <1>1, <1>2 DEF RowsInv, RowsFollowTheChain
<1> QED
  BY <1>3, <1>4 DEF RowsInv

\* A suspension or revocation changes the chain along with the event that tells of it.
LEMMA RowsEmit ==
  ASSUME TypeOK, RowsInv, NEW c \in Credentials, Suspend(c) \/ Revoke(c)
  PROVE  RowsInv'
<1> DEFINE new == Len(log) + 1
<1>1. PICK kind \in Kinds :
        /\ Emit(kind, c)
        /\ chain[c] \in {"Active", "Suspended"}
        /\ chain' = [chain EXCEPT ![c] = kind]
  BY DEF Suspend, Revoke, Kinds
<1>2. /\ UNCHANGED <<tip, index, misreported, inFlight, batch>>
      /\ chain \in [Credentials -> Statuses \cup {"None"}]
      /\ tip \in Nat
      /\ batch \in [Kinds -> SUBSET Emitted]
  BY <1>1 DEF Emit, workerVars, rowVars, TypeOK
<1>3. /\ Emitted' = Emitted \cup {new}
      /\ new \notin Emitted
      /\ new \in Events
      /\ \A e \in Emitted : log'[e] = log[e]
      /\ log'[new] = [kind |-> kind, credential |-> c, block |-> tip + 1]
  BY <1>1, Emission
<1>4. \A e \in Emitted : log[e].credential \in Credentials
  BY EventOf
<1> HIDE DEF new
<1>5. kind # "None" /\ chain'[c] = kind
  BY <1>1, <1>2 DEF Kinds
<1>6. EventsAreTrue'
  <2>1. ASSUME NEW e \in Emitted'
        PROVE  /\ chain'[log'[e].credential] # "None"
               /\ log'[e].kind = "Revoked" => chain'[log'[e].credential] = "Revoked"
    <3>1. CASE e = new
      BY <3>1, <1>3, <1>5
    <3>2. CASE e # new
      BY <3>2, <1>1, <1>2, <1>3, <1>4, <1>5 DEF RowsInv, EventsAreTrue
    <3> QED
      BY <3>1, <3>2
  <2>2. \A k \in Kinds : \A e \in batch'[k] : log'[e].block <= tip'
    BY <1>2, <1>3 DEF RowsInv, EventsAreTrue
  <2>3. inFlight[new] = 0
    BY <1>3 DEF RowsInv, EventsAreTrue
  <2>4. \A e \in Emitted' : inFlight'[e] > 0 => log'[e].block <= tip'
    BY <1>2, <1>3, <2>3 DEF RowsInv, EventsAreTrue
  <2>5. \A e \in Events : e \notin Emitted' => inFlight'[e] = 0
    BY <1>2, <1>3 DEF RowsInv, EventsAreTrue
  <2> QED
    BY <2>1, <2>2, <2>4, <2>5 DEF EventsAreTrue
<1>7. RowsFollowTheChain'
  <2> SUFFICES ASSUME NEW d \in Credentials
               PROVE  (/\ index[d] # "NoRow" => chain[d] # "None"
                       /\ index[d] = "Revoked" => chain[d] = "Revoked" \/ d \in misreported
                       /\ index[d] = "Suspended" =>
                            \E e \in Emitted :
                              /\ log[e].kind = "Suspended"
                              /\ log[e].credential = d
                              /\ log[e].block <= tip)'
    BY DEF RowsFollowTheChain
  <2>1. (index[d] # "NoRow" => chain[d] # "None")'
    BY <1>1, <1>2, <1>5 DEF RowsInv, RowsFollowTheChain
  <2>2. (index[d] = "Revoked" => chain[d] = "Revoked" \/ d \in misreported)'
    BY <1>1, <1>2 DEF RowsInv, RowsFollowTheChain
  <2>3. (index[d] = "Suspended" =>
           \E e \in Emitted :
             /\ log[e].kind = "Suspended"
             /\ log[e].credential = d
             /\ log[e].block <= tip)'
    BY <1>2, <1>3 DEF RowsInv, RowsFollowTheChain
  <2> QED
    BY <2>1, <2>2, <2>3
<1> QED
  BY <1>6, <1>7 DEF RowsInv

\* Mining brings every pending event to the chain's tip.
LEMMA RowsMine ==
  ASSUME TypeOK, RowsInv, Mine
  PROVE  RowsInv'
<1>1. /\ UNCHANGED <<chain, log, index, misreported, inFlight, batch>>
      /\ tip' = tip + 1
      /\ tip \in Nat
      /\ batch \in [Kinds -> SUBSET Emitted]
  BY DEF Mine, workerVars, rowVars, TypeOK
<1>2. Emitted' = Emitted /\ \A e \in Emitted : log[e].block \in Nat
  BY <1>1, EventOf DEF Emitted
<1>3. \A e \in Emitted : log[e].block <= tip => log[e].block <= tip'
  BY <1>1, <1>2
<1>4. EventsAreTrue'
  BY <1>1, <1>2, <1>3 DEF RowsInv, EventsAreTrue
<1>5. RowsFollowTheChain'
  BY <1>1, <1>2, <1>3 DEF RowsInv, RowsFollowTheChain
<1> QED
  BY <1>4, <1>5 DEF RowsInv

\* What is published was fetched, and so was mined.
LEMMA RowsPublish ==
  ASSUME TypeOK, RowsInv, NEW k \in Kinds, NEW e \in Emitted, Publish(k, e)
  PROVE  RowsInv'
<1>1. /\ UNCHANGED <<chain, log, tip, index, misreported, batch>>
      /\ e \in batch[k]
      /\ inFlight' = [inFlight EXCEPT ![e] = @ + 1]
      /\ inFlight \in [Events -> Nat]
  BY DEF Publish, Handling, chainVars, rowVars, TypeOK
<1>2. Emitted' = Emitted /\ e \in Events /\ Emitted \subseteq Events
  BY <1>1, EventOf DEF Emitted, TypeOK
<1>3. log[e].block <= tip
  BY <1>1 DEF RowsInv, EventsAreTrue
<1>4. \A d \in Events : d # e => inFlight'[d] = inFlight[d]
  BY <1>1
<1>5. EventsAreTrue'
  BY <1>1, <1>2, <1>3, <1>4 DEF RowsInv, EventsAreTrue
<1>6. RowsFollowTheChain'
  BY <1>1, <1>2 DEF RowsInv, RowsFollowTheChain
<1> QED
  BY <1>5, <1>6 DEF RowsInv

\* A consumer writes to a row what a mined event told.
LEMMA RowsConsume ==
  ASSUME TypeOK, RowsInv, NEW e \in Emitted,
         Consume(e) \/ ConsumeUnacknowledged(e)
  PROVE  RowsInv'
<1>1. /\ UNCHANGED <<chain, log, tip, batch, misreported>>
      /\ inFlight[e] > 0
      /\ Apply(e)
      /\ inFlight' \in {inFlight, [inFlight EXCEPT ![e] = @ - 1]}
  BY DEF Consume, ConsumeUnacknowledged, chainVars, rowVars, workerVars
<1>2. /\ Emitted' = Emitted
      /\ Emitted \subseteq Events
      /\ e \in Events
      /\ log[e].kind \in Kinds
      /\ log[e].credential \in Credentials
      /\ inFlight \in [Events -> Nat]
      /\ index \in [Credentials -> Statuses \cup {"NoRow"}]
  BY <1>1, EventOf DEF Emitted, TypeOK
<1>3. \A d \in Events : d # e => inFlight'[d] = inFlight[d]
  BY <1>1, <1>2
<1>4. log[e].block <= tip
  BY <1>1 DEF RowsInv, EventsAreTrue
<1>5. EventsAreTrue'
  BY <1>1, <1>2, <1>3, <1>4 DEF RowsInv, EventsAreTrue
<1>6. \A d \in Credentials :
        index'[d] = index[d]
          \/ (d = log[e].credential /\ index[d] # "NoRow" /\ index'[d] = log[e].kind)
  BY <1>1, <1>2 DEF Apply, Write
<1>7. RowsFollowTheChain'
  <2> SUFFICES ASSUME NEW d \in Credentials
               PROVE  /\ index'[d] # "NoRow" => chain[d] # "None"
                      /\ index'[d] = "Revoked" => chain[d] = "Revoked" \/ d \in misreported
                      /\ index'[d] = "Suspended" =>
                           \E f \in Emitted :
                             /\ log[f].kind = "Suspended"
                             /\ log[f].credential = d
                             /\ log[f].block <= tip
    BY <1>1, <1>2 DEF RowsFollowTheChain
  <2>1. CASE index'[d] = index[d]
    BY <2>1 DEF RowsInv, RowsFollowTheChain
  <2>2. CASE d = log[e].credential /\ index'[d] = log[e].kind
    BY <2>2, <1>4 DEF RowsInv, EventsAreTrue
  <2> QED
    BY <2>1, <2>2, <1>6
<1> QED
  BY <1>5, <1>7 DEF RowsInv

\* A report of an issuer writes to a row what is on chain, or misreports.
LEMMA RowsReport ==
  ASSUME TypeOK, RowsInv, NEW c \in Credentials, Reported(c)
  PROVE  RowsInv'
<1>1. UNCHANGED <<chain, log, tip, batch, inFlight>>
  BY DEF Reported, RecordFromClientTx, RecordRevokedFromClientTx, chainVars, workerVars
<1>2. Emitted' = Emitted /\ index \in [Credentials -> Statuses \cup {"NoRow"}]
  BY <1>1 DEF Emitted, TypeOK
<1>3. EventsAreTrue'
  BY <1>1, <1>2 DEF RowsInv, EventsAreTrue
<1>4. /\ chain[c] # "None"
      /\ misreported \subseteq misreported'
      /\ \/ index' = [index EXCEPT ![c] = "Active"]
         \/ /\ index' = [index EXCEPT ![c] = "Revoked"]
            /\ chain[c] = "Revoked" \/ c \in misreported'
  <2>1. CASE RecordFromClientTx(c)
    BY <2>1 DEF RecordFromClientTx
  <2>2. ASSUME NEW tx \in ConfirmedTxs, RecordRevokedFromClientTx(c, tx)
        PROVE  /\ chain[c] # "None"
               /\ misreported \subseteq misreported'
               /\ index' = [index EXCEPT ![c] = "Revoked"]
               /\ chain[c] = "Revoked" \/ c \in misreported'
    <3>1. RevokedBy(c, tx) => chain[c] = "Revoked"
      BY DEF RevokedBy, RowsInv, EventsAreTrue
    <3> QED
      BY <2>2, <3>1 DEF RecordRevokedFromClientTx
  <2> QED
    BY <2>1, <2>2 DEF Reported
<1>5. RowsFollowTheChain'
  BY <1>1, <1>2, <1>4 DEF RowsInv, RowsFollowTheChain
<1> QED
  BY <1>3, <1>5 DEF RowsInv

\* The index never runs ahead of the chain, but for the revocations that were reported
\* with a transaction that did not make them.
THEOREM RowsAlwaysFollowTheChain == FairSpec => []RowsFollowTheChain
<1>1. Init => RowsInv
  BY DEF Init, RowsInv, EventsAreTrue, RowsFollowTheChain, Emitted
<1>2. TypeOK /\ RowsInv /\ [Next]_vars => RowsInv'
  <2> SUFFICES ASSUME TypeOK, RowsInv, [Next]_vars PROVE RowsInv'
    OBVIOUS
  <2>1. inFlight \in [Events -> Nat] /\ batch \in [Kinds -> SUBSET Emitted]
    BY DEF TypeOK
  <2>2. CASE UNCHANGED vars
    BY <2>2, RowsElsewhere DEF vars, chainVars, workerVars, rowVars, RowsInv, EventsAreTrue
  <2>3. ASSUME NEW c \in Credentials, Record(c) \/ Reactivate(c)
        PROVE  RowsInv'
    BY <2>3, RowsChain
  <2>4. ASSUME NEW c \in Credentials, Suspend(c) \/ Revoke(c)
        PROVE  RowsInv'
    BY <2>4, RowsEmit
  <2>5. CASE Mine
    BY <2>5, RowsMine
  <2>6. ASSUME NEW k \in Kinds,
               \/ Start(k) \/ StartFails(k) \/ Poll(k) \/ HandlerFails(k) \/ Restart
               \/ \E e \in Emitted : SaveEvent(k, e) \/ MarkPublished(k, e)
        PROVE  RowsInv'
    <3>1. UNCHANGED <<chain, log, tip, index, misreported, inFlight>>
      BY <2>6
      DEF Start, StartFails, Poll, HandlerFails, Restart, SaveEvent, MarkPublished, chainVars, rowVars
    <3>2. \A e \in FetchedLogs(k) : log[e].block <= tip
      <4>1. \A e \in Emitted : log[e].block \in Nat
        BY EventOf
      <4>2. tip \in Nat /\ fromBlock[k] \in Nat
        BY DEF TypeOK
      <4> QED
        BY <4>1, <4>2 DEF FetchedLogs
    <3>3. \A j \in Kinds : batch'[j] \subseteq batch[j] \/ batch'[j] \subseteq FetchedLogs(k)
      BY <2>1, <2>6
      DEF Start, StartFails, Poll, HandlerFails, Restart, SaveEvent, MarkPublished
    <3>4. \A j \in Kinds : \A e \in batch'[j] : log[e].block <= tip
      BY <3>2, <3>3 DEF RowsInv, EventsAreTrue
    <3> QED
      BY <3>1, <3>4, RowsElsewhere
  <2>7. CASE Restart
    <3>1. "Revoked" \in Kinds
      BY DEF Kinds
    <3> QED
      BY <2>6, <2>7, <3>1
  <2>8. ASSUME NEW k \in Kinds, NEW e \in Emitted, Publish(k, e)
        PROVE  RowsInv'
    BY <2>8, RowsPublish
  <2>9. ASSUME NEW e \in Emitted, Consume(e) \/ ConsumeUnacknowledged(e)
        PROVE  RowsInv'
    BY <2>9, RowsConsume
  <2>10. ASSUME NEW e \in Emitted, ConsumeFails(e)
         PROVE  RowsInv'
    <3>1. /\ UNCHANGED <<chain, log, tip, index, misreported, batch>>
          /\ inFlight[e] > 0
          /\ inFlight' = [inFlight EXCEPT ![e] = @ - 1]
      BY <2>10 DEF ConsumeFails, chainVars, rowVars, workerVars
    <3>2. \A d \in Events : d # e => inFlight'[d] = inFlight[d]
      BY <2>1, <3>1
    <3> QED
      BY <3>1, <3>2, RowsElsewhere DEF RowsInv, EventsAreTrue
  <2>11. ASSUME NEW c \in Credentials, Reported(c)
         PROVE  RowsInv'
    BY <2>11, RowsReport
  <2> QED
    BY <2>2, <2>3, <2>4, <2>5, <2>6, <2>7, <2>8, <2>9, <2>10, <2>11, Steps
<1>3. RowsInv => RowsFollowTheChain
  BY DEF RowsInv
<1> QED
  BY <1>1, <1>2, <1>3, SyncTypeCorrect, PTL DEF FairSpec, Spec

\* No order, duplication or loss of messages and reports makes a row Active again.
THEOREM RowsNeverActiveAgain == FairSpec => NeverActiveAgain
<1> DEFINE Left ==
      \A c \in Credentials :
        index[c] \in {"Suspended", "Revoked"} => index'[c] \in {"Suspended", "Revoked"}
<1>1. TypeOK /\ [Next]_vars => [Left]_vars
  <2> SUFFICES ASSUME TypeOK, Next PROVE Left
    OBVIOUS
  <2>1. index \in [Credentials -> Statuses \cup {"NoRow"}]
    BY DEF TypeOK
  <2>2. ASSUME NEW e \in Emitted, Apply(e)
        PROVE  Left
    <3>1. log[e].kind \in Kinds
      BY EventOf
    <3> QED
      BY <2>1, <2>2, <3>1 DEF Apply, Write, Kinds
  <2>3. ASSUME NEW c \in Credentials, Reported(c)
        PROVE  Left
    BY <2>1, <2>3 DEF Reported, RecordFromClientTx, RecordRevokedFromClientTx
  <2>4. CASE UNCHANGED index
    BY <2>4
  <2>5. \/ UNCHANGED index
        \/ \E e \in Emitted : Apply(e)
        \/ \E c \in Credentials : Reported(c)
    BY Steps
    DEF rowVars, Record, Suspend, Revoke, Reactivate, Emit, Mine, Start, StartFails, Poll,
        HandlerFails, SaveEvent, Publish, MarkPublished, Restart, Consume,
        ConsumeUnacknowledged, ConsumeFails
  <2> QED
    BY <2>2, <2>3, <2>4, <2>5
<1> QED
  BY <1>1, SyncTypeCorrect, PTL DEF FairSpec, Spec, NeverActiveAgain
=============================================================================
