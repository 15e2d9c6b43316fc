-------------------------- MODULE PresentationProofs --------------------------
(***************************************************************************)
(* Proofs about the bridge, for any set of calls, and about the approvals  *)
(* that use it, for any approvals, requests and history.                   *)
(*                                                                         *)
(* The bridge finds the promise of an answer by the answer's id.  That it  *)
(* is the right one rests on IInv: what the page has in hand is named by   *)
(* ids of pending, each of them once, and a promise waits under one id or  *)
(* in one place of the queue, and only until it is settled.                *)
(*                                                                         *)
(* Of approvals, BuildInv is about what they put together: where one       *)
(* waits, it waits for the page's answer on the zkp requirement that is    *)
(* next, and by the bridge's own invariant that answer is its own.         *)
(* HistoryInv is about what they save: what one has read of the history is *)
(* complete but for losses already due to an overlap.                      *)
(***************************************************************************)
EXTENDS Presentation, SequenceTheorems, TLAPS

\* The queue is of use only before the page has loaded, which registers the bridge.
PageAndBridge ==
  /\ page = "loading" => ~ready
  /\ page = "open" => ready
  /\ ready => queue = <<>>

\* Queued promises are unsettled, wait in one place and under no id.
QueueSound ==
  /\ \A i \in DOMAIN queue : queue[i] \in asked \ DOMAIN reply
  /\ \A i \in DOMAIN queue : \A j \in DOMAIN queue : queue[i] = queue[j] => i = j
  /\ \A i \in DOMAIN queue : \A id \in DOMAIN pending : queue[i] # pending[id]

\* Pending promises are unsettled and wait under one id.
PendingSound ==
  /\ \A id \in DOMAIN pending : pending[id] \in asked \ DOMAIN reply
  /\ \A i \in DOMAIN pending : \A j \in DOMAIN pending : pending[i] = pending[j] => i = j

\* What the page has in hand belongs to the promise under its id, and an id is in hand
\* once, as a request or as an answer.
InHandSound ==
  /\ \A r \in working : r.id \in DOMAIN pending /\ pending[r.id] = r.call
  /\ \A m \in messages : m.id \in DOMAIN pending /\ pending[m.id] = m.of
  /\ \A r \in working : \A m \in messages : r.id # m.id
  /\ \A m \in messages : \A n \in messages : m.id = n.id => m = n

IInv ==
  TypeOK /\ PageAndBridge /\ QueueSound /\ PendingSound /\ InHandSound
    /\ EveryPromiseIsServed

-----------------------------------------------------------------------------
(* Dispatching *)

\* The calls in pending and in the page's hands after a dispatch, one by one.
LEMMA DispatchEffect ==
  ASSUME TypeOK, NEW calls \in Seq(Calls), Dispatch(calls)
  PROVE  /\ counter' \in Nat /\ counter' = counter + Len(calls)
         /\ DOMAIN pending' = DOMAIN pending \cup (counter + 1 .. counter + Len(calls))
         /\ \A id \in DOMAIN pending : pending'[id] = pending[id]
         /\ \A i \in DOMAIN calls : pending'[counter + i] = calls[i]
         /\ \A id \in DOMAIN pending' \ DOMAIN pending :
              /\ id - counter \in DOMAIN calls
              /\ pending'[id] = calls[id - counter]
         /\ working \subseteq working'
         /\ \A r \in working' \ working :
              /\ r.id \in DOMAIN pending' \ DOMAIN pending
              /\ r.id \in Nat
              /\ pending'[r.id] = r.call
              /\ r = [id |-> r.id, call |-> r.call]
         /\ page # "gone" =>
              \A i \in DOMAIN calls : [id |-> counter + i, call |-> calls[i]] \in working'
<1> DEFINE ids == counter + 1 .. counter + Len(calls)
<1>1. counter \in Nat /\ DOMAIN pending \subseteq 1 .. counter
  BY DEF TypeOK
<1>2. Len(calls) \in Nat /\ DOMAIN calls = 1 .. Len(calls)
  OBVIOUS
<1>3. /\ counter' = counter + Len(calls)
      /\ pending' = [id \in DOMAIN pending \cup ids |->
                      IF id \in ids THEN calls[id - counter] ELSE pending[id]]
  BY DEF Dispatch
<1>4. working' = IF page = "gone" THEN working
                 ELSE working \cup {[id |-> id, call |-> calls[id - counter]] : id \in ids}
  BY DEF Dispatch, Inject
<1>5. \A id \in ids : id \notin DOMAIN pending /\ id \in Nat /\ id - counter \in DOMAIN calls
  BY <1>1, <1>2
<1>6. \A i \in DOMAIN calls : counter + i \in ids /\ (counter + i) - counter = i
  BY <1>1, <1>2
<1> HIDE DEF ids
<1>7. counter' \in Nat
  BY <1>1, <1>2, <1>3
<1>8. DOMAIN pending' = DOMAIN pending \cup ids
  BY <1>3
<1>9. \A id \in DOMAIN pending : pending'[id] = pending[id]
  BY <1>3, <1>5
<1>10. \A id \in ids : pending'[id] = calls[id - counter]
  BY <1>3
<1>11. \A i \in DOMAIN calls : pending'[counter + i] = calls[i]
  BY <1>6, <1>10
<1>12. \A id \in DOMAIN pending' \ DOMAIN pending : id \in ids
  BY <1>8
<1>13. \A r \in working' \ working :
         \E id \in ids : r = [id |-> id, call |-> calls[id - counter]]
  BY <1>4
<1>14. \A r \in working' \ working :
         /\ r.id \in DOMAIN pending' \ DOMAIN pending
         /\ r.id \in Nat
         /\ pending'[r.id] = r.call
         /\ r = [id |-> r.id, call |-> r.call]
  BY <1>13, <1>5, <1>8, <1>10
<1>15. page # "gone" =>
         \A i \in DOMAIN calls : [id |-> counter + i, call |-> calls[i]] \in working'
  <2> SUFFICES ASSUME page # "gone", NEW i \in DOMAIN calls
               PROVE  [id |-> counter + i, call |-> calls[i]] \in working'
    OBVIOUS
  <2>1. counter + i \in ids /\ calls[(counter + i) - counter] = calls[i]
    BY <1>6
  <2>2. [id |-> counter + i, call |-> calls[(counter + i) - counter]] \in working'
    BY <1>4, <2>1
  <2> QED
    BY <2>1, <2>2
<1>16. working \subseteq working'
  BY <1>4
<1> QED
  BY <1>3, <1>5, <1>7, <1>8, <1>9, <1>10, <1>11, <1>12, <1>14, <1>15, <1>16 DEF ids

\* Dispatching calls that nothing waits for yet keeps the parts of the invariant about
\* ids; the queue after it holds other calls.
LEMMA DispatchKeeps ==
  ASSUME TypeOK, PendingSound, InHandSound,
         NEW calls \in Seq(Calls), Dispatch(calls),
         \A i \in DOMAIN calls : calls[i] \in asked' \ DOMAIN reply,
         \A i \in DOMAIN calls : \A j \in DOMAIN calls : calls[i] = calls[j] => i = j,
         \A i \in DOMAIN calls : \A id \in DOMAIN pending : calls[i] # pending[id],
         asked \subseteq asked', asked' \subseteq Calls,
         reply' = reply, messages' = messages
  PROVE  /\ DOMAIN pending' \subseteq 1 .. counter'
         /\ pending' \in [DOMAIN pending' -> Calls]
         /\ working' \subseteq Request
         /\ PendingSound'
         /\ InHandSound'
<1>0. /\ counter' \in Nat /\ counter' = counter + Len(calls)
      /\ DOMAIN pending' = DOMAIN pending \cup (counter + 1 .. counter + Len(calls))
      /\ \A id \in DOMAIN pending : pending'[id] = pending[id]
      /\ \A id \in DOMAIN pending' \ DOMAIN pending :
           /\ id - counter \in DOMAIN calls
           /\ pending'[id] = calls[id - counter]
      /\ working \subseteq working'
      /\ \A r \in working' \ working :
           /\ r.id \in DOMAIN pending' \ DOMAIN pending
           /\ r.id \in Nat
           /\ pending'[r.id] = r.call
           /\ r = [id |-> r.id, call |-> r.call]
  BY DispatchEffect
<1>1. counter \in Nat /\ DOMAIN pending \subseteq 1 .. counter /\ Len(calls) \in Nat
  BY DEF TypeOK
<1>2. DOMAIN pending' \subseteq 1 .. counter'
  BY <1>0, <1>1
<1>3. \A id \in DOMAIN pending' \ DOMAIN pending :
        id - counter \in DOMAIN calls /\ pending'[id] = calls[id - counter]
  BY <1>0
<1>4. \A id \in DOMAIN pending : id \in DOMAIN pending' /\ pending'[id] = pending[id]
  BY <1>0
<1>5. pending' \in [DOMAIN pending' -> Calls]
  <2>1. \A id \in DOMAIN pending' : pending'[id] \in Calls
    <3>1. \A id \in DOMAIN pending : pending[id] \in Calls
      BY DEF TypeOK
    <3>2. \A i \in DOMAIN calls : calls[i] \in Calls
      OBVIOUS
    <3> QED
      BY <3>1, <3>2, <1>3, <1>4
  <2>2. pending' = [id \in DOMAIN pending' |-> pending'[id]]
    BY DEF Dispatch
  <2> QED
    BY <2>1, <2>2
<1>6. \A r \in working' \ working : r.call \in Calls /\ r.id \in Nat
  BY <1>5, <1>0
<1>7. working' \subseteq Request
  <2>1. \A r \in working' \ working : r \in Request
    BY <1>6, <1>0 DEF Request
  <2> QED
    BY <2>1 DEF TypeOK
<1>8. PendingSound'
  <2>1. \A id \in DOMAIN pending' : pending'[id] \in asked' \ DOMAIN reply'
    BY <1>3, <1>4 DEF PendingSound
  <2>2. ASSUME NEW i \in DOMAIN pending', NEW j \in DOMAIN pending',
               pending'[i] = pending'[j]
        PROVE  i = j
    <3>1. CASE i \in DOMAIN pending /\ j \in DOMAIN pending
      BY <2>2, <3>1, <1>4 DEF PendingSound
    <3>2. CASE i \notin DOMAIN pending /\ j \notin DOMAIN pending
      <4>1. i - counter = j - counter
        BY <2>2, <3>2, <1>3
      <4>2. i \in Nat /\ j \in Nat
        BY <1>2
      <4> QED
        BY <4>1, <4>2, <1>1
    <3>3. CASE (i \in DOMAIN pending) # (j \in DOMAIN pending)
      BY <2>2, <3>3, <1>3, <1>4
    <3> QED
      BY <3>1, <3>2, <3>3
  <2> QED
    BY <2>1, <2>2 DEF PendingSound
<1>9. InHandSound'
  <2>1. \A r \in working' : r.id \in DOMAIN pending' /\ pending'[r.id] = r.call
    <3>1. \A r \in working : r.id \in DOMAIN pending' /\ pending'[r.id] = r.call
      BY <1>4 DEF InHandSound
    <3>2. \A r \in working' \ working : r.id \in DOMAIN pending' /\ pending'[r.id] = r.call
      BY <1>0
    <3> QED
      BY <3>1, <3>2
  <2>2. \A m \in messages' : m.id \in DOMAIN pending' /\ pending'[m.id] = m.of
    BY <1>4 DEF InHandSound
  <2>3. \A r \in working' : \A m \in messages' : r.id # m.id
    <3>1. \A r \in working : \A m \in messages : r.id # m.id
      BY DEF InHandSound
    <3>2. \A r \in working' \ working : r.id \notin DOMAIN pending
      BY <1>0
    <3>3. \A m \in messages : m.id \in DOMAIN pending
      BY DEF InHandSound
    <3> QED
      BY <3>1, <3>2, <3>3
  <2>4. \A m \in messages' : \A n \in messages' : m.id = n.id => m = n
    BY DEF InHandSound
  <2> QED
    BY <2>1, <2>2, <2>3, <2>4 DEF InHandSound
<1> QED
  BY <1>2, <1>5, <1>7, <1>8, <1>9

-----------------------------------------------------------------------------
(* Each step keeps the invariant *)

\* A new promise is dispatched or queued.
LEMMA SendKeeps ==
  ASSUME IInv, NEW c \in Calls, Send(c)
  PROVE  IInv'
<1>1. TypeOK /\ PageAndBridge /\ QueueSound /\ PendingSound /\ InHandSound
      /\ EveryPromiseIsServed
  BY DEF IInv
<1>2. /\ c \notin asked /\ asked' = asked \cup {c}
      /\ page' = page /\ ready' = ready /\ messages' = messages /\ reply' = reply
  BY DEF Send
<1>3. c \notin DOMAIN reply /\ asked' \subseteq Calls /\ DOMAIN reply' \subseteq asked'
  BY <1>1, <1>2 DEF TypeOK
<1>4. CASE ready /\ Dispatch(<<c>>) /\ queue' = queue
  <2>1. <<c>> \in Seq(Calls) /\ Len(<<c>>) = 1 /\ DOMAIN <<c>> = {1} /\ <<c>>[1] = c
    OBVIOUS
  <2>2. \A id \in DOMAIN pending : pending[id] # c
    BY <1>1, <1>2 DEF PendingSound
  <2>3. /\ DOMAIN pending' \subseteq 1 .. counter'
        /\ pending' \in [DOMAIN pending' -> Calls]
        /\ working' \subseteq Request
        /\ PendingSound'
        /\ InHandSound'
    <3> DEFINE calls == <<c>>
    <3>1. /\ calls \in Seq(Calls) /\ Dispatch(calls)
          /\ \A i \in DOMAIN calls : calls[i] \in asked' \ DOMAIN reply
          /\ \A i \in DOMAIN calls : \A j \in DOMAIN calls : calls[i] = calls[j] => i = j
          /\ \A i \in DOMAIN calls : \A id \in DOMAIN pending : calls[i] # pending[id]
      BY <1>2, <1>3, <1>4, <2>1, <2>2
    <3> HIDE DEF calls
    <3> QED
      BY <1>1, <1>2, <1>3, <3>1, DispatchKeeps
  <2>4. counter' \in Nat
    BY <1>1, <1>4, <2>1, DispatchEffect
  <2>5. TypeOK'
    BY <1>1, <1>2, <1>3, <1>4, <2>3, <2>4 DEF TypeOK
  <2>6. PageAndBridge'
    BY <1>1, <1>2, <1>4 DEF PageAndBridge
  <2>7. queue' = <<>> /\ DOMAIN queue' = {}
    BY <1>1, <1>4 DEF PageAndBridge
  <2>8. QueueSound'
    BY <2>7 DEF QueueSound
  <2>9. EveryPromiseIsServed'
    <3> SUFFICES ASSUME page # "gone", NEW d \in asked' \ DOMAIN reply
                 PROVE  \E id \in DOMAIN pending' : pending'[id] = d /\ InHand(id, d)'
      BY <1>2 DEF EveryPromiseIsServed
    <3>1. CASE d = c
      <4>1. /\ counter + 1 \in DOMAIN pending'
            /\ pending'[counter + 1] = c
            /\ [id |-> counter + 1, call |-> c] \in working'
        <5> DEFINE calls == <<c>>
        <5>0. calls \in Seq(Calls) /\ Dispatch(calls) /\ 1 \in DOMAIN calls
              /\ calls[1] = c /\ Len(calls) = 1
          BY <1>4, <2>1
        <5> HIDE DEF calls
        <5>1. counter \in Nat
          BY <1>1 DEF TypeOK
        <5>2. counter + 1 \in counter + 1 .. counter + Len(calls)
          BY <5>0, <5>1
        <5> QED
          BY <1>1, <5>0, <5>2, DispatchEffect
      <4> QED
        BY <3>1, <4>1 DEF InHand
    <3>2. CASE d # c
      <4>1. PICK id \in DOMAIN pending : pending[id] = d /\ InHand(id, d)
        BY <1>1, <1>2, <1>4, <3>2 DEF EveryPromiseIsServed
      <4>2. id \in DOMAIN pending' /\ pending'[id] = d /\ working \subseteq working'
        BY <1>1, <1>4, <2>1, <4>1, DispatchEffect
      <4> QED
        BY <1>2, <4>1, <4>2 DEF InHand
    <3> QED
      BY <3>1, <3>2
  <2> QED
    BY <2>3, <2>5, <2>6, <2>8, <2>9 DEF IInv
<1>5. CASE ~ready /\ queue' = Append(queue, c) /\ UNCHANGED <<counter, pending, working>>
  <2>1. queue \in Seq(Calls) /\ Len(queue) \in Nat
    BY <1>1 DEF TypeOK
  <2>2. /\ queue' \in Seq(Calls)
        /\ DOMAIN queue' = DOMAIN queue \cup {Len(queue) + 1}
        /\ queue'[Len(queue) + 1] = c
        /\ Len(queue) + 1 \notin DOMAIN queue
        /\ \A i \in DOMAIN queue : queue'[i] = queue[i]
    BY <1>5, <2>1
  <2>3. TypeOK'
    BY <1>1, <1>2, <1>3, <1>5, <2>2 DEF TypeOK
  <2>4. PageAndBridge'
    BY <1>1, <1>2, <1>5 DEF PageAndBridge
  <2>5. \A i \in DOMAIN queue : queue[i] # c
    BY <1>1, <1>2 DEF QueueSound
  <2>6. \A id \in DOMAIN pending : pending[id] # c
    BY <1>1, <1>2 DEF PendingSound
  <2>7. QueueSound'
    <3>1. \A i \in DOMAIN queue' : queue'[i] \in asked' \ DOMAIN reply'
      BY <1>1, <1>2, <1>3, <2>2 DEF QueueSound
    <3>2. \A i \in DOMAIN queue' : \A j \in DOMAIN queue' : queue'[i] = queue'[j] => i = j
      BY <1>1, <2>2, <2>5 DEF QueueSound
    <3>3. \A i \in DOMAIN queue' : \A id \in DOMAIN pending' : queue'[i] # pending'[id]
      BY <1>1, <1>5, <2>2, <2>6 DEF QueueSound
    <3> QED
      BY <3>1, <3>2, <3>3 DEF QueueSound
  <2>8. PendingSound' /\ InHandSound'
    BY <1>1, <1>2, <1>5 DEF PendingSound, InHandSound
  <2>9. EveryPromiseIsServed'
    <3> SUFFICES ASSUME page # "gone", NEW d \in asked' \ DOMAIN reply
                 PROVE  \/ \E i \in DOMAIN queue' : queue'[i] = d
                        \/ \E id \in DOMAIN pending' : pending'[id] = d /\ InHand(id, d)'
      BY <1>2, <1>5 DEF EveryPromiseIsServed
    <3>1. CASE d = c
      BY <3>1, <2>2
    <3>2. CASE d # c
      <4>1. \/ \E i \in DOMAIN queue : queue[i] = d
            \/ \E id \in DOMAIN pending : pending[id] = d /\ InHand(id, d)
        BY <1>1, <1>2, <3>2 DEF EveryPromiseIsServed
      <4>2. CASE \E i \in DOMAIN queue : queue[i] = d
        BY <4>2, <2>2
      <4>3. CASE \E id \in DOMAIN pending : pending[id] = d /\ InHand(id, d)
        BY <4>3, <1>2, <1>5 DEF InHand
      <4> QED
        BY <4>1, <4>2, <4>3
    <3> QED
      BY <3>1, <3>2
  <2> QED
    BY <2>3, <2>4, <2>7, <2>8, <2>9 DEF IInv
<1> QED
  BY <1>4, <1>5 DEF Send

\* What a handled answer changes: it has its promise, which is settled with it.
LEMMA HandleEffect ==
  ASSUME IInv, NEW m \in messages, HandleMessage(m)
  PROVE  /\ m.id \in DOMAIN pending /\ pending[m.id] = m.of
         /\ m.of \in Calls /\ m.kind \in AnswerKinds /\ m.of \in asked \ DOMAIN reply
         /\ pending' = [id \in DOMAIN pending \ {m.id} |-> pending[id]]
         /\ reply' = [c \in DOMAIN reply \cup {m.of} |->
                        IF c = m.of THEN [of |-> m.of, kind |-> m.kind] ELSE reply[c]]
         /\ messages' = messages \ {m}
         /\ UNCHANGED <<page, ready, queue, counter, working, asked>>
<1>1. m.id \in DOMAIN pending /\ pending[m.id] = m.of
  BY DEF IInv, InHandSound
<1>2. m.of \in Calls /\ m.kind \in AnswerKinds
  BY DEF IInv, TypeOK, Message
<1>3. m.of \in asked \ DOMAIN reply
  BY <1>1 DEF IInv, PendingSound
<1> QED
  BY <1>1, <1>2, <1>3 DEF HandleMessage, Settle

\* A settled promise leaves no trace; the others keep theirs.
LEMMA HandleMessageKeeps ==
  ASSUME IInv, NEW m \in messages, HandleMessage(m)
  PROVE  IInv'
<1>1. TypeOK /\ PageAndBridge /\ QueueSound /\ PendingSound /\ InHandSound
      /\ EveryPromiseIsServed
  BY DEF IInv
<1>2. /\ m.id \in DOMAIN pending /\ pending[m.id] = m.of
      /\ m.of \in Calls /\ m.kind \in AnswerKinds /\ m.of \in asked \ DOMAIN reply
      /\ messages' = messages \ {m}
      /\ UNCHANGED <<page, ready, queue, counter, working, asked>>
  BY HandleEffect
<1>3. /\ DOMAIN pending' = DOMAIN pending \ {m.id}
      /\ pending' = [id \in DOMAIN pending' |-> pending[id]]
      /\ \A id \in DOMAIN pending' : pending'[id] = pending[id]
  <2>1. pending' = [id \in DOMAIN pending \ {m.id} |-> pending[id]]
    BY HandleEffect
  <2> QED
    BY <2>1
<1>4. /\ DOMAIN reply' = DOMAIN reply \cup {m.of}
      /\ reply' = [c \in DOMAIN reply' |-> reply'[c]]
      /\ \A c \in DOMAIN reply : c # m.of => reply'[c] = reply[c]
      /\ reply'[m.of] = [of |-> m.of, kind |-> m.kind]
  BY HandleEffect
<1>5. TypeOK'
  <2>1. pending' \in [DOMAIN pending' -> Calls] /\ DOMAIN pending' \subseteq 1 .. counter'
    BY <1>1, <1>2, <1>3 DEF TypeOK
  <2>2. \A c \in DOMAIN reply' : reply'[c] \in [of : Calls, kind : AnswerKinds]
    BY <1>1, <1>2, <1>4 DEF TypeOK
  <2>3. reply' \in [DOMAIN reply' -> [of : Calls, kind : AnswerKinds]]
    BY <1>4, <2>2
  <2>4. DOMAIN reply' \subseteq asked'
    BY <1>1, <1>2, <1>4 DEF TypeOK
  <2> QED
    BY <1>1, <1>2, <2>1, <2>3, <2>4 DEF TypeOK
<1>6. PageAndBridge'
  BY <1>1, <1>2 DEF PageAndBridge
<1>7. QueueSound'
  <2>1. \A i \in DOMAIN queue : queue[i] # m.of
    BY <1>1, <1>2 DEF QueueSound
  <2> QED
    BY <1>1, <1>2, <1>3, <1>4, <2>1 DEF QueueSound
<1>8. PendingSound'
  <2>1. \A id \in DOMAIN pending' : pending[id] # m.of
    BY <1>1, <1>2, <1>3 DEF PendingSound
  <2> QED
    BY <1>1, <1>2, <1>3, <1>4, <2>1 DEF PendingSound
<1>9. InHandSound'
  <2>1. \A r \in working : r.id # m.id
    BY <1>1 DEF InHandSound
  <2>2. \A n \in messages' : n \in messages /\ n.id # m.id
    <3>1. \A n \in messages : m.id = n.id => m = n
      BY <1>1 DEF InHandSound
    <3> QED
      BY <1>2, <3>1
  <2>3. \A r \in working' : r.id \in DOMAIN pending' /\ pending'[r.id] = r.call
    BY <1>1, <1>2, <1>3, <2>1 DEF InHandSound
  <2>4. \A n \in messages' : n.id \in DOMAIN pending' /\ pending'[n.id] = n.of
    BY <1>1, <1>3, <2>2 DEF InHandSound
  <2>5. /\ \A r \in working' : \A n \in messages' : r.id # n.id
        /\ \A n \in messages' : \A o \in messages' : n.id = o.id => n = o
    BY <1>1, <1>2 DEF InHandSound
  <2> QED
    BY <2>3, <2>4, <2>5 DEF InHandSound
<1>10. EveryPromiseIsServed'
  <2> SUFFICES ASSUME page # "gone", NEW c \in asked \ DOMAIN reply, c # m.of
               PROVE  \/ ~ready /\ \E i \in DOMAIN queue : queue[i] = c
                      \/ \E id \in DOMAIN pending' : pending'[id] = c /\ InHand(id, c)'
    BY <1>2, <1>4 DEF EveryPromiseIsServed
  <2>1. CASE ~ready /\ \E i \in DOMAIN queue : queue[i] = c
    BY <2>1
  <2>2. CASE \E id \in DOMAIN pending : pending[id] = c /\ InHand(id, c)
    <3>1. PICK id \in DOMAIN pending : pending[id] = c /\ InHand(id, c)
      BY <2>2
    <3>2. id # m.id
      BY <1>2, <3>1
    <3>3. id \in DOMAIN pending' /\ pending'[id] = c
      BY <1>3, <3>1, <3>2
    <3>4. CASE [id |-> id, call |-> c] \in working
      BY <1>2, <3>3, <3>4 DEF InHand
    <3>5. CASE \E kind \in AnswerKinds : [id |-> id, of |-> c, kind |-> kind] \in messages
      <4>1. PICK kind \in AnswerKinds : [id |-> id, of |-> c, kind |-> kind] \in messages
        BY <3>5
      <4>2. [id |-> id, of |-> c, kind |-> kind] # m
        BY <3>2
      <4> QED
        BY <1>2, <3>3, <4>1, <4>2 DEF InHand
    <3> QED
      BY <3>1, <3>4, <3>5 DEF InHand
  <2> QED
    BY <1>1, <2>1, <2>2 DEF EveryPromiseIsServed
<1> QED
  BY <1>5, <1>6, <1>7, <1>8, <1>9, <1>10 DEF IInv

\* A request in the page's hands turns into an answer under the same id.
LEMMA AnswerKeeps ==
  ASSUME IInv, NEW r \in working, NEW kind \in AnswerKinds, Answer(r, kind)
  PROVE  IInv'
<1> DEFINE new == [id |-> r.id, of |-> r.call, kind |-> kind]
<1>1. TypeOK /\ PageAndBridge /\ QueueSound /\ PendingSound /\ InHandSound
      /\ EveryPromiseIsServed
  BY DEF IInv
<1>2. /\ working' = working \ {r} /\ messages' = messages \cup {new}
      /\ UNCHANGED <<page, ready, queue, counter, pending, asked, reply>>
  BY DEF Answer
<1>3. /\ r.id \in Nat /\ r.call \in Calls /\ r = [id |-> r.id, call |-> r.call]
      /\ \A q \in working : q = [id |-> q.id, call |-> q.call]
  BY <1>1 DEF TypeOK, Request
<1>4. /\ new \in Message /\ new.id = r.id /\ new.of = r.call
  BY <1>3 DEF Message
<1>5. r.id \in DOMAIN pending /\ pending[r.id] = r.call
  BY <1>1 DEF InHandSound
<1>6. \A q \in working' : q \in working /\ q.id # r.id
  BY <1>1, <1>2, <1>3 DEF InHandSound
<1>7. TypeOK'
  BY <1>1, <1>2, <1>4 DEF TypeOK
<1>8. PageAndBridge' /\ QueueSound' /\ PendingSound'
  BY <1>1, <1>2 DEF PageAndBridge, QueueSound, PendingSound
<1>9. InHandSound'
  <2>1. \A m \in messages : m.id # r.id
    BY <1>1 DEF InHandSound
  <2> HIDE DEF new
  <2>2. \A q \in working' : q.id \in DOMAIN pending' /\ pending'[q.id] = q.call
    BY <1>1, <1>2, <1>6 DEF InHandSound
  <2>3. \A m \in messages' : m.id \in DOMAIN pending' /\ pending'[m.id] = m.of
    BY <1>1, <1>2, <1>4, <1>5 DEF InHandSound
  <2>4. \A q \in working' : \A m \in messages' : q.id # m.id
    BY <1>1, <1>2, <1>4, <1>6 DEF InHandSound
  <2>5. \A m \in messages' : \A n \in messages' : m.id = n.id => m = n
    BY <1>1, <1>2, <1>4, <2>1 DEF InHandSound
  <2> QED
    BY <2>2, <2>3, <2>4, <2>5 DEF InHandSound
<1>10. EveryPromiseIsServed'
  <2> SUFFICES ASSUME page # "gone", NEW c \in asked \ DOMAIN reply
               PROVE  \/ ~ready /\ \E i \in DOMAIN queue : queue[i] = c
                      \/ \E id \in DOMAIN pending : pending[id] = c /\ InHand(id, c)'
    BY <1>2 DEF EveryPromiseIsServed
  <2>1. CASE ~ready /\ \E i \in DOMAIN queue : queue[i] = c
    BY <2>1
  <2>2. CASE \E id \in DOMAIN pending : pending[id] = c /\ InHand(id, c)
    <3>1. PICK id \in DOMAIN pending : pending[id] = c /\ InHand(id, c)
      BY <2>2
    <3>2. CASE \E k \in AnswerKinds : [id |-> id, of |-> c, kind |-> k] \in messages
      BY <1>2, <3>1, <3>2 DEF InHand
    <3>3. CASE [id |-> id, call |-> c] \in working /\ [id |-> id, call |-> c] # r
      BY <1>2, <3>1, <3>3 DEF InHand
    <3>4. CASE [id |-> id, call |-> c] = r
      <4>1. new = [id |-> id, of |-> c, kind |-> kind]
        BY <3>4
      <4> QED
        BY <1>2, <3>1, <4>1 DEF InHand
    <3> QED
      BY <3>1, <3>2, <3>3, <3>4 DEF InHand
  <2> QED
    BY <1>1, <2>1, <2>2 DEF EveryPromiseIsServed
<1> QED
  BY <1>7, <1>8, <1>9, <1>10 DEF IInv

\* The queue turns into pending promises, each under an id of its own.
LEMMA LoadEndKeeps ==
  ASSUME IInv, LoadEnd
  PROVE  IInv'
<1>1. TypeOK /\ PageAndBridge /\ QueueSound /\ PendingSound /\ InHandSound
      /\ EveryPromiseIsServed
  BY DEF IInv
<1>2. /\ page = "loading" /\ page' = "open" /\ ready' = TRUE /\ queue' = <<>>
      /\ Dispatch(queue)
      /\ UNCHANGED <<messages, asked, reply>>
  BY DEF LoadEnd
<1>3. queue \in Seq(Calls) /\ asked \subseteq Calls
  BY <1>1 DEF TypeOK
<1>4. /\ DOMAIN pending' \subseteq 1 .. counter'
      /\ pending' \in [DOMAIN pending' -> Calls]
      /\ working' \subseteq Request
      /\ PendingSound'
      /\ InHandSound'
  <2>1. /\ \A i \in DOMAIN queue : queue[i] \in asked' \ DOMAIN reply
        /\ \A i \in DOMAIN queue : \A j \in DOMAIN queue : queue[i] = queue[j] => i = j
        /\ \A i \in DOMAIN queue : \A id \in DOMAIN pending : queue[i] # pending[id]
    BY <1>1, <1>2 DEF QueueSound
  <2> QED
    BY <1>1, <1>2, <1>3, <2>1, DispatchKeeps
<1>5. /\ counter' \in Nat
      /\ DOMAIN pending' = DOMAIN pending \cup (counter + 1 .. counter + Len(queue))
      /\ \A id \in DOMAIN pending : pending'[id] = pending[id]
      /\ \A i \in DOMAIN queue : pending'[counter + i] = queue[i]
      /\ working \subseteq working'
      /\ \A i \in DOMAIN queue : [id |-> counter + i, call |-> queue[i]] \in working'
  BY <1>1, <1>2, <1>3, DispatchEffect
<1>6. DOMAIN queue' = {} /\ queue' \in Seq(Calls)
  BY <1>2
<1>7. TypeOK'
  BY <1>1, <1>2, <1>4, <1>5, <1>6 DEF TypeOK
<1>8. PageAndBridge' /\ QueueSound'
  BY <1>2, <1>6 DEF PageAndBridge, QueueSound
<1>9. EveryPromiseIsServed'
  <2> SUFFICES ASSUME NEW c \in asked \ DOMAIN reply
               PROVE  \E id \in DOMAIN pending' : pending'[id] = c /\ InHand(id, c)'
    BY <1>2 DEF EveryPromiseIsServed
  <2>1. CASE \E i \in DOMAIN queue : queue[i] = c
    <3>1. PICK i \in DOMAIN queue : queue[i] = c
      BY <2>1
    <3>2. counter + i \in DOMAIN pending'
      <4>1. counter \in Nat /\ Len(queue) \in Nat /\ i \in 1 .. Len(queue)
        BY <1>1, <1>3, <3>1 DEF TypeOK
      <4> QED
        BY <1>5, <4>1
    <3>3. pending'[counter + i] = c /\ [id |-> counter + i, call |-> c] \in working'
      BY <1>5, <3>1
    <3> QED
      BY <3>2, <3>3 DEF InHand
  <2>2. CASE \E id \in DOMAIN pending : pending[id] = c /\ InHand(id, c)
    BY <1>2, <1>5, <2>2 DEF InHand
  <2> QED
    BY <1>1, <1>2, <2>1, <2>2 DEF EveryPromiseIsServed
<1> QED
  BY <1>4, <1>7, <1>8, <1>9 DEF IInv

\* What the page took with it leaves the promises where they are.
LEMMA PageGoesKeeps ==
  ASSUME IInv, LoadFails \/ PageDies
  PROVE  IInv'
<1>1. /\ page' = "gone" /\ working' \subseteq working
      /\ UNCHANGED <<ready, queue, counter, pending, messages, asked, reply>>
  BY DEF LoadFails, PageDies
<1>2. TypeOK'
  BY <1>1 DEF IInv, TypeOK
<1>3. PageAndBridge' /\ QueueSound' /\ PendingSound' /\ EveryPromiseIsServed'
  BY <1>1 DEF IInv, PageAndBridge, QueueSound, PendingSound, EveryPromiseIsServed
<1>4. InHandSound'
  BY <1>1 DEF IInv, InHandSound
<1> QED
  BY <1>2, <1>3, <1>4 DEF IInv

-----------------------------------------------------------------------------
(* The invariant, and what follows from it *)

\* At the start nothing is asked, queued, pending or in hand.
LEMMA InitIInv == Init => IInv
<1> SUFFICES ASSUME Init
             PROVE  IInv
  OBVIOUS
<1>1. /\ page = "loading" /\ ready = FALSE /\ queue = <<>> /\ counter = 0
      /\ working = {} /\ messages = {} /\ asked = {}
      /\ pending = [id \in {} |-> {}] /\ reply = [c \in {} |-> {}]
  BY DEF Init
<1>2. DOMAIN queue = {} /\ DOMAIN pending = {} /\ DOMAIN reply = {} /\ queue \in Seq(Calls)
  BY <1>1
<1>3. pending \in [DOMAIN pending -> Calls]
  BY <1>1
<1>4. reply \in [DOMAIN reply -> [of : Calls, kind : AnswerKinds]]
  BY <1>1
<1>5. TypeOK
  BY <1>1, <1>2, <1>3, <1>4 DEF TypeOK
<1>6. PageAndBridge /\ QueueSound /\ PendingSound /\ InHandSound /\ EveryPromiseIsServed
  BY <1>1, <1>2 DEF PageAndBridge, QueueSound, PendingSound, InHandSound,
                    EveryPromiseIsServed
<1> QED
  BY <1>5, <1>6 DEF IInv

\* Nothing happens to the bridge.
LEMMA StutterKeeps ==
  ASSUME IInv, UNCHANGED bridgeVars
  PROVE  IInv'
<1>1. UNCHANGED <<page, ready, queue, counter, pending, working, messages, asked, reply>>
  BY DEF bridgeVars
<1>2. TypeOK'
  BY <1>1 DEF IInv, TypeOK
<1>3. PageAndBridge' /\ QueueSound'
  BY <1>1 DEF IInv, PageAndBridge, QueueSound
<1>4. PendingSound' /\ InHandSound'
  BY <1>1 DEF IInv, PendingSound, InHandSound
<1>5. EveryPromiseIsServed'
  BY <1>1 DEF IInv, EveryPromiseIsServed, InHand
<1> QED
  BY <1>2, <1>3, <1>4, <1>5 DEF IInv

\* Every step keeps IInv.
LEMMA NextKeeps ==
  ASSUME IInv, [Next]_bridgeVars
  PROVE  IInv'
<1>1. CASE \E c \in Calls : Send(c)
  BY <1>1, SendKeeps
<1>2. CASE \E m \in messages : HandleMessage(m)
  BY <1>2, HandleMessageKeeps
<1>3. CASE \E r \in working, kind \in AnswerKinds : Answer(r, kind)
  BY <1>3, AnswerKeeps
<1>4. CASE LoadEnd
  BY <1>4, LoadEndKeeps
<1>5. CASE LoadFails \/ PageDies
  BY <1>5, PageGoesKeeps
<1>6. CASE UNCHANGED bridgeVars
  BY <1>6, StutterKeeps
<1> QED
  BY <1>1, <1>2, <1>3, <1>4, <1>5, <1>6 DEF Next, Page, Load, Work

\* The invariant holds in every reachable state of the bridge.
THEOREM BridgeInvariant == Spec => []IInv
BY InitIInv, NextKeeps, PTL DEF Spec

\* The bridge's state is well typed, for any set of calls.
THEOREM BridgeTypeCorrect == Spec => []TypeOK
<1>1. IInv => TypeOK
  BY DEF IInv
<1> QED
  BY <1>1, BridgeInvariant, PTL

\* No promise is ever forgotten: as long as the page is not gone, it is in the queue of
\* a page still loading or waits under an id the page has in hand.
THEOREM PromisesAreServed == Spec => []EveryPromiseIsServed
<1>1. IInv => EveryPromiseIsServed
  BY DEF IInv
<1> QED
  BY <1>1, BridgeInvariant, PTL

\* Sending is asking, handling an answer is replying to the call it answers, and what
\* the page does is no step of the channel.
LEMMA StepImplementsChannel ==
  ASSUME IInv, [Next]_bridgeVars
  PROVE  [Channel!Next]_<<asked, reply>>
<1>1. CASE \E c \in Calls : Send(c)
  <2>1. PICK c \in Calls : Send(c)
    BY <1>1
  <2>2. Channel!Ask(c)
    BY <2>1 DEF Send, Channel!Ask
  <2> QED
    BY <2>2 DEF Channel!Next
<1>2. CASE \E m \in messages : HandleMessage(m)
  <2>1. PICK m \in messages : HandleMessage(m)
    BY <1>2
  <2>2. /\ m.of \in Calls /\ m.kind \in AnswerKinds /\ m.of \in asked \ DOMAIN reply
        /\ reply' = [c \in DOMAIN reply \cup {m.of} |->
                       IF c = m.of THEN [of |-> m.of, kind |-> m.kind] ELSE reply[c]]
        /\ asked' = asked
    BY <2>1, HandleEffect
  <2>3. Channel!Reply(m.of, m.kind)
    BY <2>2 DEF Channel!Reply
  <2> QED
    BY <2>2, <2>3 DEF Channel!Next
<1>3. CASE \E r \in working, kind \in AnswerKinds : Answer(r, kind)
  BY <1>3 DEF Answer
<1>4. CASE LoadEnd \/ LoadFails \/ PageDies
  BY <1>4 DEF LoadEnd, LoadFails, PageDies
<1>5. CASE UNCHANGED bridgeVars
  BY <1>5 DEF bridgeVars
<1> QED
  BY <1>1, <1>2, <1>3, <1>4, <1>5 DEF Next, Page, Load, Work

\* The bridge is a request-reply channel: each call is answered once at most, with the
\* answer to itself.
THEOREM BridgeIsAChannel == Spec => ImplementsRequestReply
<1>1. Init => Channel!Init
  BY DEF Init, Channel!Init
<1> QED
  BY <1>1, BridgeInvariant, StepImplementsChannel, PTL
     DEF Spec, ImplementsRequestReply, Channel!Spec

-----------------------------------------------------------------------------
(* Approvals *)

\* Past the requirements.
Handed == {"posting", "listing", "saving", "done"}

RepliesAreOwn == \A c \in DOMAIN reply : reply[c].of = c

BuildTypes ==
  /\ phase \in [Approvals -> Phases]
  /\ request \in [Approvals -> Requests]
  /\ evidence \in [Approvals -> Seq(Evidence)]
  /\ \A a \in Approvals : Len(evidence[a]) <= Len(Needs(a))

\* Where an approval is agrees with how much it has put together.
Stage(a) ==
  /\ phase[a] \in {"proving", "verifying"} => Need(a, "zkp")
  /\ phase[a] = "verifying" => ProveCall(a, Position(a)) \in DOMAIN reply
  /\ phase[a] \in Handed => Complete(a)

EvidenceFits(a) == \A i \in DOMAIN evidence[a] : Answers(evidence[a][i], a, i)

BuildInv ==
  /\ IInv /\ RepliesAreOwn /\ BuildTypes
  /\ \A a \in Approvals : Stage(a) /\ EvidenceFits(a)

\* The p-th saved entry is in this list, or a save among the first n overlapped it.
Kept(list, p, n) ==
  \/ \E i \in DOMAIN list : list[i] = saves[p]
  \/ \E q \in 1 .. n : p < q /\ listedAt[saves[q]] < p

HistoryTypes ==
  /\ phase \in [Approvals -> Phases]
  /\ copy \in [Approvals -> Seq(Approvals)]
  /\ history \in Seq(Approvals)
  /\ accepted \subseteq Approvals
  /\ saves \in Seq(Approvals)
  /\ listedAt \in [Approvals -> 0 .. Len(saves)]

HistoryInv ==
  /\ HistoryTypes
  /\ \A p \in DOMAIN saves : phase[saves[p]] = "done"
  /\ \A a \in Approvals :
       phase[a] = "saving" =>
         \A p \in 1 .. listedAt[a] : Kept(copy[a], p, listedAt[a])
  /\ \A p \in 1 .. Len(saves) : Kept(history, p, Len(saves))

-----------------------------------------------------------------------------
(* What an approval puts together *)

\* A step of the bridge takes back no reply and gives each call its own.
LEMMA RepliesGrow ==
  ASSUME IInv, RepliesAreOwn, [Next]_bridgeVars
  PROVE  IInv' /\ RepliesAreOwn' /\ DOMAIN reply \subseteq DOMAIN reply'
<1>1. IInv'
  BY NextKeeps
<1>2. CASE \E m \in messages : HandleMessage(m)
  <2>1. PICK m \in messages : HandleMessage(m)
    BY <1>2
  <2>2. reply' = [c \in DOMAIN reply \cup {m.of} |->
                    IF c = m.of THEN [of |-> m.of, kind |-> m.kind] ELSE reply[c]]
    BY <2>1, HandleEffect
  <2>3. DOMAIN reply' = DOMAIN reply \cup {m.of}
    BY <2>2
  <2>4. \A c \in DOMAIN reply' : reply'[c].of = c
    BY <2>2 DEF RepliesAreOwn
  <2> QED
    BY <1>1, <2>3, <2>4 DEF RepliesAreOwn
<1>3. CASE reply' = reply
  BY <1>1, <1>3 DEF RepliesAreOwn
<1>4. (\E m \in messages : HandleMessage(m)) \/ reply' = reply
  BY DEF Next, Page, Load, Work, Send, Answer, LoadEnd, LoadFails, PageDies, bridgeVars
<1> QED
  BY <1>2, <1>3, <1>4

\* An approval that goes on to p with the evidence it has.
LEMMA GoToKeeps ==
  ASSUME BuildInv, [Next]_bridgeVars, NEW a \in Approvals, NEW p \in Phases,
         GoTo(a, p), UNCHANGED <<request, evidence>>,
         p \in {"proving", "verifying"} => Need(a, "zkp"),
         p = "verifying" => ProveCall(a, Position(a)) \in DOMAIN reply,
         p \in Handed => Complete(a)
  PROVE  BuildInv'
<1>1. IInv' /\ RepliesAreOwn' /\ DOMAIN reply \subseteq DOMAIN reply'
  BY RepliesGrow DEF BuildInv
<1>2. /\ phase' \in [Approvals -> Phases] /\ phase'[a] = p
      /\ \A b \in Approvals : b # a => phase'[b] = phase[b]
  BY DEF GoTo, BuildInv, BuildTypes
<1>3. BuildTypes'
  BY <1>2 DEF BuildInv, BuildTypes, Needs
<1>4. ASSUME NEW b \in Approvals
      PROVE  Stage(b)' /\ EvidenceFits(b)'
  <2>1. EvidenceFits(b)'
    BY DEF BuildInv, EvidenceFits, Answers, Needs
  <2>2. CASE b = a
    BY <1>1, <1>2, <2>1, <2>2 DEF Stage, Need, Needs, Position, Complete
  <2>3. CASE b # a
    BY <1>1, <1>2, <2>1, <2>3 DEF BuildInv, Stage, Need, Needs, Position, Complete
  <2> QED
    BY <2>2, <2>3
<1> QED
  BY <1>1, <1>3, <1>4 DEF BuildInv

\* An approval that attaches what answers its next requirement.
LEMMA AttachKeeps ==
  ASSUME BuildInv, NEW a \in Approvals, NEW e \in Evidence,
         UNCHANGED <<bridgeVars, request>>,
         Position(a) \in DOMAIN Needs(a), Answers(e, a, Position(a)),
         Attach(a, e), GoTo(a, "building")
  PROVE  BuildInv'
<1>1. IInv' /\ RepliesAreOwn' /\ DOMAIN reply \subseteq DOMAIN reply'
  BY RepliesGrow DEF BuildInv
<1>2. /\ phase' \in [Approvals -> Phases] /\ phase'[a] = "building"
      /\ \A b \in Approvals : b # a => phase'[b] = phase[b]
  BY DEF GoTo, BuildInv, BuildTypes, Phases
<1>3. evidence[a] \in Seq(Evidence) /\ Len(evidence[a]) \in Nat
  BY DEF BuildInv, BuildTypes
<1>4. /\ evidence' \in [Approvals -> Seq(Evidence)]
      /\ evidence'[a] = Append(evidence[a], e)
      /\ \A b \in Approvals : b # a => evidence'[b] = evidence[b]
  BY <1>3 DEF Attach, BuildInv, BuildTypes
<1>5. Requirements[request[a]] \in Seq(Kinds)
  BY PresentationAssumption DEF BuildInv, BuildTypes
<1>6. Len(evidence'[a]) <= Len(Needs(a))
  BY <1>3, <1>4, <1>5 DEF Position, Needs
<1>7. \A b \in Approvals : Len(evidence'[b]) <= Len(Needs(b))
  BY <1>4, <1>6 DEF BuildInv, BuildTypes
<1>8. BuildTypes'
  BY <1>2, <1>4, <1>7 DEF BuildInv, BuildTypes, Needs
<1>9. ASSUME NEW b \in Approvals
      PROVE  Stage(b)' /\ EvidenceFits(b)'
  <2>1. CASE b = a
    <3>1. Stage(a)'
      BY <1>2 DEF Stage, Handed
    <3>2. ASSUME NEW i \in DOMAIN evidence'[a]
          PROVE  Answers(evidence'[a][i], a, i)
      <4>1. CASE i \in DOMAIN evidence[a]
        BY <4>1, <1>3, <1>4 DEF BuildInv, EvidenceFits
      <4>2. CASE i = Position(a)
        BY <4>2, <1>3, <1>4 DEF Position
      <4>3. i \in DOMAIN evidence[a] \/ i = Position(a)
        BY <1>3, <1>4 DEF Position
      <4> QED
        BY <4>1, <4>2, <4>3
    <3> QED
      BY <2>1, <3>1, <3>2 DEF EvidenceFits, Answers, Needs
  <2>2. CASE b # a
    <3>1. Stage(b)'
      BY <1>1, <1>2, <1>4, <2>2 DEF BuildInv, Stage, Need, Needs, Position, Complete
    <3>2. EvidenceFits(b)'
      <4>1. evidence'[b] = evidence[b] /\ request' = request
        BY <1>4, <2>2
      <4>2. EvidenceFits(b)
        BY DEF BuildInv
      <4> QED
        BY <4>1, <4>2 DEF EvidenceFits, Answers, Needs
    <3> QED
      BY <3>1, <3>2
  <2> QED
    BY <2>1, <2>2
<1> QED
  BY <1>1, <1>8, <1>9 DEF BuildInv

\* What an approval asks of the page is a call of the bridge.
LEMMA CallsOfTheBridge ==
  ASSUME BuildInv, NEW a \in Approvals, Need(a, "zkp")
  PROVE  ProveCall(a, Position(a)) \in Calls /\ VerifyCall(a, Position(a)) \in Calls
<1>1. request[a] \in Requests /\ Position(a) \in DOMAIN Requirements[request[a]]
  BY DEF BuildInv, BuildTypes, Need, Needs
<1> QED
  BY <1>1, PresentationAssumption

\* Asking for a proof: the next requirement is a zkp one.
LEMMA BuildZkpProofKeeps ==
  ASSUME BuildInv, NEW a \in Approvals, BuildZkpProof(a)
  PROVE  BuildInv' /\ [Next]_bridgeVars
<1>1. /\ Need(a, "zkp") /\ GoTo(a, "proving") /\ Send(ProveCall(a, Position(a)))
      /\ UNCHANGED <<request, evidence>>
  BY DEF BuildZkpProof
<1>2. [Next]_bridgeVars
  BY <1>1, CallsOfTheBridge DEF Next
<1>3. "proving" \in Phases /\ "proving" # "verifying" /\ "proving" \notin Handed
  BY DEF Phases, Handed
<1> QED
  BY <1>1, <1>2, <1>3, GoToKeeps

\* Asking for the verdict: the proof is there.
LEMMA VerifyProofKeeps ==
  ASSUME BuildInv, NEW a \in Approvals, VerifyProof(a)
  PROVE  BuildInv' /\ [Next]_bridgeVars
<1>1. /\ phase[a] = "proving" /\ GoTo(a, "verifying") /\ Send(VerifyCall(a, Position(a)))
      /\ ProveCall(a, Position(a)) \in DOMAIN reply
      /\ UNCHANGED <<request, evidence>>
  BY DEF VerifyProof, Answered
<1>2. Need(a, "zkp")
  BY <1>1 DEF BuildInv, Stage
<1>3. [Next]_bridgeVars
  BY <1>1, <1>2, CallsOfTheBridge DEF Next
<1>4. "verifying" \in Phases /\ "verifying" \notin Handed
  BY DEF Phases, Handed
<1> QED
  BY <1>1, <1>2, <1>3, <1>4, GoToKeeps

\* The proof attached is the one made for this requirement.
LEMMA TakeProofKeeps ==
  ASSUME BuildInv, NEW a \in Approvals, TakeProof(a)
  PROVE  BuildInv'
<1> DEFINE call == ProveCall(a, Position(a))
           e == [what |-> "proof", call |-> call]
<1>1. Need(a, "zkp") /\ call \in DOMAIN reply
  BY DEF TakeProof, BuildInv, Stage
<1>2. reply[call].of = call
  BY <1>1 DEF BuildInv, RepliesAreOwn
<1>3. Attach(a, e) /\ GoTo(a, "building") /\ UNCHANGED <<bridgeVars, request>>
  BY <1>2 DEF TakeProof
<1>4. e \in Evidence
  BY <1>1, CallsOfTheBridge DEF Evidence
<1>5. Position(a) \in DOMAIN Needs(a) /\ Answers(e, a, Position(a))
  BY <1>1 DEF Need, Answers
<1> HIDE DEF e
<1> QED
  BY <1>3, <1>4, <1>5, AttachKeeps

\* A reference answers its requirement.
LEMMA BuildCredentialRefKeeps ==
  ASSUME BuildInv, NEW a \in Approvals, BuildCredentialRef(a)
  PROVE  BuildInv'
<1> DEFINE e == [what |-> "reference"]
<1>1. /\ phase[a] = "building" /\ Need(a, "credential-ref") /\ Attach(a, e)
      /\ phase' = phase /\ UNCHANGED <<bridgeVars, request>>
  BY DEF BuildCredentialRef
<1>2. GoTo(a, "building")
  BY <1>1 DEF GoTo, BuildInv, BuildTypes
<1>3. e \in Evidence
  BY DEF Evidence
<1>4. Position(a) \in DOMAIN Needs(a) /\ Answers(e, a, Position(a))
  BY <1>1 DEF Need, Answers
<1> HIDE DEF e
<1> QED
  BY <1>1, <1>2, <1>3, <1>4, AttachKeeps

\* A disclosure, empty or not, answers its requirement.
LEMMA BuildFullDisclosureKeeps ==
  ASSUME BuildInv, NEW a \in Approvals, BuildFullDisclosure(a)
  PROVE  BuildInv'
<1>1. PICK what \in {"document", "nothing"} : Attach(a, [what |-> what])
  BY DEF BuildFullDisclosure
<1> DEFINE e == [what |-> what]
<1>2. /\ phase[a] = "building" /\ Need(a, "full-disclosure") /\ Attach(a, e)
      /\ phase' = phase /\ UNCHANGED <<bridgeVars, request>>
  BY <1>1 DEF BuildFullDisclosure
<1>3. GoTo(a, "building")
  BY <1>2 DEF GoTo, BuildInv, BuildTypes
<1>4. e \in Evidence
  BY DEF Evidence
<1>5. Position(a) \in DOMAIN Needs(a) /\ Answers(e, a, Position(a))
  BY <1>2 DEF Need, Answers
<1> HIDE DEF e
<1> QED
  BY <1>2, <1>3, <1>4, <1>5, AttachKeeps

\* A requirement the app does not know is passed over.
LEMMA SkipUnknownKeeps ==
  ASSUME BuildInv, NEW a \in Approvals, SkipUnknown(a)
  PROVE  BuildInv'
<1> DEFINE e == [what |-> "skipped"]
<1>1. /\ phase[a] = "building" /\ Need(a, "unknown") /\ Attach(a, e)
      /\ phase' = phase /\ UNCHANGED <<bridgeVars, request>>
  BY DEF SkipUnknown
<1>2. GoTo(a, "building")
  BY <1>1 DEF GoTo, BuildInv, BuildTypes
<1>3. e \in Evidence
  BY DEF Evidence
<1>4. Position(a) \in DOMAIN Needs(a) /\ Answers(e, a, Position(a))
  BY <1>1 DEF Need, Answers
<1> HIDE DEF e
<1> QED
  BY <1>1, <1>2, <1>3, <1>4, AttachKeeps

\* The other steps of an approval leave the bridge and the evidence alone.
LEMMA MoveKeeps ==
  ASSUME BuildInv, NEW a \in Approvals,
         \/ Approve(a) \/ SignResponse(a) \/ PostAnswered(a) \/ PostFails(a)
         \/ ListHistory(a) \/ SaveHistory(a) \/ Fails(a)
  PROVE  BuildInv'
<1>1. UNCHANGED <<bridgeVars, request, evidence>>
  BY DEF Approve, SignResponse, PostAnswered, PostFails, ListHistory, SaveHistory, Fails
<1>2. \E p \in {"building", "posting", "listing", "saving", "done", "failed"} :
        GoTo(a, p) /\ (p \in Handed => Complete(a))
  <2>1. CASE Approve(a)
    BY <2>1 DEF Approve, Handed
  <2>2. CASE SignResponse(a)
    BY <2>2 DEF SignResponse, Handed
  <2>3. CASE PostAnswered(a)
    BY <2>3 DEF PostAnswered, BuildInv, Stage, Handed
  <2>4. CASE PostFails(a)
    BY <2>4 DEF PostFails, Handed
  <2>5. CASE ListHistory(a)
    BY <2>5 DEF ListHistory, BuildInv, Stage, Handed
  <2>6. CASE SaveHistory(a)
    BY <2>6 DEF SaveHistory, BuildInv, Stage, Handed
  <2>7. CASE Fails(a)
    BY <2>7 DEF Fails, Handed
  <2> QED
    BY <2>1, <2>2, <2>3, <2>4, <2>5, <2>6, <2>7
<1>3. PICK p \in {"building", "posting", "listing", "saving", "done", "failed"} :
        GoTo(a, p) /\ (p \in Handed => Complete(a))
  BY <1>2
<1>4. p \in Phases /\ p \notin {"proving", "verifying"}
  BY DEF Phases
<1>5. [Next]_bridgeVars
  BY <1>1
<1> QED
  BY <1>1, <1>3, <1>4, <1>5, GoToKeeps

\* The bridge works or nothing happens; no approval moves.
LEMMA BridgeStepKeeps ==
  ASSUME BuildInv, [Next]_bridgeVars, UNCHANGED <<phase, request, evidence>>
  PROVE  BuildInv'
<1>1. IInv' /\ RepliesAreOwn' /\ DOMAIN reply \subseteq DOMAIN reply'
  BY RepliesGrow DEF BuildInv
<1>2. BuildTypes'
  BY DEF BuildInv, BuildTypes, Needs
<1>3. ASSUME NEW b \in Approvals
      PROVE  Stage(b)' /\ EvidenceFits(b)'
  <2>1. Stage(b)'
    BY <1>1 DEF BuildInv, Stage, Need, Needs, Position, Complete
  <2>2. EvidenceFits(b)'
    BY DEF BuildInv, EvidenceFits, Answers, Needs
  <2> QED
    BY <2>1, <2>2
<1> QED
  BY <1>1, <1>2, <1>3 DEF BuildInv

\* Every step keeps BuildInv, and is a step of the bridge or none.
LEMMA PresNextKeeps ==
  ASSUME BuildInv, [PresNext]_allVars
  PROVE  BuildInv' /\ [Next]_bridgeVars
<1>1. CASE Page /\ UNCHANGED presVars
  <2>1. [Next]_bridgeVars /\ UNCHANGED <<phase, request, evidence>>
    BY <1>1 DEF Next, presVars
  <2> QED
    BY <2>1, BridgeStepKeeps
<1>2. CASE UNCHANGED allVars
  <2>1. UNCHANGED bridgeVars /\ UNCHANGED <<phase, request, evidence>>
    BY <1>2 DEF allVars, presVars
  <2> QED
    BY <2>1, BridgeStepKeeps
<1>3. ASSUME NEW a \in Approvals, BuildZkpProof(a) \/ VerifyProof(a)
      PROVE  BuildInv' /\ [Next]_bridgeVars
  BY <1>3, BuildZkpProofKeeps, VerifyProofKeeps
<1>4. ASSUME NEW a \in Approvals,
             \/ TakeProof(a) \/ BuildCredentialRef(a)
             \/ BuildFullDisclosure(a) \/ SkipUnknown(a)
      PROVE  BuildInv' /\ UNCHANGED bridgeVars
  <2>1. UNCHANGED bridgeVars
    BY <1>4 DEF TakeProof, BuildCredentialRef, BuildFullDisclosure, SkipUnknown
  <2>2. BuildInv'
    BY <1>4, TakeProofKeeps, BuildCredentialRefKeeps, BuildFullDisclosureKeeps,
       SkipUnknownKeeps
  <2> QED
    BY <2>1, <2>2
<1>5. ASSUME NEW a \in Approvals,
             \/ Approve(a) \/ SignResponse(a) \/ PostAnswered(a) \/ PostFails(a)
             \/ ListHistory(a) \/ SaveHistory(a) \/ Fails(a)
      PROVE  BuildInv' /\ UNCHANGED bridgeVars
  <2>1. UNCHANGED bridgeVars
    BY <1>5 DEF Approve, SignResponse, PostAnswered, PostFails, ListHistory, SaveHistory,
                Fails
  <2> QED
    BY <1>5, <2>1, MoveKeeps
<1> QED
  BY <1>1, <1>2, <1>3, <1>4, <1>5 DEF PresNext, Goes

-----------------------------------------------------------------------------
(* What an approval saves *)

\* A save counts on the list and the read marks of other approvals as they are.
LEMMA SaveHistoryKeeps ==
  ASSUME HistoryInv, NEW a \in Approvals, SaveHistory(a)
  PROVE  HistoryInv'
<1> DEFINE n == Len(saves)
<1>1. /\ phase[a] = "saving" /\ phase' = [phase EXCEPT ![a] = "done"]
      /\ history' = <<a>> \o copy[a]
      /\ saves' = Append(saves, a)
      /\ UNCHANGED <<copy, accepted, listedAt>>
  BY DEF SaveHistory, GoTo
<1>2. /\ saves \in Seq(Approvals) /\ copy[a] \in Seq(Approvals)
      /\ phase \in [Approvals -> Phases] /\ listedAt \in [Approvals -> 0 .. n]
  BY DEF HistoryInv, HistoryTypes
<1>3. /\ n \in Nat /\ Len(saves') = n + 1 /\ saves' \in Seq(Approvals)
      /\ saves'[n + 1] = a /\ \A p \in 1 .. n : saves'[p] = saves[p]
      /\ DOMAIN saves = 1 .. n /\ DOMAIN saves' = 1 .. n + 1
  BY <1>1, <1>2
<1>4. /\ history' \in Seq(Approvals) /\ 1 \in DOMAIN history' /\ history'[1] = a
      /\ \A i \in DOMAIN copy[a] : i + 1 \in DOMAIN history' /\ history'[i + 1] = copy[a][i]
  <2> DEFINE one == <<a>>
  <2>1. one \in Seq(Approvals) /\ Len(one) = 1 /\ one[1] = a
    OBVIOUS
  <2> HIDE DEF one
  <2>2. history' = one \o copy[a]
    BY <1>1 DEF one
  <2> DEFINE list == copy[a]
  <2>3. list \in Seq(Approvals) /\ Len(list) \in Nat
    BY <1>2
  <2> HIDE DEF list
  <2>4. one \o list \in Seq(Approvals) /\ Len(one \o list) = 1 + Len(list)
    BY <2>1, <2>3, ConcatProperties
  <2>5. \A i \in 1 .. Len(one) + Len(list) :
          (one \o list)[i] = IF i <= Len(one) THEN one[i] ELSE list[i - Len(one)]
    BY <2>1, <2>3, ConcatProperties
  <2>6. (one \o list)[1] = a /\ \A i \in 1 .. Len(list) : (one \o list)[i + 1] = list[i]
    <3>1. (one \o list)[1] = a
      <4>1. 1 \in 1 .. Len(one) + Len(list) /\ 1 <= Len(one)
        BY <2>1, <2>3
      <4> QED
        BY <2>1, <2>5, <4>1
    <3>2. ASSUME NEW i \in 1 .. Len(list)
          PROVE  (one \o list)[i + 1] = list[i]
      <4>1. /\ i + 1 \in 1 .. Len(one) + Len(list)
            /\ ~(i + 1 <= Len(one)) /\ (i + 1) - Len(one) = i
        BY <2>1, <2>3
      <4> QED
        BY <2>5, <4>1
    <3> QED
      BY <3>1, <3>2
  <2>7. DOMAIN list = 1 .. Len(list) /\ DOMAIN (one \o list) = 1 .. 1 + Len(list)
    BY <2>3, <2>4
  <2>8. history' = one \o list
    BY <2>2 DEF list
  <2> QED
    BY <2>3, <2>4, <2>6, <2>7, <2>8 DEF list
<1>5. /\ phase' \in [Approvals -> Phases] /\ phase'[a] = "done"
      /\ \A b \in Approvals : b # a => phase'[b] = phase[b]
  BY <1>1, <1>2 DEF Phases
<1>6. listedAt[a] \in 0 .. n
  BY <1>2
<1> HIDE DEF n
<1>7. HistoryTypes'
  <2>1. listedAt' \in [Approvals -> 0 .. Len(saves')]
    <3>1. \A b \in Approvals : listedAt[b] \in 0 .. n + 1
      BY <1>2, <1>3
    <3> QED
      BY <1>1, <1>2, <1>3, <3>1
  <2> QED
    BY <1>1, <1>3, <1>4, <1>5, <2>1 DEF HistoryInv, HistoryTypes
<1>8. \A p \in DOMAIN saves' : phase'[saves'[p]] = "done"
  <2> SUFFICES ASSUME NEW p \in 1 .. n + 1
               PROVE  phase'[saves'[p]] = "done"
    BY <1>3
  <2>1. CASE p = n + 1
    BY <1>3, <1>5, <2>1
  <2>2. CASE p \in 1 .. n
    <3>1. saves'[p] = saves[p] /\ p \in DOMAIN saves
      BY <1>3, <2>2
    <3>2. saves[p] \in Approvals
      BY <1>2, <3>1
    <3>3. phase[saves[p]] = "done"
      BY <3>1 DEF HistoryInv
    <3> QED
      BY <1>1, <1>5, <3>1, <3>2, <3>3
  <2> QED
    BY <1>3, <2>1, <2>2
<1>9. \A b \in Approvals :
        phase'[b] = "saving" =>
          \A p \in 1 .. listedAt'[b] : Kept(copy[b], p, listedAt[b])'
  <2> SUFFICES ASSUME NEW b \in Approvals, phase'[b] = "saving",
                      NEW p \in 1 .. listedAt[b]
               PROVE  Kept(copy[b], p, listedAt[b])'
    BY <1>1
  <2>1. b # a /\ phase[b] = "saving"
    BY <1>5
  <2>2. listedAt[b] \in 0 .. n
    BY <1>2
  <2>3. p \in 1 .. n /\ \A q \in 1 .. listedAt[b] : q \in 1 .. n
    BY <1>3, <2>2
  <2>4. Kept(copy[b], p, listedAt[b])
    BY <2>1 DEF HistoryInv
  <2> QED
    BY <1>1, <1>3, <2>3, <2>4 DEF Kept
<1>10. \A p \in 1 .. Len(saves') : Kept(history, p, Len(saves))'
  <2> SUFFICES ASSUME NEW p \in 1 .. n + 1
               PROVE  Kept(history, p, Len(saves))'
    BY <1>3
  <2>1. CASE p = n + 1
    BY <1>3, <1>4, <2>1 DEF Kept
  <2>2. CASE p \in listedAt[a] + 1 .. n
    <3>1. n + 1 \in 1 .. Len(saves') /\ p < n + 1 /\ listedAt[a] < p
      BY <1>3, <1>6, <2>2
    <3>2. listedAt'[saves'[n + 1]] < p
      BY <1>1, <1>3, <3>1
    <3> QED
      BY <3>1, <3>2 DEF Kept
  <2>3. CASE p \in 1 .. listedAt[a]
    <3>1. Kept(copy[a], p, listedAt[a])
      BY <1>1, <2>3 DEF HistoryInv
    <3>2. p \in 1 .. n /\ saves'[p] = saves[p]
      BY <1>3, <1>6, <2>3
    <3>3. CASE \E i \in DOMAIN copy[a] : copy[a][i] = saves[p]
      BY <1>4, <3>2, <3>3 DEF Kept
    <3>4. CASE \E q \in 1 .. listedAt[a] : p < q /\ listedAt[saves[q]] < p
      <4>1. PICK q \in 1 .. listedAt[a] : p < q /\ listedAt[saves[q]] < p
        BY <3>4
      <4>2. q \in 1 .. n /\ q \in 1 .. Len(saves')
        BY <1>3, <1>6
      <4>3. listedAt'[saves'[q]] < p
        BY <1>1, <1>3, <4>1, <4>2
      <4> QED
        BY <4>1, <4>2, <4>3 DEF Kept
    <3> QED
      BY <3>1, <3>3, <3>4 DEF Kept
  <2>4. p = n + 1 \/ p \in listedAt[a] + 1 .. n \/ p \in 1 .. listedAt[a]
    BY <1>3, <1>6
  <2> QED
    BY <2>1, <2>2, <2>3, <2>4
<1> QED
  BY <1>7, <1>8, <1>9, <1>10 DEF HistoryInv

\* What is read of the history is what is there; the reader has not saved.
LEMMA ListHistoryKeeps ==
  ASSUME HistoryInv, NEW a \in Approvals, ListHistory(a)
  PROVE  HistoryInv'
<1>1. /\ phase[a] = "listing" /\ phase' = [phase EXCEPT ![a] = "saving"]
      /\ copy' = [copy EXCEPT ![a] = history]
      /\ listedAt' = [listedAt EXCEPT ![a] = Len(saves)]
      /\ UNCHANGED <<history, accepted, saves>>
  BY DEF ListHistory, GoTo
<1>2. /\ saves \in Seq(Approvals) /\ Len(saves) \in Nat /\ DOMAIN saves = 1 .. Len(saves)
      /\ phase \in [Approvals -> Phases] /\ listedAt \in [Approvals -> 0 .. Len(saves)]
      /\ copy \in [Approvals -> Seq(Approvals)] /\ history \in Seq(Approvals)
  BY DEF HistoryInv, HistoryTypes
<1>3. Len(saves) \in 0 .. Len(saves)
  BY <1>2
<1>4. /\ phase' \in [Approvals -> Phases] /\ phase'[a] = "saving"
      /\ \A b \in Approvals : b # a => phase'[b] = phase[b]
  BY <1>1, <1>2 DEF Phases
<1>5. /\ copy' \in [Approvals -> Seq(Approvals)] /\ copy'[a] = history
      /\ \A b \in Approvals : b # a => copy'[b] = copy[b]
  BY <1>1, <1>2
<1>6. /\ listedAt' \in [Approvals -> 0 .. Len(saves)] /\ listedAt'[a] = Len(saves)
      /\ \A b \in Approvals : b # a => listedAt'[b] = listedAt[b]
  BY <1>1, <1>2, <1>3
<1>7. \A p \in DOMAIN saves : saves[p] \in Approvals /\ saves[p] # a
  BY <1>1, <1>2 DEF HistoryInv
<1>8. HistoryTypes'
  BY <1>1, <1>4, <1>5, <1>6 DEF HistoryInv, HistoryTypes
<1>9. \A p \in DOMAIN saves' : phase'[saves'[p]] = "done"
  BY <1>1, <1>4, <1>7 DEF HistoryInv
<1>10. \A p \in 1 .. Len(saves) : Kept(history, p, Len(saves))'
  <2> SUFFICES ASSUME NEW p \in 1 .. Len(saves)
               PROVE  Kept(history, p, Len(saves))'
    OBVIOUS
  <2>1. Kept(history, p, Len(saves))
    BY DEF HistoryInv
  <2>2. \A q \in 1 .. Len(saves) : listedAt'[saves[q]] = listedAt[saves[q]]
    BY <1>2, <1>6, <1>7
  <2> QED
    BY <1>1, <2>1, <2>2 DEF Kept
<1>11. ASSUME NEW b \in Approvals, phase'[b] = "saving", NEW p \in 1 .. listedAt'[b]
       PROVE  Kept(copy[b], p, listedAt[b])'
  <2>1. CASE b = a
    BY <1>1, <1>5, <1>6, <1>10, <1>11, <2>1 DEF Kept
  <2>2. CASE b # a
    <3>1. phase[b] = "saving" /\ copy'[b] = copy[b] /\ listedAt'[b] = listedAt[b]
      BY <1>4, <1>5, <1>6, <1>11, <2>2
    <3>2. Kept(copy[b], p, listedAt[b])
      BY <1>11, <3>1 DEF HistoryInv
    <3>3. \A q \in 1 .. listedAt[b] : listedAt'[saves[q]] = listedAt[saves[q]]
      <4>1. listedAt[b] \in 0 .. Len(saves)
        BY <1>2
      <4>2. \A q \in 1 .. listedAt[b] : q \in DOMAIN saves
        BY <1>2, <4>1
      <4> QED
        BY <1>6, <1>7, <4>2
    <3> QED
      BY <1>1, <3>1, <3>2, <3>3 DEF Kept
  <2> QED
    BY <2>1, <2>2
<1> QED
  BY <1>1, <1>8, <1>9, <1>10, <1>11 DEF HistoryInv

\* An approval that goes on to anything but saving, before or after it has a list.
LEMMA OtherStepKeepsHistory ==
  ASSUME HistoryInv, NEW a \in Approvals, NEW p \in Phases \ {"saving", "done"},
         phase' = [phase EXCEPT ![a] = p], phase[a] # "done",
         UNCHANGED <<copy, history, saves, listedAt>>, accepted' \subseteq Approvals
  PROVE  HistoryInv'
<1>1. /\ phase' \in [Approvals -> Phases] /\ phase'[a] = p
      /\ \A b \in Approvals : b # a => phase'[b] = phase[b]
  BY DEF HistoryInv, HistoryTypes
<1>2. HistoryTypes'
  BY <1>1 DEF HistoryInv, HistoryTypes
<1>3. \A i \in DOMAIN saves' : phase'[saves'[i]] = "done"
  <2>1. \A i \in DOMAIN saves : saves[i] \in Approvals
    BY DEF HistoryInv, HistoryTypes
  <2> QED
    BY <1>1, <2>1 DEF HistoryInv
<1>4. \A b \in Approvals :
        phase'[b] = "saving" =>
          \A i \in 1 .. listedAt'[b] : Kept(copy[b], i, listedAt[b])'
  BY <1>1 DEF HistoryInv, Kept
<1>5. \A i \in 1 .. Len(saves') : Kept(history, i, Len(saves))'
  BY DEF HistoryInv, Kept
<1> QED
  BY <1>2, <1>3, <1>4, <1>5 DEF HistoryInv

\* Every step keeps HistoryInv.
LEMMA PresNextKeepsHistory ==
  ASSUME HistoryInv, [PresNext]_allVars
  PROVE  HistoryInv'
<1>1. CASE UNCHANGED presVars
  <2>1. UNCHANGED <<phase, copy, history, accepted, saves, listedAt>>
    BY <1>1 DEF presVars
  <2>2. HistoryTypes'
    BY <2>1 DEF HistoryInv, HistoryTypes
  <2> QED
    BY <2>1, <2>2 DEF HistoryInv, Kept
<1>2. ASSUME NEW a \in Approvals, SaveHistory(a)
      PROVE  HistoryInv'
  BY <1>2, SaveHistoryKeeps
<1>3. ASSUME NEW a \in Approvals, ListHistory(a)
      PROVE  HistoryInv'
  BY <1>3, ListHistoryKeeps
<1>4. ASSUME NEW a \in Approvals,
             BuildCredentialRef(a) \/ BuildFullDisclosure(a) \/ SkipUnknown(a)
      PROVE  HistoryInv'
  <2>1. UNCHANGED <<phase, copy, history, accepted, saves, listedAt>>
    BY <1>4 DEF BuildCredentialRef, BuildFullDisclosure, SkipUnknown
  <2>2. HistoryTypes'
    BY <2>1 DEF HistoryInv, HistoryTypes
  <2> QED
    BY <2>1, <2>2 DEF HistoryInv, Kept
<1>5. ASSUME NEW a \in Approvals,
             \/ Approve(a) \/ BuildZkpProof(a) \/ VerifyProof(a) \/ TakeProof(a)
             \/ SignResponse(a) \/ PostAnswered(a) \/ PostFails(a) \/ Fails(a)
      PROVE  HistoryInv'
  <2>1. UNCHANGED <<copy, history, saves, listedAt>>
    BY <1>5 DEF Approve, BuildZkpProof, VerifyProof, TakeProof, SignResponse, PostAnswered,
                PostFails, Fails
  <2>2. accepted' \subseteq Approvals
    <3>1. accepted' \in {accepted, accepted \cup {a}}
      BY <1>5 DEF Approve, BuildZkpProof, VerifyProof, TakeProof, SignResponse,
                  PostAnswered, PostFails, Fails
    <3>2. accepted \subseteq Approvals
      BY DEF HistoryInv, HistoryTypes
    <3> QED
      BY <3>1, <3>2
  <2>3. phase[a] # "done"
    BY <1>5 DEF Approve, BuildZkpProof, VerifyProof, TakeProof, SignResponse, PostAnswered,
                PostFails, Fails
  <2>4. \E p \in {"building", "proving", "verifying", "posting", "listing", "failed"} :
          phase' = [phase EXCEPT ![a] = p]
    BY <1>5 DEF Approve, BuildZkpProof, VerifyProof, TakeProof, SignResponse, PostAnswered,
                PostFails, Fails, GoTo
  <2>5. PICK p \in {"building", "proving", "verifying", "posting", "listing", "failed"} :
          phase' = [phase EXCEPT ![a] = p]
    BY <2>4
  <2>6. p \in Phases \ {"saving", "done"}
    BY DEF Phases
  <2> QED
    BY <2>1, <2>2, <2>3, <2>5, <2>6, OtherStepKeepsHistory
<1>6. UNCHANGED allVars => UNCHANGED presVars
  BY DEF allVars
<1> QED
  BY <1>1, <1>2, <1>3, <1>4, <1>5, <1>6 DEF PresNext, Goes

-----------------------------------------------------------------------------
(* The invariants, and what follows from them *)

\* Nothing has been put together at the start.
LEMMA InitBuildInv == PresInit => BuildInv
<1> SUFFICES ASSUME PresInit
             PROVE  BuildInv
  OBVIOUS
<1>1. IInv
  BY InitIInv DEF PresInit
<1>2. RepliesAreOwn
  BY DEF PresInit, Init, RepliesAreOwn
<1>3. /\ phase = [a \in Approvals |-> "idle"] /\ request \in [Approvals -> Requests]
      /\ evidence = [a \in Approvals |-> <<>>]
  BY DEF PresInit
<1>4. ASSUME NEW a \in Approvals
      PROVE  Len(evidence[a]) <= Len(Needs(a)) /\ Stage(a) /\ EvidenceFits(a)
  <2>1. phase[a] = "idle" /\ evidence[a] = <<>> /\ request[a] \in Requests
    BY <1>3
  <2>2. Requirements[request[a]] \in Seq(Kinds)
    BY <2>1, PresentationAssumption
  <2>3. Len(Requirements[request[a]]) \in Nat
    BY <2>2
  <2>4. Len(evidence[a]) <= Len(Needs(a))
    BY <2>1, <2>3 DEF Needs
  <2>5. Stage(a)
    BY <2>1 DEF Stage, Handed
  <2>6. EvidenceFits(a)
    BY <2>1 DEF EvidenceFits
  <2> QED
    BY <2>4, <2>5, <2>6
<1>5. phase \in [Approvals -> Phases] /\ evidence \in [Approvals -> Seq(Evidence)]
  BY <1>3 DEF Phases
<1>6. BuildTypes
  BY <1>3, <1>4, <1>5 DEF BuildTypes
<1> QED
  BY <1>1, <1>2, <1>4, <1>6 DEF BuildInv

\* Nothing has been read or saved at the start.
LEMMA InitHistoryInv == PresInit => HistoryInv
<1> SUFFICES ASSUME PresInit
             PROVE  HistoryInv
  OBVIOUS
<1>1. /\ phase = [a \in Approvals |-> "idle"] /\ copy = [a \in Approvals |-> <<>>]
      /\ history = <<>> /\ accepted = {} /\ saves = <<>>
      /\ listedAt = [a \in Approvals |-> 0]
  BY DEF PresInit
<1>2. DOMAIN saves = {} /\ Len(saves) = 0 /\ 1 .. Len(saves) = {}
  BY <1>1
<1>3. HistoryTypes
  BY <1>1 DEF HistoryTypes, Phases
<1>4. \A a \in Approvals : phase[a] # "saving"
  BY <1>1
<1> QED
  BY <1>2, <1>3, <1>4 DEF HistoryInv

\* What approvals put together is sound in every reachable state.
THEOREM BuildInvariant == PresSpec => []BuildInv
BY InitBuildInv, PresNextKeeps, PTL DEF PresSpec

\* What approvals read and save is sound in every reachable state.
THEOREM HistoryInvariant == PresSpec => []HistoryInv
BY InitHistoryInv, PresNextKeepsHistory, PTL DEF PresSpec

\* Presenting uses the bridge as it is specified alone, so that all that is proved of
\* the bridge holds here.
THEOREM ImplementsZkpBridge == PresSpec => Spec
<1>1. PresInit => Init
  BY DEF PresInit
<1> QED
  BY <1>1, BuildInvariant, PresNextKeeps, PTL DEF PresSpec, Spec

\* The wallet's presentations and their bridge are well typed.
THEOREM PresTypeCorrect == PresSpec => []PresTypeOK
<1>1. BuildInv /\ HistoryInv => PresTypeOK
  BY DEF BuildInv, BuildTypes, HistoryInv, HistoryTypes, PresTypeOK, IInv
<1> QED
  BY <1>1, BuildInvariant, HistoryInvariant, PTL

\* Whatever is handed in or saved answers each requirement of its request that the app
\* knows with evidence made for it, for any requests and any number of approvals over
\* one bridge; what the app does not know it leaves out.
THEOREM SubmittedIsAlwaysProved == PresSpec => []SubmittedIsProved
<1>1. BuildInv => SubmittedIsProved
  <2> SUFFICES ASSUME BuildInv, NEW a \in Approvals, phase[a] \in Handed
               PROVE  /\ DOMAIN evidence[a] = DOMAIN Needs(a)
                      /\ \A i \in DOMAIN Needs(a) : Answers(evidence[a][i], a, i)
    BY DEF SubmittedIsProved, Handed
  <2>1. Complete(a) /\ EvidenceFits(a)
    BY DEF BuildInv, Stage
  <2>2. evidence[a] \in Seq(Evidence) /\ Len(evidence[a]) <= Len(Needs(a))
    BY DEF BuildInv, BuildTypes
  <2>3. Needs(a) \in Seq(Kinds)
    BY PresentationAssumption DEF BuildInv, BuildTypes, Needs
  <2>4. Len(evidence[a]) = Len(Needs(a))
    BY <2>1, <2>2, <2>3 DEF Complete, Position
  <2>5. DOMAIN evidence[a] = DOMAIN Needs(a)
    BY <2>2, <2>3, <2>4
  <2> QED
    BY <2>1, <2>5 DEF EvidenceFits
<1> QED
  BY <1>1, BuildInvariant, PTL

\* The history loses an entry only to a save that overlapped it.
THEOREM OnlyOverlapsLose == PresSpec => []LostOnlyToOverlap
<1>1. HistoryInv => LostOnlyToOverlap
  <2> SUFFICES ASSUME HistoryInv, NEW p \in DOMAIN saves
               PROVE  \/ \E i \in DOMAIN history : history[i] = saves[p]
                      \/ \E q \in DOMAIN saves : p < q /\ listedAt[saves[q]] < p
    BY DEF LostOnlyToOverlap
  <2>1. DOMAIN saves = 1 .. Len(saves)
    BY DEF HistoryInv, HistoryTypes
  <2>2. Kept(history, p, Len(saves))
    BY <2>1 DEF HistoryInv
  <2> QED
    BY <2>1, <2>2 DEF Kept
<1> QED
  BY <1>1, HistoryInvariant, PTL
=============================================================================
