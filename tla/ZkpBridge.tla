------------------------------- MODULE ZkpBridge -------------------------------
(***************************************************************************)
(* The bridge of the wallet to the hidden web view that makes and verifies *)
(* its zero-knowledge proofs.                                              *)
(*                                                                         *)
(*   callers --send--> zkpBridge --injected script--> page                 *)
(*      ^                  |  ^                         |                  *)
(*      +----- promise ----+  +------- postMessage -----+                  *)
(*                                                                         *)
(* The page is loaded some time after the app has started; what is asked   *)
(* before waits in a queue.  The page works on any number of requests and  *)
(* answers them in any order.  A request carries no time limit.            *)
(*                                                                         *)
(* Of a message, the id and what it answers are modelled.  Nothing in the  *)
(* app calls unregister, so a bridge once ready stays ready.               *)
(***************************************************************************)
EXTENDS Naturals, Sequences, FiniteSets

CONSTANT Calls   \* calls of send, one for each promise it hands out

VARIABLES
  page,      \* the web view: loading, open, or gone
  ready,     \* zkpBridge.ready; injectFn is set with it
  queue,     \* dispatches that wait for the page
  counter,   \* the last id given
  pending,   \* the map from an id to the promise waiting for it
  working,   \* requests the page has and has not answered
  messages,  \* answers it has posted and the app has not handled
  asked,     \* history: calls made
  reply      \* what a promise was settled with

bridgeVars == <<page, ready, queue, counter, pending, working, messages, asked, reply>>

AnswerKinds == {"result", "error"}
Request == [id : Nat, call : Calls]
Message == [id : Nat, of : Calls, kind : AnswerKinds]

Init ==
  /\ page = "loading"
  /\ ready = FALSE
  /\ queue = <<>>
  /\ counter = 0
  /\ pending = [id \in {} |-> {}]
  /\ working = {}
  /\ messages = {}
  /\ asked = {}
  /\ reply = [c \in {} |-> {}]

-----------------------------------------------------------------------------
(* zkpBridge *)

\* The script is injected into whatever the web view shows: a page that is gone
\* takes no notice.
Inject(requests) ==
  working' = IF page = "gone" THEN working ELSE working \cup requests

\* The dispatches of these calls, one after the other.
Dispatch(calls) ==
  LET ids == counter + 1 .. counter + Len(calls) IN
  /\ counter' = counter + Len(calls)
  /\ pending' = [id \in DOMAIN pending \cup ids |->
                   IF id \in ids THEN calls[id - counter] ELSE pending[id]]
  /\ Inject({[id |-> id, call |-> calls[id - counter]] : id \in ids})

\* A promise is handed out, and its request dispatched at once or queued.
Send(c) ==
  /\ c \notin asked
  /\ asked' = asked \cup {c}
  /\ \/ ready /\ Dispatch(<<c>>) /\ queue' = queue
     \/ ~ready /\ queue' = Append(queue, c) /\ UNCHANGED <<counter, pending, working>>
  /\ UNCHANGED <<page, ready, messages, reply>>

\* Faulty variant: an answer settles the promise that has waited longest.
SettleOldest(m) ==
  LET id == CHOOSE i \in DOMAIN pending : \A j \in DOMAIN pending : i <= j IN
  /\ pending' = [i \in DOMAIN pending \ {id} |-> pending[i]]
  /\ reply' = [c \in DOMAIN reply \cup {pending[id]} |->
                 IF c = pending[id] THEN [of |-> m.of, kind |-> m.kind] ELSE reply[c]]

\* The promise waiting for this id is settled and forgotten.
Settle(m) ==
  /\ pending' = [id \in DOMAIN pending \ {m.id} |-> pending[id]]
  /\ reply' = [c \in DOMAIN reply \cup {pending[m.id]} |->
                 IF c = pending[m.id] THEN [of |-> m.of, kind |-> m.kind] ELSE reply[c]]

HandleMessage(m) ==
  /\ m \in messages
  /\ messages' = messages \ {m}
  /\ IF m.id \in DOMAIN pending THEN Settle(m) ELSE UNCHANGED <<pending, reply>>
  /\ UNCHANGED <<page, ready, queue, counter, working, asked>>

-----------------------------------------------------------------------------
(* The web view *)

\* Faulty variant: register leaves the queue for the next request to flush.
LoadEndKeepingQueue ==
  /\ page = "loading"
  /\ page' = "open"
  /\ ready' = TRUE
  /\ UNCHANGED <<queue, counter, pending, working, messages, asked, reply>>

\* The page has loaded: the bridge is registered and its queue dispatched.
LoadEnd ==
  /\ page = "loading"
  /\ page' = "open"
  /\ ready' = TRUE
  /\ Dispatch(queue)
  /\ queue' = <<>>
  /\ UNCHANGED <<messages, asked, reply>>

\* The asset with the prover cannot be read: there will be no page.
LoadFails ==
  /\ page = "loading"
  /\ page' = "gone"
  /\ UNCHANGED <<ready, queue, counter, pending, working, messages, asked, reply>>

\* The page has finished with a request, or caught what it threw.
Answer(r, kind) ==
  /\ r \in working
  /\ working' = working \ {r}
  /\ messages' = messages \cup {[id |-> r.id, of |-> r.call, kind |-> kind]}
  /\ UNCHANGED <<page, ready, queue, counter, pending, asked, reply>>

\* The system takes the process of the page, with what it was working on; nothing
\* in the app asks to be told.
PageDies ==
  /\ page = "open"
  /\ page' = "gone"
  /\ working' = {}
  /\ UNCHANGED <<ready, queue, counter, pending, messages, asked, reply>>

-----------------------------------------------------------------------------
Load == LoadEnd \/ LoadFails

Work ==
  \/ \E r \in working, kind \in AnswerKinds : Answer(r, kind)
  \/ \E m \in messages : HandleMessage(m)

Page == Load \/ Work \/ PageDies

Next == Page \/ \E c \in Calls : Send(c)

Spec == Init /\ [][Next]_bridgeVars

-----------------------------------------------------------------------------
(* Correctness *)

\* Every variable has its type; an id in use has been given, a reply was asked for.
TypeOK ==
  /\ page \in {"loading", "open", "gone"}
  /\ ready \in BOOLEAN
  /\ queue \in Seq(Calls)
  /\ counter \in Nat
  /\ DOMAIN pending \subseteq 1 .. counter
  /\ pending \in [DOMAIN pending -> Calls]
  /\ working \subseteq Request
  /\ messages \subseteq Message
  /\ asked \subseteq Calls
  /\ DOMAIN reply \subseteq asked
  /\ reply \in [DOMAIN reply -> [of : Calls, kind : AnswerKinds]]

\* The page has this request, or has posted its answer.
InHand(id, c) ==
  \/ [id |-> id, call |-> c] \in working
  \/ \E kind \in AnswerKinds : [id |-> id, of |-> c, kind |-> kind] \in messages

\* No promise is forgotten: as long as the page is not gone, whoever was promised an
\* answer and has none is in the queue of a page still loading, or waits under an id
\* the page has in hand, whenever it asked and in whatever order answers come.
EveryPromiseIsServed ==
  page # "gone" =>
    \A c \in asked \ DOMAIN reply :
      \/ ~ready /\ \E i \in DOMAIN queue : queue[i] = c
      \/ \E id \in DOMAIN pending : pending[id] = c /\ InHand(id, c)

Channel == INSTANCE RequestReply

\* Each call gets the answer to itself, once, however many are in flight and although
\* the page answers out of order: the bridge is a request-reply channel.
ImplementsRequestReply == Channel!Spec
=============================================================================
