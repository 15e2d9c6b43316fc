---------------------------- MODULE WalletDocuments ----------------------------
(***************************************************************************)
(* The wallet's copy of the owner's credentials: CredentialsScreen loads   *)
(* it and has credentialService refresh it from the Credential service,    *)
(* over the Veramo agent, which the first user of it opens for all.        *)
(*                                                                         *)
(* A refresh deletes every copy and saves what it has fetched, one call at *)
(* a time and without a transaction.  It goes on when the screen is taken  *)
(* down by the lock, so that the next screen may start another, and the    *)
(* system may end the app in between.                                      *)
(*                                                                         *)
(* Left out: the cards of presentations (Presentation has their history),  *)
(* their folding; the rows one save writes; documents with a proof of      *)
(* another type, which no reachable code stores.                           *)
(***************************************************************************)
EXTENDS Naturals, FiniteSets

CONSTANTS
  Credentials,
  Tasks,        \* loads and refreshes that may be under way at once
  MaxFaults     \* bound on calls that fail and on kills

ASSUME DocumentsAssumption == MaxFaults \in Nat /\ IsFiniteSet(Tasks)

VARIABLES
  index,        \* the Credential service: the status of a credential, or "absent"
  store,        \* veramo.db: credentials with the status they were saved with
  agent,        \* veramoAgent
  screen,       \* CredentialsScreen
  tasks,
  faults,
  whole,        \* history: since the last refresh that ran through alone, no other began
  synced        \* history: what that refresh fetched

docVars == <<index, store, agent, screen, tasks, faults, whole, synced>>

Statuses == {"Active", "Revoked"}
Documents == [id : Credentials, status : Statuses]
Published == {d \in Documents : index[d.id] = d.status}
Active(docs) == {d \in docs : d.status = "Active"}

NoScreen == [up |-> FALSE, loading |-> FALSE, syncing |-> FALSE, cards |-> {}]
Idle == [kind |-> "load", phase |-> "idle", here |-> FALSE, got |-> {}, todo |-> {},
         alone |-> FALSE]
Writing == {"delete", "save"}

DocumentsTypeOK ==
  /\ index \in [Credentials -> Statuses \cup {"absent"}]
  /\ store \subseteq Documents /\ synced \subseteq Documents
  /\ agent \in {"none", "opening", "ready"}
  /\ screen \in [up : BOOLEAN, loading : BOOLEAN, syncing : BOOLEAN, cards : SUBSET Documents]
  /\ tasks \in [Tasks ->
       [kind : {"load", "sync"},
        phase : {"idle", "start", "waiting", "fetch", "list", "read", "show"} \cup Writing,
        here : BOOLEAN, got : SUBSET Documents, todo : SUBSET Documents, alone : BOOLEAN]]
  /\ faults \in 0 .. MaxFaults
  /\ whole \in BOOLEAN

DocumentsInit ==
  /\ index = [c \in Credentials |-> "absent"]
  /\ store = {} /\ agent = "none" /\ screen = NoScreen
  /\ tasks = [t \in Tasks |-> Idle]
  /\ faults = 0 /\ whole = TRUE /\ synced = {}
-----------------------------------------------------------------------------
At(t, p) == tasks[t].phase = p
GoTo(t, p) == tasks' = [tasks EXCEPT ![t].phase = p]
Begin(t, kind) == tasks[t] = Idle /\ tasks' = [tasks EXCEPT ![t] =
                    [Idle EXCEPT !.kind = kind, !.phase = "start", !.here = TRUE]]
Fault == faults < MaxFaults /\ faults' = faults + 1
NoFault == UNCHANGED faults

\* Faulty variant: without the finally block of the refresh.
OverButSyncing(t) ==
  [screen EXCEPT !.loading = @ /\ ~tasks[t].here]

(* The finally blocks of a task that ends free the screen it belongs to. *)
Over(t) ==
  IF tasks[t].here
  THEN [screen EXCEPT !.loading = FALSE, !.syncing = @ /\ tasks[t].kind = "load"]
  ELSE screen

(* A refresh that fails does not come to its load. *)
Fails(t) ==
  /\ Fault
  /\ screen' = Over(t)
  /\ tasks' = [tasks EXCEPT ![t] = Idle]

(* The Credential service records a credential, or learns of its revocation. *)
Publish(c) ==
  /\ index[c] # "Revoked"
  /\ index' = [index EXCEPT ![c] = IF @ = "absent" THEN "Active" ELSE "Revoked"]
  /\ UNCHANGED <<store, agent, screen, tasks, faults, whole, synced>>
-----------------------------------------------------------------------------
(* CredentialsScreen *)

Mount(t) ==
  /\ ~screen.up
  /\ screen' = [NoScreen EXCEPT !.up = TRUE, !.loading = TRUE]
  /\ Begin(t, "load")
  /\ UNCHANGED <<index, store, agent, faults, whole, synced>>

(* The lock takes the tabs down, the screen with them. *)
Unmount ==
  /\ screen.up
  /\ screen' = NoScreen
  /\ tasks' = [t \in Tasks |-> [tasks[t] EXCEPT !.here = FALSE]]
  /\ UNCHANGED <<index, store, agent, faults, whole, synced>>

SyncFromBackend(t) ==
  /\ screen.up /\ ~screen.syncing
  /\ screen' = [screen EXCEPT !.syncing = TRUE]
  /\ Begin(t, "sync")
  /\ UNCHANGED <<index, store, agent, faults, whole, synced>>

ListCredentials(t) ==
  /\ At(t, "read")
  /\ \/ NoFault /\ UNCHANGED screen
        /\ tasks' = [tasks EXCEPT ![t].phase = "show", ![t].got = Active(store)]
     \/ Fails(t)
  /\ UNCHANGED <<index, store, agent, whole, synced>>

SetCards(t) ==
  /\ At(t, "show")
  /\ screen' = [Over(t) EXCEPT !.cards = IF tasks[t].here THEN tasks[t].got ELSE @]
  /\ tasks' = [tasks EXCEPT ![t] = Idle]
  /\ UNCHANGED <<index, store, agent, faults, whole, synced>>

(* The system ends the app; what veramo.db holds by then stays. *)
Kill ==
  /\ Fault
  /\ agent' = "none" /\ screen' = NoScreen
  /\ tasks' = [t \in Tasks |-> Idle]
  /\ UNCHANGED <<index, store, whole, synced>>
-----------------------------------------------------------------------------
(* veramoAgent *)

Opened(t) == IF tasks[t].kind = "sync" THEN "fetch" ELSE "read"

Initialize(t) ==
  /\ At(t, "start")
  /\ IF agent = "ready"
     THEN GoTo(t, Opened(t)) /\ UNCHANGED agent
     ELSE GoTo(t, "waiting") /\ agent' = "opening"
  /\ UNCHANGED <<index, store, screen, faults, whole, synced>>

(* Everyone who has asked meanwhile shares the outcome, and may ask again. *)
InitializeAgent ==
  /\ agent = "opening"
  /\ \/ /\ agent' = "ready" /\ NoFault
        /\ tasks' = [t \in Tasks |-> IF At(t, "waiting")
                                     THEN [tasks[t] EXCEPT !.phase = Opened(t)] ELSE tasks[t]]
        /\ UNCHANGED screen
     \/ /\ agent' = "none" /\ Fault
        /\ tasks' = [t \in Tasks |-> IF At(t, "waiting") THEN Idle ELSE tasks[t]]
        /\ LET ended == {t \in Tasks : At(t, "waiting") /\ tasks[t].here}
           IN screen' = [screen EXCEPT
                !.loading = @ /\ \A t \in ended : tasks[t].kind = "sync",
                !.syncing = @ /\ \A t \in ended : tasks[t].kind = "load"]
  /\ UNCHANGED <<index, store, whole, synced>>
-----------------------------------------------------------------------------
(* credentialService.fetchFromBackend *)

Fetch(t) ==
  /\ At(t, "fetch")
  /\ \/ NoFault /\ UNCHANGED screen
        /\ tasks' = [tasks EXCEPT ![t].phase = "list", ![t].got = Published]
     \/ Fails(t)
  /\ UNCHANGED <<index, store, agent, whole, synced>>

(* Two refreshes that write at once are neither of them alone. *)
ListExisting(t) ==
  /\ At(t, "list")
  /\ LET others == {u \in Tasks \ {t} : tasks[u].phase \in Writing}
     IN tasks' = [u \in Tasks |->
          IF u = t THEN [tasks[t] EXCEPT !.phase = "delete", !.todo = store, !.alone = others = {}]
          ELSE IF u \in others THEN [tasks[u] EXCEPT !.alone = FALSE] ELSE tasks[u]]
  /\ whole' = FALSE
  /\ UNCHANGED <<index, store, agent, screen, faults, synced>>

(* A call that fails is only logged. *)
Try(t, d, new) ==
  /\ d \in tasks[t].todo
  /\ \/ /\ store' = new /\ NoFault
        /\ tasks' = [tasks EXCEPT ![t].todo = @ \ {d}]
     \/ /\ Fault /\ UNCHANGED store
        /\ tasks' = [tasks EXCEPT ![t].todo = @ \ {d}, ![t].alone = FALSE]

\* Faulty variant: keeping what is to be saved again anyway.
DeleteRevoked(t, d) ==
  /\ At(t, "delete")
  /\ Try(t, d, IF d.status = "Revoked" THEN store \ {d} ELSE store)
  /\ UNCHANGED <<index, agent, screen, whole, synced>>

DeleteCredential(t, d) ==
  /\ At(t, "delete")
  /\ Try(t, d, store \ {d})
  /\ UNCHANGED <<index, agent, screen, whole, synced>>

SaveCredential(t, d) ==
  /\ At(t, "save")
  /\ Try(t, d, store \cup {d})
  /\ UNCHANGED <<index, agent, screen, whole, synced>>

Deleted(t) ==
  /\ At(t, "delete") /\ tasks[t].todo = {}
  /\ tasks' = [tasks EXCEPT ![t].phase = "save", ![t].todo = tasks[t].got]
  /\ UNCHANGED <<index, store, agent, screen, faults, whole, synced>>

Saved(t) ==
  /\ At(t, "save") /\ tasks[t].todo = {}
  /\ screen' = [screen EXCEPT !.loading = @ \/ tasks[t].here]
  /\ tasks' = [tasks EXCEPT ![t].phase = "read", ![t].got = {}, ![t].alone = FALSE]
  /\ whole' = tasks[t].alone
  /\ synced' = IF tasks[t].alone THEN tasks[t].got ELSE {}
  /\ UNCHANGED <<index, store, agent, faults>>
-----------------------------------------------------------------------------
TaskStep(t) ==
  \/ Initialize(t) \/ Fetch(t) \/ ListExisting(t) \/ Deleted(t) \/ Saved(t)
  \/ \E d \in Documents : DeleteCredential(t, d) \/ SaveCredential(t, d)
  \/ ListCredentials(t) \/ SetCards(t)

DocumentsNext ==
  \/ Unmount \/ Kill \/ InitializeAgent
  \/ \E c \in Credentials : Publish(c)
  \/ \E t \in Tasks : Mount(t) \/ SyncFromBackend(t) \/ TaskStep(t)

DocumentsSpec == DocumentsInit /\ [][DocumentsNext]_docVars
-----------------------------------------------------------------------------
(* Properties *)

(* One refresh that runs through alone, no call of it failing, makes the   *)
(* wallet hold what it has fetched, no less and no older copy beside it,   *)
(* whatever was cut off, overlapped or failed before; and that stays until *)
(* another refresh begins.                                                 *)
WholeAfterARefresh == whole => store = synced

(* Tasks run on; the owner comes back, and presses Sync again and again. *)
DocumentsFairness ==
  /\ \A t \in Tasks : WF_docVars(TaskStep(t))
  /\ WF_docVars(InitializeAgent)
  /\ WF_docVars(\E t \in Tasks : Mount(t))
  /\ SF_docVars(\E t \in Tasks : SyncFromBackend(t))

DocumentsFairSpec == DocumentsSpec /\ DocumentsFairness

(* However refreshes were cut off, overlapped or failed, the wallet comes  *)
(* to hold what the Credential service has, once its screen is left alone. *)
RefreshesConverge ==
  (<>[][~Unmount]_docVars) => []<>(whole /\ store = Published)
=============================================================================
