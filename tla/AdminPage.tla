------------------------------- MODULE AdminPage -------------------------------
(***************************************************************************)
(* A page of the administration console that lists the accreditations its  *)
(* account has issued, issues more, and opens a panel of details where one *)
(* can be verified and revoked.  The member-states page has one of these,  *)
(* the government page two (ministries and business registries), the       *)
(* universities page one; the services behind it are AccreditationService  *)
(* (Angular and C#) with its index, and the registry on the chain.         *)
(*                                                                         *)
(* The root's page asks the service to send its transactions; the others   *)
(* send theirs through MetaMask and have the service record them.  Answers *)
(* come in any order, and are for the page as it is by then.               *)
(*                                                                         *)
(* Left out: what a verification finds (AccreditationRegistry has that; a  *)
(* verdict here is the accreditation it is on), the forms' contents, error *)
(* texts, and the log-out of a page that has no signer (AdminSession; here *)
(* the page is left).                                                      *)
(***************************************************************************)
EXTENDS Naturals, FiniteSets

CONSTANTS
  Ids,          \* accreditations there may come to be
  NoId,
  Loads, Checks, Txs    \* requests of a kind that may be under way at once

ASSUME PageAssumption == NoId \notin Ids

VARIABLES
  chain,        \* AccreditationRegistry: the status of each
  index,        \* the Accreditation service's rows
  viaWallet,    \* FALSE on the root's page
  view,         \* the page's signals
  loads, checks, txs,
  told,         \* history: what the page on display was told of its own changes
  dated,        \* history: the rows shown are not those of the newest load
  early,        \* history: the checks, on others, that the panel was opened during
  stray         \* history: the verdict shown is of one of these

panelHistory == <<early, stray>>
pageVars == <<chain, index, viaWallet, view, loads, checks, txs, told, dated, panelHistory>>
world == <<chain, index, viaWallet>>

Status == {"none", "Active", "Revoked"}
Rows == [Ids -> Status]
NoRows == [id \in Ids |-> "none"]
NoItem == [id |-> NoId, status |-> "none"]
NoLoad == [at |-> "idle", rows |-> NoRows, late |-> FALSE]
NoTx == [kind |-> "none", id |-> NoId, at |-> "idle", here |-> FALSE]

NewView == [up |-> TRUE, rows |-> NoRows, loading |-> FALSE, selected |-> NoItem,
            verdict |-> NoId, verifying |-> FALSE, revoking |-> FALSE,
            submitting |-> FALSE]
NoView == [NewView EXCEPT !.up = FALSE]

PageTypeOK ==
  /\ chain \in Rows /\ index \in Rows /\ told \in Rows
  /\ view \in [up : BOOLEAN, rows : Rows, loading : BOOLEAN,
               selected : [id : Ids \cup {NoId}, status : Status],
               verdict : Ids \cup {NoId}, verifying : BOOLEAN,
               revoking : BOOLEAN, submitting : BOOLEAN]
  /\ loads \in [Loads -> [at : {"idle", "asked", "answer"}, rows : Rows, late : BOOLEAN]]
  /\ checks \in [Checks -> Ids \cup {NoId}]
  /\ txs \in [Txs -> [kind : {"none", "issue", "revoke"}, id : Ids \cup {NoId},
                      at : {"idle", "send", "record", "answer"}, here : BOOLEAN]]
  /\ {viaWallet, dated} \subseteq BOOLEAN /\ stray \in BOOLEAN
  /\ early \subseteq Checks

PageInit ==
  /\ chain \in [Ids -> {"none", "Active"}] /\ index = chain
  /\ viaWallet \in BOOLEAN
  /\ view = NoView
  /\ loads = [l \in Loads |-> NoLoad]
  /\ checks = [c \in Checks |-> NoId]
  /\ txs = [t \in Txs |-> NoTx]
  /\ told = NoRows /\ dated = FALSE /\ early = {} /\ stray = FALSE

-----------------------------------------------------------------------------
(* The list.                                                                *)

(* The list is asked for; whatever was asked before is no longer the newest. *)
Load(v) ==
  /\ view' = [v EXCEPT !.loading = TRUE]
  /\ \E l \in Loads :
       /\ loads[l] = NoLoad
       /\ loads' = [m \in Loads |->
                     IF m = l THEN [NoLoad EXCEPT !.at = "asked"]
                     ELSE [loads[m] EXCEPT !.late = loads[m] # NoLoad]]

Enter ==
  /\ ~view.up
  /\ Load(NewView)
  /\ dated' = TRUE
  /\ UNCHANGED <<world, checks, txs, told, panelHistory>>

(* The page goes and answers to it are for nobody, but what was begun goes on. *)
Leave ==
  /\ view.up
  /\ view' = NoView
  /\ loads' = [l \in Loads |-> NoLoad]
  /\ checks' = [c \in Checks |-> NoId]
  /\ txs' = [t \in Txs |-> [txs[t] EXCEPT !.here = FALSE]]
  /\ told' = NoRows /\ dated' = FALSE /\ early' = {} /\ stray' = FALSE
  /\ UNCHANGED world

Refresh ==
  /\ view.up /\ ~view.loading
  /\ Load(view)
  /\ UNCHANGED <<world, checks, txs, told, dated, panelHistory>>

List(l) ==
  /\ loads[l].at = "asked"
  /\ loads' = [loads EXCEPT ![l].at = "answer", ![l].rows = index]
  /\ UNCHANGED <<world, view, checks, txs, told, dated, panelHistory>>

Listed(l) ==
  /\ loads[l].at = "answer"
  /\ view' = [view EXCEPT !.rows = loads[l].rows, !.loading = FALSE]
  /\ loads' = [loads EXCEPT ![l] = NoLoad]
  /\ dated' = loads[l].late
  /\ UNCHANGED <<world, checks, txs, told, panelHistory>>

ListFails(l) ==
  /\ loads[l] # NoLoad
  /\ view' = [view EXCEPT !.loading = FALSE]
  /\ loads' = [loads EXCEPT ![l] = NoLoad]
  /\ dated' = (dated \/ ~loads[l].late)
  /\ UNCHANGED <<world, checks, txs, told, panelHistory>>

-----------------------------------------------------------------------------
(* The panel, which covers the list while it is open.                       *)

Inspect(id) ==
  /\ view.up /\ view.selected = NoItem /\ view.rows[id] # "none"
  /\ view' = [view EXCEPT !.selected = [id |-> id, status |-> view.rows[id]],
                          !.verdict = NoId]
  /\ early' = {c \in Checks : checks[c] \notin {NoId, id}} /\ stray' = FALSE
  /\ UNCHANGED <<world, loads, checks, txs, told, dated>>

CloseDetails ==
  /\ view.selected # NoItem
  /\ view' = [view EXCEPT !.selected = NoItem, !.verdict = NoId]
  /\ early' = {} /\ stray' = FALSE
  /\ UNCHANGED <<world, loads, checks, txs, told, dated>>

StartCheck(id) ==
  \E c \in Checks : checks[c] = NoId /\ checks' = [checks EXCEPT ![c] = id]

VerifySelected ==
  /\ view.selected # NoItem /\ ~view.verifying
  /\ view' = [view EXCEPT !.verifying = TRUE]
  /\ StartCheck(view.selected.id)
  /\ UNCHANGED <<world, loads, txs, told, dated, panelHistory>>

Verified(c) ==
  /\ checks[c] # NoId
  /\ view' = [view EXCEPT !.verdict = checks[c], !.verifying = FALSE]
  /\ checks' = [checks EXCEPT ![c] = NoId]
  /\ early' = early \ {c} /\ stray' = (c \in early)
  /\ UNCHANGED <<world, loads, txs, told, dated>>

\* Faulty variant: the error is shown and nothing else.
VerifyFailsBusy(c) ==
  /\ checks[c] # NoId
  /\ checks' = [checks EXCEPT ![c] = NoId]
  /\ early' = early \ {c}
  /\ UNCHANGED <<world, view, loads, txs, told, dated, stray>>

VerifyFails(c) ==
  /\ checks[c] # NoId
  /\ view' = [view EXCEPT !.verifying = FALSE]
  /\ checks' = [checks EXCEPT ![c] = NoId]
  /\ early' = early \ {c}
  /\ UNCHANGED <<world, loads, txs, told, dated, stray>>

-----------------------------------------------------------------------------
(* Transactions.                                                            *)

Start(t, kind, id) ==
  /\ txs[t] = NoTx
  /\ txs' = [txs EXCEPT ![t] = [kind |-> kind, id |-> id, at |-> "send", here |-> TRUE]]
  /\ UNCHANGED <<world, loads, checks, told, dated, panelHistory>>

Submit(t, id) ==
  /\ view.up /\ ~view.submitting
  /\ chain[id] = "none" /\ \A u \in Txs : txs[u].id # id
  /\ Start(t, "issue", id)
  /\ view' = [view EXCEPT !.submitting = TRUE]

RevokeSelected(t) ==
  /\ view.selected.status = "Active" /\ ~view.revoking
  /\ Start(t, "revoke", view.selected.id)
  /\ view' = [view EXCEPT !.revoking = TRUE]

(* MetaMask, or the service for the root: what the chain would not accept is *)
(* not sent.                                                                 *)
Send(t) ==
  /\ txs[t].at = "send"
  /\ chain[txs[t].id] = IF txs[t].kind = "issue" THEN "none" ELSE "Active"
  /\ chain' = [chain EXCEPT ![txs[t].id] = IF txs[t].kind = "issue" THEN "Active" ELSE "Revoked"]
  /\ txs' = [txs EXCEPT ![t].at = "record"]
  /\ UNCHANGED <<index, viaWallet, view, loads, checks, told, dated, panelHistory>>

IndexIssued(rows, id) == IF rows[id] = "none" THEN [rows EXCEPT ![id] = "Active"] ELSE rows
IndexRevoked(rows, id) == IF rows[id] = "none" THEN rows ELSE [rows EXCEPT ![id] = "Revoked"]

(* The service has seen the transaction confirmed and keeps its row up, except *)
(* that of a revocation which it has sent itself.                              *)
Record(t) ==
  /\ txs[t].at = "record"
  /\ LET id == txs[t].id
     IN  index' = IF txs[t].kind = "issue" THEN IndexIssued(index, id)
                  ELSE IF viaWallet THEN IndexRevoked(index, id)
                  ELSE index
  /\ txs' = [txs EXCEPT ![t].at = "answer"]
  /\ UNCHANGED <<chain, viaWallet, view, loads, checks, told, dated, panelHistory>>

Told(t) ==
  told' = [told EXCEPT ![txs[t].id] =
            IF txs[t].kind = "issue" THEN "Active" ELSE "Revoked"]

Issued(t) ==
  /\ txs[t].at = "answer" /\ txs[t].kind = "issue" /\ txs[t].here
  /\ Told(t)
  /\ Load([view EXCEPT !.submitting = FALSE])
  /\ txs' = [txs EXCEPT ![t] = NoTx]
  /\ UNCHANGED <<world, checks, dated, panelHistory>>

\* Faulty variant: the list is not asked for again.
RevokedUnlisted(t) ==
  /\ txs[t].at = "answer" /\ txs[t].kind = "revoke" /\ txs[t].here
  /\ Told(t)
  /\ view' = [view EXCEPT !.revoking = FALSE]
  /\ txs' = [txs EXCEPT ![t] = NoTx]
  /\ UNCHANGED <<world, loads, checks, dated, panelHistory>>

Revoked(t) ==
  /\ txs[t].at = "answer" /\ txs[t].kind = "revoke" /\ txs[t].here
  /\ Told(t)
  /\ LET v == [view EXCEPT !.revoking = FALSE]
     IN  IF view.selected = NoItem
         THEN Load(v) /\ UNCHANGED checks
         ELSE Load([v EXCEPT !.verifying = TRUE]) /\ StartCheck(view.selected.id)
  /\ txs' = [txs EXCEPT ![t] = NoTx]
  /\ UNCHANGED <<world, dated, panelHistory>>

(* A transaction that is not sent, is not recorded, or whose answer is lost. *)
Fails(t) ==
  /\ txs[t] # NoTx /\ txs[t].here
  /\ view' = IF txs[t].kind = "issue" THEN [view EXCEPT !.submitting = FALSE]
             ELSE [view EXCEPT !.revoking = FALSE]
  /\ txs' = [txs EXCEPT ![t] = NoTx]
  /\ UNCHANGED <<world, loads, checks, told, dated, panelHistory>>

(* What a page left before had under way ends, one way or the other. *)
Dropped(t) ==
  /\ txs[t] # NoTx /\ ~txs[t].here
  /\ txs' = [txs EXCEPT ![t] = NoTx]
  /\ UNCHANGED <<world, view, loads, checks, told, dated, panelHistory>>

(* Another console of the account; and the events of revocations, which alone  *)
(* the service consumes, in its own time.                                      *)
RevokedElsewhere(id) ==
  /\ chain[id] = "Active"
  /\ chain' = [chain EXCEPT ![id] = "Revoked"]
  /\ UNCHANGED <<index, viaWallet, view, loads, checks, txs, told, dated, panelHistory>>

Synced(id) ==
  /\ chain[id] = "Revoked"
  /\ index' = IndexRevoked(index, id)
  /\ UNCHANGED <<chain, viaWallet, view, loads, checks, txs, told, dated, panelHistory>>

PageNext ==
  \/ Enter \/ Leave \/ Refresh \/ CloseDetails \/ VerifySelected
  \/ \E l \in Loads : List(l) \/ Listed(l) \/ ListFails(l)
  \/ \E c \in Checks : Verified(c) \/ VerifyFails(c)
  \/ \E id \in Ids : Inspect(id) \/ RevokedElsewhere(id) \/ Synced(id)
  \/ \E t \in Txs : \/ RevokeSelected(t) \/ Send(t) \/ Record(t)
                    \/ Issued(t) \/ Revoked(t) \/ Fails(t) \/ Dropped(t)
                    \/ \E id \in Ids : Submit(t, id)

PageSpec == PageInit /\ [][PageNext]_pageVars

-----------------------------------------------------------------------------
(* The panel's verdict is on the accreditation it shows.  A check names what   *)
(* was selected when it was asked for and its answer does not look at what is  *)
(* selected now; the exception is the verdict of a check that was under way,   *)
(* on another, when the panel was opened.                                      *)
VerdictIsOfTheSelected ==
  view.selected # NoItem /\ view.verdict # NoId
    => view.verdict = view.selected.id \/ stray

(* A change that the page was told it has made is in the list it shows once    *)
(* nothing is being loaded.  The change went through the chain, the service    *)
(* and its index, which events write too; the exceptions are a newest load     *)
(* that failed, an older one that was answered after it, and a revocation on   *)
(* the root's page: the service answers that before its index has it, and the  *)
(* list, loaded upon the answer, may still show the row as Active.             *)
OwnChangesAreListed ==
  view.up /\ (\A l \in Loads : loads[l] = NoLoad) /\ ~dated
    => \A id \in Ids :
         /\ told[id] # "none" => view.rows[id] # "none"
         /\ told[id] = "Revoked" /\ viaWallet => view.rows[id] = "Revoked"

(* What the page says of accreditations, both at once. *)
PageIsHonest == VerdictIsOfTheSelected /\ OwnChangesAreListed

(* A button is disabled only while what disabled it is under way: every way    *)
(* that a request can end frees it, also when two of a kind overlapped.        *)
NoButtonIsStuck ==
  /\ view.loading => \E l \in Loads : loads[l] # NoLoad
  /\ view.verifying => \E c \in Checks : checks[c] # NoId
  /\ view.revoking => \E t \in Txs : txs[t].kind = "revoke" /\ txs[t].here
  /\ view.submitting => \E t \in Txs : txs[t].kind = "issue" /\ txs[t].here
=============================================================================
