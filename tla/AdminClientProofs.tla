--------------------------- MODULE AdminClientProofs ---------------------------
(***************************************************************************)
(* Proofs about AdminPage, for any accreditations and any number of        *)
(* requests under way, and about AdminSession, for any accounts, any       *)
(* number of connections to MetaMask and of page initialisations.          *)
(*                                                                         *)
(* ButtonsInv ties each busy flag of the page to a request of its kind.    *)
(* HonestInv is about the list: what the page is told of is in the index   *)
(* by then, the index only grows, and so the answer to the newest load,    *)
(* which was asked for after the last thing the page was told, shows all   *)
(* of it.  ChecksFit is for the panel: what is being checked while it is   *)
(* open is what it shows, or was begun before it was opened.               *)
(*                                                                         *)
(* SessionInv ties each connection that has not outlived its session to    *)
(* the session's account: then the signer it sets is the session's, or a   *)
(* login's that is still under way, and a page's initialisation selects    *)
(* the context of the account it was begun for.                            *)
(***************************************************************************)
EXTENDS AdminPage, AdminSession, TLAPS

View == [up : BOOLEAN, rows : Rows, loading : BOOLEAN,
         selected : [id : Ids \cup {NoId}, status : Status],
         verdict : Ids \cup {NoId}, verifying : BOOLEAN,
         revoking : BOOLEAN, submitting : BOOLEAN]
LoadRecord == [at : {"idle", "asked", "answer"}, rows : Rows, late : BOOLEAN]
TxRecord == [kind : {"none", "issue", "revoke"}, id : Ids \cup {NoId},
             at : {"idle", "send", "record", "answer"}, here : BOOLEAN]

-----------------------------------------------------------------------------
(* Types *)

PageTypes ==
  /\ chain \in Rows /\ index \in Rows /\ told \in Rows
  /\ view \in View
  /\ loads \in [Loads -> LoadRecord]
  /\ checks \in [Checks -> Ids \cup {NoId}]
  /\ txs \in [Txs -> TxRecord]
  /\ viaWallet \in BOOLEAN /\ dated \in BOOLEAN
  /\ early \subseteq Checks /\ stray \in BOOLEAN

\* The type invariant, with the records it is about named.
LEMMA TypeOKMeans == PageTypeOK <=> PageTypes
  BY DEF PageTypes, PageTypeOK, View, LoadRecord, TxRecord

\* The values the page starts from are of their types.
LEMMA Initials ==
  /\ NoRows \in Rows
  /\ NoLoad \in LoadRecord
  /\ NoTx \in TxRecord
  /\ NewView \in View /\ NoView \in View
  BY DEF NoRows, Rows, Status, NoLoad, LoadRecord, NoTx, TxRecord, NewView, NoView, NoItem, View

\* What asking for the list does to the page and to the requests for it.
LEMMA LoadEffect ==
  ASSUME loads \in [Loads -> LoadRecord], NEW v \in View, Load(v)
  PROVE  /\ view' = [v EXCEPT !.loading = TRUE]
         /\ view' \in View
         /\ loads' \in [Loads -> LoadRecord]
         /\ \E l \in Loads :
              /\ loads[l] = NoLoad
              /\ loads'[l].at = "asked" /\ ~loads'[l].late
              /\ \A m \in Loads \ {l} :
                   /\ loads'[m].at = loads[m].at /\ loads'[m].rows = loads[m].rows
                   /\ loads'[m].late <=> loads[m] # NoLoad
<1>1. view' = [v EXCEPT !.loading = TRUE]
  BY DEF Load
<1>2. view' \in View
  BY <1>1 DEF View
<1>3. PICK l \in Loads :
        /\ loads[l] = NoLoad
        /\ loads' = [m \in Loads |->
                      IF m = l THEN [NoLoad EXCEPT !.at = "asked"]
                      ELSE [loads[m] EXCEPT !.late = loads[m] # NoLoad]]
  BY DEF Load
<1>4. [NoLoad EXCEPT !.at = "asked"] \in LoadRecord
  BY Initials DEF LoadRecord, NoLoad
<1>5. \A m \in Loads : [loads[m] EXCEPT !.late = loads[m] # NoLoad] \in LoadRecord
  BY DEF LoadRecord
<1>6. loads' \in [Loads -> LoadRecord]
  BY <1>3, <1>4, <1>5
<1>7. loads'[l] = [NoLoad EXCEPT !.at = "asked"]
  BY <1>3
<1>8. loads'[l].at = "asked" /\ ~loads'[l].late
  BY <1>7 DEF NoLoad
<1>9. ASSUME NEW m \in Loads \ {l}
      PROVE  /\ loads'[m].at = loads[m].at /\ loads'[m].rows = loads[m].rows
             /\ loads'[m].late <=> loads[m] # NoLoad
  <2>1. loads'[m] = [loads[m] EXCEPT !.late = loads[m] # NoLoad]
    BY <1>3
  <2>2. loads[m] \in LoadRecord
    OBVIOUS
  <2> QED
    BY <2>1, <2>2 DEF LoadRecord
<1> QED
  BY <1>1, <1>2, <1>3, <1>6, <1>8, <1>9

\* Each step keeps the types.
LEMMA TypesKept ==
  ASSUME PageTypes, [PageNext]_pageVars
  PROVE  PageTypes'
<1> USE Initials DEF PageTypes
<1>1. CASE Enter
  BY <1>1, LoadEffect DEF Enter, world, panelHistory, Rows, Status
<1>2. CASE Leave
  <2>1. txs' \in [Txs -> TxRecord]
    BY <1>2 DEF Leave, TxRecord
  <2> QED
    BY <1>2, <2>1 DEF Leave, world, panelHistory
<1>3. CASE Refresh
  BY <1>3, LoadEffect DEF Refresh, world, panelHistory
<1>4. CASE CloseDetails
  <2>1. view' \in View
    BY <1>4 DEF CloseDetails, View, NoItem, Status
  <2> QED
    BY <1>4, <2>1 DEF CloseDetails, world, panelHistory
<1>5. CASE VerifySelected
  <2>1. view.selected.id \in Ids \cup {NoId}
    BY DEF View
  <2>2. checks' \in [Checks -> Ids \cup {NoId}]
    BY <1>5, <2>1 DEF VerifySelected, StartCheck
  <2>3. view' \in View
    BY <1>5 DEF VerifySelected, View
  <2> QED
    BY <1>5, <2>2, <2>3 DEF VerifySelected, world, panelHistory
<1>6. CASE \E l \in Loads : List(l)
  <2>1. PICK l \in Loads : List(l)
    BY <1>6
  <2>2. [loads[l] EXCEPT !.at = "answer", !.rows = index] \in LoadRecord
    BY DEF LoadRecord
  <2>3. loads' \in [Loads -> LoadRecord]
    BY <2>1, <2>2 DEF List
  <2> QED
    BY <2>1, <2>3 DEF List, world, panelHistory
<1>7. CASE \E l \in Loads : Listed(l)
  <2>1. PICK l \in Loads : Listed(l)
    BY <1>7
  <2>2. loads[l].rows \in Rows /\ loads[l].late \in BOOLEAN
    BY DEF LoadRecord
  <2>3. view' \in View
    BY <2>1, <2>2 DEF Listed, View
  <2>4. loads' \in [Loads -> LoadRecord]
    BY <2>1 DEF Listed
  <2> QED
    BY <2>1, <2>2, <2>3, <2>4 DEF Listed, world, panelHistory
<1>8. CASE \E l \in Loads : ListFails(l)
  <2>1. PICK l \in Loads : ListFails(l)
    BY <1>8
  <2>2. view' \in View
    BY <2>1 DEF ListFails, View
  <2>3. loads' \in [Loads -> LoadRecord]
    BY <2>1 DEF ListFails
  <2>4. dated' \in BOOLEAN
    BY <2>1 DEF ListFails
  <2> QED
    BY <2>1, <2>2, <2>3, <2>4 DEF ListFails, world, panelHistory
<1>9. CASE \E c \in Checks : Verified(c) \/ VerifyFails(c)
  <2>1. PICK c \in Checks : Verified(c) \/ VerifyFails(c)
    BY <1>9
  <2>2. checks' \in [Checks -> Ids \cup {NoId}]
    BY <2>1 DEF Verified, VerifyFails
  <2>3. view' \in View
    BY <2>1 DEF Verified, VerifyFails, View
  <2>4. early' \subseteq Checks
    BY <2>1 DEF Verified, VerifyFails
  <2>5. stray' \in BOOLEAN
    <3>1. CASE Verified(c)
      <4>1. stray' = (c \in early)
        BY <3>1 DEF Verified
      <4> QED
        BY <4>1
    <3>2. CASE VerifyFails(c)
      BY <3>2 DEF VerifyFails
    <3> QED
      BY <2>1, <3>1, <3>2
  <2> QED
    BY <2>1, <2>2, <2>3, <2>4, <2>5 DEF Verified, VerifyFails, world, panelHistory
<1>10. CASE \E id \in Ids : Inspect(id)
  <2>1. PICK id \in Ids : Inspect(id)
    BY <1>10
  <2>2. view.rows[id] \in Status
    BY DEF View, Rows
  <2>3. view' \in View
    BY <2>1, <2>2 DEF Inspect, View
  <2> QED
    BY <2>1, <2>3 DEF Inspect, world, panelHistory
<1>11. CASE \E id \in Ids : RevokedElsewhere(id)
  <2>1. chain' \in Rows
    BY <1>11 DEF RevokedElsewhere, Rows, Status
  <2> QED
    BY <1>11, <2>1 DEF RevokedElsewhere, panelHistory
<1>12. CASE \E id \in Ids : Synced(id)
  <2>1. index' \in Rows
    BY <1>12 DEF Synced, IndexRevoked, Rows, Status
  <2> QED
    BY <1>12, <2>1 DEF Synced, panelHistory
<1>13. CASE \E t \in Txs : RevokeSelected(t) \/ \E id \in Ids : Submit(t, id)
  <2>1. PICK t \in Txs : RevokeSelected(t) \/ \E id \in Ids : Submit(t, id)
    BY <1>13
  <2>2. view' \in View
    BY <2>1 DEF RevokeSelected, Submit, View
  <2>3. PICK kind \in {"issue", "revoke"}, id \in Ids \cup {NoId} : Start(t, kind, id)
    BY <2>1 DEF RevokeSelected, Submit, View
  <2>4. [kind |-> kind, id |-> id, at |-> "send", here |-> TRUE] \in TxRecord
    BY DEF TxRecord
  <2>5. txs' \in [Txs -> TxRecord]
    BY <2>3, <2>4 DEF Start
  <2> QED
    BY <2>2, <2>3, <2>5 DEF Start, world, panelHistory
<1>14. CASE \E t \in Txs : Send(t)
  <2>1. PICK t \in Txs : Send(t)
    BY <1>14
  <2>2. chain' \in Rows
    BY <2>1 DEF Send, Rows, Status
  <2>3. [txs[t] EXCEPT !.at = "record"] \in TxRecord
    BY DEF TxRecord
  <2>4. txs' \in [Txs -> TxRecord]
    BY <2>1, <2>3 DEF Send
  <2> QED
    BY <2>1, <2>2, <2>4 DEF Send, panelHistory
<1>15. CASE \E t \in Txs : Record(t)
  <2>1. PICK t \in Txs : Record(t)
    BY <1>15
  <2>2. index' \in Rows
    BY <2>1 DEF Record, IndexIssued, IndexRevoked, Rows, Status
  <2>3. [txs[t] EXCEPT !.at = "answer"] \in TxRecord
    BY DEF TxRecord
  <2>4. txs' \in [Txs -> TxRecord]
    BY <2>1, <2>3 DEF Record
  <2> QED
    BY <2>1, <2>2, <2>4 DEF Record, panelHistory
<1>16. CASE \E t \in Txs : Issued(t) \/ Revoked(t)
  <2>1. PICK t \in Txs : Issued(t) \/ Revoked(t)
    BY <1>16
  <2>2. told' \in Rows
    BY <2>1 DEF Issued, Revoked, Told, Rows, Status
  <2>3. txs' \in [Txs -> TxRecord]
    BY <2>1 DEF Issued, Revoked
  <2>4. PICK v \in View : Load(v)
    BY <2>1 DEF Issued, Revoked, View
  <2>5. view.selected.id \in Ids \cup {NoId}
    BY DEF View
  <2>6. checks' \in [Checks -> Ids \cup {NoId}]
    BY <2>1, <2>5 DEF Issued, Revoked, StartCheck
  <2> QED
    BY <2>1, <2>2, <2>3, <2>4, <2>6, LoadEffect DEF Issued, Revoked, world, panelHistory
<1>17. CASE \E t \in Txs : Fails(t) \/ Dropped(t)
  <2>1. PICK t \in Txs : Fails(t) \/ Dropped(t)
    BY <1>17
  <2>2. txs' \in [Txs -> TxRecord]
    BY <2>1 DEF Fails, Dropped
  <2>3. view' \in View
    BY <2>1 DEF Fails, Dropped, View
  <2> QED
    BY <2>1, <2>2, <2>3 DEF Fails, Dropped, world, panelHistory
<1>18. CASE UNCHANGED pageVars
  BY <1>18 DEF pageVars, panelHistory
<1> QED
  BY <1>1, <1>2, <1>3, <1>4, <1>5, <1>6, <1>7, <1>8, <1>9, <1>10, <1>11, <1>12, <1>13,
     <1>14, <1>15, <1>16, <1>17, <1>18 DEF PageNext

\* The types hold to begin with.
LEMMA InitTypes == PageInit => PageTypes
  BY Initials DEF PageInit, PageTypes, Rows, Status

\* The page's variables are well typed in every reachable state.
THEOREM PageTypeCorrect == PageSpec => []PageTypeOK
<1>1. PageInit => PageTypes
  BY InitTypes
<1>2. PageTypes /\ [PageNext]_pageVars => PageTypes'
  BY TypesKept
<1>3. PageTypes => PageTypeOK
  BY TypeOKMeans
<1> QED
  BY <1>1, <1>2, <1>3, PTL DEF PageSpec

-----------------------------------------------------------------------------
(* Buttons *)

\* The panel shows nothing, or an accreditation.
SelectedIsItem == view.selected = NoItem \/ view.selected.id \in Ids

LoadingIsLoad == view.loading => \E l \in Loads : loads[l] # NoLoad
VerifyingIsCheck == view.verifying => \E c \in Checks : checks[c] # NoId
RevokingIsTx == view.revoking => \E t \in Txs : txs[t].kind = "revoke" /\ txs[t].here
SubmittingIsTx == view.submitting => \E t \in Txs : txs[t].kind = "issue" /\ txs[t].here

\* The property in its four parts, one for a button.
LEMMA ButtonsMean ==
  NoButtonIsStuck <=> LoadingIsLoad /\ VerifyingIsCheck /\ RevokingIsTx /\ SubmittingIsTx
  BY DEF NoButtonIsStuck, LoadingIsLoad, VerifyingIsCheck, RevokingIsTx, SubmittingIsTx

\* A load that ends frees the list, whichever it was; another replaces it.
LEMMA LoadingKept ==
  ASSUME PageTypes, LoadingIsLoad, [PageNext]_pageVars
  PROVE  LoadingIsLoad'
<1> USE DEF PageTypes, LoadingIsLoad
<1>1. CASE \E v \in View : Load(v)
  <2>1. PICK v \in View : Load(v)
    BY <1>1
  <2>2. PICK l \in Loads : loads'[l].at = "asked"
    BY <2>1, LoadEffect
  <2>3. loads'[l] # NoLoad
    BY <2>2 DEF NoLoad
  <2> QED
    BY <2>3
<1>2. CASE loads' = loads /\ (view'.loading => view.loading)
  BY <1>2
<1>3. CASE ~view'.loading
  BY <1>3
<1>4. CASE \E l \in Loads : List(l)
  <2>1. PICK l \in Loads : List(l)
    BY <1>4
  <2>2. loads'[l].at = "answer"
    BY <2>1 DEF List, LoadRecord
  <2>3. loads'[l] # NoLoad
    BY <2>2 DEF NoLoad
  <2> QED
    BY <2>3
<1>5. CASE Enter \/ Refresh \/ \E t \in Txs : Issued(t) \/ Revoked(t)
  <2>1. \E v \in View : Load(v)
    BY <1>5, Initials DEF Enter, Refresh, Issued, Revoked, View
  <2> QED
    BY <2>1, <1>1
<1>6. CASE Leave \/ \E l \in Loads : Listed(l) \/ ListFails(l)
  <2>1. ~view'.loading
    BY <1>6 DEF Leave, NoView, NewView, Listed, ListFails, View
  <2> QED
    BY <2>1, <1>3
<1>7. CASE CloseDetails \/ VerifySelected \/ UNCHANGED pageVars
  BY <1>7, <1>2 DEF CloseDetails, VerifySelected, pageVars, View
<1>8. CASE \E c \in Checks : Verified(c) \/ VerifyFails(c)
  BY <1>8, <1>2 DEF Verified, VerifyFails, View
<1>9. CASE \E id \in Ids : Inspect(id) \/ RevokedElsewhere(id) \/ Synced(id)
  BY <1>9, <1>2 DEF Inspect, RevokedElsewhere, Synced, View
<1>10. CASE \E t \in Txs : \/ RevokeSelected(t) \/ Send(t) \/ Record(t)
                           \/ Fails(t) \/ Dropped(t)
                           \/ \E id \in Ids : Submit(t, id)
  BY <1>10, <1>2 DEF RevokeSelected, Send, Record, Fails, Dropped, Submit, Start, View
<1> QED
  BY <1>4, <1>5, <1>6, <1>7, <1>8, <1>9, <1>10 DEF PageNext

\* The panel opens only on a row of the list.
LEMMA SelectedKept ==
  ASSUME PageTypes, SelectedIsItem, [PageNext]_pageVars
  PROVE  SelectedIsItem'
<1> USE DEF PageTypes, SelectedIsItem
<1>1. CASE view'.selected \in {view.selected, NoItem}
  BY <1>1
<1>2. CASE Enter \/ Refresh \/ \E t \in Txs : Issued(t) \/ Revoked(t)
  BY <1>2, <1>1 DEF Enter, Refresh, Issued, Revoked, Load, NewView, View
<1>3. CASE Leave \/ CloseDetails \/ VerifySelected \/ UNCHANGED pageVars
  BY <1>3, <1>1 DEF Leave, NoView, NewView, CloseDetails, VerifySelected, pageVars, View
<1>4. CASE \E l \in Loads : List(l) \/ Listed(l) \/ ListFails(l)
  BY <1>4, <1>1 DEF List, Listed, ListFails, View
<1>5. CASE \E c \in Checks : Verified(c) \/ VerifyFails(c)
  BY <1>5, <1>1 DEF Verified, VerifyFails, View
<1>6. CASE \E id \in Ids : Inspect(id)
  BY <1>6 DEF Inspect, View
<1>7. CASE \E id \in Ids : RevokedElsewhere(id) \/ Synced(id)
  BY <1>7, <1>1 DEF RevokedElsewhere, Synced
<1>8. CASE \E t \in Txs : \/ RevokeSelected(t) \/ Send(t) \/ Record(t)
                          \/ Fails(t) \/ Dropped(t)
                          \/ \E id \in Ids : Submit(t, id)
  BY <1>8, <1>1 DEF RevokeSelected, Send, Record, Fails, Dropped, Submit, Start, View
<1> QED
  BY <1>2, <1>3, <1>4, <1>5, <1>6, <1>7, <1>8 DEF PageNext

\* A check is on an accreditation, so that it counts as one under way.
LEMMA VerifyingKept ==
  ASSUME PageTypes, SelectedIsItem, VerifyingIsCheck, [PageNext]_pageVars
  PROVE  VerifyingIsCheck'
<1> USE PageAssumption DEF PageTypes, VerifyingIsCheck
<1>1. CASE checks' = checks /\ (view'.verifying => view.verifying)
  BY <1>1
<1>2. CASE ~view'.verifying
  BY <1>2
<1>3. CASE view.selected # NoItem /\ StartCheck(view.selected.id)
  <2>1. view.selected.id \in Ids
    BY <1>3 DEF SelectedIsItem
  <2>2. PICK c \in Checks : checks' = [checks EXCEPT ![c] = view.selected.id]
    BY <1>3 DEF StartCheck
  <2>3. checks'[c] # NoId
    BY <2>1, <2>2
  <2> QED
    BY <2>3
<1>4. CASE Enter \/ Refresh \/ CloseDetails \/ UNCHANGED pageVars
  BY <1>4, <1>1 DEF Enter, Refresh, Load, NewView, CloseDetails, pageVars, View
<1>5. CASE Leave \/ \E c \in Checks : Verified(c) \/ VerifyFails(c)
  <2>1. ~view'.verifying
    BY <1>5 DEF Leave, NoView, NewView, Verified, VerifyFails, View
  <2> QED
    BY <2>1, <1>2
<1>6. CASE VerifySelected
  BY <1>6, <1>3 DEF VerifySelected
<1>7. CASE \E l \in Loads : List(l) \/ Listed(l) \/ ListFails(l)
  BY <1>7, <1>1 DEF List, Listed, ListFails, View
<1>8. CASE \E id \in Ids : Inspect(id) \/ RevokedElsewhere(id) \/ Synced(id)
  BY <1>8, <1>1 DEF Inspect, RevokedElsewhere, Synced, View
<1>9. CASE \E t \in Txs : \/ RevokeSelected(t) \/ Send(t) \/ Record(t)
                          \/ Fails(t) \/ Dropped(t)
                          \/ \E id \in Ids : Submit(t, id)
  BY <1>9, <1>1 DEF RevokeSelected, Send, Record, Fails, Dropped, Submit, Start, View
<1>10. CASE \E t \in Txs : Issued(t)
  BY <1>10, <1>1 DEF Issued, Load, View
<1>11. CASE \E t \in Txs : Revoked(t)
  <2>1. CASE view.selected = NoItem
    BY <1>11, <2>1, <1>1 DEF Revoked, Load, View
  <2>2. CASE view.selected # NoItem
    BY <1>11, <2>2, <1>3 DEF Revoked
  <2> QED
    BY <2>1, <2>2
<1> QED
  BY <1>4, <1>5, <1>6, <1>7, <1>8, <1>9, <1>10, <1>11 DEF PageNext

\* The buttons of an issue and of a revocation are each freed by their own kind only.
LEMMA TxButtonsKept ==
  ASSUME PageTypes, RevokingIsTx, SubmittingIsTx, [PageNext]_pageVars
  PROVE  RevokingIsTx' /\ SubmittingIsTx'
<1> USE DEF PageTypes, RevokingIsTx, SubmittingIsTx
<1>1. CASE /\ txs' = txs
           /\ view'.revoking => view.revoking
           /\ view'.submitting => view.submitting
  BY <1>1
<1>2. CASE Enter \/ Refresh \/ CloseDetails \/ VerifySelected \/ UNCHANGED pageVars
  BY <1>2, <1>1 DEF Enter, Refresh, Load, NewView, CloseDetails, VerifySelected, pageVars, View
<1>3. CASE Leave
  BY <1>3 DEF Leave, NoView, NewView
<1>4. CASE \E l \in Loads : List(l) \/ Listed(l) \/ ListFails(l)
  BY <1>4, <1>1 DEF List, Listed, ListFails, View
<1>5. CASE \E c \in Checks : Verified(c) \/ VerifyFails(c)
  BY <1>5, <1>1 DEF Verified, VerifyFails, View
<1>6. CASE \E id \in Ids : Inspect(id) \/ RevokedElsewhere(id) \/ Synced(id)
  BY <1>6, <1>1 DEF Inspect, RevokedElsewhere, Synced, View
<1>7. CASE \E t \in Txs : RevokeSelected(t) \/ \E id \in Ids : Submit(t, id)
  <2>1. PICK t \in Txs : RevokeSelected(t) \/ \E id \in Ids : Submit(t, id)
    BY <1>7
  <2>2. PICK kind \in {"issue", "revoke"}, id \in Ids \cup {NoId} :
          /\ txs[t] = NoTx
          /\ txs' = [txs EXCEPT ![t] = [kind |-> kind, id |-> id, at |-> "send", here |-> TRUE]]
          /\ view'.revoking => kind = "revoke" \/ view.revoking
          /\ view'.submitting => kind = "issue" \/ view.submitting
    BY <2>1 DEF RevokeSelected, Submit, Start, View
  <2>3. txs'[t].kind = kind /\ txs'[t].here
    BY <2>2
  <2>4. txs[t].kind = "none"
    BY <2>2 DEF NoTx
  <2>5. \A u \in Txs \ {t} : txs'[u] = txs[u]
    BY <2>2
  <2> QED
    BY <2>2, <2>3, <2>4, <2>5
<1>8. CASE \E t \in Txs : Send(t) \/ Record(t)
  <2>1. PICK t \in Txs : Send(t) \/ Record(t)
    BY <1>8
  <2>2. \A u \in Txs : txs'[u].kind = txs[u].kind /\ txs'[u].here = txs[u].here
    BY <2>1 DEF Send, Record, TxRecord
  <2>3. view' = view
    BY <2>1 DEF Send, Record
  <2> QED
    BY <2>2, <2>3
<1>9. CASE \E t \in Txs : Issued(t) \/ Revoked(t) \/ Fails(t) \/ Dropped(t)
  <2>1. PICK t \in Txs : Issued(t) \/ Revoked(t) \/ Fails(t) \/ Dropped(t)
    BY <1>9
  <2>2. \A u \in Txs \ {t} : txs'[u] = txs[u]
    BY <2>1 DEF Issued, Revoked, Fails, Dropped
  <2>3. view'.revoking => view.revoking /\ (txs[t].kind = "revoke" => ~txs[t].here)
    BY <2>1 DEF Issued, Revoked, Fails, Dropped, Load, View, TxRecord
  <2>4. view'.submitting => view.submitting /\ (txs[t].kind = "issue" => ~txs[t].here)
    BY <2>1 DEF Issued, Revoked, Fails, Dropped, Load, View, TxRecord
  <2> QED
    BY <2>2, <2>3, <2>4
<1> QED
  BY <1>2, <1>3, <1>4, <1>5, <1>6, <1>7, <1>8, <1>9 DEF PageNext

ButtonsInv ==
  PageTypes /\ SelectedIsItem /\ LoadingIsLoad /\ VerifyingIsCheck /\ RevokingIsTx /\ SubmittingIsTx

\* However requests overlap, fail, or outlive the page that made them, a button of the
\* page is disabled only while a request that will enable it is under way.
THEOREM NoButtonIsEverStuck == PageSpec => []NoButtonIsStuck
<1>1. PageInit => ButtonsInv
  <2>1. PageInit => SelectedIsItem /\ LoadingIsLoad /\ VerifyingIsCheck /\ RevokingIsTx /\ SubmittingIsTx
    BY DEF PageInit, NoView, NewView, SelectedIsItem, LoadingIsLoad, VerifyingIsCheck,
           RevokingIsTx, SubmittingIsTx
  <2> QED
    BY <2>1, InitTypes DEF ButtonsInv
<1>2. ButtonsInv /\ [PageNext]_pageVars => ButtonsInv'
  <2> SUFFICES ASSUME ButtonsInv, [PageNext]_pageVars
               PROVE  ButtonsInv'
    OBVIOUS
  <2>1. PageTypes' /\ SelectedIsItem' /\ LoadingIsLoad'
    BY TypesKept, SelectedKept, LoadingKept DEF ButtonsInv
  <2>2. VerifyingIsCheck' /\ RevokingIsTx' /\ SubmittingIsTx'
    BY VerifyingKept, TxButtonsKept DEF ButtonsInv
  <2> QED
    BY <2>1, <2>2 DEF ButtonsInv
<1>3. ButtonsInv => NoButtonIsStuck
  BY ButtonsMean DEF ButtonsInv
<1> QED
  BY <1>1, <1>2, <1>3, PTL DEF PageSpec

-----------------------------------------------------------------------------
(* Verdicts *)

\* What is being checked is what the panel shows, or was begun before the panel was opened.
ChecksFit ==
  view.selected # NoItem =>
    \A c \in Checks : checks[c] \in {NoId, view.selected.id} \/ c \in early

\* A check is begun on what the panel shows, and one panel only opens after another is closed.
LEMMA ChecksKept ==
  ASSUME PageTypes, ChecksFit, [PageNext]_pageVars
  PROVE  ChecksFit'
<1> USE PageAssumption DEF PageTypes, ChecksFit
<1>1. CASE view'.selected = view.selected /\ checks' = checks /\ early' = early
  BY <1>1
<1>2. CASE Enter \/ Leave \/ CloseDetails
  <2>1. view'.selected = NoItem
    BY <1>2 DEF Enter, Load, Leave, NoView, NewView, CloseDetails, View
  <2> QED
    BY <2>1
<1>3. CASE \E id \in Ids : Inspect(id)
  <2>1. PICK id \in Ids : Inspect(id)
    BY <1>3
  <2>2. view'.selected.id = id /\ checks' = checks
    BY <2>1 DEF Inspect, View
  <2>3. early' = {c \in Checks : checks[c] \notin {NoId, id}}
    BY <2>1 DEF Inspect
  <2> QED
    BY <2>2, <2>3
<1>4. CASE /\ view'.selected = view.selected /\ early' = early
           /\ view.selected # NoItem /\ StartCheck(view.selected.id)
  <2>1. PICK c \in Checks : checks' = [checks EXCEPT ![c] = view.selected.id]
    BY <1>4 DEF StartCheck
  <2>2. checks'[c] = view.selected.id /\ \A d \in Checks \ {c} : checks'[d] = checks[d]
    BY <2>1
  <2> QED
    BY <1>4, <2>2
<1>5. CASE VerifySelected
  BY <1>4, <1>5 DEF VerifySelected, panelHistory, View
<1>6. CASE \E c \in Checks : Verified(c) \/ VerifyFails(c)
  <2>1. PICK c \in Checks : Verified(c) \/ VerifyFails(c)
    BY <1>6
  <2>2. view'.selected = view.selected /\ early' = early \ {c}
    BY <2>1 DEF Verified, VerifyFails, View
  <2>3. checks'[c] = NoId /\ \A d \in Checks \ {c} : checks'[d] = checks[d]
    BY <2>1 DEF Verified, VerifyFails
  <2> QED
    BY <2>2, <2>3
<1>7. CASE Refresh \/ UNCHANGED pageVars
  BY <1>7, <1>1 DEF Refresh, Load, pageVars, panelHistory, View
<1>8. CASE \E l \in Loads : List(l) \/ Listed(l) \/ ListFails(l)
  BY <1>8, <1>1 DEF List, Listed, ListFails, panelHistory, View
<1>9. CASE \E id \in Ids : RevokedElsewhere(id) \/ Synced(id)
  BY <1>9, <1>1 DEF RevokedElsewhere, Synced, panelHistory
<1>10. CASE \E t \in Txs : \/ RevokeSelected(t) \/ Send(t) \/ Record(t) \/ Issued(t)
                           \/ Fails(t) \/ Dropped(t)
                           \/ \E id \in Ids : Submit(t, id)
  BY <1>10, <1>1 DEF RevokeSelected, Send, Record, Issued, Load, Fails, Dropped, Submit, Start,
     panelHistory, View
<1>11. CASE \E t \in Txs : Revoked(t)
  <2>1. view'.selected = view.selected /\ early' = early
    BY <1>11 DEF Revoked, Load, panelHistory, View
  <2>2. CASE view.selected = NoItem
    BY <2>1, <2>2
  <2>3. CASE view.selected # NoItem
    BY <1>4, <1>11, <2>1, <2>3 DEF Revoked
  <2> QED
    BY <2>2, <2>3
<1> QED
  BY <1>2, <1>3, <1>5, <1>6, <1>7, <1>8, <1>9, <1>10, <1>11 DEF PageNext

\* A verdict is replaced, cleared, or stays with what it was on.
LEMMA VerdictKept ==
  ASSUME PageTypes, ChecksFit, VerdictIsOfTheSelected, [PageNext]_pageVars
  PROVE  VerdictIsOfTheSelected'
<1> USE PageAssumption DEF PageTypes, VerdictIsOfTheSelected
<1>1. CASE view'.selected = view.selected /\ view'.verdict = view.verdict /\ stray' = stray
  BY <1>1
<1>2. CASE view'.verdict = NoId
  BY <1>2
<1>3. CASE Enter \/ Leave \/ CloseDetails \/ \E id \in Ids : Inspect(id)
  <2>1. view'.verdict = NoId
    BY <1>3 DEF Enter, Load, Leave, NoView, NewView, CloseDetails, Inspect, View
  <2> QED
    BY <2>1, <1>2
<1>4. CASE Refresh \/ VerifySelected \/ UNCHANGED pageVars
  BY <1>4, <1>1 DEF Refresh, Load, VerifySelected, pageVars, panelHistory, View
<1>5. CASE \E l \in Loads : List(l) \/ Listed(l) \/ ListFails(l)
  BY <1>5, <1>1 DEF List, Listed, ListFails, panelHistory, View
<1>6. CASE \E c \in Checks : Verified(c)
  <2>1. PICK c \in Checks : Verified(c)
    BY <1>6
  <2>2. view'.selected = view.selected /\ view'.verdict = checks[c] /\ checks[c] # NoId
    BY <2>1 DEF Verified, View
  <2>3. stray' <=> c \in early
    BY <2>1 DEF Verified
  <2> QED
    BY <2>2, <2>3 DEF ChecksFit
<1>7. CASE \E c \in Checks : VerifyFails(c)
  BY <1>7, <1>1 DEF VerifyFails, View
<1>8. CASE \E id \in Ids : RevokedElsewhere(id) \/ Synced(id)
  BY <1>8, <1>1 DEF RevokedElsewhere, Synced, panelHistory
<1>9. CASE \E t \in Txs : \/ RevokeSelected(t) \/ Send(t) \/ Record(t)
                          \/ Fails(t) \/ Dropped(t)
                          \/ \E id \in Ids : Submit(t, id)
  BY <1>9, <1>1 DEF RevokeSelected, Send, Record, Fails, Dropped, Submit, Start, panelHistory,
     View
<1>10. CASE \E t \in Txs : Issued(t) \/ Revoked(t)
  BY <1>10, <1>1 DEF Issued, Revoked, Load, panelHistory, View
<1> QED
  BY <1>3, <1>4, <1>5, <1>6, <1>7, <1>8, <1>9, <1>10 DEF PageNext

-----------------------------------------------------------------------------
(* The list *)

\* These rows have what the page was told, but for the status of what the root has revoked.
Shows(rows) ==
  \A id \in Ids : /\ told[id] # "none" => rows[id] # "none"
                  /\ told[id] = "Revoked" /\ viaWallet => rows[id] = "Revoked"

\* These rows have nothing that the index has not.
Within(rows) == \A id \in Ids : rows[id] # "none" => index[id] # "none"

\* No row of the index goes away, and none is taken back from Revoked.
IndexGrows ==
  \A id \in Ids : /\ index[id] # "none" => index'[id] # "none"
                  /\ index[id] = "Revoked" => index'[id] = "Revoked"

RowsAreWithin ==
  /\ Within(view.rows)
  /\ \A l \in Loads : Within(loads[l].rows)
  /\ view.selected.id \in Ids => index[view.selected.id] # "none"

\* What a transaction has left in the index by the time the page is answered.
TxIsIndexed(tx) ==
  tx # NoTx =>
    /\ tx.id \in Ids
    /\ tx.kind = "revoke" => index[tx.id] # "none"
    /\ tx.at = "answer" =>
         /\ tx.kind = "issue" => index[tx.id] # "none"
         /\ tx.kind = "revoke" /\ viaWallet => index[tx.id] = "Revoked"

AnswersShow == \A l \in Loads : loads[l].at = "answer" /\ ~loads[l].late => Shows(loads[l].rows)

NewestPending == \E l \in Loads : loads[l] # NoLoad /\ ~loads[l].late

ListShows == view.up /\ ~dated /\ ~NewestPending => Shows(view.rows)

\* Reports and events bring rows into the index and revoke them, nothing else.
LEMMA IndexOnlyGrows ==
  ASSUME PageTypes, [PageNext]_pageVars
  PROVE  IndexGrows
<1> USE DEF PageTypes, IndexGrows
<1>1. CASE \E t \in Txs : Record(t)
  BY <1>1 DEF Record, IndexIssued, IndexRevoked, Rows
<1>2. CASE \E id \in Ids : Synced(id)
  BY <1>2 DEF Synced, IndexRevoked, Rows
<1>3. CASE index' = index
  BY <1>3
<1>4. CASE Enter \/ Leave \/ Refresh \/ CloseDetails \/ VerifySelected \/ UNCHANGED pageVars
  BY <1>4, <1>3 DEF Enter, Leave, Refresh, CloseDetails, VerifySelected, world, pageVars
<1>5. CASE \/ \E l \in Loads : List(l) \/ Listed(l) \/ ListFails(l)
           \/ \E c \in Checks : Verified(c) \/ VerifyFails(c)
           \/ \E id \in Ids : Inspect(id) \/ RevokedElsewhere(id)
  BY <1>5, <1>3 DEF List, Listed, ListFails, Verified, VerifyFails, Inspect, RevokedElsewhere, world
<1>6. CASE \E t \in Txs : \/ RevokeSelected(t) \/ Send(t) \/ Issued(t) \/ Revoked(t)
                          \/ Fails(t) \/ Dropped(t)
                          \/ \E id \in Ids : Submit(t, id)
  BY <1>6, <1>3 DEF RevokeSelected, Send, Issued, Revoked, Fails, Dropped, Submit, Start, world
<1> QED
  BY <1>1, <1>2, <1>4, <1>5, <1>6 DEF PageNext

\* Rows that came from the index stay within it.
LEMMA WithinKept ==
  ASSUME IndexGrows, NEW rows, Within(rows)
  PROVE  \A id \in Ids : rows[id] # "none" => index'[id] # "none"
  BY DEF IndexGrows, Within

\* Whenever the list is asked for, the page shows what it did, or it is new.
LEMMA LoadsWhat ==
  ASSUME PageTypes, Enter \/ Refresh \/ \E t \in Txs : Issued(t) \/ Revoked(t)
  PROVE  \E v \in View :
           Load(v) /\ v.rows \in {view.rows, NoRows} /\ v.selected \in {view.selected, NoItem}
<1> USE DEF PageTypes
<1>1. CASE Enter
  BY <1>1, Initials DEF Enter, NewView
<1>2. CASE Refresh
  BY <1>2 DEF Refresh
<1>3. CASE \E t \in Txs : Issued(t)
  <2> DEFINE v == [view EXCEPT !.submitting = FALSE]
  <2>1. v \in View /\ v.rows = view.rows /\ v.selected = view.selected
    BY DEF View
  <2>2. Load(v)
    BY <1>3 DEF Issued
  <2> HIDE DEF v
  <2> QED
    BY <2>1, <2>2
<1>4. CASE \E t \in Txs : Revoked(t)
  <2> DEFINE v == [view EXCEPT !.revoking = FALSE]
             w == [v EXCEPT !.verifying = TRUE]
  <2>1. v \in View /\ v.rows = view.rows /\ v.selected = view.selected
    BY DEF View
  <2>2. w \in View /\ w.rows = view.rows /\ w.selected = view.selected
    BY DEF View
  <2>3. Load(v) \/ Load(w)
    BY <1>4 DEF Revoked
  <2> HIDE DEF v, w
  <2> QED
    BY <2>1, <2>2, <2>3
<1> QED
  BY <1>1, <1>2, <1>3, <1>4

\* Rows get onto the page, and into the panel, only from the index.
LEMMA RowsStayWithin ==
  ASSUME PageTypes, RowsAreWithin, [PageNext]_pageVars
  PROVE  RowsAreWithin'
<1> USE PageAssumption DEF PageTypes
<1>1. IndexGrows
  BY IndexOnlyGrows
<1> DEFINE Kept(rows) == \A id \in Ids : rows[id] # "none" => index'[id] # "none"
<1>2. Kept(NoRows)
  BY DEF NoRows
<1>3. Kept(view.rows) /\ \A l \in Loads : Kept(loads[l].rows)
  BY <1>1, WithinKept DEF RowsAreWithin
<1>4. view.selected.id \in Ids => index'[view.selected.id] # "none"
  BY <1>1 DEF RowsAreWithin, IndexGrows
<1>5. Kept(index)
  BY <1>1 DEF IndexGrows
<1>6. SUFFICES /\ Kept(view'.rows)
               /\ \A l \in Loads : Kept(loads'[l].rows)
               /\ view'.selected.id \in Ids => index'[view'.selected.id] # "none"
  BY DEF RowsAreWithin, Within
<1>7. CASE /\ view'.rows = view.rows /\ view'.selected \in {view.selected, NoItem}
           /\ loads' = loads
  BY <1>3, <1>4, <1>7 DEF NoItem
<1>8. CASE Enter \/ Refresh \/ \E t \in Txs : Issued(t) \/ Revoked(t)
  <2>1. PICK v \in View : Load(v) /\ v.rows \in {view.rows, NoRows} /\ v.selected \in {view.selected, NoItem}
    BY <1>8, LoadsWhat
  <2>2. view'.rows = v.rows /\ view'.selected = v.selected
    BY <2>1, LoadEffect DEF View
  <2>3. \A l \in Loads : loads'[l].rows \in {loads[l].rows, NoRows}
    <3>1. PICK l \in Loads :
            /\ loads[l] = NoLoad
            /\ \A m \in Loads \ {l} : loads'[m].rows = loads[m].rows
            /\ loads'[l] = [NoLoad EXCEPT !.at = "asked"]
      BY <2>1 DEF Load, LoadRecord
    <3>2. loads'[l].rows = NoRows
      BY <3>1 DEF NoLoad
    <3> QED
      BY <3>1, <3>2
  <2> QED
    BY <1>2, <1>3, <1>4, <2>1, <2>2, <2>3 DEF NoItem
<1>9. CASE Leave
  BY <1>2, <1>9 DEF Leave, NoView, NewView, NoItem, NoLoad
<1>10. CASE \E l \in Loads : List(l)
  <2>1. PICK l \in Loads : List(l)
    BY <1>10
  <2>2. loads'[l].rows = index
    BY <2>1 DEF List, LoadRecord
  <2>3. \A k \in Loads \ {l} : loads'[k] = loads[k]
    BY <2>1 DEF List
  <2>4. view' = view
    BY <2>1 DEF List
  <2>5. \A k \in Loads : Kept(loads'[k].rows)
    BY <1>3, <1>5, <2>2, <2>3
  <2> QED
    BY <1>3, <1>4, <2>4, <2>5
<1>11. CASE \E l \in Loads : Listed(l) \/ ListFails(l)
  <2>1. PICK l \in Loads : Listed(l) \/ ListFails(l)
    BY <1>11
  <2>2. view'.rows \in {view.rows, loads[l].rows} /\ view'.selected = view.selected
    BY <2>1 DEF Listed, ListFails, View
  <2>3. \A k \in Loads : loads'[k] \in {loads[k], NoLoad}
    BY <2>1 DEF Listed, ListFails
  <2>4. \A k \in Loads : loads'[k].rows \in {loads[k].rows, NoRows}
    BY <2>3 DEF NoLoad
  <2> QED
    BY <1>2, <1>3, <1>4, <2>2, <2>4
<1>12. CASE \E id \in Ids : Inspect(id)
  <2>1. PICK id \in Ids : Inspect(id)
    BY <1>12
  <2>2. view'.rows = view.rows /\ view'.selected.id = id /\ loads' = loads
    BY <2>1 DEF Inspect, View
  <2>3. index'[id] # "none"
    BY <1>3, <2>1 DEF Inspect
  <2> QED
    BY <1>3, <2>2, <2>3
<1>13. CASE CloseDetails \/ VerifySelected \/ UNCHANGED pageVars
  BY <1>13, <1>7 DEF CloseDetails, VerifySelected, pageVars, View
<1>14. CASE \E c \in Checks : Verified(c) \/ VerifyFails(c)
  BY <1>14, <1>7 DEF Verified, VerifyFails, View
<1>15. CASE \E id \in Ids : RevokedElsewhere(id) \/ Synced(id)
  BY <1>15, <1>7 DEF RevokedElsewhere, Synced
<1>16. CASE \E t \in Txs : \/ RevokeSelected(t) \/ Send(t) \/ Record(t)
                           \/ Fails(t) \/ Dropped(t)
                           \/ \E id \in Ids : Submit(t, id)
  BY <1>16, <1>7 DEF RevokeSelected, Send, Record, Fails, Dropped, Submit, Start, View
<1> QED
  BY <1>8, <1>9, <1>10, <1>11, <1>12, <1>13, <1>14, <1>15, <1>16 DEF PageNext

\* A page is the root's, or not, for good.
LEMMA WorldKept ==
  ASSUME [PageNext]_pageVars
  PROVE  viaWallet' = viaWallet
  BY DEF PageNext, Enter, Leave, Refresh, CloseDetails, VerifySelected, List, Listed, ListFails,
         Verified, VerifyFails, Inspect, RevokedElsewhere, Synced, RevokeSelected, Send, Record,
         Issued, Revoked, Fails, Dropped, Submit, Start, world, pageVars

\* What is in the index by the time of an answer stays there.
LEMMA TxsKept ==
  ASSUME PageTypes, SelectedIsItem, RowsAreWithin, \A t \in Txs : TxIsIndexed(txs[t]),
         [PageNext]_pageVars
  PROVE  (\A t \in Txs : TxIsIndexed(txs[t]))'
<1> USE PageAssumption DEF PageTypes
<1>1. IndexGrows
  BY IndexOnlyGrows
<1> DEFINE Indexed(tx) ==
      tx # NoTx =>
        /\ tx.id \in Ids
        /\ tx.kind = "revoke" => index'[tx.id] # "none"
        /\ tx.at = "answer" =>
             /\ tx.kind = "issue" => index'[tx.id] # "none"
             /\ tx.kind = "revoke" /\ viaWallet => index'[tx.id] = "Revoked"
<1>2. \A t \in Txs : Indexed(txs[t])
  BY <1>1 DEF IndexGrows, TxIsIndexed
<1>3. Indexed(NoTx)
  OBVIOUS
<1>4. viaWallet' = viaWallet
  BY WorldKept
<1>5. SUFFICES \A t \in Txs : Indexed(txs'[t])
  BY <1>4 DEF TxIsIndexed
<1>6. CASE \A t \in Txs : txs'[t] \in {txs[t], NoTx}
  BY <1>2, <1>3, <1>6
<1>7. CASE Enter \/ Refresh \/ CloseDetails \/ VerifySelected \/ UNCHANGED pageVars
  BY <1>7, <1>6 DEF Enter, Refresh, CloseDetails, VerifySelected, pageVars
<1>8. CASE Leave
  <2>1. ASSUME NEW t \in Txs PROVE Indexed(txs'[t])
    <3>1. CASE txs[t] = NoTx
      <4>1. txs'[t] = [NoTx EXCEPT !.here = FALSE]
        BY <1>8, <3>1 DEF Leave
      <4>2. txs'[t] = NoTx
        BY <4>1 DEF NoTx
      <4> QED
        BY <4>2, <1>3
    <3>2. CASE txs[t] # NoTx
      <4>1. /\ txs'[t].id = txs[t].id /\ txs'[t].kind = txs[t].kind
            /\ txs'[t].at = txs[t].at
        BY <1>8 DEF Leave, TxRecord
      <4> QED
        BY <1>2, <3>2, <4>1
    <3> QED
      BY <3>1, <3>2
  <2> QED
    BY <2>1
<1>9. CASE \E l \in Loads : List(l) \/ Listed(l) \/ ListFails(l)
  BY <1>9, <1>6 DEF List, Listed, ListFails
<1>10. CASE \E c \in Checks : Verified(c) \/ VerifyFails(c)
  BY <1>10, <1>6 DEF Verified, VerifyFails
<1>11. CASE \E id \in Ids : Inspect(id) \/ RevokedElsewhere(id) \/ Synced(id)
  BY <1>11, <1>6 DEF Inspect, RevokedElsewhere, Synced
<1>12. CASE \E t \in Txs : RevokeSelected(t) \/ \E id \in Ids : Submit(t, id)
  <2>1. PICK t \in Txs : RevokeSelected(t) \/ \E id \in Ids : Submit(t, id)
    BY <1>12
  <2>2. PICK kind \in {"issue", "revoke"}, id \in Ids :
          /\ txs' = [txs EXCEPT ![t] = [kind |-> kind, id |-> id, at |-> "send", here |-> TRUE]]
          /\ kind = "revoke" => index[id] # "none"
    <3>1. CASE RevokeSelected(t)
      <4>1. view.selected # NoItem
        BY <3>1 DEF RevokeSelected, NoItem
      <4>2. view.selected.id \in Ids /\ index[view.selected.id] # "none"
        BY <4>1 DEF SelectedIsItem, RowsAreWithin
      <4> QED
        BY <3>1, <4>2 DEF RevokeSelected, Start
    <3>2. CASE \E id \in Ids : Submit(t, id)
      BY <3>2 DEF Submit, Start
    <3> QED
      BY <2>1, <3>1, <3>2
  <2>3. txs'[t] = [kind |-> kind, id |-> id, at |-> "send", here |-> TRUE]
    BY <2>2
  <2>4. index'[id] # "none" \/ kind = "issue"
    BY <1>1, <2>2 DEF IndexGrows
  <2>5. Indexed(txs'[t])
    BY <2>3, <2>4
  <2>6. \A u \in Txs \ {t} : txs'[u] = txs[u]
    BY <2>2
  <2> QED
    BY <1>2, <2>5, <2>6
<1>13. CASE \E t \in Txs : Send(t)
  <2>1. PICK t \in Txs : Send(t)
    BY <1>13
  <2>2. txs'[t] = [txs[t] EXCEPT !.at = "record"]
    BY <2>1 DEF Send
  <2>3. txs[t] # NoTx
    BY <2>1 DEF Send, NoTx
  <2>4. txs'[t].id = txs[t].id /\ txs'[t].kind = txs[t].kind /\ txs'[t].at = "record"
    BY <2>2 DEF TxRecord
  <2>5. Indexed(txs'[t])
    BY <1>2, <2>3, <2>4
  <2>6. \A u \in Txs \ {t} : txs'[u] = txs[u]
    BY <2>1 DEF Send
  <2> QED
    BY <1>2, <2>5, <2>6
<1>14. CASE \E t \in Txs : Record(t)
  <2>1. PICK t \in Txs : Record(t)
    BY <1>14
  <2>2. txs'[t] = [txs[t] EXCEPT !.at = "answer"]
    BY <2>1 DEF Record
  <2>3. txs[t] # NoTx
    BY <2>1 DEF Record, NoTx
  <2>4. txs'[t].id = txs[t].id /\ txs'[t].kind = txs[t].kind /\ txs'[t].at = "answer"
    BY <2>2 DEF TxRecord
  <2>5. txs[t].id \in Ids /\ (txs[t].kind = "revoke" => index[txs[t].id] # "none")
    BY <2>3 DEF TxIsIndexed
  <2>6. /\ txs[t].kind = "issue" => index'[txs[t].id] # "none"
        /\ txs[t].kind = "revoke" /\ viaWallet => index'[txs[t].id] = "Revoked"
    BY <2>1, <2>5 DEF Record, IndexIssued, IndexRevoked, Rows
  <2>7. Indexed(txs'[t])
    BY <1>2, <2>3, <2>4, <2>6
  <2>8. \A u \in Txs \ {t} : txs'[u] = txs[u]
    BY <2>1 DEF Record
  <2> QED
    BY <1>2, <2>7, <2>8
<1>15. CASE \E t \in Txs : Issued(t) \/ Revoked(t) \/ Fails(t) \/ Dropped(t)
  BY <1>15, <1>6 DEF Issued, Revoked, Fails, Dropped
<1> QED
  BY <1>7, <1>8, <1>9, <1>10, <1>11, <1>12, <1>13, <1>14, <1>15 DEF PageNext

\* The steps that touch neither the list nor what the page was told.
Elsewhere ==
  /\ loads' = loads /\ told' = told /\ dated' = dated
  /\ view'.up = view.up /\ view'.rows = view.rows

\* Every step loads, leaves, ends a load, or touches neither list nor history.
LEMMA Steps ==
  ASSUME PageTypes, [PageNext]_pageVars
  PROVE  \/ Enter \/ Refresh \/ \E t \in Txs : Issued(t) \/ Revoked(t)
         \/ Leave
         \/ \E l \in Loads : List(l) \/ Listed(l) \/ ListFails(l)
         \/ Elsewhere
<1> USE DEF PageTypes, Elsewhere
<1>1. CASE CloseDetails \/ VerifySelected \/ UNCHANGED pageVars
  BY <1>1 DEF CloseDetails, VerifySelected, pageVars, View
<1>2. CASE \E c \in Checks : Verified(c) \/ VerifyFails(c)
  BY <1>2 DEF Verified, VerifyFails, View
<1>3. CASE \E id \in Ids : Inspect(id) \/ RevokedElsewhere(id) \/ Synced(id)
  BY <1>3 DEF Inspect, RevokedElsewhere, Synced, View
<1>4. CASE \E t \in Txs : \/ RevokeSelected(t) \/ Send(t) \/ Record(t)
                          \/ Fails(t) \/ Dropped(t)
                          \/ \E id \in Ids : Submit(t, id)
  BY <1>4 DEF RevokeSelected, Send, Record, Fails, Dropped, Submit, Start, View
<1> QED
  BY <1>1, <1>2, <1>3, <1>4 DEF PageNext

\* The page is told of nothing that is not in the index.
LEMMA ToldIsIndexed ==
  ASSUME PageTypes, Shows(index), \A t \in Txs : TxIsIndexed(txs[t]), [PageNext]_pageVars
  PROVE  Shows(index)'
<1> USE DEF PageTypes
<1>1. IndexGrows /\ viaWallet' = viaWallet
  BY IndexOnlyGrows, WorldKept
<1>2. CASE told' = told
  BY <1>1, <1>2 DEF Shows, IndexGrows
<1>3. CASE Leave
  BY <1>3 DEF Leave, Shows, NoRows
<1>4. CASE \E t \in Txs : Issued(t) \/ Revoked(t)
  <2>1. PICK t \in Txs : Issued(t) \/ Revoked(t)
    BY <1>4
  <2>2. txs[t] # NoTx /\ txs[t].at = "answer"
    BY <2>1 DEF Issued, Revoked, NoTx
  <2>3. /\ txs[t].id \in Ids
        /\ txs[t].kind \in {"issue", "revoke"} => index[txs[t].id] # "none"
        /\ txs[t].kind = "revoke" /\ viaWallet => index[txs[t].id] = "Revoked"
    BY <2>2 DEF TxIsIndexed
  <2>4. index' = index
    BY <2>1 DEF Issued, Revoked, world
  <2>5. /\ \A id \in Ids \ {txs[t].id} : told'[id] = told[id]
        /\ \/ txs[t].kind = "issue" /\ told'[txs[t].id] = "Active"
           \/ txs[t].kind = "revoke" /\ told'[txs[t].id] = "Revoked"
    BY <2>1, <2>3 DEF Issued, Revoked, Told, Rows
  <2> QED
    BY <1>1, <2>3, <2>4, <2>5 DEF Shows
<1>5. CASE Enter \/ Refresh \/ Elsewhere
  BY <1>5, <1>2 DEF Enter, Refresh, Elsewhere
<1>6. CASE \E l \in Loads : List(l) \/ Listed(l) \/ ListFails(l)
  BY <1>6, <1>2 DEF List, Listed, ListFails
<1> QED
  BY <1>3, <1>4, <1>5, <1>6, Steps

\* A new load makes whatever was asked before late, and is the newest itself.
LEMMA LoadingListShows ==
  ASSUME PageTypes, NEW v \in View, Load(v)
  PROVE  AnswersShow' /\ ListShows'
<1> USE DEF PageTypes
<1>1. PICK l \in Loads :
        /\ loads'[l].at = "asked" /\ ~loads'[l].late
        /\ \A m \in Loads \ {l} :
             /\ loads'[m].at = loads[m].at
             /\ loads'[m].late <=> loads[m] # NoLoad
  BY LoadEffect
<1>2. loads'[l] # NoLoad
  BY <1>1 DEF NoLoad
<1>3. NewestPending'
  BY <1>1, <1>2 DEF NewestPending
<1>4. ASSUME NEW m \in Loads, loads'[m].at = "answer"
      PROVE  loads'[m].late
  <2>1. m # l
    BY <1>1, <1>4
  <2>2. loads[m].at = "answer"
    BY <1>1, <1>4, <2>1
  <2>3. loads[m] # NoLoad
    BY <2>2 DEF NoLoad
  <2> QED
    BY <1>1, <2>1, <2>3
<1> QED
  BY <1>3, <1>4 DEF AnswersShow, ListShows

\* An answer to the newest load shows what the page was told; a late or failed one is noted.
LEMMA ListingShows ==
  ASSUME PageTypes, Shows(index), AnswersShow, ListShows,
         NEW l \in Loads, List(l) \/ Listed(l) \/ ListFails(l)
  PROVE  AnswersShow' /\ ListShows'
<1> USE DEF PageTypes
<1>1. told' = told /\ viaWallet' = viaWallet /\ view'.up = view.up
  BY DEF List, Listed, ListFails, world, View
<1>2. \A rows : Shows(rows) =>
        \A id \in Ids : /\ told'[id] # "none" => rows[id] # "none"
                        /\ told'[id] = "Revoked" /\ viaWallet' => rows[id] = "Revoked"
  BY <1>1 DEF Shows
<1>3. CASE List(l)
  <2>1. loads'[l].rows = index /\ loads'[l].at = "answer" /\ loads'[l].late = loads[l].late
    BY <1>3 DEF List, LoadRecord
  <2>2. \A k \in Loads \ {l} : loads'[k] = loads[k]
    BY <1>3 DEF List
  <2>3. view' = view /\ dated' = dated
    BY <1>3 DEF List
  <2>4. AnswersShow'
    BY <1>2, <2>1, <2>2 DEF AnswersShow, Shows
  <2>5. loads'[l] # NoLoad
    BY <2>1 DEF NoLoad
  <2>6. NewestPending => NewestPending'
    BY <2>1, <2>2, <2>5 DEF NewestPending
  <2>7. ListShows'
    BY <1>2, <2>3, <2>6 DEF ListShows, Shows
  <2> QED
    BY <2>4, <2>7
<1>4. CASE Listed(l) \/ ListFails(l)
  <2>1. loads' = [loads EXCEPT ![l] = NoLoad]
    BY <1>4 DEF Listed, ListFails
  <2>2. \A k \in Loads \ {l} : loads'[k] = loads[k]
    BY <2>1
  <2>3. loads'[l].at = "idle"
    BY <2>1 DEF NoLoad
  <2>4. AnswersShow'
    BY <1>2, <2>2, <2>3 DEF AnswersShow, Shows
  <2>5. loads[l].late => (NewestPending => NewestPending')
    BY <2>2 DEF NewestPending
  <2>6. CASE Listed(l)
    <3>1. view'.rows = loads[l].rows /\ (dated' <=> loads[l].late) /\ loads[l].at = "answer"
      BY <2>6 DEF Listed, View
    <3>2. ~loads[l].late => Shows(loads[l].rows)
      BY <3>1 DEF AnswersShow
    <3> QED
      BY <1>2, <2>4, <3>1, <3>2 DEF ListShows, Shows
  <2>7. CASE ListFails(l)
    <3>1. view'.rows = view.rows /\ (dated' <=> dated \/ ~loads[l].late)
      BY <2>7 DEF ListFails, View
    <3> QED
      BY <1>1, <1>2, <2>4, <2>5, <3>1 DEF ListShows, Shows
  <2> QED
    BY <1>4, <2>6, <2>7
<1> QED
  BY <1>3, <1>4

\* The list and the answers on their way to it, over any step.
LEMMA ListKept ==
  ASSUME PageTypes, Shows(index), AnswersShow, ListShows, [PageNext]_pageVars
  PROVE  AnswersShow' /\ ListShows'
<1>1. CASE Enter \/ Refresh \/ \E t \in Txs : Issued(t) \/ Revoked(t)
  BY <1>1, LoadsWhat, LoadingListShows
<1>2. CASE Leave
  <2>1. \A l \in Loads : loads'[l].at = "idle"
    BY <1>2 DEF Leave, NoLoad
  <2>2. ~view'.up
    BY <1>2 DEF Leave, NoView, NewView
  <2> QED
    BY <2>1, <2>2 DEF AnswersShow, ListShows
<1>3. CASE Elsewhere
  BY <1>3, WorldKept DEF Elsewhere, AnswersShow, ListShows, NewestPending, Shows
<1>4. CASE \E l \in Loads : List(l) \/ Listed(l) \/ ListFails(l)
  BY <1>4, ListingShows
<1> QED
  BY <1>1, <1>2, <1>3, <1>4, Steps

-----------------------------------------------------------------------------
HonestInv ==
  /\ PageTypes /\ SelectedIsItem /\ ChecksFit /\ VerdictIsOfTheSelected
  /\ RowsAreWithin
  /\ \A t \in Txs : TxIsIndexed(txs[t])
  /\ Shows(index) /\ AnswersShow /\ ListShows

\* Whatever the order in which requests are answered, and whichever fail: the verdict the
\* panel shows is on the accreditation it shows, and what the page was told that it has
\* issued or revoked is in its list, but for the exceptions that VerdictIsOfTheSelected and
\* OwnChangesAreListed name.
THEOREM PageIsAlwaysHonest == PageSpec => []PageIsHonest
<1>1. PageInit => HonestInv
  <2> SUFFICES ASSUME PageInit
               PROVE  HonestInv
    OBVIOUS
  <2>1. PageTypes
    BY InitTypes
  <2>2. view = NoView /\ ~view.up /\ view.selected = NoItem /\ view.rows = NoRows
    BY DEF PageInit, NoView, NewView
  <2>3. SelectedIsItem /\ ChecksFit /\ VerdictIsOfTheSelected /\ ListShows
    BY <2>2 DEF SelectedIsItem, ChecksFit, VerdictIsOfTheSelected, ListShows
  <2>4. \A l \in Loads : loads[l].at = "idle" /\ loads[l].rows = NoRows
    BY DEF PageInit, NoLoad
  <2>5. RowsAreWithin
    BY <2>2, <2>4, PageAssumption DEF RowsAreWithin, Within, NoRows, NoItem
  <2>6. (\A t \in Txs : TxIsIndexed(txs[t])) /\ Shows(index) /\ AnswersShow
    BY <2>4 DEF PageInit, TxIsIndexed, Shows, NoRows, AnswersShow
  <2> QED
    BY <2>1, <2>3, <2>5, <2>6 DEF HonestInv
<1>2. HonestInv /\ [PageNext]_pageVars => HonestInv'
  <2> SUFFICES ASSUME HonestInv, [PageNext]_pageVars
               PROVE  HonestInv'
    OBVIOUS
  <2>1. PageTypes' /\ SelectedIsItem' /\ ChecksFit' /\ VerdictIsOfTheSelected'
    BY TypesKept, SelectedKept, ChecksKept, VerdictKept DEF HonestInv
  <2>2. RowsAreWithin' /\ (\A t \in Txs : TxIsIndexed(txs[t]))'
    BY RowsStayWithin, TxsKept DEF HonestInv
  <2>3. Shows(index)' /\ AnswersShow' /\ ListShows'
    BY ToldIsIndexed, ListKept DEF HonestInv
  <2> QED
    BY <2>1, <2>2, <2>3 DEF HonestInv
<1>3. HonestInv => PageIsHonest
  BY DEF HonestInv, PageIsHonest, OwnChangesAreListed, ListShows, NewestPending, Shows
<1> QED
  BY <1>1, <1>2, <1>3, PTL DEF PageSpec

-----------------------------------------------------------------------------
(* The session: types *)

Kinds == {"none", "login", "connect", "restore"}
Proving == {"challenge", "sign", "verify"}
ConnRecord == [kind : Kinds, at : {"idle", "accounts", "signer"} \cup Proving,
               account : Accounts \cup {NoOne}, good : BOOLEAN, old : BOOLEAN]
InitRecord == [owner : Accounts \cup {NoOne}, left : 0 .. 3, old : BOOLEAN]

\* A connection that has been answered is for an account.
ConnsHaveAccounts ==
  \A k \in Conns : conns[k].at \in {"signer"} \cup Proving => conns[k].account \in Accounts

SessionTypes ==
  /\ metamask \in Accounts \cup {NoOne} /\ session \in Accounts \cup {NoOne}
  /\ signer \in Accounts \cup {NoOne} /\ nav \in Accounts \cup {NoOne}
  /\ state \in {"idle", "busy", "authenticated"}
  /\ conns \in [Conns -> ConnRecord]
  /\ page \in Pages
  /\ inits \in [Inits -> InitRecord]
  /\ calls \in 0 .. MaxCalls
  /\ origin \in [by : Conns \cup {NoConn}, stray : BOOLEAN]
  /\ strayNav \in BOOLEAN

\* The type invariant, with the records it is about named.
LEMMA SessionTypesMean == SessionTypeOK <=> SessionTypes
  BY DEF SessionTypeOK, SessionTypes, ConnRecord, InitRecord, Kinds, Proving

\* The values the tab starts from are of their types.
LEMMA Blanks ==
  /\ NoTask \in ConnRecord /\ NoInit \in InitRecord
  /\ NoOrigin \in [by : Conns \cup {NoConn}, stray : BOOLEAN]
  BY DEF NoTask, ConnRecord, NoInit, InitRecord, NoOrigin, Kinds, Proving

\* The connection k becomes r and the others stay.
ConnTo(k, r) ==
  /\ r \in ConnRecord
  /\ conns' \in [Conns -> ConnRecord]
  /\ conns'[k] = r
  /\ \A j \in Conns \ {k} : conns'[j] = conns[j]

\* A connection that begins takes a free one.
LEMMA BeginEffect ==
  ASSUME SessionTypes, NEW k \in Conns, NEW kind \in Kinds, NEW a \in Accounts \cup {NoOne},
         Begin(k, kind, a)
  PROVE  /\ conns[k] = NoTask
         /\ ConnTo(k, [kind |-> kind, at |-> "accounts", account |-> a, good |-> FALSE,
                       old |-> FALSE])
  BY DEF Begin, ConnTo, SessionTypes, NoTask, ConnRecord

\* A connection that ends frees it.
LEMMA EndEffect ==
  ASSUME SessionTypes, NEW k \in Conns, conns' = [conns EXCEPT ![k] = NoTask]
  PROVE  ConnTo(k, NoTask)
  BY Blanks DEF ConnTo, SessionTypes

\* To have outlived its session leaves a connection and an initialisation of their types.
LEMMA OldIsRecord ==
  /\ \A r \in ConnRecord : [r EXCEPT !.old = TRUE] \in ConnRecord
  /\ \A r \in InitRecord : [r EXCEPT !.old = TRUE] \in InitRecord
  BY DEF ConnRecord, InitRecord

\* The connections, or the page initialisations, now are ts as far as they are under way,
\* and all of those have outlived their session.
ConnsOldFrom(ts) ==
  /\ conns' \in [Conns -> ConnRecord]
  /\ \A k \in Conns : IF ts[k] = NoTask THEN conns'[k] = NoTask
                      ELSE conns'[k] = [ts[k] EXCEPT !.old = TRUE]
InitsOld(f) ==
  /\ f \in [Inits -> InitRecord]
  /\ \A i \in Inits : IF inits[i] = NoInit THEN f[i] = NoInit
                      ELSE f[i] = [inits[i] EXCEPT !.old = TRUE]

\* Outlive does that to the connections it is given.
LEMMA OutliveConns ==
  ASSUME NEW ts \in [Conns -> ConnRecord], conns' = Outlive(ts, NoTask)
  PROVE  ConnsOldFrom(ts)
  BY Blanks, OldIsRecord DEF ConnsOldFrom, Outlive

\* It does the same to the initialisations.
LEMMA OutliveInits ==
  ASSUME SessionTypes
  PROVE  InitsOld(Outlive(inits, NoInit))
  BY Blanks, OldIsRecord DEF InitsOld, SessionTypes, Outlive

\* A logout, or nothing when there is no session to end.
LEMMA LogoutEffect ==
  ASSUME SessionTypes, Logout
  PROVE  /\ session' = NoOne /\ signer' = NoOne /\ origin' = NoOrigin
         /\ nav' = NoOne /\ strayNav' = FALSE /\ state' = "idle" /\ page' = "login"
         /\ (conns' = conns /\ session = NoOne) \/ ConnsOldFrom(conns)
         /\ (inits' = inits /\ session = NoOne) \/ InitsOld(inits')
<1>1. /\ session' = NoOne /\ signer' = NoOne /\ origin' = NoOrigin
      /\ nav' = NoOne /\ strayNav' = FALSE /\ state' = "idle" /\ page' = "login"
  BY DEF Logout, Clear, ResetToRoot
<1>2. CASE session = NoOne
  BY <1>1, <1>2 DEF Logout
<1>3. CASE session # NoOne
  <2>1. conns' = Outlive(conns, NoTask) /\ inits' = Outlive(inits, NoInit)
    BY <1>3 DEF Logout
  <2> QED
    BY <1>1, <2>1, OutliveConns, OutliveInits DEF SessionTypes
<1> QED
  BY <1>2, <1>3

\* Opening a page: with the context n and the initialisations ts as they are then.
LEMMA MountEffect ==
  ASSUME SessionTypes, SessionAssumption, NEW p \in Pages, NEW a \in Accounts,
         NEW n \in Accounts \cup {NoOne}, NEW ts \in [Inits -> InitRecord],
         Mount(p, a, n, ts)
  PROVE  /\ page' = p
         /\ nav' \in {n, NoOne}
         /\ nav' # NoOne => strayNav' = strayNav
         /\ strayNav' \in BOOLEAN
         /\ calls' \in 0 .. MaxCalls
         /\ inits' \in [Inits -> InitRecord]
         /\ \A i \in Inits : inits'[i] = ts[i] \/ inits'[i].owner = a
<1>1. page' = p
  BY DEF Mount
<1>2. CASE MustFetch(p, a, n)
  <2>1. PICK i \in Inits :
          /\ ts[i] = NoInit
          /\ inits' = [ts EXCEPT ![i] = [owner |-> a, left |-> Fetches[a], old |-> FALSE]]
    BY <1>2 DEF Mount
  <2>2. Fetches[a] \in 0 .. 3
    BY DEF SessionAssumption
  <2>3. [owner |-> a, left |-> Fetches[a], old |-> FALSE] \in InitRecord
    BY <2>2 DEF InitRecord
  <2>4. /\ inits' \in [Inits -> InitRecord]
        /\ \A j \in Inits : inits'[j] = ts[j] \/ inits'[j].owner = a
    BY <2>1, <2>3
  <2>5. nav' = NoOne /\ strayNav' = FALSE /\ calls' = calls
    BY <1>2 DEF Mount, ResetToRoot
  <2> QED
    BY <1>1, <2>4, <2>5 DEF SessionTypes
<1>3. CASE ~MustFetch(p, a, n)
  <2>1. inits' = ts
    BY <1>3 DEF Mount
  <2>2. calls' \in {calls, Sent(calls)}
    BY <1>3 DEF Mount
  <2>3. calls' \in 0 .. MaxCalls
    BY <2>2 DEF Sent, SessionTypes, SessionAssumption
  <2>4. CASE p = "member-states" \/ n = NoOne
    <3>1. nav' = NoOne /\ strayNav' = FALSE
      BY <1>3, <2>4 DEF Mount, ResetToRoot
    <3> QED
      BY <1>1, <2>1, <2>3, <3>1
  <2>5. CASE ~(p = "member-states" \/ n = NoOne)
    <3>1. nav' = n /\ strayNav' = strayNav
      BY <1>3, <2>5 DEF Mount
    <3> QED
      BY <1>1, <2>1, <2>3, <3>1 DEF SessionTypes
  <2> QED
    BY <2>4, <2>5
<1> QED
  BY <1>2, <1>3

\* The steps of a connection other than LoggedIn, by what they do to it.
LEMMA ThrowsEffect ==
  ASSUME SessionTypes, NEW k \in Conns, Throws(k)
  PROVE  /\ ConnTo(k, NoTask)
         /\ \/ conns[k].kind = "connect" /\ signer' = signer /\ origin' = origin
            \/ signer' = NoOne /\ origin' = NoOrigin
         /\ state' \in {"idle", state}
         /\ UNCHANGED <<metamask, session, page, nav, inits, calls, strayNav>>
  BY EndEffect DEF Throws, Clear

\* The accounts are answered: the connection is for the account MetaMask shows.
LEMMA AccountsEffect ==
  ASSUME SessionTypes, NEW k \in Conns, AccountsAnswered(k), ~Throws(k)
  PROVE  /\ conns[k].at = "accounts" /\ metamask \in Accounts
         /\ LoggingIn(k) \/ metamask = conns[k].account
         /\ ConnTo(k, [conns[k] EXCEPT !.at = "signer", !.account = metamask])
         /\ UNCHANGED <<metamask, session, state, signer, page, nav, inits, calls, origin,
                        strayNav>>
<1>1. Expected(k, metamask)
  BY DEF AccountsAnswered
<1>2. [conns[k] EXCEPT !.at = "signer", !.account = metamask] \in ConnRecord
  BY DEF SessionTypes, ConnRecord
<1>3. conns' = [conns EXCEPT ![k] = [conns[k] EXCEPT !.at = "signer", !.account = metamask]]
  BY <1>1 DEF AccountsAnswered, SessionTypes, ConnRecord
<1>4. ConnTo(k, [conns[k] EXCEPT !.at = "signer", !.account = metamask])
  BY <1>2, <1>3 DEF ConnTo, SessionTypes
<1> QED
  BY <1>1, <1>4 DEF AccountsAnswered, Expected, SessionTypes

\* The signer is set; only a login goes on from there.
LEMMA SignerEffect ==
  ASSUME SessionTypes, NEW k \in Conns, SignerGot(k)
  PROVE  /\ conns[k].at = "signer"
         /\ signer' = conns[k].account
         /\ origin' = [by |-> IF LoggingIn(k) THEN k ELSE NoConn,
                       stray |-> conns[k].old /\ session # NoOne]
         /\ IF LoggingIn(k) THEN ConnTo(k, [conns[k] EXCEPT !.at = "challenge"])
            ELSE ConnTo(k, NoTask)
         /\ state' \in {"busy", state}
         /\ UNCHANGED <<metamask, session, page, nav, inits, calls, strayNav>>
<1>1. [conns[k] EXCEPT !.at = "challenge"] \in ConnRecord
  BY DEF SessionTypes, ConnRecord, Proving
<1>2. IF LoggingIn(k) THEN ConnTo(k, [conns[k] EXCEPT !.at = "challenge"])
      ELSE ConnTo(k, NoTask)
  BY <1>1, EndEffect DEF SignerGot, ConnTo, SessionTypes
<1> QED
  BY <1>2 DEF SignerGot

\* A login proves its account and changes nothing else.
LEMMA ProvingEffect ==
  ASSUME SessionTypes, NEW k \in Conns, ChallengeAnswered(k) \/ Signed(k), ~Throws(k)
  PROVE  \E at \in Proving, good \in BOOLEAN :
           /\ conns[k].at \in Proving
           /\ ConnTo(k, [conns[k] EXCEPT !.at = at, !.good = good])
           /\ state' = "busy"
           /\ UNCHANGED <<metamask, session, signer, page, nav, inits, calls, origin, strayNav>>
<1>0. conns[k] \in ConnRecord
  BY DEF SessionTypes
<1>1. CASE ChallengeAnswered(k)
  <2> DEFINE good == signer = conns[k].account
             r == [conns[k] EXCEPT !.at = "sign", !.good = good]
  <2>1. conns' = [conns EXCEPT ![k] = r] /\ conns[k].at = "challenge"
    BY <1>0, <1>1 DEF ChallengeAnswered, SessionTypes
  <2>2. r \in ConnRecord
    BY <1>0 DEF ConnRecord, Proving
  <2>3. ConnTo(k, r)
    BY <2>1, <2>2 DEF ConnTo, SessionTypes
  <2>4. good \in BOOLEAN
    OBVIOUS
  <2>5. state' = "busy" /\ UNCHANGED <<metamask, session, signer, page, nav, inits, calls, origin, strayNav>>
    BY <1>1 DEF ChallengeAnswered
  <2> QED
    BY <2>1, <2>3, <2>4, <2>5 DEF Proving
<1>2. CASE Signed(k)
  <2> DEFINE good == conns[k].good
             r == [conns[k] EXCEPT !.at = "verify", !.good = good]
  <2>1. conns' = [conns EXCEPT ![k] = r] /\ conns[k].at = "sign"
    BY <1>0, <1>2 DEF Signed, SessionTypes, ConnRecord
  <2>2. r \in ConnRecord /\ good \in BOOLEAN
    BY <1>0 DEF ConnRecord, Proving
  <2>3. ConnTo(k, r)
    BY <2>1, <2>2 DEF ConnTo, SessionTypes
  <2>5. state' = "busy" /\ UNCHANGED <<metamask, session, signer, page, nav, inits, calls, origin, strayNav>>
    BY <1>2 DEF Signed
  <2> QED
    BY <2>1, <2>2, <2>3, <2>5 DEF Proving
<1> QED
  BY <1>1, <1>2

\* A session begins: the login k is over, and all else has outlived its session.
LEMMA LoggedInEffect ==
  ASSUME SessionTypes, ConnsHaveAccounts, SessionAssumption, NEW k \in Conns, LoggedIn(k)
  PROVE  /\ conns[k].at = "verify"
         /\ session' = conns[k].account /\ session' \in Accounts
         /\ signer' = signer /\ metamask' = metamask /\ state' = "authenticated"
         /\ origin' = [origin EXCEPT !.stray = signer # NoOne /\ origin.by # k]
         /\ ConnsOldFrom([conns EXCEPT ![k] = NoTask])
         /\ page' \in Pages /\ nav' = NoOne /\ strayNav' \in BOOLEAN
         /\ calls' \in 0 .. MaxCalls
         /\ inits' \in [Inits -> InitRecord]
         /\ \A i \in Inits : \/ inits'[i] = NoInit \/ inits'[i].old
                             \/ inits'[i].owner = session'
<1> DEFINE a == conns[k].account
           ts == Outlive(inits, NoInit)
<1>1. conns[k].at = "verify" /\ session' = a /\ state' = "authenticated" /\ signer' = signer
      /\ metamask' = metamask
      /\ origin' = [origin EXCEPT !.stray = signer # NoOne /\ origin.by # k]
  BY DEF LoggedIn
<1>2. a \in Accounts
  BY <1>1 DEF ConnsHaveAccounts, Proving
<1>3. ConnsOldFrom([conns EXCEPT ![k] = NoTask])
  <2>1. [conns EXCEPT ![k] = NoTask] \in [Conns -> ConnRecord]
    BY Blanks DEF SessionTypes
  <2>2. conns' = Outlive([conns EXCEPT ![k] = NoTask], NoTask)
    BY DEF LoggedIn
  <2> QED
    BY <2>1, <2>2, OutliveConns
<1>4. InitsOld(ts)
  BY OutliveInits
<1>5. \A i \in Inits : ts[i] = NoInit \/ ts[i].old
  BY <1>4 DEF InitsOld, SessionTypes, InitRecord
<1>6. Home(a) \in Pages
  BY DEF Home, Pages
<1>7. CASE page = Home(a)
  <2>1. nav' = NoOne /\ strayNav' = FALSE /\ inits' = ts /\ page' = page /\ calls' = calls
    BY <1>7 DEF LoggedIn, ResetToRoot
  <2> QED
    BY <1>1, <1>2, <1>3, <1>4, <1>5, <1>6, <1>7, <2>1 DEF InitsOld, SessionTypes
<1>8. CASE page # Home(a)
  <2>1. Mount(Home(a), a, NoOne, ts)
    BY <1>8 DEF LoggedIn
  <2>2. /\ page' = Home(a) /\ nav' = NoOne /\ strayNav' \in BOOLEAN /\ calls' \in 0 .. MaxCalls
        /\ inits' \in [Inits -> InitRecord]
        /\ \A i \in Inits : inits'[i] = ts[i] \/ inits'[i].owner = a
    <3>1. ts \in [Inits -> InitRecord]
      BY <1>4 DEF InitsOld
    <3> HIDE DEF ts, a
    <3> QED
      BY <2>1, <3>1, <1>2, <1>6, MountEffect
  <2> QED
    BY <1>1, <1>2, <1>3, <1>5, <1>6, <2>2
<1> QED
  BY <1>7, <1>8

\* What is neither of the connections nor of the pages' initialisations.
LEMMA PageEffect ==
  ASSUME SessionTypes, SessionAssumption, NEW p \in Pages, GoTo(p)
  PROVE  /\ page' \in Pages /\ nav' \in {nav, NoOne}
         /\ nav' # NoOne => strayNav' = strayNav
         /\ strayNav' \in BOOLEAN /\ calls' \in 0 .. MaxCalls
         /\ inits' \in [Inits -> InitRecord]
         /\ \A i \in Inits : inits'[i] = inits[i] \/ inits'[i].owner = session
         /\ UNCHANGED <<metamask, session, state, signer, conns, origin>>
<1>1. session \in Accounts
  BY DEF GoTo, SessionTypes
<1>2. CASE page' = "login" /\ UNCHANGED <<nav, strayNav, inits, calls>>
  BY <1>2 DEF GoTo, SessionTypes, Pages
<1>3. CASE Mount(p, session, nav, inits)
  BY <1>1, <1>3, MountEffect DEF GoTo, SessionTypes
<1> QED
  BY <1>2, <1>3 DEF GoTo

\* An initialisation comes to one of its answers.
LEMMA FetchEffect ==
  ASSUME SessionTypes, SessionAssumption, NEW i \in Inits, Fetched(i) \/ FetchFails(i)
  PROVE  /\ inits[i] # NoInit
         /\ \/ nav' = nav /\ strayNav' = strayNav
            \/ nav' = inits[i].owner /\ strayNav' = inits[i].old
         /\ calls' \in 0 .. MaxCalls
         /\ inits' \in [Inits -> InitRecord]
         /\ \A j \in Inits : \/ inits'[j] = NoInit
                             \/ inits'[j].owner = inits[j].owner /\ inits'[j].old = inits[j].old
                                /\ inits[j] # NoInit
         /\ UNCHANGED <<metamask, session, state, signer, conns, page, origin>>
<1>0. inits[i] \in InitRecord /\ Sent(calls) \in 0 .. MaxCalls
  BY DEF SessionTypes, Sent, SessionAssumption
<1>1. CASE inits' = [inits EXCEPT ![i] = NoInit]
  <2>1. inits' \in [Inits -> InitRecord] /\ \A j \in Inits : inits'[j] \in {NoInit, inits[j]}
    BY <1>1, Blanks DEF SessionTypes
  <2>2. \A j \in Inits : \/ inits'[j] = NoInit
                         \/ inits'[j].owner = inits[j].owner /\ inits'[j].old = inits[j].old
                            /\ inits[j] # NoInit
    BY <2>1
  <2>3. /\ \/ nav' = nav /\ strayNav' = strayNav
           \/ nav' = inits[i].owner /\ strayNav' = inits[i].old
        /\ calls' \in {calls, Sent(calls)} /\ inits[i] # NoInit
        /\ UNCHANGED <<metamask, session, state, signer, conns, page, origin>>
    BY DEF Fetched, FetchFails
  <2> QED
    BY <1>0, <2>1, <2>2, <2>3 DEF SessionTypes
<1>2. CASE Fetched(i) /\ inits[i].left > 1
  <2> DEFINE r == [inits[i] EXCEPT !.left = inits[i].left - 1]
  <2>1. inits' = [inits EXCEPT ![i] = r]
    BY <1>0, <1>2 DEF Fetched, SessionTypes, InitRecord
  <2>2. r \in InitRecord /\ r.owner = inits[i].owner /\ r.old = inits[i].old
    BY <1>0, <1>2 DEF InitRecord
  <2>3. inits' \in [Inits -> InitRecord] /\ inits'[i] = r
        /\ \A j \in Inits \ {i} : inits'[j] = inits[j]
    BY <2>1, <2>2 DEF SessionTypes
  <2>4. inits[i] # NoInit /\ UNCHANGED <<nav, strayNav, calls, metamask, session, state, signer, conns, page, origin>>
    BY <1>2 DEF Fetched
  <2>5. \A j \in Inits : \/ inits'[j] = NoInit
                         \/ inits'[j].owner = inits[j].owner /\ inits'[j].old = inits[j].old
                            /\ inits[j] # NoInit
    BY <2>2, <2>3, <2>4
  <2> HIDE DEF r
  <2> QED
    BY <2>3, <2>4, <2>5 DEF SessionTypes
<1> QED
  BY <1>1, <1>2 DEF Fetched, FetchFails

\* The tab is reloaded.
LEMMA ReloadEffect ==
  ASSUME SessionTypes, SessionAssumption,
         Reload \/ \E k \in Conns, p \in Pages : ReloadKept(k, p)
  PROVE  /\ signer' = NoOne /\ origin' = NoOrigin /\ nav' = NoOne /\ strayNav' = FALSE
         /\ session' \in {session, NoOne} /\ metamask' = metamask
         /\ state' \in {"idle", "authenticated"} /\ page' \in Pages
         /\ calls' \in 0 .. MaxCalls
         /\ conns' \in [Conns -> ConnRecord]
         /\ \A j \in Conns : \/ conns'[j] = NoTask
                             \/ /\ conns'[j].kind = "restore" /\ conns'[j].at = "accounts"
                                /\ conns'[j].account = session'
         /\ inits' \in [Inits -> InitRecord]
         /\ \A i \in Inits : inits'[i] = NoInit \/ inits'[i].owner = session'
<1>1. CASE Reload
  BY <1>1, Blanks DEF Reload, Clear, ResetToRoot, Pages, SessionAssumption
<1>2. CASE \E k \in Conns, p \in Pages : ReloadKept(k, p)
  <2>1. PICK k \in Conns, p \in Pages : ReloadKept(k, p)
    BY <1>2
  <2> DEFINE r == [NoTask EXCEPT !.kind = "restore", !.at = "accounts", !.account = session]
             new == [owner |-> session, left |-> Fetches[session], old |-> FALSE]
  <2>2. session \in Accounts /\ session' = session /\ metamask' = metamask
    BY <2>1 DEF ReloadKept, SessionTypes
  <2>3. signer' = NoOne /\ origin' = NoOrigin /\ state' = "authenticated" /\ page' = p
        /\ nav' = NoOne /\ strayNav' = FALSE
    BY <2>1 DEF ReloadKept, Clear, ResetToRoot
  <2>4. r \in ConnRecord /\ r.kind = "restore" /\ r.at = "accounts" /\ r.account = session
    BY <2>2 DEF NoTask, ConnRecord, Kinds
  <2>5. conns' = [j \in Conns |-> IF j = k THEN r ELSE NoTask]
    BY <2>1 DEF ReloadKept
  <2>6. /\ conns' \in [Conns -> ConnRecord]
        /\ \A j \in Conns : \/ conns'[j] = NoTask
                            \/ /\ conns'[j].kind = "restore" /\ conns'[j].at = "accounts"
                               /\ conns'[j].account = session'
    BY <2>2, <2>4, <2>5, Blanks
  <2>7. new \in InitRecord /\ new.owner = session
    BY <2>2 DEF InitRecord, SessionAssumption
  <2>8. calls' \in 0 .. MaxCalls
    BY <2>1 DEF ReloadKept, Sent, SessionAssumption
  <2>9. /\ inits' \in [Inits -> InitRecord]
        /\ \A i \in Inits : inits'[i] = NoInit \/ inits'[i].owner = session'
    <3>1. CASE p = "login"
      BY <3>1, <2>1, Blanks DEF ReloadKept
    <3>2. CASE p # "login"
      <4>1. PICK i \in Inits :
              inits' = [j \in Inits |-> IF j = i /\ MustFetch(p, session, NoOne) THEN new ELSE NoInit]
        BY <2>1, <3>2 DEF ReloadKept
      <4> HIDE DEF new
      <4> QED
        BY <4>1, <2>2, <2>7, Blanks
    <3> QED
      BY <3>1, <3>2
  <2> QED
    BY <2>2, <2>3, <2>6, <2>8, <2>9
<1> QED
  BY <1>1, <1>2

\* The events of MetaMask and of the server that say nothing of a connection.
LEMMA SubmitEffect ==
  ASSUME SessionTypes, SessionAssumption, SubmitFrom, ~Logout
  PROVE  /\ calls' \in 0 .. MaxCalls
         /\ UNCHANGED <<metamask, session, state, signer, conns, page, nav, inits, origin, strayNav>>
  BY DEF SubmitFrom, Sent, SessionTypes, SessionAssumption

\* The cases a step falls into, by what it does to connections and initialisations.
LEMMA SessionSteps ==
  ASSUME SessionTypes, SessionAssumption, [SessionNext]_sessVars
  PROVE  \/ \E k \in Conns : LoginBegins(k) \/ ConnectSigner(k)
         \/ \E k \in Conns : Throws(k)
         \/ \E k \in Conns : AccountsAnswered(k) /\ ~Throws(k)
         \/ \E k \in Conns : SignerGot(k)
         \/ \E k \in Conns : (ChallengeAnswered(k) \/ Signed(k)) /\ ~Throws(k)
         \/ \E k \in Conns : LoggedIn(k)
         \/ Reload \/ \E k \in Conns, p \in Pages : ReloadKept(k, p)
         \/ \E a \in Accounts \cup {NoOne} : AccountsChanged(a) /\ ~Logout
         \/ ChainChanged
         \/ Disconnect /\ ~Logout
         \/ Logout /\ metamask' \in Accounts \cup {NoOne, metamask} /\ calls' \in 0 .. MaxCalls
         \/ \E p \in Pages : GoTo(p)
         \/ \E i \in Inits : Fetched(i) \/ FetchFails(i)
         \/ Answered
         \/ SubmitFrom /\ ~Logout
         \/ UNCHANGED sessVars
<1> DEFINE Out == /\ Logout
                  /\ metamask' \in Accounts \cup {NoOne, metamask}
                  /\ calls' \in 0 .. MaxCalls
<1>1. ASSUME NEW a \in Accounts \cup {NoOne}, AccountsChanged(a), Logout
      PROVE  Out
  BY <1>1 DEF AccountsChanged, SessionTypes
<1>2. Disconnect /\ Logout => Out
  BY DEF Disconnect, SessionTypes
<1>3. PressLogout => Out
  BY DEF PressLogout, SessionTypes
<1>4. Refused => Out
  BY DEF Refused, SessionTypes, SessionAssumption
<1>5. SubmitFrom /\ Logout => Out
  <2> SUFFICES ASSUME SubmitFrom, Logout
               PROVE  calls' = calls /\ metamask' = metamask
    BY DEF SessionTypes
  <2> QED
    BY DEF SubmitFrom, Logout
<1>6. ASSUME NEW k \in Conns,
             \/ LoginBegins(k) \/ ConnectSigner(k) \/ Throws(k)
             \/ AccountsAnswered(k) \/ SignerGot(k) \/ ChallengeAnswered(k)
             \/ Signed(k) \/ LoggedIn(k)
             \/ \E p \in Pages : ReloadKept(k, p)
      PROVE  \/ LoginBegins(k) \/ ConnectSigner(k)
             \/ Throws(k)
             \/ AccountsAnswered(k) /\ ~Throws(k)
             \/ SignerGot(k)
             \/ (ChallengeAnswered(k) \/ Signed(k)) /\ ~Throws(k)
             \/ LoggedIn(k)
             \/ \E p \in Pages : ReloadKept(k, p)
  BY <1>6
<1> HIDE DEF Out
<1>7. CASE \E k \in Conns :
             \/ LoginBegins(k) \/ ConnectSigner(k) \/ Throws(k)
             \/ AccountsAnswered(k) \/ SignerGot(k) \/ ChallengeAnswered(k)
             \/ Signed(k) \/ LoggedIn(k)
             \/ \E p \in Pages : ReloadKept(k, p)
  BY <1>6, <1>7
<1>8. CASE \E a \in Accounts \cup {NoOne} : AccountsChanged(a)
  <2>1. PICK a \in Accounts \cup {NoOne} : AccountsChanged(a)
    BY <1>8
  <2> QED
    BY <1>1, <2>1 DEF Out
<1> QED
  BY <1>2, <1>3, <1>4, <1>5, <1>7, <1>8 DEF SessionNext, Out

-----------------------------------------------------------------------------
(* The invariant *)

\* A connection of the present session is made for its account.
ConnsAreTheSessions ==
  \A k \in Conns : conns[k].at # "idle" /\ ~LoggingIn(k) /\ ~conns[k].old
                      => conns[k].account = session

\* Only a login asks for a challenge; if the signer is the one it has set, it is of the
\* account that the login is for.
LoginsSign ==
  \A k \in Conns : conns[k].at \in Proving =>
    /\ LoggingIn(k)
    /\ origin.by = k => signer = conns[k].account

\* A signer of another account than the session's is stray or set by a login under way.
StraySigner ==
  session # NoOne /\ signer \notin {NoOne, session}
    => origin.stray \/ \E k \in Conns : origin.by = k /\ LoggingIn(k)

\* A page of the present session is initialised for its account.
InitsAreTheSessions ==
  \A i \in Inits : inits[i] # NoInit /\ ~inits[i].old => inits[i].owner = session

ConnsInv == ConnsHaveAccounts /\ ConnsAreTheSessions /\ LoginsSign /\ StraySigner
PagesInv == InitsAreTheSessions /\ ContextIsTheSessions

SessionInv == SessionTypes /\ ConnsInv /\ PagesInv

\* The invariant holds to begin with.
LEMMA SessionStarts == SessionInit => SessionInv
<1> SUFFICES ASSUME SessionInit
             PROVE  SessionInv
  OBVIOUS
<1>1. SessionTypes
  <2>1. conns \in [Conns -> ConnRecord] /\ inits \in [Inits -> InitRecord]
    BY Blanks DEF SessionInit
  <2>2. calls \in 0 .. MaxCalls
    BY SessionAssumption DEF SessionInit
  <2> QED
    BY <2>1, <2>2, Blanks DEF SessionInit, SessionTypes, Pages
<1>2. \A k \in Conns : conns[k] = NoTask /\ NoTask.at = "idle" /\ NoTask.kind = "none"
  BY DEF SessionInit, NoTask
<1>3. \A i \in Inits : inits[i] = NoInit
  BY DEF SessionInit
<1>4. session = NoOne
  BY DEF SessionInit
<1> QED
  BY <1>1, <1>2, <1>3, <1>4 DEF SessionInv, ConnsInv, PagesInv, ConnsHaveAccounts,
     ConnsAreTheSessions, LoginsSign, StraySigner, InitsAreTheSessions, ContextIsTheSessions,
     Proving

\* Each step keeps the types.
LEMMA SessionTypesKept ==
  ASSUME SessionTypes, ConnsHaveAccounts, SessionAssumption, [SessionNext]_sessVars
  PROVE  SessionTypes'
<1>1. CASE \E k \in Conns : LoginBegins(k) \/ ConnectSigner(k)
  <2>1. PICK k \in Conns : LoginBegins(k) \/ ConnectSigner(k)
    BY <1>1
  <2>2. conns' \in [Conns -> ConnRecord]
    BY <2>1, BeginEffect DEF LoginBegins, ConnectSigner, ConnTo, Kinds, SessionTypes
  <2> QED
    BY <2>1, <2>2 DEF LoginBegins, ConnectSigner, SessionTypes
<1>2. CASE \E k \in Conns : Throws(k)
  BY <1>2, ThrowsEffect, Blanks DEF SessionTypes, ConnTo
<1>3. CASE \E k \in Conns : AccountsAnswered(k) /\ ~Throws(k)
  BY <1>3, AccountsEffect DEF SessionTypes, ConnTo
<1>4. CASE \E k \in Conns : SignerGot(k)
  <2>1. PICK k \in Conns : SignerGot(k)
    BY <1>4
  <2>2. conns[k] \in ConnRecord /\ conns' \in [Conns -> ConnRecord]
    <3>1. \E r : ConnTo(k, r)
      BY <2>1, SignerEffect
    <3> QED
      BY <3>1 DEF SessionTypes, ConnTo
  <2>3. signer' \in Accounts \cup {NoOne} /\ origin' \in [by : Conns \cup {NoConn}, stray : BOOLEAN]
    <3>1. /\ signer' = conns[k].account
          /\ origin' = [by |-> IF LoggingIn(k) THEN k ELSE NoConn,
                        stray |-> conns[k].old /\ session # NoOne]
      BY <2>1, SignerEffect
    <3> QED
      BY <2>2, <3>1 DEF ConnRecord
  <2> QED
    BY <2>1, <2>2, <2>3, SignerEffect DEF SessionTypes
<1>5. CASE \E k \in Conns : (ChallengeAnswered(k) \/ Signed(k)) /\ ~Throws(k)
  BY <1>5, ProvingEffect DEF SessionTypes, ConnTo
<1>6. CASE \E k \in Conns : LoggedIn(k)
  <2>1. PICK k \in Conns : LoggedIn(k)
    BY <1>6
  <2>2. [origin EXCEPT !.stray = signer # NoOne /\ origin.by # k]
          \in [by : Conns \cup {NoConn}, stray : BOOLEAN]
    BY DEF SessionTypes
  <2>3. /\ conns' \in [Conns -> ConnRecord] /\ inits' \in [Inits -> InitRecord]
        /\ page' \in Pages /\ nav' = NoOne /\ strayNav' \in BOOLEAN /\ calls' \in 0 .. MaxCalls
        /\ session' \in Accounts /\ signer' = signer /\ metamask' = metamask
        /\ state' = "authenticated"
        /\ origin' = [origin EXCEPT !.stray = signer # NoOne /\ origin.by # k]
    BY <2>1, LoggedInEffect DEF ConnsOldFrom
  <2> QED
    BY <2>2, <2>3 DEF SessionTypes
<1>7. CASE Reload \/ \E k \in Conns, p \in Pages : ReloadKept(k, p)
  BY <1>7, ReloadEffect, Blanks DEF SessionTypes
<1>8. CASE \E a \in Accounts \cup {NoOne} : AccountsChanged(a) /\ ~Logout
  <2>1. PICK a \in Accounts \cup {NoOne} : AccountsChanged(a) /\ ~Logout
    BY <1>8
  <2>2. conns' \in [Conns -> ConnRecord]
    BY <2>1, BeginEffect DEF AccountsChanged, ConnTo, Kinds, SessionTypes
  <2> QED
    BY <2>1, <2>2, Blanks DEF AccountsChanged, Clear, SessionTypes
<1>9. CASE ChainChanged \/ (Disconnect /\ ~Logout)
  BY <1>9, Blanks DEF ChainChanged, Disconnect, Clear, SessionTypes
<1>10. CASE Logout /\ metamask' \in Accounts \cup {NoOne, metamask} /\ calls' \in 0 .. MaxCalls
  BY <1>10, LogoutEffect, Blanks DEF SessionTypes, ConnsOldFrom, InitsOld, Pages
<1>11. CASE \E p \in Pages : GoTo(p)
  BY <1>11, PageEffect DEF SessionTypes
<1>12. CASE \E i \in Inits : Fetched(i) \/ FetchFails(i)
  <2>1. PICK i \in Inits : Fetched(i) \/ FetchFails(i)
    BY <1>12
  <2>2. inits[i] \in InitRecord
    BY DEF SessionTypes
  <2> QED
    BY <2>1, <2>2, FetchEffect DEF SessionTypes, InitRecord
<1>13. CASE Answered \/ (SubmitFrom /\ ~Logout)
  BY <1>13, SubmitEffect DEF Answered, SessionTypes, SessionAssumption
<1>14. CASE UNCHANGED sessVars
  BY <1>14 DEF sessVars, SessionTypes
<1> QED
  BY <1>1, <1>2, <1>3, <1>4, <1>5, <1>6, <1>7, <1>8, <1>9, <1>10, <1>11, <1>12, <1>13, <1>14,
     SessionSteps

\* Each step keeps what is said of connections and of the signer.
LEMMA ConnsInvKept ==
  ASSUME SessionInv, SessionAssumption, [SessionNext]_sessVars
  PROVE  ConnsInv'
<1> USE DEF ConnsInv, ConnsHaveAccounts, ConnsAreTheSessions, LoginsSign, StraySigner
<1> USE DEF LoggingIn
<1>0. SessionTypes /\ ConnsInv /\ \A k \in Conns : conns[k] \in ConnRecord
  BY DEF SessionInv, SessionTypes
<1>1. CASE \E k \in Conns : LoginBegins(k) \/ ConnectSigner(k)
  <2>1. PICK k \in Conns : LoginBegins(k) \/ ConnectSigner(k)
    BY <1>1
  <2>2. session' = session /\ signer' = signer /\ origin' = origin
    BY <2>1 DEF LoginBegins, ConnectSigner
  <2>3. PICK kind \in {"login", "connect"}, a \in {NoOne, session} :
          /\ conns[k] = NoTask
          /\ ConnTo(k, [kind |-> kind, at |-> "accounts", account |-> a, good |-> FALSE,
                        old |-> FALSE])
          /\ kind = "connect" => a = session
    BY <1>0, <2>1, BeginEffect DEF LoginBegins, ConnectSigner, Kinds, SessionTypes
  <2>4. ~(origin.by = k /\ LoggingIn(k))
    BY <2>3 DEF NoTask
  <2> QED
    BY <1>0, <2>2, <2>3, <2>4 DEF ConnTo, Proving
<1>2. CASE \E k \in Conns : Throws(k)
  <2>1. PICK k \in Conns : Throws(k)
    BY <1>2
  <2>2. session' = session /\ ConnTo(k, NoTask)
    BY <1>0, <2>1, ThrowsEffect
  <2>3. CASE conns[k].kind = "connect" /\ signer' = signer /\ origin' = origin
    BY <1>0, <2>2, <2>3 DEF ConnTo, NoTask, Proving
  <2>4. CASE signer' = NoOne /\ origin' = NoOrigin
    BY <1>0, <2>2, <2>4 DEF ConnTo, NoTask, Proving, NoOrigin, SessionAssumption
  <2> QED
    BY <1>0, <2>1, <2>3, <2>4, ThrowsEffect
<1>3. CASE \E k \in Conns : AccountsAnswered(k) /\ ~Throws(k)
  <2>1. PICK k \in Conns : AccountsAnswered(k) /\ ~Throws(k)
    BY <1>3
  <2>2. /\ conns[k].at = "accounts" /\ metamask \in Accounts
        /\ LoggingIn(k) \/ metamask = conns[k].account
        /\ ConnTo(k, [conns[k] EXCEPT !.at = "signer", !.account = metamask])
        /\ session' = session /\ signer' = signer /\ origin' = origin
    BY <1>0, <2>1, AccountsEffect
  <2>3. conns'[k].kind = conns[k].kind /\ conns'[k].old = conns[k].old
        /\ conns'[k].at = "signer" /\ conns'[k].account = metamask
    BY <1>0, <2>2 DEF ConnTo, ConnRecord
  <2>4. \A j \in Conns \ {k} : conns'[j] = conns[j]
    BY <2>2 DEF ConnTo
  <2> QED
    BY <1>0, <2>2, <2>3, <2>4 DEF Proving
<1>4. CASE \E k \in Conns : SignerGot(k)
  <2>1. PICK k \in Conns : SignerGot(k)
    BY <1>4
  <2>2. /\ conns[k].at = "signer" /\ signer' = conns[k].account /\ session' = session
        /\ origin' = [by |-> IF LoggingIn(k) THEN k ELSE NoConn,
                      stray |-> conns[k].old /\ session # NoOne]
    BY <1>0, <2>1, SignerEffect
  <2>3. CASE LoggingIn(k)
    <3>1. /\ conns'[k].kind = "login" /\ conns'[k].at = "challenge"
          /\ conns'[k].account = conns[k].account
          /\ \A j \in Conns \ {k} : conns'[j] = conns[j]
      <4>1. ConnTo(k, [conns[k] EXCEPT !.at = "challenge"])
        BY <1>0, <2>1, <2>3, SignerEffect
      <4> QED
        BY <1>0, <2>3, <4>1 DEF ConnTo, ConnRecord
    <3> QED
      BY <1>0, <2>2, <2>3, <3>1 DEF Proving
  <2>4. CASE ~LoggingIn(k)
    <3>1. conns'[k] = NoTask /\ \A j \in Conns \ {k} : conns'[j] = conns[j]
      BY <1>0, <2>1, <2>4, SignerEffect DEF ConnTo
    <3>2. origin'.by = NoConn /\ (origin'.stray <=> conns[k].old /\ session # NoOne)
      BY <2>2, <2>4
    <3>3. ~conns[k].old => signer' = session
      BY <1>0, <2>2, <2>4 DEF ConnRecord
    <3> QED
      BY <1>0, <2>2, <3>1, <3>2, <3>3 DEF NoTask, Proving, SessionAssumption
  <2> QED
    BY <2>3, <2>4
<1>5. CASE \E k \in Conns : (ChallengeAnswered(k) \/ Signed(k)) /\ ~Throws(k)
  <2>1. PICK k \in Conns : (ChallengeAnswered(k) \/ Signed(k)) /\ ~Throws(k)
    BY <1>5
  <2>2. PICK at \in Proving, good \in BOOLEAN :
           /\ conns[k].at \in Proving
           /\ ConnTo(k, [conns[k] EXCEPT !.at = at, !.good = good])
           /\ session' = session /\ signer' = signer /\ origin' = origin
    BY <1>0, <2>1, ProvingEffect
  <2>3. /\ conns'[k].kind = conns[k].kind /\ conns'[k].old = conns[k].old
        /\ conns'[k].at = at /\ conns'[k].account = conns[k].account
        /\ \A j \in Conns \ {k} : conns'[j] = conns[j]
    BY <1>0, <2>2 DEF ConnTo, ConnRecord
  <2> QED
    BY <1>0, <2>2, <2>3
<1>6. CASE \E k \in Conns : LoggedIn(k)
  <2>1. PICK k \in Conns : LoggedIn(k)
    BY <1>6
  <2>2. /\ conns[k].at = "verify" /\ session' = conns[k].account /\ signer' = signer
        /\ origin' = [origin EXCEPT !.stray = signer # NoOne /\ origin.by # k]
        /\ ConnsOldFrom([conns EXCEPT ![k] = NoTask])
    BY <1>0, <2>1, LoggedInEffect
  <2>3. origin'.by = origin.by /\ (origin'.stray <=> signer # NoOne /\ origin.by # k)
    BY <1>0, <2>2 DEF SessionTypes
  <2>4. conns'[k] = NoTask
    BY <1>0, <2>2 DEF ConnsOldFrom, SessionTypes
  <2>5. ASSUME NEW j \in Conns \ {k}
        PROVE  \/ conns'[j] = NoTask
               \/ /\ conns'[j].old /\ conns'[j].kind = conns[j].kind
                  /\ conns'[j].at = conns[j].at /\ conns'[j].account = conns[j].account
    BY <1>0, <2>2 DEF ConnsOldFrom, SessionTypes, ConnRecord
  <2>6. NoTask.kind = "none" /\ NoTask.at = "idle"
    BY DEF NoTask
  <2>7. origin.by = k => signer = session'
    BY <1>0, <2>2 DEF Proving
  <2> QED
    BY <1>0, <2>2, <2>3, <2>4, <2>5, <2>6, <2>7 DEF Proving
<1>7. CASE Reload \/ \E k \in Conns, p \in Pages : ReloadKept(k, p)
  <2>1. /\ signer' = NoOne /\ origin' = NoOrigin
        /\ \A j \in Conns : \/ conns'[j] = NoTask
                           \/ /\ conns'[j].kind = "restore" /\ conns'[j].at = "accounts"
                              /\ conns'[j].account = session'
    BY <1>0, <1>7, ReloadEffect
  <2> QED
    BY <2>1 DEF NoTask, NoOrigin, Proving, SessionAssumption
<1>8. CASE \E a \in Accounts \cup {NoOne} : AccountsChanged(a) /\ ~Logout
  <2>1. PICK a \in Accounts \cup {NoOne} : AccountsChanged(a) /\ ~Logout
    BY <1>8
  <2>2. signer' = NoOne /\ origin' = NoOrigin /\ session' = session
    BY <2>1 DEF AccountsChanged, Clear
  <2>3. \/ conns' = conns
        \/ \E k \in Conns : ConnTo(k, [kind |-> "restore", at |-> "accounts",
                                        account |-> session, good |-> FALSE, old |-> FALSE])
    BY <1>0, <2>1, BeginEffect DEF AccountsChanged, SessionTypes, Kinds
  <2> QED
    BY <1>0, <2>2, <2>3 DEF NoOrigin, ConnTo, Proving, SessionAssumption
<1>9. CASE ChainChanged \/ (Disconnect /\ ~Logout)
  BY <1>0, <1>9 DEF ChainChanged, Disconnect, Clear, NoOrigin, SessionAssumption
<1>10. CASE Logout
  <2>1. /\ signer' = NoOne /\ origin' = NoOrigin /\ session' = NoOne
        /\ (conns' = conns /\ session = NoOne) \/ ConnsOldFrom(conns)
    BY <1>0, <1>10, LogoutEffect
  <2>2. ASSUME ConnsOldFrom(conns), NEW j \in Conns
        PROVE  \/ conns'[j] = NoTask
               \/ /\ conns'[j].old /\ conns'[j].kind = conns[j].kind
                  /\ conns'[j].at = conns[j].at /\ conns'[j].account = conns[j].account
    BY <1>0, <2>2 DEF ConnsOldFrom, ConnRecord
  <2> QED
    BY <1>0, <2>1, <2>2 DEF NoOrigin, Proving, SessionAssumption, NoTask
<1>11. CASE UNCHANGED <<session, signer, conns, origin>>
  BY <1>0, <1>11
<1> QED
  BY <1>0, <1>1, <1>2, <1>3, <1>4, <1>5, <1>6, <1>7, <1>8, <1>9, <1>10, <1>11,
     SessionSteps, PageEffect, FetchEffect, SubmitEffect DEF Answered, sessVars

\* Each step keeps what is said of pages and of the context they act in.
LEMMA PagesInvKept ==
  ASSUME SessionInv, SessionAssumption, [SessionNext]_sessVars
  PROVE  PagesInv'
<1> USE DEF PagesInv, InitsAreTheSessions, ContextIsTheSessions
<1>0. SessionTypes /\ ConnsHaveAccounts /\ PagesInv /\ \A i \in Inits : inits[i] \in InitRecord
  BY DEF SessionInv, SessionTypes, ConnsInv
<1>1. CASE UNCHANGED <<session, nav, inits, strayNav>>
  BY <1>0, <1>1
<1>2. CASE \E k \in Conns : LoggedIn(k)
  BY <1>0, <1>2, LoggedInEffect
<1>3. CASE Reload \/ \E k \in Conns, p \in Pages : ReloadKept(k, p)
  BY <1>0, <1>3, ReloadEffect
<1>4. CASE Logout
  <2>1. /\ nav' = NoOne /\ session' = NoOne
        /\ (inits' = inits /\ session = NoOne) \/ InitsOld(inits')
    BY <1>0, <1>4, LogoutEffect
  <2>2. ASSUME InitsOld(inits'), NEW i \in Inits
        PROVE  inits'[i] = NoInit \/ inits'[i].old
    BY <1>0, <2>2 DEF InitsOld, InitRecord
  <2> QED
    BY <1>0, <2>1, <2>2
<1>5. CASE \E p \in Pages : GoTo(p)
  <2>1. PICK p \in Pages : GoTo(p)
    BY <1>5
  <2> QED
    BY <1>0, <2>1, PageEffect
<1>6. CASE \E i \in Inits : Fetched(i) \/ FetchFails(i)
  <2>1. PICK i \in Inits : Fetched(i) \/ FetchFails(i)
    BY <1>6
  <2> QED
    BY <1>0, <2>1, FetchEffect
<1>7. CASE \E k \in Conns : LoginBegins(k) \/ ConnectSigner(k)
  BY <1>1, <1>7 DEF LoginBegins, ConnectSigner
<1>8. CASE \/ \E k \in Conns : Throws(k)
           \/ \E k \in Conns : AccountsAnswered(k) /\ ~Throws(k)
           \/ \E k \in Conns : SignerGot(k)
           \/ \E k \in Conns : (ChallengeAnswered(k) \/ Signed(k)) /\ ~Throws(k)
  BY <1>0, <1>1, <1>8, ThrowsEffect, AccountsEffect, SignerEffect, ProvingEffect
<1>9. CASE \/ \E a \in Accounts \cup {NoOne} : AccountsChanged(a) /\ ~Logout
           \/ ChainChanged
           \/ Disconnect /\ ~Logout
           \/ Answered
           \/ UNCHANGED sessVars
  BY <1>1, <1>9 DEF AccountsChanged, ChainChanged, Disconnect, Answered, sessVars
<1> QED
  BY <1>0, <1>1, <1>2, <1>3, <1>4, <1>5, <1>6, <1>7, <1>8, <1>9, SessionSteps, SubmitEffect

\* The invariant holds in every reachable state.
LEMMA SessionInvHolds == SessionSpec => []SessionInv
<1>1. SessionInv /\ [SessionNext]_sessVars => SessionInv'
  BY SessionTypesKept, ConnsInvKept, PagesInvKept, SessionAssumption DEF SessionInv, ConnsInv
<1> QED
  BY <1>1, SessionStarts, PTL DEF SessionSpec

\* The session, its signer and its pages are well typed, for any accounts, connections and
\* page initialisations.
THEOREM SessionTypeCorrect == SessionSpec => []SessionTypeOK
<1>1. SessionInv => SessionTypeOK
  BY SessionTypesMean DEF SessionInv
<1> QED
  BY <1>1, SessionInvHolds, PTL

\* Nobody else signs under a session, however many connections and logins are under way
\* and whatever MetaMask does meanwhile, but for the two exceptions the property names.
THEOREM SignerIsAlwaysTheSessions == SessionSpec => []SignerIsTheSessions
<1>1. SessionInv => SignerIsTheSessions
  BY DEF SessionInv, ConnsInv, StraySigner, SignerIsTheSessions
<1> QED
  BY <1>1, SessionInvHolds, PTL

\* No page acts in another account's context unless a late initialisation selected it.
THEOREM ContextIsAlwaysTheSessions == SessionSpec => []ContextIsTheSessions
<1>1. SessionInv => ContextIsTheSessions
  BY DEF SessionInv, PagesInv
<1> QED
  BY <1>1, SessionInvHolds, PTL
=============================================================================
