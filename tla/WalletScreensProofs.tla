------------------------- MODULE WalletScreensProofs --------------------------
(***************************************************************************)
(* Proofs about RequestExchange, for any number of approvals and alerts,   *)
(* and about WalletDocuments, for any credentials, any number of           *)
(* overlapping loads and refreshes and any number of faults.               *)
(*                                                                         *)
(* ExchangeInv adds to the properties of the request screens that an error *)
(* comes of a link that could not be read, and which approvals answer for  *)
(* the screen that is up: one if it is busy, and else none, for what is    *)
(* left running by a screen that goes no longer does.                      *)
(*                                                                         *)
(* DocumentsInv is about refreshes that write: while the store is whole    *)
(* none does; one that is alone is the only one; and what it has yet to    *)
(* delete, or to save, is just what the store has too much, or too little. *)
(***************************************************************************)
EXTENDS RequestExchange, WalletDocuments, FiniteSetTheorems, TLAPS

HomeRecord == [up : BOOLEAN, profile : BOOLEAN, view : {"list", "paste", "scan", "qr"},
               row : Purposes \cup {NoLink}, camera : {"unknown", "denied", "granted"},
               scanned : BOOLEAN, armed : Purposes \cup {NoLink}]
ConsentRecord == [up : BOOLEAN, link : Links \cup {NoLink}, via : Purposes \cup {NoLink},
                  decoded : BOOLEAN, request : Links \cup {NoLink}, error : BOOLEAN,
                  bad : BOOLEAN, busy : BOOLEAN]
RunRecord == [phase : {"idle", "running", "submitted", "failed"}, home : {"here", "gone", "void"}]

ExchangeTypes ==
  /\ accountType \in {"personal", "university", "enterprise"}
  /\ device \in BOOLEAN /\ up \in BOOLEAN
  /\ launch \in Links \cup {NoLink}
  /\ tab \in {"identity", "actions"}
  /\ home \in HomeRecord
  /\ alerts \in 0 .. MaxAlerts
  /\ consent \in ConsentRecord
  /\ runs \in [Approvals -> RunRecord]

\* The type invariant, with the records it is about named.
LEMMA ExchangeTypesMean == ExchangeTypeOK <=> ExchangeTypes
  BY DEF ExchangeTypeOK, ExchangeTypes, HomeRecord, ConsentRecord, RunRecord

-----------------------------------------------------------------------------
(* RequestExchange: the invariant *)

\* An error comes from a link that could not be read.
ReviewInv == ReviewShowsTheLink /\ (consent.error => consent.bad)

\* The approvals of the consent screen that is up; none is when it is not.
Answering(a) == runs[a].phase = "running" /\ runs[a].home = "here"
AnswerInv ==
  /\ consent.busy => consent.up /\ \E a \in Approvals : Answering(a)
  /\ ~consent.busy => \A a \in Approvals : ~Answering(a)
  /\ \A a, b \in Approvals : Answering(a) /\ Answering(b) => a = b

ExchangeInv == ExchangeTypes /\ ReviewInv /\ AnswerInv /\ ScannerAwaitsOrAsks

-----------------------------------------------------------------------------
(* RequestExchange: what the helpers do *)

\* The values the app starts from are of their types.
LEMMA ExchangeBlanks ==
  /\ NoHome \in HomeRecord /\ NoConsent \in ConsentRecord /\ NoRun \in RunRecord
  /\ MaxAlerts \in Nat /\ 0 \in 0 .. MaxAlerts
  BY ExchangeAssumption DEF NoHome, HomeRecord, NoConsent, ConsentRecord, NoRun, RunRecord, NoLink

\* A request to review keeps the error and the approval of a screen that is up.
LEMMA ReviewEffect ==
  ASSUME ExchangeTypes, NEW l \in Links, NEW via \in Purposes \cup {NoLink}, Review(l, via)
  PROVE  /\ tab' = "actions"
         /\ consent' \in ConsentRecord
         /\ consent'.up /\ ~consent'.decoded
         /\ consent'.link = l /\ consent'.via = via
         /\ consent'.error => consent.up /\ consent.error
         /\ consent.up => consent'.bad = consent.bad /\ consent'.busy = consent.busy
         /\ ~consent.up => ~consent'.busy
<1>1. CASE consent.up
  BY <1>1 DEF Review, ExchangeTypes, ConsentRecord
<1>2. CASE ~consent.up
  BY <1>2 DEF Review, Fresh, NoConsent, ExchangeTypes, ConsentRecord, NoLink
<1> QED
  BY <1>1, <1>2

\* Approvals keep their phases when their screen goes, and no longer answer for one.
LEMMA ExchangeRehomed ==
  ASSUME ExchangeTypes, NEW h \in {"gone", "void"}
  PROVE  /\ Rehomed(h) \in [Approvals -> RunRecord]
         /\ \A a \in Approvals : Rehomed(h)[a].home # "here"
<1>1. \A a \in Approvals : runs[a] \in RunRecord
  BY DEF ExchangeTypes
<1>2. \A r \in RunRecord : /\ [r EXCEPT !.home = h] \in RunRecord
                           /\ [r EXCEPT !.home = h].home = h
  BY DEF RunRecord
<1>3. \A a \in Approvals :
        /\ runs[a].home = "void" => Rehomed(h)[a] = runs[a]
        /\ runs[a].home # "void" => Rehomed(h)[a] = [runs[a] EXCEPT !.home = h]
  BY DEF Rehomed
<1>4. Rehomed(h) \in [Approvals -> RunRecord]
  BY <1>1, <1>2, <1>3 DEF Rehomed
<1>5. ASSUME NEW a \in Approvals PROVE Rehomed(h)[a].home # "here"
  <2>1. CASE runs[a].home = "void"
    BY <1>3, <2>1
  <2>2. CASE runs[a].home # "void"
    <3>1. Rehomed(h)[a] = [runs[a] EXCEPT !.home = h] /\ runs[a] \in RunRecord
      BY <1>1, <1>3, <2>2
    <3>2. Rehomed(h)[a].home = h
      BY <1>2, <3>1
    <3> QED
      BY <3>2
  <2> QED
    BY <2>1, <2>2
<1> QED
  BY <1>4, <1>5

\* Going back pops the screen that is up, with its approval, or changes nothing but the tab.
LEMMA GoBackEffect ==
  ASSUME ExchangeTypes, GoBack
  PROVE  /\ tab' \in {"identity", "actions"}
         /\ Left \in [Approvals -> RunRecord]
         /\ \/ consent' = NoConsent /\ \A a \in Approvals : Left[a].home # "here"
            \/ consent' = consent /\ Left = runs
<1>1. CASE consent.up /\ home.up
  <2>1. /\ Rehomed("gone") \in [Approvals -> RunRecord]
        /\ \A a \in Approvals : Rehomed("gone")[a].home # "here"
    BY ExchangeRehomed
  <2> QED
    BY <1>1, <2>1 DEF GoBack, Left, ExchangeTypes
<1>2. CASE ~(consent.up /\ home.up)
  BY <1>2 DEF GoBack, Left, ExchangeTypes
<1> QED
  BY <1>1, <1>2

-----------------------------------------------------------------------------
(* RequestExchange: each step keeps the invariant *)

\* No request, no scan and no approval at first.
LEMMA ExchangeStarts == ExchangeInit => ExchangeInv
<1> SUFFICES ASSUME ExchangeInit
             PROVE  ExchangeInv
  OBVIOUS
<1>1. ExchangeTypes
  BY ExchangeBlanks DEF ExchangeInit, ExchangeTypes, Links, Purposes
<1> QED
  BY <1>1 DEF ExchangeInit, ExchangeInv, ReviewInv, ReviewShowsTheLink, AnswerInv, Answering,
     ScannerAwaitsOrAsks, NoConsent, NoHome, NoRun

\* The steps of the action list that neither scan nor hand a request on.
LEMMA HomeKeeps ==
  ASSUME ExchangeInv, home' \in HomeRecord, home'.scanned => home'.view = home.view /\ home.scanned,
         tab' \in {"identity", "actions"}, UNCHANGED <<setting, up, alerts, consent, runs>>
  PROVE  ExchangeInv'
  BY DEF ExchangeInv, ExchangeTypes, ReviewInv, ReviewShowsTheLink, AnswerInv, Answering,
     ScannerAwaitsOrAsks, setting

\* A request handed on for review, by a link, the paste view or the scanner.
LEMMA ReviewKeeps ==
  ASSUME ExchangeInv, NEW l \in Links, NEW via \in {NoLink, l} \cap (Purposes \cup {NoLink}),
         Review(l, via), up' \in BOOLEAN, UNCHANGED <<setting, alerts, runs>>,
         home' \in HomeRecord, home'.scanned => home'.view = home.view /\ home.scanned
  PROVE  ExchangeInv'
<1>1. via \in Purposes \cup {NoLink}
  OBVIOUS
<1>2. /\ tab' = "actions"
      /\ consent' \in ConsentRecord
      /\ consent'.up /\ ~consent'.decoded
      /\ consent'.link = l /\ consent'.via = via
      /\ consent'.error => consent.up /\ consent.error
      /\ consent.up => consent'.bad = consent.bad /\ consent'.busy = consent.busy
      /\ ~consent.up => ~consent'.busy
  BY <1>1, ReviewEffect DEF ExchangeInv
<1>3. ExchangeTypes'
  BY <1>2 DEF ExchangeInv, ExchangeTypes, setting
<1>4. ReviewInv'
  BY <1>2 DEF ExchangeInv, ReviewInv, ReviewShowsTheLink
<1>5. AnswerInv'
  BY <1>2 DEF ExchangeInv, AnswerInv, Answering
<1>6. ScannerAwaitsOrAsks'
  BY <1>2 DEF ExchangeInv, ScannerAwaitsOrAsks
<1> QED
  BY <1>3, <1>4, <1>5, <1>6 DEF ExchangeInv

\* A consent screen that is left takes its approval along, whatever had it left.
LEMMA LeftKeeps ==
  ASSUME ExchangeInv, tab' \in {"identity", "actions"},
         UNCHANGED <<setting, alerts>>, up' \in BOOLEAN, home' \in HomeRecord,
         home'.scanned => home'.view = home.view /\ home.scanned,
         runs' \in [Approvals -> RunRecord], consent' = NoConsent,
         \A a \in Approvals : runs'[a].home # "here"
  PROVE  ExchangeInv'
<1>1. ExchangeTypes'
  BY ExchangeBlanks DEF ExchangeInv, ExchangeTypes, setting
<1>2. ReviewInv' /\ AnswerInv'
  BY DEF ReviewInv, ReviewShowsTheLink, AnswerInv, Answering, NoConsent
<1>3. ScannerAwaitsOrAsks'
  BY DEF ExchangeInv, ScannerAwaitsOrAsks, NoConsent
<1> QED
  BY <1>1, <1>2, <1>3 DEF ExchangeInv

\* An approval that does not answer for the screen may be put back, with the screen as it is.
LEMMA AnsweredKeeps ==
  ASSUME ExchangeInv, NEW a \in Approvals, runs[a].phase # "running",
         tab' \in {"identity", "actions"}, runs' = [runs EXCEPT ![a] = NoRun],
         UNCHANGED <<setting, up, home, alerts, consent>>
  PROVE  ExchangeInv'
<1>1. /\ runs'[a] = NoRun
      /\ \A b \in Approvals : b # a => runs'[b] = runs[b]
      /\ runs' \in [Approvals -> RunRecord]
  BY ExchangeBlanks DEF ExchangeInv, ExchangeTypes
<1>2. NoRun.phase # "running"
  BY DEF NoRun
<1>3. \A b \in Approvals : Answering(b)' <=> Answering(b)
  BY <1>1, <1>2 DEF Answering
<1>4. AnswerInv'
  BY <1>3 DEF ExchangeInv, AnswerInv
<1> QED
  BY <1>1, <1>4 DEF ExchangeInv, ExchangeTypes, ReviewInv, ReviewShowsTheLink,
     ScannerAwaitsOrAsks, setting

\* Going back, by the owner, the platform or an alert's OK.
LEMMA GoBackKeeps ==
  ASSUME ExchangeInv, GoBack, runs' = Left, UNCHANGED <<setting, up, home, alerts>>
  PROVE  ExchangeInv'
<1>1. ExchangeTypes
  BY DEF ExchangeInv
<1>2. /\ tab' \in {"identity", "actions"}
      /\ Left \in [Approvals -> RunRecord]
      /\ \/ consent' = NoConsent /\ \A a \in Approvals : Left[a].home # "here"
         \/ consent' = consent /\ Left = runs
  BY <1>1, GoBackEffect
<1>3. CASE consent' = NoConsent /\ \A a \in Approvals : Left[a].home # "here"
  BY <1>2, <1>3, LeftKeeps DEF ExchangeInv, ExchangeTypes
<1>4. CASE consent' = consent /\ Left = runs
  BY <1>2, <1>4, HomeKeeps DEF ExchangeInv, ExchangeTypes
<1> QED
  BY <1>2, <1>3, <1>4

\* MainTabNavigator: mounting, locking, linking and pressing a tab.
LEMMA TabsKeep ==
  ASSUME ExchangeInv, MainTabs \/ Lock \/ PressTab \/ \E l \in Links : Linking(l)
  PROVE  ExchangeInv'
<1> USE DEF ExchangeInv
<1>1. home \in HomeRecord /\ launch \in Links \cup {NoLink}
  BY DEF ExchangeTypes
<1>2. ASSUME MainTabs PROVE ExchangeInv'
  <2>1. CASE launch = NoLink
    BY <1>2, <2>1 DEF MainTabs, ExchangeTypes, ReviewInv, ReviewShowsTheLink, AnswerInv,
       Answering, ScannerAwaitsOrAsks, setting
  <2>2. CASE launch # NoLink
    <3>1. launch \in Links /\ Review(launch, NoLink) /\ up' \in BOOLEAN
      BY <1>1, <1>2, <2>2 DEF MainTabs
    <3>2. NoLink \in {NoLink, launch} \cap (Purposes \cup {NoLink})
      OBVIOUS
    <3> QED
      BY <1>1, <1>2, <3>1, <3>2, ReviewKeeps DEF MainTabs
  <2> QED
    BY <2>1, <2>2
<1>3. ASSUME Lock PROVE ExchangeInv'
  <2>1. /\ Rehomed("void") \in [Approvals -> RunRecord]
        /\ \A a \in Approvals : Rehomed("void")[a].home # "here"
    BY ExchangeRehomed
  <2>2. ~NoHome.scanned
    BY DEF NoHome
  <2> QED
    BY <1>3, <2>1, <2>2, ExchangeBlanks, LeftKeeps DEF Lock
<1>4. ASSUME PressTab PROVE ExchangeInv'
  <2>1. \A b \in BOOLEAN : /\ [home EXCEPT !.up = b] \in HomeRecord
                           /\ [home EXCEPT !.up = b].scanned = home.scanned
                           /\ [home EXCEPT !.up = b].view = home.view
    BY <1>1 DEF HomeRecord
  <2>2. /\ home' \in HomeRecord
        /\ home'.scanned = home.scanned /\ home'.view = home.view
        /\ tab' \in {"identity", "actions"}
    <3> DEFINE b == home.up \/ ~consent.up
    <3>1. b \in BOOLEAN
      BY DEF ExchangeTypes, HomeRecord, ConsentRecord
    <3>2. /\ tab' \in {"identity", "actions"}
          /\ home' = home \/ home' = [home EXCEPT !.up = b]
      BY <1>4 DEF PressTab
    <3> HIDE DEF b
    <3> QED
      BY <1>1, <2>1, <3>1, <3>2
  <2> QED
    BY <1>4, <2>2, HomeKeeps DEF PressTab
<1>5. ASSUME NEW l \in Links, Linking(l) PROVE ExchangeInv'
  <2>1. NoLink \in {NoLink, l} \cap (Purposes \cup {NoLink})
    OBVIOUS
  <2>2. Review(l, NoLink) /\ up' \in BOOLEAN /\ UNCHANGED <<setting, home, alerts, runs>>
    BY <1>5 DEF Linking, ExchangeTypes
  <2> QED
    BY <1>1, <2>1, <2>2, ReviewKeeps
<1> QED
  BY <1>2, <1>3, <1>4, <1>5

\* Another view of the action list starts its scanner afresh.
LEMMA ShowViewEffect ==
  ASSUME ExchangeTypes, NEW v \in {"list", "paste", "scan", "qr"},
         NEW row \in Purposes \cup {NoLink}, ShowView(v, row)
  PROVE  home' \in HomeRecord /\ ~home'.scanned
  BY DEF ShowView, ExchangeTypes, HomeRecord

\* ActionsStubScreen: its profile, its rows and their views, and its camera.
LEMMA HomeKeep ==
  ASSUME ExchangeInv,
         \/ GetWalletProfile \/ CloseView \/ CameraPermission \/ RenderScanner
         \/ \E row \in Purposes : OpenQr(row) \/ OpenPresentationRequest(row)
  PROVE  ExchangeInv'
<1> USE DEF HomeOnly
<1>1. /\ ExchangeTypes /\ home \in HomeRecord
      /\ tab \in {"identity", "actions"}
  BY DEF ExchangeInv, ExchangeTypes
<1>2. ASSUME HomeOnly, home' \in HomeRecord, home'.scanned => home'.view = home.view /\ home.scanned
      PROVE  ExchangeInv'
  BY <1>1, <1>2, HomeKeeps
<1>3. ASSUME NEW v \in {"list", "paste", "scan", "qr"}, NEW row \in Purposes \cup {NoLink},
             ShowView(v, row), HomeOnly
      PROVE  ExchangeInv'
  BY <1>1, <1>2, <1>3, ShowViewEffect
<1>4. ASSUME GetWalletProfile PROVE ExchangeInv'
  <2>1. /\ [home EXCEPT !.profile = TRUE] \in HomeRecord
        /\ [home EXCEPT !.profile = TRUE].scanned = home.scanned
        /\ [home EXCEPT !.profile = TRUE].view = home.view
    BY <1>1 DEF HomeRecord
  <2> QED
    BY <1>2, <1>4, <2>1 DEF GetWalletProfile
<1>5. ASSUME CloseView PROVE ExchangeInv'
  BY <1>3, <1>5 DEF CloseView
<1>6. ASSUME CameraPermission PROVE ExchangeInv'
  <2>1. PICK p \in {"denied", "granted"} : home' = [home EXCEPT !.camera = p]
    BY <1>6 DEF CameraPermission
  <2>2. /\ [home EXCEPT !.camera = p] \in HomeRecord
        /\ [home EXCEPT !.camera = p].scanned = home.scanned
        /\ [home EXCEPT !.camera = p].view = home.view
    BY <1>1 DEF HomeRecord
  <2> QED
    BY <1>2, <1>6, <2>1, <2>2 DEF CameraPermission
<1>7. ASSUME RenderScanner PROVE ExchangeInv'
  <2>1. Handler \in Purposes \cup {NoLink}
    BY <1>1 DEF Handler, HomeRecord
  <2>2. \A k \in Purposes \cup {NoLink} :
          /\ [home EXCEPT !.armed = k] \in HomeRecord
          /\ [home EXCEPT !.armed = k].scanned = home.scanned
          /\ [home EXCEPT !.armed = k].view = home.view
    BY <1>1 DEF HomeRecord
  <2> QED
    BY <1>2, <1>7, <2>1, <2>2 DEF RenderScanner
<1>8. ASSUME NEW row \in Purposes, OpenQr(row) \/ OpenPresentationRequest(row) PROVE ExchangeInv'
  BY <1>3, <1>8 DEF OpenQr, OpenPresentationRequest
<1> QED
  BY <1>4, <1>5, <1>6, <1>7, <1>8

\* A request from the paste view or the scanner, the scanner's alert, and its button: a code
\* that matches is of the kind that the scanner asks for.
LEMMA ScanKeeps ==
  ASSUME ExchangeInv, \/ ScanAgain
                      \/ \E l \in Links : PasteRequest(l) \/ HandleBarcode(l)
  PROVE  ExchangeInv'
<1>1. /\ ExchangeTypes /\ home \in HomeRecord /\ up \in BOOLEAN
      /\ alerts \in 0 .. MaxAlerts /\ MaxAlerts \in Nat
  BY ExchangeAssumption DEF ExchangeInv, ExchangeTypes
<1>2. ASSUME NEW l \in Links, NEW via \in {NoLink, l} \cap (Purposes \cup {NoLink}),
             HandlePasteSubmit(l, via), UNCHANGED <<setting, up, alerts>>
      PROVE  ExchangeInv'
  <2>1. home' \in HomeRecord /\ ~home'.scanned
    BY <1>1, <1>2, ShowViewEffect DEF HandlePasteSubmit
  <2>2. up' \in BOOLEAN /\ UNCHANGED <<setting, alerts, runs>> /\ Review(l, via)
    BY <1>1, <1>2 DEF HandlePasteSubmit
  <2> QED
    BY <2>1, <2>2, ReviewKeeps
<1>3. ASSUME NEW b \in BOOLEAN, home' = [home EXCEPT !.scanned = b],
             b => alerts' > 0, alerts' \in 0 .. MaxAlerts,
             UNCHANGED <<setting, up, tab, consent, runs>>
      PROVE  ExchangeInv'
  <2>1. home' \in HomeRecord /\ home'.scanned = b
    BY <1>1, <1>3 DEF HomeRecord
  <2> QED
    BY <1>3, <2>1 DEF ExchangeInv, ExchangeTypes, ReviewInv, ReviewShowsTheLink, AnswerInv,
       Answering, ScannerAwaitsOrAsks, setting
<1>4. ASSUME ScanAgain PROVE ExchangeInv'
  <2>1. PICK b \in BOOLEAN : ~b
    OBVIOUS
  <2>2. home' = [home EXCEPT !.scanned = b]
    BY <1>4, <2>1 DEF ScanAgain
  <2>3. alerts' \in 0 .. MaxAlerts
    BY <1>1, <1>4 DEF ScanAgain
  <2> QED
    BY <1>3, <1>4, <2>1, <2>2, <2>3 DEF ScanAgain
<1>5. ASSUME NEW l \in Links, PasteRequest(l) PROVE ExchangeInv'
  <2>1. NoLink \in {NoLink, l} \cap (Purposes \cup {NoLink})
    OBVIOUS
  <2> QED
    BY <1>2, <1>5, <2>1 DEF PasteRequest
<1>6. ASSUME NEW l \in Links, HandleBarcode(l) PROVE ExchangeInv'
  <2>1. CASE Matches(l, home.armed)
    <3>1. home.armed = l /\ home.armed \in Purposes
      BY <1>1, <1>6, <2>1 DEF HandleBarcode, Matches, PresentationPurpose, HomeRecord
    <3>2. home.armed \in {NoLink, l} \cap (Purposes \cup {NoLink})
      BY <3>1
    <3> QED
      BY <1>2, <1>6, <2>1, <3>2 DEF HandleBarcode
  <2>2. CASE ~Matches(l, home.armed)
    <3> DEFINE b == (home.view = "scan")
    <3>1. home' = [home EXCEPT !.scanned = b] /\ b \in BOOLEAN
      BY <1>6, <2>2 DEF HandleBarcode
    <3>2. alerts < MaxAlerts /\ alerts' = alerts + 1
      BY <1>6, <2>2 DEF HandleBarcode
    <3>3. alerts' \in 0 .. MaxAlerts /\ alerts' > 0
      BY <1>1, <3>2
    <3>4. UNCHANGED <<setting, up, tab, consent, runs>>
      BY <1>6, <2>2 DEF HandleBarcode
    <3> HIDE DEF b
    <3> QED
      BY <1>3, <3>1, <3>3, <3>4
  <2> QED
    BY <2>1, <2>2
<1> QED
  BY <1>4, <1>5, <1>6

\* Reading the link: the request is that of the link, or the error is of one that was bad.
LEMMA DecodeKeeps ==
  ASSUME ExchangeInv, Decode
  PROVE  ExchangeInv'
<1>1. consent \in ConsentRecord /\ consent.link \in Links \cup {NoLink}
  BY DEF ExchangeInv, ExchangeTypes, ConsentRecord
<1> DEFINE ok == Decodes(consent.link)
<1>2. ok \in BOOLEAN
  BY DEF Decodes
<1>3. /\ consent' = [consent EXCEPT !.decoded = TRUE,
                                    !.request = IF ok THEN consent.link ELSE @,
                                    !.error = @ \/ ~ok, !.bad = @ \/ ~ok]
      /\ UNCHANGED <<setting, up, tab, home, alerts, runs>>
  BY DEF Decode
<1> HIDE DEF ok
<1>4. /\ consent' \in ConsentRecord
      /\ consent'.up = consent.up /\ consent'.busy = consent.busy
      /\ consent'.link = consent.link /\ consent'.via = consent.via
      /\ consent'.request = IF ok THEN consent.link ELSE consent.request
      /\ consent'.error <=> consent.error \/ ~ok
      /\ consent'.bad <=> consent.bad \/ ~ok
  BY <1>1, <1>2, <1>3 DEF ConsentRecord
<1>5. ExchangeTypes'
  BY <1>3, <1>4 DEF ExchangeInv, ExchangeTypes, setting
<1>6. ReviewInv'
  BY <1>4 DEF ExchangeInv, ReviewInv, ReviewShowsTheLink
<1>7. AnswerInv' /\ ScannerAwaitsOrAsks'
  BY <1>3, <1>4 DEF ExchangeInv, AnswerInv, Answering, ScannerAwaitsOrAsks
<1> QED
  BY <1>5, <1>6, <1>7 DEF ExchangeInv

\* An approval starts only on a screen that has none, and ends that of its own screen only.
LEMMA ApprovalKeeps ==
  ASSUME ExchangeInv, NEW a \in Approvals, HandleApprove(a) \/ ApprovalEnds(a)
  PROVE  ExchangeInv'
<1>1. /\ consent \in ConsentRecord /\ runs \in [Approvals -> RunRecord]
      /\ runs[a] \in RunRecord
  BY DEF ExchangeInv, ExchangeTypes
<1>2. ASSUME NEW b \in BOOLEAN, consent' = [consent EXCEPT !.busy = b],
             runs' \in [Approvals -> RunRecord], AnswerInv',
             UNCHANGED <<setting, up, tab, home, alerts>>
      PROVE  ExchangeInv'
  <2>1. /\ consent' \in ConsentRecord
        /\ consent'.up = consent.up /\ consent'.decoded = consent.decoded
        /\ consent'.link = consent.link /\ consent'.via = consent.via
        /\ consent'.request = consent.request
        /\ consent'.error = consent.error /\ consent'.bad = consent.bad
    BY <1>1, <1>2 DEF ConsentRecord
  <2> QED
    BY <1>2, <2>1 DEF ExchangeInv, ExchangeTypes, ReviewInv, ReviewShowsTheLink,
       ScannerAwaitsOrAsks, setting
<1>3. ASSUME NEW b \in BOOLEAN, consent' = [consent EXCEPT !.busy = b]
      PROVE  consent'.busy = b /\ consent'.up = consent.up
  BY <1>1, <1>3 DEF ConsentRecord
<1>4. ASSUME HandleApprove(a) PROVE ExchangeInv'
  <2> DEFINE r == [phase |-> "running", home |-> "here"]
  <2>1. r \in RunRecord /\ r.phase = "running" /\ r.home = "here"
    BY DEF RunRecord
  <2>2. runs' = [runs EXCEPT ![a] = r] /\ UNCHANGED <<setting, up, tab, home, alerts>>
    BY <1>4 DEF HandleApprove
  <2> HIDE DEF r
  <2>3. PICK b \in BOOLEAN : b
    OBVIOUS
  <2>4. consent' = [consent EXCEPT !.busy = b]
    BY <1>4, <2>3 DEF HandleApprove
  <2>5. ~consent.busy /\ consent.up
    BY <1>4 DEF HandleApprove, Showing, OnConsent
  <2>6. /\ runs' \in [Approvals -> RunRecord] /\ runs'[a] = r
        /\ \A c \in Approvals : c # a => runs'[c] = runs[c]
    BY <1>1, <2>1, <2>2
  <2>7. Answering(a)' /\ \A c \in Approvals : Answering(c)' => c = a
    BY <2>1, <2>5, <2>6 DEF Answering, ExchangeInv, AnswerInv
  <2>8. consent'.busy /\ consent'.up
    BY <1>3, <2>3, <2>4, <2>5
  <2>9. AnswerInv'
    BY <2>7, <2>8 DEF AnswerInv
  <2> QED
    BY <1>2, <2>2, <2>4, <2>6, <2>9
<1>5. ASSUME ApprovalEnds(a) PROVE ExchangeInv'
  <2> DEFINE b == consent.busy /\ runs[a].home # "here"
  <2>1. b \in BOOLEAN
    BY DEF ConsentRecord
  <2>2. /\ consent' = [consent EXCEPT !.busy = b]
        /\ UNCHANGED <<setting, up, tab, home, alerts>>
        /\ runs[a].phase = "running"
    BY <1>5 DEF ApprovalEnds
  <2>3. b <=> consent.busy /\ runs[a].home # "here"
    OBVIOUS
  <2> HIDE DEF b
  <2>4. PICK p \in {"submitted", "failed"} : runs' = [runs EXCEPT ![a].phase = p]
    BY <1>5 DEF ApprovalEnds
  <2>5. /\ [runs[a] EXCEPT !.phase = p] \in RunRecord
        /\ [runs[a] EXCEPT !.phase = p].phase = p
    BY <1>1 DEF RunRecord
  <2>6. /\ runs' \in [Approvals -> RunRecord] /\ runs'[a].phase = p
        /\ \A c \in Approvals : c # a => runs'[c] = runs[c]
    BY <1>1, <2>4, <2>5
  <2>7. ~Answering(a)' /\ \A c \in Approvals : c # a => (Answering(c)' <=> Answering(c))
    BY <2>6 DEF Answering
  <2>8. consent'.busy = b /\ consent'.up = consent.up
    BY <1>3, <2>1, <2>2
  <2>9. AnswerInv'
    <3>1. CASE runs[a].home = "here"
      <4>1. Answering(a)
        BY <2>2, <3>1 DEF Answering
      <4>2. \A c \in Approvals : ~Answering(c)'
        BY <2>7, <4>1 DEF ExchangeInv, AnswerInv
      <4> QED
        BY <2>3, <2>8, <3>1, <4>2 DEF AnswerInv
    <3>2. CASE runs[a].home # "here"
      <4>1. ~Answering(a) /\ (b <=> consent.busy)
        BY <2>3, <3>2 DEF Answering
      <4>2. \A c \in Approvals : Answering(c)' <=> Answering(c)
        BY <2>7, <4>1
      <4>3. consent'.busy <=> consent.busy
        BY <2>8, <4>1
      <4> QED
        BY <2>8, <4>2, <4>3 DEF ExchangeInv, AnswerInv
    <3> QED
      BY <3>1, <3>2
  <2> QED
    BY <1>2, <2>1, <2>2, <2>6, <2>9
<1> QED
  BY <1>4, <1>5

\* Leaving the consent screen: its OK, Decline, and the platform's own button.
LEMMA LeavingKeeps ==
  ASSUME ExchangeInv, HandleDecline \/ SystemBack \/ \E a \in Approvals : PressOk(a)
  PROVE  ExchangeInv'
<1>1. CASE HandleDecline \/ SystemBack
  BY <1>1, GoBackKeeps DEF HandleDecline, SystemBack
<1>2. ASSUME NEW a \in Approvals, PressOk(a) PROVE ExchangeInv'
  <2>1. /\ ExchangeTypes /\ runs[a].phase # "running"
        /\ UNCHANGED <<setting, up, home, alerts>>
        /\ tab \in {"identity", "actions"} /\ up \in BOOLEAN /\ home \in HomeRecord
    BY <1>2 DEF PressOk, ExchangeInv, ExchangeTypes
  <2>2. CASE runs[a].phase = "submitted" /\ runs[a].home # "void"
    <3>1. GoBack /\ runs' = [Left EXCEPT ![a] = NoRun]
      BY <1>2, <2>2 DEF PressOk
    <3>2. /\ tab' \in {"identity", "actions"}
          /\ Left \in [Approvals -> RunRecord]
          /\ \/ consent' = NoConsent /\ \A c \in Approvals : Left[c].home # "here"
             \/ consent' = consent /\ Left = runs
      BY <2>1, <3>1, GoBackEffect
    <3>3. CASE consent' = NoConsent /\ \A c \in Approvals : Left[c].home # "here"
      <4>1. NoRun.home # "here" /\ NoRun \in RunRecord
        BY ExchangeBlanks DEF NoRun
      <4>2. /\ runs' \in [Approvals -> RunRecord]
            /\ \A c \in Approvals : runs'[c].home # "here"
        BY <3>1, <3>2, <3>3, <4>1
      <4> QED
        BY <2>1, <3>2, <3>3, <4>2, LeftKeeps
    <3>4. CASE consent' = consent /\ Left = runs
      BY <2>1, <3>1, <3>2, <3>4, AnsweredKeeps
    <3> QED
      BY <3>2, <3>3, <3>4
  <2>3. CASE ~(runs[a].phase = "submitted" /\ runs[a].home # "void")
    BY <1>2, <2>1, <2>3, AnsweredKeeps DEF PressOk
  <2> QED
    BY <2>2, <2>3
<1> QED
  BY <1>1, <1>2

\* ExchangeInv is inductive.
LEMMA ExchangeInvHolds == ExchangeSpec => []ExchangeInv
<1>1. ExchangeInv /\ UNCHANGED exVars => ExchangeInv'
  BY DEF ExchangeInv, ExchangeTypes, ReviewInv, ReviewShowsTheLink, AnswerInv, Answering,
     ScannerAwaitsOrAsks, exVars, setting
<1>2. ExchangeInv /\ ExchangeNext => ExchangeInv'
  BY TabsKeep, HomeKeep, ScanKeeps, DecodeKeeps, ApprovalKeeps, LeavingKeeps DEF ExchangeNext
<1> QED
  BY ExchangeStarts, <1>1, <1>2, PTL DEF ExchangeSpec

-----------------------------------------------------------------------------
(* RequestExchange: what the owner can rely on *)

(* Every state of the request screens and of the approvals is of its type: *)
(* no step leaves a view, a link or an alert count the code cannot have.   *)
THEOREM ExchangeTypeCorrect == ExchangeSpec => []ExchangeTypeOK
<1>1. ExchangeInv => ExchangeTypeOK
  BY ExchangeTypesMean DEF ExchangeInv
<1> QED
  BY ExchangeInvHolds, <1>1, PTL

(* However many links reach the consent screen, from the launch, the       *)
(* system, the paste view and the scanner, what the owner is shown and     *)
(* approves is the last one's request, or an error of one of them.         *)
THEOREM ReviewAlwaysShowsTheLink == ExchangeSpec => []ReviewShowsTheLink
<1>1. ExchangeInv => ReviewShowsTheLink
  BY DEF ExchangeInv, ReviewInv
<1> QED
  BY ExchangeInvHolds, <1>1, PTL

(* A consent screen that is busy has exactly one approval under way and    *)
(* one that is not has none, for any number of approvals of other screens, *)
(* left by Back, Decline, OK or the lock while they ran.                   *)
THEOREM AlwaysOneAnswerAtATime == ExchangeSpec => []OneAnswerAtATime
<1>1. ASSUME ExchangeInv PROVE OneAnswerAtATime
  <2> DEFINE S == {a \in Approvals : runs[a].phase = "running" /\ runs[a].home = "here"}
  <2>1. CASE consent.busy
    <3>1. PICK a \in Approvals : Answering(a)
      BY <1>1, <2>1 DEF ExchangeInv, AnswerInv
    <3>2. S = {a}
      BY <1>1, <3>1 DEF ExchangeInv, AnswerInv, Answering
    <3>3. Cardinality(S) = 1
      BY <3>2, FS_Singleton
    <3> QED
      BY <2>1, <3>3 DEF OneAnswerAtATime
  <2>2. CASE ~consent.busy
    <3>1. S = {}
      BY <1>1, <2>2 DEF ExchangeInv, AnswerInv, Answering
    <3>2. Cardinality(S) = 0
      BY <3>1, FS_EmptySet
    <3> QED
      BY <2>2, <3>2 DEF OneAnswerAtATime
  <2> QED
    BY <2>1, <2>2
<1> QED
  BY ExchangeInvHolds, <1>1, PTL

(* A scanner that has stopped reading has the alert that restarts it, and  *)
(* what it hands on is of the kind it was opened for, even when the camera *)
(* reports several codes between two renders.                              *)
THEOREM ScannerAlwaysAwaitsOrAsks == ExchangeSpec => []ScannerAwaitsOrAsks
<1>1. ExchangeInv => ScannerAwaitsOrAsks
  BY DEF ExchangeInv
<1> QED
  BY ExchangeInvHolds, <1>1, PTL

-----------------------------------------------------------------------------
(* WalletDocuments: the invariant *)

ScreenRecord == [up : BOOLEAN, loading : BOOLEAN, syncing : BOOLEAN, cards : SUBSET Documents]
TaskRecord ==
  [kind : {"load", "sync"},
   phase : {"idle", "start", "waiting", "fetch", "list", "read", "show"} \cup Writing,
   here : BOOLEAN, got : SUBSET Documents, todo : SUBSET Documents, alone : BOOLEAN]

DocumentsTypes ==
  /\ index \in [Credentials -> Statuses \cup {"absent"}]
  /\ store \subseteq Documents /\ synced \subseteq Documents
  /\ agent \in {"none", "opening", "ready"}
  /\ screen \in ScreenRecord
  /\ tasks \in [Tasks -> TaskRecord]
  /\ faults \in 0 .. MaxFaults
  /\ whole \in BOOLEAN

\* The type invariant, with the records it is about named.
LEMMA DocumentsTypesMean == DocumentsTypeOK <=> DocumentsTypes
  BY DEF DocumentsTypeOK, DocumentsTypes, ScreenRecord, TaskRecord

\* A refresh that changes the store.
Writes(t) == tasks[t].phase \in Writing

\* While the store is whole nothing writes it.
WholeInv == whole => store = synced /\ \A t \in Tasks : ~Writes(t)

\* A refresh alone is the only one that writes.
AloneInv ==
  \A t, u \in Tasks : Writes(t) /\ tasks[t].alone /\ Writes(u) => u = t

\* What a refresh alone has yet to delete is what there is, and what it has yet to save is
\* what is missing of what it fetched.
TodoInv ==
  \A t \in Tasks : tasks[t].alone =>
    /\ tasks[t].phase = "delete" => store = tasks[t].todo
    /\ tasks[t].phase = "save" => store \cup tasks[t].todo = tasks[t].got

DocumentsInv == DocumentsTypes /\ WholeInv /\ AloneInv /\ TodoInv

-----------------------------------------------------------------------------
(* WalletDocuments: what the helpers do *)

\* The values the wallet starts from, and those a fetch and a load read, are of their types.
LEMMA DocumentsBlanks ==
  /\ NoScreen \in ScreenRecord
  /\ Idle \in TaskRecord /\ Idle.phase = "idle" /\ ~Idle.alone
  /\ MaxFaults \in Nat
  /\ Published \subseteq Documents
  /\ "idle" \notin Writing /\ "start" \notin Writing /\ "waiting" \notin Writing
  /\ "fetch" \notin Writing /\ "list" \notin Writing /\ "read" \notin Writing
  /\ "show" \notin Writing
  BY DocumentsAssumption DEF NoScreen, ScreenRecord, Idle, TaskRecord, Published, Writing

\* The end of a task leaves a screen.
LEMMA OverEffect ==
  ASSUME DocumentsTypes, NEW t \in Tasks
  PROVE  Over(t) \in ScreenRecord
  BY DEF Over, DocumentsTypes, ScreenRecord, TaskRecord

\* A fault is counted up to its bound.
LEMMA FaultEffect ==
  ASSUME DocumentsTypes, Fault \/ NoFault
  PROVE  faults' \in 0 .. MaxFaults
  BY DocumentsBlanks DEF Fault, NoFault, DocumentsTypes

-----------------------------------------------------------------------------
(* WalletDocuments: each step keeps the invariant *)

\* No document and no task at first.
LEMMA DocumentsStart == DocumentsInit => DocumentsInv
<1> SUFFICES ASSUME DocumentsInit
             PROVE  DocumentsInv
  OBVIOUS
<1>1. DocumentsTypes
  BY DocumentsBlanks DEF DocumentsInit, DocumentsTypes
<1>2. \A t \in Tasks : tasks[t].phase = "idle" /\ ~tasks[t].alone
  BY DocumentsBlanks DEF DocumentsInit
<1> QED
  BY <1>1, <1>2, DocumentsBlanks
     DEF DocumentsInit, DocumentsInv, WholeInv, AloneInv, TodoInv, Writes

\* Steps that leave the store and every refresh that writes it as they are.
LEMMA QuietKeeps ==
  ASSUME DocumentsInv, DocumentsTypes', UNCHANGED <<store, whole, synced>>,
         \A t \in Tasks : Writes(t)' => /\ Writes(t)
                                        /\ tasks'[t].phase = tasks[t].phase
                                        /\ tasks'[t].alone = tasks[t].alone
                                        /\ tasks'[t].todo = tasks[t].todo
                                        /\ tasks'[t].got = tasks[t].got
  PROVE  DocumentsInv'
<1>1. WholeInv' /\ AloneInv'
  BY DEF DocumentsInv, WholeInv, AloneInv
<1>2. TodoInv'
  <2>1. \A t \in Tasks : tasks'[t].phase \in {"delete", "save"} => Writes(t)'
    BY DEF Writes, Writing
  <2> QED
    BY <2>1 DEF DocumentsInv, TodoInv
<1> QED
  BY <1>1, <1>2 DEF DocumentsInv

\* A task that does not write goes on to a step that does not either.
LEMMA TaskKeeps ==
  ASSUME DocumentsInv, NEW t \in Tasks, NEW r \in TaskRecord, r.phase \notin Writing,
         tasks' = [tasks EXCEPT ![t] = r], screen' \in ScreenRecord,
         agent' \in {"none", "opening", "ready"}, faults' \in 0 .. MaxFaults,
         UNCHANGED <<index, store, whole, synced>>
  PROVE  DocumentsInv'
<1>1. /\ tasks' \in [Tasks -> TaskRecord] /\ tasks'[t] = r
      /\ \A u \in Tasks : u # t => tasks'[u] = tasks[u]
  BY DEF DocumentsInv, DocumentsTypes
<1>2. DocumentsTypes'
  BY <1>1 DEF DocumentsInv, DocumentsTypes
<1>3. \A u \in Tasks : Writes(u)' => Writes(u) /\ tasks'[u] = tasks[u]
  BY <1>1 DEF Writes
<1> QED
  BY <1>2, <1>3, QuietKeeps

\* A refresh that writes does one step: the others are not touched.
LEMMA WriterKeeps ==
  ASSUME DocumentsInv, NEW t \in Tasks, Writes(t), NEW r \in TaskRecord, r.phase \in Writing,
         tasks' = [tasks EXCEPT ![t] = r],
         r.alone => tasks[t].alone,
         store' \subseteq Documents, faults' \in 0 .. MaxFaults,
         r.alone /\ r.phase = "delete" => store' = r.todo,
         r.alone /\ r.phase = "save" => store' \cup r.todo = r.got,
         UNCHANGED <<index, agent, screen, whole, synced>>
  PROVE  DocumentsInv'
<1>1. /\ tasks' \in [Tasks -> TaskRecord] /\ tasks'[t] = r
      /\ \A u \in Tasks : u # t => tasks'[u] = tasks[u]
  BY DEF DocumentsInv, DocumentsTypes
<1>2. DocumentsTypes'
  BY <1>1 DEF DocumentsInv, DocumentsTypes
<1>3. ~whole
  BY DEF DocumentsInv, WholeInv
<1>4. \A u \in Tasks : Writes(u)' <=> Writes(u)
  BY <1>1 DEF Writes
<1>5. AloneInv'
  BY <1>1, <1>4 DEF DocumentsInv, AloneInv
<1>6. \A u \in Tasks : u # t => ~(Writes(u) /\ tasks[u].alone)
  BY DEF DocumentsInv, AloneInv
<1>7. TodoInv'
  <2>1. \A u \in Tasks : tasks'[u].phase \in {"delete", "save"} => Writes(u)
    BY <1>4 DEF Writes, Writing
  <2> QED
    BY <1>1, <1>6, <2>1 DEF TodoInv
<1> QED
  BY <1>2, <1>3, <1>5, <1>7 DEF DocumentsInv, WholeInv

\* The screen, the agent, the service and the fetch do not touch the store.
LEMMA ReadersKeep ==
  ASSUME DocumentsInv,
         \/ \E c \in Credentials : Publish(c)
         \/ Unmount \/ Kill \/ InitializeAgent
         \/ \E t \in Tasks : \/ Mount(t) \/ SyncFromBackend(t) \/ ListCredentials(t)
                             \/ SetCards(t) \/ Initialize(t) \/ Fetch(t)
  PROVE  DocumentsInv'
<1>1. /\ DocumentsTypes /\ screen \in ScreenRecord /\ faults \in 0 .. MaxFaults
      /\ agent \in {"none", "opening", "ready"}
      /\ tasks \in [Tasks -> TaskRecord] /\ \A t \in Tasks : tasks[t] \in TaskRecord
  BY DEF DocumentsInv, DocumentsTypes
<1>2. \A r \in TaskRecord, p \in {"start", "waiting", "fetch", "list", "read", "show"} :
        [r EXCEPT !.phase = p] \in TaskRecord /\ [r EXCEPT !.phase = p].phase = p
  BY DEF TaskRecord
<1>3. \A r \in TaskRecord, p \in {"list", "show"}, g \in SUBSET Documents :
        /\ [r EXCEPT !.phase = p, !.got = g] \in TaskRecord
        /\ [r EXCEPT !.phase = p, !.got = g].phase = p
  BY DEF TaskRecord
<1>4. ASSUME NEW t \in Tasks, NEW p \in {"start", "waiting", "fetch", "list", "read", "show"},
             GoTo(t, p), screen' = screen, faults' = faults,
             agent' \in {"none", "opening", "ready"}, UNCHANGED <<index, store, whole, synced>>
      PROVE  DocumentsInv'
  <2>1. tasks' = [tasks EXCEPT ![t] = [tasks[t] EXCEPT !.phase = p]]
    BY <1>4 DEF GoTo
  <2>2. /\ [tasks[t] EXCEPT !.phase = p] \in TaskRecord
        /\ [tasks[t] EXCEPT !.phase = p].phase \notin Writing
    BY <1>1, <1>2 DEF Writing
  <2> QED
    BY <1>1, <1>4, <2>1, <2>2, TaskKeeps
<1>5. ASSUME NEW t \in Tasks, tasks' = [tasks EXCEPT ![t] = Idle],
             screen' \in ScreenRecord, faults' \in 0 .. MaxFaults, UNCHANGED <<index, store, agent, whole, synced>>
      PROVE  DocumentsInv'
  BY <1>1, <1>5, DocumentsBlanks, TaskKeeps
<1>6. ASSUME NEW t \in Tasks, Fails(t), UNCHANGED <<index, store, agent, whole, synced>>
      PROVE  DocumentsInv'
  BY <1>1, <1>5, <1>6, OverEffect, FaultEffect DEF Fails
<1>7. ASSUME NEW t \in Tasks, NEW p \in {"list", "show"}, NEW g \in SUBSET Documents,
             tasks' = [tasks EXCEPT ![t].phase = p, ![t].got = g], screen' = screen,
             faults' = faults, UNCHANGED <<index, store, agent, whole, synced>>
      PROVE  DocumentsInv'
  <2>1. tasks' = [tasks EXCEPT ![t] = [tasks[t] EXCEPT !.phase = p, !.got = g]]
    BY <1>1, <1>7
  <2>2. /\ [tasks[t] EXCEPT !.phase = p, !.got = g] \in TaskRecord
        /\ [tasks[t] EXCEPT !.phase = p, !.got = g].phase \notin Writing
    BY <1>1, <1>3 DEF Writing
  <2> QED
    BY <1>1, <1>7, <2>1, <2>2, TaskKeeps
<1>8. ASSUME NEW t \in Tasks, NEW kind \in {"load", "sync"}, Begin(t, kind),
             screen' \in ScreenRecord, UNCHANGED <<index, store, agent, faults, whole, synced>>
      PROVE  DocumentsInv'
  <2> DEFINE r == [Idle EXCEPT !.kind = kind, !.phase = "start", !.here = TRUE]
  <2>1. r \in TaskRecord /\ r.phase = "start"
    BY DEF Idle, TaskRecord
  <2>2. tasks' = [tasks EXCEPT ![t] = r]
    BY <1>8 DEF Begin
  <2> HIDE DEF r
  <2> QED
    BY <1>1, <1>8, <2>1, <2>2, DocumentsBlanks, TaskKeeps
<1>9. ASSUME NEW c \in Credentials, Publish(c) PROVE DocumentsInv'
  <2>1. DocumentsTypes'
    BY <1>1, <1>9 DEF Publish, DocumentsTypes, Statuses
  <2> QED
    BY <1>9, <2>1, QuietKeeps DEF Publish, Writes
<1>10. ASSUME Unmount PROVE DocumentsInv'
  <2>1. \A r \in TaskRecord : /\ [r EXCEPT !.here = FALSE] \in TaskRecord
                              /\ [r EXCEPT !.here = FALSE].phase = r.phase
                              /\ [r EXCEPT !.here = FALSE].alone = r.alone
                              /\ [r EXCEPT !.here = FALSE].todo = r.todo
                              /\ [r EXCEPT !.here = FALSE].got = r.got
    BY DEF TaskRecord
  <2>2. \A t \in Tasks : tasks'[t] = [tasks[t] EXCEPT !.here = FALSE]
    BY <1>10 DEF Unmount
  <2>3. DocumentsTypes'
    BY <1>1, <1>10, <2>1, <2>2, DocumentsBlanks DEF Unmount, DocumentsTypes
  <2> QED
    BY <1>1, <1>10, <2>1, <2>2, <2>3, QuietKeeps DEF Unmount, Writes
<1>11. ASSUME Kill PROVE DocumentsInv'
  <2>1. DocumentsTypes'
    BY <1>1, <1>11, DocumentsBlanks, FaultEffect DEF Kill, DocumentsTypes
  <2>2. \A t \in Tasks : ~Writes(t)'
    BY <1>11, DocumentsBlanks DEF Kill, Writes
  <2> QED
    BY <1>11, <2>1, <2>2, QuietKeeps DEF Kill
<1>12. ASSUME InitializeAgent PROVE DocumentsInv'
  <2>1. \A t \in Tasks : Opened(t) \in {"fetch", "read"}
    BY DEF Opened
  <2>2. \A t \in Tasks : \/ tasks'[t] = tasks[t]
                         \/ tasks'[t] \in TaskRecord /\ tasks'[t].phase \notin Writing
    <3>1. CASE \A t \in Tasks : tasks'[t] = IF At(t, "waiting")
                                            THEN [tasks[t] EXCEPT !.phase = Opened(t)] ELSE tasks[t]
      <4>1. ASSUME NEW t \in Tasks
            PROVE  /\ [tasks[t] EXCEPT !.phase = Opened(t)] \in TaskRecord
                   /\ [tasks[t] EXCEPT !.phase = Opened(t)].phase \notin Writing
        BY <1>1, <1>2, <2>1 DEF Writing
      <4> QED
        BY <3>1, <4>1
    <3>2. CASE \A t \in Tasks : tasks'[t] = IF At(t, "waiting") THEN Idle ELSE tasks[t]
      BY <3>2, DocumentsBlanks
    <3> QED
      BY <1>12, <3>1, <3>2 DEF InitializeAgent
  <2>3. tasks' \in [Tasks -> TaskRecord]
    <3>1. \A t \in Tasks : tasks'[t] \in TaskRecord
      BY <1>1, <2>2
    <3>2. \/ tasks' = [t \in Tasks |-> IF At(t, "waiting")
                                       THEN [tasks[t] EXCEPT !.phase = Opened(t)] ELSE tasks[t]]
          \/ tasks' = [t \in Tasks |-> IF At(t, "waiting") THEN Idle ELSE tasks[t]]
      BY <1>12 DEF InitializeAgent
    <3> QED
      BY <3>1, <3>2
  <2>4. screen' \in ScreenRecord
    <3> DEFINE ended == {t \in Tasks : At(t, "waiting") /\ tasks[t].here}
               b == screen.loading /\ \A t \in ended : tasks[t].kind = "sync"
               c == screen.syncing /\ \A t \in ended : tasks[t].kind = "load"
    <3>1. b \in BOOLEAN /\ c \in BOOLEAN
      OBVIOUS
    <3>2. screen' = screen \/ screen' = [screen EXCEPT !.loading = b, !.syncing = c]
      BY <1>12 DEF InitializeAgent
    <3> HIDE DEF b, c
    <3> QED
      BY <1>1, <3>1, <3>2 DEF ScreenRecord
  <2>5. DocumentsTypes'
    BY <1>1, <1>12, <2>3, <2>4, FaultEffect DEF InitializeAgent, DocumentsTypes
  <2> QED
    BY <1>12, <2>2, <2>5, QuietKeeps DEF InitializeAgent, Writes
<1>13. ASSUME NEW t \in Tasks, Mount(t) PROVE DocumentsInv'
  <2>1. [NoScreen EXCEPT !.up = TRUE, !.loading = TRUE] \in ScreenRecord
    BY DEF NoScreen, ScreenRecord
  <2> QED
    BY <1>8, <1>13, <2>1 DEF Mount
<1>14. ASSUME NEW t \in Tasks, SyncFromBackend(t) PROVE DocumentsInv'
  <2>1. [screen EXCEPT !.syncing = TRUE] \in ScreenRecord
    BY <1>1 DEF ScreenRecord
  <2> QED
    BY <1>8, <1>14, <2>1 DEF SyncFromBackend
<1>15. ASSUME NEW t \in Tasks, ListCredentials(t) PROVE DocumentsInv'
  <2>1. Active(store) \in SUBSET Documents
    BY <1>1 DEF Active, DocumentsTypes
  <2> QED
    BY <1>6, <1>7, <1>15, <2>1 DEF ListCredentials, NoFault
<1>16. ASSUME NEW t \in Tasks, SetCards(t) PROVE DocumentsInv'
  <2>1. Over(t) \in ScreenRecord /\ tasks[t].got \subseteq Documents
    BY <1>1, OverEffect DEF TaskRecord
  <2>2. screen' \in ScreenRecord
    BY <1>16, <2>1 DEF SetCards, ScreenRecord
  <2> QED
    BY <1>1, <1>5, <1>16, <2>2 DEF SetCards
<1>17. ASSUME NEW t \in Tasks, Initialize(t) PROVE DocumentsInv'
  <2>1. Opened(t) \in {"fetch", "read"}
    BY DEF Opened
  <2> QED
    BY <1>1, <1>4, <1>17, <2>1 DEF Initialize
<1>18. ASSUME NEW t \in Tasks, Fetch(t) PROVE DocumentsInv'
  BY <1>6, <1>7, <1>18, DocumentsBlanks DEF Fetch, NoFault
<1> QED
  BY <1>9, <1>10, <1>11, <1>12, <1>13, <1>14, <1>15, <1>16, <1>17, <1>18

\* A refresh starts to write: alone if no other does, and then none that does is.
LEMMA ListingKeeps ==
  ASSUME DocumentsInv, NEW t \in Tasks, ListExisting(t)
  PROVE  DocumentsInv'
<1>1. /\ DocumentsTypes /\ store \subseteq Documents
      /\ tasks \in [Tasks -> TaskRecord] /\ \A u \in Tasks : tasks[u] \in TaskRecord
  BY DEF DocumentsInv, DocumentsTypes
<1> DEFINE others == {u \in Tasks \ {t} : tasks[u].phase \in Writing}
           single == (others = {})
           r == [tasks[t] EXCEPT !.phase = "delete", !.todo = store, !.alone = single]
<1>2. /\ tasks' = [u \in Tasks |-> IF u = t THEN r
                                   ELSE IF u \in others THEN [tasks[u] EXCEPT !.alone = FALSE]
                                   ELSE tasks[u]]
      /\ ~whole' /\ UNCHANGED <<index, store, agent, screen, faults, synced>>
  BY DEF ListExisting
<1>3. /\ r \in TaskRecord /\ r.phase = "delete" /\ r.todo = store /\ r.alone = single
  <2>1. \A b \in BOOLEAN :
          LET q == [tasks[t] EXCEPT !.phase = "delete", !.todo = store, !.alone = b]
          IN q \in TaskRecord /\ q.phase = "delete" /\ q.todo = store /\ q.alone = b
    BY <1>1 DEF TaskRecord, Writing
  <2>2. single \in BOOLEAN
    OBVIOUS
  <2> QED
    BY <2>1, <2>2
<1>4. \A u \in Tasks : u # t => (u \in others <=> Writes(u))
  BY DEF Writes
<1>5. \A q \in TaskRecord : /\ [q EXCEPT !.alone = FALSE] \in TaskRecord
                            /\ ~[q EXCEPT !.alone = FALSE].alone
                            /\ [q EXCEPT !.alone = FALSE].phase = q.phase
  BY DEF TaskRecord
<1>6. single => \A u \in Tasks : u # t => ~Writes(u)
  BY <1>4
<1> HIDE DEF others, single, r
<1>7. ASSUME NEW u \in Tasks, u # t
      PROVE  /\ tasks'[u] \in TaskRecord /\ tasks'[u].phase = tasks[u].phase
             /\ Writes(u)' <=> Writes(u)
             /\ Writes(u) => ~tasks'[u].alone
             /\ ~Writes(u) => tasks'[u] = tasks[u]
  <2>1. CASE u \in others
    <3>1. tasks'[u] = [tasks[u] EXCEPT !.alone = FALSE] /\ Writes(u)
      BY <1>2, <1>4, <1>7, <2>1
    <3> QED
      BY <1>1, <1>5, <3>1 DEF Writes
  <2>2. CASE u \notin others
    BY <1>1, <1>2, <1>4, <1>7, <2>2 DEF Writes
  <2> QED
    BY <2>1, <2>2
<1>8. tasks'[t] = r
  BY <1>2
<1>9. DocumentsTypes'
  <2>1. \A u \in Tasks : tasks'[u] \in TaskRecord
    BY <1>3, <1>7, <1>8
  <2>2. tasks' \in [Tasks -> TaskRecord]
    BY <1>2, <2>1
  <2>3. whole' \in BOOLEAN
    BY <1>2 DEF ListExisting
  <2> QED
    BY <1>1, <1>2, <2>2, <2>3 DEF DocumentsTypes
<1>10. AloneInv'
  <2> SUFFICES ASSUME NEW u \in Tasks, NEW v \in Tasks, Writes(u)', tasks'[u].alone, Writes(v)'
               PROVE  v = u
    BY DEF AloneInv
  <2>1. u = t
    BY <1>7
  <2>2. single
    BY <1>3, <1>8, <2>1
  <2> QED
    BY <1>6, <1>7, <2>1, <2>2
<1>11. TodoInv'
  <2> SUFFICES ASSUME NEW u \in Tasks, tasks'[u].alone
               PROVE  /\ tasks'[u].phase = "delete" => store' = tasks'[u].todo
                      /\ tasks'[u].phase = "save" => store' \cup tasks'[u].todo = tasks'[u].got
    BY DEF TodoInv
  <2>1. CASE u = t
    BY <1>2, <1>3, <1>8, <2>1
  <2>2. CASE u # t
    BY <1>7, <2>2 DEF Writes, Writing
  <2> QED
    BY <2>1, <2>2
<1> QED
  BY <1>2, <1>9, <1>10, <1>11 DEF DocumentsInv, WholeInv

\* Deleting and saving, one document at a time, done or failed.
LEMMA WritesKeep ==
  ASSUME DocumentsInv, NEW t \in Tasks,
         \/ Deleted(t)
         \/ \E d \in Documents : DeleteCredential(t, d) \/ SaveCredential(t, d)
  PROVE  DocumentsInv'
<1>1. /\ DocumentsTypes /\ store \subseteq Documents /\ faults \in 0 .. MaxFaults
      /\ tasks \in [Tasks -> TaskRecord] /\ tasks[t] \in TaskRecord
      /\ tasks[t].got \subseteq Documents /\ tasks[t].todo \subseteq Documents
  BY DEF DocumentsInv, DocumentsTypes, TaskRecord
<1>2. /\ tasks[t].alone /\ tasks[t].phase = "delete" => store = tasks[t].todo
      /\ tasks[t].alone /\ tasks[t].phase = "save" => store \cup tasks[t].todo = tasks[t].got
  BY DEF DocumentsInv, TodoInv
<1>3. ASSUME NEW d \in Documents, NEW new \in SUBSET Documents, Try(t, d, new),
             tasks[t].phase \in Writing, UNCHANGED <<index, agent, screen, whole, synced>>,
             tasks[t].alone /\ tasks[t].phase = "delete" => new = tasks[t].todo \ {d},
             tasks[t].alone /\ tasks[t].phase = "save" => new \cup (tasks[t].todo \ {d}) = tasks[t].got
      PROVE  DocumentsInv'
  <2>0. Writes(t) /\ faults' \in 0 .. MaxFaults
    BY <1>1, <1>3, FaultEffect DEF Writes, Try
  <2>1. CASE store' = new /\ tasks' = [tasks EXCEPT ![t].todo = @ \ {d}]
    <3> DEFINE r == [tasks[t] EXCEPT !.todo = @ \ {d}]
    <3>1. /\ r \in TaskRecord /\ r.phase = tasks[t].phase /\ r.alone = tasks[t].alone
          /\ r.todo = tasks[t].todo \ {d} /\ r.got = tasks[t].got
      BY <1>1 DEF TaskRecord
    <3>2. tasks' = [tasks EXCEPT ![t] = r]
      BY <2>1
    <3> HIDE DEF r
    <3> QED
      BY <1>3, <2>0, <2>1, <3>1, <3>2, WriterKeeps
  <2>2. CASE store' = store /\ tasks' = [tasks EXCEPT ![t].todo = @ \ {d}, ![t].alone = FALSE]
    <3> DEFINE r == [tasks[t] EXCEPT !.todo = @ \ {d}, !.alone = FALSE]
    <3>1. r \in TaskRecord /\ r.phase = tasks[t].phase /\ ~r.alone
      BY <1>1 DEF TaskRecord
    <3>2. tasks' = [tasks EXCEPT ![t] = r]
      BY <1>1, <2>2
    <3> HIDE DEF r
    <3> QED
      BY <1>1, <1>3, <2>0, <2>2, <3>1, <3>2, WriterKeeps
  <2> QED
    BY <1>3, <2>1, <2>2 DEF Try
<1>4. ASSUME NEW d \in Documents, DeleteCredential(t, d) PROVE DocumentsInv'
  <2>1. /\ store \ {d} \in SUBSET Documents /\ tasks[t].phase = "delete"
        /\ tasks[t].phase \in Writing
    BY <1>1, <1>4 DEF DeleteCredential, At, Writing
  <2> QED
    BY <1>2, <1>3, <1>4, <2>1 DEF DeleteCredential
<1>5. ASSUME NEW d \in Documents, SaveCredential(t, d) PROVE DocumentsInv'
  <2>1. /\ store \cup {d} \in SUBSET Documents /\ tasks[t].phase = "save"
        /\ tasks[t].phase \in Writing /\ d \in tasks[t].todo
    BY <1>1, <1>5 DEF SaveCredential, At, Writing, Try
  <2> QED
    BY <1>2, <1>3, <1>5, <2>1 DEF SaveCredential
<1>6. ASSUME Deleted(t) PROVE DocumentsInv'
  <2> DEFINE r == [tasks[t] EXCEPT !.phase = "save", !.todo = tasks[t].got]
  <2>1. /\ r \in TaskRecord /\ r.phase = "save" /\ r.alone = tasks[t].alone
        /\ r.todo = tasks[t].got /\ r.got = tasks[t].got
    BY <1>1 DEF TaskRecord, Writing
  <2>2. tasks' = [tasks EXCEPT ![t] = r]
    BY <1>1, <1>6 DEF Deleted
  <2> HIDE DEF r
  <2>3. /\ tasks[t].phase = "delete" /\ tasks[t].todo = {} /\ Writes(t) /\ r.phase \in Writing
        /\ UNCHANGED <<index, store, agent, screen, faults, whole, synced>>
    BY <1>6, <2>1 DEF Deleted, At, Writes, Writing
  <2>4. r.alone => store' \cup r.todo = r.got
    BY <1>2, <2>1, <2>3
  <2> QED
    BY <1>1, <2>1, <2>2, <2>3, <2>4, WriterKeeps
<1> QED
  BY <1>4, <1>5, <1>6

\* A refresh that is through leaves the store whole if it was alone, and no writer then.
LEMMA SavedKeeps ==
  ASSUME DocumentsInv, NEW t \in Tasks, Saved(t)
  PROVE  DocumentsInv'
<1>1. /\ DocumentsTypes /\ screen \in ScreenRecord
      /\ tasks \in [Tasks -> TaskRecord] /\ tasks[t] \in TaskRecord
      /\ tasks[t].got \subseteq Documents
  BY DEF DocumentsInv, DocumentsTypes, TaskRecord
<1> DEFINE r == [tasks[t] EXCEPT !.phase = "read", !.got = {}, !.alone = FALSE]
<1>2. r \in TaskRecord /\ r.phase = "read" /\ ~r.alone
  BY <1>1 DEF TaskRecord
<1>3. tasks' = [tasks EXCEPT ![t] = r]
  BY <1>1 DEF Saved
<1> HIDE DEF r
<1>4. /\ tasks' \in [Tasks -> TaskRecord] /\ tasks'[t] = r
      /\ \A u \in Tasks : u # t => tasks'[u] = tasks[u]
  BY <1>1, <1>2, <1>3
<1>5. /\ tasks[t].phase = "save" /\ tasks[t].todo = {} /\ Writes(t)
      /\ whole' = tasks[t].alone
      /\ synced' = IF tasks[t].alone THEN tasks[t].got ELSE {}
      /\ UNCHANGED <<index, store, agent, faults>>
  BY DEF Saved, At, Writes, Writing
<1>6. screen' \in ScreenRecord
  <2> DEFINE b == screen.loading \/ tasks[t].here
  <2>1. b \in BOOLEAN /\ screen' = [screen EXCEPT !.loading = b]
    BY DEF Saved
  <2> HIDE DEF b
  <2> QED
    BY <1>1, <2>1 DEF ScreenRecord
<1>7. DocumentsTypes'
  BY <1>1, <1>4, <1>5, <1>6 DEF DocumentsTypes, TaskRecord
<1>8. ~Writes(t)' /\ \A u \in Tasks : u # t => (Writes(u)' <=> Writes(u))
  BY <1>2, <1>4, DocumentsBlanks DEF Writes
<1>9. WholeInv'
  <2>1. CASE tasks[t].alone
    <3>1. store' = synced'
      BY <1>5, <2>1 DEF DocumentsInv, TodoInv
    <3>2. \A u \in Tasks : ~Writes(u)'
      BY <1>5, <1>8, <2>1 DEF DocumentsInv, AloneInv
    <3> QED
      BY <3>1, <3>2 DEF WholeInv
  <2>2. CASE ~tasks[t].alone
    BY <1>5, <2>2 DEF WholeInv
  <2> QED
    BY <2>1, <2>2
<1>10. AloneInv'
  BY <1>4, <1>8 DEF DocumentsInv, AloneInv
<1>11. TodoInv'
  BY <1>2, <1>4, <1>5 DEF DocumentsInv, TodoInv
<1> QED
  BY <1>7, <1>9, <1>10, <1>11 DEF DocumentsInv

\* DocumentsInv is inductive.
LEMMA DocumentsInvHolds == DocumentsSpec => []DocumentsInv
<1>1. DocumentsInv /\ UNCHANGED docVars => DocumentsInv'
  BY DEF DocumentsInv, DocumentsTypes, WholeInv, AloneInv, TodoInv, Writes, docVars
<1>2. DocumentsInv /\ DocumentsNext => DocumentsInv'
  BY ReadersKeep, ListingKeeps, WritesKeep, SavedKeeps DEF DocumentsNext, TaskStep
<1> QED
  BY DocumentsStart, <1>1, <1>2, PTL DEF DocumentsSpec

-----------------------------------------------------------------------------
(* WalletDocuments: what the owner can rely on *)

(* Every state of the wallet's documents, of the screen that shows them    *)
(* and of the refreshes is of its type, however many overlap or are cut    *)
(* off.                                                                    *)
THEOREM DocumentsTypeCorrect == DocumentsSpec => []DocumentsTypeOK
<1>1. DocumentsInv => DocumentsTypeOK
  BY DocumentsTypesMean DEF DocumentsInv
<1> QED
  BY DocumentsInvHolds, <1>1, PTL

(* A refresh that no other overlaps and no call of which fails leaves the  *)
(* wallet with what it fetched, no more and no less, whatever earlier ones *)
(* were cut off in the middle of their deletes and saves.                  *)
THEOREM AlwaysWholeAfterARefresh == DocumentsSpec => []WholeAfterARefresh
<1>1. DocumentsInv => WholeAfterARefresh
  BY DEF DocumentsInv, WholeInv, WholeAfterARefresh
<1> QED
  BY DocumentsInvHolds, <1>1, PTL
===============================================================================
