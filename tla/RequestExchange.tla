---------------------------- MODULE RequestExchange ----------------------------
(***************************************************************************)
(* How a presentation request reaches the owner and leaves again: the      *)
(* Actions tab (ActionsStubScreen) with its paste, scan and QR views, the  *)
(* didwallet:// link (MainTabNavigator), and the consent screen that shows *)
(* one request and has it approved or declined.                            *)
(*                                                                         *)
(* A link stands for what it decodes to.  What an approval does is in      *)
(* Presentation; here it runs, and ends in one of two alerts, whatever has *)
(* become of its screen by then.  The Actions stack of the navigator is    *)
(* the action list, if it was ever mounted, below the consent screen.      *)
(*                                                                         *)
(* Left out: the alert of the paste view, which changes nothing; requests  *)
(* that decode to a value of another shape; texts and layout.              *)
(***************************************************************************)
EXTENDS Naturals, FiniteSets

CONSTANTS
  Approvals,    \* approvals and their alerts that may be about at once
  MaxAlerts     \* bound on the scanner's alerts at once

ASSUME ExchangeAssumption == MaxAlerts \in Nat /\ IsFiniteSet(Approvals)

Purposes == {"master-application", "job-application"}
NoLink == "none"
Links == Purposes \cup {"null", "undecodable", "unprefixed"}

VARIABLES
  accountType,  \* of the stored profile
  device,       \* Device.isDevice
  launch,       \* the link the app was launched by
  up,           \* the tabs are up: the app is unlocked
  tab,
  home,         \* ActionsStubScreen with its sub-view
  alerts,       \* "Invalid QR code" alerts on display
  consent,      \* PresentationConsentScreen
  runs          \* approvals

setting == <<accountType, device, launch>>
exVars == <<setting, up, tab, home, alerts, consent, runs>>

NoHome == [up |-> FALSE, profile |-> FALSE, view |-> "list", row |-> NoLink,
           camera |-> "unknown", scanned |-> FALSE, armed |-> NoLink]
NoConsent == [up |-> FALSE, link |-> NoLink, via |-> NoLink, decoded |-> TRUE,
              request |-> NoLink, error |-> FALSE, bad |-> FALSE, busy |-> FALSE]
NoRun == [phase |-> "idle", home |-> "void"]

ExchangeTypeOK ==
  /\ accountType \in {"personal", "university", "enterprise"}
  /\ device \in BOOLEAN /\ up \in BOOLEAN
  /\ launch \in Links \cup {NoLink}
  /\ tab \in {"identity", "actions"}
  /\ home \in [up : BOOLEAN, profile : BOOLEAN, view : {"list", "paste", "scan", "qr"},
               row : Purposes \cup {NoLink}, camera : {"unknown", "denied", "granted"},
               scanned : BOOLEAN, armed : Purposes \cup {NoLink}]
  /\ alerts \in 0 .. MaxAlerts
  /\ consent \in [up : BOOLEAN, link : Links \cup {NoLink}, via : Purposes \cup {NoLink},
                  decoded : BOOLEAN, request : Links \cup {NoLink}, error : BOOLEAN,
                  bad : BOOLEAN, busy : BOOLEAN]
  /\ runs \in [Approvals -> [phase : {"idle", "running", "submitted", "failed"},
                             home : {"here", "gone", "void"}]]

ExchangeInit ==
  /\ accountType \in {"personal", "university", "enterprise"}
  /\ device \in BOOLEAN
  /\ launch \in {NoLink, "master-application", "undecodable"}
  /\ up = FALSE /\ tab = "identity"
  /\ home = NoHome /\ consent = NoConsent /\ alerts = 0
  /\ runs = [a \in Approvals |-> NoRun]
-----------------------------------------------------------------------------
(* Requests *)

PresentationPurpose(l) == IF l \in Purposes THEN l ELSE NoLink
Prefixed(l) == l # "unprefixed"
Decodes(l) == l \notin {"undecodable", "unprefixed"}

(* The alerts are modal: the owner does nothing else while one is up. *)
Free == up /\ alerts = 0 /\ \A a \in Approvals : runs[a].phase \in {"idle", "running"}

(* An approval goes on when its screen is popped, or the tabs are taken down. *)
Rehomed(h) == [a \in Approvals |->
  IF runs[a].home = "void" THEN runs[a] ELSE [runs[a] EXCEPT !.home = h]]

Fresh(l, via) == [NoConsent EXCEPT !.up = TRUE, !.link = l, !.via = via, !.decoded = FALSE]

(* Navigating to a consent screen that is on top gives it other parameters. *)
Review(l, via) ==
  /\ tab' = "actions"
  /\ consent' = IF consent.up THEN [consent EXCEPT !.link = l, !.via = via, !.decoded = FALSE]
                ELSE Fresh(l, via)

(* Back pops the consent screen if anything is below it, and else changes tabs. *)
GoBack ==
  IF consent.up /\ home.up
  THEN consent' = NoConsent /\ UNCHANGED tab
  ELSE tab' = "identity" /\ UNCHANGED consent
Left == IF consent.up /\ home.up THEN Rehomed("gone") ELSE runs
-----------------------------------------------------------------------------
(* MainTabNavigator *)

(* Each time the tabs are mounted they open at the link of the launch. *)
MainTabs ==
  /\ ~up
  /\ up' = TRUE
  /\ IF launch = NoLink
     THEN tab' = "identity" /\ UNCHANGED consent
     ELSE Review(launch, NoLink)
  /\ UNCHANGED <<setting, home, alerts, runs>>

Lock ==
  /\ up
  /\ up' = FALSE /\ tab' = "identity"
  /\ home' = NoHome /\ consent' = NoConsent
  /\ runs' = Rehomed("void")
  /\ UNCHANGED <<setting, alerts>>

Linking(l) ==
  /\ up
  /\ Review(l, NoLink)
  /\ UNCHANGED <<setting, up, home, alerts, runs>>

PressTab ==
  /\ Free
  /\ IF tab = "actions"
     THEN tab' = "identity" /\ UNCHANGED home
     ELSE tab' = "actions" /\ home' = [home EXCEPT !.up = @ \/ ~consent.up]
  /\ UNCHANGED <<setting, up, alerts, consent, runs>>
-----------------------------------------------------------------------------
(* ActionsStubScreen *)

OnHome == up /\ tab = "actions" /\ home.up /\ ~consent.up
HomeOnly == UNCHANGED <<setting, up, tab, alerts, consent, runs>>
ShowView(v, row) == home' = [home EXCEPT !.view = v, !.row = row, !.scanned = FALSE,
                                         !.camera = "unknown"]

GetWalletProfile ==
  /\ home.up /\ ~home.profile
  /\ home' = [home EXCEPT !.profile = TRUE]
  /\ HomeOnly

(* Until the profile is there every account has the rows of a personal one. *)
AccountType == IF home.profile THEN accountType ELSE "personal"

(* The row whose scanner the last change of state would have the camera call. *)
Handler ==
  IF home.view = "scan" /\ home.camera = "granted" /\ ~home.scanned THEN home.row ELSE NoLink

Pressable == Free /\ OnHome /\ home.armed = Handler   \* and rendered
Rows == Pressable /\ home.view = "list"

OpenQr(row) ==
  /\ Rows
  /\ AccountType = IF row = "master-application" THEN "university" ELSE "enterprise"
  /\ ShowView("qr", row)
  /\ HomeOnly

OpenPresentationRequest(row) ==
  /\ Rows /\ AccountType = "personal"
  /\ ShowView(IF device THEN "scan" ELSE "paste", row)
  /\ HomeOnly

CloseView ==
  /\ Pressable /\ home.view # "list"
  /\ ShowView("list", NoLink)
  /\ HomeOnly

HandlePasteSubmit(l, via) ==
  /\ ShowView("list", NoLink)
  /\ Review(l, via)
  /\ UNCHANGED runs

PasteRequest(l) ==
  /\ Pressable /\ home.view = "paste" /\ Prefixed(l)
  /\ HandlePasteSubmit(l, NoLink)
  /\ UNCHANGED <<setting, up, alerts>>

CameraPermission ==
  /\ home.up /\ home.view = "scan"
  /\ \/ home.camera = "unknown"
     \/ home.camera = "denied" /\ Pressable
  /\ \E p \in {"denied", "granted"} : home' = [home EXCEPT !.camera = p]
  /\ HomeOnly

Matches(l, row) == Prefixed(l) /\ Decodes(l) /\ PresentationPurpose(l) = row

(* Until the next render the camera goes on calling the handler of the     *)
(* last one, whatever that has set meanwhile.                              *)
HandleBarcode(l) ==
  /\ up /\ home.armed # NoLink
  /\ IF Matches(l, home.armed)
     THEN HandlePasteSubmit(l, home.armed) /\ UNCHANGED alerts
     ELSE /\ alerts < MaxAlerts /\ alerts' = alerts + 1
          /\ home' = [home EXCEPT !.scanned = home.view = "scan"]
          /\ UNCHANGED <<tab, consent, runs>>
  /\ UNCHANGED <<setting, up>>

RenderScanner ==
  /\ home.armed # Handler
  /\ home' = [home EXCEPT !.armed = Handler]
  /\ HomeOnly

\* Faulty variant: the alert without its button's effect.
ScanOver ==
  /\ up /\ alerts > 0
  /\ alerts' = alerts - 1
  /\ UNCHANGED <<setting, up, tab, home, consent, runs>>

ScanAgain ==
  /\ alerts > 0
  /\ alerts' = alerts - 1
  /\ home' = [home EXCEPT !.scanned = FALSE]
  /\ UNCHANGED <<setting, up, tab, consent, runs>>
-----------------------------------------------------------------------------
(* PresentationConsentScreen *)

OnConsent == Free /\ tab = "actions" /\ consent.up
Showing == OnConsent /\ ~consent.error /\ consent.request \notin {NoLink, "null"}

\* Faulty variant: the effect without its dependency.
DecodeOnMount ==
  /\ consent.up /\ ~consent.decoded
  /\ consent' = [consent EXCEPT
       !.decoded = TRUE,
       !.request = IF @ = NoLink /\ Decodes(consent.link) THEN consent.link ELSE @,
       !.error = @ \/ (consent.request = NoLink /\ ~Decodes(consent.link)),
       !.bad = @ \/ ~Decodes(consent.link)]
  /\ UNCHANGED <<setting, up, tab, home, alerts, runs>>

(* An error, once set, stays with the screen. *)
Decode ==
  /\ consent.up /\ ~consent.decoded
  /\ LET ok == Decodes(consent.link)
     IN consent' = [consent EXCEPT !.decoded = TRUE,
                                   !.request = IF ok THEN consent.link ELSE @,
                                   !.error = @ \/ ~ok, !.bad = @ \/ ~ok]
  /\ UNCHANGED <<setting, up, tab, home, alerts, runs>>

\* Faulty variant: the buttons left in place while an approval runs.
ApproveAgain(a) ==
  /\ Showing /\ runs[a] = NoRun
  /\ consent' = [consent EXCEPT !.busy = TRUE]
  /\ runs' = [runs EXCEPT ![a] = [phase |-> "running", home |-> "here"]]
  /\ UNCHANGED <<setting, up, tab, home, alerts>>

HandleApprove(a) ==
  /\ Showing /\ ~consent.busy
  /\ runs[a] = NoRun
  /\ consent' = [consent EXCEPT !.busy = TRUE]
  /\ runs' = [runs EXCEPT ![a] = [phase |-> "running", home |-> "here"]]
  /\ UNCHANGED <<setting, up, tab, home, alerts>>

ApprovalEnds(a) ==
  /\ runs[a].phase = "running"
  /\ \E p \in {"submitted", "failed"} : runs' = [runs EXCEPT ![a].phase = p]
  /\ consent' = [consent EXCEPT !.busy = @ /\ runs[a].home # "here"]
  /\ UNCHANGED <<setting, up, tab, home, alerts>>

(* OK after a submission goes back from whatever the stack has on top by then. *)
PressOk(a) ==
  /\ runs[a].phase \in {"submitted", "failed"}
  /\ IF runs[a].phase = "submitted" /\ runs[a].home # "void"
     THEN GoBack /\ runs' = [Left EXCEPT ![a] = NoRun]
     ELSE runs' = [runs EXCEPT ![a] = NoRun] /\ UNCHANGED <<tab, consent>>
  /\ UNCHANGED <<setting, up, home, alerts>>

HandleDecline ==
  /\ OnConsent
  /\ consent.error \/ (Showing /\ ~consent.busy)
  /\ GoBack /\ runs' = Left
  /\ UNCHANGED <<setting, up, home, alerts>>

(* The platform's own back button or gesture is there at any time. *)
SystemBack ==
  /\ OnConsent
  /\ GoBack /\ runs' = Left
  /\ UNCHANGED <<setting, up, home, alerts>>
-----------------------------------------------------------------------------
ExchangeNext ==
  \/ MainTabs \/ Lock \/ PressTab
  \/ GetWalletProfile \/ CloseView \/ CameraPermission \/ RenderScanner \/ ScanAgain
  \/ Decode \/ HandleDecline \/ SystemBack
  \/ \E row \in Purposes : OpenQr(row) \/ OpenPresentationRequest(row)
  \/ \E l \in Links : Linking(l) \/ PasteRequest(l) \/ HandleBarcode(l)
  \/ \E a \in Approvals : HandleApprove(a) \/ ApprovalEnds(a) \/ PressOk(a)

ExchangeSpec == ExchangeInit /\ [][ExchangeNext]_exVars
-----------------------------------------------------------------------------
(* Properties *)

(* Whatever links come in while a request is reviewed or approved, what    *)
(* the owner is shown, and approves, is the request of the last of them,   *)
(* unless one that could not be read has come to the same screen.          *)
ReviewShowsTheLink ==
  consent.up /\ consent.decoded =>
    IF consent.error THEN consent.bad ELSE consent.request = consent.link

(* A consent screen has at most one approval under way, and is busy for    *)
(* just as long, however many approvals of screens left before go on.      *)
OneAnswerAtATime ==
  Cardinality({a \in Approvals : runs[a].phase = "running" /\ runs[a].home = "here"})
    = IF consent.busy THEN 1 ELSE 0

(* A scanner that has stopped reading has an alert to restart it by, and   *)
(* what it hands on is a request of the kind that it was opened for, even  *)
(* when the camera reports several codes between two renders.              *)
ScannerAwaitsOrAsks ==
  /\ home.view = "scan" /\ home.scanned => alerts > 0
  /\ consent.up /\ consent.via # NoLink => consent.link = consent.via
=============================================================================
