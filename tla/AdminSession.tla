----------------------------- MODULE AdminSession -----------------------------
(***************************************************************************)
(* The administration console's session: who is logged in (AuthService),   *)
(* whose key signs (SignerService, over the MetaMask extension), and which *)
(* accreditation the page on display acts for (NavigationStateService,     *)
(* filled by the government and universities pages when they open).        *)
(*                                                                         *)
(* Everything here waits for somebody: MetaMask for its user, the services *)
(* for the network.  Nothing is cancelled when the session it was begun    *)
(* for ends, so a late answer acts on whatever session it finds.           *)
(*                                                                         *)
(* Left out: what the pages list and submit (AdminPage has a page's panel  *)
(* of details), error texts, the chain id, server-side rendering.  Time is *)
(* not counted: a token may have expired whenever that is asked.           *)
(***************************************************************************)
EXTENDS Naturals, FiniteSets

CONSTANTS
  Accounts,     \* MetaMask's
  NoOne,
  Scope,        \* account -> the scope a token of its carries
  Fetches,      \* account -> how many accreditations its home page must fetch first
  Conns,        \* connections to MetaMask that may be under way at once
  Inits,        \* page initialisations that may be under way at once
  NoConn,
  MaxCalls      \* bound: unanswered list and record requests that are counted

Scopes == {"EURoot", "MemberState", "Ministry", "Institution"}
Pages == {"login", "member-states", "government", "universities", "enterprises"}

ASSUME SessionAssumption ==
  /\ NoOne \notin Accounts /\ NoConn \notin Conns
  /\ Scope \in [Accounts -> Scopes]
  /\ Fetches \in [Accounts -> 0 .. 3]
  /\ MaxCalls \in Nat

VARIABLES
  metamask,     \* the account selected in MetaMask
  session, state,       \* AuthService: of session only whose it is
  signer,       \* SignerService
  conns,
  page,         \* the route on display
  nav,          \* NavigationStateService: whose context a page has selected
  inits,
  calls,        \* requests under way whose refusal (401) ends the session
  origin,       \* history: of the signer
  strayNav      \* history: nav was selected by an initialisation that outlived its session

sessVars ==
  <<metamask, session, state, signer, conns, page, nav, inits, calls, origin, strayNav>>

NoTask == [kind |-> "none", at |-> "idle", account |-> NoOne, good |-> FALSE, old |-> FALSE]
NoInit == [owner |-> NoOne, left |-> 0, old |-> FALSE]
NoOrigin == [by |-> NoConn, stray |-> FALSE]

SessionTypeOK ==
  /\ {metamask, session, signer, nav} \subseteq Accounts \cup {NoOne}
  /\ state \in {"idle", "busy", "authenticated"}
  /\ conns \in [Conns -> [kind : {"none", "login", "connect", "restore"},
                          at : {"idle", "accounts", "signer", "challenge", "sign", "verify"},
                          account : Accounts \cup {NoOne}, good : BOOLEAN, old : BOOLEAN]]
  /\ page \in Pages
  /\ inits \in [Inits -> [owner : Accounts \cup {NoOne}, left : 0 .. 3, old : BOOLEAN]]
  /\ calls \in 0 .. MaxCalls
  /\ origin \in [by : Conns \cup {NoConn}, stray : BOOLEAN]
  /\ strayNav \in BOOLEAN

SessionInit ==
  /\ metamask \in Accounts
  /\ session = NoOne /\ state = "idle" /\ signer = NoOne
  /\ conns = [k \in Conns |-> NoTask]
  /\ page = "login" /\ nav = NoOne
  /\ inits = [i \in Inits |-> NoInit]
  /\ calls = 0
  /\ origin = NoOrigin /\ strayNav = FALSE

-----------------------------------------------------------------------------
(* What handlers share.                                                     *)

Sent(n) == IF n < MaxCalls THEN n + 1 ELSE n

Outlive(ts, empty) ==
  [t \in DOMAIN ts |-> IF ts[t] = empty THEN empty ELSE [ts[t] EXCEPT !.old = TRUE]]

Clear == signer' = NoOne /\ origin' = NoOrigin

\* Faulty variant: the context left as it was.
ResetForgotten == UNCHANGED <<nav, strayNav>>

ResetToRoot == nav' = NoOne /\ strayNav' = FALSE

(* With no session there is nothing for connections to have outlived. *)
Logout ==
  /\ session' = NoOne /\ state' = "idle"
  /\ Clear /\ ResetToRoot
  /\ conns' = IF session = NoOne THEN conns ELSE Outlive(conns, NoTask)
  /\ inits' = IF session = NoOne THEN inits ELSE Outlive(inits, NoInit)
  /\ page' = "login"

Home(a) ==
  CASE Scope[a] = "EURoot" -> "member-states"
    [] Scope[a] = "MemberState" -> "government"
    [] OTHER -> "universities"

Links(a) == {Home(a)} \cup (IF Scope[a] = "MemberState" THEN {"enterprises"} ELSE {})

(* A member state's page keeps the context it finds when it is the session's own. *)
MustFetch(p, a, n) == Fetches[a] > 0 /\ (p = "universities" \/ (p = "government" /\ n # a))

(* The page p opens for the session of a, with the context n and the          *)
(* initialisations ts as they are then.                                       *)
Mount(p, a, n, ts) ==
  /\ page' = p
  /\ IF MustFetch(p, a, n)
     THEN /\ \E i \in Inits :
               /\ ts[i] = NoInit
               /\ inits' = [ts EXCEPT ![i] = [owner |-> a, left |-> Fetches[a], old |-> FALSE]]
          /\ ResetToRoot
          /\ UNCHANGED calls
     ELSE /\ inits' = ts
          /\ IF p = "member-states" \/ n = NoOne
             THEN ResetToRoot
             ELSE nav' = n /\ UNCHANGED strayNav
          /\ calls' = IF p = "government" /\ n = NoOne THEN calls ELSE Sent(calls)

Begin(k, kind, a) ==
  /\ conns[k] = NoTask
  /\ conns' = [conns EXCEPT ![k] = [NoTask EXCEPT !.kind = kind, !.at = "accounts",
                                                  !.account = a]]

-----------------------------------------------------------------------------
(* Connections.                                                             *)

LoggingIn(k) == conns[k].kind = "login"

LoginBegins(k) ==
  /\ page = "login" /\ state # "busy"
  /\ Begin(k, "login", NoOne)
  /\ state' = "busy"
  /\ UNCHANGED <<metamask, session, signer, page, nav, inits, calls, origin, strayNav>>

ConnectSigner(k) ==
  /\ session # NoOne /\ signer = NoOne /\ page # "login"
  /\ \A j \in Conns : conns[j].kind = "connect" => conns[j].old \/ page = "universities"
  /\ Begin(k, "connect", session)
  /\ UNCHANGED <<metamask, session, state, signer, page, nav, inits, calls, origin, strayNav>>

(* A failed login clears the signer and so does a failed restoration; a      *)
(* failed press of "Connect MetaMask" only says so.                          *)
Throws(k) ==
  /\ conns[k] # NoTask
  /\ conns' = [conns EXCEPT ![k] = NoTask]
  /\ state' = IF LoggingIn(k) THEN "idle" ELSE state
  /\ IF conns[k].kind = "connect" THEN UNCHANGED <<signer, origin>> ELSE Clear
  /\ UNCHANGED <<metamask, session, page, nav, inits, calls, strayNav>>

\* Faulty variant: whatever account is selected.
ExpectedAny(k, a) == a # NoOne

Expected(k, a) == a # NoOne /\ (LoggingIn(k) \/ a = conns[k].account)

AccountsAnswered(k) ==
  /\ conns[k].at = "accounts"
  /\ IF Expected(k, metamask)
     THEN /\ conns' = [conns EXCEPT ![k].at = "signer", ![k].account = metamask]
          /\ UNCHANGED <<metamask, session, state, signer, page, nav, inits, calls, origin,
                         strayNav>>
     ELSE Throws(k)

SignerGot(k) ==
  /\ conns[k].at = "signer"
  /\ signer' = conns[k].account
  /\ origin' = [by |-> IF LoggingIn(k) THEN k ELSE NoConn,
                stray |-> conns[k].old /\ session # NoOne]
  /\ conns' = [conns EXCEPT ![k] = IF LoggingIn(k) THEN [@ EXCEPT !.at = "challenge"]
                                   ELSE NoTask]
  /\ state' = IF LoggingIn(k) THEN "busy" ELSE state
  /\ UNCHANGED <<metamask, session, page, nav, inits, calls, strayNav>>

(* The nonce is signed by whoever is the signer when it arrives. *)
ChallengeAnswered(k) ==
  /\ conns[k].at = "challenge"
  /\ IF signer = NoOne
     THEN Throws(k)
     ELSE /\ conns' = [conns EXCEPT ![k].at = "sign", ![k].good = signer = conns[k].account]
          /\ state' = "busy"
          /\ UNCHANGED <<metamask, session, signer, page, nav, inits, calls, origin, strayNav>>

Signed(k) ==
  /\ conns[k].at = "sign"
  /\ conns' = [conns EXCEPT ![k].at = "verify"]
  /\ state' = "busy"
  /\ UNCHANGED <<metamask, session, signer, page, nav, inits, calls, origin, strayNav>>

(* The service has accepted the signature: a session begins.  Going to the    *)
(* home page opens it anew unless it is what is on display.                   *)
LoggedIn(k) ==
  /\ conns[k].at = "verify" /\ conns[k].good
  /\ LET a == conns[k].account
     IN  /\ session' = a /\ state' = "authenticated"
         /\ conns' = Outlive([conns EXCEPT ![k] = NoTask], NoTask)
         /\ origin' = [origin EXCEPT !.stray = signer # NoOne /\ origin.by # k]
         /\ IF page = Home(a)
            THEN /\ ResetToRoot
                 /\ inits' = Outlive(inits, NoInit)
                 /\ UNCHANGED <<page, calls>>
            ELSE Mount(Home(a), a, NoOne, Outlive(inits, NoInit))
  /\ UNCHANGED <<metamask, signer>>

-----------------------------------------------------------------------------
(* MetaMask's events; each clears the signer before AuthService hears of it. *)

AccountsChanged(a) ==
  /\ metamask' = a
  /\ IF session = NoOne
     THEN Clear /\ UNCHANGED <<session, state, conns, page, nav, inits, strayNav>>
     ELSE IF a # session
          THEN Logout
          ELSE /\ Clear
               /\ \E k \in Conns : Begin(k, "restore", session)
               /\ UNCHANGED <<session, state, page, nav, inits, strayNav>>
  /\ UNCHANGED calls

ChainChanged ==
  /\ Clear
  /\ UNCHANGED <<metamask, session, state, conns, page, nav, inits, calls, strayNav>>

Disconnect ==
  /\ IF session = NoOne
     THEN Clear /\ UNCHANGED <<session, state, conns, page, nav, inits, strayNav>>
     ELSE Logout
  /\ UNCHANGED <<metamask, calls>>

-----------------------------------------------------------------------------
(* Pages.                                                                   *)

PressLogout ==
  /\ session # NoOne /\ page # "login"
  /\ Logout
  /\ UNCHANGED <<metamask, calls>>

(* The guards look at the token's age, and send an old one to the login page  *)
(* without ending its session.                                                *)
GoTo(p) ==
  /\ session # NoOne /\ page # "login" /\ p \in Links(session)
  /\ \/ /\ page' = "login"
        /\ UNCHANGED <<nav, strayNav, inits, calls>>
     \/ p # page /\ Mount(p, session, nav, inits)
  /\ UNCHANGED <<metamask, session, state, signer, conns, origin>>

(* The page's next accreditation has come.  With the last one the context is  *)
(* selected and the lists are asked for, whether or not the page is still up. *)
Fetched(i) ==
  /\ inits[i] # NoInit
  /\ IF inits[i].left > 1
     THEN /\ inits' = [inits EXCEPT ![i].left = @ - 1]
          /\ UNCHANGED <<nav, strayNav, calls>>
     ELSE /\ inits' = [inits EXCEPT ![i] = NoInit]
          /\ nav' = inits[i].owner /\ strayNav' = inits[i].old
          /\ calls' = Sent(calls)
  /\ UNCHANGED <<metamask, session, state, signer, conns, page, origin>>

FetchFails(i) ==
  /\ inits[i] # NoInit
  /\ inits' = [inits EXCEPT ![i] = NoInit]
  /\ UNCHANGED <<metamask, session, state, signer, conns, page, nav, calls, origin, strayNav>>

Answered ==
  /\ calls > 0 /\ calls' = calls - 1
  /\ UNCHANGED <<metamask, session, state, signer, conns, page, nav, inits, origin, strayNav>>

Refused ==
  /\ calls > 0 /\ calls' = calls - 1
  /\ Logout
  /\ UNCHANGED metamask

(* A page submits something: the root's goes to the service, the others' to   *)
(* MetaMask first.  Without a signer the member state's and the ministry's    *)
(* pages end the session, the university's and the enterprises' only say so.  *)
SubmitFrom ==
  /\ session # NoOne /\ page # "login"
  /\ page \in {"government", "universities"} => nav # NoOne
  /\ IF page = "member-states" \/ signer # NoOne
     THEN /\ calls' = Sent(calls)
          /\ UNCHANGED <<session, state, signer, conns, page, nav, inits, origin, strayNav>>
     ELSE /\ page # "enterprises" /\ Scope[session] # "Institution"
          /\ Logout
          /\ UNCHANGED calls
  /\ UNCHANGED metamask

(* The tab is reloaded, at its own address or at the login page's.  The session *)
(* comes back from the tab's storage unless its token has expired.              *)
Reload ==
  /\ conns' = [k \in Conns |-> NoTask] /\ calls' = 0
  /\ session' = NoOne /\ state' = "idle" /\ Clear /\ ResetToRoot
  /\ page' = "login" /\ inits' = [i \in Inits |-> NoInit]
  /\ UNCHANGED metamask

ReloadKept(k, p) ==
  /\ session # NoOne /\ p \in {page, "login"}
  /\ conns' = [j \in Conns |-> IF j = k THEN [NoTask EXCEPT !.kind = "restore",
                                              !.at = "accounts", !.account = session]
                               ELSE NoTask]
  /\ state' = "authenticated" /\ Clear
  /\ IF p = "login"
     THEN /\ page' = p /\ ResetToRoot
          /\ inits' = [i \in Inits |-> NoInit] /\ calls' = 0
     ELSE \E i \in Inits :
            /\ page' = p /\ ResetToRoot
            /\ inits' = [j \in Inits |-> IF j = i /\ MustFetch(p, session, NoOne)
                                         THEN [owner |-> session, left |-> Fetches[session],
                                               old |-> FALSE]
                                         ELSE NoInit]
            /\ calls' = IF p \in {"government", "universities"} THEN 0 ELSE Sent(0)
  /\ UNCHANGED <<metamask, session>>

SessionNext ==
  \/ \E k \in Conns : \/ LoginBegins(k) \/ ConnectSigner(k) \/ Throws(k)
                      \/ AccountsAnswered(k) \/ SignerGot(k) \/ ChallengeAnswered(k)
                      \/ Signed(k) \/ LoggedIn(k)
                      \/ \E p \in Pages : ReloadKept(k, p)
  \/ \E a \in Accounts \cup {NoOne} : AccountsChanged(a)
  \/ \E p \in Pages : GoTo(p)
  \/ \E i \in Inits : Fetched(i) \/ FetchFails(i)
  \/ ChainChanged \/ Disconnect \/ PressLogout \/ Answered \/ Refused \/ SubmitFrom \/ Reload

SessionSpec == SessionInit /\ [][SessionNext]_sessVars

-----------------------------------------------------------------------------
(* Properties *)

(* Whoever signs is whose session it is.  No check says so where a transaction  *)
(* is signed: connections are only made for the session's account, and every    *)
(* change of account clears the signer.  The exceptions are a login in          *)
(* progress, and a connection that outlived the session it was begun for and    *)
(* set its signer under the next one.                                           *)
SignerIsTheSessions ==
  session # NoOne /\ signer \notin {NoOne, session}
    => origin.stray \/ \E k \in Conns : LoggingIn(k)

(* A page acts for the accreditation of the session's account.  The context is  *)
(* shared by all pages and survives them; the exception is an initialisation     *)
(* that outlived its session and selected the old one's context under the new.   *)
ContextIsTheSessions == session # NoOne /\ nav \notin {NoOne, session} => strayNav
=============================================================================
