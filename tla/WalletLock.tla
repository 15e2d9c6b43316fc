------------------------------ MODULE WalletLock ------------------------------
(***************************************************************************)
(* The two locks of the mobile wallet: the splash screen before the app    *)
(* (AuthContext, UnlockSplashScreen) and the lock of the Wallet tab        *)
(* (WalletScreen), both with biometrics or, on a device without, with the  *)
(* PIN that pinService keeps and counts wrong answers for.                 *)
(*                                                                         *)
(* A run of handleUnlock, handlePinDigit, tryBiometric or pressDigit is a  *)
(* check; it goes on at its awaits whatever happens to its screen, and     *)
(* several may be under way.  Time is relative: cool and timers count down *)
(* with Tick, and the clock is taken not to be set back.                   *)
(*                                                                         *)
(* Left out: the digits, of which a check has six; the error texts and     *)
(* animations; the session flag that authService writes and clears, which  *)
(* nothing reads; signOut, which nothing calls; changes of the enrolled    *)
(* biometrics while the app runs.                                          *)
(***************************************************************************)
EXTENDS Naturals, FiniteSets

CONSTANTS
  Checks,       \* checks that may be under way at once
  CoolAt,       \* MAX_FAILURES_BEFORE_COOLDOWN
  WipeAt,       \* MAX_FAILURES_BEFORE_WIPE_OFFER
  Cooldown,     \* COOLDOWN_MS, in ticks
  MaxHandlers,  \* bound on runs of the background handler at once
  MaxFailures   \* bound: from WipeAt on the count makes no difference

ASSUME LockAssumption ==
  /\ {CoolAt, WipeAt, Cooldown, MaxHandlers, MaxFailures} \subseteq Nat
  /\ 0 < CoolAt /\ CoolAt < WipeAt /\ WipeAt < MaxFailures
  /\ 0 < Cooldown
  /\ IsFiniteSet(Checks)

VARIABLES
  created,      \* SecureStore: a finished wallet with a profile is there
  pin,          \* SecureStore: the PIN's algorithm, salt and hash
  failures,     \* SecureStore: pin.failures
  cool,         \* SecureStore: ticks until pin.lockedUntil, 0 when past or absent
  biometric,    \* the device has biometrics enrolled
  foreground,
  app,          \* AuthContext: state, or "off"
  hasWallet,    \* AuthContext: hasWallet
  refs,         \* AuthContext: what stateRef and hasWalletRef hold
  clearing,     \* runs of the background handler waiting for clearSession
  splash,       \* UnlockSplashScreen
  tab,          \* WalletScreen with its LockScreen
  timers,       \* ticks until the LockScreen enables its keypad again
  checks,
  answered,     \* history: wrong answers since the last right one, or Lost
  late          \* history: the app's door opened behind the background handler's back

stored == <<created, pin, failures, cool>>
authVars == <<app, hasWallet, refs, clearing>>
screens == <<splash, tab, timers>>
history == <<answered, late>>
lockVars == <<stored, biometric, foreground, authVars, screens, checks, history>>

Lost == MaxFailures + 1   \* an answer was counted across another check, or cut off
Idle == [door |-> "none", phase |-> "idle", right |-> FALSE, seen |-> 0,
         home |-> "void"]
PinPhases == {"status", "hash", "reset", "unlock", "count", "cool", "told", "clear", "clear2"}
NoSplash == [timer |-> FALSE, loading |-> FALSE, pin |-> FALSE]
NoTab == [focused |-> FALSE, mode |-> "none", unlocked |-> FALSE, locked |-> FALSE]

LockTypeOK ==
  /\ created \in BOOLEAN /\ biometric \in BOOLEAN /\ foreground \in BOOLEAN
  /\ hasWallet \in BOOLEAN
  /\ pin \in {"none", "current", "old", "orphan"}
  /\ failures \in 0 .. MaxFailures
  /\ cool \in 0 .. Cooldown
  /\ app \in {"off", "loading", "unauthenticated", "authenticated"}
  /\ refs \in [authenticated : BOOLEAN, hasWallet : BOOLEAN]
  /\ clearing \in 0 .. MaxHandlers
  /\ splash \in [timer : BOOLEAN, loading : BOOLEAN, pin : BOOLEAN]
  /\ tab \in [focused : BOOLEAN, mode : {"none", "checking", "biometric", "pin"},
              unlocked : BOOLEAN, locked : BOOLEAN]
  /\ timers \subseteq 0 .. Cooldown
  /\ checks \in [Checks ->
       [door : {"none", "app", "wallet"},
        phase : {"idle", "prompt", "passed"} \cup PinPhases,
        right : BOOLEAN, seen : 0 .. MaxFailures, home : {"here", "gone", "void"}]]
  /\ answered \in 0 .. Lost
  /\ late \in BOOLEAN

LockInit ==
  /\ created \in BOOLEAN
  /\ pin \in IF created THEN {"current", "old"} ELSE {"none"}
  /\ failures = 0 /\ cool = 0
  /\ biometric \in BOOLEAN
  /\ foreground = TRUE
  /\ app = "off" /\ hasWallet = FALSE
  /\ refs = [authenticated |-> FALSE, hasWallet |-> FALSE]
  /\ clearing = 0
  /\ splash = NoSplash /\ tab = NoTab /\ timers = {}
  /\ checks = [c \in Checks |-> Idle]
  /\ answered = 0 /\ late = FALSE

-----------------------------------------------------------------------------
(* Checks *)

Begin(c, door, phase, right) ==
  /\ checks[c] = Idle
  /\ checks' = [checks EXCEPT ![c] =
       [door |-> door, phase |-> phase, right |-> right, seen |-> 0, home |-> "here"]]
GoTo(c, p) == checks' = [checks EXCEPT ![c].phase = p]
Forget(c, p) == checks' = [checks EXCEPT ![c] = [@ EXCEPT !.phase = p, !.right = FALSE,
                                                          !.seen = 0]]
At(c, p) == checks[c].phase = p

\* Faulty variant: no finally.
OverStaysBusy(c) == checks' = [checks EXCEPT ![c] = Idle] /\ UNCHANGED splash

(* When a check of the splash screen ends, its finally block frees the screen,  *)
(* if that is still the one that is up.                                         *)
Over(c) ==
  /\ checks' = [checks EXCEPT ![c] = Idle]
  /\ splash' = IF checks[c].door = "app" /\ checks[c].home = "here" THEN [splash EXCEPT !.loading = FALSE] ELSE splash

(* A check whose screen has been replaced still opens the door, but for one *)
(* of the Wallet tab's when the tabs have been taken down.                  *)
Rehomed(door, home) ==
  [c \in Checks |-> IF checks[c].door = door /\ checks[c].home # "void"
                    THEN [checks[c] EXCEPT !.home = home] ELSE checks[c]]
-----------------------------------------------------------------------------
(* AuthContext *)

Launch ==
  /\ app = "off"
  /\ app' = "loading"
  /\ foreground' = TRUE
  /\ UNCHANGED <<stored, biometric, hasWallet, refs, clearing, screens, checks, history>>

StoredWallet == created

Startup ==
  /\ app = "loading"
  /\ app' = "unauthenticated"
  /\ hasWallet' = StoredWallet
  /\ splash' = [NoSplash EXCEPT !.timer = StoredWallet]
  /\ UNCHANGED <<stored, biometric, foreground, refs, clearing, tab, timers, checks, history>>

(* The effects that follow a render bring the refs up to date. *)
Effects ==
  /\ app # "off"
  /\ LET new == [authenticated |-> app = "authenticated",
                 hasWallet |-> hasWallet]
     IN refs # new /\ refs' = new
  /\ UNCHANGED <<stored, biometric, foreground, app, hasWallet, clearing, screens, checks, history>>

(* The handler looks at the refs only; what it awaits comes back later. *)
\* Faulty variant: "loading", the state of the render that made the handler.
LocksByClosure == FALSE
Locks == refs.hasWallet /\ refs.authenticated

Background ==
  /\ app # "off" /\ foreground
  /\ foreground' = FALSE
  /\ IF Locks
     THEN clearing < MaxHandlers /\ clearing' = clearing + 1 /\ UNCHANGED late
     ELSE /\ late' = (app = "authenticated" /\ ~refs.authenticated)
          /\ UNCHANGED clearing
  /\ UNCHANGED <<stored, biometric, app, hasWallet, refs, screens, checks, answered>>

Foreground ==
  /\ app # "off" /\ ~foreground
  /\ foreground' = TRUE
  /\ late' = FALSE
  /\ UNCHANGED <<stored, biometric, authVars, screens, checks, answered>>

\* Faulty variant: lock state kept above the tabs.
TabsStay == tab' = tab /\ timers' = timers /\ checks' = Rehomed("wallet", "void")
TabsDown == tab' = NoTab /\ timers' = {} /\ checks' = Rehomed("wallet", "void")

SetUnauthenticated ==
  /\ clearing > 0
  /\ clearing' = clearing - 1
  /\ app' = "unauthenticated"
  /\ IF app = "authenticated"
     THEN TabsDown /\ splash' = [NoSplash EXCEPT !.timer = TRUE]
     ELSE UNCHANGED <<screens, checks>>
  /\ late' = FALSE
  /\ UNCHANGED <<stored, biometric, foreground, hasWallet, refs, answered>>

OnAuthenticated(c) ==
  /\ At(c, "passed") /\ checks[c].door = "app"
  /\ app' = "authenticated" /\ hasWallet' = TRUE
  /\ splash' = NoSplash
  /\ checks' = [Rehomed("app", "gone") EXCEPT ![c] = Idle]
  /\ late' = ~foreground
  /\ UNCHANGED <<stored, biometric, foreground, refs, clearing, tab, timers, answered>>

(* The wizard stores the PIN and the wallet, then reports its completion. *)
CompleteWalletSetup(c) ==
  /\ app = "unauthenticated" /\ ~hasWallet /\ ~created
  /\ Begin(c, "app", "passed", FALSE)
  /\ created' = TRUE
  /\ pin' = "current"
  /\ UNCHANGED <<failures, cool, biometric, foreground, authVars, screens, history>>

(* The system ends the app: what is not in SecureStore is gone. *)
Kill ==
  /\ app # "off"
  /\ app' = "off" /\ hasWallet' = FALSE /\ foreground' = TRUE
  /\ refs' = [authenticated |-> FALSE, hasWallet |-> FALSE]
  /\ clearing' = 0
  /\ splash' = NoSplash /\ tab' = NoTab /\ timers' = {}
  /\ checks' = [c \in Checks |-> Idle]
  /\ answered' = IF \E c \in Checks : At(c, "count") THEN Lost ELSE answered
  /\ late' = FALSE
  /\ UNCHANGED <<stored, biometric>>

Tick ==
  /\ cool > 0 \/ timers \ {0} # {}
  /\ cool' = IF cool > 0 THEN cool - 1 ELSE 0
  /\ timers' = {IF t > 0 THEN t - 1 ELSE 0 : t \in timers}
  /\ UNCHANGED <<created, pin, failures, biometric, foreground, authVars, splash, tab, checks,
                 history>>
-----------------------------------------------------------------------------
(* UnlockSplashScreen *)

OnSplash == app = "unauthenticated" /\ hasWallet

(* handleUnlock prompts, or shows the keypad on a device without biometrics. *)
HandleUnlock(c) ==
  IF biometric
  THEN Begin(c, "app", "prompt", FALSE) /\ splash' = [splash EXCEPT !.loading = TRUE,
                                                                           !.timer = FALSE]
  ELSE UNCHANGED checks /\ splash' = [splash EXCEPT !.pin = TRUE, !.timer = FALSE]

(* The timer runs the handleUnlock of the first render, which saw loading unset. *)
AutoPrompt(c) ==
  /\ OnSplash /\ splash.timer
  /\ HandleUnlock(c)
  /\ UNCHANGED <<stored, biometric, foreground, authVars, tab, timers, history>>

PressUnlock(c) ==
  /\ OnSplash /\ foreground /\ ~splash.pin /\ ~splash.loading
  /\ IF biometric
     THEN /\ Begin(c, "app", "prompt", FALSE)
          /\ splash' = [splash EXCEPT !.loading = TRUE]
     ELSE splash' = [splash EXCEPT !.pin = TRUE] /\ UNCHANGED checks
  /\ UNCHANGED <<stored, biometric, foreground, authVars, tab, timers, history>>

(* The keypad is disabled while a check is under way; typing six digits *)
(* takes longer than the timer.                                         *)
KeypadShown == splash.pin /\ ~splash.timer
KeypadReady == KeypadShown /\ ~splash.loading

HandlePinDigit(c, right) ==
  /\ OnSplash /\ foreground /\ KeypadReady
  /\ Begin(c, "app", "status", right)
  /\ splash' = [splash EXCEPT !.loading = TRUE]
  /\ UNCHANGED <<stored, biometric, foreground, authVars, tab, timers, history>>

(* A prompt is answered, or given up; leaving the app cancels it. *)
PromptSucceeds(c) ==
  /\ At(c, "prompt") /\ foreground
  /\ GoTo(c, "passed")
  /\ UNCHANGED <<stored, biometric, foreground, authVars, screens, history>>

PromptFails(c) ==
  /\ At(c, "prompt")
  /\ Over(c)
  /\ UNCHANGED <<stored, biometric, foreground, authVars, tab, timers, history>>
-----------------------------------------------------------------------------
(* pinService.verifyPin *)

CoolsDown(n) == CoolAt <= n /\ n < WipeAt
Counted(n) == IF n < MaxFailures THEN n + 1 ELSE n

HasPin == pin # "none"
IsLocked == cool > 0

(* Two answers are counted one across the other. *)
Overlaps(c) == \E d \in Checks \ {c} :
  /\ checks[d].phase \in PinPhases \ {"status"}
  /\ "wallet" \in {checks[c].door, checks[d].door}

GetStatus(c) ==
  /\ At(c, "status")
  /\ answered' = IF Overlaps(c) THEN Lost ELSE answered
  /\ IF IsLocked \/ ~HasPin THEN Over(c)
     ELSE /\ checks' = [checks EXCEPT ![c].phase = IF pin = "old" THEN "clear" ELSE "hash",
                                      ![c].seen = failures]
          /\ UNCHANGED splash
  /\ UNCHANGED <<stored, biometric, foreground, authVars, tab, timers, late>>

(* A PIN hashed by another algorithm is never matched. *)
Matches(c) == checks[c].right /\ pin = "current"

DerivePinHash(c) ==
  /\ At(c, "hash")
  /\ IF Matches(c)
     THEN Forget(c, "reset") /\ UNCHANGED answered
     ELSE GoTo(c, "count") /\ answered' = IF answered = Lost THEN Lost ELSE Counted(answered)
  /\ UNCHANGED <<stored, biometric, foreground, authVars, screens, late>>

Afresh(c) == IF \E d \in Checks \ {c} : checks[d].phase \in PinPhases THEN Lost ELSE 0

ResetFailures(c) ==
  /\ At(c, "reset")
  /\ failures' = 0 /\ answered' = Afresh(c)
  /\ GoTo(c, "unlock")
  /\ UNCHANGED <<created, pin, cool, biometric, foreground, authVars, screens, late>>

DeleteLockedUntil(c) ==
  /\ At(c, "unlock")
  /\ cool' = 0
  /\ GoTo(c, "passed")
  /\ UNCHANGED <<created, pin, failures, biometric, foreground, authVars, screens, history>>

CountFailure(c) ==
  /\ At(c, "count")
  /\ failures' = Counted(checks[c].seen)
  /\ Forget(c, IF CoolsDown(failures') THEN "cool" ELSE "told")
  /\ UNCHANGED <<created, pin, cool, biometric, foreground, authVars, screens, history>>

SetLockedUntil(c) ==
  /\ At(c, "cool")
  /\ cool' = Cooldown
  /\ GoTo(c, "told")
  /\ UNCHANGED <<created, pin, failures, biometric, foreground, authVars, screens, history>>

(* The screen looks at the status again; the Wallet tab's disables its keypad. *)
TellWrong(c) ==
  /\ At(c, "told")
  /\ Over(c)
  /\ IF checks[c].home = "here" /\ checks[c].door = "wallet" /\ cool > 0
     THEN tab' = [tab EXCEPT !.locked = TRUE] /\ timers' = timers \cup {cool}
     ELSE UNCHANGED <<tab, timers>>
  /\ UNCHANGED <<stored, biometric, foreground, authVars, history>>

(* clearPin deletes the algorithm, then the rest; in between, the hash is *)
(* left to be compared with one of the current algorithm.                 *)
ClearPin(c) ==
  \/ /\ At(c, "clear")
     /\ pin' = IF pin = "old" THEN "orphan" ELSE pin
     /\ GoTo(c, "clear2")
     /\ UNCHANGED <<failures, cool, answered, splash>>
  \/ /\ At(c, "clear2")
     /\ pin' = "none" /\ failures' = 0 /\ cool' = 0 /\ answered' = Afresh(c)
     /\ Over(c)

ClearPinStep(c) ==
  /\ ClearPin(c)
  /\ UNCHANGED <<created, biometric, foreground, authVars, tab, timers, late>>
-----------------------------------------------------------------------------
(* WalletScreen and its LockScreen.  The tabs of an organisation's wallet   *)
(* have no Wallet tab; nothing of what follows happens there.              *)

InTabs == app = "authenticated" /\ foreground

(* Focusing locks; a LockScreen that was there stays as it was. *)
Relocked == [tab EXCEPT !.unlocked = FALSE,
                        !.mode = IF tab.unlocked \/ tab.mode = "none" THEN "checking" ELSE @,
                        !.locked = IF tab.unlocked THEN FALSE ELSE @]

Focus ==
  /\ InTabs /\ ~tab.focused
  /\ tab' = [Relocked EXCEPT !.focused = TRUE]
  /\ UNCHANGED <<stored, biometric, foreground, authVars, splash, timers, checks, history>>

Blur ==
  /\ InTabs /\ tab.focused
  /\ tab' = [tab EXCEPT !.focused = FALSE]
  /\ UNCHANGED <<stored, biometric, foreground, authVars, splash, timers, checks, history>>

PressLock ==
  /\ InTabs /\ tab.focused /\ tab.unlocked
  /\ tab' = Relocked
  /\ UNCHANGED <<stored, biometric, foreground, authVars, splash, timers, checks, history>>

Detect(c) ==
  /\ tab.mode = "checking" /\ ~tab.unlocked
  /\ tab' = [tab EXCEPT !.mode = IF biometric THEN "biometric" ELSE "pin"]
  /\ IF biometric THEN Begin(c, "wallet", "prompt", FALSE) ELSE UNCHANGED checks
  /\ UNCHANGED <<stored, biometric, foreground, authVars, splash, timers, history>>

LockShown == InTabs /\ tab.focused /\ ~tab.unlocked

TryBiometric(c) ==
  /\ LockShown /\ tab.mode = "biometric"
  /\ Begin(c, "wallet", "prompt", FALSE)
  /\ UNCHANGED <<stored, biometric, foreground, authVars, screens, history>>

LockKeypadReady == LockShown /\ tab.mode = "pin" /\ ~tab.locked

(* Nothing keeps the digits from being changed and sent while a check runs. *)
PressDigit(c, right) ==
  /\ LockKeypadReady
  /\ Begin(c, "wallet", "status", right)
  /\ UNCHANGED <<stored, biometric, foreground, authVars, screens, history>>

OnUnlock(c) ==
  /\ At(c, "passed") /\ checks[c].door = "wallet"
  /\ IF checks[c].home # "void"
     THEN /\ tab' = [tab EXCEPT !.unlocked = TRUE]
          /\ timers' = {}
          /\ checks' = [Rehomed("wallet", "gone") EXCEPT ![c] = Idle]
     ELSE checks' = [checks EXCEPT ![c] = Idle] /\ UNCHANGED <<tab, timers>>
  /\ UNCHANGED <<stored, biometric, foreground, authVars, splash, history>>

EnableKeypad ==
  /\ 0 \in timers
  /\ timers' = timers \ {0}
  /\ tab' = [tab EXCEPT !.locked = FALSE]
  /\ UNCHANGED <<stored, biometric, foreground, authVars, splash, checks, history>>
-----------------------------------------------------------------------------
CheckStep(c) ==
  \/ PromptFails(c)
  \/ GetStatus(c) \/ DerivePinHash(c)
  \/ ResetFailures(c) \/ DeleteLockedUntil(c)
  \/ CountFailure(c) \/ SetLockedUntil(c) \/ TellWrong(c)
  \/ ClearPinStep(c)
  \/ OnAuthenticated(c) \/ OnUnlock(c)

LockNext ==
  \/ Launch \/ Startup \/ Effects
  \/ Background \/ Foreground \/ SetUnauthenticated
  \/ Kill \/ Tick
  \/ Focus \/ Blur \/ PressLock \/ EnableKeypad
  \/ \E c \in Checks :
       \/ CheckStep(c)
       \/ CompleteWalletSetup(c)
       \/ AutoPrompt(c) \/ PressUnlock(c) \/ PromptSucceeds(c)
       \/ Detect(c) \/ TryBiometric(c)
       \/ \E right \in BOOLEAN : HandlePinDigit(c, right) \/ PressDigit(c, right)

LockSpec == LockInit /\ [][LockNext]_lockVars
-----------------------------------------------------------------------------
(* Properties *)

(* Each wrong PIN is in the count the cool-down and the offer to wipe go   *)
(* by, whichever screen asked for it and whatever else went on, unless two *)
(* checks of the Wallet tab's keypad (or one of them and one of the splash *)
(* screen's) ran across each other, or the app was killed before the write.*)
CountLostOnlyToOverlap ==
  (answered # Lost /\ \A c \in Checks : ~At(c, "count")) => failures = answered

(* Leaving the app locks it.  What is open in the background once the      *)
(* handlers are through was opened there, by a check or a setup that came  *)
(* to its end late, or before the refs had followed.                       *)
LeftOpenOnlyLate ==
  (app = "authenticated" /\ ~foreground /\ clearing = 0) => late

(* Both locks follow the abstract doors: each opening uses up a proof that *)
(* was given for this door and, for the wallet, since these tabs are up.   *)
Promised == INSTANCE Doors WITH
  open <- (IF app = "authenticated" THEN {"app"} ELSE {})
            \cup (IF tab.unlocked THEN {"wallet"} ELSE {}),
  proofs <- [d \in {"app", "wallet"} |->
               Cardinality({c \in Checks : checks[c].door = d /\ At(c, "passed")
                                            /\ (d = "wallet" => checks[c].home # "void")})]
ImplementsDoors == Promised!DoorSpec

(* The system runs what is due; the owner comes back to the app, presses   *)
(* what can be pressed, and again and again gives the right answer.        *)
LockFairness ==
  /\ WF_lockVars(Launch \/ Startup) /\ WF_lockVars(Foreground) /\ WF_lockVars(Tick)
  /\ \A c \in Checks : WF_lockVars(CheckStep(c))
  /\ WF_lockVars(\E c \in Checks : AutoPrompt(c))
  /\ SF_lockVars(\E c \in Checks : PressUnlock(c))
  /\ SF_lockVars(\E c \in Checks : PromptSucceeds(c))
  /\ SF_lockVars(\E c \in Checks : HandlePinDigit(c, TRUE))

LockFairSpec == LockSpec /\ LockFairness

(* An owner with biometrics or a PIN of the current algorithm gets in,     *)
(* however many wrong PINs were tried before and however the app is sent   *)
(* to the background, unless the system keeps killing it.                  *)
Admissible == biometric \/ pin = "current"
OwnerGetsIn ==
  (<>[][~Kill]_lockVars) => (created /\ Admissible ~> app = "authenticated")
=============================================================================
