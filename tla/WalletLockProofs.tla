---------------------------- MODULE WalletLockProofs ----------------------------
(***************************************************************************)
(* Proofs about WalletLock, for any number of checks under way at once and *)
(* any bounds of the cool-down, the offer to wipe and the count.           *)
(*                                                                         *)
(* LockInv has a part for each thing that keeps a door shut.  AppInv: the  *)
(* splash screen has one check at a time, for its keypad is for devices    *)
(* without biometrics and disabled meanwhile.  TabsInv: the Wallet tab and *)
(* its checks go with the tabs.  LateInv: the handler's refs never say     *)
(* that the app is open without a wallet.  CountInv: until an answer is    *)
(* lost one check at most is being counted, from the count as it is.       *)
(*                                                                         *)
(* The refinement maps a check that has passed and not opened its door yet *)
(* to a proof given to the abstract door.                                  *)
(***************************************************************************)
EXTENDS WalletLock, FiniteSetTheorems, TLAPS

DoorsOfChecks == {"none", "app", "wallet"}
Phases == {"idle", "prompt", "passed"} \cup PinPhases
CheckRecord == [door : DoorsOfChecks, phase : Phases, right : BOOLEAN,
                seen : 0 .. MaxFailures, home : {"here", "gone", "void"}]
SplashRecord == [timer : BOOLEAN, loading : BOOLEAN, pin : BOOLEAN]
TabRecord == [focused : BOOLEAN, mode : {"none", "checking", "biometric", "pin"},
              unlocked : BOOLEAN, locked : BOOLEAN]
RefRecord == [authenticated : BOOLEAN, hasWallet : BOOLEAN]

LockTypes ==
  /\ created \in BOOLEAN /\ biometric \in BOOLEAN /\ foreground \in BOOLEAN
  /\ hasWallet \in BOOLEAN
  /\ pin \in {"none", "current", "old", "orphan"}
  /\ failures \in 0 .. MaxFailures
  /\ cool \in 0 .. Cooldown
  /\ app \in {"off", "loading", "unauthenticated", "authenticated"}
  /\ refs \in RefRecord
  /\ clearing \in 0 .. MaxHandlers
  /\ splash \in SplashRecord
  /\ tab \in TabRecord
  /\ timers \subseteq 0 .. Cooldown
  /\ checks \in [Checks -> CheckRecord]
  /\ answered \in 0 .. Lost
  /\ late \in BOOLEAN

\* The type invariant, with the records it is about named.
LEMMA LockTypesMean == LockTypeOK <=> LockTypes
  BY DEF LockTypeOK, LockTypes, CheckRecord, SplashRecord, TabRecord, RefRecord, DoorsOfChecks,
         Phases

\* The bounds are natural numbers, and the counters start within them.
LEMMA LockBounds ==
  /\ CoolAt \in Nat /\ WipeAt \in Nat /\ Cooldown \in Nat
  /\ MaxHandlers \in Nat /\ MaxFailures \in Nat
  /\ 0 < CoolAt /\ CoolAt < WipeAt /\ WipeAt < MaxFailures /\ 0 < Cooldown
  /\ 0 \in 0 .. MaxFailures /\ 0 \in 0 .. Cooldown /\ 0 \in 0 .. MaxHandlers
  /\ 0 \in 0 .. Lost /\ Lost \in 0 .. Lost /\ Cooldown \in 0 .. Cooldown
<1>1. /\ CoolAt \in Nat /\ WipeAt \in Nat /\ Cooldown \in Nat
      /\ MaxHandlers \in Nat /\ MaxFailures \in Nat
      /\ 0 < CoolAt /\ CoolAt < WipeAt /\ WipeAt < MaxFailures /\ 0 < Cooldown
  BY LockAssumption
<1> QED
  BY <1>1 DEF Lost

\* The values the app starts from are of their types.
LEMMA LockBlanks ==
  /\ Idle \in CheckRecord /\ NoSplash \in SplashRecord /\ NoTab \in TabRecord
  /\ [authenticated |-> FALSE, hasWallet |-> FALSE] \in RefRecord
  BY LockBounds DEF Idle, CheckRecord, NoSplash, SplashRecord, NoTab, TabRecord, RefRecord,
     DoorsOfChecks, Phases

-----------------------------------------------------------------------------
(* What the operators of checks do *)

\* The check c becomes r and the others stay.
CheckTo(c, r) ==
  /\ r \in CheckRecord
  /\ checks' \in [Checks -> CheckRecord]
  /\ checks'[c] = r
  /\ \A d \in Checks \ {c} : checks'[d] = checks[d]

\* A check set to a record becomes it, and the others stay.
LEMMA CheckToEffect ==
  ASSUME LockTypes, NEW c \in Checks, NEW r \in CheckRecord,
         checks' = [checks EXCEPT ![c] = r]
  PROVE  CheckTo(c, r)
  BY DEF CheckTo, LockTypes

\* A check begins in a free place, on the screen that is up.
LEMMA LockBeginEffect ==
  ASSUME LockTypes, NEW c \in Checks, NEW door \in DoorsOfChecks, NEW p \in Phases,
         NEW right \in BOOLEAN, Begin(c, door, p, right)
  PROVE  /\ checks[c] = Idle
         /\ \E r \in CheckRecord :
              /\ CheckTo(c, r)
              /\ r.door = door /\ r.phase = p /\ r.home = "here"
<1> DEFINE r == [door |-> door, phase |-> p, right |-> right, seen |-> 0, home |-> "here"]
<1>1. r \in CheckRecord
  BY LockBounds DEF CheckRecord
<1>2. r.door = door /\ r.phase = p /\ r.home = "here"
  OBVIOUS
<1>3. checks[c] = Idle /\ checks' = [checks EXCEPT ![c] = r]
  BY DEF Begin
<1> HIDE DEF r
<1> QED
  BY <1>1, <1>2, <1>3, CheckToEffect

\* The steps that begin a check, by its door, and those that carry it on.
AppBegins(c) ==
  \/ CompleteWalletSetup(c) \/ AutoPrompt(c) \/ PressUnlock(c)
  \/ \E right \in BOOLEAN : HandlePinDigit(c, right)
WalletBegins(c) ==
  \/ Detect(c) \/ TryBiometric(c)
  \/ \E right \in BOOLEAN : PressDigit(c, right)
Continues(c) ==
  \/ PromptSucceeds(c) \/ PromptFails(c) \/ GetStatus(c) \/ DerivePinHash(c)
  \/ ResetFailures(c) \/ DeleteLockedUntil(c)
  \/ CountFailure(c) \/ SetLockedUntil(c) \/ TellWrong(c) \/ ClearPinStep(c)

\* A check of the app's door begins, but for a press on a device without biometrics.
LEMMA AppCheckBegins ==
  ASSUME LockTypes, NEW c \in Checks,
         AppBegins(c)
  PROVE  \/ ~biometric /\ checks' = checks /\ (AutoPrompt(c) \/ PressUnlock(c))
         \/ /\ checks[c] = Idle
            /\ \E r \in CheckRecord :
                 /\ CheckTo(c, r)
                 /\ r.door = "app" /\ r.home = "here" /\ r.phase # "idle"
                 /\ r.phase \in PinPhases => \E right \in BOOLEAN : HandlePinDigit(c, right)
<1>1. "app" \in DoorsOfChecks /\ {"passed", "prompt", "status"} \subseteq Phases
  BY DEF DoorsOfChecks, Phases, PinPhases
<1>2. "passed" \notin PinPhases /\ "prompt" \notin PinPhases
  BY DEF PinPhases
<1>3. ASSUME NEW p \in {"passed", "prompt"}, Begin(c, "app", p, FALSE)
      PROVE  /\ checks[c] = Idle
             /\ \E r \in CheckRecord :
                  /\ CheckTo(c, r)
                  /\ r.door = "app" /\ r.home = "here" /\ r.phase # "idle"
                  /\ r.phase \notin PinPhases
  <2>1. p \in Phases /\ p # "idle" /\ p \notin PinPhases
    BY <1>1, <1>2
  <2>2. /\ checks[c] = Idle
        /\ \E r \in CheckRecord :
             /\ CheckTo(c, r)
             /\ r.door = "app" /\ r.phase = p /\ r.home = "here"
    <3>1. PICK right \in BOOLEAN : Begin(c, "app", p, right)
      BY <1>3 DEF Begin
    <3> QED
      BY <1>1, <2>1, <3>1, LockBeginEffect
  <2> QED
    BY <2>1, <2>2
<1>4. CASE CompleteWalletSetup(c)
  BY <1>3, <1>4 DEF CompleteWalletSetup
<1>5. CASE AutoPrompt(c) \/ PressUnlock(c)
  <2>1. Begin(c, "app", "prompt", FALSE) \/ (~biometric /\ checks' = checks)
    BY <1>5 DEF AutoPrompt, PressUnlock, HandleUnlock
  <2>2. CASE Begin(c, "app", "prompt", FALSE)
    BY <1>3, <2>2
  <2> QED
    BY <1>5, <2>1, <2>2
<1>6. CASE \E right \in BOOLEAN : HandlePinDigit(c, right)
  <2>1. PICK right \in BOOLEAN : Begin(c, "app", "status", right)
    BY <1>6 DEF HandlePinDigit
  <2> QED
    BY <1>1, <1>6, <2>1, LockBeginEffect
<1> QED
  BY <1>4, <1>5, <1>6 DEF AppBegins

\* A check of the Wallet tab begins, but for the keypad that is shown without biometrics.
LEMMA WalletCheckBegins ==
  ASSUME LockTypes, NEW c \in Checks,
         WalletBegins(c)
  PROVE  \/ checks' = checks
         \/ /\ checks[c] = Idle
            /\ \E r \in CheckRecord :
                 CheckTo(c, r) /\ r.door = "wallet" /\ r.phase \in {"prompt", "status"}
<1>1. "wallet" \in DoorsOfChecks /\ {"prompt", "status"} \subseteq Phases
  BY DEF DoorsOfChecks, Phases, PinPhases
<1>2. CASE Detect(c) \/ TryBiometric(c)
  <2>1. Begin(c, "wallet", "prompt", FALSE) \/ checks' = checks
    BY <1>2 DEF Detect, TryBiometric
  <2>2. CASE Begin(c, "wallet", "prompt", FALSE)
    <3>1. /\ checks[c] = Idle
          /\ \E r \in CheckRecord :
               /\ CheckTo(c, r)
               /\ r.door = "wallet" /\ r.phase = "prompt" /\ r.home = "here"
      <4>1. PICK right \in BOOLEAN : Begin(c, "wallet", "prompt", right)
        BY <2>2 DEF Begin
      <4> QED
        BY <1>1, <4>1, LockBeginEffect
    <3> QED
      BY <3>1
  <2> QED
    BY <2>1, <2>2
<1>3. CASE \E right \in BOOLEAN : PressDigit(c, right)
  BY <1>1, <1>3, LockBeginEffect DEF PressDigit
<1> QED
  BY <1>2, <1>3 DEF WalletBegins

\* A check that goes on changes in its phase only.
LEMMA GoToEffect ==
  ASSUME LockTypes, NEW c \in Checks, NEW p \in Phases, GoTo(c, p)
  PROVE  CheckTo(c, [checks[c] EXCEPT !.phase = p])
<1>1. [checks[c] EXCEPT !.phase = p] \in CheckRecord
  BY DEF LockTypes, CheckRecord
<1>2. checks' = [checks EXCEPT ![c] = [checks[c] EXCEPT !.phase = p]]
  BY DEF GoTo, LockTypes, CheckRecord
<1> QED
  BY <1>1, <1>2, CheckToEffect

\* The answer and the count that was read are forgotten with it.
LEMMA ForgetEffect ==
  ASSUME LockTypes, NEW c \in Checks, NEW p \in Phases, Forget(c, p)
  PROVE  CheckTo(c, [checks[c] EXCEPT !.phase = p, !.right = FALSE, !.seen = 0])
<1> DEFINE r == [checks[c] EXCEPT !.phase = p, !.right = FALSE, !.seen = 0]
<1>0. checks[c] \in CheckRecord /\ 0 \in 0 .. MaxFailures
  BY LockBounds DEF LockTypes
<1>1. r \in CheckRecord
  BY <1>0 DEF CheckRecord
<1>2. checks' = [checks EXCEPT ![c] = r]
  BY DEF Forget, LockTypes
<1> HIDE DEF r
<1>3. CheckTo(c, r)
  BY <1>1, <1>2, CheckToEffect
<1> QED
  BY <1>3 DEF r

\* A check is over; only one of the splash screen that is up changes the screen.
LEMMA OverEffect ==
  ASSUME LockTypes, NEW c \in Checks, Over(c)
  PROVE  /\ CheckTo(c, Idle)
         /\ splash' \in SplashRecord
         /\ splash'.timer = splash.timer /\ splash'.pin = splash.pin
         /\ splash' = splash \/ splash' = [splash EXCEPT !.loading = FALSE]
         /\ (checks[c].door = "app" /\ checks[c].home = "here")
              => splash' = [splash EXCEPT !.loading = FALSE]
         /\ ~(checks[c].door = "app" /\ checks[c].home = "here") => splash' = splash
<1>1. CheckTo(c, Idle)
  BY LockBlanks, CheckToEffect DEF Over
<1>2. splash \in SplashRecord
  BY DEF LockTypes
<1>3. [splash EXCEPT !.loading = FALSE] \in SplashRecord
  BY <1>2 DEF SplashRecord
<1> QED
  BY <1>1, <1>2, <1>3 DEF Over, SplashRecord

\* The status either ends the check or sends it on, with the count as it is now.
LEMMA StatusEffect ==
  ASSUME LockTypes, NEW c \in Checks, GetStatus(c)
  PROVE  \/ Over(c)
         \/ /\ \E p \in {"clear", "hash"} :
                 CheckTo(c, [checks[c] EXCEPT !.phase = p, !.seen = failures])
            /\ UNCHANGED splash
<1>1. CASE Over(c)
  BY <1>1
<1>2. ASSUME NEW p \in {"clear", "hash"},
             checks' = [checks EXCEPT ![c].phase = p, ![c].seen = failures]
      PROVE  CheckTo(c, [checks[c] EXCEPT !.phase = p, !.seen = failures])
  <2> DEFINE r == [checks[c] EXCEPT !.phase = p, !.seen = failures]
  <2>1. checks[c] \in CheckRecord /\ p \in Phases /\ failures \in 0 .. MaxFailures
    BY DEF LockTypes, Phases, PinPhases
  <2>2. r \in CheckRecord
    BY <2>1 DEF CheckRecord
  <2>3. checks' = [checks EXCEPT ![c] = r]
    BY <1>2 DEF LockTypes
  <2> HIDE DEF r
  <2>4. CheckTo(c, r)
    BY <2>2, <2>3, CheckToEffect
  <2> QED
    BY <2>4 DEF r
<1>3. CASE ~(IsLocked \/ ~HasPin)
  <2>1. PICK p \in {"clear", "hash"} :
          checks' = [checks EXCEPT ![c].phase = p, ![c].seen = failures] /\ UNCHANGED splash
    BY <1>3 DEF GetStatus
  <2> QED
    BY <1>2, <2>1
<1> QED
  BY <1>1, <1>3 DEF GetStatus

\* The checks of a door are at home elsewhere, but for those whose screen is gone for good.
LEMMA RehomedEffect ==
  ASSUME LockTypes, NEW door, NEW home \in {"gone", "void"}
  PROVE  /\ Rehomed(door, home) \in [Checks -> CheckRecord]
         /\ \A c \in Checks :
              IF checks[c].door = door /\ checks[c].home # "void"
              THEN Rehomed(door, home)[c] = [checks[c] EXCEPT !.home = home]
              ELSE Rehomed(door, home)[c] = checks[c]
<1>1. \A c \in Checks : [checks[c] EXCEPT !.home = home] \in CheckRecord
  BY DEF LockTypes, CheckRecord
<1> QED
  BY <1>1 DEF Rehomed, LockTypes

-----------------------------------------------------------------------------
(* The invariant *)

\* What a wrong answer is counted in, from the moment the status has been read.
Counting == PinPhases \ {"status"}

AppCheck(c) == checks[c].door = "app"

\* A check under way is one of a door.
BusyHasDoor == \A c \in Checks : checks[c].phase # "idle" => checks[c].door # "none"

\* The app's door: the keypad is for devices without biometrics, where one check at a time
\* runs, on the splash screen that is up, and keeps the keypad disabled.
KeypadIsForPins ==
  /\ splash.pin => ~biometric
  /\ \A c \in Checks : AppCheck(c) /\ checks[c].phase \in PinPhases => ~biometric
WalletWasSetUp ==
  /\ hasWallet => created
  /\ \A c \in Checks : AppCheck(c) => created
OneAppCheck ==
  ~biometric => \A c \in Checks : AppCheck(c) =>
    /\ app = "unauthenticated"
    /\ checks[c].home = "here"
    /\ hasWallet => splash.loading
    /\ \A d \in Checks \ {c} : ~AppCheck(d)
AppInv == BusyHasDoor /\ KeypadIsForPins /\ WalletWasSetUp /\ OneAppCheck

\* The wallet's door: the Wallet tab and its checks go with the tabs.
TabsInv ==
  app # "authenticated" =>
    /\ ~tab.unlocked /\ tab.mode = "none"
    /\ \A c \in Checks : checks[c].door = "wallet" => checks[c].home = "void"

\* The handler's refs: what they say was once so.
RefsInv ==
  /\ app = "authenticated" => hasWallet
  /\ refs.authenticated => refs.hasWallet
LateInv == RefsInv /\ LeftOpenOnlyLate

\* The count: as long as no answer was lost, one check at most is being counted, and goes
\* by the count as it is.
OneCounts ==
  \A c, d \in Checks :
    c # d => ~(checks[c].phase \in Counting /\ checks[d].phase \in Counting)
SeenIsCount(c) ==
  /\ At(c, "hash") => checks[c].seen = failures
  /\ At(c, "count") => checks[c].seen = failures /\ answered = Counted(failures)
CountInv ==
  answered # Lost =>
    /\ OneCounts
    /\ \A c \in Checks : SeenIsCount(c)
    /\ (\A c \in Checks : ~At(c, "count")) => failures = answered

LockInv == LockTypes /\ AppInv /\ TabsInv /\ LateInv /\ CountInv

-----------------------------------------------------------------------------
(* Types *)

\* The invariant holds to begin with.
LEMMA LockStarts == LockInit => LockInv
<1> SUFFICES ASSUME LockInit
             PROVE  LockInv
  OBVIOUS
<1>1. LockTypes
  <2>1. checks \in [Checks -> CheckRecord]
    BY LockBlanks DEF LockInit
  <2> QED
    BY <2>1, LockBlanks, LockBounds DEF LockInit, LockTypes
<1>2. \A c \in Checks : checks[c].door = "none" /\ checks[c].phase = "idle"
  BY DEF LockInit, Idle
<1>3. AppInv
  BY <1>2 DEF LockInit, AppInv, BusyHasDoor, KeypadIsForPins, WalletWasSetUp, OneAppCheck,
     AppCheck, NoSplash, PinPhases
<1>4. TabsInv
  BY <1>2 DEF LockInit, TabsInv, NoTab
<1>5. LateInv
  BY DEF LockInit, LateInv, RefsInv, LeftOpenOnlyLate
<1>6. CountInv
  BY <1>2 DEF LockInit, CountInv, OneCounts, SeenIsCount, Counting, PinPhases, At
<1> QED
  BY <1>1, <1>3, <1>4, <1>5, <1>6 DEF LockInv

\* Each step keeps the types.
LEMMA LockTypesKept ==
  ASSUME LockTypes, [LockNext]_lockVars
  PROVE  LockTypes'
<1> USE DEF LockTypes
<1> USE LockBlanks, LockBounds
<1>0. /\ \A r \in SplashRecord, b \in BOOLEAN :
           /\ [r EXCEPT !.timer = b] \in SplashRecord
           /\ [r EXCEPT !.loading = b] \in SplashRecord
           /\ [r EXCEPT !.pin = b] \in SplashRecord
      /\ \A r \in TabRecord, b \in BOOLEAN :
           /\ [r EXCEPT !.focused = b] \in TabRecord
           /\ [r EXCEPT !.unlocked = b] \in TabRecord
           /\ [r EXCEPT !.locked = b] \in TabRecord
      /\ \A r \in TabRecord, m \in {"none", "checking", "biometric", "pin"} :
           [r EXCEPT !.mode = m] \in TabRecord
  BY DEF SplashRecord, TabRecord
<1>1. CASE Launch
  BY <1>1 DEF Launch, stored, screens, history
<1>2. CASE Startup
  BY <1>2, <1>0 DEF Startup, StoredWallet, stored, history
<1>3. CASE Effects
  <2>1. refs' \in RefRecord
    BY <1>3 DEF Effects, RefRecord
  <2> QED
    BY <1>3, <2>1 DEF Effects, stored, screens, history
<1>4. CASE Background
  <2>1. clearing' \in 0 .. MaxHandlers
    BY <1>4 DEF Background
  <2>2. late' \in BOOLEAN
    BY <1>4 DEF Background
  <2> QED
    BY <1>4, <2>1, <2>2 DEF Background, stored, screens
<1>5. CASE Foreground
  BY <1>5 DEF Foreground, stored, authVars, screens
<1>6. CASE SetUnauthenticated
  <2>1. clearing' \in 0 .. MaxHandlers
    BY <1>6 DEF SetUnauthenticated
  <2>2. /\ splash' \in SplashRecord /\ tab' \in TabRecord /\ timers' \subseteq 0 .. Cooldown
        /\ checks' \in [Checks -> CheckRecord]
    <3>1. CASE app = "authenticated"
      <4>1. TabsDown /\ splash' = [NoSplash EXCEPT !.timer = TRUE]
        BY <1>6, <3>1 DEF SetUnauthenticated
      <4>2. Rehomed("wallet", "void") \in [Checks -> CheckRecord]
        BY RehomedEffect
      <4>3. splash' \in SplashRecord
        BY <4>1, <1>0
      <4> QED
        BY <4>1, <4>2, <4>3 DEF TabsDown
    <3>2. CASE app # "authenticated"
      BY <1>6, <3>2 DEF SetUnauthenticated, screens
    <3> QED
      BY <3>1, <3>2
  <2> QED
    BY <1>6, <2>1, <2>2 DEF SetUnauthenticated, stored
<1>7. CASE Kill
  <2>1. checks' \in [Checks -> CheckRecord]
    BY <1>7 DEF Kill
  <2>2. answered' \in 0 .. Lost
    BY <1>7 DEF Kill
  <2> QED
    BY <1>7, <2>1, <2>2 DEF Kill, stored
<1>8. CASE Tick
  <2>1. cool' \in 0 .. Cooldown
    BY <1>8 DEF Tick
  <2>2. timers' \subseteq 0 .. Cooldown
    BY <1>8 DEF Tick
  <2> QED
    BY <1>8, <2>1, <2>2 DEF Tick, authVars, history
<1>9. CASE Focus \/ PressLock
  <2>1. [tab EXCEPT !.unlocked = FALSE,
                    !.mode = IF tab.unlocked \/ tab.mode = "none" THEN "checking" ELSE @,
                    !.locked = IF tab.unlocked THEN FALSE ELSE @] \in TabRecord
    BY DEF TabRecord
  <2>2. tab' \in TabRecord
    BY <1>9, <2>1, <1>0 DEF Focus, PressLock, Relocked
  <2> QED
    BY <1>9, <2>2 DEF Focus, PressLock, stored, authVars, history
<1>10. CASE Blur \/ EnableKeypad
  BY <1>10, <1>0 DEF Blur, EnableKeypad, stored, authVars, history
<1>11. CASE \E c \in Checks : PromptFails(c) \/ GetStatus(c)
  <2>1. PICK c \in Checks : PromptFails(c) \/ GetStatus(c)
    BY <1>11
  <2>2. checks' \in [Checks -> CheckRecord] /\ splash' \in SplashRecord
    BY <2>1, OverEffect, StatusEffect DEF PromptFails, CheckTo
  <2>3. answered' \in 0 .. Lost
    BY <2>1 DEF PromptFails, GetStatus, history
  <2> QED
    BY <2>1, <2>2, <2>3 DEF PromptFails, GetStatus, stored, authVars, history
<1>12. CASE \E c \in Checks : DerivePinHash(c)
  <2>1. PICK c \in Checks : DerivePinHash(c)
    BY <1>12
  <2>2. checks' \in [Checks -> CheckRecord]
    BY <2>1, ForgetEffect, GoToEffect DEF DerivePinHash, CheckTo, Phases, PinPhases
  <2>3. answered' \in 0 .. Lost
    BY <2>1 DEF DerivePinHash, Counted, Lost
  <2> QED
    BY <2>1, <2>2, <2>3 DEF DerivePinHash, stored, authVars, screens
<1>13. CASE \E c \in Checks : ResetFailures(c) \/ DeleteLockedUntil(c) \/ SetLockedUntil(c)
  <2>1. PICK c \in Checks : ResetFailures(c) \/ DeleteLockedUntil(c) \/ SetLockedUntil(c)
    BY <1>13
  <2>2. checks' \in [Checks -> CheckRecord]
    BY <2>1, GoToEffect
       DEF ResetFailures, DeleteLockedUntil, SetLockedUntil, CheckTo, Phases, PinPhases
  <2> QED
    BY <2>1, <2>2
       DEF ResetFailures, DeleteLockedUntil, SetLockedUntil, Afresh, authVars, screens, history
<1>14. CASE \E c \in Checks : CountFailure(c)
  <2>1. PICK c \in Checks : CountFailure(c)
    BY <1>14
  <2>2. checks' \in [Checks -> CheckRecord]
    BY <2>1, ForgetEffect DEF CountFailure, CheckTo, Phases, PinPhases
  <2>3. failures' \in 0 .. MaxFailures
    <3>1. checks[c].seen \in 0 .. MaxFailures
      BY DEF CheckRecord
    <3> QED
      BY <2>1, <3>1 DEF CountFailure, Counted
  <2> QED
    BY <2>1, <2>2, <2>3 DEF CountFailure, authVars, screens, history
<1>15. CASE \E c \in Checks : TellWrong(c)
  <2>1. PICK c \in Checks : TellWrong(c)
    BY <1>15
  <2>2. checks' \in [Checks -> CheckRecord] /\ splash' \in SplashRecord
    BY <2>1, OverEffect DEF TellWrong, CheckTo
  <2>3. tab' \in TabRecord /\ timers' \subseteq 0 .. Cooldown
    BY <2>1, <1>0 DEF TellWrong
  <2> QED
    BY <2>1, <2>2, <2>3 DEF TellWrong, stored, authVars, history
<1>16. CASE \E c \in Checks : ClearPinStep(c)
  <2>1. PICK c \in Checks : ClearPinStep(c)
    BY <1>16
  <2>2. checks' \in [Checks -> CheckRecord] /\ splash' \in SplashRecord
    BY <2>1, OverEffect, GoToEffect DEF ClearPinStep, ClearPin, CheckTo, Phases, PinPhases
  <2>3. /\ pin' \in {"none", "current", "old", "orphan"} /\ failures' \in 0 .. MaxFailures
        /\ cool' \in 0 .. Cooldown /\ answered' \in 0 .. Lost
    BY <2>1 DEF ClearPinStep, ClearPin, Afresh
  <2> QED
    BY <2>1, <2>2, <2>3 DEF ClearPinStep, authVars
<1>17. CASE \E c \in Checks : OnAuthenticated(c)
  <2>1. PICK c \in Checks : OnAuthenticated(c)
    BY <1>17
  <2>2. checks' \in [Checks -> CheckRecord]
    BY <2>1, RehomedEffect DEF OnAuthenticated
  <2> QED
    BY <2>1, <2>2 DEF OnAuthenticated, stored
<1>18. CASE \E c \in Checks : OnUnlock(c)
  <2>1. PICK c \in Checks : OnUnlock(c)
    BY <1>18
  <2>2. checks' \in [Checks -> CheckRecord]
    BY <2>1, RehomedEffect DEF OnUnlock
  <2>3. tab' \in TabRecord /\ timers' \subseteq 0 .. Cooldown
    BY <2>1, <1>0 DEF OnUnlock
  <2> QED
    BY <2>1, <2>2, <2>3 DEF OnUnlock, stored, authVars, history
<1>19. CASE \E c \in Checks : CompleteWalletSetup(c) \/ TryBiometric(c)
  <2>1. PICK c \in Checks : CompleteWalletSetup(c) \/ TryBiometric(c)
    BY <1>19
  <2>2. checks' \in [Checks -> CheckRecord]
    BY <2>1, LockBeginEffect DEF CompleteWalletSetup, TryBiometric, CheckTo, DoorsOfChecks, Phases
  <2> QED
    BY <2>1, <2>2 DEF CompleteWalletSetup, TryBiometric, stored, authVars, screens, history
<1>20. CASE \E c \in Checks : AutoPrompt(c) \/ PressUnlock(c)
  <2>1. PICK c \in Checks : AutoPrompt(c) \/ PressUnlock(c)
    BY <1>20
  <2>2. checks' \in [Checks -> CheckRecord]
    BY <2>1, LockBeginEffect DEF AutoPrompt, PressUnlock, HandleUnlock, CheckTo, DoorsOfChecks,
       Phases
  <2>3. splash' \in SplashRecord
    BY <2>1 DEF AutoPrompt, PressUnlock, HandleUnlock, SplashRecord
  <2> QED
    BY <2>1, <2>2, <2>3 DEF AutoPrompt, PressUnlock, stored, authVars, history
<1>21. CASE \E c \in Checks : PromptSucceeds(c) \/ Detect(c)
  <2>1. PICK c \in Checks : PromptSucceeds(c) \/ Detect(c)
    BY <1>21
  <2>2. checks' \in [Checks -> CheckRecord]
    BY <2>1, LockBeginEffect, GoToEffect DEF PromptSucceeds, Detect, CheckTo, DoorsOfChecks,
       Phases
  <2>3. tab' \in TabRecord
    BY <2>1, <1>0 DEF PromptSucceeds, Detect, screens
  <2> QED
    BY <2>1, <2>2, <2>3 DEF PromptSucceeds, Detect, stored, authVars, screens, history
<1>22. CASE \E c \in Checks, right \in BOOLEAN : HandlePinDigit(c, right) \/ PressDigit(c, right)
  <2>1. PICK c \in Checks, right \in BOOLEAN : HandlePinDigit(c, right) \/ PressDigit(c, right)
    BY <1>22
  <2>2. checks' \in [Checks -> CheckRecord]
    BY <2>1, LockBeginEffect DEF HandlePinDigit, PressDigit, CheckTo, DoorsOfChecks, Phases,
       PinPhases
  <2>3. splash' \in SplashRecord
    BY <2>1, <1>0 DEF HandlePinDigit, PressDigit, screens
  <2> QED
    BY <2>1, <2>2, <2>3 DEF HandlePinDigit, PressDigit, stored, authVars, screens, history
<1>23. CASE UNCHANGED lockVars
  BY <1>23 DEF lockVars, stored, authVars, screens, history
<1> QED
  BY <1>1, <1>2, <1>3, <1>4, <1>5, <1>6, <1>7, <1>8, <1>9, <1>10, <1>11, <1>12, <1>13, <1>14,
     <1>15, <1>16, <1>17, <1>18, <1>19, <1>20, <1>21, <1>22, <1>23 DEF LockNext, CheckStep

-----------------------------------------------------------------------------
(* The doors *)

\* The steps that change the state of AuthContext, or whether the app is in front.
LEMMA AuthSteps ==
  ASSUME [LockNext]_lockVars
  PROVE  \/ Launch \/ Startup \/ Effects
         \/ Background \/ Foreground \/ SetUnauthenticated \/ Kill
         \/ \E c \in Checks : OnAuthenticated(c)
         \/ UNCHANGED <<authVars, foreground, late>>
<1>1. CASE Tick \/ Focus \/ Blur \/ PressLock \/ EnableKeypad
  BY <1>1 DEF Tick, Focus, Blur, PressLock, EnableKeypad, history
<1>2. CASE \E c \in Checks : \/ PromptFails(c) \/ GetStatus(c) \/ DerivePinHash(c)
                             \/ ResetFailures(c) \/ DeleteLockedUntil(c)
                             \/ CountFailure(c) \/ SetLockedUntil(c) \/ TellWrong(c)
                             \/ ClearPinStep(c) \/ OnUnlock(c)
  BY <1>2 DEF PromptFails, GetStatus, DerivePinHash, ResetFailures, DeleteLockedUntil,
     CountFailure, SetLockedUntil, TellWrong, ClearPinStep, OnUnlock, history
<1>3. CASE \E c \in Checks : \/ CompleteWalletSetup(c) \/ AutoPrompt(c) \/ PressUnlock(c)
                             \/ PromptSucceeds(c) \/ Detect(c) \/ TryBiometric(c)
                             \/ \E right \in BOOLEAN : \/ HandlePinDigit(c, right)
                                                       \/ PressDigit(c, right)
  BY <1>3 DEF CompleteWalletSetup, AutoPrompt, PressUnlock, PromptSucceeds, Detect,
     TryBiometric, HandlePinDigit, PressDigit, history
<1>4. CASE UNCHANGED lockVars
  BY <1>4 DEF lockVars, history
<1> QED
  BY <1>1, <1>2, <1>3, <1>4 DEF LockNext, CheckStep

\* What is open in the background was opened late: the refs never say that the app is
\* authenticated without a wallet, so that a handler that does not lock means that they lag.
LEMMA LateKept ==
  ASSUME LockTypes, LateInv, [LockNext]_lockVars
  PROVE  LateInv'
<1> USE DEF LateInv, RefsInv, LeftOpenOnlyLate
<1>1. CASE Launch
  BY <1>1 DEF Launch, history
<1>2. CASE Startup
  BY <1>2 DEF Startup
<1>3. CASE Effects
  BY <1>3 DEF Effects, history
<1>4. CASE Background
  <2>1. CASE Locks
    <3>1. clearing' # 0
      BY <1>4, <2>1 DEF Background, LockTypes
    <3> QED
      BY <1>4, <3>1 DEF Background
  <2>2. CASE ~Locks
    BY <1>4, <2>2 DEF Background, Locks
  <2> QED
    BY <2>1, <2>2
<1>5. CASE Foreground
  BY <1>5 DEF Foreground, authVars
<1>6. CASE SetUnauthenticated
  BY <1>6 DEF SetUnauthenticated
<1>7. CASE Kill
  BY <1>7 DEF Kill
<1>8. CASE \E c \in Checks : OnAuthenticated(c)
  <2>1. /\ app' = "authenticated" /\ hasWallet' = TRUE /\ refs' = refs
        /\ foreground' = foreground /\ (late' <=> ~foreground)
    BY <1>8 DEF OnAuthenticated
  <2> QED
    BY <2>1 DEF LockTypes
<1>9. CASE UNCHANGED <<authVars, foreground, late>>
  BY <1>9 DEF authVars
<1> QED
  BY <1>1, <1>2, <1>3, <1>4, <1>5, <1>6, <1>7, <1>8, <1>9, AuthSteps

\* A check that goes on, from one await to the next, stays what it is or is over; the screen
\* it was begun on changes only by what Over and TellWrong do to it.
LEMMA CheckGoesOn ==
  ASSUME LockTypes, NEW c \in Checks,
         Continues(c)
  PROVE  /\ checks[c].phase # "idle" /\ checks[c].phase # "passed"
         /\ \E r \in CheckRecord :
              /\ CheckTo(c, r)
              /\ \/ r = Idle
                 \/ /\ r.door = checks[c].door /\ r.home = checks[c].home
                    /\ r.phase # "idle"
                    /\ r.phase \in PinPhases => checks[c].phase \in PinPhases
              /\ splash' = splash \/ (r = Idle /\ AppCheck(c))
         /\ splash'.pin = splash.pin
         /\ UNCHANGED <<created, biometric, app, hasWallet>>
         /\ tab'.unlocked = tab.unlocked /\ tab'.mode = tab.mode
<1> DEFINE Goes == \E r \in CheckRecord :
              /\ CheckTo(c, r)
              /\ \/ r = Idle
                 \/ /\ r.door = checks[c].door /\ r.home = checks[c].home
                    /\ r.phase # "idle"
                    /\ r.phase \in PinPhases => checks[c].phase \in PinPhases
              /\ splash' = splash \/ (r = Idle /\ AppCheck(c))
<1>0. checks[c] \in CheckRecord
  BY DEF LockTypes
<1>1. ASSUME Over(c)
      PROVE  Goes
  BY <1>1, OverEffect, LockBlanks DEF AppCheck, Idle
<1>2. ASSUME NEW p \in Phases \ {"idle"}, GoTo(c, p), UNCHANGED splash,
             checks[c].phase \in PinPhases \/ p \notin PinPhases
      PROVE  Goes
  <2> DEFINE r == [checks[c] EXCEPT !.phase = p]
  <2>1. CheckTo(c, r)
    BY <1>2, GoToEffect
  <2>2. r \in CheckRecord
    BY <2>1 DEF CheckTo
  <2>3. r.door = checks[c].door /\ r.home = checks[c].home /\ r.phase = p
    BY <1>0 DEF CheckRecord
  <2> HIDE DEF r
  <2> QED
    BY <1>2, <2>1, <2>2, <2>3
<1>3. ASSUME NEW p \in Phases \ {"idle", "passed"}, Forget(c, p), UNCHANGED splash,
             checks[c].phase \in PinPhases
      PROVE  Goes
  <2> DEFINE r == [checks[c] EXCEPT !.phase = p, !.right = FALSE, !.seen = 0]
  <2>1. CheckTo(c, r)
    BY <1>3, ForgetEffect
  <2>2. r \in CheckRecord
    BY <2>1 DEF CheckTo
  <2>3. r.door = checks[c].door /\ r.home = checks[c].home /\ r.phase = p
    BY <1>0 DEF CheckRecord
  <2> HIDE DEF r
  <2> QED
    BY <1>3, <2>1, <2>2, <2>3
<1>4. ASSUME NEW p \in {"clear", "hash"}, UNCHANGED splash, At(c, "status"),
             CheckTo(c, [checks[c] EXCEPT !.phase = p, !.seen = failures])
      PROVE  Goes
  <2> DEFINE r == [checks[c] EXCEPT !.phase = p, !.seen = failures]
  <2>1. CheckTo(c, r)
    BY <1>4
  <2>2. r \in CheckRecord
    BY <2>1 DEF CheckTo
  <2>3. r.door = checks[c].door /\ r.home = checks[c].home /\ r.phase = p
    BY <1>0 DEF CheckRecord
  <2> HIDE DEF r
  <2> QED
    BY <1>4, <2>1, <2>2, <2>3 DEF At, PinPhases
<1>5. /\ {"reset", "count", "unlock", "cool", "told", "clear2"}
           \subseteq Phases \ {"idle", "passed"}
      /\ "passed" \in Phases \ {"idle"}
  BY DEF Phases, PinPhases
<1>6. checks[c].phase # "idle" /\ checks[c].phase # "passed" /\ Goes
  <2> HIDE DEF Goes
  <2>1. CASE PromptSucceeds(c)
    BY <2>1, <1>2, <1>5 DEF PromptSucceeds, At, screens, PinPhases
  <2>2. CASE PromptFails(c) \/ TellWrong(c)
    BY <2>2, <1>1 DEF PromptFails, TellWrong, At
  <2>3. CASE GetStatus(c)
    BY <2>3, <1>1, <1>4, StatusEffect DEF GetStatus, At
  <2>4. CASE DerivePinHash(c)
    BY <2>4, <1>2, <1>3, <1>5 DEF DerivePinHash, At, screens, PinPhases
  <2>5. CASE ResetFailures(c) \/ DeleteLockedUntil(c) \/ SetLockedUntil(c)
    BY <2>5, <1>2, <1>5 DEF ResetFailures, DeleteLockedUntil, SetLockedUntil, At, screens, PinPhases
  <2>6. CASE CountFailure(c)
    BY <2>6, <1>3, <1>5 DEF CountFailure, At, screens, PinPhases
  <2>7. CASE ClearPinStep(c)
    BY <2>7, <1>1, <1>2, <1>5 DEF ClearPinStep, ClearPin, At, PinPhases
  <2> QED
    BY <2>1, <2>2, <2>3, <2>4, <2>5, <2>6, <2>7 DEF Continues
<1>7. splash'.pin = splash.pin
  BY OverEffect DEF Continues, PromptSucceeds, PromptFails, GetStatus, DerivePinHash, ResetFailures,
     DeleteLockedUntil, CountFailure, SetLockedUntil, TellWrong, ClearPinStep, ClearPin, screens
<1>8. UNCHANGED <<created, biometric, app, hasWallet>>
  BY DEF Continues, PromptSucceeds, PromptFails, GetStatus, DerivePinHash, ResetFailures,
     DeleteLockedUntil, CountFailure, SetLockedUntil, TellWrong, ClearPinStep, stored, authVars
<1>9. tab'.unlocked = tab.unlocked /\ tab'.mode = tab.mode
  <2>1. CASE TellWrong(c)
    BY <2>1 DEF TellWrong, LockTypes, TabRecord
  <2>2. CASE tab' = tab
    BY <2>2
  <2> QED
    BY <2>1, <2>2
       DEF Continues, PromptSucceeds, PromptFails, GetStatus, DerivePinHash, ResetFailures,
       DeleteLockedUntil, CountFailure, SetLockedUntil, ClearPinStep, screens
<1> QED
  BY <1>6, <1>7, <1>8, <1>9

\* The Wallet tab is there, and its checks have a home, while the tabs are up.
LEMMA TabsKept ==
  ASSUME LockTypes, TabsInv, [LockNext]_lockVars
  PROVE  TabsInv'
<1> USE DEF TabsInv
<1>1. CASE \/ Launch \/ Startup \/ Effects \/ Background \/ Foreground \/ Tick
           \/ UNCHANGED lockVars
  <2>1. /\ tab' = tab /\ checks' = checks
        /\ app' # "authenticated" => app # "authenticated"
    BY <1>1 DEF Launch, Startup, Effects, Background, Foreground, Tick, authVars, screens,
       lockVars
  <2> QED
    BY <2>1
<1>2. CASE SetUnauthenticated
  <2>1. CASE app = "authenticated"
    <3>1. tab' = NoTab /\ checks' = Rehomed("wallet", "void")
      BY <1>2, <2>1 DEF SetUnauthenticated, TabsDown
    <3>2. \A c \in Checks : checks'[c].door = "wallet" => checks'[c].home = "void"
      <4>1. ASSUME NEW c \in Checks
            PROVE  \/ checks'[c] = [checks[c] EXCEPT !.home = "void"]
                   \/ /\ checks'[c] = checks[c]
                      /\ checks[c].door # "wallet" \/ checks[c].home = "void"
        BY <3>1, RehomedEffect
      <4>2. \A c \in Checks : checks[c] \in CheckRecord
        BY DEF LockTypes
      <4> QED
        BY <4>1, <4>2 DEF CheckRecord
    <3> QED
      BY <3>1, <3>2 DEF NoTab
  <2>2. CASE app # "authenticated"
    BY <1>2, <2>2 DEF SetUnauthenticated, screens
  <2> QED
    BY <2>1, <2>2
<1>3. CASE Kill
  BY <1>3 DEF Kill, NoTab, Idle
<1>4. CASE \E c \in Checks : OnAuthenticated(c)
  BY <1>4 DEF OnAuthenticated
<1>5. CASE app' = "authenticated"
  BY <1>5
<1>6. CASE Focus \/ Blur \/ PressLock
  BY <1>6, <1>5 DEF Focus, Blur, PressLock, InTabs, authVars
<1>7. CASE EnableKeypad
  BY <1>7 DEF EnableKeypad, authVars, LockTypes, TabRecord
<1>8. CASE \E c \in Checks : Continues(c)
  <2>1. PICK c \in Checks, r \in CheckRecord :
           /\ CheckTo(c, r)
           /\ r = Idle \/ (r.door = checks[c].door /\ r.home = checks[c].home)
           /\ app' = app /\ tab'.unlocked = tab.unlocked /\ tab'.mode = tab.mode
    BY <1>8, CheckGoesOn
  <2> QED
    BY <2>1 DEF CheckTo, Idle
<1>9. CASE \E c \in Checks : OnUnlock(c)
  <2>1. PICK c \in Checks : OnUnlock(c)
    BY <1>9
  <2>2. app' = app
    BY <2>1 DEF OnUnlock, authVars
  <2>3. CASE checks[c].home # "void"
    BY <2>1, <2>2, <2>3, <1>5 DEF OnUnlock
  <2>4. CASE checks[c].home = "void"
    <3>1. tab' = tab /\ checks' = [checks EXCEPT ![c] = Idle]
      BY <2>1, <2>4 DEF OnUnlock
    <3> QED
      BY <2>2, <3>1 DEF LockTypes, Idle
  <2> QED
    BY <2>3, <2>4
<1>10. CASE \E c \in Checks : AppBegins(c)
  <2>1. PICK c \in Checks : AppBegins(c)
    BY <1>10
  <2>2. app' = app /\ tab' = tab
    BY <2>1
       DEF AppBegins, CompleteWalletSetup, AutoPrompt, PressUnlock, HandlePinDigit, authVars,
           screens
  <2>3. checks' = checks \/ \E r \in CheckRecord : CheckTo(c, r) /\ r.door = "app"
    BY <2>1, AppCheckBegins
  <2> QED
    BY <2>2, <2>3 DEF CheckTo
<1>11. CASE \E c \in Checks : WalletBegins(c)
  <2>1. app' = app
    BY <1>11 DEF WalletBegins, Detect, TryBiometric, PressDigit, authVars
  <2>2. app = "authenticated"
    BY <1>11 DEF WalletBegins, Detect, TryBiometric, PressDigit, LockKeypadReady, LockShown, InTabs
  <2> QED
    BY <2>1, <2>2
<1> QED
  BY <1>1, <1>2, <1>3, <1>4, <1>6, <1>7, <1>8, <1>9, <1>10, <1>11
     DEF LockNext, CheckStep, Continues, AppBegins, WalletBegins

\* The app's door: on a device without biometrics one check at a time is under way, and the
\* splash screen that waits for it keeps its keypad disabled.
LEMMA AppKept ==
  ASSUME LockTypes, AppInv, [LockNext]_lockVars
  PROVE  AppInv'
<1> USE DEF AppInv, BusyHasDoor, KeypadIsForPins, WalletWasSetUp, OneAppCheck, AppCheck
<1>0. \A c \in Checks : checks[c] \in CheckRecord
  BY DEF LockTypes
<1>1. CASE \/ Effects \/ Background \/ Foreground \/ Tick
           \/ Focus \/ Blur \/ PressLock \/ EnableKeypad
           \/ UNCHANGED lockVars
  <2>1. UNCHANGED <<created, biometric, app, hasWallet, splash, checks>>
    BY <1>1 DEF Effects, Background, Foreground, Tick, Focus, Blur, PressLock, EnableKeypad,
       lockVars, stored, authVars, screens
  <2> QED
    BY <2>1
<1>2. CASE Launch
  <2>1. app = "off" /\ UNCHANGED <<created, biometric, hasWallet, splash, checks>>
    BY <1>2 DEF Launch, stored, screens
  <2> QED
    BY <2>1
<1>3. CASE Startup
  <2>1. app = "loading" /\ UNCHANGED <<created, biometric, checks>>
        /\ (hasWallet' <=> created) /\ ~splash'.pin
    BY <1>3 DEF Startup, StoredWallet, stored, NoSplash, LockTypes
  <2> QED
    BY <2>1
<1>4. CASE SetUnauthenticated
  <2>0. app' = "unauthenticated" /\ UNCHANGED <<created, biometric, hasWallet>>
    BY <1>4 DEF SetUnauthenticated, stored
  <2>1. CASE app = "authenticated"
    <3>1. checks' = Rehomed("wallet", "void") /\ ~splash'.pin
      BY <1>4, <2>1 DEF SetUnauthenticated, TabsDown, NoSplash
    <3>2. \A c \in Checks : checks'[c].door = checks[c].door /\ checks'[c].phase = checks[c].phase
      <4>1. \A c \in Checks : \/ checks'[c] = [checks[c] EXCEPT !.home = "void"]
                              \/ checks'[c] = checks[c]
        BY <3>1, RehomedEffect
      <4> QED
        BY <1>0, <4>1 DEF CheckRecord
    <3> QED
      BY <2>0, <2>1, <3>1, <3>2
  <2>2. CASE app # "authenticated"
    BY <1>4, <2>0, <2>2 DEF SetUnauthenticated, screens
  <2> QED
    BY <2>1, <2>2
<1>5. CASE Kill
  <2>1. /\ UNCHANGED <<created, biometric>>
        /\ hasWallet' = FALSE /\ ~splash'.pin
        /\ \A c \in Checks : checks'[c].door = "none" /\ checks'[c].phase = "idle"
    BY <1>5 DEF Kill, stored, NoSplash, Idle
  <2> QED
    BY <2>1 DEF PinPhases
<1>6. CASE \E c \in Checks : OnAuthenticated(c)
  <2>1. PICK c \in Checks : OnAuthenticated(c)
    BY <1>6
  <2>2. /\ UNCHANGED <<created, biometric>>
        /\ AppCheck(c) /\ app' = "authenticated" /\ hasWallet' = TRUE /\ ~splash'.pin
        /\ checks' = [Rehomed("app", "gone") EXCEPT ![c] = Idle]
    BY <2>1 DEF OnAuthenticated, stored, NoSplash
  <2>3. checks'[c] = Idle
    BY <2>2, RehomedEffect
  <2>4. \A d \in Checks \ {c} : /\ checks'[d].door = checks[d].door
                               /\ checks'[d].phase = checks[d].phase
    <3>1. \A d \in Checks \ {c} : \/ checks'[d] = [checks[d] EXCEPT !.home = "gone"]
                                  \/ checks'[d] = checks[d]
      BY <2>2, RehomedEffect
    <3> QED
      BY <1>0, <3>1 DEF CheckRecord
  <2>5. Idle.door = "none" /\ Idle.phase = "idle"
    BY DEF Idle
  <2> QED
    BY <2>2, <2>3, <2>4, <2>5 DEF PinPhases
<1>7. CASE \E c \in Checks : Continues(c)
  <2>1. PICK c \in Checks, r \in CheckRecord :
           /\ checks[c].phase # "idle"
           /\ CheckTo(c, r)
           /\ \/ r = Idle
              \/ /\ r.door = checks[c].door /\ r.home = checks[c].home
                 /\ r.phase # "idle"
                 /\ r.phase \in PinPhases => checks[c].phase \in PinPhases
           /\ splash' = splash \/ (r = Idle /\ AppCheck(c))
           /\ splash'.pin = splash.pin
           /\ UNCHANGED <<created, biometric, app, hasWallet>>
    <3>1. PICK c \in Checks : Continues(c)
      BY <1>7
    <3> QED
      BY <3>1, CheckGoesOn
  <2>2. Idle.door = "none" /\ Idle.phase = "idle"
    BY DEF Idle
  <2> QED
    BY <2>1, <2>2 DEF CheckTo, PinPhases
<1>8. CASE \E c \in Checks : OnUnlock(c)
  <2>1. PICK c \in Checks : OnUnlock(c)
    BY <1>8
  <2>2. UNCHANGED <<created, biometric, app, hasWallet, splash>> /\ checks[c].door = "wallet"
    BY <2>1 DEF OnUnlock, stored, authVars
  <2>3. checks'[c] = Idle /\ \A d \in Checks \ {c} :
          \/ checks'[d] = checks[d]
          \/ checks[d].door = "wallet" /\ checks'[d] = [checks[d] EXCEPT !.home = "gone"]
    <3>1. CASE checks' = [Rehomed("wallet", "gone") EXCEPT ![c] = Idle]
      BY <3>1, RehomedEffect
    <3>2. CASE checks' = [checks EXCEPT ![c] = Idle]
      BY <3>2 DEF LockTypes
    <3> QED
      BY <2>1, <3>1, <3>2 DEF OnUnlock
  <2>4. \A d \in Checks \ {c} :
          /\ checks'[d].door = checks[d].door /\ checks'[d].phase = checks[d].phase
          /\ checks[d].door # "wallet" => checks'[d].home = checks[d].home
    <3>1. \A d \in Checks, r \in CheckRecord :
            /\ [r EXCEPT !.home = "gone"].door = r.door
            /\ [r EXCEPT !.home = "gone"].phase = r.phase
      BY DEF CheckRecord
    <3> QED
      BY <1>0, <2>3, <3>1
  <2>5. Idle.door = "none" /\ Idle.phase = "idle"
    BY DEF Idle
  <2> QED
    BY <2>2, <2>3, <2>4, <2>5 DEF PinPhases
<1>9. CASE \E c \in Checks : AppBegins(c)
  <2>1. PICK c \in Checks : AppBegins(c)
    BY <1>9
  <2>2. UNCHANGED <<biometric, app, hasWallet>> /\ app = "unauthenticated"
    BY <2>1
       DEF AppBegins, CompleteWalletSetup, AutoPrompt, PressUnlock, HandlePinDigit, OnSplash,
           stored,
       authVars
  <2>3. CASE ~biometric /\ checks' = checks /\ (AutoPrompt(c) \/ PressUnlock(c))
    <3>1. created' = created /\ (splash'.loading <=> splash.loading)
      BY <2>3 DEF AutoPrompt, PressUnlock, HandleUnlock, stored, LockTypes, SplashRecord
    <3> QED
      BY <2>2, <2>3, <3>1
  <2>4. ASSUME checks[c] = Idle, NEW r \in CheckRecord, CheckTo(c, r), r.door = "app",
               r.home = "here", r.phase # "idle",
               r.phase \in PinPhases => \E right \in BOOLEAN : HandlePinDigit(c, right)
        PROVE  AppInv'
    <3>0. \A d \in Checks \ {c} : checks'[d] = checks[d]
      BY <2>4 DEF CheckTo
    <3>1. CASE CompleteWalletSetup(c)
      <4>1. ~hasWallet /\ ~created /\ created' = TRUE /\ splash' = splash
        BY <3>1 DEF CompleteWalletSetup, screens
      <4>2. r.phase \notin PinPhases
        BY <2>4, <4>1 DEF HandlePinDigit, OnSplash
      <4> QED
        BY <2>2, <2>4, <3>0, <4>1, <4>2 DEF CheckTo
    <3>2. CASE ~CompleteWalletSetup(c)
      <4>1. hasWallet /\ created' = created
        BY <2>1, <3>2 DEF AppBegins, AutoPrompt, PressUnlock, HandlePinDigit, OnSplash, stored
      <4>2. CASE biometric
        <5>1. splash'.pin = splash.pin /\ r.phase \notin PinPhases
          BY <2>1, <2>4, <3>2, <4>2
             DEF AppBegins, AutoPrompt, PressUnlock, HandleUnlock, HandlePinDigit,
             KeypadReady, KeypadShown, LockTypes, SplashRecord
        <5> QED
          BY <2>2, <2>4, <3>0, <4>1, <4>2, <5>1 DEF CheckTo
      <4>3. CASE ~biometric
        <5>1. ~splash.loading /\ splash'.loading
          <6>1. \E right \in BOOLEAN : HandlePinDigit(c, right)
            <7>1. ~(AutoPrompt(c) \/ PressUnlock(c)) \/ checks' = checks
              BY <4>3 DEF AutoPrompt, PressUnlock, HandleUnlock
            <7>2. checks' # checks
              BY <2>4 DEF CheckTo, Idle
            <7> QED
              BY <2>1, <3>2, <7>1, <7>2 DEF AppBegins
          <6> QED
            BY <6>1 DEF HandlePinDigit, KeypadReady, LockTypes, SplashRecord
        <5>2. \A d \in Checks : ~AppCheck(d)
          BY <4>1, <4>3, <5>1
        <5> QED
          BY <2>2, <2>4, <3>0, <4>1, <4>3, <5>1, <5>2 DEF CheckTo
      <4> QED
        BY <4>2, <4>3
    <3> QED
      BY <3>1, <3>2
  <2> QED
    BY <2>1, <2>3, <2>4, AppCheckBegins
<1>10. CASE \E c \in Checks : WalletBegins(c)
  <2>1. PICK c \in Checks : WalletBegins(c)
    BY <1>10
  <2>2. UNCHANGED <<created, biometric, app, hasWallet, splash>>
    BY <2>1 DEF WalletBegins, Detect, TryBiometric, PressDigit, stored, authVars, screens
  <2>3. \/ checks' = checks
        \/ checks[c] = Idle /\ \E r \in CheckRecord :
              CheckTo(c, r) /\ r.door = "wallet" /\ r.phase \in {"prompt", "status"}
    BY <2>1, WalletCheckBegins
  <2> QED
    BY <2>2, <2>3 DEF CheckTo, Idle
<1> QED
  BY <1>1, <1>2, <1>3, <1>4, <1>5, <1>6, <1>7, <1>8, <1>9, <1>10
     DEF LockNext, CheckStep, Continues, AppBegins, WalletBegins

-----------------------------------------------------------------------------
(* The count *)

\* What a step does to the check d is of no account to the count.
Quiet(d) ==
  /\ checks'[d].phase \in Counting => checks[d].phase \in Counting
  /\ \A p \in {"hash", "count"} :
       checks'[d].phase = p => checks[d].phase = p /\ checks'[d].seen = checks[d].seen
  /\ checks[d].phase = "count" => checks'[d].phase = "count"

\* A step that is quiet on all of them keeps the count.
LEMMA QuietKeepsCount ==
  ASSUME CountInv, failures' = failures, answered' = answered, \A d \in Checks : Quiet(d)
  PROVE  CountInv'
  BY DEF Quiet, CountInv, OneCounts, SeenIsCount, At

\* So is a check that is in no part of the count before and none after.
LEMMA OthersAreQuiet ==
  ASSUME CountInv, failures' = failures, answered' = answered,
         NEW c \in Checks, NEW r, r.phase \notin {"hash", "count"},
         checks[c].phase # "count",
         r.phase \in Counting => checks[c].phase \in Counting,
         CheckTo(c, r)
  PROVE  CountInv'
<1>1. ASSUME NEW d \in Checks
      PROVE  Quiet(d)
  BY DEF Quiet, CheckTo
<1> QED
  BY <1>1, QuietKeepsCount

\* A change of where checks are at home is quiet, whether or not it ends one that has passed.
LEMMA RehomingIsQuiet ==
  ASSUME LockTypes, CountInv, failures' = failures, answered' = answered,
         NEW door, NEW home \in {"gone", "void"},
         \/ checks' = Rehomed(door, home)
         \/ \E c \in Checks : /\ checks[c].phase = "passed"
                              /\ checks' = [Rehomed(door, home) EXCEPT ![c] = Idle]
  PROVE  CountInv'
<1>1. \A d \in Checks : /\ Rehomed(door, home)[d].phase = checks[d].phase
                        /\ Rehomed(door, home)[d].seen = checks[d].seen
  <2>1. \A d \in Checks : \/ Rehomed(door, home)[d] = [checks[d] EXCEPT !.home = home]
                          \/ Rehomed(door, home)[d] = checks[d]
    BY RehomedEffect
  <2>2. \A d \in Checks : checks[d] \in CheckRecord
    BY DEF LockTypes
  <2> QED
    BY <2>1, <2>2 DEF CheckRecord
<1>2. Rehomed(door, home) \in [Checks -> CheckRecord]
  BY RehomedEffect
<1>3. "passed" \notin Counting /\ Idle.phase = "idle" /\ "idle" \notin Counting
  BY DEF Counting, PinPhases, Idle
<1>4. ASSUME NEW d \in Checks
      PROVE  Quiet(d)
  <2>1. CASE checks' = Rehomed(door, home)
    BY <1>1, <2>1 DEF Quiet
  <2>2. ASSUME NEW c \in Checks, checks[c].phase = "passed",
               checks' = [Rehomed(door, home) EXCEPT ![c] = Idle]
        PROVE  Quiet(d)
    <3>1. checks'[d] = IF d = c THEN Idle ELSE Rehomed(door, home)[d]
      BY <1>2, <2>2
    <3> QED
      BY <1>1, <1>3, <2>2, <3>1 DEF Quiet
  <2> QED
    BY <2>1, <2>2
<1> QED
  BY <1>4, QuietKeepsCount

\* Another answer being counted while a status is read is one the status was read across, or
\* the two are both of the splash screen, which has one check at a time.
LEMMA AloneAtStatus ==
  ASSUME AppInv, NEW c \in Checks, NEW d \in Checks \ {c},
         At(c, "status"), checks[d].phase \in Counting, LockTypes
  PROVE  Overlaps(c)
<1>1. checks[c].phase \in PinPhases /\ checks[d].phase \in PinPhases
  BY DEF At, Counting, PinPhases
<1>2. checks[c].phase # "idle" /\ checks[d].phase # "idle"
  BY <1>1 DEF PinPhases
<1>3. checks[c].door \in {"app", "wallet"} /\ checks[d].door \in {"app", "wallet"}
  BY <1>2 DEF AppInv, BusyHasDoor, LockTypes, CheckRecord, DoorsOfChecks
<1>4. CASE AppCheck(c) /\ AppCheck(d)
  <2>1. ~biometric
    BY <1>1, <1>4 DEF AppInv, KeypadIsForPins
  <2> QED
    BY <1>4, <2>1 DEF AppInv, OneAppCheck
<1>5. CASE "wallet" \in {checks[c].door, checks[d].door}
  BY <1>1, <1>5 DEF Overlaps, Counting
<1> QED
  BY <1>3, <1>4, <1>5 DEF AppCheck

\* No check begins with an answer counted.
LEMMA BeginsUncounted ==
  ASSUME LockTypes, NEW c \in Checks,
         AppBegins(c) \/ WalletBegins(c)
  PROVE  \/ checks' = checks
         \/ checks[c] = Idle /\ \E r \in CheckRecord : CheckTo(c, r) /\ r.phase \notin Counting
<1> DEFINE Begins == checks[c] = Idle /\ \E r \in CheckRecord :
                                          CheckTo(c, r) /\ r.phase \notin Counting
<1>1. ASSUME NEW door \in {"app", "wallet"}, NEW p \in {"passed", "prompt", "status"},
             NEW right \in BOOLEAN, Begin(c, door, p, right)
      PROVE  Begins
  <2>1. door \in DoorsOfChecks /\ p \in Phases /\ p \notin Counting
    BY DEF DoorsOfChecks, Phases, PinPhases, Counting
  <2> QED
    BY <1>1, <2>1, LockBeginEffect
<1>2. checks' = checks \/ \E door \in {"app", "wallet"}, p \in {"passed", "prompt", "status"},
                             right \in BOOLEAN : Begin(c, door, p, right)
  BY
     DEF AppBegins, WalletBegins, CompleteWalletSetup, AutoPrompt, PressUnlock, HandleUnlock,
         Detect, TryBiometric,
     HandlePinDigit, PressDigit, Begin
<1> QED
  BY <1>1, <1>2

\* Each step keeps what is said of the count.
LEMMA CountKept ==
  ASSUME LockTypes, AppInv, CountInv, [LockNext]_lockVars
  PROVE  CountInv'
<1>0. /\ \A c \in Checks : checks[c] \in CheckRecord
      /\ Idle.phase = "idle"
      /\ {"idle", "prompt", "passed", "status"} \cap Counting = {}
      /\ {"hash", "reset", "unlock", "count", "cool", "told", "clear", "clear2"} \subseteq Counting
      /\ Counting \subseteq PinPhases
  BY DEF LockTypes, Idle, Counting, PinPhases
<1>1. CASE \/ Launch \/ Startup \/ Effects \/ Background \/ Foreground \/ Tick
           \/ Focus \/ Blur \/ PressLock \/ EnableKeypad
           \/ UNCHANGED lockVars
  <2>1. UNCHANGED <<failures, answered, checks>>
    BY <1>1 DEF Launch, Startup, Effects, Background, Foreground, Tick, Focus, Blur, PressLock,
       EnableKeypad, lockVars, stored, screens, history
  <2>2. \A d \in Checks : Quiet(d)
    BY <2>1 DEF Quiet
  <2> QED
    BY <2>1, <2>2, QuietKeepsCount
<1>2. CASE SetUnauthenticated
  <2>1. UNCHANGED <<failures, answered>>
    BY <1>2 DEF SetUnauthenticated, stored
  <2>2. CASE app = "authenticated"
    <3>1. checks' = Rehomed("wallet", "void")
      BY <1>2, <2>2 DEF SetUnauthenticated, TabsDown
    <3> QED
      BY <2>1, <3>1, RehomingIsQuiet
  <2>3. CASE app # "authenticated"
    <3>1. \A d \in Checks : Quiet(d)
      BY <1>2, <2>3 DEF SetUnauthenticated, screens, Quiet
    <3> QED
      BY <2>1, <3>1, QuietKeepsCount
  <2> QED
    BY <2>2, <2>3
<1>3. CASE Kill
  <2>1. failures' = failures /\ \A d \in Checks : checks'[d].phase = "idle"
    BY <1>3, <1>0 DEF Kill, stored
  <2>2. answered' # Lost => answered' = answered /\ ~(\E c \in Checks : At(c, "count"))
    BY <1>3 DEF Kill
  <2> QED
    BY <1>0, <2>1, <2>2 DEF CountInv, OneCounts, SeenIsCount, At
<1>4. CASE \E c \in Checks : OnAuthenticated(c)
  <2>1. PICK c \in Checks : OnAuthenticated(c)
    BY <1>4
  <2>2. /\ UNCHANGED <<failures, answered>>
        /\ checks[c].phase = "passed" /\ checks' = [Rehomed("app", "gone") EXCEPT ![c] = Idle]
    BY <2>1 DEF OnAuthenticated, At, stored
  <2> QED
    BY <2>2, RehomingIsQuiet
<1>5. CASE \E c \in Checks : OnUnlock(c)
  <2>1. PICK c \in Checks : OnUnlock(c)
    BY <1>5
  <2>2. UNCHANGED <<failures, answered>> /\ checks[c].phase = "passed"
    BY <2>1 DEF OnUnlock, At, stored, history
  <2>3. CASE checks' = [Rehomed("wallet", "gone") EXCEPT ![c] = Idle]
    BY <2>2, <2>3, RehomingIsQuiet
  <2>4. CASE checks' = [checks EXCEPT ![c] = Idle]
    <3>1. CheckTo(c, Idle)
      BY <2>4, LockBlanks, CheckToEffect
    <3> QED
      BY <1>0, <2>2, <3>1, OthersAreQuiet
  <2> QED
    BY <2>1, <2>3, <2>4 DEF OnUnlock
<1>6. CASE \E c \in Checks : AppBegins(c) \/ WalletBegins(c)
  <2>1. PICK c \in Checks : AppBegins(c) \/ WalletBegins(c)
    BY <1>6
  <2>2. UNCHANGED <<failures, answered>>
    BY <2>1
       DEF AppBegins, WalletBegins, CompleteWalletSetup, AutoPrompt, PressUnlock, Detect,
           TryBiometric,
       HandlePinDigit, PressDigit, stored, history
  <2>3. \/ checks' = checks
        \/ checks[c] = Idle /\ \E r \in CheckRecord : CheckTo(c, r) /\ r.phase \notin Counting
    BY <1>0, <2>1, BeginsUncounted
  <2>4. CASE checks' = checks
    <3>1. \A d \in Checks : Quiet(d)
      BY <2>4 DEF Quiet
    <3> QED
      BY <2>2, <3>1, QuietKeepsCount
  <2>5. ASSUME checks[c] = Idle, NEW r \in CheckRecord, CheckTo(c, r), r.phase \notin Counting
        PROVE  CountInv'
    BY <1>0, <2>2, <2>5, OthersAreQuiet
  <2> QED
    BY <2>3, <2>4, <2>5
<1>7. CASE \E c \in Checks : PromptSucceeds(c) \/ DeleteLockedUntil(c) \/ SetLockedUntil(c)
  <2>1. PICK c \in Checks : PromptSucceeds(c) \/ DeleteLockedUntil(c) \/ SetLockedUntil(c)
    BY <1>7
  <2>2. UNCHANGED <<failures, answered>>
    BY <2>1 DEF PromptSucceeds, DeleteLockedUntil, SetLockedUntil, stored, history
  <2>3. PICK p \in {"passed", "told"} : GoTo(c, p) /\ (p = "told" => At(c, "cool"))
                                     /\ checks[c].phase \in {"prompt", "unlock", "cool"}
    BY <2>1 DEF PromptSucceeds, DeleteLockedUntil, SetLockedUntil, At
  <2>4. p \in Phases
    BY DEF Phases, PinPhases
  <2>5. CheckTo(c, [checks[c] EXCEPT !.phase = p])
    BY <2>3, <2>4, GoToEffect
  <2>6. [checks[c] EXCEPT !.phase = p].phase = p
    BY <1>0 DEF CheckRecord
  <2> QED
    BY <1>0, <2>2, <2>3, <2>5, <2>6, OthersAreQuiet DEF At
<1>8. CASE \E c \in Checks : PromptFails(c) \/ TellWrong(c)
  <2>1. PICK c \in Checks : PromptFails(c) \/ TellWrong(c)
    BY <1>8
  <2>2. UNCHANGED <<failures, answered>> /\ checks[c].phase # "count"
    BY <2>1 DEF PromptFails, TellWrong, At, stored, history
  <2>3. CheckTo(c, Idle)
    BY <2>1, OverEffect DEF PromptFails, TellWrong
  <2> QED
    BY <1>0, <2>2, <2>3, OthersAreQuiet
<1>9. CASE \E c \in Checks : GetStatus(c)
  <2>1. PICK c \in Checks : GetStatus(c)
    BY <1>9
  <2>2. failures' = failures /\ At(c, "status")
    BY <2>1 DEF GetStatus, stored
  <2>3. SUFFICES ASSUME answered' # Lost
                 PROVE  CountInv'
    BY DEF CountInv
  <2>4. answered' = answered /\ ~Overlaps(c)
    BY <2>1, <2>3 DEF GetStatus
  <2>5. \A d \in Checks \ {c} : checks[d].phase \notin Counting
    BY <2>2, <2>4, AloneAtStatus
  <2>6. \E r : CheckTo(c, r) /\ (r.phase = "hash" => r.seen = failures) /\ r.phase # "count"
    <3>1. CASE Over(c)
      BY <1>0, <3>1, OverEffect
    <3>2. ASSUME NEW p \in {"clear", "hash"},
                 CheckTo(c, [checks[c] EXCEPT !.phase = p, !.seen = failures])
          PROVE  \E r : CheckTo(c, r) /\ (r.phase = "hash" => r.seen = failures)
                       /\ r.phase # "count"
      <4> DEFINE r == [checks[c] EXCEPT !.phase = p, !.seen = failures]
      <4>1. checks[c] \in CheckRecord
        BY <1>0
      <4>2. r.phase = p /\ r.seen = failures
        BY <4>1 DEF CheckRecord
      <4>3. CheckTo(c, r)
        BY <3>2
      <4> HIDE DEF r
      <4> QED
        BY <4>2, <4>3
    <3> QED
      BY <2>1, <3>1, <3>2, StatusEffect
  <2> QED
    BY <1>0, <2>2, <2>3, <2>4, <2>5, <2>6 DEF CountInv, OneCounts, SeenIsCount, At, CheckTo
<1>10. CASE \E c \in Checks : DerivePinHash(c)
  <2>1. PICK c \in Checks : DerivePinHash(c)
    BY <1>10
  <2>2. failures' = failures /\ At(c, "hash")
    BY <2>1 DEF DerivePinHash, stored
  <2>3. CASE Matches(c)
    <3>1. answered' = answered /\ Forget(c, "reset")
      BY <2>1, <2>3 DEF DerivePinHash
    <3> DEFINE r == [checks[c] EXCEPT !.phase = "reset", !.right = FALSE, !.seen = 0]
    <3>2. CheckTo(c, r)
      BY <3>1, ForgetEffect DEF Phases, PinPhases
    <3>3. r.phase = "reset"
      BY <1>0 DEF CheckRecord
    <3> HIDE DEF r
    <3> QED
      BY <1>0, <2>2, <3>1, <3>2, <3>3, OthersAreQuiet DEF At
  <2>4. CASE ~Matches(c)
    <3>1. SUFFICES ASSUME answered' # Lost
                   PROVE  CountInv'
      BY DEF CountInv
    <3>2. answered # Lost /\ answered' = Counted(answered) /\ GoTo(c, "count")
      BY <2>1, <2>4, <3>1 DEF DerivePinHash
    <3> DEFINE r == [checks[c] EXCEPT !.phase = "count"]
    <3>3. CheckTo(c, r)
      BY <3>2, GoToEffect DEF Phases, PinPhases
    <3>4. r.phase = "count" /\ r.seen = checks[c].seen
      BY <1>0 DEF CheckRecord
    <3>5. \A d \in Checks \ {c} : checks[d].phase \notin Counting
      BY <1>0, <2>2, <3>2 DEF CountInv, OneCounts, At
    <3>6. checks[c].seen = failures /\ failures = answered
      BY <1>0, <2>2, <3>2, <3>5 DEF CountInv, SeenIsCount, At
    <3> HIDE DEF r
    <3> QED
      BY <1>0, <2>2, <3>2, <3>3, <3>4, <3>5, <3>6
         DEF CountInv, OneCounts, SeenIsCount, At, CheckTo
  <2> QED
    BY <2>3, <2>4
<1>11. CASE \E c \in Checks : ResetFailures(c)
  <2>1. PICK c \in Checks : ResetFailures(c)
    BY <1>11
  <2>2. SUFFICES ASSUME answered' # Lost
                 PROVE  CountInv'
    BY DEF CountInv
  <2>3. /\ failures' = 0 /\ answered' = 0 /\ GoTo(c, "unlock")
        /\ \A d \in Checks \ {c} : checks[d].phase \notin Counting
    BY <1>0, <2>1, <2>2 DEF ResetFailures, Afresh
  <2> DEFINE r == [checks[c] EXCEPT !.phase = "unlock"]
  <2>4. CheckTo(c, r)
    BY <2>3, GoToEffect DEF Phases, PinPhases
  <2>5. r.phase = "unlock"
    BY <1>0 DEF CheckRecord
  <2> HIDE DEF r
  <2> QED
    BY <1>0, <2>3, <2>4, <2>5 DEF CountInv, OneCounts, SeenIsCount, At, CheckTo
<1>12. CASE \E c \in Checks : CountFailure(c)
  <2>1. PICK c \in Checks : CountFailure(c)
    BY <1>12
  <2>2. SUFFICES ASSUME answered' # Lost
                 PROVE  CountInv'
    BY DEF CountInv
  <2>3. PICK p \in {"cool", "told"} : Forget(c, p)
    BY <2>1 DEF CountFailure
  <2>4. At(c, "count") /\ failures' = Counted(checks[c].seen) /\ answered' = answered
    BY <2>1 DEF CountFailure, history
  <2> DEFINE r == [checks[c] EXCEPT !.phase = p, !.right = FALSE, !.seen = 0]
  <2>5. CheckTo(c, r)
    BY <2>3, ForgetEffect DEF Phases, PinPhases
  <2>6. r.phase = p
    BY <1>0 DEF CheckRecord
  <2>7. \A d \in Checks \ {c} : checks[d].phase \notin Counting
    BY <1>0, <2>2, <2>4 DEF CountInv, OneCounts, At
  <2>8. failures' = answered'
    BY <2>2, <2>4 DEF CountInv, SeenIsCount
  <2> HIDE DEF r
  <2> QED
    BY <1>0, <2>5, <2>6, <2>7, <2>8 DEF CountInv, OneCounts, SeenIsCount, At, CheckTo
<1>13. CASE \E c \in Checks : ClearPinStep(c)
  <2>1. PICK c \in Checks : ClearPinStep(c)
    BY <1>13
  <2>2. CASE At(c, "clear") /\ GoTo(c, "clear2") /\ UNCHANGED <<failures, answered>>
    <3>1. CheckTo(c, [checks[c] EXCEPT !.phase = "clear2"])
      BY <2>2, GoToEffect DEF Phases, PinPhases
    <3>2. [checks[c] EXCEPT !.phase = "clear2"].phase = "clear2"
      BY <1>0 DEF CheckRecord
    <3> QED
      BY <1>0, <2>2, <3>1, <3>2, OthersAreQuiet DEF At
  <2>3. CASE At(c, "clear2") /\ failures' = 0 /\ answered' = Afresh(c) /\ Over(c)
    <3>1. SUFFICES ASSUME answered' # Lost
                   PROVE  CountInv'
      BY DEF CountInv
    <3>2. answered' = 0 /\ \A d \in Checks \ {c} : checks[d].phase \notin Counting
      BY <1>0, <2>3, <3>1 DEF Afresh
    <3>3. CheckTo(c, Idle)
      BY <2>3, OverEffect
    <3> QED
      BY <1>0, <2>3, <3>2, <3>3 DEF CountInv, OneCounts, SeenIsCount, At, CheckTo
  <2> QED
    BY <2>1, <2>2, <2>3 DEF ClearPinStep, ClearPin
<1> QED
  BY <1>1, <1>2, <1>3, <1>4, <1>5, <1>6, <1>7, <1>8, <1>9, <1>10, <1>11, <1>12, <1>13
     DEF LockNext, CheckStep, AppBegins, WalletBegins

\* The invariant holds in every reachable state.
LEMMA LockInvHolds == LockSpec => []LockInv
<1>1. LockInv /\ [LockNext]_lockVars => LockInv'
  BY LockTypesKept, AppKept, TabsKept, LateKept, CountKept DEF LockInv
<1> QED
  BY <1>1, LockStarts, PTL DEF LockSpec

\* The locks, the screens and the checks are well typed, for any number of checks under way.
THEOREM LockTypeCorrect == LockSpec => []LockTypeOK
<1>1. LockInv => LockTypeOK
  BY LockTypesMean DEF LockInv
<1> QED
  BY <1>1, LockInvHolds, PTL

\* Every wrong PIN is in the count unless two checks overlapped or the app was killed, for
\* any number of checks and any thresholds of the cool-down and of the offer to wipe.
THEOREM CountIsLostOnlyToOverlap == LockSpec => []CountLostOnlyToOverlap
<1>1. LockInv => CountLostOnlyToOverlap
  BY DEF LockInv, CountInv, CountLostOnlyToOverlap
<1> QED
  BY <1>1, LockInvHolds, PTL

\* An app left in the background is locked, unless a check or a setup opened it there.
THEOREM IsLeftOpenOnlyLate == LockSpec => []LeftOpenOnlyLate
<1>1. LockInv => LeftOpenOnlyLate
  BY DEF LockInv, LateInv
<1> QED
  BY <1>1, LockInvHolds, PTL

-----------------------------------------------------------------------------
(* The doors' promise *)

BothDoors == {"app", "wallet"}

\* The abstract doors of a state: the ones that are open, and for each the checks that have
\* passed and not opened it yet.
OpenDoors == (IF app = "authenticated" THEN {"app"} ELSE {})
               \cup (IF tab.unlocked THEN {"wallet"} ELSE {})
Passes(r, d) == r.door = d /\ r.phase = "passed" /\ (d = "wallet" => r.home # "void")
Passed(d) == {c \in Checks : Passes(checks[c], d)}
Given == [d \in BothDoors |-> Cardinality(Passed(d))]

\* Only finitely many checks are under way, so that those that have passed can be counted.
LEMMA PassedFinite ==
  ASSUME NEW d
  PROVE  IsFiniteSet(Passed(d)) /\ Cardinality(Passed(d)) \in Nat
<1>1. IsFiniteSet(Passed(d))
  BY LockAssumption, FS_Subset DEF Passed
<1> QED
  BY <1>1, FS_CardinalityType

\* The steps of the abstract doors, as changes of the sets they count.
LEMMA DoorProved ==
  ASSUME NEW d \in BothDoors, NEW c, c \notin Passed(d), Passed(d)' = Passed(d) \cup {c},
         \A e \in BothDoors \ {d} : Passed(e)' = Passed(e),
         OpenDoors' = OpenDoors
  PROVE  Promised!Prove(d)
<1>1. Cardinality(Passed(d)') = Cardinality(Passed(d)) + 1
  BY PassedFinite, FS_AddElement
<1>2. Given' = [Given EXCEPT ![d] = @ + 1]
  BY <1>1 DEF Given
<1> QED
  BY <1>2 DEF Given, OpenDoors, Passed, Passes, At, BothDoors, Promised!Prove

\* A door is opened by a check that has passed, which is used up.
LEMMA DoorOpened ==
  ASSUME NEW d \in BothDoors, NEW c \in Passed(d), Passed(d)' = Passed(d) \ {c},
         \A e \in BothDoors \ {d} : Passed(e)' = Passed(e),
         d = "wallet" => "app" \in OpenDoors,
         OpenDoors' = OpenDoors \cup {d}
  PROVE  Promised!Open(d)
<1>1. Cardinality(Passed(d)') = Cardinality(Passed(d)) - 1
  BY PassedFinite, FS_RemoveElement
<1>2. Given' = [Given EXCEPT ![d] = @ - 1]
  BY <1>1 DEF Given
<1>3. Given[d] > 0
  <2>1. Cardinality(Passed(d)) # 0
    BY PassedFinite, FS_EmptySet
  <2> QED
    BY <2>1, PassedFinite DEF Given
<1> QED
  BY <1>2, <1>3 DEF Given, OpenDoors, Passed, Passes, At, BothDoors, Promised!Open

\* The app is closed, and what was proved to the wallet is void.
LEMMA AppClosed ==
  ASSUME Passed("app")' = Passed("app"), Passed("wallet")' = {}, OpenDoors' = {}
  PROVE  Promised!CloseApp
<1>1. Given' = [Given EXCEPT !["wallet"] = 0]
  BY FS_EmptySet DEF Given, BothDoors
<1> QED
  BY <1>1 DEF Given, OpenDoors, Passed, Passes, At, BothDoors, Promised!CloseApp

\* The app is restarted: nothing is open and nothing proved.
LEMMA DoorsRestarted ==
  ASSUME \A d \in BothDoors : Passed(d)' = {}, OpenDoors' = {}
  PROVE  Promised!Restart
<1>1. Given' = [d \in BothDoors |-> 0]
  BY FS_EmptySet DEF Given
<1> QED
  BY <1>1 DEF Given, OpenDoors, Passed, Passes, At, BothDoors, Promised!Restart, Promised!Doors

\* What leaves both sets alone is a step of neither door, or shuts the wallet's.
LEMMA DoorsLeft ==
  ASSUME \A d \in BothDoors : Passed(d)' = Passed(d),
         OpenDoors' = OpenDoors \/ OpenDoors' = OpenDoors \ {"wallet"}
  PROVE  [Promised!DoorNext]_(Promised!doorVars)
<1>1. Given' = Given
  BY DEF Given
<1>2. CASE OpenDoors' = OpenDoors
  BY <1>1, <1>2 DEF Given, OpenDoors, Passed, Passes, At, BothDoors, Promised!doorVars
<1>3. CASE OpenDoors' = OpenDoors \ {"wallet"}
  <2>1. Promised!CloseWallet
    BY <1>1, <1>3 DEF Given, OpenDoors, Passed, Passes, At, BothDoors, Promised!CloseWallet
  <2> QED
    BY <2>1 DEF Promised!DoorNext
<1> QED
  BY <1>2, <1>3

\* To begin with nothing is open and nothing proved.
LEMMA DoorsStart == LockInit => Promised!DoorInit
<1> SUFFICES ASSUME LockInit
             PROVE  Promised!DoorInit
  OBVIOUS
<1>1. \A d \in BothDoors : Passed(d) = {}
  BY DEF LockInit, Passed, Passes, Idle
<1>2. Given = [d \in BothDoors |-> 0]
  BY <1>1, FS_EmptySet DEF Given
<1>3. OpenDoors = {}
  BY DEF LockInit, OpenDoors, NoTab
<1> QED
  BY <1>2, <1>3 DEF Given, OpenDoors, Passed, Passes, At, BothDoors, Promised!DoorInit,
     Promised!Doors

\* What a check that becomes r does to those that have passed.
LEMMA PassedTo ==
  ASSUME NEW c \in Checks, NEW r, CheckTo(c, r), NEW d
  PROVE  Passed(d)' = IF Passes(r, d) THEN Passed(d) \cup {c} ELSE Passed(d) \ {c}
  BY DEF CheckTo, Passed

\* What Rehomed does to them.
LEMMA PassedRehomed ==
  ASSUME LockTypes
  PROVE  /\ \A c \in Checks, home \in {"gone", "void"}, door \in BothDoors, d \in BothDoors :
              d # door \/ home = "gone" \/ d = "app"
                => (Passes(Rehomed(door, home)[c], d) <=> Passes(checks[c], d))
         /\ \A c \in Checks : ~Passes(Rehomed("wallet", "void")[c], "wallet")
<1>1. \A c \in Checks : checks[c] \in CheckRecord
  BY DEF LockTypes
<1>2. \A r \in CheckRecord, home \in {"gone", "void"} :
         /\ [r EXCEPT !.home = home].door = r.door
         /\ [r EXCEPT !.home = home].phase = r.phase
         /\ [r EXCEPT !.home = home].home = home
  BY DEF CheckRecord
<1>3. ASSUME NEW c \in Checks, NEW home \in {"gone", "void"}, NEW door \in BothDoors
      PROVE  \/ /\ checks[c].door = door /\ checks[c].home # "void"
                /\ Rehomed(door, home)[c].door = door
                /\ Rehomed(door, home)[c].phase = checks[c].phase
                /\ Rehomed(door, home)[c].home = home
             \/ /\ ~(checks[c].door = door /\ checks[c].home # "void")
                /\ Rehomed(door, home)[c] = checks[c]
  <2>1. CASE checks[c].door = door /\ checks[c].home # "void"
    <3>1. Rehomed(door, home)[c] = [checks[c] EXCEPT !.home = home]
      BY <2>1, RehomedEffect
    <3> QED
      BY <1>1, <1>2, <2>1, <3>1
  <2>2. CASE ~(checks[c].door = door /\ checks[c].home # "void")
    BY <2>2, RehomedEffect
  <2> QED
    BY <2>1, <2>2
<1> QED
  BY <1>3 DEF Passes, BothDoors

\* Each step of the locks is one of the doors, or of neither.
LEMMA StepImplementsDoors ==
  ASSUME LockTypes, TabsInv, [LockNext]_lockVars
  PROVE  [Promised!DoorNext]_(Promised!doorVars)
<1>0. Idle.door = "none" /\ Idle.phase = "idle" /\ \A d \in BothDoors : ~Passes(Idle, d)
  BY DEF Idle, Passes, BothDoors
<1>1. CASE \/ Launch \/ Startup \/ Effects \/ Background \/ Foreground \/ Tick
           \/ Blur \/ EnableKeypad
           \/ UNCHANGED lockVars
  <2>1. /\ checks' = checks /\ (tab'.unlocked <=> tab.unlocked)
        /\ app' = "authenticated" <=> app = "authenticated"
    BY <1>1 DEF Launch, Startup, Effects, Background, Foreground, Tick, Blur, EnableKeypad,
       lockVars, authVars, screens, LockTypes, TabRecord
  <2> QED
    BY <2>1, DoorsLeft DEF Passed, OpenDoors
<1>2. CASE Focus \/ PressLock
  <2>1. checks' = checks /\ app' = app /\ ~tab'.unlocked
    BY <1>2 DEF Focus, PressLock, Relocked, authVars, LockTypes, TabRecord
  <2>2. OpenDoors' = OpenDoors \ {"wallet"}
    BY <2>1 DEF OpenDoors
  <2> QED
    BY <2>1, <2>2, DoorsLeft DEF Passed
<1>3. CASE SetUnauthenticated
  <2>1. CASE app = "authenticated"
    <3>1. checks' = Rehomed("wallet", "void") /\ tab' = NoTab /\ app' = "unauthenticated"
      BY <1>3, <2>1 DEF SetUnauthenticated, TabsDown
    <3>2. Passed("app")' = Passed("app") /\ Passed("wallet")' = {}
      BY <3>1, PassedRehomed DEF Passed, BothDoors
    <3>3. OpenDoors' = {}
      BY <3>1 DEF OpenDoors, NoTab
    <3> QED
      BY <3>2, <3>3, AppClosed DEF Promised!DoorNext
  <2>2. CASE app # "authenticated"
    <3>1. checks' = checks /\ tab' = tab /\ app' = "unauthenticated" /\ ~tab.unlocked
      BY <1>3, <2>2 DEF SetUnauthenticated, screens, TabsInv
    <3> QED
      BY <2>2, <3>1, DoorsLeft DEF Passed, OpenDoors
  <2> QED
    BY <2>1, <2>2
<1>4. CASE Kill
  <2>1. tab' = NoTab /\ app' = "off" /\ \A c \in Checks : checks'[c] = Idle
    BY <1>4 DEF Kill
  <2>2. \A d \in BothDoors : Passed(d)' = {}
    BY <1>0, <2>1 DEF Passed
  <2>3. OpenDoors' = {}
    BY <2>1 DEF OpenDoors, NoTab
  <2> QED
    BY <2>2, <2>3, DoorsRestarted DEF Promised!DoorNext
<1>5. CASE \E c \in Checks : OnAuthenticated(c)
  <2>1. PICK c \in Checks : OnAuthenticated(c)
    BY <1>5
  <2>2. /\ checks[c].door = "app" /\ checks[c].phase = "passed"
        /\ checks' = [Rehomed("app", "gone") EXCEPT ![c] = Idle]
        /\ app' = "authenticated" /\ tab' = tab
    BY <2>1 DEF OnAuthenticated, At
  <2>3. checks'[c] = Idle /\ \A d \in Checks \ {c} : checks'[d] = Rehomed("app", "gone")[d]
    BY <2>2, RehomedEffect
  <2>4. \A d \in BothDoors : Passed(d)' = Passed(d) \ {c}
    BY <1>0, <2>3, PassedRehomed DEF Passed, BothDoors
  <2>5. c \in Passed("app") /\ c \notin Passed("wallet")
    BY <2>2 DEF Passed, Passes
  <2>6. OpenDoors' = OpenDoors \cup {"app"}
    BY <2>2 DEF OpenDoors
  <2>7. Promised!Open("app")
    BY <2>4, <2>5, <2>6, DoorOpened DEF BothDoors
  <2> QED
    BY <2>7 DEF Promised!DoorNext, Promised!Doors
<1>6. CASE \E c \in Checks : OnUnlock(c)
  <2>1. PICK c \in Checks : OnUnlock(c)
    BY <1>6
  <2>2. checks[c].door = "wallet" /\ checks[c].phase = "passed" /\ app' = app
    BY <2>1 DEF OnUnlock, At, authVars
  <2>3. CASE checks[c].home # "void"
    <3>1. /\ checks' = [Rehomed("wallet", "gone") EXCEPT ![c] = Idle]
          /\ tab' = [tab EXCEPT !.unlocked = TRUE]
      BY <2>1, <2>3 DEF OnUnlock
    <3>2. checks'[c] = Idle /\ \A d \in Checks \ {c} : checks'[d] = Rehomed("wallet", "gone")[d]
      BY <3>1, RehomedEffect
    <3>3. \A d \in BothDoors : Passed(d)' = Passed(d) \ {c}
      BY <1>0, <3>2, PassedRehomed DEF Passed, BothDoors
    <3>4. c \in Passed("wallet") /\ c \notin Passed("app")
      BY <2>2, <2>3 DEF Passed, Passes
    <3>5. app = "authenticated"
      BY <2>2, <2>3 DEF TabsInv
    <3>6. OpenDoors' = OpenDoors \cup {"wallet"} /\ "app" \in OpenDoors
      BY <2>2, <3>1, <3>5 DEF OpenDoors, LockTypes, TabRecord
    <3>7. Promised!Open("wallet")
      BY <3>3, <3>4, <3>6, DoorOpened DEF BothDoors
    <3> QED
      BY <3>7 DEF Promised!DoorNext, Promised!Doors
  <2>4. CASE checks[c].home = "void"
    <3>1. checks' = [checks EXCEPT ![c] = Idle] /\ tab' = tab
      BY <2>1, <2>4 DEF OnUnlock
    <3>2. CheckTo(c, Idle)
      BY <3>1, LockBlanks, CheckToEffect
    <3>3. \A d \in BothDoors : Passed(d)' = Passed(d) \ {c} /\ c \notin Passed(d)
      BY <1>0, <2>2, <2>4, <3>2, PassedTo DEF Passed, Passes, BothDoors
    <3> QED
      BY <2>2, <3>1, <3>3, DoorsLeft DEF OpenDoors
  <2> QED
    BY <2>3, <2>4
<1>7. ASSUME NEW c \in Checks, NEW r \in CheckRecord, CheckTo(c, r), checks[c].phase # "passed",
             app' = app, tab'.unlocked = tab.unlocked
      PROVE  [Promised!DoorNext]_(Promised!doorVars)
  <2>1. \A d \in BothDoors : c \notin Passed(d)
    BY <1>7 DEF Passed, Passes
  <2>2. OpenDoors' = OpenDoors
    BY <1>7 DEF OpenDoors
  <2>3. ASSUME NEW d \in BothDoors, Passes(r, d)
        PROVE  Promised!Prove(d)
    <3>1. \A e \in BothDoors \ {d} : ~Passes(r, e)
      BY <2>3 DEF Passes
    <3>2. Passed(d)' = Passed(d) \cup {c}
      BY <1>7, <2>3, PassedTo
    <3>3. ASSUME NEW e \in BothDoors \ {d}
          PROVE  Passed(e)' = Passed(e)
      <4>1. Passed(e)' = Passed(e) \ {c}
        BY <1>7, <3>1, PassedTo
      <4> QED
        BY <2>1, <4>1
    <3> QED
      BY <2>1, <2>2, <3>2, <3>3, DoorProved
  <2>4. CASE \E d \in BothDoors : Passes(r, d)
    BY <2>3, <2>4 DEF Promised!DoorNext, Promised!Doors, BothDoors
  <2>5. CASE \A d \in BothDoors : ~Passes(r, d)
    <3>1. \A d \in BothDoors : Passed(d)' = Passed(d)
      BY <1>7, <2>1, <2>5, PassedTo
    <3> QED
      BY <2>2, <3>1, DoorsLeft
  <2> QED
    BY <2>4, <2>5
<1>8. CASE \E c \in Checks : Continues(c)
  <2>1. PICK c \in Checks : Continues(c)
    BY <1>8
  <2>2. /\ checks[c].phase # "passed" /\ \E r \in CheckRecord : CheckTo(c, r)
        /\ app' = app /\ tab'.unlocked = tab.unlocked
    BY <2>1, CheckGoesOn
  <2> QED
    BY <1>7, <2>2
<1>9. CASE \E c \in Checks : AppBegins(c) \/ WalletBegins(c)
  <2>1. PICK c \in Checks : AppBegins(c) \/ WalletBegins(c)
    BY <1>9
  <2>2. app' = app
    BY <2>1
       DEF AppBegins, WalletBegins, CompleteWalletSetup, AutoPrompt, PressUnlock, Detect,
           TryBiometric,
       HandlePinDigit, PressDigit, authVars
  <2>3. tab'.unlocked = tab.unlocked
    BY <2>1
       DEF AppBegins, WalletBegins, CompleteWalletSetup, AutoPrompt, PressUnlock, Detect,
           TryBiometric,
       HandlePinDigit, PressDigit, screens, LockTypes, TabRecord
  <2>4. \/ checks' = checks
        \/ checks[c] = Idle /\ \E r \in CheckRecord : CheckTo(c, r)
    BY <2>1, BeginsUncounted
  <2>5. CASE checks' = checks
    BY <2>2, <2>3, <2>5, DoorsLeft DEF Passed, OpenDoors
  <2> QED
    BY <1>0, <1>7, <2>2, <2>3, <2>4, <2>5
<1> QED
  BY <1>1, <1>2, <1>3, <1>4, <1>5, <1>6, <1>8, <1>9
     DEF LockNext, CheckStep, Continues, AppBegins, WalletBegins

\* Both locks follow the abstract doors: each opening uses up a proof given for the door.
THEOREM LocksAreDoors == LockSpec => ImplementsDoors
<1>1. LockInv /\ [LockNext]_lockVars => [Promised!DoorNext]_(Promised!doorVars)
  BY StepImplementsDoors DEF LockInv
<1> QED
  BY <1>1, DoorsStart, LockInvHolds, PTL DEF LockSpec, ImplementsDoors, Promised!DoorSpec
=============================================================================
