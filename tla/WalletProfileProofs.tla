------------------------- MODULE WalletProfileProofs --------------------------
(***************************************************************************)
(* Proofs about WalletProfile, for any values of a name and an email, and  *)
(* any number of saves and of readings under way at once.                  *)
(*                                                                         *)
(* The invariant has a part for the service and the device and one for the *)
(* screens.  In the first, AloneInv says what a save knows that no other   *)
(* has overlapped: while it is asked for, that the service has what the    *)
(* device has; between the look-up and the update, the row of the service; *)
(* and from then on that the service has what it will write on the device. *)
(* RowInv is needed for the update of single columns: the row that a save  *)
(* has found is never dropped.                                             *)
(*                                                                         *)
(* In the second, LoadInv says of a reading that will be shown that the    *)
(* settings are in focus, and that it has what the device holds, unless    *)
(* the settings are marked as behind.                                      *)
(***************************************************************************)
EXTENDS WalletProfile, TLAPS

MaybeProfile == Profiles \cup {NoRow}
EditRecord == [up : BOOLEAN, saving : BOOLEAN, profile : MaybeProfile]
SettingsRecord == [up : BOOLEAN, loading : BOOLEAN, profile : MaybeProfile]
SaveRecord ==
  [phase : {"idle", "posted", "found", "stored", "refused", "write"},
   home : {"here", "gone", "void"}, data : MaybeProfile, row : MaybeProfile,
   alone : BOOLEAN, was : BOOLEAN]
LoadRecord == [phase : {"idle", "read", "set"}, active : BOOLEAN, profile : MaybeProfile]

SharedTypes == registered \in MaybeProfile /\ local \in Profiles /\ whole \in BOOLEAN
SavesTypes == saves \in [Saves -> SaveRecord]
ScreensTypes ==
  /\ edit \in EditRecord /\ settings \in SettingsRecord
  /\ loads \in [Loads -> LoadRecord]
  /\ behind \in BOOLEAN

\* The type invariant, in the parts that the steps touch.
LEMMA ProfileTypesMean == ProfileTypeOK <=> SharedTypes /\ SavesTypes /\ ScreensTypes
  BY DEF ProfileTypeOK, SharedTypes, SavesTypes, ScreensTypes, MaybeProfile, EditRecord,
     SettingsRecord, SaveRecord, LoadRecord

\* A save that is under way.
Out(s) == saves[s].phase # "idle"

\* A save that runs alone, and has been so since device and service held the same, knows what
\* the service has.
AloneInv ==
  \A s \in Saves :
    /\ Out(s) => saves[s].data \in Profiles
    /\ saves[s].was => saves[s].alone
    /\ saves[s].alone => Out(s) /\ \A t \in Saves : Out(t) => t = s
    /\ saves[s].was /\ saves[s].phase \in {"posted", "found", "refused"} => registered = local
    /\ saves[s].alone /\ saves[s].phase = "found" => saves[s].row = registered
    /\ saves[s].alone /\ saves[s].phase \in {"stored", "write"} => registered = saves[s].data

\* Device and service hold the same only while no save is under way.
StepInv == whole => registered = local /\ \A s \in Saves : ~Out(s)

\* A reading that will be shown belongs to settings in focus, and has what the device holds.
LoadInv ==
  \A l \in Loads : loads[l].active =>
    /\ settings.up
    /\ loads[l].phase = "set" /\ ~behind => loads[l].profile = local

\* The service never drops the row that a save has found.
RowInv == \A s \in Saves : saves[s].row # NoRow => registered # NoRow

ServiceInv == SharedTypes /\ SavesTypes /\ AloneInv /\ StepInv /\ RowInv
ScreensInv == local \in Profiles /\ ScreensTypes /\ LoadInv /\ SettingsShowTheProfile

ProfileInv == ServiceInv /\ ScreensInv

-----------------------------------------------------------------------------
(* The screens *)

\* The values the screens start from are of their types.
LEMMA ProfileBlanks ==
  /\ NoRow \in MaybeProfile /\ Profiles \subseteq MaybeProfile
  /\ NoEdit \in EditRecord
  /\ NoSettings \in SettingsRecord /\ ~NoSettings.up
  /\ Idle \in SaveRecord /\ Idle.phase = "idle" /\ ~Idle.alone /\ ~Idle.was
  /\ Idle.row = NoRow
  /\ Unread \in LoadRecord /\ ~Unread.active
  BY DEF MaybeProfile, NoEdit, EditRecord, NoSettings, SettingsRecord, Idle, SaveRecord,
     Unread, LoadRecord

\* No profile is taken for a missing row.
LEMMA NoRowIsNone == NoRow \notin Profiles
<1> SUFFICES ASSUME NoRow \in Profiles PROVE FALSE
  OBVIOUS
<1>1. DOMAIN NoRow = {"name", "email"}
  BY DEF Profiles
<1>2. DOMAIN NoRow = {"name"}
  BY DEF NoRow
<1>3. "email" \in {"name", "email"} /\ "email" \notin {"name"}
  OBVIOUS
<1> QED
  BY <1>1, <1>2, <1>3

\* Without focus no reading will be shown.
LEMMA BlurredEffect ==
  ASSUME ScreensTypes
  PROVE  /\ Blurred \in [Loads -> LoadRecord]
         /\ \A l \in Loads : ~Blurred[l].active
<1>1. \A l \in Loads : loads[l] \in LoadRecord
  BY DEF ScreensTypes
<1>2. \A r \in LoadRecord : /\ [r EXCEPT !.active = FALSE] \in LoadRecord
                            /\ ~[r EXCEPT !.active = FALSE].active
  BY DEF LoadRecord
<1>3. \A l \in Loads : Blurred[l] \in LoadRecord /\ ~Blurred[l].active
  BY <1>1, <1>2 DEF Blurred
<1> QED
  BY <1>3 DEF Blurred

\* Screens taken out of focus, or down, show nothing.
LEMMA BlurKeeps ==
  ASSUME ScreensInv, local' \in Profiles, edit' \in EditRecord, settings' \in SettingsRecord,
         ~settings'.up, behind' \in BOOLEAN,
         loads' = Blurred \/ loads' = [l \in Loads |-> Unread]
  PROVE  ScreensInv'
<1>1. loads' \in [Loads -> LoadRecord] /\ \A l \in Loads : ~loads'[l].active
  BY BlurredEffect, ProfileBlanks DEF ScreensInv
<1> QED
  BY <1>1 DEF ScreensInv, ScreensTypes, LoadInv, SettingsShowTheProfile

\* Settings that come into focus wait for a reading of their own.
LEMMA FocusKeeps ==
  ASSUME ScreensInv, local' \in Profiles, edit' \in EditRecord, NEW l \in Loads, Focused(l)
  PROVE  ScreensInv'
<1>1. /\ Blurred \in [Loads -> LoadRecord] /\ \A k \in Loads : ~Blurred[k].active
      /\ settings \in SettingsRecord
  BY BlurredEffect DEF ScreensInv, ScreensTypes
<1> DEFINE r == [Unread EXCEPT !.phase = "read", !.active = TRUE]
<1>2. r \in LoadRecord /\ r.phase = "read"
  BY ProfileBlanks DEF Unread, LoadRecord
<1>3. loads' = [Blurred EXCEPT ![l] = r] /\ behind' = FALSE
  BY DEF Focused
<1> HIDE DEF r
<1>4. /\ loads' \in [Loads -> LoadRecord] /\ loads'[l].phase = "read"
      /\ \A k \in Loads : k # l => ~loads'[k].active
  BY <1>1, <1>2, <1>3
<1>5. settings' \in SettingsRecord /\ settings'.up /\ settings'.loading
  BY <1>1 DEF Focused, SettingsRecord
<1> QED
  BY <1>3, <1>4, <1>5 DEF ScreensInv, ScreensTypes, LoadInv, SettingsShowTheProfile

\* A reading goes on: it takes what the device holds, or is shown if it is still active.
LEMMA LoadKeeps ==
  ASSUME ScreensInv, NEW l \in Loads, GetWalletProfile(l) \/ SetProfile(l)
  PROVE  ScreensInv'
<1>1. /\ loads \in [Loads -> LoadRecord] /\ loads[l] \in LoadRecord
      /\ settings \in SettingsRecord /\ loads[l].profile \in MaybeProfile
      /\ local \in MaybeProfile
  BY ProfileBlanks DEF ScreensInv, ScreensTypes, LoadRecord
<1>2. ASSUME GetWalletProfile(l) PROVE ScreensInv'
  <2> DEFINE r == [loads[l] EXCEPT !.phase = "set", !.profile = local]
  <2>1. r \in LoadRecord /\ r.active = loads[l].active /\ r.profile = local
    BY <1>1 DEF LoadRecord
  <2>2. loads' = [loads EXCEPT ![l] = r] /\ UNCHANGED <<local, edit, settings, behind>>
    BY <1>1, <1>2 DEF GetWalletProfile
  <2> HIDE DEF r
  <2>3. /\ loads' \in [Loads -> LoadRecord] /\ loads'[l] = r
        /\ \A k \in Loads : k # l => loads'[k] = loads[k]
    BY <1>1, <2>1, <2>2
  <2> QED
    BY <2>1, <2>2, <2>3 DEF ScreensInv, ScreensTypes, LoadInv, SettingsShowTheProfile
<1>3. ASSUME SetProfile(l) PROVE ScreensInv'
  <2>1. /\ loads' = [loads EXCEPT ![l] = Unread] /\ UNCHANGED <<local, edit, behind>>
        /\ loads[l].phase = "set"
    BY <1>3 DEF SetProfile
  <2>2. /\ loads' \in [Loads -> LoadRecord] /\ ~loads'[l].active
        /\ \A k \in Loads : k # l => loads'[k] = loads[k]
    BY <1>1, <2>1, ProfileBlanks
  <2>3. CASE loads[l].active
    <3>1. settings' = [settings EXCEPT !.loading = FALSE, !.profile = loads[l].profile]
      BY <1>3, <2>3 DEF SetProfile
    <3>2. /\ settings' \in SettingsRecord /\ settings'.up = settings.up
          /\ settings'.profile = loads[l].profile
      BY <1>1, <3>1 DEF SettingsRecord
    <3>3. ~behind => loads[l].profile = local
      BY <2>1, <2>3 DEF ScreensInv, LoadInv
    <3> QED
      BY <2>1, <2>2, <3>2, <3>3 DEF ScreensInv, ScreensTypes, LoadInv, SettingsShowTheProfile
  <2>4. CASE ~loads[l].active
    <3>1. settings' = settings
      BY <1>3, <2>4 DEF SetProfile
    <3> QED
      BY <2>1, <2>2, <3>1 DEF ScreensInv, ScreensTypes, LoadInv, SettingsShowTheProfile
  <2> QED
    BY <2>3, <2>4
<1> QED
  BY <1>2, <1>3

\* What does not touch the settings, their readings or the device's profile.
LEMMA EditKeeps ==
  ASSUME ScreensInv, edit' \in EditRecord, UNCHANGED <<local, settings, loads, behind>>
  PROVE  ScreensInv'
  BY DEF ScreensInv, ScreensTypes, LoadInv, SettingsShowTheProfile

\* A save that writes on the device has the settings read it anew, or marks them behind.
LEMMA WriteKeepsScreens ==
  ASSUME ScreensInv, SavesTypes, AloneInv, NEW s \in Saves, NEW l \in Loads,
         UpdateWalletProfile(s, l)
  PROVE  ScreensInv'
<1>1. local' = saves[s].data /\ local' \in Profiles
  BY DEF UpdateWalletProfile, At, AloneInv, Out
<1>2. CASE /\ behind' = (behind \/ settings.up)
           /\ UNCHANGED <<edit, settings, loads>>
  <2>1. behind' \in BOOLEAN /\ (settings.up => behind')
    BY <1>2 DEF ScreensInv, ScreensTypes
  <2> QED
    BY <1>1, <1>2, <2>1 DEF ScreensInv, ScreensTypes, LoadInv, SettingsShowTheProfile
<1>3. CASE edit' = NoEdit /\ Focused(l)
  BY <1>1, <1>3, ProfileBlanks, FocusKeeps
<1>4. CASE settings' = [settings EXCEPT !.up = FALSE] /\ loads' = Blurred /\ UNCHANGED <<edit, behind>>
  <2>1. settings' \in SettingsRecord /\ ~settings'.up
    BY <1>4 DEF ScreensInv, ScreensTypes, SettingsRecord
  <2> QED
    BY <1>1, <1>4, <2>1, BlurKeeps DEF ScreensInv, ScreensTypes
<1> QED
  BY <1>2, <1>3, <1>4 DEF UpdateWalletProfile

\* The screens keep their part of the invariant, whatever the service does.
LEMMA ScreensKeep ==
  ASSUME ScreensInv, SavesTypes, AloneInv, ProfileNext
  PROVE  ScreensInv'
<1>1. /\ local \in Profiles /\ local \in MaybeProfile
      /\ edit \in EditRecord /\ settings \in SettingsRecord
      /\ behind \in BOOLEAN
  BY ProfileBlanks DEF ScreensInv, ScreensTypes
<1>2. /\ \A b \in BOOLEAN : [edit EXCEPT !.saving = b] \in EditRecord
      /\ [edit EXCEPT !.profile = local] \in EditRecord
      /\ [NoEdit EXCEPT !.up = TRUE] \in EditRecord
      /\ [settings EXCEPT !.up = FALSE] \in SettingsRecord
      /\ ~[settings EXCEPT !.up = FALSE].up
  BY <1>1 DEF EditRecord, SettingsRecord, NoEdit, MaybeProfile
<1>3. ASSUME Blur \/ PressEdit PROVE ScreensInv'
  BY <1>1, <1>2, <1>3, BlurKeeps DEF Blur, PressEdit
<1>4. ASSUME Lock \/ Kill PROVE ScreensInv'
  BY <1>1, <1>4, ProfileBlanks, BlurKeeps DEF Lock, Kill
<1>5. ASSUME LoadProfile PROVE ScreensInv'
  BY <1>1, <1>2, <1>5, EditKeeps DEF LoadProfile
<1>6. ASSUME NEW l \in Loads, Focus(l) \/ GoBackFromEdit(l) PROVE ScreensInv'
  BY <1>1, <1>6, ProfileBlanks, FocusKeeps DEF Focus, GoBackFromEdit
<1>7. ASSUME NEW s \in Saves, VerifyOwnershipProof(s) \/ RegisterExternal(s) \/ Answered(s)
      PROVE  ScreensInv'
  BY <1>1, <1>7, EditKeeps DEF VerifyOwnershipProof, RegisterExternal, Answered, Screens
<1>8. ASSUME NEW s \in Saves, SaveFails(s) PROVE ScreensInv'
  <2> DEFINE b == edit.saving /\ saves[s].home # "here"
  <2>1. b \in BOOLEAN /\ edit' = [edit EXCEPT !.saving = b]
    BY <1>8 DEF SaveFails
  <2> HIDE DEF b
  <2> QED
    BY <1>2, <1>8, <2>1, EditKeeps DEF SaveFails
<1>9. ASSUME NEW s \in Saves, NEW data \in Profiles, Save(s, data) PROVE ScreensInv'
  BY <1>2, <1>9, EditKeeps DEF Save, PostSave
<1> QED
  BY <1>3, <1>4, <1>5, <1>6, <1>7, <1>8, <1>9, LoadKeeps, WriteKeepsScreens DEF ProfileNext

-----------------------------------------------------------------------------
(* The saves *)

\* A save whose screen goes keeps the rest of what it is.
LEMMA UnderEffect ==
  ASSUME SavesTypes, NEW home \in {"here", "gone", "void"}
  PROVE  /\ Under(home) \in [Saves -> SaveRecord]
         /\ \A s \in Saves : /\ Under(home)[s].phase = saves[s].phase
                             /\ Under(home)[s].data = saves[s].data
                             /\ Under(home)[s].row = saves[s].row
                             /\ Under(home)[s].alone = saves[s].alone
                             /\ Under(home)[s].was = saves[s].was
<1>1. \A s \in Saves : saves[s] \in SaveRecord
  BY DEF SavesTypes
<1>2. \A r \in SaveRecord : LET q == [r EXCEPT !.home = home]
                           IN /\ q \in SaveRecord /\ q.phase = r.phase /\ q.data = r.data
                              /\ q.row = r.row /\ q.alone = r.alone /\ q.was = r.was
  BY DEF SaveRecord
<1>3. \A s \in Saves : Under(home)[s] \in SaveRecord
  BY <1>1, <1>2 DEF Under
<1>4. Under(home) \in [Saves -> SaveRecord]
  BY <1>3 DEF Under
<1>5. \A s \in Saves : \/ Under(home)[s] = saves[s]
                       \/ Under(home)[s] = [saves[s] EXCEPT !.home = home]
  BY DEF Under
<1> QED
  BY <1>1, <1>2, <1>4, <1>5

\* Saves that are cut off, or are no longer alone for what is known, disturb nothing.
LEMMA SavesFade ==
  ASSUME ServiceInv, UNCHANGED <<registered, local, whole>>, saves' \in [Saves -> SaveRecord],
         \A s \in Saves :
           \/ saves'[s] = Idle
           \/ /\ saves'[s].phase = saves[s].phase
              /\ saves'[s].data = saves[s].data /\ saves'[s].row = saves[s].row
              /\ \/ saves'[s].alone = saves[s].alone /\ saves'[s].was = saves[s].was
                 \/ ~saves'[s].alone /\ ~saves'[s].was
  PROVE  ServiceInv'
<1>1. \A s \in Saves : Out(s)' => Out(s)
  BY ProfileBlanks DEF Out
<1>2. AloneInv'
  <2> SUFFICES ASSUME NEW s \in Saves
               PROVE  /\ Out(s)' => saves'[s].data \in Profiles
                      /\ saves'[s].was => saves'[s].alone
                      /\ saves'[s].alone => Out(s)' /\ \A t \in Saves : Out(t)' => t = s
                      /\ saves'[s].was /\ saves'[s].phase \in {"posted", "found", "refused"}
                           => registered = local
                      /\ saves'[s].alone /\ saves'[s].phase = "found" => saves'[s].row = registered
                      /\ saves'[s].alone /\ saves'[s].phase \in {"stored", "write"}
                           => registered = saves'[s].data
    BY DEF AloneInv
  <2>1. CASE saves'[s] = Idle
    BY <2>1, ProfileBlanks DEF Out
  <2>2. CASE saves'[s] # Idle
    BY <1>1, <2>2 DEF ServiceInv, AloneInv, Out
  <2> QED
    BY <2>1, <2>2
<1>3. RowInv'
  BY ProfileBlanks DEF ServiceInv, RowInv
<1> QED
  BY <1>1, <1>2, <1>3 DEF ServiceInv, SharedTypes, SavesTypes, StepInv

\* A save goes on: no other is alone while it does, so that all that matters is what it knows.
LEMMA SaveGoesOn ==
  ASSUME ServiceInv, NEW s \in Saves, Out(s), saves' \in [Saves -> SaveRecord],
         \A t \in Saves : t # s => /\ saves'[t].phase = saves[t].phase
                                   /\ saves'[t].data = saves[t].data
                                   /\ saves'[t].row = saves[t].row
                                   /\ saves'[t].alone = saves[t].alone
                                   /\ saves'[t].was = saves[t].was,
         registered # NoRow \/ saves'[s].row # NoRow => registered' # NoRow,
         Out(s)' => saves'[s].data \in Profiles,
         saves'[s].was => saves'[s].alone,
         saves'[s].alone => Out(s)' /\ saves[s].alone,
         saves'[s].was /\ saves'[s].phase \in {"posted", "found", "refused"} => registered' = local',
         saves'[s].alone /\ saves'[s].phase = "found" => saves'[s].row = registered',
         saves'[s].alone /\ saves'[s].phase \in {"stored", "write"}
           => registered' = saves'[s].data,
         SharedTypes',
         whole' => registered' = local' /\ ~Out(s)' /\ saves[s].alone
  PROVE  ServiceInv'
<1>1. \A t \in Saves : t # s => /\ Out(t)' <=> Out(t)
                                /\ ~saves'[t].alone /\ ~saves'[t].was
  BY DEF ServiceInv, AloneInv, Out
<1>2. saves[s].alone => \A t \in Saves : t # s => ~Out(t)'
  BY <1>1 DEF ServiceInv, AloneInv
<1>3. AloneInv'
  <2> SUFFICES ASSUME NEW u \in Saves
               PROVE  /\ Out(u)' => saves'[u].data \in Profiles
                      /\ saves'[u].was => saves'[u].alone
                      /\ saves'[u].alone => Out(u)' /\ \A t \in Saves : Out(t)' => t = u
                      /\ saves'[u].was /\ saves'[u].phase \in {"posted", "found", "refused"}
                           => registered' = local'
                      /\ saves'[u].alone /\ saves'[u].phase = "found" => saves'[u].row = registered'
                      /\ saves'[u].alone /\ saves'[u].phase \in {"stored", "write"}
                           => registered' = saves'[u].data
    BY DEF AloneInv
  <2>1. CASE u = s
    BY <1>2, <2>1
  <2>2. CASE u # s
    BY <1>1, <2>2 DEF ServiceInv, AloneInv
  <2> QED
    BY <2>1, <2>2
<1>4. StepInv'
  BY <1>2 DEF StepInv
<1>5. RowInv'
  BY DEF ServiceInv, RowInv
<1> QED
  BY <1>3, <1>4, <1>5 DEF ServiceInv, SavesTypes

\* The common case: only the one save changes.
LEMMA SaveBecomes ==
  ASSUME ServiceInv, NEW s \in Saves, Out(s), NEW r \in SaveRecord,
         saves' = [saves EXCEPT ![s] = r],
         registered # NoRow \/ r.row # NoRow => registered' # NoRow,
         r.phase # "idle" => r.data \in Profiles,
         r.was => r.alone,
         r.alone => r.phase # "idle" /\ saves[s].alone,
         r.was /\ r.phase \in {"posted", "found", "refused"} => registered' = local',
         r.alone /\ r.phase = "found" => r.row = registered',
         r.alone /\ r.phase \in {"stored", "write"} => registered' = r.data,
         SharedTypes',
         whole' => registered' = local' /\ r.phase = "idle" /\ saves[s].alone
  PROVE  ServiceInv'
<1>1. /\ saves' \in [Saves -> SaveRecord] /\ saves'[s] = r
      /\ \A t \in Saves : t # s => saves'[t] = saves[t]
  BY DEF ServiceInv, SavesTypes
<1>2. Out(s)' <=> r.phase # "idle"
  BY <1>1 DEF Out
<1> QED
  BY <1>1, <1>2, SaveGoesOn

\* A save starts: alone if no other is under way, and else no save is.
LEMMA SaveKeeps ==
  ASSUME ServiceInv, NEW s \in Saves, NEW data \in Profiles, Save(s, data)
  PROVE  ServiceInv'
<1>1. /\ SavesTypes /\ \A t \in Saves : saves[t] \in SaveRecord
  BY DEF ServiceInv, SavesTypes
<1> DEFINE others == {t \in Saves \ {s} : ~At(t, "idle")}
           single == (others = {})
           kept == whole /\ single
           r == [phase |-> "posted", home |-> "here", data |-> data, row |-> NoRow,
                 alone |-> single, was |-> kept]
<1>2. /\ saves' = [t \in Saves |-> IF t = s THEN r
                                   ELSE IF t \in others
                                        THEN [saves[t] EXCEPT !.alone = FALSE, !.was = FALSE]
                                   ELSE saves[t]]
      /\ ~whole' /\ UNCHANGED <<registered, local>>
  BY DEF Save, PostSave
<1>3. single \in BOOLEAN /\ kept \in BOOLEAN /\ (kept <=> whole /\ single)
  BY DEF ServiceInv, SharedTypes
<1>4. \A t \in Saves : t # s => (t \in others <=> Out(t))
  BY DEF At, Out
<1>5. single => \A t \in Saves : t # s => ~Out(t)
  BY <1>4
<1> HIDE DEF others, single, kept
<1>6. /\ r \in SaveRecord /\ r.phase = "posted" /\ r.data = data /\ r.row = NoRow
      /\ r.alone = single /\ r.was = kept
  BY <1>3, ProfileBlanks DEF SaveRecord
<1> HIDE DEF r
<1>7. \A q \in SaveRecord : LET o == [q EXCEPT !.alone = FALSE, !.was = FALSE]
                           IN /\ o \in SaveRecord /\ o.phase = q.phase /\ o.data = q.data
                              /\ o.row = q.row /\ ~o.alone /\ ~o.was
  BY DEF SaveRecord
<1>8. ASSUME NEW t \in Saves, t # s
      PROVE  /\ saves'[t] \in SaveRecord /\ saves'[t].phase = saves[t].phase
             /\ saves'[t].data = saves[t].data /\ saves'[t].row = saves[t].row
             /\ ~saves'[t].alone /\ ~saves'[t].was
             /\ Out(t)' <=> Out(t)
  <2>1. CASE t \in others
    <3>1. saves'[t] = [saves[t] EXCEPT !.alone = FALSE, !.was = FALSE]
      BY <1>2, <1>8, <2>1
    <3> QED
      BY <1>1, <1>7, <3>1 DEF Out
  <2>2. CASE t \notin others
    <3>1. saves'[t] = saves[t] /\ ~Out(t)
      BY <1>2, <1>4, <1>8, <2>2
    <3> QED
      BY <1>1, <3>1 DEF Out, ServiceInv, AloneInv
  <2> QED
    BY <2>1, <2>2
<1>9. saves'[s] = r
  BY <1>2
<1>10. SavesTypes'
  <2>1. \A t \in Saves : saves'[t] \in SaveRecord
    BY <1>6, <1>8, <1>9
  <2> QED
    BY <1>2, <2>1 DEF SavesTypes
<1>11. AloneInv'
  <2>1. kept => registered = local
    BY <1>3 DEF ServiceInv, StepInv
  <2>2. single => \A t \in Saves : Out(t)' => t = s
    BY <1>5, <1>8
  <2>3. /\ Out(s)' /\ saves'[s].data \in Profiles
        /\ saves'[s].phase = "posted"
        /\ saves'[s].alone = single /\ saves'[s].was = kept
    BY <1>6, <1>9 DEF Out
  <2>4. \A t \in Saves : t # s /\ Out(t)' => saves'[t].data \in Profiles
    BY <1>8 DEF ServiceInv, AloneInv
  <2> SUFFICES ASSUME NEW u \in Saves
               PROVE  /\ Out(u)' => saves'[u].data \in Profiles
                      /\ saves'[u].was => saves'[u].alone
                      /\ saves'[u].alone => Out(u)' /\ \A t \in Saves : Out(t)' => t = u
                      /\ saves'[u].was /\ saves'[u].phase \in {"posted", "found", "refused"}
                           => registered' = local'
                      /\ saves'[u].alone /\ saves'[u].phase = "found" => saves'[u].row = registered'
                      /\ saves'[u].alone /\ saves'[u].phase \in {"stored", "write"}
                           => registered' = saves'[u].data
    BY DEF AloneInv
  <2>5. CASE u = s
    BY <1>2, <1>3, <2>1, <2>2, <2>3, <2>5
  <2>6. CASE u # s
    BY <1>8, <2>4, <2>6
  <2> QED
    BY <2>5, <2>6
<1>12. SharedTypes' /\ StepInv'
  BY <1>2 DEF ServiceInv, SharedTypes, StepInv, Save, PostSave
<1>13. RowInv'
  BY <1>2, <1>6, <1>8, <1>9 DEF ServiceInv, RowInv
<1> QED
  BY <1>10, <1>11, <1>12, <1>13 DEF ServiceInv

\* The Identity service checks the request, changes its row, and answers.
LEMMA ServiceKeeps ==
  ASSUME ServiceInv, NEW s \in Saves,
         VerifyOwnershipProof(s) \/ RegisterExternal(s) \/ Answered(s)
  PROVE  ServiceInv'
<1>1. /\ SharedTypes /\ SavesTypes /\ saves[s] \in SaveRecord
      /\ registered \in MaybeProfile /\ saves[s].row \in MaybeProfile
  BY DEF ServiceInv, SavesTypes, SharedTypes, SaveRecord
<1>2. /\ Out(s) => saves[s].data \in Profiles
      /\ saves[s].was => saves[s].alone
      /\ saves[s].was /\ saves[s].phase \in {"posted", "found", "refused"} => registered = local
      /\ saves[s].alone /\ saves[s].phase = "found" => saves[s].row = registered
      /\ saves[s].alone /\ saves[s].phase \in {"stored", "write"} => registered = saves[s].data
  BY DEF ServiceInv, AloneInv
<1>3. /\ ~whole \/ ~Out(s)
      /\ saves[s].row # NoRow => registered # NoRow
  BY DEF ServiceInv, StepInv, RowInv
<1>4. \A p \in {"found", "stored", "refused", "write"}, w \in MaybeProfile :
        LET r == [saves[s] EXCEPT !.phase = p, !.row = w]
        IN /\ r \in SaveRecord /\ r.phase = p /\ r.row = w
           /\ r.data = saves[s].data /\ r.alone = saves[s].alone /\ r.was = saves[s].was
  BY <1>1 DEF SaveRecord
<1>5. \A p \in {"refused", "write"} :
        LET r == [saves[s] EXCEPT !.phase = p]
        IN /\ r \in SaveRecord /\ r.phase = p /\ r.row = saves[s].row
           /\ r.data = saves[s].data /\ r.alone = saves[s].alone /\ r.was = saves[s].was
  BY <1>1 DEF SaveRecord
<1>6. ASSUME VerifyOwnershipProof(s) PROVE ServiceInv'
  <2>1. /\ saves[s].phase = "posted" /\ Out(s) /\ ~whole'
        /\ UNCHANGED <<registered, local, whole>> /\ SharedTypes'
    BY <1>1, <1>3, <1>6 DEF VerifyOwnershipProof, At, Out, SharedTypes
  <2>2. CASE GoTo(s, "refused")
    <3> DEFINE r == [saves[s] EXCEPT !.phase = "refused"]
    <3>1. saves' = [saves EXCEPT ![s] = r]
      BY <2>2 DEF GoTo
    <3>2. /\ r \in SaveRecord /\ r.phase = "refused" /\ r.row = saves[s].row
          /\ r.data = saves[s].data /\ r.alone = saves[s].alone /\ r.was = saves[s].was
      BY <1>5
    <3> HIDE DEF r
    <3> QED
      BY <1>2, <1>3, <2>1, <3>1, <3>2, SaveBecomes
  <2>3. CASE saves' = [saves EXCEPT ![s].phase = "found", ![s].row = registered]
    <3> DEFINE r == [saves[s] EXCEPT !.phase = "found", !.row = registered]
    <3>1. saves' = [saves EXCEPT ![s] = r]
      BY <1>1, <2>3 DEF SavesTypes
    <3>2. /\ r \in SaveRecord /\ r.phase = "found" /\ r.row = registered
          /\ r.data = saves[s].data /\ r.alone = saves[s].alone /\ r.was = saves[s].was
      BY <1>1, <1>4
    <3> HIDE DEF r
    <3> QED
      BY <1>2, <1>3, <2>1, <3>1, <3>2, SaveBecomes
  <2> QED
    BY <1>6, <2>2, <2>3 DEF VerifyOwnershipProof
<1>7. ASSUME RegisterExternal(s) PROVE ServiceInv'
  <2>1. /\ saves[s].phase = "found" /\ Out(s) /\ ~whole' /\ UNCHANGED <<local, whole>>
        /\ saves[s].data \in Profiles
    BY <1>2, <1>3, <1>7 DEF RegisterExternal, At, Out
  <2>2. ASSUME NEW p \in {"stored", "refused"},
               saves' = [saves EXCEPT ![s] = [@ EXCEPT !.phase = p, !.row = NoRow]],
               registered' \in MaybeProfile,
               p = "refused" => registered' = registered,
               registered # NoRow => registered' # NoRow,
               p = "stored" /\ saves[s].alone => registered' = saves[s].data
        PROVE  ServiceInv'
    <3> DEFINE r == [saves[s] EXCEPT !.phase = p, !.row = NoRow]
    <3>1. saves' = [saves EXCEPT ![s] = r]
      BY <2>2
    <3>2. /\ r \in SaveRecord /\ r.phase = p /\ r.row = NoRow
          /\ r.data = saves[s].data /\ r.alone = saves[s].alone /\ r.was = saves[s].was
      <4>1. NoRow \in MaybeProfile
        BY DEF MaybeProfile
      <4> QED
        BY <1>1, <4>1 DEF SaveRecord
    <3> HIDE DEF r
    <3>3. SharedTypes'
      BY <1>1, <2>1, <2>2 DEF SharedTypes
    <3>4. registered # NoRow \/ r.row # NoRow => registered' # NoRow
      BY <2>2, <3>2
    <3>5. /\ r.phase # "idle" /\ r.phase # "found" /\ r.data \in Profiles
          /\ r.was => r.alone
          /\ r.alone => saves[s].alone
      BY <1>2, <2>1, <3>2
    <3>6. r.was /\ r.phase \in {"posted", "found", "refused"} => registered' = local'
      BY <1>2, <2>1, <2>2, <3>2
    <3>7. r.alone /\ r.phase \in {"stored", "write"} => registered' = r.data
      BY <2>2, <3>2
    <3> QED
      BY <2>1, <3>1, <3>2, <3>3, <3>4, <3>5, <3>6, <3>7, SaveBecomes
  <2>3. CASE saves[s].row = NoRow
    <3>1. saves[s].data # NoRow /\ saves[s].data \in MaybeProfile
      BY <2>1, NoRowIsNone DEF MaybeProfile
    <3> QED
      BY <1>1, <1>7, <2>1, <2>2, <2>3, <3>1 DEF RegisterExternal
  <2>4. CASE saves[s].row # NoRow
    <3> DEFINE old == saves[s].row
               new == saves[s].data
    <3>1. /\ registered' = [name |-> IF new.name = old.name THEN registered.name ELSE new.name,
                            email |-> IF new.email = old.email THEN registered.email
                                      ELSE new.email]
          /\ saves' = [saves EXCEPT ![s] = [@ EXCEPT !.phase = "stored", !.row = NoRow]]
      BY <1>7, <2>4 DEF RegisterExternal
    <3>2. old \in Profiles /\ new \in Profiles
      BY <1>1, <2>1, <2>4 DEF MaybeProfile
    <3>3. ASSUME saves[s].alone PROVE registered' = new
      <4>1. registered = old
        BY <1>2, <2>1, <3>3
      <4>2. registered' = [name |-> new.name, email |-> new.email]
        BY <3>1, <4>1
      <4>3. [name |-> new.name, email |-> new.email] = new
        BY <3>2 DEF Profiles
      <4> QED
        BY <4>2, <4>3
    <3>4. registered' \in MaybeProfile /\ registered' # NoRow
      <4>1. registered \in Profiles
        BY <1>1, <1>3, <2>4 DEF MaybeProfile
      <4>2. registered' \in Profiles
        BY <3>1, <3>2, <4>1 DEF Profiles
      <4> QED
        BY <4>2, NoRowIsNone DEF MaybeProfile
    <3> QED
      BY <2>2, <3>1, <3>3, <3>4
  <2> QED
    BY <2>3, <2>4
<1>8. ASSUME Answered(s) PROVE ServiceInv'
  <2>1. /\ saves[s].phase = "stored" /\ Out(s) /\ ~whole'
        /\ UNCHANGED <<registered, local, whole>> /\ SharedTypes'
    BY <1>1, <1>3, <1>8 DEF Answered, At, Out, SharedTypes
  <2>2. CASE GoTo(s, "write")
    <3> DEFINE r == [saves[s] EXCEPT !.phase = "write"]
    <3>1. saves' = [saves EXCEPT ![s] = r]
      BY <2>2 DEF GoTo
    <3>2. /\ r \in SaveRecord /\ r.phase = "write" /\ r.row = saves[s].row
          /\ r.data = saves[s].data /\ r.alone = saves[s].alone /\ r.was = saves[s].was
      BY <1>5
    <3> HIDE DEF r
    <3> QED
      BY <1>2, <1>3, <2>1, <3>1, <3>2, SaveBecomes
  <2>3. CASE saves' = [saves EXCEPT ![s].phase = "refused", ![s].was = FALSE]
    <3> DEFINE r == [saves[s] EXCEPT !.phase = "refused", !.was = FALSE]
    <3>1. saves' = [saves EXCEPT ![s] = r]
      BY <1>1, <2>3 DEF SavesTypes
    <3>2. /\ r \in SaveRecord /\ r.phase = "refused" /\ r.row = saves[s].row
          /\ r.data = saves[s].data /\ r.alone = saves[s].alone /\ ~r.was
      BY <1>1 DEF SaveRecord
    <3> HIDE DEF r
    <3> QED
      BY <1>2, <1>3, <2>1, <3>1, <3>2, SaveBecomes
  <2> QED
    BY <1>8, <2>2, <2>3 DEF Answered
<1> QED
  BY <1>6, <1>7, <1>8

\* A save that has failed, alone, has changed nothing; one that writes brings the device up
\* to what the service has.
LEMMA EndsKeep ==
  ASSUME ServiceInv, NEW s \in Saves, SaveFails(s) \/ \E l \in Loads : UpdateWalletProfile(s, l)
  PROVE  ServiceInv'
<1>1. /\ SharedTypes /\ SavesTypes
      /\ registered \in MaybeProfile /\ local \in Profiles
      /\ saves[s] \in SaveRecord /\ saves[s].alone \in BOOLEAN /\ saves[s].was \in BOOLEAN
  BY DEF ServiceInv, SharedTypes, SavesTypes, SaveRecord
<1>2. /\ Out(s) => saves[s].data \in Profiles
      /\ saves[s].was => saves[s].alone
      /\ saves[s].was /\ saves[s].phase = "refused" => registered = local
      /\ saves[s].alone /\ saves[s].phase = "write" => registered = saves[s].data
      /\ Out(s) => ~whole
  BY DEF ServiceInv, AloneInv, StepInv
<1>3. ASSUME SaveFails(s) PROVE ServiceInv'
  <2>1. /\ Out(s) /\ saves[s].phase = "refused" /\ saves' = [saves EXCEPT ![s] = Idle]
        /\ whole' = (whole \/ saves[s].was) /\ UNCHANGED <<registered, local>>
    BY <1>3 DEF SaveFails, At, Out
  <2>2. SharedTypes'
    BY <1>1, <2>1 DEF SharedTypes
  <2>3. whole' => registered' = local' /\ saves[s].alone
    BY <1>2, <2>1
  <2> QED
    BY <2>1, <2>2, <2>3, ProfileBlanks, SaveBecomes
<1>4. ASSUME NEW l \in Loads, UpdateWalletProfile(s, l) PROVE ServiceInv'
  <2>1. /\ Out(s) /\ saves[s].phase = "write"
        /\ local' = saves[s].data /\ whole' = saves[s].alone /\ registered' = registered
        /\ \/ saves' = [saves EXCEPT ![s] = Idle]
           \/ saves' = [Under("gone") EXCEPT ![s] = Idle]
    BY <1>4 DEF UpdateWalletProfile, At, Out
  <2>2. SharedTypes'
    BY <1>1, <1>2, <2>1 DEF SharedTypes
  <2>3. whole' => registered' = local' /\ saves[s].alone
    BY <1>2, <2>1
  <2>4. CASE saves' = [saves EXCEPT ![s] = Idle]
    BY <2>1, <2>2, <2>3, <2>4, ProfileBlanks, SaveBecomes
  <2>5. CASE saves' = [Under("gone") EXCEPT ![s] = Idle]
    <3>1. /\ Under("gone") \in [Saves -> SaveRecord]
          /\ \A t \in Saves : /\ Under("gone")[t].phase = saves[t].phase
                              /\ Under("gone")[t].data = saves[t].data
                              /\ Under("gone")[t].row = saves[t].row
                              /\ Under("gone")[t].alone = saves[t].alone
                              /\ Under("gone")[t].was = saves[t].was
      BY <1>1, UnderEffect
    <3>2. /\ saves' \in [Saves -> SaveRecord] /\ saves'[s] = Idle
          /\ \A t \in Saves : t # s => saves'[t] = Under("gone")[t]
      BY <2>5, <3>1, ProfileBlanks
    <3>3. ~Out(s)' /\ ~saves'[s].alone /\ ~saves'[s].was /\ saves'[s].row = NoRow
      BY <3>2, ProfileBlanks DEF Out
    <3> QED
      BY <2>1, <2>2, <2>3, <3>1, <3>2, <3>3, SaveGoesOn
  <2> QED
    BY <2>1, <2>4, <2>5
<1> QED
  BY <1>3, <1>4

\* What the screens, the lock and the end of the app do to the saves.
LEMMA OthersKeep ==
  ASSUME ServiceInv,
         \/ Blur \/ PressEdit \/ Lock \/ Kill \/ LoadProfile
         \/ \E l \in Loads : Focus(l) \/ GetWalletProfile(l) \/ SetProfile(l) \/ GoBackFromEdit(l)
  PROVE  ServiceInv'
<1>1. SavesTypes /\ \A s \in Saves : saves[s] \in SaveRecord
  BY DEF ServiceInv, SavesTypes
<1>2. ASSUME UNCHANGED <<registered, local, saves, whole>> PROVE ServiceInv'
  BY <1>1, <1>2, SavesFade DEF SavesTypes
<1>3. ASSUME NEW l \in Loads, GoBackFromEdit(l) PROVE ServiceInv'
  <2>1. saves' = Under("gone") /\ UNCHANGED <<registered, local, whole>>
    BY <1>3 DEF GoBackFromEdit
  <2>2. /\ Under("gone") \in [Saves -> SaveRecord]
        /\ \A s \in Saves : /\ Under("gone")[s].phase = saves[s].phase
                            /\ Under("gone")[s].data = saves[s].data
                            /\ Under("gone")[s].row = saves[s].row
                            /\ Under("gone")[s].alone = saves[s].alone
                            /\ Under("gone")[s].was = saves[s].was
    BY <1>1, UnderEffect
  <2> QED
    BY <2>1, <2>2, SavesFade
<1>4. ASSUME Lock PROVE ServiceInv'
  <2>1. \A r \in SaveRecord : LET q == [r EXCEPT !.home = "void"]
                             IN /\ q \in SaveRecord /\ q.phase = r.phase /\ q.data = r.data
                                /\ q.row = r.row /\ q.alone = r.alone /\ q.was = r.was
    BY DEF SaveRecord
  <2>2. /\ saves' = [s \in Saves |-> IF At(s, "idle") THEN Idle
                                     ELSE [saves[s] EXCEPT !.home = "void"]]
        /\ UNCHANGED <<registered, local, whole>>
    BY <1>4 DEF Lock
  <2>3. \A s \in Saves : saves'[s] = Idle \/ saves'[s] = [saves[s] EXCEPT !.home = "void"]
    BY <2>2
  <2>4. \A s \in Saves : saves'[s] \in SaveRecord
    BY <1>1, <2>1, <2>3, ProfileBlanks
  <2>5. saves' \in [Saves -> SaveRecord]
    BY <2>2, <2>4
  <2> QED
    BY <1>1, <2>1, <2>2, <2>3, <2>5, SavesFade
<1>5. ASSUME Kill PROVE ServiceInv'
  <2>1. \A r \in SaveRecord :
          LET q == [r EXCEPT !.home = "void", !.alone = FALSE, !.was = FALSE]
          IN /\ q \in SaveRecord /\ q.phase = r.phase /\ q.data = r.data
             /\ q.row = r.row /\ ~q.alone /\ ~q.was
    BY DEF SaveRecord
  <2>2. /\ saves' = [s \in Saves |-> IF saves[s].phase \in {"posted", "found"}
                                     THEN [saves[s] EXCEPT !.home = "void", !.alone = FALSE,
                                                           !.was = FALSE]
                                     ELSE Idle]
        /\ UNCHANGED <<registered, local, whole>>
    BY <1>5 DEF Kill
  <2>3. \A s \in Saves : \/ saves'[s] = Idle
                         \/ saves'[s] = [saves[s] EXCEPT !.home = "void", !.alone = FALSE,
                                                        !.was = FALSE]
    BY <2>2
  <2>4. ASSUME NEW s \in Saves PROVE saves'[s] \in SaveRecord
    <3>1. [saves[s] EXCEPT !.home = "void", !.alone = FALSE, !.was = FALSE] \in SaveRecord
      BY <1>1, <2>1
    <3> QED
      BY <2>3, <3>1, ProfileBlanks
  <2>5. saves' \in [Saves -> SaveRecord]
    BY <2>2, <2>4
  <2> QED
    BY <1>1, <2>1, <2>2, <2>3, <2>5, SavesFade
<1>6. ASSUME \/ Blur \/ PressEdit \/ LoadProfile
             \/ \E l \in Loads : Focus(l) \/ GetWalletProfile(l) \/ SetProfile(l)
      PROVE  ServiceInv'
  BY <1>2, <1>6 DEF Blur, PressEdit, LoadProfile, Focus, GetWalletProfile, SetProfile
<1> QED
  BY <1>3, <1>4, <1>5, <1>6

-----------------------------------------------------------------------------
(* The invariant *)

\* The service holds what the device does or nothing, and no save is under way at first.
LEMMA ProfileStarts == ProfileInit => ProfileInv
<1> SUFFICES ASSUME ProfileInit
             PROVE  ProfileInv
  OBVIOUS
<1>1. /\ \A s \in Saves : saves[s] = Idle
      /\ \A l \in Loads : loads[l] = Unread
  BY DEF ProfileInit
<1>2. SharedTypes /\ SavesTypes
  BY ProfileBlanks DEF ProfileInit, SharedTypes, SavesTypes, MaybeProfile
<1>3. AloneInv /\ StepInv /\ RowInv
  BY <1>1, ProfileBlanks DEF ProfileInit, AloneInv, StepInv, RowInv, Out
<1>4. ScreensTypes
  BY ProfileBlanks DEF ProfileInit, ScreensTypes
<1>5. LoadInv /\ SettingsShowTheProfile
  BY <1>1, ProfileBlanks DEF ProfileInit, LoadInv, SettingsShowTheProfile
<1> QED
  BY <1>2, <1>3, <1>4, <1>5 DEF ProfileInv, ServiceInv, ScreensInv, SharedTypes

\* ProfileInv is inductive.
LEMMA ProfileInvHolds == ProfileSpec => []ProfileInv
<1>1. ProfileInv /\ UNCHANGED profVars => ProfileInv'
  BY DEF ProfileInv, ServiceInv, ScreensInv, SharedTypes, SavesTypes, ScreensTypes, AloneInv,
     StepInv, RowInv, LoadInv, SettingsShowTheProfile, Out, profVars
<1>2. ProfileInv /\ ProfileNext => ProfileInv'
  <2>1. ASSUME ServiceInv, ProfileNext PROVE ServiceInv'
    BY <2>1, SaveKeeps, ServiceKeeps, EndsKeep, OthersKeep DEF ProfileNext
  <2>2. ServiceInv => SavesTypes /\ AloneInv
    BY DEF ServiceInv
  <2> QED
    BY <2>1, <2>2, ScreensKeep DEF ProfileInv
<1> QED
  BY ProfileStarts, <1>1, <1>2, PTL DEF ProfileSpec

-----------------------------------------------------------------------------
(* What the owner can rely on *)

(* Every state of the profile, its screens, their saves and readings is of *)
(* its type, on the device and at the service.                             *)
THEOREM ProfileTypeCorrect == ProfileSpec => []ProfileTypeOK
<1>1. ProfileInv => ProfileTypeOK
  BY ProfileTypesMean DEF ProfileInv, ServiceInv, ScreensInv
<1> QED
  BY ProfileInvHolds, <1>1, PTL

(* Whatever was cut off, lost or mixed up before, a save that runs through *)
(* with no other beside it leaves the device and the Identity service with *)
(* the same profile, and one that is refused leaves them as they were.     *)
THEOREM ProfileAlwaysInStep == ProfileSpec => []ProfileInStep
<1>1. ProfileInv => ProfileInStep
  BY DEF ProfileInv, ServiceInv, StepInv, ProfileInStep
<1> QED
  BY ProfileInvHolds, <1>1, PTL

(* However many readings of the profile overlap, the settings in focus     *)
(* show what the device holds, but for a save of a screen taken down by    *)
(* the lock.                                                               *)
THEOREM SettingsAlwaysShowTheProfile == ProfileSpec => []SettingsShowTheProfile
<1>1. ProfileInv => SettingsShowTheProfile
  BY DEF ProfileInv, ScreensInv
<1> QED
  BY ProfileInvHolds, <1>1, PTL
===============================================================================
