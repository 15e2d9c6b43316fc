----------------------------- MODULE WalletProfile -----------------------------
(***************************************************************************)
(* The owner's profile: the copy on the device (authService), the screens  *)
(* that show and change it (ProfileSettingsScreen, EditPersonalProfile-    *)
(* Screen), and the row the Identity service keeps of it (DIDService).     *)
(*                                                                         *)
(* A save registers the profile with the service and then writes it on the *)
(* device.  It goes on when its screen is left or taken down by the lock,  *)
(* and what the service has been sent it handles even if the app is gone.  *)
(*                                                                         *)
(* Left out: the date of birth, which only the device keeps; the fields of *)
(* a profile that no save changes; encryption; the proof of ownership,     *)
(* which the service accepts or, its clock being its own, does not; the    *)
(* public key, the same in every request.                                  *)
(***************************************************************************)
EXTENDS Naturals, FiniteSets

CONSTANTS
  Values,       \* of a name or an email
  Saves,        \* saves that may be under way at once
  Loads         \* readings of the profile that may be under way at once

ASSUME ProfileAssumption == IsFiniteSet(Saves) /\ Values # {}

VARIABLES
  registered,   \* the Identity service's row
  local,        \* AsyncStorage: wallet.profile
  edit,         \* EditPersonalProfileScreen
  settings,     \* ProfileSettingsScreen, below it
  saves,
  loads,        \* the settings screen's readings of the profile
  whole,        \* history: no save has begun since one that ran through, or was refused, alone
  behind        \* history: a save of a screen left before has written under the settings

profVars == <<registered, local, edit, settings, saves, loads, whole, behind>>

Profiles == [name : Values, email : Values]
NoRow == [name |-> "none"]
NoEdit == [up |-> FALSE, saving |-> FALSE, profile |-> NoRow]
NoSettings == [up |-> FALSE, loading |-> FALSE, profile |-> NoRow]
Idle == [phase |-> "idle", home |-> "void", data |-> NoRow, row |-> NoRow,
         alone |-> FALSE, was |-> FALSE]
Unread == [phase |-> "idle", active |-> FALSE, profile |-> NoRow]

ProfileTypeOK ==
  /\ registered \in Profiles \cup {NoRow}
  /\ local \in Profiles
  /\ edit \in [up : BOOLEAN, saving : BOOLEAN, profile : Profiles \cup {NoRow}]
  /\ settings \in [up : BOOLEAN, loading : BOOLEAN, profile : Profiles \cup {NoRow}]
  /\ saves \in [Saves -> [phase : {"idle", "posted", "found", "stored", "refused", "write"},
                          home : {"here", "gone", "void"}, data : Profiles \cup {NoRow},
                          row : Profiles \cup {NoRow}, alone : BOOLEAN, was : BOOLEAN]]
  /\ loads \in [Loads -> [phase : {"idle", "read", "set"}, active : BOOLEAN,
                          profile : Profiles \cup {NoRow}]]
  /\ whole \in BOOLEAN /\ behind \in BOOLEAN

(* The wizard's own registration may have failed without its noticing. *)
ProfileInit ==
  /\ local \in Profiles
  /\ registered \in {NoRow, local}
  /\ edit = NoEdit /\ settings = NoSettings
  /\ saves = [s \in Saves |-> Idle]
  /\ loads = [l \in Loads |-> Unread]
  /\ whole = (registered # NoRow) /\ behind = FALSE
-----------------------------------------------------------------------------
At(s, p) == saves[s].phase = p
GoTo(s, p) == saves' = [saves EXCEPT ![s].phase = p]
Under(home) == [s \in Saves |-> IF saves[s].home = "here" THEN [saves[s] EXCEPT !.home = home] ELSE saves[s]]
Screens == <<edit, settings, loads, behind>>

(* A load whose screen has lost the focus ends without effect. *)
Blurred == [l \in Loads |-> IF loads[l].active THEN [loads[l] EXCEPT !.active = FALSE] ELSE loads[l]]

(* Focusing the settings reads the profile anew. *)
Focused(l) ==
  /\ loads[l] = Unread
  /\ settings' = [settings EXCEPT !.up = TRUE, !.loading = TRUE]
  /\ loads' = [Blurred EXCEPT ![l] = [Unread EXCEPT !.phase = "read", !.active = TRUE]]
  /\ behind' = FALSE
-----------------------------------------------------------------------------
(* ProfileSettingsScreen *)

Focus(l) ==
  /\ ~settings.up /\ ~edit.up
  /\ Focused(l)
  /\ UNCHANGED <<registered, local, edit, saves, whole>>

Blur ==
  /\ settings.up
  /\ settings' = [settings EXCEPT !.up = FALSE]
  /\ loads' = Blurred
  /\ UNCHANGED <<registered, local, edit, saves, whole, behind>>

GetWalletProfile(l) ==
  /\ loads[l].phase = "read"
  /\ loads' = [loads EXCEPT ![l].phase = "set", ![l].profile = local]
  /\ UNCHANGED <<registered, local, edit, settings, saves, whole, behind>>

\* Faulty variant: without the active flag.
SetProfileAnyway(l) ==
  /\ loads[l].phase = "set"
  /\ settings' = [settings EXCEPT !.loading = FALSE, !.profile = loads[l].profile]
  /\ loads' = [loads EXCEPT ![l] = Unread]
  /\ UNCHANGED <<registered, local, edit, saves, whole, behind>>

SetProfile(l) ==
  /\ loads[l].phase = "set"
  /\ settings' = IF loads[l].active
                 THEN [settings EXCEPT !.loading = FALSE, !.profile = loads[l].profile]
                 ELSE settings
  /\ loads' = [loads EXCEPT ![l] = Unread]
  /\ UNCHANGED <<registered, local, edit, saves, whole, behind>>

PressEdit ==
  /\ settings.up /\ ~settings.loading
  /\ settings' = [settings EXCEPT !.up = FALSE]
  /\ edit' = [NoEdit EXCEPT !.up = TRUE]
  /\ loads' = Blurred
  /\ UNCHANGED <<registered, local, saves, whole, behind>>

(* The lock takes both screens down; the system may end the app altogether. *)
Lock ==
  /\ edit' = NoEdit /\ settings' = NoSettings
  /\ loads' = Blurred
  /\ saves' = [s \in Saves |-> IF At(s, "idle") THEN Idle ELSE [saves[s] EXCEPT !.home = "void"]]
  /\ behind' = FALSE
  /\ UNCHANGED <<registered, local, whole>>

Kill ==
  /\ edit' = NoEdit /\ settings' = NoSettings
  /\ loads' = [l \in Loads |-> Unread]
  /\ saves' = [s \in Saves |-> IF saves[s].phase \in {"posted", "found"}
                               THEN [saves[s] EXCEPT !.home = "void", !.alone = FALSE,
                                                     !.was = FALSE]
                               ELSE Idle]
  /\ behind' = FALSE
  /\ UNCHANGED <<registered, local, whole>>
-----------------------------------------------------------------------------
(* EditPersonalProfileScreen *)

LoadProfile ==
  /\ edit.up /\ edit.profile = NoRow
  /\ edit' = [edit EXCEPT !.profile = local]
  /\ UNCHANGED <<registered, local, settings, saves, loads, whole, behind>>

HasChanges(data) == edit.profile # NoRow /\ data # edit.profile

PostSave(s, data) ==
  /\ At(s, "idle")
  /\ edit' = [edit EXCEPT !.saving = TRUE]
  /\ LET others == {t \in Saves \ {s} : ~At(t, "idle")}
     IN saves' = [t \in Saves |->
          IF t = s THEN [phase |-> "posted", home |-> "here", data |-> data, row |-> NoRow,
                         alone |-> others = {}, was |-> whole /\ others = {}]
          ELSE IF t \in others THEN [saves[t] EXCEPT !.alone = FALSE, !.was = FALSE]
          ELSE saves[t]]
  /\ whole' = FALSE

\* Faulty variant: the two calls in the other order.
SaveLocallyFirst(s, data) ==
  /\ edit.up /\ ~edit.saving /\ HasChanges(data)
  /\ PostSave(s, data)
  /\ local' = data
  /\ UNCHANGED <<registered, settings, loads, behind>>

Save(s, data) ==
  /\ edit.up /\ ~edit.saving /\ HasChanges(data)
  /\ PostSave(s, data)
  /\ UNCHANGED <<registered, local, settings, loads, behind>>

GoBackFromEdit(l) ==
  /\ edit.up
  /\ edit' = NoEdit
  /\ Focused(l)
  /\ saves' = Under("gone")
  /\ UNCHANGED <<registered, local, whole>>

(* The alert and the finally block of a save that fails.  One refused      *)
(* alone has changed nothing.                                              *)
SaveFails(s) ==
  /\ At(s, "refused")
  /\ edit' = [edit EXCEPT !.saving = @ /\ saves[s].home # "here"]
  /\ saves' = [saves EXCEPT ![s] = Idle]
  /\ whole' = (whole \/ saves[s].was)
  /\ UNCHANGED <<registered, local, settings, loads, behind>>

(* The save goes back when it is through: from its own screen, if still    *)
(* there; from a later edit screen; or from the settings to another tab.   *)
UpdateWalletProfile(s, l) ==
  /\ At(s, "write")
  /\ local' = saves[s].data
  /\ whole' = saves[s].alone
  /\ \/ /\ saves[s].home = "void" \/ (~edit.up /\ ~settings.up)
        /\ saves' = [saves EXCEPT ![s] = Idle]
        /\ behind' = (behind \/ settings.up)
        /\ UNCHANGED <<edit, settings, loads>>
     \/ /\ saves[s].home # "void" /\ edit.up
        /\ saves' = [Under("gone") EXCEPT ![s] = Idle]
        /\ edit' = NoEdit
        /\ Focused(l)
     \/ /\ saves[s].home # "void" /\ settings.up
        /\ saves' = [saves EXCEPT ![s] = Idle]
        /\ settings' = [settings EXCEPT !.up = FALSE]
        /\ loads' = Blurred
        /\ UNCHANGED <<edit, behind>>
  /\ UNCHANGED registered
-----------------------------------------------------------------------------
(* didService.updateRegisteredProfile and DIDService.RegisterExternalAsync *)

VerifyOwnershipProof(s) ==
  /\ At(s, "posted")
  /\ \/ GoTo(s, "refused")
     \/ saves' = [saves EXCEPT ![s].phase = "found", ![s].row = registered]
  /\ UNCHANGED <<registered, local, whole, Screens>>

(* An update writes the columns that differ from the row as it was found;  *)
(* an insert of a row that is there by now fails, and fails once more when *)
(* the winner's row is saved, with the entity still to be added.           *)
RegisterExternal(s) ==
  LET old == saves[s].row
      new == saves[s].data
      after(p) == saves' = [saves EXCEPT ![s] = [@ EXCEPT !.phase = p, !.row = NoRow]]
  IN /\ At(s, "found")
     /\ IF old = NoRow
        THEN IF registered = NoRow
             THEN registered' = new /\ after("stored")
             ELSE UNCHANGED registered /\ after("refused")
        ELSE /\ registered' = [name |-> IF new.name = old.name THEN registered.name ELSE new.name,
                               email |-> IF new.email = old.email THEN registered.email
                                         ELSE new.email]
             /\ after("stored")
     /\ UNCHANGED <<local, whole, Screens>>

(* The answer may be lost: the row is changed and the save fails. *)
Answered(s) ==
  /\ At(s, "stored")
  /\ \/ GoTo(s, "write")
     \/ saves' = [saves EXCEPT ![s].phase = "refused", ![s].was = FALSE]
  /\ UNCHANGED <<registered, local, whole, Screens>>
-----------------------------------------------------------------------------
ProfileNext ==
  \/ Blur \/ PressEdit \/ Lock \/ Kill \/ LoadProfile
  \/ \E l \in Loads : Focus(l) \/ GetWalletProfile(l) \/ SetProfile(l) \/ GoBackFromEdit(l)
  \/ \E s \in Saves :
       \/ VerifyOwnershipProof(s) \/ RegisterExternal(s) \/ Answered(s) \/ SaveFails(s)
       \/ \E data \in Profiles : Save(s, data)
       \/ \E l \in Loads : UpdateWalletProfile(s, l)

ProfileSpec == ProfileInit /\ [][ProfileNext]_profVars
-----------------------------------------------------------------------------
(* Properties *)

(* Once a save has run through, or has been refused, without another in    *)
(* between, the device and the Identity service hold the same profile,     *)
(* whatever was cut off, lost or mixed up before: what comes apart is set  *)
(* right by the next save.                                                 *)
ProfileInStep == whole => registered = local

(* The settings show the profile of the device, however quickly the owner  *)
(* goes back and forth, unless a save whose screen was taken down by the   *)
(* lock has written it since they came into focus.                         *)
SettingsShowTheProfile ==
  settings.up /\ ~settings.loading /\ ~behind => settings.profile = local
=============================================================================
