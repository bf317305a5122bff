------------------------------- MODULE MCWeb -------------------------------
(***************************************************************************)
(* Instances of the four web components for TLC.  They share no state, so  *)
(* they are checked side by side: in a behaviour one of them moves.        *)
(***************************************************************************)
EXTENDS Settings, Auth, Console, Uploads, TLC

VARIABLE part   \* the component that moves

webVars == <<part, settingsVars, authVars, consoleVars, uploadVars>>

\* One server whose state changes is enough for a preview that is out of date.
OneChanges == [s \in Servers |-> IF s = CHOOSE x \in Servers : TRUE THEN 1 ELSE 0]

OwnProcess == [w \in Writers |-> w]

\* A component that does not move has one initial state.
WebInit ==
  /\ part \in {"settings", "auth", "console", "uploads"}
  /\ SettingsInit /\ AuthInit /\ ConsoleInit /\ UploadsInit
  /\ part # "settings" => file = Nothing
  /\ part # "auth" => role = [u \in Users |-> "mod"]

WebNext ==
  \/ part = "settings" /\ SettingsNext /\ UNCHANGED <<part, authVars, consoleVars, uploadVars>>
  \/ part = "auth" /\ AuthNext /\ UNCHANGED <<part, settingsVars, consoleVars, uploadVars>>
  \/ part = "console" /\ ConsoleNext /\ UNCHANGED <<part, settingsVars, authVars, uploadVars>>
  \/ part = "uploads" /\ UploadsNext /\ UNCHANGED <<part, settingsVars, authVars, consoleVars>>

WebSpec == WebInit /\ [][WebNext]_webVars

\* The state of every web component has its type.
WebTypeOK == SettingsTypeOK /\ AuthTypeOK /\ ConsoleTypeOK /\ UploadsTypeOK
=============================================================================
