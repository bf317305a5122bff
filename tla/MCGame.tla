------------------------------- MODULE MCGame -------------------------------
(***************************************************************************)
(* Instances of the components around the game for TLC: its releases, its  *)
(* mods, its maps, the votes on them, and what is said about all of that   *)
(* in Discord.                                                             *)
(* They are checked side by side: in a behaviour one of them moves.        *)
(***************************************************************************)
EXTENDS Installer, Mods, MapCycle, Votes, Status, Messages, TLC

VARIABLE part   \* the component that moves

gameParts == <<part, installerVars, modsVars, mapVars, voteVars, statusVars, messageVars>>

Needs(m, l, h) == [mod |-> m, lo |-> l, hi |-> h, kind |-> "required"]
Release(m, v, ds) == [mod |-> m, ver |-> v, fits |-> TRUE, deps |-> ds]

\* a needs b, the newest a the newest b, and the newest b an old c.
SmallPortal ==
  {Release("a", 1, <<Needs("b", 0, 9)>>), Release("a", 2, <<Needs("b", 2, 9)>>),
   Release("b", 1, <<>>), Release("b", 2, <<Needs("c", 1, 1)>>),
   Release("c", 1, <<>>), Release("c", 2, <<>>)}

\* Which goroutine queues a message makes no difference.
SenderSymmetry == Permutations(Senders)

\* A component that does not move has one initial state.
GameInit ==
  /\ part \in {"installer", "mods", "map", "votes", "status", "messages"}
  /\ InstallerInit /\ ModsInit /\ MapInit /\ VotesInit /\ StatusInit /\ MessagesInit
  /\ part # "mods" => portal = Releases /\ files = [m \in ModNames |-> {}]

GameNext ==
  \/ part = "installer" /\ InstallerNext
     /\ UNCHANGED <<part, modsVars, mapVars, voteVars, statusVars, messageVars>>
  \/ part = "mods" /\ ModsNext
     /\ UNCHANGED <<part, installerVars, mapVars, voteVars, statusVars, messageVars>>
  \/ part = "map" /\ MapNext
     /\ UNCHANGED <<part, installerVars, modsVars, voteVars, statusVars, messageVars>>
  \/ part = "votes" /\ VotesNext
     /\ UNCHANGED <<part, installerVars, modsVars, mapVars, statusVars, messageVars>>
  \/ part = "status" /\ StatusNext
     /\ UNCHANGED <<part, installerVars, modsVars, mapVars, voteVars, messageVars>>
  \/ part = "messages" /\ MessagesNext
     /\ UNCHANGED <<part, installerVars, modsVars, mapVars, voteVars, statusVars>>

GameSpec == GameInit /\ [][GameNext]_gameParts

\* The state of every component has its type.
GameTypeOK ==
  /\ InstallerTypeOK /\ ModsTypeOK /\ MapTypeOK /\ VotesTypeOK
  /\ StatusTypeOK /\ MessagesTypeOK
=============================================================================
