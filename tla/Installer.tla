------------------------------ MODULE Installer ------------------------------
(***************************************************************************)
(* The Factorio updater (factUpdater) and the loops that make room for it  *)
(* (support/mainLoops_reboot.go).  One update runs at a time               *)
(* (glob.UpdatersLock): it reads the version of the binary, asks for the   *)
(* newest release, downloads and verifies it, waits until the game has     *)
(* stopped, and replaces the files.  Meanwhile players are warned, and the *)
(* game is stopped when they are gone or their grace has run out.  How the *)
(* lifecycle manager stops the game is modelled in Lifecycle; here a stop  *)
(* is carried out some time after it was asked for.                        *)
(*                                                                         *)
(* Releases are numbers.  Time is counted in minutes, and only where it is *)
(* measured: a loop that sleeps for seconds acts in the minute in which it *)
(* can.  A request to the download server may fail, with its retries.  A   *)
(* directory that could not be removed is written over: untar does not     *)
(* truncate, so that what is there then may be a mixture.                  *)
(*                                                                         *)
(* A definition whose comment says "Fault" is a wrong variant of the one   *)
(* that follows it and is used by no specification.                        *)
(***************************************************************************)
EXTENDS Integers, FiniteSets

CONSTANTS
  MaxRelease,    \* bound on releases
  MaxInstalls,   \* bound on updates
  Grace,         \* glob.UpdateGraceMinutes, 5
  StopTime       \* the time a stop may take: save, interrupt and kill timeouts

ASSUME InstallerConstants ==
  /\ MaxRelease \in Nat \ {0} /\ MaxInstalls \in Nat
  /\ Grace \in Nat /\ StopTime \in Nat \ {0}

Tracks == {"stable", "experimental"}
Parts == {"bin", "data"}
Unknown == 0
Mixture == -1
Never == -1

VARIABLES
  newest,     \* per track: the release the server offers
  track,      \* cfg.Local.Options.ExpUpdates
  parts,      \* the release each part of the installation is of; 0: absent
  known,      \* fact.FactorioVersion
  upd,        \* the update: [at, force, track, old, want, pkg, kept, left, waited, up]
  game,       \* Factorio: "down", "starting", "up"
  players,    \* are there any
  stopping,   \* for how long a stop has been asked for; Never: it has not
  warned,     \* glob.UpdateWarnCounter
  asleep,     \* startUpdateNudgeLoop sleeps for a minute
  installs,
  torn        \* ghost: the files are being replaced, or that was interrupted

fileVars  == <<parts, known, torn>>
netVars   == <<newest, track>>
nudgeVars == <<stopping, warned, asleep>>
playVars  == <<game, players>>
installerVars == <<netVars, fileVars, upd, playVars, nudgeVars, installs>>

NoUpdate == [at |-> "none"]

\* fact.UpdateInProgress: from the wait for the end of the game to the end of the update
UpdateInProgress == upd.at \in {"wait", "remove", "untar", "settle"}

-----------------------------------------------------------------------------
(* doQuickLatest: finding out *)

UpdateEnds == upd' = NoUpdate

doQuickLatest(force) ==
  /\ upd = NoUpdate /\ installs < MaxInstalls
  /\ installs' = installs + 1
  /\ upd' = [at |-> IF force THEN "latest" ELSE "version", force |-> force, track |-> track,
             old |-> Unknown, want |-> Unknown, pkg |-> Unknown, kept |-> {}, left |-> {},
             waited |-> 0, up |-> TRUE]
  /\ UNCHANGED <<netVars, fileVars, playVars, nudgeVars>>

\* checkFactUpdate, every half an hour, and the command
UpdateFactorio == doQuickLatest(FALSE)

InstallFactorio == doQuickLatest(TRUE)

\* A request fails, also after its retries, or there is no binary to ask.
UpdateFails ==
  /\ upd.at \in {"version", "latest", "download"}
  /\ UpdateEnds
  /\ UNCHANGED <<netVars, fileVars, playVars, nudgeVars, installs>>

\* The version files report that are of one release, or of several.
Reported(f) == IF f = Mixture THEN 1 .. MaxRelease ELSE {f}

\* The binary says its version, if it is there.
GetFactorioVersion ==
  /\ upd.at = "version" /\ parts["bin"] # 0
  /\ \E v \in Reported(parts["bin"]) : upd' = [upd EXCEPT !.at = "latest", !.old = v]
  /\ UNCHANGED <<netVars, fileVars, playVars, nudgeVars, installs>>

isVersionNewerThan(a, b) == a > b

\* A number in the list that cannot be parsed counts as release 0.0.0.
Listed(v) == {v, Unknown}

\* An older or equal release ends the update, unless it is forced.
quickLatest ==
  /\ upd.at = "latest"
  /\ \E v \in Listed(newest[upd.track]) :
     IF upd.force \/ isVersionNewerThan(v, upd.old)
     THEN upd' = [upd EXCEPT !.at = "download", !.want = v]
     ELSE UpdateEnds
  /\ UNCHANGED <<netVars, fileVars, playVars, nudgeVars, installs>>

-----------------------------------------------------------------------------
(* fullPackage *)

\* The address names the track, not the release.
HttpGet ==
  /\ upd.at = "download"
  /\ upd' = [upd EXCEPT !.at = "verify", !.pkg = newest[upd.track]]
  /\ UNCHANGED <<netVars, fileVars, playVars, nudgeVars, installs>>

\* The checksum is the one of the release that was announced.
checkSHA256(u) == u.pkg = u.want

\* The sums do not list the release, or list another sum; the archive cannot be read, or
\* lacks files.
PackageBad ==
  /\ upd.at = "verify"
  /\ UpdateEnds
  /\ UNCHANGED <<netVars, fileVars, playVars, nudgeVars, installs>>

\* From here on starts are held back, and players are warned.
checkFullPackage ==
  /\ upd.at = "verify" /\ checkSHA256(upd)
  /\ upd' = [upd EXCEPT !.at = "wait", !.up = (game = "up")]
  /\ UNCHANGED <<netVars, fileVars, playVars, nudgeVars, installs>>

\* Fault: the wait ends with the players' grace.
waitLimit_Grace == Grace

waitLimit == Grace + 1 + StopTime

WaitFactQuit ==
  /\ upd.at = "wait"
  /\ \/ game = "down" /\ upd' = [upd EXCEPT !.at = "remove"]
     \/ game # "down" /\ upd.waited >= waitLimit /\ UpdateEnds
  /\ UNCHANGED <<netVars, fileVars, playVars, nudgeVars, installs>>

\* That a directory could not be removed is only logged.
RemoveAll ==
  /\ upd.at = "remove"
  /\ \E kept \in SUBSET Parts :
       /\ parts' = [p \in Parts |-> IF p \in kept THEN parts[p] ELSE 0]
       /\ upd' = [upd EXCEPT !.at = "untar", !.kept = kept, !.left = Parts]
  /\ torn' = TRUE
  /\ UNCHANGED <<netVars, known, playVars, nudgeVars, installs>>

untar(p) ==
  /\ upd.at = "untar" /\ p \in upd.left
  /\ \E f \in {upd.pkg} \cup (IF parts[p] = 0 THEN {} ELSE {Mixture}) :
       parts' = [parts EXCEPT ![p] = f]
  /\ LET done == upd.left = {p} IN
     /\ known' = IF done THEN upd.want ELSE known
     /\ torn' = (~done \/ upd.kept # {})
     /\ upd' = [upd EXCEPT !.left = @ \ {p}, !.at = IF done THEN "settle" ELSE "untar"]
  /\ UNCHANGED <<netVars, playVars, nudgeVars, installs>>

\* A file cannot be written: what is there stays there.
untarFails ==
  /\ upd.at = "untar"
  /\ UpdateEnds
  /\ UNCHANGED <<netVars, fileVars, playVars, nudgeVars, installs>>

\* 15 seconds later, MarkFactorioUpdated
Settle ==
  /\ upd.at = "settle"
  /\ UpdateEnds
  /\ UNCHANGED <<netVars, fileVars, playVars, nudgeVars, installs>>

-----------------------------------------------------------------------------
(* The loops, and the game *)

Stop == IF stopping = Never THEN 0 ELSE stopping

Impatient(n) == n > Grace

\* startQueuedRebootLoop
QueuedReboot ==
  /\ UpdateInProgress /\ game = "up" /\ ~players /\ stopping = Never
  /\ stopping' = Stop
  /\ UNCHANGED <<netVars, fileVars, upd, playVars, warned, asleep, installs>>

\* startUpdateNudgeLoop: a minute later again while there are players, else in seconds.
UpdateNudge ==
  /\ UpdateInProgress /\ game = "up" /\ ~asleep
  /\ IF players
     THEN /\ stopping' = IF Impatient(warned) THEN Stop ELSE stopping
          /\ warned' = IF Impatient(warned) THEN 1 ELSE warned + 1
          /\ asleep' = TRUE
     ELSE stopping = Never /\ stopping' = Stop /\ warned' = 0 /\ UNCHANGED asleep
  /\ UNCHANGED <<netVars, fileVars, upd, playVars, installs>>

\* The manager carries the stop out, or the game ends by itself.
GameStops ==
  /\ game # "down"
  /\ game' = "down" /\ players' = FALSE /\ stopping' = Never
  /\ upd' = IF upd.at = "wait" THEN [upd EXCEPT !.up = FALSE] ELSE upd
  /\ UNCHANGED <<netVars, fileVars, warned, asleep, installs>>

\* executeStart checks the flag; the launch fails without a binary.
GameStarts ==
  /\ game = "down" /\ ~UpdateInProgress /\ parts["bin"] # 0
  /\ game' = "starting"
  /\ UNCHANGED <<netVars, fileVars, players, upd, nudgeVars, installs>>

\* "Loading mod base 2.0.76": the game needs its data.
handleFactVersion ==
  /\ game = "starting" /\ parts["data"] # 0
  /\ game' = "up" /\ known' \in Reported(parts["data"])
  /\ UNCHANGED <<netVars, parts, torn, players, upd, nudgeVars, installs>>

PlayersChange ==
  /\ game = "up" /\ players' = ~players
  /\ UNCHANGED <<netVars, fileVars, game, upd, nudgeVars, installs>>

\* A release on the experimental track may become the stable one.
Offer ==
  /\ \E t \in Tracks, v \in 1 .. MaxRelease :
       /\ v > newest[t]
       /\ newest' = [newest EXCEPT ![t] = v]
  /\ newest'["stable"] <= newest'["experimental"]
  /\ UNCHANGED <<track, fileVars, upd, playVars, nudgeVars, installs>>

SwitchTrack ==
  /\ track' \in Tracks \ {track}
  /\ UNCHANGED <<newest, fileVars, upd, playVars, nudgeVars, installs>>

\* ChatWire ends, and the game with it.
UpdaterDies ==
  /\ upd # NoUpdate
  /\ upd' = NoUpdate /\ known' = Unknown
  /\ game' = "down" /\ players' = FALSE
  /\ stopping' = Never /\ warned' = 0 /\ asleep' = FALSE
  /\ UNCHANGED <<netVars, parts, torn, installs>>

\* A minute passes; the loops have had their turn, and the installer looks every 100 ms.
MinutePassesBy ==
  /\ UpdateInProgress /\ game = "up" => IF players THEN asleep ELSE stopping # Never
  /\ upd.at \notin {"remove", "untar", "settle"}
  /\ ~(upd.at = "wait" /\ (game = "down" \/ upd.waited >= waitLimit))
  /\ asleep' = FALSE
  /\ stopping' = IF stopping \in {Never, StopTime} THEN stopping ELSE stopping + 1
  /\ upd' = IF upd.at = "wait" THEN [upd EXCEPT !.waited = @ + 1] ELSE upd
  /\ UNCHANGED <<netVars, fileVars, playVars, warned, installs>>

InstallerInit ==
  /\ newest = [t \in Tracks |-> 1] /\ track = "stable"
  /\ parts = [p \in Parts |-> 1] /\ known = 1
  /\ upd = NoUpdate /\ game = "up" /\ players = FALSE
  /\ stopping = Never /\ warned = 0 /\ asleep = FALSE /\ installs = 0
  /\ torn = FALSE

InstallerNext ==
  \/ UpdateFactorio \/ InstallFactorio \/ PackageBad
  \/ UpdateFails \/ GetFactorioVersion \/ quickLatest \/ HttpGet \/ checkFullPackage
  \/ WaitFactQuit \/ RemoveAll \/ untarFails \/ Settle
  \/ \E p \in Parts : untar(p)
  \/ QueuedReboot \/ UpdateNudge \/ GameStops \/ GameStarts \/ handleFactVersion \/ PlayersChange
  \/ Offer \/ SwitchTrack \/ UpdaterDies \/ MinutePassesBy

InstallerSpec == InstallerInit /\ [][InstallerNext]_installerVars

-----------------------------------------------------------------------------
(* Properties *)

Whole(P) == P["bin"] \notin {0, Mixture} /\ P["bin"] = P["data"]

\* Releases, files and counters have their types, and only a game that is up has players.
InstallerTypeOK ==
  /\ newest \in [Tracks -> 1 .. MaxRelease]
  /\ parts \in [Parts -> {Mixture} \cup 0 .. MaxRelease] /\ known \in 0 .. MaxRelease
  /\ warned \in 0 .. Grace + 1 /\ game \in {"down", "starting", "up"}
  /\ players => game = "up"

\* Whatever fails, and whenever ChatWire ends, there is a complete release to play with:
\* only an unpacking that was interrupted, or was put over old files, leaves less
\* (fullPackage verifies the package, and waits for the game, before it removes anything).
ReleaseKept == torn \/ Whole(parts)

\* An update that says it has installed a release has done so, all of it and the one it
\* had announced, although releases appear while it downloads; without force that is
\* never an older one (quickLatest, checkSHA256).  Where an old directory could not be
\* removed, which the code only logs, nothing is said of the files.
InstalledAsTold ==
  upd.at = "settle" =>
    /\ upd.kept = {} => Whole(parts) /\ parts["bin"] = upd.want
    /\ known = upd.want /\ (upd.force \/ upd.want > upd.old)

\* "Allow the player grace period and the controller's save-aware shutdown to finish":
\* when the installer gives up on a game that was up all the time, the stop that was
\* asked for had the minutes it may take, also when the loop was asleep or the grace of an
\* earlier update was not used up (WaitFactQuit, startUpdateNudgeLoop).  The seconds the
\* loop sleeps between two looks, which the installer does not allow for, are not counted.
StopHadTime ==
  upd.at = "wait" /\ upd.waited >= waitLimit /\ upd.up => stopping = StopTime

\* Updates replace the game only by a release that is complete, newer and waited for.
InstallSound == ReleaseKept /\ InstalledAsTold /\ StopHadTime

-----------------------------------------------------------------------------
(* The inductive invariant, for the proofs *)

Stages == {"version", "latest", "download", "verify", "wait", "remove", "untar", "settle"}

UpdateRecord ==
  [at : Stages, force : BOOLEAN, track : Tracks, old : 0 .. MaxRelease, want : 0 .. MaxRelease,
   pkg : 0 .. MaxRelease, kept : SUBSET Parts, left : SUBSET Parts, waited : Nat, up : BOOLEAN]

StateType ==
  /\ upd \in UpdateRecord \cup {NoUpdate} /\ track \in Tracks
  /\ players \in BOOLEAN /\ asleep \in BOOLEAN /\ torn \in BOOLEAN
  /\ stopping \in {Never} \cup 0 .. StopTime

\* What has been found out about the release on the way.
WantInv ==
  /\ upd.at \in Stages \ {"version", "latest"} => upd.force \/ upd.want > upd.old
  /\ upd.at = "verify" \/ UpdateInProgress => upd.pkg > 0
  /\ UpdateInProgress => upd.pkg = upd.want

\* The files while they are replaced, when nobody can start the game.
FilesInv ==
  /\ upd.at \in {"remove", "untar", "settle"} => game = "down"
  /\ upd.at = "untar" =>
       /\ torn /\ upd.left # {}
       /\ upd.kept = {} => \A p \in Parts : parts[p] = IF p \in upd.left THEN 0 ELSE upd.pkg
  /\ upd.at = "settle" =>
       /\ known = upd.want
       /\ upd.kept = {} => \A p \in Parts : parts[p] = upd.pkg

\* Every minute of the wait has a warning that was counted, until the stop is asked for;
\* from then on the stop is as old as the wait is longer than the grace.
WaitInv ==
  /\ asleep => warned > 0
  /\ upd.at \in {"version", "latest", "download", "verify"} => upd.waited = 0
  /\ upd.at = "wait" /\ upd.up =>
       /\ game = "up"
       /\ stopping = Never => warned >= upd.waited + (IF asleep THEN 1 ELSE 0)
       /\ stopping # Never => stopping = StopTime \/ stopping >= upd.waited - (Grace + 1)

InstallerInv ==
  InstallerTypeOK /\ StateType /\ ReleaseKept /\ WantInv /\ FilesInv /\ WaitInv
=============================================================================
