---------------------------- MODULE UpdateProofs ----------------------------
(***************************************************************************)
(* The updates of Factorio and of its mods.                                *)
(*                                                                         *)
(* InstallSound for any grace, any time a stop may take, and any numbers   *)
(* of releases and updates.  One lemma per group of actions: those that    *)
(* only move the update along, those that replace files, and those of the  *)
(* loops, the game and the clock.                                          *)
(*                                                                         *)
(* ModsSafe for any mods, releases and depth of dependencies.  The plan of *)
(* an update is the result of a recursive definition; that it is sound is  *)
(* proved by induction, in the form that the first-order provers can use:  *)
(* of the depths at which it would not hold there is a least one.          *)
(***************************************************************************)
EXTENDS Installer, Mods, FiniteSetTheorems, TLAPS

-----------------------------------------------------------------------------
(* Installer *)

USE DEF Tracks, Parts, Unknown, Mixture, Never, Stages

\* The invariant holds at the start.
LEMMA InstallerInitInv == InstallerInit => InstallerInv
<1> SUFFICES ASSUME InstallerInit PROVE InstallerInv
  OBVIOUS
<1>1. InstallerTypeOK
  BY InstallerConstants DEF InstallerInit, InstallerTypeOK
<1>2. upd \in UpdateRecord \cup {NoUpdate}
  BY DEF InstallerInit
<1>3. StateType
  BY <1>2 DEF InstallerInit, StateType
<1>4. ReleaseKept
  BY DEF InstallerInit, ReleaseKept, Whole
<1>5. WantInv /\ FilesInv /\ WaitInv
  BY DEF InstallerInit, WantInv, FilesInv, WaitInv, UpdateInProgress, NoUpdate
<1> QED
  BY <1>1, <1>3, <1>4, <1>5 DEF InstallerInv

\* An update that is under way is a full record.
LEMMA UpdateIsRecord ==
  ASSUME StateType, upd.at # "none"
  PROVE  upd \in UpdateRecord
  BY DEF StateType, NoUpdate

\* An update ends: neither the files nor the counts are touched.
LEMMA UpdateEndsInv ==
  ASSUME InstallerInv, UpdateEnds,
         UNCHANGED <<netVars, fileVars, playVars, nudgeVars>>
  PROVE  InstallerInv'
  BY DEF InstallerInv, InstallerTypeOK, StateType, NoUpdate, ReleaseKept, Whole, WantInv,
         FilesInv, WaitInv, UpdateInProgress, UpdateEnds, netVars, fileVars, playVars, nudgeVars

\* The update moves along before the wait, and knows what it has to know by then.
LEMMA UpdateMovesInv ==
  ASSUME InstallerInv, UNCHANGED <<netVars, fileVars, playVars, nudgeVars>>,
         upd' \in UpdateRecord,
         upd'.at \in {"version", "latest", "download", "verify"},
         upd'.at \in {"download", "verify"} => upd'.force \/ upd'.want > upd'.old,
         upd'.at = "verify" => upd'.pkg > 0, upd'.waited = 0
  PROVE  InstallerInv'
<1>1. InstallerTypeOK' /\ ReleaseKept'
  BY DEF InstallerInv, InstallerTypeOK, ReleaseKept, Whole, netVars, fileVars, playVars, nudgeVars
<1>2. StateType'
  BY DEF InstallerInv, StateType, netVars, fileVars, playVars, nudgeVars
<1>3. WantInv' /\ FilesInv'
  BY DEF WantInv, FilesInv, UpdateInProgress
<1>4. WaitInv'
  BY DEF InstallerInv, WaitInv, nudgeVars
<1> QED
  BY <1>1, <1>2, <1>3, <1>4 DEF InstallerInv

\* The version that files report is the number of a release.
LEMMA ReportedType ==
  ASSUME InstallerTypeOK, NEW p \in Parts, NEW v \in Reported(parts[p])
  PROVE  v \in 0 .. MaxRelease
<1>1. parts[p] \in {Mixture} \cup 0 .. MaxRelease
  BY DEF InstallerTypeOK
<1> QED
  BY <1>1, InstallerConstants DEF Reported

\* The steps that find a release and fetch it (doQuickLatest, quickLatest, HttpGet).
LEMMA FindingInv ==
  ASSUME InstallerInv,
         \/ UpdateFactorio \/ InstallFactorio \/ GetFactorioVersion
         \/ quickLatest \/ HttpGet \/ UpdateFails
  PROVE  InstallerInv'
<1>1. ASSUME NEW force \in BOOLEAN, doQuickLatest(force)
      PROVE  InstallerInv'
  <2>1. upd' \in UpdateRecord /\ upd'.at \in {"version", "latest"} /\ upd'.waited = 0
    BY <1>1, InstallerConstants DEF doQuickLatest, UpdateRecord, InstallerInv, StateType
  <2> QED
    BY <1>1, <2>1, UpdateMovesInv DEF doQuickLatest
<1>2. CASE GetFactorioVersion
  <2>1. upd \in UpdateRecord
    BY <1>2, UpdateIsRecord DEF GetFactorioVersion, InstallerInv
  <2>2. PICK v \in 0 .. MaxRelease : upd' = [upd EXCEPT !.at = "latest", !.old = v]
    BY <1>2, ReportedType DEF GetFactorioVersion, InstallerInv
  <2>3. upd.waited = 0
    BY <1>2 DEF GetFactorioVersion, InstallerInv, WaitInv
  <2>4. upd' \in UpdateRecord /\ upd'.at = "latest" /\ upd'.waited = 0
    BY <2>1, <2>2, <2>3 DEF UpdateRecord
  <2> QED
    BY <1>2, <2>4, UpdateMovesInv DEF GetFactorioVersion
<1>3. CASE quickLatest
  <2>1. upd \in UpdateRecord
    BY <1>3, UpdateIsRecord DEF quickLatest, InstallerInv
  <2>2. newest[upd.track] \in 1 .. MaxRelease /\ upd.waited = 0
    BY <1>3, <2>1 DEF quickLatest, UpdateRecord, InstallerInv, InstallerTypeOK, WaitInv
  <2>3. PICK v \in 0 .. MaxRelease :
          \/ UpdateEnds
          \/ /\ upd.force \/ v > upd.old
             /\ upd' = [upd EXCEPT !.at = "download", !.want = v]
    <3>1. PICK v \in Listed(newest[upd.track]) :
            IF upd.force \/ isVersionNewerThan(v, upd.old)
            THEN upd' = [upd EXCEPT !.at = "download", !.want = v]
            ELSE UpdateEnds
      BY <1>3 DEF quickLatest
    <3>2. v \in 0 .. MaxRelease
      BY <2>2, <3>1, InstallerConstants DEF Listed
    <3> QED
      BY <3>1, <3>2 DEF isVersionNewerThan
  <2>4. CASE UpdateEnds
    BY <1>3, <2>4, UpdateEndsInv DEF quickLatest
  <2>5. CASE /\ upd.force \/ v > upd.old
             /\ upd' = [upd EXCEPT !.at = "download", !.want = v]
    <3>1. upd' \in UpdateRecord
      BY <2>1, <2>5 DEF UpdateRecord
    <3>2. /\ upd'.at = "download" /\ upd'.waited = 0
          /\ upd'.force \/ upd'.want > upd'.old
      BY <2>1, <2>2, <2>5 DEF UpdateRecord
    <3> QED
      BY <1>3, <3>1, <3>2, UpdateMovesInv DEF quickLatest
  <2> QED
    BY <2>3, <2>4, <2>5
<1>4. CASE HttpGet
  <2>1. upd \in UpdateRecord
    BY <1>4, UpdateIsRecord DEF HttpGet, InstallerInv
  <2>2. newest[upd.track] \in 1 .. MaxRelease
    BY <2>1 DEF UpdateRecord, InstallerInv, InstallerTypeOK
  <2>3. PICK n \in 0 .. MaxRelease : n > 0 /\ upd' = [upd EXCEPT !.at = "verify", !.pkg = n]
    <3>1. newest[upd.track] \in 0 .. MaxRelease /\ newest[upd.track] > 0
      BY <2>2, InstallerConstants
    <3> QED
      BY <1>4, <3>1, Zenon DEF HttpGet
  <2>4. (upd.force \/ upd.want > upd.old) /\ upd.waited = 0
    BY <1>4 DEF HttpGet, InstallerInv, WantInv, WaitInv
  <2>5. upd' \in UpdateRecord
    BY <2>1, <2>3 DEF UpdateRecord
  <2>6. /\ upd'.at = "verify" /\ upd'.pkg > 0 /\ upd'.waited = 0
        /\ upd'.force \/ upd'.want > upd'.old
    BY <2>1, <2>3, <2>4 DEF UpdateRecord
  <2> QED
    BY <1>4, <2>5, <2>6, UpdateMovesInv DEF HttpGet
<1>5. CASE UpdateFails
  BY <1>5, UpdateEndsInv DEF UpdateFails
<1> QED
  BY <1>1, <1>2, <1>3, <1>4, <1>5 DEF UpdateFactorio, InstallFactorio

\* The steps that verify the package, wait and replace the files (fullPackage, untar).
LEMMA ReplacingInv ==
  ASSUME InstallerInv,
         \/ PackageBad \/ checkFullPackage \/ WaitFactQuit \/ RemoveAll
         \/ untarFails \/ Settle \/ \E p \in Parts : untar(p)
  PROVE  InstallerInv'
<1> USE InstallerConstants
    DEF InstallerInv, InstallerTypeOK, StateType, NoUpdate, ReleaseKept, Whole, WantInv,
        FilesInv, WaitInv, UpdateInProgress, netVars, fileVars, playVars, nudgeVars
<1>1. CASE PackageBad
  BY <1>1, UpdateEndsInv DEF PackageBad
<1>2. CASE checkFullPackage
  <2>1. upd \in UpdateRecord
    BY <1>2, UpdateIsRecord DEF checkFullPackage
  <2>2. upd' \in UpdateRecord
    BY <1>2, <2>1 DEF checkFullPackage, UpdateRecord
  <2>3. /\ upd'.at = "wait" /\ upd'.up = (game = "up") /\ upd'.waited = upd.waited
        /\ upd'.force = upd.force /\ upd'.want = upd.want /\ upd'.old = upd.old
        /\ upd'.pkg = upd.pkg
    BY <1>2, <2>1 DEF checkFullPackage, UpdateRecord
  <2>4. InstallerTypeOK' /\ ReleaseKept' /\ StateType'
    BY <1>2, <2>2 DEF checkFullPackage
  <2>5. WantInv' /\ FilesInv'
    BY <1>2, <2>3 DEF checkFullPackage, checkSHA256
  <2>6. WaitInv'
    BY <1>2, <2>1, <2>3 DEF checkFullPackage, UpdateRecord
  <2> QED
    BY <2>4, <2>5, <2>6
<1>3. CASE WaitFactQuit
  <2>1. upd \in UpdateRecord
    BY <1>3, UpdateIsRecord DEF WaitFactQuit
  <2>2. CASE UpdateEnds
    BY <1>3, <2>2, UpdateEndsInv DEF WaitFactQuit
  <2>3. CASE game = "down" /\ upd' = [upd EXCEPT !.at = "remove"]
    BY <1>3, <2>1, <2>3 DEF WaitFactQuit, UpdateRecord
  <2> QED
    BY <1>3, <2>2, <2>3 DEF WaitFactQuit
<1>4. CASE RemoveAll
  <2>1. upd \in UpdateRecord
    BY <1>4, UpdateIsRecord DEF RemoveAll
  <2>2. PICK kept \in SUBSET Parts :
          /\ parts' = [p \in Parts |-> IF p \in kept THEN parts[p] ELSE 0]
          /\ upd' = [upd EXCEPT !.at = "untar", !.kept = kept, !.left = Parts]
    BY <1>4 DEF RemoveAll
  <2>3. upd' \in UpdateRecord
    BY <2>1, <2>2 DEF UpdateRecord
  <2>4. /\ upd'.at = "untar" /\ upd'.left = Parts /\ upd'.kept = kept /\ upd'.pkg = upd.pkg
        /\ upd'.force = upd.force /\ upd'.want = upd.want /\ upd'.old = upd.old
    BY <2>1, <2>2 DEF UpdateRecord
  <2>5. parts' \in [Parts -> {Mixture} \cup 0 .. MaxRelease]
    BY <2>2
  <2>6. InstallerTypeOK' /\ ReleaseKept' /\ StateType'
    BY <1>4, <2>3, <2>5 DEF RemoveAll
  <2>7. WantInv' /\ WaitInv'
    BY <1>4, <2>4 DEF RemoveAll
  <2>8. FilesInv'
    BY <1>4, <2>2, <2>4 DEF RemoveAll
  <2> QED
    BY <2>6, <2>7, <2>8
<1>5. CASE untarFails
  BY <1>5, UpdateEndsInv DEF untarFails
<1>6. CASE Settle
  BY <1>6, UpdateEndsInv DEF Settle
<1>7. ASSUME NEW p \in Parts, untar(p)
      PROVE  InstallerInv'
  <2>1. upd \in UpdateRecord
    BY <1>7, UpdateIsRecord DEF untar
  <2>2. PICK f \in {upd.pkg} \cup (IF parts[p] = 0 THEN {} ELSE {Mixture}) :
          parts' = [parts EXCEPT ![p] = f]
    BY <1>7 DEF untar
  <2>3. upd.kept = {} => f = upd.pkg
    BY <1>7, <2>2 DEF untar
  <2> DEFINE last == upd.left = {p}
  <2>4. upd' \in UpdateRecord
    BY <1>7, <2>1 DEF untar, UpdateRecord
  <2>5. /\ upd'.at = IF last THEN "settle" ELSE "untar"
        /\ upd'.left = upd.left \ {p} /\ upd'.kept = upd.kept /\ upd'.pkg = upd.pkg
        /\ upd'.force = upd.force /\ upd'.want = upd.want /\ upd'.old = upd.old
    BY <1>7, <2>1 DEF untar, UpdateRecord
  <2>6. upd.pkg = upd.want /\ upd.pkg \in 1 .. MaxRelease
    BY <1>7, <2>1 DEF untar, UpdateRecord
  <2>7. parts' \in [Parts -> {Mixture} \cup 0 .. MaxRelease]
    BY <2>2, <2>6
  <2>8. known' \in 0 .. MaxRelease /\ torn' \in BOOLEAN
    BY <1>7, <2>6 DEF untar
  <2>9. InstallerTypeOK' /\ StateType'
    BY <1>7, <2>4, <2>7, <2>8 DEF untar
  <2>10. WantInv' /\ WaitInv'
    BY <1>7, <2>5 DEF untar
  <2>11. upd.kept = {} => \A q \in Parts : parts'[q] = IF q \in upd'.left THEN 0 ELSE upd.pkg
    BY <1>7, <2>2, <2>3, <2>5 DEF untar
  <2>12. FilesInv'
    <3>1. CASE last
      <4>1. \A q \in Parts : q \notin upd'.left
        BY <3>1, <2>5
      <4> QED
        BY <1>7, <3>1, <4>1, <2>5, <2>6, <2>11 DEF untar
    <3>2. CASE ~last
      <4>1. torn'
        BY <1>7, <3>2, Zenon DEF untar
      <4>2. PICK q \in Parts : q \in upd.left /\ q # p
        BY <1>7, <3>2, <2>1 DEF untar, UpdateRecord
      <4>3. upd'.left # {}
        BY <4>2, <2>5
      <4> QED
        BY <1>7, <3>2, <4>1, <4>3, <2>5, <2>11 DEF untar
    <3> QED
      BY <3>1, <3>2
  <2>13. ReleaseKept'
    <3>1. CASE torn'
      BY <3>1
    <3>2. CASE ~torn'
      <4>1. last /\ upd.kept = {}
        BY <1>7, <3>2 DEF untar
      <4>2. parts'["bin"] = upd.pkg /\ parts'["data"] = upd.pkg
        BY <4>1, <2>5, <2>11
      <4> QED
        BY <4>2, <2>6
    <3> QED
      BY <3>1, <3>2
  <2> QED
    BY <2>9, <2>10, <2>12, <2>13
<1> QED
  BY <1>1, <1>2, <1>3, <1>4, <1>5, <1>6, <1>7

\* The loops that warn and stop, the game, the players, the server and the clock.
LEMMA SurroundingsInv ==
  ASSUME InstallerInv,
         \/ QueuedReboot \/ UpdateNudge \/ GameStops \/ GameStarts \/ handleFactVersion
         \/ PlayersChange \/ Offer \/ SwitchTrack \/ UpdaterDies \/ MinutePassesBy
  PROVE  InstallerInv'
<1> USE InstallerConstants
    DEF InstallerInv, InstallerTypeOK, StateType, NoUpdate, ReleaseKept, Whole, WantInv,
        FilesInv, WaitInv, UpdateInProgress, netVars, fileVars, playVars, nudgeVars
<1>1. CASE QueuedReboot
  BY <1>1, UpdateIsRecord DEF QueuedReboot, Stop, UpdateRecord
<1>2. CASE UpdateNudge
  <2>1. upd \in UpdateRecord
    BY <1>2, UpdateIsRecord DEF UpdateNudge
  <2>2. CASE players
    BY <1>2, <2>1, <2>2 DEF UpdateNudge, Stop, Impatient, UpdateRecord
  <2>3. CASE ~players
    BY <1>2, <2>1, <2>3 DEF UpdateNudge, Stop, UpdateRecord
  <2> QED
    BY <2>2, <2>3
<1>3. CASE GameStops
  <2>1. CASE upd.at = "wait"
    <3>1. upd \in UpdateRecord
      BY <2>1, UpdateIsRecord
    <3> QED
      BY <1>3, <2>1, <3>1 DEF GameStops, UpdateRecord
  <2>2. CASE upd.at # "wait"
    BY <1>3, <2>2 DEF GameStops
  <2> QED
    BY <2>1, <2>2
<1>4. CASE GameStarts
  BY <1>4 DEF GameStarts
<1>5. CASE handleFactVersion
  BY <1>5 DEF handleFactVersion, Reported
<1>6. CASE PlayersChange
  BY <1>6 DEF PlayersChange
<1>7. CASE Offer
  BY <1>7 DEF Offer
<1>8. CASE SwitchTrack
  BY <1>8 DEF SwitchTrack
<1>9. CASE UpdaterDies
  <2>1. InstallerTypeOK' /\ ReleaseKept'
    BY <1>9 DEF UpdaterDies
  <2>2. upd' \in UpdateRecord \cup {NoUpdate}
    BY <1>9 DEF UpdaterDies
  <2>3. StateType'
    BY <1>9, <2>2 DEF UpdaterDies
  <2>4. WantInv' /\ FilesInv' /\ WaitInv'
    BY <1>9 DEF UpdaterDies
  <2> QED
    BY <2>1, <2>3, <2>4
<1>10. CASE MinutePassesBy
  <2>1. stopping' \in {Never} \cup 0 .. StopTime
    BY <1>10 DEF MinutePassesBy
  <2>2. InstallerTypeOK' /\ ReleaseKept'
    BY <1>10 DEF MinutePassesBy
  <2>3. CASE upd.at = "wait"
    <3>1. upd \in UpdateRecord
      BY <2>3, UpdateIsRecord
    <3>2. upd' = [upd EXCEPT !.waited = @ + 1] /\ upd' \in UpdateRecord
      BY <1>10, <2>3, <3>1 DEF MinutePassesBy, UpdateRecord
    <3>3. /\ upd'.at = "wait" /\ upd'.up = upd.up /\ upd'.waited = upd.waited + 1
          /\ upd'.force = upd.force /\ upd'.want = upd.want /\ upd'.old = upd.old
          /\ upd'.pkg = upd.pkg
      BY <2>3, <3>1, <3>2 DEF UpdateRecord
    <3>4. StateType'
      BY <1>10, <2>1, <3>2 DEF MinutePassesBy
    <3>5. WantInv' /\ FilesInv'
      BY <1>10, <2>3, <3>3 DEF MinutePassesBy
    <3>6. upd.waited \in Nat
      BY <3>1 DEF UpdateRecord
    <3>7. upd.up => (stopping = Never => asleep)
      BY <1>10, <2>3 DEF MinutePassesBy
    <3>8. WaitInv'
      BY <1>10, <2>1, <2>3, <3>3, <3>6, <3>7 DEF MinutePassesBy
    <3> QED
      BY <2>2, <3>4, <3>5, <3>8
  <2>4. CASE upd.at # "wait"
    <3>1. UNCHANGED upd
      BY <1>10, <2>4 DEF MinutePassesBy
    <3>2. StateType'
      BY <1>10, <2>1, <3>1 DEF MinutePassesBy
    <3>3. WantInv' /\ FilesInv' /\ WaitInv'
      BY <1>10, <2>4, <3>1 DEF MinutePassesBy
    <3> QED
      BY <2>2, <3>2, <3>3
  <2> QED
    BY <2>3, <2>4
<1> QED
  BY <1>1, <1>2, <1>3, <1>4, <1>5, <1>6, <1>7, <1>8, <1>9, <1>10

\* A step that changes nothing keeps the invariant.
LEMMA StutterInv ==
  ASSUME InstallerInv, UNCHANGED installerVars
  PROVE  InstallerInv'
  BY DEF InstallerInv, InstallerTypeOK, StateType, NoUpdate, ReleaseKept, Whole, WantInv,
         FilesInv, WaitInv, UpdateInProgress, UpdateRecord, installerVars, netVars, fileVars,
         playVars, nudgeVars

\* Every step keeps the invariant.
LEMMA InstallerStep == InstallerInv /\ [InstallerNext]_installerVars => InstallerInv'
  BY FindingInv, ReplacingInv, SurroundingsInv, StutterInv DEF InstallerNext

\* The invariant implies the promise: beyond the limit of the wait no warning can be
\* left to count, so a stop was asked for, and it is as old as it can get.
LEMMA InvSound == InstallerInv => InstallSound
<1> SUFFICES ASSUME InstallerInv PROVE InstallSound
  OBVIOUS
<1>1. InstalledAsTold
  BY UpdateIsRecord
  DEF InstallerInv, StateType, WantInv, FilesInv, InstalledAsTold, Whole, UpdateInProgress,
      UpdateRecord
<1>2. StopHadTime
  <2> SUFFICES ASSUME upd.at = "wait", upd.waited >= waitLimit, upd.up
               PROVE  stopping = StopTime
    BY DEF StopHadTime
  <2>1. upd \in UpdateRecord
    BY UpdateIsRecord DEF InstallerInv
  <2>2. stopping # Never
    BY <2>1, InstallerConstants
    DEF InstallerInv, InstallerTypeOK, StateType, WaitInv, waitLimit, UpdateRecord
  <2> QED
    BY <2>1, <2>2, InstallerConstants
    DEF InstallerInv, InstallerTypeOK, StateType, WaitInv, waitLimit, UpdateRecord
<1> QED
  BY <1>1, <1>2 DEF InstallSound, InstallerInv

\* Updates replace the game only by a release that is complete, announced and newer, and
\* they give up on a running game only when its stop had its time (fullPackage,
\* WaitFactQuit, startUpdateNudgeLoop).
THEOREM InstallsAreSound == InstallerSpec => []InstallSound
<1>1. InstallerInit => InstallerInv
  BY InstallerInitInv
<1>2. InstallerInv /\ [InstallerNext]_installerVars => InstallerInv'
  BY InstallerStep
<1>3. InstallerInv => InstallSound
  BY InvSound
<1> QED
  BY <1>1, <1>2, <1>3, PTL DEF InstallerSpec

-----------------------------------------------------------------------------
(* Numbers *)

\* Every set of numbers that is not empty has a least one.
LEMMA LeastNat ==
  ASSUME NEW T \in SUBSET Nat, T # {}
  PROVE  \E x \in T : \A y \in T : x <= y
<1> DEFINE Initial == {1..n : n \in T}
           R == StrictSubsetOrdering(Nat)
<1>1. Initial \subseteq FiniteSubsetsOf(Nat)
  <2> SUFFICES ASSUME NEW n \in T PROVE 1..n \in FiniteSubsetsOf(Nat)
    OBVIOUS
  <2>1. IsFiniteSet(1..n)
    BY FS_Interval
  <2> QED
    BY <2>1 DEF FiniteSubsetsOf
<1>2. Initial # {}
  OBVIOUS
<1>3. IsWellFoundedOn(R, FiniteSubsetsOf(Nat))
  BY FS_StrictSubsetOrderingWellFounded
<1>4. \E I \in Initial : \A J \in Initial : ~ (<<J, I>> \in R)
  <2> HIDE DEF R, Initial
  <2> QED
    BY <1>1, <1>2, <1>3, WFMin
<1>5. PICK x \in T : \A J \in Initial : ~ (<<J, 1..x>> \in R)
  <2> HIDE DEF R
  <2> QED
    BY <1>4
<1>6. ASSUME NEW y \in T, y < x PROVE FALSE
  <2>1. <<1..y, 1..x>> \in (SUBSET Nat) \X (SUBSET Nat)
    OBVIOUS
  <2>2. 1..y \subseteq 1..x
    BY <1>6
  <2>3. x \in 1..x /\ x \notin 1..y
    BY <1>6
  <2>4. <<1..y, 1..x>> \in R
    BY <2>1, <2>2, <2>3 DEF StrictSubsetOrdering
  <2>5. 1..y \in Initial
    OBVIOUS
  <2> QED
    BY <1>5, <2>4, <2>5
<1> QED
  BY <1>6

\* Every bounded set of numbers that is not empty has a greatest one.
LEMMA GreatestNat ==
  ASSUME NEW N \in Nat, NEW S \in SUBSET (0..N), S # {}
  PROVE  \E x \in S : \A y \in S : x >= y
<1> DEFINE T == {n \in 0..N : N - n \in S}
<1>1. T \in SUBSET Nat
  OBVIOUS
<1>2. T # {}
  <2>1. PICK s \in S : TRUE
    OBVIOUS
  <2>2. N - s \in 0..N /\ N - (N - s) = s
    OBVIOUS
  <2> QED
    BY <2>1, <2>2
<1>3. PICK t \in T : \A u \in T : t <= u
  <2> HIDE DEF T
  <2> QED
    BY <1>1, <1>2, LeastNat
<1>4. ASSUME NEW y \in S PROVE N - t >= y
  <2>1. N - y \in 0..N /\ N - (N - y) = y
    OBVIOUS
  <2>2. N - y \in T
    BY <2>1
  <2>3. t <= N - y
    BY <1>3, <2>2
  <2> QED
    BY <2>1, <2>3
<1> QED
  BY <1>3, <1>4

\* The newest of several files is one of them.
LEMMA NewestFile ==
  ASSUME NEW F \in SUBSET Versions, F # {}
  PROVE  Max(F) \in F /\ \A v \in F : v <= Max(F)
<1>1. F \in SUBSET (0..MaxVersion) /\ MaxVersion \in Nat
  BY ModsConstants DEF Versions
<1>2. \E x \in F : \A y \in F : x >= y
  BY <1>1, GreatestNat
<1>3. Max(F) \in F /\ \A y \in F : Max(F) >= y
  BY <1>2 DEF Max
<1> QED
  BY <1>1, <1>3

LEMMA InstalledVersion ==
  ASSUME files \in [ModNames -> SUBSET Versions], NEW m \in ModNames
  PROVE  Installed(m) \in 0..MaxVersion
  BY NewestFile, ModsConstants DEF Installed, Versions

LEMMA NothingPlanned == Nothing \in Plans /\ \A m \in ModNames : Nothing[m].ver = 0
  BY ModsConstants DEF Nothing, Plans

\* Of every mod the merged list has one of the entries it was given, or none.
LEMMA MergedEntry ==
  ASSUME NEW lists, DOMAIN lists \in SUBSET Nat,
         \A i \in DOMAIN lists : lists[i] \in Plans,
         NEW m \in ModNames
  PROVE  \/ addDownload(lists)[m] = Nothing[m]
         \/ \E i \in DOMAIN lists : addDownload(lists)[m] = lists[i][m]
<1> DEFINE I == DOMAIN lists
           ver(i) == lists[i][m].ver
           First(i) == \A j \in I : ver(j) < ver(i) \/ (ver(j) = ver(i) /\ i <= j)
<1>1. CASE \A i \in I : ver(i) = 0
  BY <1>1 DEF addDownload
<1>2. CASE \E i \in I : ver(i) # 0
  <2> DEFINE V == {ver(i) : i \in I}
  <2>1. MaxVersion \in Nat /\ \A i \in I : ver(i) \in 0..MaxVersion
    BY ModsConstants DEF Plans
  <2>2. V \in SUBSET (0..MaxVersion) /\ V # {}
    BY <2>1, <1>2
  <2>3. PICK v \in V : \A w \in V : v >= w
    <3> HIDE DEF V
    <3> QED
      BY <2>1, <2>2, GreatestNat
  <2> DEFINE T == {i \in I : ver(i) = v}
  <2>4. T \in SUBSET Nat /\ T # {}
    BY <2>3
  <2>5. PICK i \in T : \A j \in T : i <= j
    <3> HIDE DEF T
    <3> QED
      BY <2>4, LeastNat
  <2>6. \A j \in I : ver(j) <= v /\ ver(j) \in Nat /\ v \in Nat
    <3> HIDE DEF ver
    <3> QED
      BY <2>1, <2>3
  <2>7. First(i)
    <3> HIDE DEF ver
    <3> QED
      BY <2>5, <2>6
  <2>8. (CHOOSE k \in I : First(k)) \in I
    <3> HIDE DEF First
    <3> QED
      BY <2>5, <2>7
  <2>9. addDownload(lists)[m] = lists[CHOOSE k \in I : First(k)][m]
    BY <1>2 DEF addDownload
  <2> QED
    BY <2>8, <2>9
<1> QED
  BY <1>1, <1>2

-----------------------------------------------------------------------------
(* Plans *)

\* What a plan may ask for: another version than the one it replaces, and of a pinned
\* mod only the pinned version.
PlanSound(p) ==
  /\ p \in Plans
  /\ \A m \in ModNames : p[m].ver # 0 => /\ p[m].ver # p[m].old
                                         /\ pins[m] # 0 => p[m].ver = pins[m]

AnswerSound(a) == a.ok \in BOOLEAN /\ PlanSound(a.plan)

LEMMA NothingSound == PlanSound(Nothing)
  BY NothingPlanned DEF PlanSound

LEMMA MergedSound ==
  ASSUME NEW lists, DOMAIN lists \in SUBSET Nat, \A i \in DOMAIN lists : PlanSound(lists[i])
  PROVE  PlanSound(addDownload(lists))
<1> DEFINE p == addDownload(lists)
<1>1. \A i \in DOMAIN lists : lists[i] \in Plans
  BY DEF PlanSound
<1>2. ASSUME NEW m \in ModNames
      PROVE  p[m] = Nothing[m] \/ \E i \in DOMAIN lists : p[m] = lists[i][m]
  BY <1>1, MergedEntry
<1>3. ASSUME NEW m \in ModNames
      PROVE  /\ p[m] \in [ver : 0..MaxVersion, old : 0..MaxVersion]
             /\ p[m].ver # 0 => p[m].ver # p[m].old /\ (pins[m] # 0 => p[m].ver = pins[m])
  <2> HIDE DEF p
  <2>1. CASE p[m] = Nothing[m]
    BY <2>1, NothingPlanned DEF Plans
  <2>2. CASE \E i \in DOMAIN lists : p[m] = lists[i][m]
    BY <2>2, <1>1 DEF PlanSound, Plans
  <2> QED
    BY <1>2, <2>1, <2>2
<1>4. p = [m \in ModNames |-> p[m]]
  BY DEF addDownload
<1> HIDE DEF p
<1>5. p \in Plans
  BY <1>3, <1>4 DEF Plans
<1> QED
  BY <1>3, <1>5 DEF PlanSound, p

\* The answers that the dependencies of a release can be given.
AnswersSound(answers) == \A x \in Items : AnswerSound(answers[x])

HaveVersions(have) == \A m \in DOMAIN have : have[m] \in 0..MaxVersion \cup {Fresh}

LEMMA ReleaseSound ==
  ASSUME NEW answers, AnswersSound(answers), portal \subseteq Releases, NEW r \in portal,
         NEW have, HaveVersions(have), NEW parents \in SUBSET ModNames
  PROVE  LET a == resolveRelease(answers, r, have, parents) IN
         AnswerSound(a) /\ a.met \in BOOLEAN
<1> DEFINE required == {i \in DOMAIN r.deps : r.deps[i].kind = "required"}
           installed(i) == IF r.deps[i].mod \in DOMAIN have THEN have[r.deps[i].mod] ELSE Fresh
           item(i) == [mod |-> r.deps[i].mod, installed |-> installed(i), parents |-> parents]
           answer == [i \in required |-> answers[item(i)]]
           lists == [i \in required |-> answer[i].plan]
<1>1. r.deps \in Seq(Deps)
  BY ModsConstants
<1>2. DOMAIN lists \in SUBSET Nat
  BY <1>1
<1>3. ASSUME NEW i \in required PROVE item(i) \in Items
  <2>1. r.deps[i] \in Deps
    BY <1>1
  <2>2. r.deps[i].mod \in ModNames
    BY <2>1 DEF Deps
  <2>3. installed(i) \in {Fresh} \cup 0..MaxVersion
    BY DEF HaveVersions
  <2> HIDE DEF installed
  <2> QED
    BY <2>2, <2>3 DEF Items
<1>4. ASSUME NEW i \in required PROVE AnswerSound(answer[i])
  <2> HIDE DEF item
  <2> QED
    BY <1>3 DEF AnswersSound
<1>5. \A i \in DOMAIN lists : PlanSound(lists[i])
  <2> HIDE DEF answer
  <2> QED
    BY <1>4 DEF AnswerSound
<1>6. PlanSound(addDownload(lists))
  <2> HIDE DEF lists
  <2> QED
    BY <1>2, <1>5, MergedSound
<1>7. resolveRelease(answers, r, have, parents).plan = addDownload(lists)
  BY DEF resolveRelease
<1>8. resolveRelease(answers, r, have, parents).ok \in BOOLEAN
  BY DEF resolveRelease
<1>9. resolveRelease(answers, r, have, parents).met \in BOOLEAN
  BY DEF resolveRelease
<1> QED
  BY <1>6, <1>7, <1>8, <1>9 DEF AnswerSound

LEMMA ItemSound ==
  ASSUME NEW answers, AnswersSound(answers), portal \subseteq Releases,
         pins \in [ModNames -> 0..MaxVersion],
         NEW x \in Items, NEW have, HaveVersions(have), NEW depth
  PROVE  AnswerSound(resolveItem(answers, x, have, depth))
<1> DEFINE res(r) == resolveRelease(answers, r, have, x.parents \cup {x.mod})
           tried == {[rel |-> r, res |-> res(r)] : r \in Wanted(x.mod, x.installed, depth)}
           met == {t \in tried : t.res.met}
           best == CHOOSE t \in met : \A u \in met : t.rel.ver >= u.rel.ver
           chosen == [ver |-> best.rel.ver, old |-> IF x.installed > 0 THEN x.installed ELSE 0]
           mine == [Nothing EXCEPT ![x.mod] = chosen]
           both == addDownload(<<best.res.plan, mine>>)
<1>1. /\ x.mod \in ModNames /\ x.parents \in SUBSET ModNames
      /\ x.installed \in {Fresh} \cup 0..MaxVersion
  BY DEF Items
<1>2. ASSUME NEW t \in tried
      PROVE  /\ t.rel \in portal /\ t.rel.ver \in Versions
             /\ pins[x.mod] # 0 => t.rel.ver = pins[x.mod]
             /\ t.res.ok \in BOOLEAN /\ PlanSound(t.res.plan)
  <2>1. PICK r \in Wanted(x.mod, x.installed, depth) : t = [rel |-> r, res |-> res(r)]
    OBVIOUS
  <2>2. r \in portal /\ (pins[x.mod] # 0 => r.ver = pins[x.mod])
    BY DEF Wanted
  <2>3. r.ver \in Versions
    BY <2>2, ModsConstants
  <2>4. AnswerSound(res(r))
    <3>1. x.parents \cup {x.mod} \in SUBSET ModNames
      BY <1>1
    <3> QED
      BY <2>2, <3>1, ReleaseSound
  <2> HIDE DEF res
  <2> QED
    BY <2>1, <2>2, <2>3, <2>4 DEF AnswerSound
<1>3. ASSUME met # {} PROVE best \in met
  <2> DEFINE V == {t.rel.ver : t \in met}
  <2> HIDE DEF tried
  <2>1. MaxVersion \in Nat /\ V \in SUBSET (0..MaxVersion) /\ V # {}
    BY <1>2, <1>3, ModsConstants DEF Versions
  <2>2. PICK v \in V : \A w \in V : v >= w
    <3> HIDE DEF V
    <3> QED
      BY <2>1, GreatestNat
  <2>3. \E t \in met : \A u \in met : t.rel.ver >= u.rel.ver
    BY <2>2
  <2> HIDE DEF met
  <2> QED
    BY <2>3
<1>4. ASSUME met # {}, chosen.ver # x.installed PROVE PlanSound(both)
  <2>1. PlanSound(best.res.plan) /\ best.rel.ver \in Versions
        /\ (pins[x.mod] # 0 => best.rel.ver = pins[x.mod])
    <3> HIDE DEF tried, best
    <3> QED
      BY <1>2, <1>3, <1>4
  <2> HIDE DEF best
  <2>2. chosen \in [ver : 0..MaxVersion, old : 0..MaxVersion] /\ chosen.ver # 0
        /\ chosen.ver # chosen.old
    BY <2>1, <1>1, <1>4, ModsConstants DEF Versions, Fresh
  <2>3. chosen.ver = best.rel.ver
    OBVIOUS
  <2> HIDE DEF chosen
  <2>4. PlanSound(mine)
    <3>1. mine \in Plans
      BY <2>2, <1>1, NothingPlanned DEF Plans
    <3>2. ASSUME NEW m \in ModNames, mine[m].ver # 0 PROVE m = x.mod /\ mine[m] = chosen
      BY <3>2, NothingPlanned, <1>1 DEF Plans
    <3> HIDE DEF mine
    <3> QED
      BY <3>1, <3>2, <2>1, <2>2, <2>3 DEF PlanSound
  <2> HIDE DEF mine
  <2> DEFINE lists == <<best.res.plan, mine>>
  <2>5. DOMAIN lists = 1..2 /\ lists[1] = best.res.plan /\ lists[2] = mine
    OBVIOUS
  <2>6. DOMAIN lists \in SUBSET Nat /\ \A i \in DOMAIN lists : PlanSound(lists[i])
    BY <2>1, <2>4, <2>5
  <2> HIDE DEF lists
  <2>7. PlanSound(addDownload(lists))
    BY <2>6, MergedSound
  <2> QED
    BY <2>7 DEF lists
<1>5. ASSUME met # {} PROVE PlanSound(best.res.plan)
  <2> HIDE DEF tried, best
  <2> QED
    BY <1>2, <1>3, <1>5
<1>6. resolveItem(answers, x, have, depth) =
        IF \/ \E t \in tried : ~t.res.ok
           \/ pins[x.mod] # 0 /\ met = {}
           \/ depth = 0 /\ met = {} /\ x.installed <= 0
        THEN Failed
        ELSE [ok |-> TRUE, plan |-> IF met = {} THEN Nothing
                                    ELSE IF chosen.ver = x.installed THEN best.res.plan
                                    ELSE both]
  BY DEF resolveItem
<1> HIDE DEF tried, met, best, chosen, both
<1> QED
  BY <1>4, <1>5, <1>6, NothingSound DEF AnswerSound, Failed

-----------------------------------------------------------------------------
(* The resolution, by induction on its depth *)

NoAnswers == [x \in Items |-> [ok |-> TRUE, plan |-> Nothing]]

Deeper(answers) == [x \in Items |-> resolveDep(answers, x)]

\* The equations of resolveDeps, up to level n.
Resolves(g, n) == g = [k \in 0..n |-> IF k = 0 THEN NoAnswers ELSE Deeper(g[k - 1])]

\* They have a solution: the one for the levels below is extended by a level.
LEMMA ResolutionExists == \A n \in Nat : \E g : Resolves(g, n)
<1> DEFINE T == {n \in Nat : ~ \E g : Resolves(g, n)}
<1> SUFFICES ASSUME T # {} PROVE FALSE
  OBVIOUS
<1>1. PICK n \in T : \A k \in T : n <= k
  <2> HIDE DEF T
  <2>1. T \in SUBSET Nat
    BY DEF T
  <2> QED
    BY <2>1, LeastNat
<1>2. CASE n = 0
  <2> DEFINE h == [k \in 0..n |-> NoAnswers]
  <2>1. h = [k \in 0..n |-> IF k = 0 THEN NoAnswers ELSE Deeper(h[k - 1])]
    BY <1>2
  <2>2. Resolves(h, n)
    BY <2>1 DEF Resolves
  <2> QED
    BY <2>2
<1>3. CASE n # 0
  <2>1. n - 1 \in Nat /\ n - 1 \notin T
    BY <1>1, <1>3
  <2>2. PICK g : Resolves(g, n - 1)
    BY <2>1
  <2> DEFINE h == [k \in 0..n |-> IF k = 0 THEN NoAnswers ELSE Deeper(g[k - 1])]
  <2>3. ASSUME NEW k \in 0..(n - 1) PROVE h[k] = g[k]
    <3>1. g = [j \in 0..(n - 1) |-> IF j = 0 THEN NoAnswers ELSE Deeper(g[j - 1])]
      BY <2>2 DEF Resolves
    <3>2. g[k] = IF k = 0 THEN NoAnswers ELSE Deeper(g[k - 1])
      BY <3>1
    <3> QED
      BY <2>1, <3>2
  <2>4. ASSUME NEW k \in 0..n, k # 0 PROVE h[k - 1] = g[k - 1]
    <3>1. k - 1 \in 0..(n - 1)
      BY <2>4, <2>1
    <3> QED
      BY <3>1, <2>3
  <2>5. h = [k \in 0..n |-> IF k = 0 THEN NoAnswers ELSE Deeper(h[k - 1])]
    <3>1. ASSUME NEW k \in 0..n
          PROVE  (IF k = 0 THEN NoAnswers ELSE Deeper(g[k - 1]))
                   = IF k = 0 THEN NoAnswers ELSE Deeper(h[k - 1])
      <4> HIDE DEF h
      <4> QED
        BY <2>4
    <3> QED
      BY <3>1
  <2>6. Resolves(h, n)
    BY <2>5 DEF Resolves
  <2> QED
    BY <2>6
<1> QED
  BY <1>2, <1>3

LEMMA ResolutionIs == Resolves(resolveDeps, MaxDepth)
<1>1. MaxDepth \in Nat
  BY ModsConstants
<1>2. \E g : Resolves(g, MaxDepth)
  BY <1>1, ResolutionExists
<1>3. resolveDeps = CHOOSE g : Resolves(g, MaxDepth)
  BY DEF resolveDeps, Resolves, NoAnswers, Deeper
<1> QED
  BY <1>2, <1>3

\* At every depth every item has a sound answer.
LEMMA ResolutionSound ==
  ASSUME portal \subseteq Releases, pins \in [ModNames -> 0..MaxVersion]
  PROVE  AnswersSound(resolveDeps[MaxDepth])
<1>0. MaxDepth \in Nat
  BY ModsConstants
<1> DEFINE T == {n \in 0..MaxDepth : ~ AnswersSound(resolveDeps[n])}
<1> SUFFICES ASSUME T # {} PROVE FALSE
  BY <1>0
<1>1. PICK n \in T : \A k \in T : n <= k
  <2>1. T \in SUBSET Nat
    OBVIOUS
  <2> HIDE DEF T
  <2> QED
    BY <2>1, LeastNat
<1>2. resolveDeps[n] = IF n = 0 THEN NoAnswers ELSE Deeper(resolveDeps[n - 1])
  BY ResolutionIs DEF Resolves
<1>3. CASE n = 0
  <2> DEFINE none == [ok |-> TRUE, plan |-> Nothing]
  <2>1. AnswerSound(none)
    BY NothingSound DEF AnswerSound
  <2>2. \A x \in Items : NoAnswers[x] = none
    BY DEF NoAnswers
  <2> HIDE DEF none
  <2>3. AnswersSound(NoAnswers)
    BY <2>1, <2>2 DEF AnswersSound
  <2> QED
    BY <1>1, <1>2, <1>3, <2>3
<1>4. CASE n # 0
  <2> DEFINE below == resolveDeps[n - 1]
  <2>1. AnswersSound(below)
    <3>1. n - 1 \in 0..MaxDepth /\ n - 1 \notin T
      BY <1>0, <1>1, <1>4
    <3> QED
      BY <3>1
  <2>2. ASSUME NEW x \in Items PROVE AnswerSound(resolveDep(below, x))
    <3> HIDE DEF below
    <3> DEFINE have == [m \in {x.mod} |-> x.installed]
    <3>1. HaveVersions(have)
      BY DEF HaveVersions, Items
    <3>2. AnswerSound(resolveItem(below, x, have, 1))
      <4> HIDE DEF have
      <4> QED
        BY <2>1, <3>1, ItemSound
    <3> QED
      BY <3>2, NothingSound DEF resolveDep, AnswerSound
  <2>3. resolveDeps[n] = Deeper(below)
    BY <1>2, <1>4
  <2> HIDE DEF below
  <2>4. AnswersSound(resolveDeps[n])
    BY <2>2, <2>3 DEF Deeper, AnswersSound
  <2> QED
    BY <2>4, <1>1
<1> QED
  BY <1>3, <1>4

-----------------------------------------------------------------------------
(* The state *)

\* What is planned is sound, and it fits together with the mods that are not in the plan;
\* what is done is in the folder.
ModsInv ==
  /\ ModsTypeOK
  /\ PlanSound(plan)
  /\ todo # {} => plan # Nothing
  /\ plan # Nothing => validateDownloadPlan(plan) /\ applied = Nothing
  /\ todo \cup done \subseteq {m \in ModNames : plan[m].ver # 0}
  /\ \A m \in done : plan[m].ver \in files[m]
  /\ applied # Nothing =>
       /\ validateDownloadPlan(applied)
       /\ \A m \in ModNames : applied[m].ver # 0 => applied[m].ver \in files[m]

\* What is known of a mod depends on its files and its entry alone.
LEMMA ModKept ==
  ASSUME NEW m \in ModNames, files'[m] = files[m], list'[m] = list[m]
  PROVE  Installed(m)' = Installed(m) /\ (MergeModLists(m)' <=> MergeModLists(m))
  BY DEF Installed, MergeModLists

\* A plan that fits still does when nothing but mods of the plan has changed.
LEMMA PlanStillFits ==
  ASSUME UNCHANGED <<plan, list>>,
         \A m \in ModNames : plan[m].ver = 0 => files'[m] = files[m],
         validateDownloadPlan(plan)
  PROVE  validateDownloadPlan(plan)'
<1>1. \A m \in ModNames : Final(plan)'[m] = Final(plan)[m]
  BY ModKept DEF Final, Enabled
<1>2. Final(plan)' = Final(plan)
  BY <1>1 DEF Final
<1> QED
  BY <1>2 DEF validateDownloadPlan, Satisfied

LEMMA AppliedStillFits ==
  ASSUME UNCHANGED <<applied, list, files>>, validateDownloadPlan(applied)
  PROVE  validateDownloadPlan(applied)'
<1>1. \A m \in ModNames : Final(applied)'[m] = Final(applied)[m]
  BY ModKept DEF Final, Enabled
<1>2. Final(applied)' = Final(applied)
  BY <1>1 DEF Final
<1> QED
  BY <1>2 DEF validateDownloadPlan, Satisfied

LEMMA ModsInitInv == ModsInit => ModsInv
<1> SUFFICES ASSUME ModsInit PROVE ModsInv
  OBVIOUS
<1>1. ModsTypeOK
  <2>1. MaxEdits \in Nat /\ MaxVersion \in Nat
    BY ModsConstants
  <2>2. files \in [ModNames -> SUBSET Versions]
    <3>1. [m \in ModNames |-> {}] \in [ModNames -> SUBSET Versions]
      OBVIOUS
    <3>2. [m \in ModNames |-> {1}] \in [ModNames -> SUBSET Versions]
      BY ModsConstants DEF Versions
    <3> QED
      BY <3>1, <3>2 DEF ModsInit
  <2> QED
    BY <2>1, <2>2, NothingPlanned DEF ModsInit, ModsTypeOK
<1> QED
  BY <1>1, NothingSound DEF ModsInit, ModsInv

\* A check plans only what is sound.
LEMMA CheckInv == ASSUME ModsInv, CheckModUpdates PROVE ModsInv'
<1> USE DEF ModsInv, ModsTypeOK
<1>1. PICK order \in SetToSeqs(Enabled) :
        plan' = addDownload([i \in DOMAIN order |-> resolveListed(order, i).plan])
  BY DEF CheckModUpdates
<1> DEFINE lists == [i \in DOMAIN order |-> resolveListed(order, i).plan]
<1>2. DOMAIN order \in SUBSET Nat /\ \A i \in DOMAIN order : order[i] \in Enabled
  <2>1. IsFiniteSet(Enabled)
    BY FS_Subset, ModsConstants DEF Enabled
  <2>2. Cardinality(Enabled) \in Nat
    BY <2>1, FS_CardinalityType
  <2>3. order \in [1..Cardinality(Enabled) -> Enabled]
    BY DEF SetToSeqs
  <2> QED
    BY <2>2, <2>3
<1>3. ASSUME NEW i \in DOMAIN order PROVE PlanSound(lists[i])
  <2> DEFINE x == [mod |-> order[i], installed |-> Installed(order[i]), parents |-> {}]
             have == [m \in Enabled |-> Installed(m)]
  <2>1. x \in Items
    BY <1>2, InstalledVersion DEF Enabled, Items
  <2>2. HaveVersions(have)
    BY InstalledVersion DEF HaveVersions, Enabled
  <2>3. AnswersSound(resolveDeps[MaxDepth])
    BY ResolutionSound
  <2>4. AnswerSound(resolveItem(resolveDeps[MaxDepth], x, have, 0))
    <3> HIDE DEF x, have
    <3> QED
      BY <2>1, <2>2, <2>3, ItemSound
  <2> QED
    BY <2>4 DEF resolveListed, AnswerSound
<1>4. PlanSound(plan')
  <2>1. DOMAIN lists \in SUBSET Nat
    BY <1>2
  <2> HIDE DEF lists
  <2>2. DOMAIN lists = DOMAIN order
    BY DEF lists
  <2>3. PlanSound(addDownload(lists))
    BY <1>3, <2>1, <2>2, MergedSound
  <2> QED
    BY <1>1, <2>3 DEF lists
<1>5. PlanSound(plan)'
  BY <1>4 DEF PlanSound, CheckModUpdates, disk
<1>6. validateDownloadPlan(plan)'
  <2>1. Final(plan)' = Final(plan')
    BY DEF Final, Enabled, MergeModLists, Installed, CheckModUpdates, disk
  <2> QED
    BY <2>1 DEF validateDownloadPlan, CheckModUpdates, Satisfied
<1>7. ModsTypeOK'
  BY <1>4, NothingPlanned DEF CheckModUpdates, disk, PlanSound
<1> QED
  BY <1>5, <1>6, <1>7 DEF CheckModUpdates

LEMMA DownloadInv == ASSUME ModsInv, NEW m \in ModNames, Download(m) PROVE ModsInv'
<1> USE DEF ModsInv, ModsTypeOK
<1>1. plan[m].ver # 0 /\ plan[m] \in [ver : 0..MaxVersion, old : 0..MaxVersion]
      /\ plan[m].ver # plan[m].old
  BY DEF Download, PlanSound, Plans
<1>2. Replaced(m) \in SUBSET Versions /\ plan[m].ver \in Replaced(m)
  BY <1>1, ModsConstants DEF Replaced, Versions
<1>3. files' = [files EXCEPT ![m] = Replaced(m)]
  BY DEF Download
<1>4. ModsTypeOK'
  BY <1>2, <1>3 DEF Download
<1>5. validateDownloadPlan(plan)' /\ applied' = Nothing
  BY <1>1, <1>3, PlanStillFits DEF Download
<1>6. ASSUME NEW n \in done' PROVE plan'[n].ver \in files'[n]
  BY <1>2, <1>3 DEF Download
<1> QED
  BY <1>4, <1>5, <1>6 DEF Download, PlanSound

LEMMA RemoveFailsInv == ASSUME ModsInv, NEW m \in ModNames, RemoveFails(m) PROVE ModsInv'
<1> USE DEF ModsInv, ModsTypeOK
<1>1. plan[m].ver # 0 /\ plan[m] \in [ver : 0..MaxVersion, old : 0..MaxVersion]
  BY DEF RemoveFails, PlanSound, Plans
<1>2. files' = [files EXCEPT ![m] = @ \cup {plan[m].ver}]
  BY DEF RemoveFails
<1>3. ModsTypeOK'
  BY <1>1, <1>2, ModsConstants DEF RemoveFails, Versions
<1>4. validateDownloadPlan(plan)' /\ applied' = Nothing
  BY <1>1, <1>2, PlanStillFits DEF RemoveFails
<1>5. ASSUME NEW n \in done' PROVE plan'[n].ver \in files'[n]
  BY <1>2 DEF RemoveFails
<1> QED
  BY <1>3, <1>4, <1>5 DEF RemoveFails, PlanSound

LEMMA DownloadFailsInv == ASSUME ModsInv, NEW m \in ModNames, DownloadFails(m) PROVE ModsInv'
<1> USE DEF ModsInv, ModsTypeOK
<1>1. validateDownloadPlan(plan)' /\ applied' = Nothing
  BY PlanStillFits DEF DownloadFails, disk
<1> QED
  BY <1>1 DEF DownloadFails, disk, PlanSound

LEMMA EndUpdateInv == ASSUME ModsInv, EndUpdate PROVE ModsInv'
<1> USE DEF ModsInv, ModsTypeOK
<1>1. ModsTypeOK' /\ PlanSound(plan)'
  BY NothingPlanned, NothingSound DEF EndUpdate, disk, PlanSound
<1>2. CASE AllDone
  <2>1. applied' = plan
    BY <1>2 DEF EndUpdate
  <2>2. Final(applied)' = Final(plan)
    BY <2>1 DEF EndUpdate, disk, Final, Enabled, MergeModLists, Installed
  <2>3. validateDownloadPlan(applied)'
    BY <2>2 DEF EndUpdate, validateDownloadPlan, Satisfied
  <2>4. \A m \in ModNames : plan[m].ver # 0 => plan[m].ver \in files[m]
    BY <1>2 DEF AllDone
  <2> QED
    BY <1>1, <2>1, <2>3, <2>4 DEF EndUpdate, disk
<1>3. CASE ~AllDone
  BY <1>1, <1>3 DEF EndUpdate, disk
<1> QED
  BY <1>2, <1>3

LEMMA CrashInUpdateInv == ASSUME ModsInv, CrashInUpdate PROVE ModsInv'
<1> USE DEF ModsInv, ModsTypeOK
<1>1. applied' = Nothing
  BY DEF CrashInUpdate
<1>2. ModsTypeOK' /\ PlanSound(plan)'
  BY NothingPlanned, NothingSound DEF CrashInUpdate, disk, PlanSound
<1> QED
  BY <1>1, <1>2 DEF CrashInUpdate, disk

\* While nothing is under way the operator may edit what he likes.
LEMMA EditInv ==
  ASSUME ModsInv, Edited,
         files' \in [ModNames -> SUBSET Versions],
         list' \in [ModNames -> {"absent", "on", "off"}], pins' \in [ModNames -> 0..MaxVersion]
  PROVE  ModsInv'
<1> USE DEF ModsInv, ModsTypeOK
<1>1. plan' = Nothing /\ applied' = Nothing /\ todo' = {} /\ done' = {}
  BY NothingPlanned DEF Edited, Idle
<1>2. ModsTypeOK'
  BY <1>1, ModsConstants, NothingPlanned DEF Edited
<1>3. PlanSound(plan)'
  BY <1>1, NothingPlanned DEF PlanSound
<1> QED
  BY <1>1, <1>2, <1>3

LEMMA EditsInv ==
  ASSUME ModsInv, NEW m \in ModNames, NEW on \in BOOLEAN, NEW v \in 0..MaxVersion,
         addMods(m) \/ removeMod(m) \/ toggleMod(m, on) \/ SetVersion(m, v) \/ clearAllMods
  PROVE  ModsInv'
<1>1. /\ files \in [ModNames -> SUBSET Versions]
      /\ list \in [ModNames -> {"absent", "on", "off"}] /\ pins \in [ModNames -> 0..MaxVersion]
  BY DEF ModsInv, ModsTypeOK
<1>2. CASE addMods(m)
  BY <1>1, <1>2, EditInv DEF addMods
<1>3. CASE removeMod(m)
  BY <1>1, <1>3, EditInv DEF removeMod
<1>4. CASE toggleMod(m, on)
  BY <1>1, <1>4, EditInv DEF toggleMod
<1>5. CASE SetVersion(m, v)
  BY <1>1, <1>5, EditInv DEF SetVersion
<1>6. CASE clearAllMods
  <2>1. MaxVersion \in Nat
    BY ModsConstants
  <2> QED
    BY <1>6, <2>1, EditInv DEF clearAllMods
<1> QED
  BY <1>2, <1>3, <1>4, <1>5, <1>6

LEMMA PublishInv == ASSUME ModsInv, NEW r \in Releases, Publish(r) PROVE ModsInv'
<1> USE DEF ModsInv, ModsTypeOK
<1>1. plan # Nothing => validateDownloadPlan(plan)'
  BY PlanStillFits DEF Publish, disk
<1>2. applied # Nothing => validateDownloadPlan(applied)'
  BY AppliedStillFits DEF Publish, disk
<1> QED
  BY <1>1, <1>2 DEF Publish, disk, PlanSound

LEMMA ModsStep == ModsInv /\ [ModsNext]_modsVars => ModsInv'
<1> SUFFICES ASSUME ModsInv, [ModsNext]_modsVars PROVE ModsInv'
  OBVIOUS
<1>1. CASE CheckModUpdates
  BY <1>1, CheckInv
<1>2. CASE EndUpdate
  BY <1>2, EndUpdateInv
<1>3. CASE CrashInUpdate
  BY <1>3, CrashInUpdateInv
<1>4. CASE clearAllMods
  <2>1. CASE ModNames = {}
    BY <1>4, <2>1, EditInv, ModsConstants DEF clearAllMods
  <2>2. CASE ModNames # {}
    <3>1. TRUE \in BOOLEAN /\ 0 \in 0..MaxVersion
      BY ModsConstants
    <3> QED
      BY <1>4, <2>2, <3>1, EditsInv
  <2> QED
    BY <2>1, <2>2
<1>5. CASE \E r \in Releases : Publish(r)
  BY <1>5, PublishInv
<1>6. ASSUME NEW m \in ModNames, Download(m) \/ DownloadFails(m) \/ RemoveFails(m)
      PROVE  ModsInv'
  BY <1>6, DownloadInv, DownloadFailsInv, RemoveFailsInv
<1>7. ASSUME NEW m \in ModNames,
             \/ addMods(m) \/ removeMod(m)
             \/ \E on \in BOOLEAN : toggleMod(m, on)
             \/ \E v \in 0..MaxVersion : SetVersion(m, v)
      PROVE  ModsInv'
  <2>1. TRUE \in BOOLEAN /\ 0 \in 0..MaxVersion
    BY ModsConstants
  <2> QED
    BY <1>7, <2>1, EditsInv
<1>8. CASE UNCHANGED modsVars
  <2> USE DEF ModsInv, ModsTypeOK
  <2>1. UNCHANGED <<portal, files, list, pins, plan, todo, done, applied, edits>>
    BY <1>8 DEF modsVars
  <2>2. plan # Nothing => validateDownloadPlan(plan)'
    BY <2>1, PlanStillFits
  <2>3. applied # Nothing => validateDownloadPlan(applied)'
    BY <2>1, AppliedStillFits
  <2> QED
    BY <2>1, <2>2, <2>3 DEF PlanSound
<1> QED
  BY <1>1, <1>2, <1>3, <1>4, <1>5, <1>6, <1>7, <1>8 DEF ModsNext

\* No step but an edit takes a mod away: what is removed was replaced.
LEMMA StepLosesNothing ==
  ASSUME ModsInv, [ModsNext]_modsVars, edits' = edits, NEW m \in ModNames, files[m] # {}
  PROVE  files'[m] # {}
<1> USE DEF ModsInv, ModsTypeOK
<1>1. CASE \E n \in ModNames : Download(n)
  <2>1. PICK n \in ModNames : Download(n)
    BY <1>1
  <2>2. plan[n].ver # 0 /\ plan[n].ver # plan[n].old
    BY <2>1 DEF Download, PlanSound
  <2>3. files' = [files EXCEPT ![n] = Replaced(n)] /\ plan[n].ver \in Replaced(n)
    BY <2>1, <2>2 DEF Download, Replaced
  <2> QED
    BY <2>3
<1>2. CASE \E n \in ModNames : RemoveFails(n)
  BY <1>2 DEF RemoveFails
<1>3. CASE UNCHANGED files
  BY <1>3
<1>4. ~Edited
  BY DEF Edited
<1>5. CASE ModsNext
  <2>1. \/ CheckModUpdates \/ EndUpdate \/ CrashInUpdate \/ \E r \in Releases : Publish(r)
        \/ \E n \in ModNames : Download(n) \/ DownloadFails(n) \/ RemoveFails(n)
    BY <1>4, <1>5 DEF ModsNext, addMods, removeMod, toggleMod, SetVersion, clearAllMods
  <2> QED
    BY <1>1, <1>2, <1>3, <2>1 DEF CheckModUpdates, EndUpdate, CrashInUpdate, Publish,
       DownloadFails, disk
<1> QED
  BY <1>3, <1>5 DEF modsVars

\* When the plan was applied, what is loaded is what was checked.
LEMMA AppliedCoexists == ModsInv => Coexist
<1> SUFFICES ASSUME ModsInv, applied # Nothing,
                    \A m \in ModNames : applied[m].ver # 0 =>
                      list[m] # "off" /\ \A v \in files[m] : v <= applied[m].ver
             PROVE  Satisfied(Loaded)
  BY DEF Coexist
<1> USE DEF ModsInv, ModsTypeOK
<1>1. ASSUME NEW m \in ModNames PROVE Loaded[m] = Final(applied)[m]
  <2>1. CASE applied[m].ver = 0
    BY <2>1 DEF Loaded, Final
  <2>2. CASE applied[m].ver # 0
    <3>1. files[m] \in SUBSET Versions /\ applied[m].ver \in files[m]
      BY <2>2
    <3>2. Max(files[m]) \in files[m] /\ \A v \in files[m] : v <= Max(files[m])
      BY <3>1, NewestFile
    <3>3. \A v \in files[m] : v \in Nat
      BY <3>1, ModsConstants DEF Versions
    <3>4. Max(files[m]) = applied[m].ver
      BY <2>2, <3>1, <3>2, <3>3
    <3>5. m \in Enabled
      BY <2>2, <3>1 DEF Enabled, MergeModLists
    <3> QED
      BY <2>2, <3>1, <3>4, <3>5 DEF Loaded, Final, Installed
  <2> QED
    BY <2>1, <2>2
<1>2. Loaded = Final(applied)
  BY <1>1 DEF Loaded, Final
<1> QED
  BY <1>2 DEF validateDownloadPlan

LEMMA ModsInvAlways == ModsSpec => []ModsInv
  BY ModsInitInv, ModsStep, PTL DEF ModsSpec

\* The state of the updater has its type: in every plan, at any depth of dependencies,
\* every entry has a version that exists (resolveDepsWithPrefs).
THEOREM ModsTypeCorrect == ModsSpec => []ModsTypeOK
<1>1. ModsInv => ModsTypeOK
  BY DEF ModsInv
<1> QED
  BY <1>1, ModsInvAlways, PTL

\* Whatever the mods, their releases and their dependencies are, and however deep these
\* are: an update takes no mod away, obeys the pins, and leaves mods that fit.
THEOREM ModsAreSafe == ModsSpec => ModsSafe
<1>1. ModsInv => PinsObeyed
  BY DEF ModsInv, PlanSound, PinsObeyed
<1>2. ModsInv => Coexist
  BY AppliedCoexists
<1> DEFINE Kept == edits' = edits => \A m \in ModNames : files[m] # {} => files'[m] # {}
<1>3. ModsInv /\ [ModsNext]_modsVars => [Kept]_modsVars
  BY StepLosesNothing
<1>4. ModsSpec => [](PinsObeyed /\ Coexist)
  BY <1>1, <1>2, ModsInvAlways, PTL
<1>5. ModsSpec => [][Kept]_modsVars
  <2> HIDE DEF Kept
  <2> QED
    BY <1>3, ModsInvAlways, PTL DEF ModsSpec
<1> QED
  BY <1>4, <1>5 DEF ModsSafe, NoModLost
=============================================================================
