-------------------------------- MODULE Mods --------------------------------
(***************************************************************************)
(* The mod updater and editor (modupdate, modedit, editMods.go and the mod *)
(* actions of the web console).  Every operation holds glob.UpdatersLock,  *)
(* so that they follow each other; an update downloads its plan one mod    *)
(* after the other, each of which can fail, and the process can end.       *)
(*                                                                         *)
(* Versions are numbers, 0 is the code's "0.0.0" (listed, not downloaded)  *)
(* and Fresh its empty version (nothing known of an installed one).  A     *)
(* dependency is a range of versions.  Whether a release suits the game,   *)
(* base mods included, is a field of it.                                   *)
(*                                                                         *)
(* A definition whose comment says "Fault" is a wrong variant of the one   *)
(* that follows it and is used by no specification.                        *)
(***************************************************************************)
EXTENDS Integers, FiniteSets, Sequences, FiniteSetsExt, SequencesExt

CONSTANTS
  ModNames,
  MaxVersion,
  Releases,   \* what the portal may publish: [mod, ver, fits, deps], deps a sequence of
              \* [mod, lo, hi, kind] with kind "required", "optional" or "incompatible"
  MaxDepth,   \* 10 in the code
  MaxEdits    \* bound on the operator's edits

Versions == 1..MaxVersion
Fresh == -1

Deps == [mod : ModNames, lo : Nat, hi : Nat, kind : {"required", "optional", "incompatible"}]

ASSUME ModsConstants ==
  /\ IsFiniteSet(ModNames)
  /\ MaxVersion \in Nat \ {0} /\ MaxDepth \in Nat /\ MaxEdits \in Nat
  /\ Releases \subseteq [mod : ModNames, ver : Versions, fits : BOOLEAN, deps : Seq(Deps)]
  /\ \A r, q \in Releases : r.mod = q.mod /\ r.ver = q.ver => r = q

VARIABLES
  portal,     \* releases that are published
  files,      \* per mod: the versions in the mods folder
  list,       \* mod-list.json: absent, on or off
  pins,       \* version preferences, 0 for none
  plan,       \* of the update in progress
  todo,       \* mods of the plan still to be downloaded
  done,       \* mods of the plan that are complete
  applied,    \* the plan of the last update that completed, if nothing was edited since
  edits

modsVars == <<portal, files, list, pins, plan, todo, done, applied, edits>>
disk == <<files, list, pins>>

-----------------------------------------------------------------------------
(* What is installed: GetModFiles, GetModList, MergeModLists *)

\* Of several files the newest counts; a listed mod without one has version 0.0.0.
Installed(m) == IF files[m] = {} THEN 0 ELSE Max(files[m])

\* "keep any that are not explicitly disabled"
MergeModLists(m) == IF files[m] # {} THEN list[m] # "off" ELSE list[m] = "on"

Enabled == {m \in ModNames : MergeModLists(m)}

checkVersion(d, v) == v \in d.lo..d.hi

-----------------------------------------------------------------------------
(* Choosing releases: resolveDepsWithPrefs *)

\* Per mod what is downloaded and what it replaces; version 0: the mod is not in the plan.
Plans == [ModNames -> [ver : 0..MaxVersion, old : 0..MaxVersion]]

Nothing == [m \in ModNames |-> [ver |-> 0, old |-> 0]]

\* Several lists of downloads made one, in their order: a duplicate replaces the
\* earlier entry only when it is newer.
addDownload(lists) ==
  [m \in ModNames |->
     LET I == DOMAIN lists
         ver(i) == lists[i][m].ver IN
     IF \A i \in I : ver(i) = 0 THEN Nothing[m]
     ELSE lists[CHOOSE i \in I : \A j \in I : ver(j) < ver(i) \/ (ver(j) = ver(i) /\ i <= j)][m]]

\* An entry without a planned version is satisfied by the installed one; only an
\* empty version is missing.
dependencySatisfied(d, installed, p) ==
  LET v == IF p[d.mod].ver # 0 THEN p[d.mod].ver ELSE installed IN
  v # Fresh /\ ((d.lo = 0) \/ checkVersion(d, v))

\* Fault: the preference is applied to listed mods, not to their dependencies.
Wanted_TopOnly(m, installed, depth) ==
  {r \in portal : r.mod = m /\ r.fits
                  /\ IF pins[m] # 0 /\ depth = 0 THEN r.ver = pins[m] ELSE r.ver > installed}

\* A pinned mod has one candidate, any other the releases newer than the installed one.
Wanted(m, installed, depth) ==
  {r \in portal : r.mod = m /\ r.fits
                  /\ IF pins[m] # 0 THEN r.ver = pins[m] ELSE r.ver > installed}

Failed == [ok |-> FALSE, plan |-> Nothing]

\* What a call has to resolve: a mod, its installed version, the mods that led to it.
Items == [mod : ModNames, installed : {Fresh} \cup 0..MaxVersion, parents : SUBSET ModNames]

\* The dependencies of release r.  known holds the installed versions of the mods in
\* the same call, answers[x] is the answer for item x one level deeper.
resolveRelease(answers, r, known, parents) ==
  LET required == {i \in DOMAIN r.deps : r.deps[i].kind = "required"}
      installed(i) == IF r.deps[i].mod \in DOMAIN known THEN known[r.deps[i].mod] ELSE Fresh
      answer == [i \in required |->
                   answers[[mod |-> r.deps[i].mod, installed |-> installed(i), parents |-> parents]]]
  IN [ok   |-> \A i \in required :
                 /\ r.deps[i].mod \in DOMAIN known \/ \E q \in portal : q.mod = r.deps[i].mod
                 /\ answer[i].ok,
      met  |-> \A i \in required : dependencySatisfied(r.deps[i], installed(i), answer[i].plan),
      plan |-> addDownload([i \in required |-> answer[i].plan])]

\* One item.  Of the wanted releases whose dependencies are met the newest is chosen.
resolveItem(answers, x, known, depth) ==
  LET tried == {[rel |-> r, res |-> resolveRelease(answers, r, known, x.parents \cup {x.mod})] :
                  r \in Wanted(x.mod, x.installed, depth)}
      met == {t \in tried : t.res.met}
      best == CHOOSE t \in met : \A u \in met : t.rel.ver >= u.rel.ver
      chosen == [ver |-> best.rel.ver, old |-> IF x.installed > 0 THEN x.installed ELSE 0]
  IN IF \/ \E t \in tried : ~t.res.ok
        \/ pins[x.mod] # 0 /\ met = {}
        \/ depth = 0 /\ met = {} /\ x.installed <= 0
     THEN Failed
     ELSE [ok |-> TRUE,
           plan |-> IF met = {} THEN Nothing
                    ELSE IF chosen.ver = x.installed THEN best.res.plan
                    ELSE addDownload(<<best.res.plan, [Nothing EXCEPT ![x.mod] = chosen]>>)]

\* A dependency: a call of its own, which knows no other mod's version.
resolveDep(answers, x) ==
  IF x.mod \in x.parents THEN [ok |-> TRUE, plan |-> Nothing]
  ELSE resolveItem(answers, x, [m \in {x.mod} |-> x.installed], 1)

\* The answers with up to n levels of dependencies below.
resolveDeps[n \in 0..MaxDepth] ==
  IF n = 0 THEN [x \in Items |-> [ok |-> TRUE, plan |-> Nothing]]
  ELSE [x \in Items |-> resolveDep(resolveDeps[n - 1], x)]

\* The answer for the i-th of the listed mods.
resolveListed(order, i) ==
  resolveItem(resolveDeps[MaxDepth],
              [mod |-> order[i], installed |-> Installed(order[i]), parents |-> {}],
              [m \in Enabled |-> Installed(m)], 0)

DepsOf(m, v) ==
  LET R == {r \in Releases : r.mod = m /\ r.ver = v} IN
  IF R = {} THEN {} ELSE Range((CHOOSE r \in R : TRUE).deps)

\* Are the dependencies of all mods met by the versions in final (0: not there)?
Satisfied(final) ==
  \A m \in ModNames : final[m] > 0 =>
    \A d \in DepsOf(m, final[m]) :
      IF final[d.mod] = 0 THEN d.kind # "required"
      ELSE (d.kind = "incompatible") # checkVersion(d, final[d.mod])

\* Fault: the versions in the plan do not supersede the installed ones.
Final_Installed(p) == [m \in ModNames |-> IF m \in Enabled /\ Installed(m) # 0 THEN Installed(m)
                                           ELSE p[m].ver]

\* "checks the actual versions that will coexist after the update"
Final(p) == [m \in ModNames |-> IF p[m].ver # 0 THEN p[m].ver
                               ELSE IF m \in Enabled THEN Installed(m) ELSE 0]

validateDownloadPlan(p) == Satisfied(Final(p))

-----------------------------------------------------------------------------
(* An update: CheckModUpdates, downloadMods *)

Idle == todo = {} /\ plan = Nothing

\* A check that finds something to download.  One that fails, or finds nothing, or
\* in which the portal does not answer, changes nothing.
CheckModUpdates ==
  /\ Idle /\ Enabled # {}
  /\ \A m \in Enabled : \E r \in portal : r.mod = m
  /\ \E order \in SetToSeqs(Enabled) :   \* the listed mods, in the order of a map
       LET answer == [i \in DOMAIN order |-> resolveListed(order, i)] IN
       /\ \A i \in DOMAIN order : answer[i].ok
       /\ plan' = addDownload([i \in DOMAIN order |-> answer[i].plan])
  /\ plan' # Nothing
  /\ validateDownloadPlan(plan')
  /\ todo' = {m \in ModNames : plan'[m].ver # 0}
  /\ done' = {} /\ applied' = Nothing
  /\ UNCHANGED <<portal, disk, edits>>

\* Fault: the old file is removed before the new one is in place.
Replaced_OldFirst(m) == files[m] \ {plan[m].old}

\* The new file is in place (written, then renamed) and the old one is removed.
Replaced(m) == (files[m] \cup {plan[m].ver}) \ {plan[m].old}

\* Fault: a mod that was downloaded is downloaded again.
Download_Again(m) ==
  /\ m \in todo
  /\ files' = [files EXCEPT ![m] = Replaced(m)]
  /\ done' = done \cup {m}
  /\ UNCHANGED <<portal, list, pins, plan, todo, applied, edits>>

Download(m) ==
  /\ m \in todo
  /\ files' = [files EXCEPT ![m] = Replaced(m)]
  /\ todo' = todo \ {m} /\ done' = done \cup {m}
  /\ UNCHANGED <<portal, list, pins, plan, applied, edits>>

\* No answer, a wrong hash or info.json, or the file cannot be written: the next one.
DownloadFails(m) ==
  /\ m \in todo
  /\ todo' = todo \ {m}
  /\ UNCHANGED <<portal, disk, plan, done, applied, edits>>

\* The new file is there and the old one cannot be removed: not complete.
RemoveFails(m) ==
  /\ m \in todo /\ plan[m].old # 0
  /\ files' = [files EXCEPT ![m] = @ \cup {plan[m].ver}]
  /\ todo' = todo \ {m}
  /\ UNCHANGED <<portal, list, pins, plan, done, applied, edits>>

AllDone == done = {m \in ModNames : plan[m].ver # 0}

\* All complete: the mods apply on the next reboot, which is asked for.
EndUpdate ==
  /\ todo = {} /\ plan # Nothing
  /\ applied' = IF AllDone THEN plan ELSE Nothing
  /\ plan' = Nothing /\ done' = {}
  /\ UNCHANGED <<portal, disk, todo, edits>>

\* ChatWire ends during an update.
CrashInUpdate ==
  /\ todo # {}
  /\ plan' = Nothing /\ todo' = {} /\ done' = {}
  /\ UNCHANGED <<portal, disk, applied, edits>>

-----------------------------------------------------------------------------
(* The operator's edits, while no update runs *)

Edited == /\ Idle /\ edits < MaxEdits /\ edits' = edits + 1
          /\ applied' = Nothing
          /\ UNCHANGED <<portal, plan, todo, done>>

\* addMods lists the mod; it is downloaded by the check that follows.
addMods(m) ==
  /\ Edited
  /\ list[m] = "absent" /\ files[m] = {}
  /\ list' = [list EXCEPT ![m] = "on"]
  /\ UNCHANGED <<files, pins>>

\* toggleMod writes the merged list: every mod with a file is in it afterwards.
toggleMod(m, on) ==
  /\ Edited
  /\ (files[m] # {} \/ list[m] # "absent") /\ MergeModLists(m) # on
  /\ list' = [n \in ModNames |-> IF n = m THEN (IF on THEN "on" ELSE "off")
                                 ELSE IF files[n] = {} /\ list[n] = "absent" THEN "absent"
                                 ELSE IF MergeModLists(n) THEN "on" ELSE "off"]
  /\ UNCHANGED <<files, pins>>

\* editMods, operation remove: the entry goes, the file stays.
removeMod(m) ==
  /\ Edited
  /\ list[m] # "absent"
  /\ list' = [list EXCEPT ![m] = "absent"]
  /\ UNCHANGED <<files, pins>>

\* SetVersion; 0 clears the preference.
SetVersion(m, v) ==
  /\ Edited
  /\ files[m] # {} /\ pins[m] # v
  /\ pins' = [pins EXCEPT ![m] = v]
  /\ UNCHANGED <<files, list>>

\* clearAllMods, mods-clear: also the preferences are in that folder.
clearAllMods ==
  /\ Edited
  /\ files' = [m \in ModNames |-> {}] /\ list' = [m \in ModNames |-> "absent"]
  /\ pins' = [m \in ModNames |-> 0]

-----------------------------------------------------------------------------

\* The portal publishes a release.
Publish(r) ==
  /\ r \notin portal
  /\ portal' = portal \cup {r}
  /\ UNCHANGED <<disk, plan, todo, done, applied, edits>>

ModsInit ==
  /\ portal \in {{r \in Releases : r.ver = 1}, Releases}
  /\ files \in {[m \in ModNames |-> {}], [m \in ModNames |-> {1}]}
  /\ list = [m \in ModNames |-> "absent"]
  /\ pins = [m \in ModNames |-> 0]
  /\ plan = Nothing /\ todo = {} /\ done = {} /\ applied = Nothing
  /\ edits = 0

ModsNext ==
  \/ CheckModUpdates \/ EndUpdate \/ CrashInUpdate \/ clearAllMods
  \/ \E r \in Releases : Publish(r)
  \/ \E m \in ModNames :
       \/ Download(m) \/ DownloadFails(m) \/ RemoveFails(m)
       \/ addMods(m) \/ removeMod(m)
       \/ \E on \in BOOLEAN : toggleMod(m, on)
       \/ \E v \in 0..MaxVersion : SetVersion(m, v)

ModsSpec == ModsInit /\ [][ModsNext]_modsVars

-----------------------------------------------------------------------------
(* Properties *)

\* Folder, list, preferences and plan have their types.
ModsTypeOK ==
  /\ portal \subseteq Releases
  /\ files \in [ModNames -> SUBSET Versions]
  /\ list \in [ModNames -> {"absent", "on", "off"}]
  /\ pins \in [ModNames -> 0..MaxVersion]
  /\ plan \in Plans /\ applied \in Plans
  /\ todo \subseteq ModNames /\ done \subseteq ModNames \ todo
  /\ edits \in 0..MaxEdits

\* An update never takes a mod away: whatever fails, and whenever the process ends,
\* a mod that could be loaded before has a file afterwards (downloadMods).
NoModLost ==
  [][edits' = edits => \A m \in ModNames : files[m] # {} => files'[m] # {}]_modsVars

\* A pinned mod is only ever replaced by its pinned version, as a listed mod and as a
\* dependency of others (resolveDepsWithPrefs, addDownload).
PinsObeyed == \A m \in ModNames : plan[m].ver # 0 /\ pins[m] # 0 => plan[m].ver = pins[m]

Loaded == [m \in ModNames |-> IF m \in Enabled THEN Installed(m) ELSE 0]

\* When an update has reported that it is complete, the mods the game will load at the
\* restart it asks for have their dependencies (validateDownloadPlan: "checks the
\* actual versions that will coexist after the update").  The code does not promise it
\* where a mod of the plan is disabled, or a file of it that is newer stays behind.
Coexist ==
  applied # Nothing
  /\ (\A m \in ModNames : applied[m].ver # 0 =>
                            list[m] # "off" /\ \A v \in files[m] : v <= applied[m].ver)
    => Satisfied(Loaded)

\* No update takes a mod away, and the mods it leaves behind fit each other and the
\* operator's preferences.
ModsSafe == NoModLost /\ [](PinsObeyed /\ Coexist)
=============================================================================
