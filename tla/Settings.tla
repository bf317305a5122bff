------------------------------ MODULE Settings ------------------------------
(***************************************************************************)
(* The configuration files (cfg/*.go).  A file is shared by all ChatWire   *)
(* processes of a host (the global one) or used by one (the local one).    *)
(* Every process keeps the settings in memory, changes them there, and     *)
(* writes them back with a three-way merge: a value it has not changed     *)
(* since it last read or wrote the file is taken from the file.  The web   *)
(* console edits the file only; an edit comes into force with the next     *)
(* reload.                                                                 *)
(*                                                                         *)
(* A setting is a key with a small set of values: what distinguishes the   *)
(* types, ranges and texts of the fields is abstracted to whether the      *)
(* console accepts a value.  A field that the code computes from another   *)
(* one is a part of that one: the date of the next reset of the interval   *)
(* (WebPatch), AdminOnlyPause of RegularsOnly (defaults). configFileMu     *)
(* and the file lock make one merge and one patch atomic; the copy of the  *)
(* settings that a merge writes is taken before, and the lock may not be   *)
(* free in time.                                                           *)
(*                                                                         *)
(* A definition whose comment says "Fault" is a wrong variant of the one   *)
(* that follows it and is used by no specification.                        *)
(***************************************************************************)
EXTENDS Naturals, FiniteSets

CONSTANTS
  Writers,      \* goroutines that write settings
  ProcOf,       \* the process of each of them
  Keys,         \* flattened names of the settings
  CommandKeys,  \* those that commands and loops set
  AdminKeys,    \* those only an administrator may edit
  ReadOnlyKeys, \* bookkeeping, and fields not reviewed for the console
  DefaultKeys,  \* those whose zero value is replaced when they are loaded
  NewKeys,      \* those the file of an older version lacks
  Exclusive,    \* flags that must not be on together (members, regulars only)
  Clients       \* browsers

Zero == 0
On == 1
Values == {Zero, On}
Absent == 2     \* not in the file

Procs == {ProcOf[w] : w \in Writers}

ASSUME SettingsConstants ==
  /\ ProcOf = [w \in Writers |-> ProcOf[w]]
  /\ CommandKeys \subseteq Keys /\ AdminKeys \subseteq Keys /\ ReadOnlyKeys \subseteq Keys
  /\ NewKeys \subseteq Keys /\ DefaultKeys \subseteq Keys /\ Exclusive \subseteq Keys

VARIABLES
  file,     \* the settings on disk
  mem,      \* cfg.Local or cfg.Global of each process
  base,     \* configBaselines of each process
  step,     \* where each goroutine is: idle, install, write, merge
  held,     \* the copy of the settings it works with
  changed,  \* per process: keys that a command has set and no merge has written
  seen      \* per browser: the file as last shown, which its revision stands for

settingsVars == <<file, mem, base, step, held, changed, seen>>

Settled == [Keys -> Values]
Nothing == [k \in Keys |-> Zero]

-----------------------------------------------------------------------------
(* Reading: ReadGCfg, ReadLCfg *)

\* The zero value of some fields is replaced (setLocalDefaults, setGlobalDefaults).
setDefaults(k, v) == IF v # On /\ k \in DefaultKeys THEN On ELSE IF v = Absent THEN Zero ELSE v

Loaded(f) == [k \in Keys |-> setDefaults(k, f[k])]

\* Commands and reloads of a process hold glob.ControlLock until they are done.
ControlLock(p) == \E w \in Writers : ProcOf[w] = p /\ step[w] # "idle"

\* A reload reads the file first.
ReadFile(w) ==
  /\ step[w] = "idle"
  /\ held' = [held EXCEPT ![w] = Loaded(file)]
  /\ step' = [step EXCEPT ![w] = "install"]
  /\ UNCHANGED <<file, mem, base, changed, seen>>

\* Fault: the baseline is not renewed by a reload.
rememberConfig_Not(p, v) == UNCHANGED base

rememberConfig(p, v) == base' = [base EXCEPT ![p] = v]

\* The values read become the process's, and the next merge compares with them.
\* ReloadConfigFilesResult goes on to write the file.
Install(w) ==
  LET p == ProcOf[w] IN
  /\ step[w] = "install"
  /\ mem' = [mem EXCEPT ![p] = held[w]]
  /\ rememberConfig(p, held[w])
  /\ changed' = [changed EXCEPT ![p] = {}]
  /\ step' = [step EXCEPT ![w] = "write"]
  /\ held' = [held EXCEPT ![w] = Nothing]
  /\ UNCHANGED <<file, seen>>

-----------------------------------------------------------------------------
(* Writing: WriteGCfg, WriteLCfg *)

\* What one command can set: some of the settings, within their limits.
SettingList == UNION {[K -> Values] : K \in SUBSET CommandKeys \ {{}}}

\* A command or a loop of the process changes settings, and writes the file.
ConfigServer(w, new) ==
  LET p == ProcOf[w] IN
  /\ step[w] = "idle"
  /\ mem' = [mem EXCEPT ![p] = [k \in Keys |-> IF k \in DOMAIN new THEN new[k] ELSE @[k]]]
  /\ changed' = [changed EXCEPT ![p] = @ \cup {k \in DOMAIN new : new[k] # mem[p][k]}]
  /\ step' = [step EXCEPT ![w] = "write"]
  /\ UNCHANGED <<file, base, held, seen>>

\* jsonValues(Local): the copy is taken before the locks.
Capture(w) ==
  /\ step[w] = "write"
  /\ held' = [held EXCEPT ![w] = mem[ProcOf[w]]]
  /\ step' = [step EXCEPT ![w] = "merge"]
  /\ UNCHANGED <<file, mem, base, changed, seen>>

Merged(p, v) ==
  [k \in Keys |-> IF v[k] = base[p][k] /\ file[k] # Absent THEN file[k] ELSE v[k]]

\* "Keep the baseline equal to runtime, not to deferred disk changes."  The settings are
\* converted once more for it, so it is what they are now, not the copy that was written.
newBaseline(p, v) == mem[p]

\* writeConfigMerged, once it has the locks.
Merge(w) ==
  LET p == ProcOf[w] IN
  /\ step[w] = "merge"
  /\ file' = Merged(p, held[w])
  /\ base' = [base EXCEPT ![p] = newBaseline(p, held[w])]
  /\ changed' = [changed EXCEPT ![p] = {k \in @ : mem[p][k] # held[w][k]}]
  /\ step' = [step EXCEPT ![w] = "idle"]
  /\ held' = [held EXCEPT ![w] = Nothing]
  /\ UNCHANGED <<mem, seen>>

\* The file lock is not free within five seconds, or the file cannot be read or
\* written.  The callers only log that.
MergeFails(w) ==
  /\ step[w] = "merge"
  /\ step' = [step EXCEPT ![w] = "idle"]
  /\ held' = [held EXCEPT ![w] = Nothing]
  /\ UNCHANGED <<file, mem, base, changed, seen>>

\* The process ends and is started again: main reads the files (readConfigs).
Restart(w) ==
  /\ mem' = [mem EXCEPT ![ProcOf[w]] = Loaded(file)]
  /\ rememberConfig(ProcOf[w], Loaded(file))
  /\ changed' = [changed EXCEPT ![ProcOf[w]] = {}]
  /\ step' = [u \in Writers |-> IF ProcOf[u] = ProcOf[w] THEN "idle" ELSE step[u]]
  /\ held' = [u \in Writers |-> IF ProcOf[u] = ProcOf[w] THEN Nothing ELSE held[u]]
  /\ UNCHANGED <<file, seen>>

-----------------------------------------------------------------------------
(* The web console *)

\* WebRead: the revision is a digest of the file's values.
WebRead(c) ==
  /\ seen[c] # file
  /\ seen' = [seen EXCEPT ![c] = file]
  /\ UNCHANGED <<file, mem, base, step, held, changed>>

\* The fields that were reviewed for the console.
classifiedWebFields == Keys \ ReadOnlyKeys

\* WebSchema: who may edit which field.
Editable(k, admin) == k \in classifiedWebFields /\ (k \in AdminKeys => admin)

Consistent(f) == \A a, b \in Exclusive : f[a] = On /\ f[b] = On => a = b

\* Fault: the revision is not compared.
Current_Any(c) == TRUE

\* If-Match: the file is still the one that was shown.
Current(c) == seen[c] = file

\* WebPatch of some keys, through process p.
WebPatch(c, p, admin) ==
  /\ ~ControlLock(p)
  /\ Current(c)
  /\ \E K \in SUBSET {k \in Keys : Editable(k, admin)} :
       \E patch \in [K -> Values] :
         LET new == [k \in Keys |-> IF k \in K THEN patch[k] ELSE file[k]] IN
         /\ K # {} /\ Consistent(new)
         /\ file' = new
         /\ seen' = [seen EXCEPT ![c] = new]
  /\ UNCHANGED <<mem, base, step, held, changed>>

-----------------------------------------------------------------------------

\* Every process has read the file.
SettingsInit ==
  /\ file \in {Nothing, [k \in Keys |-> IF k \in NewKeys THEN Absent ELSE Zero]}
  /\ mem = [p \in Procs |-> Loaded(file)]
  /\ base = mem
  /\ step = [w \in Writers |-> "idle"]
  /\ held = [w \in Writers |-> Nothing]
  /\ changed = [p \in Procs |-> {}]
  /\ seen = [c \in Clients |-> file]

SettingsNext ==
  \/ \E w \in Writers : \/ ReadFile(w) \/ Install(w) \/ Capture(w) \/ Merge(w)
                        \/ MergeFails(w) \/ Restart(w)
                        \/ \E new \in SettingList : ConfigServer(w, new)
  \/ \E c \in Clients : WebRead(c) \/ \E p \in Procs, admin \in BOOLEAN : WebPatch(c, p, admin)

SettingsSpec == SettingsInit /\ [][SettingsNext]_settingsVars

-----------------------------------------------------------------------------
(* Properties *)

\* The file, the memory of the processes, their merges and the browsers have their types.
SettingsTypeOK ==
  /\ file \in [Keys -> Values \cup {Absent}]
  /\ mem \in [Procs -> Settled] /\ base \in [Procs -> Settled]
  /\ step \in [Writers -> {"idle", "install", "write", "merge"}]
  /\ held \in [Writers -> Settled]
  /\ changed \in [Procs -> SUBSET Keys]
  /\ seen \in [Clients -> [Keys -> Values \cup {Absent}]]

\* A value in the file, an edit of the console or of another process, is replaced
\* by a process only when one of its commands has set that key: "cannot be erased by an
\* unrelated write from a process that still has the old value in memory"
\* (rememberConfig, writeConfigMerged).  It takes one writer at a time in a process.
EditsKept ==
  [][\A w \in Writers, k \in Keys :
       Merge(w) /\ file'[k] # file[k] /\ file[k] # Absent => k \in changed[ProcOf[w]]]_settingsVars

\* RuntimeConfigRevision, the digest of the baseline, tells the console what is in force:
\* a setting that no command is changing is in memory as the baseline says.
RevisionInForce ==
  \A p \in Procs, k \in Keys : k \notin changed[p] => mem[p][k] = base[p][k]

\* The console never saves over values its user has not seen: a patch that succeeds
\* leaves every other key as the browser showed it (WebPatch).
PatchSeesFile ==
  [][\A c \in Clients : seen'[c] # seen[c] /\ file' # file =>
       \A k \in Keys : file'[k] # file[k] => seen[c][k] = file[k]]_settingsVars

\* Neither a process nor a browser undoes an edit it does not know of.
EditsSafe == EditsKept /\ PatchSeesFile
=============================================================================
