# ChatWire: TLA+ models, checks and proofs

ChatWire (Go) runs beside one Factorio game server. It starts and stops the
server process, relays chat between the game and Discord, keeps a player
database that several ChatWire instances share, updates the game and its mods,
and offers a web control panel. This project models the parts of it that carry
protocol state and are hard to test, checks them with TLC on small instances,
and proves the most important properties with TLAPS for all instances.

Every definition that models code is mapped to its source lines in
`PROJECT.json` (`map`). A definition whose comment starts with *Fault* is a
wrong variant of the definition after it; no specification uses it. Replacing
the right definition by it must make TLC report a violation, which shows that
the property depends on that piece of code.

## 1. The system

### Components, their state and their operations

| component | state | operations | what is hard | module |
|---|---|---|---|---|
| lifecycle controller (`fact/lifecycle.go`) | phase, booted, generation, request queue, operation token, report channels, SoftMod flags | submit, pick, execute (start, stop, restart, map change, map reset, exit), handle reports, reconcile, time out, cancel | one goroutine against clients, process reports, updater, signals; bounded channels that drop | `Lifecycle`, `FactorioServer` |
| process launcher (`support/launcher_*.go`) | process handle, pipe, goroutines per generation | prepare, start, register, report | the process lives before the handle is published | `Lifecycle` |
| ChatWire shutdown (`fact/util.go`, `main.go`) | exit stage | SIGTERM, stop manager, DoExit, force | runs against every other goroutine | `Lifecycle` |
| updater (`factUpdater`, reboot and update loops) | in-progress flag, installation lock, warning count | check, download, verify, wait, replace, warn, ask for a stop | two timers that do not know of each other; a replacement that is interrupted | `Installer`, `Lifecycle` |
| map change, reset, schedule (`fact/mapReset.go`, `save_transition.go`, `newCron.go`) | saves, pending save, next reset | generate, change, retire, schedule, retry | crashes between the file steps; a schedule changed while a reset runs | `MapCycle` |
| map votes (`fact/voteMap.go`) | vote box, last change | vote, tally, change, void, erase | emptied without its lock while a vote is written | `Votes` |
| mods (`modupdate`, `modedit`) | files, mod list, pins, plan | resolve, validate, download, replace, edit | partial downloads, pins among dependencies | `Mods` |
| operation status (`fact/operation_status.go`) | current operation, timers | begin, announce, update, schedule, complete | late timers of an operation that has ended | `Status` |
| Discord queue (`disc/discUtils.go`, `mainLoops_cms.go`) | channel, batch, tokens | queue, drop, collect, send, retry | three channel operations per message, a full channel | `Messages` |
| player database (`fact/playerDB.go`) | players, dirty versions, file | mark, snapshot, merge-write, reload | several instances, one file | `PlayerDB` |
| configuration (`cfg`) | memory, baseline, file | command, merge-write, reload, patch | several processes and a browser on one file | `Settings` |
| web jobs (`webcontrol/jobs.go`) | jobs, idempotency keys, busy job, unsaved outcomes, files | load, start, update, finish, look up | crashes and failing storage between the steps | `Jobs`, `JobLedger` |
| web sessions (`webapi/auth.go`) | grants, nonces, sessions, epochs | issue, landing, exchange, check, revoke | role lookup without the mutex | `Auth` |
| web control runtime, batches (`controlruntime`, `webapi/batches.go`) | previews, jobs, batches | preview, confirm, execute, fan out, poll | state changes between preview and execution; lost responses | `Console` |
| file uploads (`controlruntime/files.go`) | staged files, job | stage, delete, apply, expire | a job that fails half-way, time that passes meanwhile | `Uploads` |
| support loops, parsers, commands | little of their own | | clients of the above | |
| bans, firewall, logs, save cleaner | files | | text, files and system commands | |

### How they interact

All starts and stops go through the controller: Discord commands, web actions,
support loops, vote results and the updater submit requests and may wait for
the answer. The launcher starts the process and three goroutines report on it:
the stdout reader (output closed), the line parser (ready, SoftMod hello) and
`cmd.Wait` (exit). The updater and the mod updater hold work back with flags
the controller reads. Shutdown cancels what is queued and then kills what is
left. The web panel reaches an instance over a unix socket and starts jobs,
which call the same operations; slash commands and jobs take turns under
`ControlLock`. Settings and players are files that several ChatWire processes
of a host read, merge and write; a watcher tells each of them of the others'
writes. Everything that is said in Discord goes through one queue.

### What makes them correct

- Controller: one process at a time; the phase tells the truth; every waiter is
  answered exactly once; an installation never happens under a process; an
  automatic restart never loops; a shutdown ends.
- Updater: only a complete, verified and announced release replaces the game,
  and an update gives up only after the stop it needs had its time.
- Maps: the world that was asked for is the one that runs; a date makes one map.
- Votes: one vote each, enough of them, not too often.
- Mods: an update loses no mod, obeys pins, and leaves mods that fit.
- Status and messages: nothing is said of an operation that has ended; no
  message disappears or overtakes another.
- Player database, settings: no instance loses a change of its own or of
  another one; what the panel calls in force is in force.
- Jobs: an accepted operation is on disk before it has effects, is executed at
  most once per key across crashes and storage failures, and a reported success
  is never withdrawn.
- Panel: what runs is what was shown and confirmed, once; a batch reports no
  success it did not have; revoked access ends; an upload is there until used.

`PROJECT.json` lists the hazards of this code, each at its line, with the
properties that cover it.

## 2. The lifecycle controller

### Modules

- `FactorioServer` is the abstract promise: a server that is launched, spawned,
  may become ready, is asked to stop, dies and is closed; one process at a
  time, and closed only when it is dead.
- `Lifecycle` is the controller and its surroundings.
- `MCLifecycle` gives the request shapes of the instances.
- `LifecycleProofs` holds the theorems.

### State and actions

`phase`, `booted`, `gen`, `queue`, `op` and the SoftMod flags are the fields of
`lifecycleManager`; `readyCh`, `exitCh` and `healthCh` its channels, with the
capacity `ChanCap`. The manager goroutine is a program counter `pc` with the
local variables `cur`, `wasAuto` and `err`; one label per point where another
goroutine can interfere: the top of the loop, the choice of a request, the
three waits of the stop ladder (`/quit`, interrupt, kill), map generation, the
start check, the launch, the registration of the handle and the answer. Clients
are records of progress and shape. A process has a generation; `proc` says
whether it lives, `cmd` which generation the program holds the handle of, and
`todo` which reports are still to come. `upd` and `lock` are the updater, `main`
and `halt` the shutdown.

Guards and assignments are those of the handlers. `nextRequest` is the run loop
from `drainAsyncEvents` to the choice of a request with the highest priority;
`requestNoop` requests are answered at once; `executeStop`, the `Wait…`
actions and `StopStage` are the stop ladder; `mayStart`, `executeStart`,
`LaunchFactorio` and `RegisterProcess` the start; `Finish` and
`finishOperationError` the end of `execute`, with the answer to the waiter and
the removal of the snapshot; `cancelPendingRequests` the end of the goroutine.

Time is abstracted: a deadline may pass whenever it is waited for. Play hours,
the number of players and the InjectSoftMod option are arbitrary whenever they
are read. The contents of saves, settings and messages are left out.

### Runs

| run | question |
|---|---|
| `lifecycle_requests` | a request of every kind, an update and SIGTERM at every point of the manager's work: one process that is always known, nothing installed under it, nothing left open, a clean exit |
| `lifecycle_reports` | late, reordered and dropped reports of two generations, startup timeouts, mod operations, auto-start toggled: readiness is the own process's, the abstract server is implemented |
| `lifecycle_recovery` | two updates, three launches, interrupted and crashed boots: recovery restarts do not repeat, the third quick crash in a row ends auto-start |
| `lifecycle_liveness` | two waiting clients: one answer each, also when cancelled; a dead process is noticed although its report may be dropped; SIGTERM ends ChatWire; every waiter is released |
| `lifecycle_operator_stop` | violation: an operator's stop loses its "disable autostart" to a map change or reset |

The bounds: one client beside the launches, restarts and updates that the
program starts itself, two where a cancelled queue matters; two generations for late reports (an
old process and the current one), three for the SoftMod recovery (a launch that
is interrupted, one that recovers, one more that would repeat it) and for the
crash counter; channels of capacity one, so that a full channel happens with
one report. `MaxQueue` bounds the restarts that a startup timeout adds in every
turn of the loop.

Fairness (`FairSpec`): the manager, the updater, the shutdown sequence and a
client that has begun to submit are goroutines that the Go scheduler runs, so
each gets weak fairness. Nothing is assumed of Factorio, of operators, or of
the delivery of reports: processes may run for ever and every report may stay
away. `lifecycle_liveness` is checked without updates: an update that is retried
and fails for ever holds requests back for ever, in the code too.

### The violation, and observations

`OperatorStopDisablesAutostart`: a map change saves the auto-start setting,
turns it off, and writes `true` or the saved value when it is done
(`lifecycle.go` 783-793; a reset 797-808). An operator's stop that turned the
setting off meanwhile is answered with the setting on, and the loop launches
the server again.

Seen while modelling, and not stated as properties:

- `GetLifecycleState` answers "stopped" when there is no manager
  (`lifecycle.go` 268-276). During a shutdown the manager ends before the
  process does, so an updater that waits for a confirmed stop (`util.go` 1262)
  goes on while the process runs. `InstallExclusive` is therefore stated for
  the time before the manager has ended.
- The startup timeout is not deduplicated (`lifecycle.go` 1372): while an update
  holds requests back, every turn of the loop queues another restart.
  `MaxQueue` bounds them in the model.
- A restart queued for the health of one generation (`lifecycle.go` 1125) is
  still executed when the next one already runs.
- `WriteFact` (`util.go` 449) holds `PipeLock` during a write to the game's
  stdin; a game that no longer reads blocks the `/quit` of the stop ladder.

### Proofs

`LifecycleProofs` proves for all numbers of clients, launches and updates and
all request shapes:

| theorem | states |
|---|---|
| `TypeCorrect` | `TypeOK` |
| `ProcessAlwaysKnown` | `ProcessKnown`: one process, held by its handle, and gone when the phase is "stopped" |
| `InstallIsExclusive` | `InstallExclusive` |
| `RecoveryDoesNotRepeat` | `SoftModRecoveryBounded` |
| `ReadyIsItsOwn` | `ReadyIsOwn`: the phase becomes "running" by the report of the process that runs |
| `ExitsAreClean` | `ExitClean`: the program is gone only when the game is |
| `AnswersAreSingle` | `AnsweredOnce`: no waiter gets two answers, and no snapshot outlives its request |
| `NothingIsLeftOpen` | `NothingLeftOpen`: an operation stays open only while the manager works on it or the server starts |
| `CrashLoopsEnd` | `CrashLoopEndsAutoStart`, if nobody turns auto-start on again |
| `Refinement` | `Lifecycle` implements `FactorioServer` |

Each safety property has an inductive invariant of its own. `ProcessInv` ties a
live process to the current generation, a phase other than "stopped" and the
handle (or the short time before its registration), and says that every exit
report, sent or still to come, is about a dead process; without the last part a
late report could close a live server. `InstallInv` says who holds the
installation lock and that nobody leaves "stopped" while an updater that has
seen it is working: the start check reads the flag the updater set before it
looked. `RecoveryInv` counts: recoveries done, armed and pending together never
exceed the installed updates. `ReadyInv` says that a ready report in the channel
was sent once and by a registered process, so a generation that is being spawned
has none; otherwise a report left over would declare the next process ready.
`ExitInv` says that the exit sequence begins after the manager's loop, when
nothing is launched any more, and does not pass the kill while a process lives.
`RequestInv` gives every request of a client one place: being submitted, once in
the queue, being executed, or answered; that identities occur once in the queue
is what a single answer follows from, and it has to survive the choice by
priority and the removal from the middle. `OperationInv` says at every point of
`execute` which operation is open and who will close it: `finalizeStopped`, an
error, or the readiness of a server that starts. `CrashInv` needs
`NobodyTurnsOn`: no event sets auto-start and no request changes or resets the
map, as both do so (`lifecycle.go` 783-808). With these requests TLC's violation
above is one way to lose the setting, so the assumption is needed; the run for
crashes makes it too. The only other assumption is `ConstantsOK` on the
constants.

Only model-checked: the liveness properties (temporal reasoning under fairness
is out of the prover's reach).

## 3. The operation store of the web panel

`JobLedger` is the abstract promise to a client of the panel: no operation has
effects before it is recorded, one is open at a time, a key has effects once, a
success is told only when it was reached and then for good, and after a restart
everything recorded has an outcome and nothing is open. It knows no files, no
process and no failing write. `Jobs` models `webcontrol/jobs.go` and the
goroutine that carries an operation out; `MCJobs` is its instance, `JobsProofs`
holds the theorems.

Every method of the store holds its mutex and is one step. `items`, `keys`,
`busy` and `pending` are its fields, `disk` the job files. `save` has three
outcomes: done, failed before the rename (old record), failed after it (new
record, but the caller is told of an error). `worker` is the goroutine of a
job: begin, run, and either the way out through `finish` and `Release` or, for a
restart of ChatWire, the exit after `BeforeExit`. `Crash` ends the process
between any two steps and `NewJobs` loads what is on disk. The history variables
`ran`, `good` and `previous` record effects, completion and earlier processes.

`Jobs` implements `JobLedger` (`ImplementsLedger`) when a job is recorded as
soon as it has a file, is told as `Get` shows it (`Told`), and its success is
kept (`Lasting`) when it is on disk and, while there is a process, shown. So a
success that was written, but whose write was answered with an error, is told as
"unknown" until the next process finds it: `Restarted` may keep more than was
told, never less.

| run | question |
|---|---|
| `jobs_store` | every retry, failed write and crash: effects once per key and recorded first, one operation at a time, outcomes true and lasting, `JobLedger` implemented; a job that is not being executed gives up its place |

Two jobs are a first acceptance that failed half-way and its retry, or two keys
that compete for the place; the theorems cover more. Fairness is weak fairness
of the job's goroutine only: the process may end and storage may fail for ever.

An observation: an acceptance whose directory sync fails is answered with an
error and forgotten, but its file stays (`jobs.go` 119-124, 153). The retry
becomes a second job, and after a restart either file may own the key, so the
same request may be answered with the job that never ran, although
`docs/web-control-setup.md` 113 promises one job for a key. The effects still
happen at most once, which is what `AtMostOnce`, a part of `Admission`, states;
in `JobLedger` it is the step `Record` that leaves `told` as it is.

Proved for any sets of jobs, keys and payloads: `TypeCorrect`, `AdmissionSafe`
(`Admission`: recorded before its effects, effects once per key, one operation
at a time) and `SuccessIsFinal` (`SuccessKept`). The inductive invariant
`JobsInv` needs, beside the types: a job being worked on is the busy one, its
record is on disk, its key is taken and no other job has used that key
(`WorkerInv`); a used key is on disk and the store knows it (`RanInv`), which is
what a restart must re-establish; a success that is shown is on disk and its
goroutine writes no more (`SuccessInv`).

`OutcomesAreTrue` proves `OutcomeTrue`: a success is claimed only of effects that
happened, that of a restart only by a later process, and "storage error" only of
a job without effects. Its invariant `TruthInv` says the same of every record
that is on disk or about to be written, and that a job before its effects is
recorded as unfinished; so whatever a crash leaves and the next process reads is
true as well.

`LedgerKept` proves the refinement. It needs a third invariant, `LedgerInv`: a
job that is known is on disk and its key is taken, and it is shown as open
exactly as long as a goroutine is to report on it (`KnownInv`); only a restart
of ChatWire waits for one, and what is still to be written is no success
(`LeftInv`), so that `NewJobs` finds an outcome for everything. The steps are
mapped in three lemmas: `StartMaps` (a step of `Start` records at most one new
job, and writes outcomes again without being seen), `WorkerMaps` (the goroutine
begins, reaches and tells; its other writes are stuttering steps) and
`RestartMaps` (no success on disk is lost). The liveness property is only
model-checked.

## 4. The player database

`PlayerDB` models `fact/playerDB.go`, the file lock, the save loops and the
watcher, for any number of ChatWire instances on one file; `MCPlayerDB` and
`PlayerDBProofs` as above.

`list`, `next` and `versions` are an instance's players and its table of pending
changes; `listDirty`, `statsDirty` and `due` lead to a save; `pc` says what the
holder of `PlayerListWriteLock` is doing. A save is four steps (snapshot, file
lock, read, write), a reload two (read, take over), because other instances act
between them and the commands and the game change players between them.
`changed` and `reload` are the watcher. `owed` is a history variable: the level
set last in an instance and not yet in the file. Of a record only the level is
represented. A change of time stamps and minutes only marks the player, which
is what matters: the save writes the whole record.

| run | question |
|---|---|
| `playerdb_merge` | failing locks and files, crashes: own changes stay until they are in the file, no pending change is stranded, a save disturbs no player of others |
| `playerdb_converges` | in the end the file and all instances agree, promotions to veteran and a late link to Discord included |
| `playerdb_stats` | violation: saving minutes puts an old level back |

Two instances are a writer and one that interferes; two players are one changed
here and one changed there; two changes are one before and one after a snapshot,
or one on each side, and the theorems cover more. Fairness: the loops and the worker pool run (weak),
and a file lock that is free again and again is taken (strong: it is tried every
50 ms). Nothing is assumed of changes, failures and restarts; `Converges` is
checked without failing files, as nothing can be saved to a disk that fails for
ever, but with lock timeouts.

`playerdb_stats`: a mark does not say what was changed. While the minutes of a
player are pending in one instance, its reload skips the player, so it never
sees the level that another instance has set (a ban, for instance), and its save
writes the old one over it.

`OwnChangeKept` needs that `LoadPlayers` does not run in boot mode later: in that
mode it does not look at pending changes, and the guild loop
(`mainLoops_discord.go` 56) uses it when Discord answers, at a time when there
may be some. With "guild-linked" among the events TLC finds the loss in a few
steps; the run and the theorem leave that event out.

Proved for any numbers of instances, players, levels and changes: `TypeCorrect`,
`NoLostUpdate` (`OthersPreserved`), `NothingStranded` (`SaveScheduled`), and
`OwnChangesSafe` (`OwnChangeKept`, if no load in boot mode comes after the
start). `LockInv` says that who reads or writes has the lock, so what it has
read is the file when it writes; `SnapshotInv` that a snapshot holds exactly the
players it has versions of, and that versions only grow; `SignalInv` that a
change newer than the snapshot has a signal of its own; `OwnInv` that a snapshot
whose version is current holds the level set last. `Converges` is only
model-checked.

## 5. Settings

`Settings` models `cfg`: the file, the settings in memory of every process,
and the baseline that a process remembers of its last read or write.
`ReadCfg`, commands, `rememberConfig`, `writeConfigMerged` (a three-way merge
under the file lock, which may not be free in time), the defaults for keys a
file lacks, and the panel's patch with the revision it has seen are actions. The
copy that a merge writes is taken before the lock, so that a write is two steps.

`EditsSafe`: a process changes a value in the file only if one of its commands
has set that key, and a patch never replaces a value its user has not seen.
`RevisionInForce`: a setting that no command is changing is in memory as the
baseline says, which is what the panel's revision is computed from.

`EditsSafe` needs one writer at a time in a process (`ProcOf` is injective in the
instance). Commands and reloads have that from `ControlLock`; some loops write
without it: `newCron.go`, `lifecycle.go` 1186 and 1313, `mainLoops_mods.go` 93,
`launcher_factorio.go` 86, `pipeHandle_map.go` 115, `mainLoops_discord.go` 73.
When one of them changes a setting between the copy and the baseline of
another write, its change counts as written, and the next merge undoes it.
Proved in `WebProofs` for any processes, goroutines, settings and browsers:
the types (`SettingsTypeOK`), `RevisionTold` (`RevisionInForce`), and `EditsAreSafe`
(`EditsSafe`, an action property) under the assumption `OneWriterEach`, which is
exactly the condition above. The invariant `CopyCurrent` is where it is needed:
what a goroutine is about to merge is still what its process has in memory.

The migration of the reset settings in `ReadLCfg` (`localCfg.go` 179-186)
changes values that are overwritten right after and has no effect.

## 6. The web panel

`Auth` is `webapi/auth.go`. A handler is two locked sections with a role lookup
between them; tokens are model values. `AccessEnds`: after a revocation no
link issued before it is offered and no session that came of one exists,
although handlers that were waiting for Discord write both; and an
administrator's session is not confirmed again by a lookup older than the one
that told of the loss. `LinksSound`: a link opens one session, and of a user's
links only the newest is valid.

`Console` is the private API of the instances (`controlruntime/server.go`,
`actions.go`) and the batches of the web service. `ConfirmedAsShown`: one
confirmation gives one job, under whatever keys and by whichever way it is
sent, and the job has the actor, the request and the server state of its
preview; a batch has the servers of its preview. `BatchTruth`: a batch that
says it succeeded did so on every server, whatever answers are lost and
whichever process restarts. The job store is abstracted here to what `Jobs`
guarantees: a key is accepted once.

`Uploads` is `controlruntime/files.go`: staging with quota and expiry, and the
job that stops the game, copies the files, syncs mods and starts it again.
`UploadsKept`: the files of a job stay staged until it ends, and an upload
leaves only because its owner deleted it, it expired, its process ended, or it
is in place. Two observations: `Runtime.mu` is held during a slow upload and
during a whole job (`files.go` 219), so every other request of the instance
waits; and nothing keeps Factorio stopped between the stop and the copy, as
any client of the controller may start it.

Proofs. `AuthProofs` proves `AccessIsEnded` (`AccessEnds`) and `LinksAreSound`
(`LinksSound`) for any users, links, sessions and handlers. `AuthInv` says what a
handler may rely on while it waits: a link on offer has opened nothing
(`LinksUnused`); an exchange is for the user of its link (`ExchangeKnows`) and a
check for that of its session, with no confirmation from the future
(`CheckKnows`). The difficult part is the order of lookups. `AnswersKnown`,
`ConfirmedKnown` and `LateKnown` say of two requests of one session, of a request
and the session, and of an answer that would still be written: if it is newer
than a lookup which began after the loss of the role, it does not say
"administrator" unless the user is one again. None of the three is inductive
without the other two. `WebProofs` proves `OnlyTheConfirmed` (`ConfirmedAsShown`)
and `BatchesAreTrue` (`BatchTruth`) for any servers, actors, requests, keys and
width of a batch: a token is used up when its job is accepted (`InstanceInv`), a
batch refers to what was shown for it (`HostInv`), and a target that is marked as
succeeded has a job that did (`TargetsTrue`), which no later step takes back. It
also proves `UploadsAreKept` (`UploadsKept`) for any quota and any finite set of
uploads: `StagingInv` is about what is staged and how the rest left, `JobInv`
about the files of the job, each still to be copied or in place. `WebTypeCorrect`
puts the four components together: a step of one is a stutter of the others, so
their invariants hold side by side and give `WebTypeOK` of the run `web`. The
assumptions on the constants only say that numbers are numbers and that the value for
"none" is not a record or name.

## 7. Around the game

`Installer` is the updater with the two loops that make room for it. An update
reads the version of the binary, the list of releases, the package (whose
address names the track, not the release) and the checksum of the release it
has announced; it then waits for the game to stop, removes the directories and
unpacks. Minutes are counted only where the code measures them: how long the
installer has waited, how old the stop is, how often players were warned.
`InstallSound` has three parts: there is a complete release on disk except
during and after an unpacking that was interrupted or went over old files
(`ReleaseKept`); what is announced as installed is what is there, and newer
unless forced (`InstalledAsTold`); when the installer gives up on a game that
was up all the time, the stop had its minutes (`StopHadTime`). The last one is
a race of two timers: the loop may be asleep, or start with the count that an
earlier update left behind (`UpdateWarnCounter` is not reset when an update
ends, so the next grace is shorter); it holds because a sleep always follows a
warning that was counted. It does not count the five seconds between two looks
of the loop, which the installer's limit does not allow for either.
Observations: `untar` opens files without truncating them, so a directory that
could not be removed may end up as a mixture that is still reported as
installed; and after an interrupted unpacking with a new binary, the version
check says "up-to-date" and only a forced installation repairs the rest.

`UpdateProofs` proves `InstallSound` (theorem `InstallsAreSound`) for every
grace, every positive stop time and any number of releases and updates
(assumption `InstallerConstants`). The inductive invariant `InstallerInv` adds
to the types what the update knows at each stage (`WantInv`: from the wait on,
the package is the announced release), how far the files have come and that no
game runs beside their replacement (`FilesInv`), and the argument about the two
timers (`WaitInv`): while no stop has been asked for, each minute of the wait
has a warning that was counted, and a loop that sleeps is one warning ahead; as
the count cannot pass the grace by more than one, a stop is asked for in time,
and from then on it is as old as the wait is longer than the grace. Steps that
move an update along, or end it, are covered by one lemma each; the others are
taken action by action and conjunct by conjunct.

`Mods` is dependency resolution, the validation of the plan, the downloads and
the editor. The recursion of `resolveDepsWithPrefs` is a recursive function over
the depth that is left: `resolveDeps[n]` maps every item that a call can have to
resolve (a mod, its installed version, the mods that led to it) to its answer, and
level `n` asks level `n - 1`. `ModsSafe`: whatever fails and whenever the process
ends, a mod that had a file has one afterwards (`NoModLost`); pins are obeyed, also
for dependencies (`PinsObeyed`); and when an update has reported that it is
complete, and nothing was edited since, the mods the game will load have their
dependencies (`Coexist`), as long as no mod of that plan is off in `mod-list.json`
and no newer file of one stays beside the planned one. Each of the three has a
mutant of its own.

The condition of `Coexist` is needed: `validateDownloadPlan` promises to check "the
actual versions that will coexist after the update" (`newUpdate.go` 470), and does
not, in three ways that TLC finds when the condition is dropped.
1. A mod of the plan is disabled in the list: it counts as present, and the game
   does not load it.
2. Without any edit: c 2 is installed and needs d 1; the portal publishes d 2, an
   a 2 that needs b, and a b 2 that needs c 1. The plan takes a 2, b 2, c 1 and d 2.
   At the second level of dependencies the installed version and the file name of
   c are not known, so c 2 is not removed when c 1 has been downloaded. The update
   is reported as complete, and the game loads c 2 beside d 2.
3. A removal that failed leaves two files of a mod; an update to an older, pinned
   version removes only the newest of them.

Also seen: an error of `GetModFiles` leaves the announced operation open
(`newUpdate.go` 331); removing a mod in the panel leaves its file;
`AddModHistory` drops entries about toggled mods.

`UpdateProofs` proves `ModsSafe` (theorem `ModsAreSafe`) for any finite set of
mods, any releases the portal may publish, any depth and any number of edits
(assumption `ModsConstants`). Two arguments carry it. The plan is sound
(`PlanSound`: pins are obeyed, and what replaces a file is not that file's own
version); merging lists keeps that (`MergedSound`), so does choosing a release
(`ReleaseSound`, `ItemSound`), and by induction on the depth every answer of
`resolveDeps` has it (`ResolutionSound`). The prover has no induction scheme it
could instantiate, but it can use the least element of a set of numbers: if some
depth had no function with the equations of `resolveDeps`, or an unsound answer,
there would be a least such depth, and the one below it would give a contradiction
(`LeastNat`, from well-foundedness of the subset order on finite sets). The
second argument is `ModsInv`: while an update runs nothing but files of planned mods
changes, so a plan that was validated stays validated in terms of what is on disk
(`PlanStillFits`, `AppliedStillFits`), and a planned mod that is done has the
planned file; when all are done, and no newer file of one is there, the newest file
of each is the planned one, and the game loads what was validated
(`AppliedCoexists`).

`MapCycle` is the life of a map: schedule, generation, change, the choice of the
save to launch, and the crash before a first autosave. `WorldAsAsked`: a server
that is up runs the world last asked for. `ScheduleObeyed`: every date generates
at most one map (`DueOnce`), also when its launch fails and is retried, and a
date that a moderator sets meanwhile is not forgotten. `map_reset_again` shows
the exception, a finding: `SetResetDate` counts from the reset hour of today, so
an interval shorter than the time since that hour gives a date in the past,
and every turn of the loop resets the map again. The dates of the
instance in `game` exclude this. `MapCycle` keeps the saves folder as a set and its modification times as a
relation `newer`: the code sorts by time, and what matters is which of two saves
is the newer one. Also seen: a map generated from the
console checks that the server is stopped long before it takes the lock, so
it may meet a server that was started meanwhile (`overlap`); a death between
the rename of a new map and the write of the settings leaves a map that the next
start loads (`stray`); `CheckMapReset` does not look at `SkipReset`.

`GameProofs` proves both for any numbers of maps and orders and any clock.
`ScheduleIsObeyed` assumes `DailyAtLeast`: a reset hour is only used with
intervals of a day or more, the exact complement of the finding. `CronInv` has two
parts: a date that had its map is past and earlier than the next one
(`ScheduleInv`), and at most one request is `CheckMapReset`'s, whose date has had
no map until it is recorded (`RequestInv`). `WorldIsTheOneAsked` needs no
assumption beyond `MapConstants`. Its invariant explains why no old world comes
back: every save of another world is older than an intact one, not the autosave,
that may run (`Anchored`; the autosave is excluded because a crash may tear it);
a pending save holds the world asked for and is cleared before Factorio writes
again (`PendingInv`); a generated map is the newest save until it is recorded and
pending until it is launched (`ExecuteWorld`). The map being committed counts
among those that may run, because ChatWire may die there. `MapTypeCorrect`
proves `MapTypeOK`: names of saves are unique and of two saves one is the newer
(`FolderInv`, for which a generated map needs a name that no save has), and the
save a launch has to find is there (`KeptInv`).

`Votes`: `VotesDecide` says that nobody has two votes, that a change is decided
by enough points of valid votes, and that two changes are a cooldown apart. A
map reset and the moderators' map list empty the box without the lock
(`mapReset.go` 67-69, `mapChange.go` 43-45): a vote being written then ends
ChatWire with an index out of range, which the model has as a crash. The limit
of votes per map (`constants.go` 80) never bites, and the cooldown starts again
at every boot.

`VotesAreFair` proves it for any finite set of voters: `BoxInv` (one vote each, and
of what is on disk all voided), `HoldInv` (the place that was found is still the
voter's, or the box was emptied) and `DecisionInv` (a decision is remembered in
memory or on disk, and who holds the lock to vote has seen the cooldown pass).
`VotesTypeCorrect` adds that no vote is changed more often than it may be
(`VoteLimits`: the vote that was found to be changed may be changed once more, and
nothing but the holder of the lock changes it).

`Status`: `StatusTrue` says that delayed progress is said only when nothing came
after it, that an operation that has ended says nothing more, and that it is
quiet in its first seconds. The decision is what is modelled: the message
is queued after the lock is released, so that two decisions may be sent in the
other order. There is one slot for all operations: a second one silences the
first. `StatusIsTrue` proves it for any operations, texts and timers; `StatusInv`
numbers the updates, schedules and cancellations of an operation and ties each
timer to the number it was given.

`Messages`: a batch is kept in the three lists in which it is sent (single
messages and embeds, chat, reports), which a chunk leaves from the front.
`MessagesKept` says that a message is being queued, queued, in the
batch, shown, or lost for one of the reasons the code knows, and that without
failed sends those of one goroutine to one channel are shown once and in order;
`MessagesTypeOK` that the queue keeps its capacity, also when text is queued again.
`MessageProofs` proves both for any goroutines, messages and capacity. The
first lemmas say what appending, taking the first, concatenating and splitting
do to the order of a list; `OrderInv` then says that what is shown, each list of
the batch, the queue and the message a goroutine is still queueing follow each
other, for every goroutine and channel. A retry ends that order, in the code too,
and `Everywhere`, which has no such condition, says where each message is.

Elsewhere in this area, not modelled: `pipeHandle_access.go` 116-121 returns with
`PasswordListLock` held when the primary server changes while a registration
code is out; pause-on-connect compares the name with its escaped form
(`pipeHandle_players.go` 61-77), so a name with an underscore is only unpaused by
the loop.

## 8. The side-by-side runs

| run | question |
|---|---|
| `web` | `Settings`, `Auth`, `Console`, `Uploads`: no edit is undone unseen, access ends when it is revoked, exactly what was shown is executed, uploads are kept |
| `game` | `Installer`, `Mods`, `MapCycle`, `Votes`, `Status`, `Messages`: sound installations, no lost mod, the world and the dates that were asked for, votes, true and complete messages |
| `map_reset_again` | violation: a reset date in the past resets the new map again |

The components of one of these runs share no variable, so their product would
say no more than each of them: a behaviour of `MCWeb` or `MCGame` chooses a
component in its first state, and only that one moves. `WebTypeCorrect` and
`GameTypeCorrect` prove the types of all of them from the inductive invariants of
the components, none of which a step of another one can disturb.

Bounds of `web`: two processes and one browser for a setting of each kind (one
the others exclude, one with a default, one for administrators); two handlers
for every pair of requests that can overlap, two links so that one can replace
the other, one epoch; two servers, one of which changes its state, one batch;
three uploads for a quota of two. Bounds of `game`: two releases and two
updates, so that one can leave its count to the next; three mods in a chain
whose newest releases do not fit; two generated worlds and two orders (three
orders were checked once, with ten times the states of that part); three voters
one of whom counts twice; two operations; three messages of three kinds from two
senders into a channel of two, so that it overflows with a message on its way and
another in the batch, one token and one failed send (all four kinds were checked
once, with three times the states of that part). `Senders` is symmetric: which
goroutine queues a message makes no difference.

Clocks are bounded, and in the last state of a clock nothing may be left to do:
these runs, and those of the player database whose changes are bounded, do not
check deadlock. Controller and job store do.

## 9. What is not modelled, and why

- Pure data conversion: map exchange strings, previews, the database codec,
  settings files of the game, the text of messages and log lines, archive
  formats. They have unit tests and no protocol state.
- Left out for good: the Discord and HTTP protocols, log rotation, system
  commands of the firewall and the save cleaner, the self test.
- Player lists, registration codes, whitelists and bans: each is written by one
  loop and read by the game.
- Abstracted: wall-clock time. In the controller a deadline may pass whenever
  the code waits for it, which allows more behaviours than the program has; the
  modules of sections 5 to 7 count steps, days or minutes where the code
  compares times.
- Only model-checked: liveness, which needs reasoning about fairness that the
  prover does not support (the properties of `lifecycle_liveness`, the release of
  a job's place, `Converges`). Every invariant of a passing run is a theorem.

## 10. Plan

What would come next: `Console` shown to need no more of the job store than `Jobs`
proves, and `MapCycle` and `Installer` no more of the controller than `Lifecycle`
does; the three ways past `validateDownloadPlan` as a run of their own; then the
player lists and registration codes, where `PasswordListLock` is left held.
