------------------------------ MODULE Lifecycle ------------------------------
(***************************************************************************)
(* The lifecycle controller of ChatWire (fact/lifecycle.go): the single    *)
(* manager goroutine that starts, stops and restarts the Factorio process, *)
(* together with everything that runs beside it:                           *)
(*                                                                         *)
(*   - clients that submit requests and may wait for the answer;           *)
(*   - the Factorio processes, one per generation, and the goroutines that *)
(*     report on them (stdout reader, line parser, cmd.Wait) through       *)
(*     bounded channels that drop a report when they are full;             *)
(*   - the flags other goroutines set at any time (update in progress, mod *)
(*     operation in progress, auto-start);                                 *)
(*   - the main goroutine that shuts ChatWire down.                        *)
(*                                                                         *)
(* Time is abstracted: a deadline may pass whenever the code is waiting    *)
(* for it.  Play hours, the number of players and the InjectSoftMod option *)
(* are read as arbitrary values.  Progress and goodbye reports only move   *)
(* deadlines and wording, so they are not represented; the stdin pipe is   *)
(* installed and cleared together with the process handle cmd.             *)
(*                                                                         *)
(* A definition whose comment says "Fault" is a wrong variant of the one   *)
(* that follows it.  No specification uses it: replacing the right one by  *)
(* it must make TLC report a violation of a property.                      *)
(***************************************************************************)
EXTENDS Naturals, Sequences, SequencesExt, FiniteSets

CONSTANTS
  Ids,        \* identities of the requests that clients may submit
  Shapes,     \* what a client may ask for, see Shape
  MaxGen,     \* bound on the number of launches
  MaxQueue,   \* bound on the length of the queue when a timeout adds to it
  MaxUpdates, \* bound on the number of installed updates
  Events,     \* what the environment of this instance does, see AllEvents
  ChanCap     \* capacity of a report channel (8 or 16 in the code)

Kinds == {"Start", "Stop", "RestartFactorio", "RestartChatWire", "ChangeMap", "MapReset"}

\* whenEmpty, force (ForceChatWireExit) and wait are the code's options;
\* disable marks a stop issued by an operator, who turns auto-start off first.
Shape == [kind : Kinds, whenEmpty : BOOLEAN, force : BOOLEAN,
          wait : BOOLEAN, disable : BOOLEAN]

\* Requests the program itself queues; "auto" never enters the queue.
Internal == {"health", "timeout", "softmod", "sigterm", "auto"}

Reports == {"ready", "hello", "closed", "write", "exit"}
AllEvents == Reports \cup {"update", "mod", "autolaunch", "sigterm", "startup-timeout", "crash"}

ASSUME ConstantsOK ==
  /\ Events \subseteq AllEvents
  /\ Shapes \subseteq Shape
  /\ Ids \cap (Internal \cup {"none"}) = {}
  /\ MaxGen \in Nat /\ MaxQueue \in Nat /\ MaxUpdates \in Nat
  /\ ChanCap \in Nat \ {0}

Gens == 1 .. MaxGen
Phases == {"stopped", "starting", "running", "stopping"}
Labels == {"top", "checks", "next", "stop", "wait1", "wait2", "wait3", "stopped",
           "generate", "start", "spawn", "register", "arm", "finish", "exit", "done"}

VARIABLES
  phase, booted, gen,    \* lm.phase, lm.booted, lm.currentGeneration
  queue,                 \* lm.queue: identities, oldest first
  op,                    \* lm.operationKind, "none" when no token is held
  healthRestartQueued, softModDetected, softModUpdateRecovery,
  readyCh, exitCh, healthCh,        \* generations, oldest first
  pc, cur, wasAuto, err, \* the manager goroutine: label, request, locals
  client, req, answers,  \* per request: progress, shape, answers sent
  snapshots,             \* rewind snapshots on disk, by request
  proc, sig, cmd,        \* processes; last signal to the live one; glob.FactorioCmd
  todo,                  \* reports still to come, per generation
  upd, lock, modOp,      \* updater goroutine; glob.FactorioLock; mod operation
  autostart, updatePending, updates, recoveries,
  crashLoop,             \* glob.CrashLoopCount, saturating at its limit
  main, halt             \* main goroutine; the exit sequence of DoExit

core    == <<phase, booted, gen, op, healthRestartQueued>>
soft    == <<softModDetected, softModUpdateRecovery, updatePending>>
counts  == <<updates, recoveries>>
chans   == <<readyCh, exitCh, healthCh>>
mgr     == <<cur, wasAuto, err>>
clients == <<client, req, answers, snapshots>>
world   == <<proc, sig, todo>>
flags   == <<upd, lock, modOp>>
updater == <<upd, lock>>
exits   == <<main, halt>>
vars == <<core, queue, soft, counts, chans, pc, mgr, clients, world, cmd,
          flags, autostart, crashLoop, exits>>

-----------------------------------------------------------------------------
(* Requests *)

updating == upd # "idle"    \* UpdateInProgress()

KindOf(r) == CASE r \in Ids     -> req[r].kind
               [] r = "sigterm" -> "Stop"
               [] r = "auto"    -> "Start"
               [] OTHER         -> "RestartFactorio"

Waits(r) == r \in Ids /\ req[r].wait

actionPriority(k) ==
  CASE k = "RestartChatWire"           -> 50
    [] k \in {"ChangeMap", "MapReset"} -> 40
    [] k = "RestartFactorio"           -> 30
    [] k = "Stop"                      -> 20
    [] k = "Start"                     -> 10

\* requestRunnableLocked; empty is the answer of NumPlayersCurrent() = 0.
requestRunnable(r, empty) ==
  /\ (updating \/ modOp) =>
        \/ KindOf(r) = "Stop"
        \/ KindOf(r) = "RestartChatWire" /\ r \in Ids /\ req[r].force
  /\ (r \in Ids /\ req[r].whenEmpty) => (phase = "stopped" \/ empty)

\* nextRequest: the first of the runnable requests with the highest priority.
bestIdx(i, R) ==
  \A j \in R :
    LET a == actionPriority(KindOf(queue[i]))
        b == actionPriority(KindOf(queue[j]))
    IN  a > b \/ (a = b /\ i <= j)

requestNoop(r) ==
  \/ KindOf(r) = "Start" /\ phase \in {"running", "starting"}
  \/ KindOf(r) = "Stop"  /\ phase = "stopped"

-----------------------------------------------------------------------------
(* Handlers of the manager goroutine *)

processAlive == cmd # 0 /\ proc[cmd] = "alive"

Continuing ==
  phase = "stopping" /\ op \in {"RestartFactorio", "RestartChatWire", "ChangeMap", "MapReset"}

MaxCrashes == 3

\* Fault: one crash too late.
CountCrash_OffByOne(quick) ==
  /\ crashLoop' = IF ~quick THEN 0
                  ELSE IF crashLoop < MaxCrashes THEN crashLoop + 1 ELSE MaxCrashes
  /\ autostart' = (autostart /\ crashLoop' <= MaxCrashes)

\* A crash during startup within two minutes counts; the third one in a row
\* turns auto-start off.
CountCrash(quick) ==
  /\ crashLoop' = IF ~quick THEN 0
                  ELSE IF crashLoop < MaxCrashes THEN crashLoop + 1 ELSE MaxCrashes
  /\ autostart' = (autostart /\ crashLoop' < MaxCrashes)

\* A report counts for the current generation only.
Closes(g) == g = gen /\ phase # "stopped"

finalizeStopped(g) ==
  IF Closes(g)
  THEN /\ phase' = "stopped"
       /\ booted' = FALSE
       /\ healthRestartQueued' = FALSE
       /\ updatePending' = (updatePending \/ softModUpdateRecovery)
       /\ softModUpdateRecovery' = FALSE
       /\ op' = IF Continuing THEN op ELSE "none"
       /\ cmd' = 0
       /\ IF phase = "starting"
          THEN \E quick \in BOOLEAN : (quick => "crash" \in Events) /\ CountCrash(quick)
          ELSE UNCHANGED <<crashLoop, autostart>>
       /\ UNCHANGED <<gen, softModDetected>>
  ELSE UNCHANGED <<core, soft, cmd, crashLoop, autostart>>

\* Fault: the ready line of an older process is taken for the new one's.
Awaited_AnyGeneration(g) == phase = "starting"

\* Fault: a late ready line revives a server that is being stopped.
Awaited_WhileStopping(g) == g = gen /\ phase \in {"starting", "stopping"}

Awaited(g) == g = gen /\ phase = "starting"

handleReadyEvent(g) ==
  IF Awaited(g)
  THEN /\ phase' = "running"
       /\ booted' = TRUE
       /\ op' = "none"
       /\ crashLoop' = 0
       /\ UNCHANGED <<gen, healthRestartQueued>>
  ELSE UNCHANGED <<core, crashLoop>>

\* The operation of a dead process is closed by finalizeStopped as well.
handleHealthEvent(g) ==
  IF g # gen \/ phase \in {"stopping", "stopped"}
  THEN UNCHANGED <<core, soft, queue, cmd, crashLoop, autostart>>
  ELSE IF ~processAlive
  THEN finalizeStopped(g) /\ UNCHANGED queue
  ELSE /\ queue' = IF healthRestartQueued THEN queue ELSE Append(queue, "health")
       /\ healthRestartQueued' = TRUE
       /\ UNCHANGED <<phase, booted, gen, op, soft, cmd, crashLoop, autostart>>

-----------------------------------------------------------------------------
(* The manager's loop: run() *)

NoShape == [kind |-> "none"]

Init ==
  /\ phase = "stopped" /\ booted = FALSE /\ gen = 0
  /\ queue = <<>> /\ op = "none" /\ healthRestartQueued = FALSE
  /\ softModDetected = FALSE /\ softModUpdateRecovery = FALSE
  /\ readyCh = <<>> /\ exitCh = <<>> /\ healthCh = <<>>
  /\ pc = "top" /\ cur = "none" /\ wasAuto = FALSE /\ err = FALSE
  /\ client = [i \in Ids |-> "idle"] /\ req = [i \in Ids |-> NoShape]
  /\ answers = [i \in Ids |-> 0] /\ snapshots = {}
  /\ proc = [g \in Gens |-> "none"] /\ sig = "none" /\ cmd = 0
  /\ todo = [g \in Gens |-> {}]
  /\ upd = "idle" /\ lock = "free" /\ modOp = FALSE /\ autostart \in BOOLEAN
  /\ updatePending = FALSE /\ updates = 0 /\ recoveries = 0
  /\ crashLoop = 0
  /\ main = "run" /\ halt = "no"

\* Fault: the stop channel is closed only when the manager has ended.
shutdownRequested_TooLate == main = "exit"

shutdownRequested == main \in {"closing", "exit"}

\* Fault: a request that failed is not answered.
answer_OnSuccess(R) ==
  answers' = [i \in Ids |-> IF i \in R /\ Waits(i) /\ ~err THEN answers[i] + 1 ELSE answers[i]]

\* Fault: only the request being executed is answered, the queued ones are dropped.
answer_NotQueued(R) ==
  answers' = [i \in Ids |-> IF i \in R \cap {cur} /\ Waits(i) THEN answers[i] + 1 ELSE answers[i]]

\* req.done <- err, for those of R that somebody waits for.
answer(R) ==
  answers' = [i \in Ids |-> IF i \in R /\ Waits(i) THEN answers[i] + 1 ELSE answers[i]]

\* os.Remove(req.saveSnapshot)
removeSnapshots(R) == snapshots' = snapshots \ R

\* Every queued waiter is answered and every queued snapshot removed.
cancelPendingRequests ==
  /\ pc = "top" /\ shutdownRequested
  /\ answer(ToSet(queue))
  /\ removeSnapshots(ToSet(queue))
  /\ queue' = <<>>
  /\ pc' = "done"
  /\ UNCHANGED <<core, soft, counts, chans, mgr, client, req, world, cmd,
                 flags, autostart, crashLoop, exits>>

DrainReady ==
  /\ pc = "top" /\ ~shutdownRequested /\ readyCh # <<>>
  /\ readyCh' = Tail(readyCh)
  /\ handleReadyEvent(Head(readyCh))
  /\ UNCHANGED <<queue, soft, counts, exitCh, healthCh, pc, mgr, clients, world,
                 cmd, flags, autostart, exits>>

DrainExit ==
  /\ pc = "top" /\ ~shutdownRequested /\ exitCh # <<>>
  /\ exitCh' = Tail(exitCh)
  /\ finalizeStopped(Head(exitCh))
  /\ UNCHANGED <<queue, counts, readyCh, healthCh, pc, mgr, clients, world,
                 flags, exits>>

DrainHealth ==
  /\ pc = "top" /\ ~shutdownRequested /\ healthCh # <<>>
  /\ healthCh' = Tail(healthCh)
  /\ handleHealthEvent(Head(healthCh))
  /\ UNCHANGED <<counts, readyCh, exitCh, pc, mgr, clients, world, flags, exits>>

\* Fault: only a running server is looked after.
Missing_WhenRunning == phase = "running" /\ ~processAlive

\* A process that died without its exit report is noticed here, once the channels
\* are drained.
Missing == phase # "stopped" /\ ~processAlive

reconcileProcessHealth ==
  /\ pc = "top" /\ ~shutdownRequested
  /\ readyCh = <<>> /\ exitCh = <<>> /\ healthCh = <<>>
  /\ pc' = "checks"
  /\ IF Missing
     THEN finalizeStopped(gen)
     ELSE UNCHANGED <<core, soft, cmd, crashLoop, autostart>>
  /\ UNCHANGED <<queue, counts, chans, mgr, clients, world, flags, exits>>

\* The startup deadline has passed: the operation is closed and a restart
\* submitted (refused once shutdown was requested).
checkStartupTimeout ==
  /\ pc = "checks" /\ phase = "starting"
  /\ "startup-timeout" \in Events /\ Len(queue) < MaxQueue
  /\ op' = "none"
  /\ queue' = IF shutdownRequested THEN queue ELSE Append(queue, "timeout")
  /\ pc' = "next"
  /\ UNCHANGED <<phase, booted, gen, healthRestartQueued, soft, counts, chans,
                 mgr, clients, world, cmd, flags, autostart, crashLoop, exits>>

\* Fault: the recovery stays armed and is carried to the next launch.
ConsumeRecovery_Not == UNCHANGED softModUpdateRecovery

\* Consumed before its restart is queued, so that the restart cannot arm another.
ConsumeRecovery == softModUpdateRecovery' = FALSE

\* 30 seconds after readiness the handshake is still missing.
checkSoftModAfterUpdate ==
  /\ pc = "checks"
  /\ softModUpdateRecovery /\ ~softModDetected
  /\ phase = "running" /\ booted
  /\ ~updating /\ ~modOp /\ ~shutdownRequested
  /\ \A r \in ToSet(queue) : KindOf(r) = "Start"
  /\ ConsumeRecovery
  /\ queue' = Append(queue, "softmod")
  /\ recoveries' = recoveries + 1
  /\ pc' = "next"
  /\ UNCHANGED <<core, softModDetected, updatePending, updates, chans, mgr,
                 clients, world, cmd, flags, autostart, crashLoop, exits>>

\* The start of execute(): announce the operation, and for a map change or a
\* reset keep auto-start off until the new map is in place.
Begin(r) ==
  LET k == KindOf(r) IN
  /\ cur' = r
  /\ err' = FALSE
  /\ op' = IF requestNoop(r) THEN op ELSE k
  /\ IF k \in {"ChangeMap", "MapReset"}
     THEN wasAuto' = autostart /\ autostart' = FALSE
     ELSE UNCHANGED <<wasAuto, autostart>>
  /\ pc' = IF k = "Start" THEN "start" ELSE "stop"

\* Outside the play hours shouldAutoStart says no.
shouldAutoStart(withinHours) ==
  phase = "stopped" /\ autostart /\ ~updating /\ ~modOp /\ withinHours

\* A check that finds nothing to do takes no step, so this may follow at once.
\* With nothing runnable and nothing to start, the loop waits and begins again.
nextRequest ==
  /\ pc \in {"checks", "next"}
  /\ \E empty \in BOOLEAN, withinHours \in BOOLEAN :
       LET R == {i \in DOMAIN queue : requestRunnable(queue[i], empty)} IN
       \/ \E i \in R :
            /\ bestIdx(i, R)
            /\ queue' = RemoveAt(queue, i)
            /\ Begin(queue[i])
       \/ /\ R = {} /\ shouldAutoStart(withinHours)
          /\ Begin("auto")
          /\ UNCHANGED queue
       \/ /\ R = {} /\ ~shouldAutoStart(withinHours)
          /\ pc' = "top"
          /\ UNCHANGED <<op, queue, mgr, autostart>>
  /\ UNCHANGED <<phase, booted, gen, healthRestartQueued, soft, counts, chans,
                 clients, world, cmd, flags, crashLoop, exits>>
-----------------------------------------------------------------------------
(* executeStop and waitForStop *)

Waiting == {"wait1", "wait2", "wait3"}

executeStop ==
  /\ pc = "stop"
  /\ IF phase = "stopped"
     THEN pc' = "stopped" /\ UNCHANGED <<phase, sig>>
     ELSE /\ phase' = "stopping"
          /\ sig' = IF booted /\ processAlive THEN "quit" ELSE sig
          /\ pc' = "wait1"
  /\ UNCHANGED <<booted, gen, op, healthRestartQueued, queue, soft, counts,
                 chans, mgr, clients, proc, todo, cmd, flags, autostart,
                 crashLoop, exits>>

WaitGone ==
  /\ pc \in Waiting /\ ~processAlive
  /\ finalizeStopped(gen)
  /\ pc' = "stopped"
  /\ UNCHANGED <<queue, counts, chans, mgr, clients, world, flags, exits>>

WaitExit ==
  /\ pc \in Waiting /\ exitCh # <<>>
  /\ exitCh' = Tail(exitCh)
  /\ finalizeStopped(Head(exitCh))
  /\ pc' = IF Head(exitCh) = gen THEN "stopped" ELSE pc
  /\ UNCHANGED <<queue, counts, readyCh, healthCh, mgr, clients, world, flags,
                 exits>>

\* A late ready report is taken from the channel and changes nothing.
WaitReady ==
  /\ pc \in Waiting /\ readyCh # <<>>
  /\ readyCh' = Tail(readyCh)
  /\ handleReadyEvent(Head(readyCh))
  /\ UNCHANGED <<queue, soft, counts, exitCh, healthCh, pc, mgr, clients, world,
                 cmd, flags, autostart, exits>>

\* The deadline passes: interrupt, then kill, then give up and keep the
\* handle and the phase.
StopStage == [wait1 |-> "wait2", wait2 |-> "wait3", wait3 |-> "finish"]

WaitTimeout ==
  /\ pc \in Waiting /\ processAlive
  /\ pc' = StopStage[pc]
  /\ sig' = CASE pc = "wait1" -> "int" [] pc = "wait2" -> "kill" [] pc = "wait3" -> sig
  /\ err' = (pc = "wait3")
  /\ autostart' = IF pc = "wait3" /\ KindOf(cur) \in {"ChangeMap", "MapReset"}
                  THEN wasAuto ELSE autostart
  /\ UNCHANGED <<core, queue, soft, counts, chans, cur, wasAuto, clients, proc,
                 todo, cmd, flags, crashLoop, exits>>

\* What follows a successful stop.  A ChatWire restart runs BeforeExit and a map
\* change installs the snapshot, each may fail; a map reset takes FactorioLock
\* and runs the Factorio binary to generate the map.
AfterStop ==
  LET k == KindOf(cur) IN
  /\ pc = "stopped"
  /\ \/ /\ k \in {"Stop", "RestartFactorio"}
        /\ pc' = IF k = "Stop" THEN "finish" ELSE "start"
        /\ UNCHANGED <<err, autostart, snapshots, lock>>
     \/ /\ k = "RestartChatWire"
        /\ \/ pc' = "exit" /\ UNCHANGED err
           \/ pc' = "finish" /\ err' = TRUE
        /\ UNCHANGED <<autostart, snapshots, lock>>
     \/ /\ k = "ChangeMap"
        /\ \/ pc' = "start"  /\ autostart' = TRUE    /\ UNCHANGED err
              /\ removeSnapshots({cur})
           \/ pc' = "finish" /\ autostart' = wasAuto /\ err' = TRUE
              /\ UNCHANGED snapshots
        /\ UNCHANGED lock
     \/ /\ k = "MapReset" /\ lock = "free"
        /\ pc' = "generate" /\ lock' = "manager"
        /\ UNCHANGED <<err, autostart, snapshots>>
  /\ UNCHANGED <<core, queue, soft, counts, chans, cur, wasAuto, client, req,
                 answers, world, cmd, upd, modOp, crashLoop, exits>>

GenNewMap ==
  /\ pc = "generate"
  /\ lock' = "free"
  /\ \/ pc' = "start"  /\ autostart' = TRUE    /\ UNCHANGED err
     \/ pc' = "finish" /\ autostart' = wasAuto /\ err' = TRUE
  /\ UNCHANGED <<core, queue, soft, counts, chans, cur, wasAuto, clients, world,
                 cmd, upd, modOp, crashLoop, exits>>
-----------------------------------------------------------------------------
(* executeStart and LaunchFactorio *)

\* Fault: the update flag is trusted to be unchanged since the request was chosen.
mayStart_DuringUpdate == phase = "stopped" /\ ~modOp

\* Fault: a server that is still stopping may be started again.
mayStart_WhileStopping == phase \in {"stopped", "stopping"} /\ ~updating /\ ~modOp

\* Refused while the server is up (no error), while it is stopping, during an
\* update or a mod operation, and outside the play hours.
mayStart == phase = "stopped" /\ ~updating /\ ~modOp

StartRefused ==
  /\ pc = "start"
  /\ \E withinHours \in BOOLEAN : ~(mayStart /\ withinHours)
  /\ pc' = "finish"
  /\ err' = (phase \notin {"running", "starting"})
  /\ UNCHANGED <<core, queue, soft, counts, chans, cur, wasAuto, clients, world,
                 cmd, flags, autostart, crashLoop, exits>>

executeStart ==
  /\ pc = "start" /\ mayStart
  /\ gen < MaxGen
  /\ phase' = "starting"
  /\ booted' = FALSE
  /\ softModDetected' = FALSE
  /\ softModUpdateRecovery' = FALSE
  /\ gen' = gen + 1
  /\ pc' = "spawn"
  /\ UNCHANGED <<op, healthRestartQueued, queue, updatePending, counts, chans,
                 mgr, clients, world, cmd, flags, autostart, crashLoop, exits>>

\* Fault: a failed launch leaves a phase that no handler knows.
LaunchFails_UnknownPhase ==
  /\ pc = "spawn"
  /\ phase' = "failed" /\ booted' = FALSE /\ err' = TRUE /\ pc' = "finish"
  /\ UNCHANGED <<gen, op, healthRestartQueued, queue, soft, counts, chans, cur, wasAuto,
                 clients, world, cmd, flags, autostart, crashLoop, exits>>

\* Some failures (no installation, no save, no config) also turn auto-start off.
LaunchFails ==
  /\ pc = "spawn"
  /\ \E disable \in BOOLEAN : autostart' = (autostart /\ ~disable)
  /\ phase' = "stopped"
  /\ booted' = FALSE
  /\ err' = TRUE
  /\ pc' = "finish"
  /\ UNCHANGED <<gen, op, healthRestartQueued, queue, soft, counts, chans, cur,
                 wasAuto, clients, world, cmd, flags, crashLoop, exits>>

LaunchFactorio ==
  /\ pc = "spawn"
  /\ proc' = [proc EXCEPT ![gen] = "alive"]
  /\ sig' = "none"
  /\ pc' = "register"
  /\ UNCHANGED <<core, queue, soft, counts, chans, mgr, clients, todo, cmd,
                 flags, autostart, crashLoop, exits>>

\* The handle and the pipe are published; reader and waiter goroutines start.
RegisterProcess ==
  /\ pc = "register" /\ lock = "free"
  /\ cmd' = gen
  /\ todo' = [todo EXCEPT ![gen] = @ \cup (Events \cap {"ready", "hello", "closed", "write"})]
  /\ pc' = "arm"
  /\ UNCHANGED <<core, queue, soft, counts, chans, mgr, clients, proc, sig,
                 flags, autostart, crashLoop, exits>>

\* The first launch after an update arms the SoftMod check.
ArmSoftMod ==
  /\ pc = "arm"
  /\ \E inject \in BOOLEAN :
       softModUpdateRecovery' = (updatePending /\ inject /\ ~softModDetected)
  /\ updatePending' = FALSE
  /\ pc' = "finish"
  /\ UNCHANGED <<core, queue, softModDetected, counts, chans, mgr, clients,
                 world, cmd, flags, autostart, crashLoop, exits>>

\* Fault: a failed request leaves its operation open.
finishOperationError_Not == UNCHANGED op

finishOperationError == op' = IF err THEN "none" ELSE op

\* The end of execute(): an error closes the operation, a waiter is answered,
\* the snapshot is removed.
Finish ==
  /\ pc = "finish"
  /\ finishOperationError
  /\ answer({cur})
  /\ removeSnapshots({cur})
  /\ cur' = "none" /\ wasAuto' = FALSE /\ err' = FALSE
  /\ pc' = "top"
  /\ UNCHANGED <<phase, booted, gen, healthRestartQueued, queue, soft, counts,
                 chans, client, req, world, cmd, flags, autostart, crashLoop,
                 exits>>

\* The ExitChatWire hook is DoExit, run by the manager itself.  It submits a
\* stop and waits for it when the server is not stopped, and the only goroutine
\* that could execute that stop is the one that waits.
ExitHook ==
  /\ pc = "exit" /\ halt = "no"
  /\ autostart' = FALSE
  /\ phase = "stopped"
  /\ halt' = "check"
  /\ UNCHANGED <<core, queue, soft, counts, chans, pc, mgr, clients, world, cmd,
                 flags, crashLoop, main>>

Manager ==
  \/ cancelPendingRequests
  \/ DrainReady \/ DrainExit \/ DrainHealth
  \/ reconcileProcessHealth \/ checkStartupTimeout \/ checkSoftModAfterUpdate
  \/ nextRequest
  \/ executeStop \/ WaitGone \/ WaitExit \/ WaitReady \/ WaitTimeout \/ AfterStop
  \/ GenNewMap
  \/ StartRefused \/ executeStart \/ LaunchFails \/ LaunchFactorio
  \/ RegisterProcess \/ ArmSoftMod \/ Finish \/ ExitHook
-----------------------------------------------------------------------------
(* Clients: submitLifecycleRequest *)

\* The client has found the manager; a map change copies the save first.
Stage(i) ==
  /\ client[i] = "idle" /\ main # "exit"
  /\ \E s \in Shapes :
       /\ req' = [req EXCEPT ![i] = s]
       /\ snapshots' = IF s.kind = "ChangeMap" THEN snapshots \cup {i} ELSE snapshots
       /\ autostart' = (autostart /\ ~s.disable)
  /\ client' = [client EXCEPT ![i] = "staged"]
  /\ UNCHANGED <<core, queue, soft, counts, chans, pc, mgr, answers, world, cmd,
                 flags, crashLoop, exits>>

\* Under the manager's mutex: refused once shutdown was requested.
Submit(i) ==
  /\ client[i] = "staged"
  /\ IF shutdownRequested
     THEN /\ client' = [client EXCEPT ![i] = "rejected"]
          /\ removeSnapshots({i})
          /\ UNCHANGED queue
     ELSE /\ client' = [client EXCEPT ![i] = "accepted"]
          /\ queue' = Append(queue, i)
          /\ UNCHANGED snapshots
  /\ UNCHANGED <<core, soft, counts, chans, pc, mgr, req, answers, world, cmd,
                 flags, autostart, crashLoop, exits>>
-----------------------------------------------------------------------------
(* Factorio and the goroutines that report on it *)

\* It quits, crashes or obeys a signal.
ProcessExits(g) ==
  /\ proc[g] = "alive"
  /\ proc' = [proc EXCEPT ![g] = "dead"]
  /\ todo' = [todo EXCEPT ![g] = @ \cup {"exit"}]
  /\ sig' = "none"
  /\ UNCHANGED <<core, queue, soft, counts, chans, pc, mgr, clients, cmd,
                 flags, autostart, crashLoop, exits>>

\* A non-blocking send: the report is dropped when the channel is full, or when
\* there is no manager any more.
Send(ch, g) == IF main # "exit" /\ Len(ch) < ChanCap THEN Append(ch, g) ELSE ch

\* The four reports other goroutines make, each at any later time and once per
\* process: ready line, end of stdout, failed write to stdin, exit of the process.
Notify(g, r) ==
  /\ r \in todo[g] /\ r # "hello"
  /\ g = gen => pc # "register"     \* cmd.Wait is called after registration
  /\ todo' = [todo EXCEPT ![g] = @ \ {r}]
  /\ readyCh'  = IF r = "ready" THEN Send(readyCh, g) ELSE readyCh
  /\ exitCh'   = IF r = "exit"  THEN Send(exitCh, g)  ELSE exitCh
  /\ healthCh' = IF r \in {"closed", "write"} THEN Send(healthCh, g) ELSE healthCh
  /\ UNCHANGED <<core, queue, soft, counts, pc, mgr, clients, proc, sig, cmd,
                 flags, autostart, crashLoop, exits>>

\* The SoftMod handshake answers for its own generation only.
NotifySoftModDetected(g) ==
  /\ "hello" \in todo[g]
  /\ todo' = [todo EXCEPT ![g] = @ \ {"hello"}]
  /\ IF g = gen /\ main # "exit"
     THEN softModDetected' = TRUE /\ softModUpdateRecovery' = FALSE
     ELSE UNCHANGED <<softModDetected, softModUpdateRecovery>>
  /\ UNCHANGED <<core, queue, updatePending, counts, chans, pc, mgr, clients,
                 proc, sig, cmd, flags, autostart, crashLoop, exits>>
-----------------------------------------------------------------------------
(* Flags set by other goroutines *)

SetModOperationInProgress ==
  /\ "mod" \in Events
  /\ modOp' = ~modOp
  /\ UNCHANGED <<core, queue, soft, counts, chans, pc, mgr, clients, world, cmd,
                 updater, autostart, crashLoop, exits>>

SetAutolaunch ==
  /\ "autolaunch" \in Events
  /\ autostart' = ~autostart
  /\ UNCHANGED <<core, queue, soft, counts, chans, pc, mgr, clients, world, cmd,
                 flags, crashLoop, exits>>
-----------------------------------------------------------------------------
(* The updater: fullPackage, one at a time under UpdatersLock *)

UpdaterStep(from, to) ==
  /\ upd = from /\ upd' = to
  /\ UNCHANGED <<core, queue, softModDetected, softModUpdateRecovery, recoveries,
                 chans, pc, mgr, clients, world, cmd, modOp, autostart,
                 crashLoop, exits>>

SetUpdateInProgress ==
  /\ "update" \in Events /\ updates < MaxUpdates
  /\ UpdaterStep("idle", "waiting")
  /\ UNCHANGED <<lock, updatePending, updates>>

\* GetLifecycleState answers "stopped" once there is no manager any more.
WaitFactQuit ==
  /\ phase = "stopped" \/ main = "exit"
  /\ UpdaterStep("waiting", "quiet")
  /\ UNCHANGED <<lock, updatePending, updates>>

WaitFactQuitTimeout ==
  /\ UpdaterStep("waiting", "leaving")
  /\ UNCHANGED <<lock, updatePending, updates>>

LockInstallation ==
  /\ lock = "free" /\ lock' = "updater"
  /\ UpdaterStep("quiet", "installing")
  /\ UNCHANGED <<updatePending, updates>>

InstallFails ==
  /\ UpdaterStep("installing", "leaving")
  /\ lock' = "free"
  /\ UNCHANGED <<updatePending, updates>>

\* A successful installation arms the SoftMod check before the lock is released.
MarkFactorioUpdated ==
  /\ UpdaterStep("installing", "leaving")
  /\ updatePending' = TRUE
  /\ updates' = updates + 1
  /\ lock' = "free"

ClearUpdateInProgress ==
  /\ UpdaterStep("leaving", "idle")
  /\ UNCHANGED <<lock, updatePending, updates>>

Updater ==
  \/ WaitFactQuit \/ WaitFactQuitTimeout \/ LockInstallation \/ InstallFails
  \/ MarkFactorioUpdated \/ ClearUpdateInProgress
-----------------------------------------------------------------------------
(* Shutdown of ChatWire: main() on SIGTERM, StopLifecycleManager, DoExit *)

Sigterm ==
  /\ "sigterm" \in Events /\ main = "run"
  /\ autostart' = FALSE
  /\ queue' = Append(queue, "sigterm")
  /\ main' = "quit"
  /\ UNCHANGED <<core, soft, counts, chans, pc, mgr, clients, world, cmd, flags,
                 crashLoop, halt>>

\* WaitFactQuit returned, because the server stopped or the wait timed out.
StopLifecycleManager ==
  /\ main = "quit"
  /\ main' = "closing"
  /\ UNCHANGED <<core, queue, soft, counts, chans, pc, mgr, clients, world, cmd,
                 flags, autostart, crashLoop, halt>>

\* The manager goroutine has ended: there is no manager any more for DoExit.
DoExit ==
  /\ main = "closing" /\ pc = "done"
  /\ main' = "exit"
  /\ autostart' = FALSE
  /\ halt' = "check"
  /\ UNCHANGED <<core, queue, soft, counts, chans, pc, mgr, clients, world, cmd,
                 flags, crashLoop>>

\* Fault: ChatWire exits after the interrupt, without SIGKILL.
ExitStage_NoKill == [check |-> "int", int |-> "gone", kill |-> "gone"]

\* A process that is still there is interrupted, then killed, and ChatWire
\* exits when it is gone or when the last wait times out.
ExitStage == [check |-> "int", int |-> "kill", kill |-> "gone"]

forceFactorioProcessExit ==
  /\ halt \in DOMAIN ExitStage
  /\ \/ ~processAlive /\ halt' = "gone" /\ UNCHANGED sig
     \/ processAlive /\ halt' = ExitStage[halt]
        /\ sig' = IF halt' = "gone" THEN sig ELSE halt'
  /\ UNCHANGED <<core, queue, soft, counts, chans, pc, mgr, clients, proc, todo,
                 cmd, flags, autostart, crashLoop, main>>

Shutdown == Sigterm \/ StopLifecycleManager \/ DoExit \/ forceFactorioProcessExit

\* ChatWire has exited.
Terminated == halt = "gone" /\ UNCHANGED vars
-----------------------------------------------------------------------------
Others ==
  \/ \E i \in Ids : Stage(i) \/ Submit(i)
  \/ \E g \in Gens, r \in Reports : Notify(g, r)
  \/ \E g \in Gens : NotifySoftModDetected(g)
  \/ SetModOperationInProgress \/ SetAutolaunch
  \/ SetUpdateInProgress \/ Updater

Next ==
  \/ halt # "gone" /\ (Manager \/ Others \/ Shutdown)
  \/ \E g \in Gens : ProcessExits(g)
  \/ Terminated

Spec == Init /\ [][Next]_vars

\* The manager goroutine, the updater, the goroutines that end the program and the
\* ones that call submit are never suspended for ever; Factorio, operators and
\* reports are free not to act.
Fairness ==
  /\ WF_vars(halt # "gone" /\ Manager)
  /\ WF_vars(halt # "gone" /\ Updater)
  /\ WF_vars(halt # "gone" /\ (StopLifecycleManager \/ DoExit \/ forceFactorioProcessExit))
  /\ \A i \in Ids : WF_vars(halt # "gone" /\ Submit(i))

FairSpec == Spec /\ Fairness
-----------------------------------------------------------------------------
(* Properties *)

ManagerType ==
  /\ phase \in Phases /\ booted \in BOOLEAN /\ gen \in 0 .. MaxGen
  /\ queue \in Seq(Ids \cup Internal) /\ op \in Kinds \cup {"none"}
  /\ healthRestartQueued \in BOOLEAN
  /\ pc \in Labels /\ cur \in Ids \cup Internal \cup {"none"}
  /\ wasAuto \in BOOLEAN /\ err \in BOOLEAN

ProcessType ==
  /\ proc \in [Gens -> {"none", "alive", "dead"}]
  /\ sig \in {"none", "quit", "int", "kill"} /\ cmd \in 0 .. MaxGen
  /\ todo \in [Gens -> SUBSET Reports]
  /\ readyCh \in Seq(Gens) /\ exitCh \in Seq(Gens) /\ healthCh \in Seq(Gens)

ClientType ==
  /\ client \in [Ids -> {"idle", "staged", "accepted", "rejected"}]
  /\ req \in [Ids -> Shapes \cup {NoShape}]
  /\ answers \in [Ids -> Nat] /\ snapshots \subseteq Ids

SoftModType ==
  /\ softModDetected \in BOOLEAN /\ softModUpdateRecovery \in BOOLEAN
  /\ updatePending \in BOOLEAN /\ updates \in Nat /\ recoveries \in Nat

FlagType ==
  /\ upd \in {"idle", "waiting", "quiet", "installing", "leaving"}
  /\ lock \in {"free", "manager", "updater"}
  /\ modOp \in BOOLEAN /\ autostart \in BOOLEAN
  /\ crashLoop \in 0 .. MaxCrashes
  /\ main \in {"run", "quit", "closing", "exit"}
  /\ halt \in {"no", "check", "int", "kill", "gone"}

\* The state of the manager, of processes, of clients and of the flags has its type.
TypeOK == ManagerType /\ ProcessType /\ ClientType /\ SoftModType /\ FlagType

Alive == {g \in Gens : proc[g] = "alive"}

\* executeStop keeps handle and phase when a stop times out because "Clearing
\* them here would permit another launch alongside the old process": at most one
\* Factorio process runs at any time, and it is the one of the current generation.
SingleProcess == Alive \subseteq {gen}

\* The updater, uploads and the exit sequence take the phase "stopped" as proof
\* that no Factorio process is left, whatever stale or lost reports there were.
StoppedMeansGone == phase = "stopped" => Alive = {}

\* A ready line that an old process printed must not announce the new one: the
\* server is "running" only when the current process itself has reported.
ReadyIsOwn == phase = "running" => "ready" \notin todo[gen]

\* A process the program no longer holds a handle for could never be signalled
\* again: a live process is the one of glob.FactorioCmd, except while
\* LaunchFactorio has started it and not yet published the handle.
HandleKept == \A g \in Alive : cmd = g \/ pc = "register"

\* What the rest of the program takes for granted of the process: there is one, it is
\* the one of the current handle, and "stopped" means that it is gone (executeStop,
\* finalizeStopped, executeStart, LaunchFactorio).
ProcessKnown == SingleProcess /\ StoppedMeansGone /\ HandleKept

\* DoExit, run by the manager goroutine, would wait for itself if the server
\* were not stopped: the exit hook is only reached in phase "stopped".
ExitHookOnlyWhenStopped == pc = "exit" => phase = "stopped"

\* However the shutdown interleaves with a restart or a map change in progress,
\* ChatWire never exits leaving a Factorio process it has not sent SIGKILL.
NoUnkilledOrphan == halt = "gone" /\ Alive # {} => sig = "kill"

\* Both ways out of ChatWire, DoExit on the manager goroutine and StopLifecycleManager
\* from main, neither wait for themselves nor leave a process behind unkilled.
ExitClean == ExitHookOnlyWhenStopped /\ NoUnkilledOrphan

\* A waiter's channel holds one answer: a second one would block the manager for
\* ever, a missing one the client.  A request that is queued or being executed is
\* unanswered, any other accepted one has exactly one answer, also after shutdown.
AnsweredOnce ==
  \A i \in Ids : answers[i] =
    IF client[i] = "accepted" /\ req[i].wait /\ i # cur /\ i \notin ToSet(queue)
    THEN 1 ELSE 0

\* The rewind snapshot of a map change is removed on every path (refused,
\* cancelled, failed, done): one that exists belongs to a request still to come.
SnapshotsOwned ==
  \A i \in snapshots : client[i] = "staged" \/ i = cur \/ i \in ToSet(queue)

\* README: "queues one additional Factorio restart [...] This recovery does not
\* repeat": there are never more recovery restarts than installed updates.
SoftModRecoveryBounded == recoveries <= updates

\* An announced operation is not left open: its token is held only while the
\* request executes or the server it started is still booting.
OperationClosed == op # "none" => cur # "none" \/ phase = "starting"

\* A request that is refused, fails half-way, is cancelled or superseded leaves nothing
\* open: neither an announced operation nor a snapshot (execute, cancelPendingRequests).
NothingLeftOpen == OperationClosed /\ SnapshotsOwned

\* With nobody turning auto-start on again, three startup crashes in a row end
\* the automatic launches.
CrashLoopEndsAutoStart == crashLoop = MaxCrashes => ~autostart

\* The updater looks at the phase first and takes FactorioLock later: while it
\* replaces the installation no Factorio process runs, none is being launched,
\* and no map is being generated with the old binary.  It says nothing of the time
\* after StopLifecycleManager, when every reader of the phase is told "stopped".
InstallExclusive ==
  upd = "installing" /\ main # "exit" =>
    Alive = {} /\ pc \notin {"spawn", "register", "generate"}

\* server.go: "factorio-stop" will "Save and stop Factorio; disable autostart".
\* An operator turns auto-start off before the stop is submitted; it is still off
\* when the stop is answered.
OperatorStopDisablesAutostart ==
  [][\A i \in Ids : answers'[i] > answers[i] /\ req[i].disable => ~autostart']_vars

\* The exit report of a process may be dropped, and the end of the process may
\* fall in any step of the manager: the controller notices it all the same.
DeadProcessNoticed ==
  \A g \in Gens :
    (g = gen /\ proc[g] = "dead") ~> (phase = "stopped" \/ gen > g \/ halt = "gone")

\* SIGTERM ends ChatWire, whatever the manager is doing and however many requests
\* are queued: main waits for the manager, which must not wait for main.
ShutdownCompletes == main = "quit" ~> halt = "gone"

\* A client blocked in submitLifecycleRequestAndWait is released.
WaitersReleased ==
  \A i \in Ids : (client[i] = "accepted" /\ req[i].wait) ~> (answers[i] = 1 \/ halt = "gone")

Born == {g \in Gens : proc[g] # "none"}

Server == INSTANCE FactorioServer WITH live <- Alive, born <- Born

\* The controller with all its interleavings implements the server the rest of the
\* program relies on: no launch, no return to "stopped" and no readiness that the
\* abstract server would not allow.
ImplementsServer == Server!Spec
-----------------------------------------------------------------------------
(* Inductive invariants, for the proofs *)

\* What keeps one process, its handle and the phase together: reports of exit tell
\* the truth, handles belong to the current generation, and between the decision
\* to launch and the registration the manager is the only one to know.
ProcessInv ==
  /\ \A g \in Gens : proc[g] = "alive" =>
        g = gen /\ phase # "stopped" /\ (cmd = g \/ pc = "register")
  /\ \A g \in Gens : g > gen => proc[g] = "none"
  /\ \A g \in Gens : "exit" \in todo[g] => proc[g] = "dead"
  /\ \A k \in DOMAIN exitCh : proc[exitCh[k]] = "dead"
  /\ cmd \in {0, gen}
  /\ phase = "stopped" => cmd = 0
  /\ pc \in {"spawn", "register"} => phase = "starting" /\ cmd = 0
  /\ pc = "spawn" => gen \in Gens /\ proc[gen] = "none"
  /\ phase # "stopped" /\ pc # "spawn" => gen \in Born

\* The two holders of FactorioLock, and the phase an updater that has passed
\* WaitFactQuit relies on: nobody leaves "stopped" while the flag is up.
InstallInv ==
  /\ lock = "updater" <=> upd = "installing"
  /\ lock = "manager" <=> pc = "generate"
  /\ upd \in {"quiet", "installing"} /\ main # "exit" => phase = "stopped"

\* Every installed update is owed at most one recovery: it is still pending, armed
\* for the current launch, or already spent.
RecoveryInv ==
  recoveries + (IF updatePending THEN 1 ELSE 0)
             + (IF softModUpdateRecovery THEN 1 ELSE 0) <= updates

\* A ready report in the channel is spent, and it is of a process that was registered.
ReadyInv ==
  /\ \A k \in DOMAIN readyCh :
        /\ "ready" \notin todo[readyCh[k]] /\ readyCh[k] <= gen
        /\ pc \in {"spawn", "register"} => readyCh[k] # gen
  /\ \A g \in Gens : "ready" \in todo[g] =>
        g <= gen /\ (pc \in {"spawn", "register"} => g # gen)
  /\ ReadyIsOwn

\* The exit sequence begins when the manager launches nothing any more, and goes as
\* far as SIGKILL while there is a process.
ExitInv ==
  /\ pc \in {"stopped", "generate", "exit"} => phase = "stopped"
  /\ halt # "no" => pc \in {"exit", "done"}
  /\ halt \in {"kill", "gone"} /\ Alive # {} => sig = "kill"

\* A request of a client is in one place: staged, queued once, executed or answered.
RequestInv ==
  /\ cur = "none" <=> pc \in {"top", "checks", "next", "done"}
  /\ cur \in Ids => client[cur] = "accepted"
  /\ \A i \in Ids : client[i] # "idle" => req[i] \in Shapes
  /\ \A k \in DOMAIN queue : queue[k] \in Ids =>
        client[queue[k]] = "accepted" /\ queue[k] # cur
  /\ \A j, k \in DOMAIN queue : queue[j] = queue[k] /\ queue[j] \in Ids => j = k
  /\ SnapshotsOwned /\ AnsweredOnce

\* The operation at every place of execute: a stop is closed by finalizeStopped, any
\* other operation by its error or by the readiness of the server it starts.
OperationInv ==
  /\ OperationClosed
  /\ pc = "stop" /\ KindOf(cur) = "Stop" =>
        op = IF phase = "stopped" THEN "none" ELSE "Stop"
  /\ pc \in Waiting => phase = "stopping" /\ (KindOf(cur) = "Stop" => op = "Stop")
  /\ pc = "stopped" /\ KindOf(cur) = "Stop" => op = "none"
  /\ pc \in {"stopped", "generate"} => phase = "stopped"
  /\ pc = "start" /\ phase = "running" => op = "none"
  /\ pc = "arm" => phase = "starting"
  /\ pc = "finish" /\ op # "none" => err \/ phase = "starting"
=============================================================================
