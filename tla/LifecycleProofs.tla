--------------------------- MODULE LifecycleProofs ---------------------------
(***************************************************************************)
(* Theorems about the lifecycle controller, for every value of its         *)
(* constants: type correctness, the invariant that ties the process, its   *)
(* handle and the phase together, the updater, readiness, the exit,        *)
(* requests and their operations, crash loops, and the refinement of       *)
(* FactorioServer.                                                         *)
(***************************************************************************)
EXTENDS Lifecycle, TLAPS

USE DEF core, soft, counts, chans, mgr, clients, world, flags, exits,
        Closes, Awaited, Missing, answer, removeSnapshots, ConsumeRecovery,
        finishOperationError

-----------------------------------------------------------------------------
(* Type correctness: the helpers first, then one lemma per part of TypeOK *)

\* The stages of waitForStop and of the exit sequence.
LEMMA StageTypes ==
  /\ pc \in Waiting => StopStage[pc] \in {"wait2", "wait3", "finish"}
  /\ halt \in DOMAIN ExitStage => ExitStage[halt] \in {"int", "kill", "gone"}
BY DEF Waiting, StopStage, ExitStage

\* nextRequest deletes one element of the queue.
LEMMA RemoveAtType ==
  ASSUME NEW S, NEW s \in Seq(S), NEW i \in DOMAIN s
  PROVE  RemoveAt(s, i) \in Seq(S)
BY DEF RemoveAt

\* finalizeStopped's crash counter stays within its limit.
LEMMA CountCrashType ==
  ASSUME TypeOK, NEW quick \in BOOLEAN, CountCrash(quick)
  PROVE  crashLoop' \in 0 .. MaxCrashes /\ autostart' \in BOOLEAN
BY DEF CountCrash, TypeOK, FlagType, MaxCrashes

\* What finalizeStopped leaves well-typed; it never changes the generation.
LEMMA FinalizeType ==
  ASSUME TypeOK, NEW g, finalizeStopped(g)
  PROVE  /\ phase' \in Phases /\ booted' \in BOOLEAN /\ gen' = gen
         /\ op' \in Kinds \cup {"none"} /\ healthRestartQueued' \in BOOLEAN
         /\ softModDetected' \in BOOLEAN /\ softModUpdateRecovery' \in BOOLEAN
         /\ updatePending' \in BOOLEAN /\ cmd' \in 0 .. MaxGen
         /\ crashLoop' \in 0 .. MaxCrashes /\ autostart' \in BOOLEAN
<1>1. CASE g = gen /\ phase # "stopped"
  <2>1. crashLoop' \in 0 .. MaxCrashes /\ autostart' \in BOOLEAN
    <3>1. CASE phase = "starting"
      <4>1. PICK quick \in BOOLEAN : CountCrash(quick)
        BY <1>1, <3>1 DEF finalizeStopped
      <4> QED BY <4>1, CountCrashType
    <3>2. CASE phase # "starting"
      BY <1>1, <3>2 DEF finalizeStopped, TypeOK, FlagType
    <3> QED BY <3>1, <3>2
  <2>2. cmd' \in 0 .. MaxGen
    BY <1>1, ConstantsOK DEF finalizeStopped, ConstantsOK
  <2>3. updatePending' \in BOOLEAN
    BY <1>1 DEF finalizeStopped
  <2> QED
    BY <1>1, <2>1, <2>2, <2>3
    DEF finalizeStopped, TypeOK, ManagerType, SoftModType, Phases
<1>2. CASE ~(g = gen /\ phase # "stopped")
  BY <1>2 DEF finalizeStopped, core, soft, TypeOK, ManagerType, ProcessType, SoftModType, FlagType
<1> QED BY <1>1, <1>2

\* What handleReadyEvent leaves well-typed.
LEMMA ReadyType ==
  ASSUME TypeOK, NEW g, handleReadyEvent(g)
  PROVE  /\ phase' \in Phases /\ booted' \in BOOLEAN /\ gen' = gen
         /\ op' \in Kinds \cup {"none"} /\ healthRestartQueued' \in BOOLEAN
         /\ crashLoop' \in 0 .. MaxCrashes
<1>1. CASE g = gen /\ phase = "starting"
  BY <1>1 DEF handleReadyEvent, TypeOK, ManagerType, Phases, MaxCrashes
<1>2. CASE ~(g = gen /\ phase = "starting")
  BY <1>2 DEF handleReadyEvent, TypeOK, ManagerType, FlagType
<1> QED BY <1>1, <1>2

\* What handleHealthEvent leaves well-typed.
LEMMA HealthType ==
  ASSUME TypeOK, NEW g, handleHealthEvent(g)
  PROVE  /\ phase' \in Phases /\ booted' \in BOOLEAN /\ gen' = gen
         /\ op' \in Kinds \cup {"none"} /\ healthRestartQueued' \in BOOLEAN
         /\ softModDetected' \in BOOLEAN /\ softModUpdateRecovery' \in BOOLEAN
         /\ updatePending' \in BOOLEAN /\ cmd' \in 0 .. MaxGen
         /\ crashLoop' \in 0 .. MaxCrashes /\ autostart' \in BOOLEAN
         /\ queue' \in Seq(Ids \cup Internal)
<1>1. CASE g # gen \/ phase \in {"stopping", "stopped"}
  BY <1>1 DEF handleHealthEvent, TypeOK, ManagerType, ProcessType, SoftModType, FlagType
<1>2. CASE ~(g # gen \/ phase \in {"stopping", "stopped"}) /\ ~processAlive
  <2>1. finalizeStopped(g) /\ queue' = queue
    BY <1>2 DEF handleHealthEvent
  <2> QED BY <2>1, FinalizeType DEF TypeOK, ManagerType
<1>3. CASE ~(g # gen \/ phase \in {"stopping", "stopped"}) /\ processAlive
  <2>1. Append(queue, "health") \in Seq(Ids \cup Internal)
    BY DEF TypeOK, ManagerType, Internal
  <2> QED BY <1>3, <2>1 DEF handleHealthEvent, TypeOK, ManagerType, ProcessType, SoftModType, FlagType
<1> QED BY <1>1, <1>2, <1>3

\* A request has one of the six kinds; an identity not yet used has none.
LEMMA KindType ==
  ASSUME TypeOK, NEW r \in Ids \cup Internal
  PROVE  KindOf(r) \in Kinds \cup {"none"}
<1>1. CASE r \in Ids
  <2>1. req[r] \in Shape \/ req[r] = NoShape
    BY <1>1, ConstantsOK DEF ConstantsOK, TypeOK, ClientType
  <2>2. req[r].kind \in Kinds \cup {"none"}
    BY <2>1 DEF Shape, NoShape
  <2>3. KindOf(r) = req[r].kind
    BY <1>1, ConstantsOK DEF ConstantsOK, Internal, KindOf
  <2> QED BY <2>2, <2>3
<1>2. CASE r \notin Ids
  BY <1>2 DEF KindOf, Kinds
<1> QED BY <1>1, <1>2

\* The start of execute().
LEMMA BeginType ==
  ASSUME TypeOK, NEW r \in Ids \cup Internal, Begin(r)
  PROVE  /\ cur' \in Ids \cup Internal /\ err' = FALSE
         /\ op' \in Kinds \cup {"none"}
         /\ wasAuto' \in BOOLEAN /\ autostart' \in BOOLEAN
         /\ pc' \in {"start", "stop"}
<1>1. op' \in Kinds \cup {"none"}
  BY KindType DEF Begin, TypeOK, ManagerType
<1>2. wasAuto' \in BOOLEAN /\ autostart' \in BOOLEAN
  BY DEF Begin, TypeOK, ManagerType, FlagType
<1> QED BY <1>1, <1>2 DEF Begin

\* Choosing a request, starting on its own, or waiting.
LEMMA NextRequestType ==
  ASSUME TypeOK, nextRequest
  PROVE  /\ queue' \in Seq(Ids \cup Internal) /\ op' \in Kinds \cup {"none"}
         /\ cur' \in Ids \cup Internal \cup {"none"} /\ wasAuto' \in BOOLEAN
         /\ err' \in BOOLEAN /\ autostart' \in BOOLEAN /\ pc' \in Labels
<1> DEFINE Queued == \E i \in DOMAIN queue : queue' = RemoveAt(queue, i) /\ Begin(queue[i])
           AutoReq == Begin("auto") /\ UNCHANGED queue
           Idle == pc' = "top" /\ UNCHANGED <<op, queue, mgr, autostart>>
<1>1. Queued \/ AutoReq \/ Idle
  BY DEF nextRequest
<1>2. CASE Queued
  <2>1. PICK i \in DOMAIN queue : queue' = RemoveAt(queue, i) /\ Begin(queue[i])
    BY <1>2
  <2>2. queue[i] \in Ids \cup Internal
    BY DEF TypeOK, ManagerType
  <2>3. queue' \in Seq(Ids \cup Internal)
    BY <2>1, RemoveAtType DEF TypeOK, ManagerType
  <2> QED BY <2>1, <2>2, <2>3, BeginType DEF Labels
<1>3. CASE AutoReq
  <2>1. "auto" \in Ids \cup Internal
    BY DEF Internal
  <2> QED BY <1>3, <2>1, BeginType DEF Labels, TypeOK, ManagerType
<1>4. CASE Idle
  BY <1>4 DEF TypeOK, ManagerType, FlagType, Labels
<1> QED BY <1>1, <1>2, <1>3, <1>4

\* The clients' variables: only submit, cancel, the end of execute and a map
\* change touch them.
LEMMA ClientTypeStep ==
  ASSUME TypeOK, Next PROVE ClientType'
<1> USE DEF TypeOK, ClientType
<1>1. CASE \/ DrainReady \/ DrainExit \/ DrainHealth
           \/ reconcileProcessHealth \/ checkStartupTimeout \/ checkSoftModAfterUpdate
           \/ nextRequest
  BY <1>1 DEF DrainReady, DrainExit, DrainHealth, reconcileProcessHealth,
       checkStartupTimeout, checkSoftModAfterUpdate, nextRequest
<1>2. CASE executeStop \/ WaitGone \/ WaitExit \/ WaitReady \/ WaitTimeout \/ GenNewMap
  BY <1>2 DEF executeStop, WaitGone, WaitExit, WaitReady, WaitTimeout, GenNewMap
<1>3. CASE StartRefused \/ executeStart \/ LaunchFails \/ LaunchFactorio
           \/ RegisterProcess \/ ArmSoftMod \/ ExitHook
  BY <1>3 DEF StartRefused, executeStart, LaunchFails, LaunchFactorio, RegisterProcess,
       ArmSoftMod, ExitHook
<1>4. CASE cancelPendingRequests
  BY <1>4 DEF cancelPendingRequests
<1>5. CASE AfterStop
  BY <1>5 DEF AfterStop
<1>6. CASE Finish
  BY <1>6 DEF Finish
<1>7. CASE \E i \in Ids : Stage(i) \/ Submit(i)
  BY <1>7 DEF Stage, Submit
<1>8. CASE SetModOperationInProgress \/ SetAutolaunch \/ SetUpdateInProgress \/ Updater
  BY <1>8 DEF SetModOperationInProgress, SetAutolaunch, SetUpdateInProgress, Updater,
       WaitFactQuit, WaitFactQuitTimeout, LockInstallation, InstallFails,
       MarkFactorioUpdated, ClearUpdateInProgress, UpdaterStep
<1>9. CASE \/ \E g \in Gens, r \in Reports : Notify(g, r)
           \/ \E g \in Gens : NotifySoftModDetected(g) \/ ProcessExits(g)
  BY <1>9 DEF Notify, NotifySoftModDetected, ProcessExits
<1>10. CASE Shutdown \/ Terminated
  BY <1>10 DEF Shutdown, Sigterm, StopLifecycleManager, DoExit, forceFactorioProcessExit,
       Terminated, vars
<1> QED BY <1>1, <1>2, <1>3, <1>4, <1>5, <1>6, <1>7, <1>8, <1>9, <1>10 DEF Next, Manager, Others

\* The manager's own variables.
LEMMA ManagerTypeStep ==
  ASSUME TypeOK, Next PROVE ManagerType'
<1> USE DEF TypeOK, ManagerType
<1>1. CASE DrainReady
  BY <1>1, ReadyType DEF DrainReady
<1>2. CASE DrainExit \/ reconcileProcessHealth
  BY <1>2, FinalizeType DEF DrainExit, reconcileProcessHealth, Labels
<1>3. CASE DrainHealth
  BY <1>3, HealthType DEF DrainHealth
<1>4. CASE checkStartupTimeout \/ checkSoftModAfterUpdate
  BY <1>4 DEF checkStartupTimeout, checkSoftModAfterUpdate, Internal, Labels
<1>5. CASE nextRequest
  BY <1>5, NextRequestType DEF nextRequest
<1>6. CASE executeStop
  BY <1>6 DEF executeStop, Phases, Labels
<1>7. CASE WaitGone \/ WaitExit
  BY <1>7, FinalizeType DEF WaitGone, WaitExit, Labels
<1>8. CASE WaitReady
  BY <1>8, ReadyType DEF WaitReady
<1>9. CASE WaitTimeout
  BY <1>9, StageTypes DEF WaitTimeout, Labels
<1>10. CASE AfterStop \/ GenNewMap
  BY <1>10 DEF AfterStop, GenNewMap, Labels
<1>11. CASE StartRefused
  BY <1>11 DEF StartRefused, Labels
<1>12. CASE executeStart
  <2>1. gen' \in 0 .. MaxGen
    BY <1>12, ConstantsOK DEF ConstantsOK, executeStart
  <2> QED BY <1>12, <2>1 DEF executeStart, Phases, Labels
<1>18. CASE LaunchFails
  BY <1>18 DEF LaunchFails, Phases, Labels
<1>19. CASE LaunchFactorio \/ RegisterProcess \/ ArmSoftMod
  BY <1>19 DEF LaunchFactorio, RegisterProcess, ArmSoftMod, Labels
<1>13. CASE Finish
  BY <1>13 DEF Finish, Labels
<1>20. CASE cancelPendingRequests
  BY <1>20 DEF cancelPendingRequests, Labels
<1>14. CASE ExitHook \/ (\E i \in Ids : Stage(i) \/ Submit(i))
  BY <1>14 DEF ExitHook, Stage, Submit
<1>15. CASE SetModOperationInProgress \/ SetAutolaunch \/ SetUpdateInProgress \/ Updater
  BY <1>15 DEF SetModOperationInProgress, SetAutolaunch, SetUpdateInProgress, Updater,
       WaitFactQuit, WaitFactQuitTimeout, LockInstallation, InstallFails,
       MarkFactorioUpdated, ClearUpdateInProgress, UpdaterStep
<1>16. CASE \/ \E g \in Gens, r \in Reports : Notify(g, r)
            \/ \E g \in Gens : NotifySoftModDetected(g) \/ ProcessExits(g)
  BY <1>16 DEF Notify, NotifySoftModDetected, ProcessExits
<1>17. CASE Shutdown \/ Terminated
  BY <1>17 DEF Shutdown, Sigterm, StopLifecycleManager, DoExit, forceFactorioProcessExit,
       Terminated, vars, Internal
<1> QED
  BY <1>1, <1>2, <1>3, <1>4, <1>5, <1>6, <1>7, <1>8, <1>9, <1>10, <1>11, <1>12, <1>13,
     <1>14, <1>15, <1>16, <1>17, <1>18, <1>19, <1>20
  DEF Next, Manager, Others

\* Processes, handles and report channels.
LEMMA ProcessTypeStep ==
  ASSUME TypeOK, Next PROVE ProcessType'
<1> USE DEF TypeOK, ProcessType
<1>1. CASE DrainReady \/ WaitReady
  <2>1. readyCh # <<>> /\ readyCh' = Tail(readyCh)
    BY <1>1 DEF DrainReady, WaitReady
  <2>2. readyCh' \in Seq(Gens)
    BY <2>1
  <2> QED BY <1>1, <2>2 DEF DrainReady, WaitReady
<1>2. CASE DrainExit \/ WaitExit
  <2>1. exitCh # <<>> /\ exitCh' = Tail(exitCh)
    BY <1>2 DEF DrainExit, WaitExit
  <2>2. exitCh' \in Seq(Gens)
    BY <2>1
  <2>3. cmd' \in 0 .. MaxGen
    BY <1>2, FinalizeType DEF DrainExit, WaitExit
  <2> QED BY <1>2, <2>2, <2>3 DEF DrainExit, WaitExit
<1>3. CASE DrainHealth
  BY <1>3, HealthType DEF DrainHealth
<1>4. CASE reconcileProcessHealth \/ WaitGone
  BY <1>4, FinalizeType DEF reconcileProcessHealth, WaitGone
<1>5. CASE \/ checkStartupTimeout \/ checkSoftModAfterUpdate \/ nextRequest
           \/ AfterStop \/ GenNewMap \/ Finish \/ ExitHook \/ cancelPendingRequests
  BY <1>5 DEF checkStartupTimeout, checkSoftModAfterUpdate, nextRequest, AfterStop,
       GenNewMap, Finish, ExitHook, cancelPendingRequests
<1>6. CASE executeStop \/ WaitTimeout
  BY <1>6 DEF executeStop, WaitTimeout, Waiting
<1>7. CASE StartRefused \/ executeStart \/ LaunchFails \/ ArmSoftMod
  BY <1>7 DEF StartRefused, executeStart, LaunchFails, ArmSoftMod
<1>8. CASE LaunchFactorio
  BY <1>8 DEF LaunchFactorio
<1>9. CASE RegisterProcess
  <2>1. todo' \in [Gens -> SUBSET Reports]
    BY <1>9 DEF RegisterProcess, Reports
  <2> QED BY <1>9, <2>1 DEF RegisterProcess, ManagerType
<1>10. CASE \E i \in Ids : Stage(i) \/ Submit(i)
  BY <1>10 DEF Stage, Submit
<1>11. ASSUME NEW g \in Gens, NEW r \in Reports, Notify(g, r) PROVE ProcessType'
  BY <1>11 DEF Notify, Send
<1>12. ASSUME NEW g \in Gens, NotifySoftModDetected(g) PROVE ProcessType'
  BY <1>12 DEF NotifySoftModDetected
<1>13. ASSUME NEW g \in Gens, ProcessExits(g) PROVE ProcessType'
  BY <1>13 DEF ProcessExits, Reports
<1>14. CASE SetModOperationInProgress \/ SetAutolaunch \/ SetUpdateInProgress \/ Updater
  BY <1>14 DEF SetModOperationInProgress, SetAutolaunch, SetUpdateInProgress, Updater,
       WaitFactQuit, WaitFactQuitTimeout, LockInstallation, InstallFails,
       MarkFactorioUpdated, ClearUpdateInProgress, UpdaterStep
<1>15. CASE Sigterm \/ StopLifecycleManager \/ DoExit \/ Terminated
  BY <1>15 DEF Sigterm, StopLifecycleManager, DoExit, Terminated, vars
<1>16. CASE forceFactorioProcessExit
  BY <1>16, StageTypes DEF forceFactorioProcessExit
<1> QED
  BY <1>1, <1>2, <1>3, <1>4, <1>5, <1>6, <1>7, <1>8, <1>9, <1>10, <1>11, <1>12, <1>13,
     <1>14, <1>15, <1>16
  DEF Next, Manager, Others, Shutdown

\* The state of the SoftMod recovery.
LEMMA SoftModTypeStep ==
  ASSUME TypeOK, Next PROVE SoftModType'
<1> USE DEF TypeOK, SoftModType
<1>1. CASE DrainExit \/ WaitExit \/ reconcileProcessHealth \/ WaitGone
  BY <1>1, FinalizeType DEF DrainExit, WaitExit, reconcileProcessHealth, WaitGone
<1>2. CASE DrainHealth
  BY <1>2, HealthType DEF DrainHealth
<1>3. CASE checkSoftModAfterUpdate
  <2>1. recoveries' \in Nat
    BY <1>3 DEF checkSoftModAfterUpdate
  <2> QED BY <1>3, <2>1 DEF checkSoftModAfterUpdate
<1>4. CASE executeStart
  BY <1>4 DEF executeStart
<1>5. CASE ArmSoftMod
  BY <1>5 DEF ArmSoftMod
<1>6. CASE \/ DrainReady \/ WaitReady \/ checkStartupTimeout \/ nextRequest \/ executeStop
           \/ WaitTimeout \/ AfterStop \/ GenNewMap
  BY <1>6 DEF DrainReady, WaitReady, checkStartupTimeout, nextRequest, executeStop,
       WaitTimeout, AfterStop, GenNewMap
<1>7. CASE \/ StartRefused \/ LaunchFails \/ LaunchFactorio \/ RegisterProcess \/ Finish
           \/ ExitHook \/ cancelPendingRequests
  BY <1>7 DEF StartRefused, LaunchFails, LaunchFactorio, RegisterProcess, Finish, ExitHook,
       cancelPendingRequests
<1>8. CASE \/ \E i \in Ids : Stage(i) \/ Submit(i)
           \/ \E g \in Gens, r \in Reports : Notify(g, r)
           \/ \E g \in Gens : NotifySoftModDetected(g) \/ ProcessExits(g)
  BY <1>8 DEF Stage, Submit, Notify, NotifySoftModDetected, ProcessExits
<1>9. CASE SetModOperationInProgress \/ SetAutolaunch \/ SetUpdateInProgress
  BY <1>9 DEF SetModOperationInProgress, SetAutolaunch, SetUpdateInProgress, UpdaterStep
<1>10. CASE Updater
  <2>1. \/ UNCHANGED <<updates, updatePending>>
        \/ updates' = updates + 1 /\ updatePending' = TRUE
    BY <1>10 DEF Updater, WaitFactQuit, WaitFactQuitTimeout, LockInstallation, InstallFails,
         MarkFactorioUpdated, ClearUpdateInProgress
  <2>2. UNCHANGED <<softModDetected, softModUpdateRecovery, recoveries>>
    BY <1>10 DEF Updater, WaitFactQuit, WaitFactQuitTimeout, LockInstallation, InstallFails,
         MarkFactorioUpdated, ClearUpdateInProgress, UpdaterStep
  <2>3. updates' \in Nat
    BY <2>1
  <2>4. updatePending' \in BOOLEAN
    BY <2>1
  <2> QED BY <2>2, <2>3, <2>4
<1>11. CASE Shutdown \/ Terminated
  BY <1>11 DEF Shutdown, Sigterm, StopLifecycleManager, DoExit, forceFactorioProcessExit,
       Terminated, vars
<1> QED
  BY <1>1, <1>2, <1>3, <1>4, <1>5, <1>6, <1>7, <1>8, <1>9, <1>10, <1>11
  DEF Next, Manager, Others

\* Flags, locks and the exit sequence.
LEMMA FlagTypeStep ==
  ASSUME TypeOK, Next PROVE FlagType'
<1> USE DEF TypeOK, FlagType
<1>1. CASE DrainReady \/ WaitReady
  BY <1>1, ReadyType DEF DrainReady, WaitReady
<1>2. CASE DrainExit \/ WaitExit \/ reconcileProcessHealth \/ WaitGone
  BY <1>2, FinalizeType DEF DrainExit, WaitExit, reconcileProcessHealth, WaitGone
<1>3. CASE DrainHealth
  BY <1>3, HealthType DEF DrainHealth
<1>4. CASE checkStartupTimeout
  BY <1>4 DEF checkStartupTimeout
<1>18. CASE checkSoftModAfterUpdate
  BY <1>18 DEF checkSoftModAfterUpdate
<1>5. CASE nextRequest
  BY <1>5, NextRequestType DEF nextRequest
<1>6. CASE executeStop \/ cancelPendingRequests \/ Finish
  BY <1>6 DEF executeStop, cancelPendingRequests, Finish
<1>7. CASE WaitTimeout
  BY <1>7 DEF WaitTimeout, ManagerType
<1>8. CASE AfterStop
  <2>1. autostart' \in BOOLEAN /\ lock' \in {"free", "manager", "updater"}
    BY <1>8 DEF AfterStop, ManagerType
  <2>2. UNCHANGED <<upd, modOp, crashLoop, exits>>
    BY <1>8 DEF AfterStop
  <2> QED BY <2>1, <2>2
<1>9. CASE GenNewMap \/ ExitHook
  BY <1>9 DEF GenNewMap, ExitHook, ManagerType
<1>10. CASE StartRefused \/ executeStart \/ LaunchFactorio \/ RegisterProcess
  BY <1>10 DEF StartRefused, executeStart, LaunchFactorio, RegisterProcess
<1>11. CASE LaunchFails
  BY <1>11 DEF LaunchFails
<1>12. CASE ArmSoftMod
  BY <1>12 DEF ArmSoftMod
<1>13. CASE \E i \in Ids : Stage(i) \/ Submit(i)
  BY <1>13 DEF Stage, Submit
<1>14. CASE \/ \E g \in Gens, r \in Reports : Notify(g, r)
            \/ \E g \in Gens : NotifySoftModDetected(g) \/ ProcessExits(g)
  BY <1>14 DEF Notify, NotifySoftModDetected, ProcessExits
<1>15. CASE SetModOperationInProgress \/ SetAutolaunch \/ SetUpdateInProgress
  BY <1>15 DEF SetModOperationInProgress, SetAutolaunch, SetUpdateInProgress,
       UpdaterStep, updater
<1>16. CASE Updater
  BY <1>16 DEF Updater, WaitFactQuit, WaitFactQuitTimeout, LockInstallation, InstallFails,
       MarkFactorioUpdated, ClearUpdateInProgress, UpdaterStep
<1>17. CASE Sigterm \/ StopLifecycleManager \/ DoExit \/ Terminated
  BY <1>17 DEF Sigterm, StopLifecycleManager, DoExit, Terminated, vars
<1>19. CASE forceFactorioProcessExit
  BY <1>19, StageTypes DEF forceFactorioProcessExit
<1> QED
  BY <1>1, <1>2, <1>3, <1>4, <1>5, <1>6, <1>7, <1>8, <1>9, <1>10, <1>11, <1>12, <1>13,
     <1>14, <1>15, <1>16, <1>17, <1>18, <1>19
  DEF Next, Manager, Others, Shutdown

\* Every variable stays in the set the code's types give it: Spec => []TypeOK.
THEOREM TypeCorrect == Spec => []TypeOK
<1>1. Init => TypeOK
  <2> SUFFICES ASSUME Init PROVE TypeOK
    OBVIOUS
  <2>1. ManagerType
    <3>1. gen \in 0 .. MaxGen
      BY ConstantsOK DEF ConstantsOK, Init
    <3>2. queue \in Seq(Ids \cup Internal)
      BY DEF Init
    <3> QED BY <3>1, <3>2 DEF Init, ManagerType, Phases, Labels
  <2>2. ProcessType
    BY ConstantsOK DEF ConstantsOK, Init, ProcessType
  <2>3. ClientType
    BY DEF Init, ClientType
  <2>4. SoftModType
    BY DEF Init, SoftModType
  <2>5. FlagType
    <3>1. crashLoop \in 0 .. MaxCrashes
      BY DEF Init, MaxCrashes
    <3> QED BY <3>1 DEF Init, FlagType
  <2> QED BY <2>1, <2>2, <2>3, <2>4, <2>5 DEF TypeOK
<1>2. TypeOK /\ [Next]_vars => TypeOK'
  <2>1. CASE Next
    BY <2>1, ManagerTypeStep, ProcessTypeStep, ClientTypeStep, SoftModTypeStep, FlagTypeStep
    DEF TypeOK
  <2>2. CASE UNCHANGED vars
    BY <2>2 DEF vars, TypeOK, ManagerType, ProcessType, ClientType, SoftModType, FlagType
  <2> QED BY <2>1, <2>2
<1> QED BY <1>1, <1>2, PTL DEF Spec
-----------------------------------------------------------------------------
(* One process, its handle and the phase *)

\* The end of a process, however it was learnt, is recorded only when no process
\* of the current generation is left.
LEMMA FinalizeProcess ==
  ASSUME TypeOK, NEW g, finalizeStopped(g)
  PROVE  /\ gen' = gen
         /\ \/ phase' = "stopped" /\ cmd' = 0 /\ g = gen
            \/ UNCHANGED <<phase, cmd>>
BY DEF finalizeStopped

\* Outside of a launch, a handle without a live process means no process at all.
LEMMA GoneMeansNone ==
  ASSUME TypeOK, ProcessInv, ~processAlive, pc # "register", NEW g \in Gens
  PROVE  proc[g] # "alive"
BY DEF ProcessInv, processAlive, Gens, TypeOK, ManagerType, ProcessType

\* Recording the end of a process preserves the invariant.
LEMMA ClosePreserves ==
  ASSUME TypeOK, ProcessInv, pc \notin {"spawn", "register"}, pc' \notin {"spawn", "register"},
         gen' = gen, UNCHANGED <<proc, todo>>,
         \/ phase' = "stopped" /\ cmd' = 0 /\ (\A g \in Gens : proc[g] # "alive")
         \/ UNCHANGED <<phase, cmd>>,
         \A k \in DOMAIN exitCh' : proc[exitCh'[k]] = "dead"
  PROVE  ProcessInv'
BY DEF ProcessInv, Born

\* Every action preserves ProcessInv.
LEMMA ProcessInvStep ==
  ASSUME TypeOK, ProcessInv, Next PROVE ProcessInv'
<1> USE DEF TypeOK
<1>1. CASE DrainReady \/ WaitReady
  <2>1. \/ phase = "starting" /\ phase' = "running"
        \/ phase' = phase
    BY <1>1 DEF DrainReady, WaitReady, handleReadyEvent
  <2>2. UNCHANGED <<gen, cmd, proc, todo, exitCh, pc>> /\ pc \notin {"spawn", "register"}
    BY <1>1 DEF DrainReady, WaitReady, handleReadyEvent, Waiting
  <2> QED BY <2>1, <2>2 DEF ProcessInv, Born
<1>2. CASE DrainExit \/ WaitExit
  <2>1. /\ exitCh # <<>> /\ exitCh' = Tail(exitCh)
        /\ finalizeStopped(Head(exitCh))
        /\ pc \notin {"spawn", "register"} /\ pc' \notin {"spawn", "register"}
        /\ UNCHANGED <<proc, todo>>
    BY <1>2 DEF DrainExit, WaitExit, Waiting
  <2>2. proc[Head(exitCh)] = "dead" /\ \A k \in DOMAIN exitCh' : proc[exitCh'[k]] = "dead"
    BY <2>1 DEF ProcessInv, ProcessType
  <2>3. Head(exitCh) = gen => \A g \in Gens : proc[g] # "alive"
    BY <2>2 DEF ProcessInv
  <2> QED BY <2>1, <2>2, <2>3, FinalizeProcess, ClosePreserves
<1>3. CASE DrainHealth
  <2>1. UNCHANGED <<proc, todo, exitCh, pc>> /\ pc \notin {"spawn", "register"}
    BY <1>3 DEF DrainHealth
  <2>2. CASE UNCHANGED <<phase, gen, cmd>>
    BY <2>1, <2>2 DEF ProcessInv, Born
  <2>3. CASE ~processAlive /\ finalizeStopped(Head(healthCh))
    BY <2>1, <2>3, GoneMeansNone, FinalizeProcess, ClosePreserves DEF ProcessInv
  <2> QED BY <1>3, <2>2, <2>3 DEF DrainHealth, handleHealthEvent
<1>4. CASE reconcileProcessHealth
  <2>1. UNCHANGED <<proc, todo, exitCh>> /\ pc = "top" /\ pc' = "checks"
    BY <1>4 DEF reconcileProcessHealth
  <2>2. CASE UNCHANGED <<phase, gen, cmd>>
    BY <2>1, <2>2 DEF ProcessInv, Born
  <2>3. CASE ~processAlive /\ finalizeStopped(gen)
    BY <2>1, <2>3, GoneMeansNone, FinalizeProcess, ClosePreserves DEF ProcessInv
  <2> QED BY <1>4, <2>2, <2>3 DEF reconcileProcessHealth
<1>5. CASE WaitGone
  <2>1. /\ UNCHANGED <<proc, todo, exitCh>> /\ ~processAlive /\ finalizeStopped(gen)
        /\ pc \notin {"spawn", "register"} /\ pc' \notin {"spawn", "register"}
    BY <1>5 DEF WaitGone, Waiting
  <2> QED BY <2>1, GoneMeansNone, FinalizeProcess, ClosePreserves DEF ProcessInv
<1>6. CASE \/ checkStartupTimeout \/ checkSoftModAfterUpdate \/ nextRequest \/ WaitTimeout
           \/ AfterStop \/ GenNewMap \/ StartRefused \/ ArmSoftMod \/ Finish
           \/ cancelPendingRequests
  <2>1. UNCHANGED <<phase, gen, cmd, proc, todo, exitCh>>
    BY <1>6 DEF checkStartupTimeout, checkSoftModAfterUpdate, nextRequest, WaitTimeout,
         AfterStop, GenNewMap, StartRefused, ArmSoftMod, Finish, cancelPendingRequests
  <2>2. pc \notin {"spawn", "register"} /\ pc' \notin {"spawn", "register"}
    BY <1>6, StageTypes DEF checkStartupTimeout, checkSoftModAfterUpdate, nextRequest, Begin, WaitTimeout,
         Waiting, AfterStop, GenNewMap, StartRefused, ArmSoftMod, Finish, cancelPendingRequests
  <2> QED BY <2>1, <2>2 DEF ProcessInv, Born
<1>7. CASE executeStop
  <2>1. /\ UNCHANGED <<gen, cmd, proc, todo, exitCh>>
        /\ pc = "stop" /\ pc' \in {"stopped", "wait1"}
        /\ phase' = phase \/ (phase # "stopped" /\ phase' = "stopping")
    BY <1>7 DEF executeStop
  <2> QED BY <2>1 DEF ProcessInv, Born
<1>8. CASE executeStart
  <2>1. /\ phase = "stopped" /\ phase' = "starting" /\ pc' = "spawn" /\ gen < MaxGen
        /\ gen' = gen + 1 /\ UNCHANGED <<cmd, proc, todo, exitCh>>
    BY <1>8 DEF executeStart, mayStart
  <2>2. gen' \in Gens /\ proc[gen'] = "none"
    BY <2>1, ConstantsOK DEF ConstantsOK, ProcessInv, ManagerType, Gens
  <2>3. \A g \in Gens : proc[g] # "alive"
    BY <2>1 DEF ProcessInv
  <2>4. \A g \in Gens : g > gen' => proc[g] = "none"
    BY <2>1 DEF ProcessInv, ManagerType, Gens
  <2> QED BY <2>1, <2>2, <2>3, <2>4 DEF ProcessInv
<1>9. CASE LaunchFails
  <2>1. /\ pc = "spawn" /\ pc' = "finish" /\ phase' = "stopped"
        /\ UNCHANGED <<gen, cmd, proc, todo, exitCh>>
    BY <1>9 DEF LaunchFails
  <2>2. \A g \in Gens : proc[g] # "alive"
    BY <2>1 DEF ProcessInv
  <2> QED BY <2>1, <2>2 DEF ProcessInv
<1>10. CASE LaunchFactorio
  <2>1. /\ pc = "spawn" /\ pc' = "register" /\ proc' = [proc EXCEPT ![gen] = "alive"]
        /\ UNCHANGED <<phase, gen, cmd, todo, exitCh>>
    BY <1>10 DEF LaunchFactorio
  <2>2. gen \in Gens /\ proc[gen] = "none" /\ phase = "starting" /\ cmd = 0
    BY <2>1 DEF ProcessInv
  <2>3. proc'[gen] = "alive" /\ \A g \in Gens : g # gen => proc'[g] = proc[g]
    BY <2>1, <2>2 DEF ProcessType
  <2>4. \A k \in DOMAIN exitCh : exitCh[k] \in Gens /\ exitCh[k] # gen
    BY <2>2 DEF ProcessInv, ProcessType
  <2> QED BY <2>1, <2>2, <2>3, <2>4 DEF ProcessInv, Born, Gens
<1>11. CASE RegisterProcess
  <2>1. /\ pc = "register" /\ pc' = "arm" /\ cmd' = gen
        /\ UNCHANGED <<phase, gen, proc, exitCh>>
    BY <1>11 DEF RegisterProcess
  <2>2. \A g \in Gens : "exit" \in todo'[g] => "exit" \in todo[g]
    BY <1>11 DEF RegisterProcess, ProcessType
  <2> QED BY <2>1, <2>2 DEF ProcessInv, Born
<1>12. CASE \/ ExitHook \/ SetModOperationInProgress \/ SetAutolaunch \/ SetUpdateInProgress
            \/ Updater \/ Shutdown \/ Terminated
            \/ (\E i \in Ids : Stage(i) \/ Submit(i))
  <2>1. UNCHANGED <<phase, gen, cmd, proc, todo, exitCh, pc>>
    BY <1>12 DEF ExitHook, SetModOperationInProgress, SetAutolaunch, SetUpdateInProgress,
         Updater, WaitFactQuit, WaitFactQuitTimeout, LockInstallation, InstallFails,
         MarkFactorioUpdated, ClearUpdateInProgress, UpdaterStep, Shutdown, Sigterm,
         StopLifecycleManager, DoExit, forceFactorioProcessExit, Terminated, vars,
         Stage, Submit
  <2> QED BY <2>1 DEF ProcessInv, Born
<1>13. ASSUME NEW g \in Gens, ProcessExits(g) PROVE ProcessInv'
  <2>1. /\ proc' = [proc EXCEPT ![g] = "dead"] /\ todo' = [todo EXCEPT ![g] = @ \cup {"exit"}]
        /\ proc[g] = "alive" /\ UNCHANGED <<phase, gen, cmd, exitCh, pc>>
    BY <1>13 DEF ProcessExits
  <2>2. proc'[g] = "dead" /\ \A h \in Gens : h # g => proc'[h] = proc[h] /\ todo'[h] = todo[h]
    BY <2>1 DEF ProcessType
  <2>3. \A k \in DOMAIN exitCh : exitCh[k] \in Gens /\ proc'[exitCh[k]] = "dead"
    BY <2>2 DEF ProcessInv, ProcessType
  <2> QED BY <2>1, <2>2, <2>3 DEF ProcessInv, Born
<1>14. ASSUME NEW g \in Gens, NEW r \in Reports, Notify(g, r) PROVE ProcessInv'
  <2>1. /\ r \in todo[g] /\ todo' = [todo EXCEPT ![g] = @ \ {r}]
        /\ exitCh' = exitCh \/ (r = "exit" /\ exitCh' = Append(exitCh, g))
        /\ UNCHANGED <<phase, gen, cmd, proc, pc>>
    BY <1>14 DEF Notify, Send
  <2>2. \A h \in Gens : "exit" \in todo'[h] => "exit" \in todo[h]
    BY <2>1 DEF ProcessType
  <2>3. \A k \in DOMAIN exitCh' : proc[exitCh'[k]] = "dead"
    <3>1. CASE exitCh' = exitCh
      BY <3>1 DEF ProcessInv
    <3>2. CASE r = "exit" /\ exitCh' = Append(exitCh, g)
      <4>1. proc[g] = "dead"
        BY <2>1, <3>2 DEF ProcessInv
      <4>2. \A k \in DOMAIN exitCh' : exitCh'[k] = g \/ (k \in DOMAIN exitCh /\ exitCh'[k] = exitCh[k])
        BY <3>2 DEF ProcessType
      <4> QED BY <4>1, <4>2 DEF ProcessInv
    <3> QED BY <2>1, <3>1, <3>2
  <2> QED BY <2>1, <2>2, <2>3 DEF ProcessInv, Born
<1>15. ASSUME NEW g \in Gens, NotifySoftModDetected(g) PROVE ProcessInv'
  <2>1. /\ todo' = [todo EXCEPT ![g] = @ \ {"hello"}]
        /\ UNCHANGED <<phase, gen, cmd, proc, exitCh, pc>>
    BY <1>15 DEF NotifySoftModDetected
  <2>2. \A h \in Gens : "exit" \in todo'[h] => "exit" \in todo[h]
    BY <2>1 DEF ProcessType
  <2> QED BY <2>1, <2>2 DEF ProcessInv, Born
<1> QED
  BY <1>1, <1>2, <1>3, <1>4, <1>5, <1>6, <1>7, <1>8, <1>9, <1>10, <1>11, <1>12, <1>13,
     <1>14, <1>15
  DEF Next, Manager, Others

\* ProcessInv is an invariant.
LEMMA ProcessInvariant == Spec => []ProcessInv
<1>1. Init => ProcessInv
  BY DEF Init, ProcessInv
<1>2. TypeOK /\ ProcessInv /\ [Next]_vars => ProcessInv'
  <2>1. CASE Next
    BY <2>1, ProcessInvStep
  <2>2. CASE UNCHANGED vars
    BY <2>2 DEF vars, ProcessInv, Born
  <2> QED BY <2>1, <2>2
<1> QED BY <1>1, <1>2, TypeCorrect, PTL DEF Spec

\* executeStop keeps handle and phase when a stop times out, and every stale report
\* is refused by its generation: at most one Factorio process runs, and it is the
\* one of the current generation.
THEOREM OneProcess == Spec => []SingleProcess
<1>1. ProcessInv => SingleProcess
  BY DEF ProcessInv, SingleProcess, Alive
<1> QED BY <1>1, ProcessInvariant, PTL

\* A reported phase "stopped" (GetLifecycleState with a manager) means that no
\* Factorio process is left, whatever reports were lost, late or stale.
THEOREM StoppedIsGone == Spec => []StoppedMeansGone
<1>1. ProcessInv => StoppedMeansGone
  BY DEF ProcessInv, StoppedMeansGone, Alive
<1> QED BY <1>1, ProcessInvariant, PTL

\* glob.FactorioCmd is never cleared or overwritten while its process lives, so a
\* live process can always be signalled.
THEOREM HandleNeverLost == Spec => []HandleKept
<1>1. ProcessInv => HandleKept
  BY DEF ProcessInv, HandleKept, Alive
<1> QED BY <1>1, ProcessInvariant, PTL

\* There is one process, its handle is held, and "stopped" means that it is gone.
THEOREM ProcessAlwaysKnown == Spec => []ProcessKnown
<1>1. SingleProcess /\ StoppedMeansGone /\ HandleKept => ProcessKnown
  BY DEF ProcessKnown
<1> QED BY OneProcess, StoppedIsGone, HandleNeverLost, <1>1, PTL

-----------------------------------------------------------------------------
(* The updater *)

\* Every action preserves InstallInv.
LEMMA InstallInvStep ==
  ASSUME TypeOK, ProcessInv, InstallInv, Next PROVE InstallInv'
<1> USE DEF TypeOK, InstallInv
<1>1. CASE DrainReady \/ WaitReady
  BY <1>1 DEF DrainReady, WaitReady, handleReadyEvent, Waiting
<1>2. CASE DrainExit \/ WaitExit \/ DrainHealth \/ reconcileProcessHealth \/ WaitGone
  <2>1. phase' = phase \/ phase' = "stopped"
    BY <1>2, FinalizeProcess DEF DrainExit, WaitExit, DrainHealth, handleHealthEvent,
         reconcileProcessHealth, WaitGone
  <2>2. pc # "generate" /\ pc' # "generate" /\ UNCHANGED <<lock, upd, main>>
    BY <1>2 DEF DrainExit, WaitExit, DrainHealth, reconcileProcessHealth, WaitGone, Waiting
  <2> QED BY <2>1, <2>2
<1>3. CASE \/ checkStartupTimeout \/ checkSoftModAfterUpdate \/ nextRequest \/ WaitTimeout
           \/ StartRefused \/ LaunchFails \/ LaunchFactorio \/ RegisterProcess
           \/ ArmSoftMod \/ Finish \/ cancelPendingRequests
  <2>1. phase' = phase \/ phase' = "stopped"
    BY <1>3 DEF checkStartupTimeout, checkSoftModAfterUpdate, nextRequest, WaitTimeout,
         StartRefused, LaunchFails, LaunchFactorio, RegisterProcess, ArmSoftMod, Finish,
         cancelPendingRequests
  <2>2. pc # "generate" /\ pc' # "generate" /\ UNCHANGED <<lock, upd, main>>
    BY <1>3, StageTypes DEF checkStartupTimeout, checkSoftModAfterUpdate, nextRequest, Begin,
         WaitTimeout, Waiting, StartRefused, LaunchFails, LaunchFactorio, RegisterProcess,
         ArmSoftMod, Finish, cancelPendingRequests
  <2> QED BY <2>1, <2>2
<1>4. CASE executeStop
  BY <1>4 DEF executeStop
<1>5. CASE AfterStop \/ GenNewMap
  BY <1>5 DEF AfterStop, GenNewMap
<1>6. CASE executeStart
  BY <1>6 DEF executeStart, mayStart, updating
<1>7. CASE SetUpdateInProgress \/ Updater
  BY <1>7 DEF SetUpdateInProgress, Updater, WaitFactQuit, WaitFactQuitTimeout,
       LockInstallation, InstallFails, MarkFactorioUpdated, ClearUpdateInProgress, UpdaterStep
<1>8. CASE ExitHook \/ Shutdown \/ Terminated
  BY <1>8 DEF ExitHook, Shutdown, Sigterm, StopLifecycleManager, DoExit,
       forceFactorioProcessExit, Terminated, vars
<1>9. CASE \/ SetModOperationInProgress \/ SetAutolaunch
           \/ (\E i \in Ids : Stage(i) \/ Submit(i))
           \/ (\E g \in Gens, r \in Reports : Notify(g, r))
           \/ (\E g \in Gens : NotifySoftModDetected(g) \/ ProcessExits(g))
  BY <1>9 DEF SetModOperationInProgress, SetAutolaunch, updater, Stage, Submit, Notify,
       NotifySoftModDetected, ProcessExits
<1> QED
  BY <1>1, <1>2, <1>3, <1>4, <1>5, <1>6, <1>7, <1>8, <1>9 DEF Next, Manager, Others

\* fullPackage sets the flag, reads the phase and takes FactorioLock in three
\* separate steps: as long as there is a manager, no Factorio process runs or is
\* launched and no map is generated while it replaces the installation.
THEOREM InstallIsExclusive == Spec => []InstallExclusive
<1>1. Init => InstallInv
  BY DEF Init, InstallInv
<1>2. TypeOK /\ ProcessInv /\ InstallInv /\ [Next]_vars => InstallInv'
  <2>1. CASE Next
    BY <2>1, InstallInvStep
  <2>2. CASE UNCHANGED vars
    BY <2>2 DEF vars, InstallInv
  <2> QED BY <2>1, <2>2
<1>3. ProcessInv /\ InstallInv => InstallExclusive
  BY DEF ProcessInv, InstallInv, InstallExclusive, Alive
<1> QED BY <1>1, <1>2, <1>3, TypeCorrect, ProcessInvariant, PTL DEF Spec

\* finalizeStopped carries an armed recovery over, and never adds one.
LEMMA FinalizeRecovery ==
  ASSUME TypeOK, RecoveryInv, NEW g, finalizeStopped(g), UNCHANGED counts
  PROVE  RecoveryInv'
BY DEF finalizeStopped, RecoveryInv, TypeOK, SoftModType

\* Every action preserves RecoveryInv.
LEMMA RecoveryInvStep ==
  ASSUME TypeOK, RecoveryInv, Next PROVE RecoveryInv'
<1> USE DEF TypeOK, SoftModType
<1>1. CASE DrainExit \/ WaitExit \/ reconcileProcessHealth \/ WaitGone
  <2>1. UNCHANGED counts /\ ((\E g : finalizeStopped(g)) \/ UNCHANGED soft)
    BY <1>1 DEF DrainExit, WaitExit, reconcileProcessHealth, WaitGone
  <2> QED BY <2>1, FinalizeRecovery DEF RecoveryInv
<1>2. CASE DrainHealth
  <2>1. UNCHANGED counts /\ (finalizeStopped(Head(healthCh)) \/ UNCHANGED soft)
    BY <1>2 DEF DrainHealth, handleHealthEvent
  <2> QED BY <2>1, FinalizeRecovery DEF RecoveryInv
<1>3. CASE checkSoftModAfterUpdate
  BY <1>3 DEF checkSoftModAfterUpdate, RecoveryInv
<1>4. CASE executeStart
  BY <1>4 DEF executeStart, RecoveryInv
<1>5. CASE ArmSoftMod
  BY <1>5 DEF ArmSoftMod, RecoveryInv
<1>6. CASE \E g \in Gens : NotifySoftModDetected(g)
  BY <1>6 DEF NotifySoftModDetected, RecoveryInv
<1>7. CASE MarkFactorioUpdated
  BY <1>7 DEF MarkFactorioUpdated, UpdaterStep, RecoveryInv
<1>8. CASE \/ SetUpdateInProgress \/ WaitFactQuit \/ WaitFactQuitTimeout
           \/ LockInstallation \/ InstallFails \/ ClearUpdateInProgress
  BY <1>8 DEF SetUpdateInProgress, WaitFactQuit, WaitFactQuitTimeout, LockInstallation,
       InstallFails, ClearUpdateInProgress, UpdaterStep, RecoveryInv
<1>9. CASE \/ DrainReady \/ WaitReady \/ checkStartupTimeout \/ nextRequest \/ executeStop
           \/ WaitTimeout \/ AfterStop \/ GenNewMap
           \/ StartRefused \/ LaunchFails \/ LaunchFactorio \/ RegisterProcess \/ Finish
           \/ ExitHook \/ cancelPendingRequests
  <2>1. UNCHANGED <<soft, counts>>
    BY <1>9 DEF DrainReady, WaitReady, checkStartupTimeout, nextRequest, executeStop,
         WaitTimeout, AfterStop, GenNewMap, StartRefused, LaunchFails, LaunchFactorio,
         RegisterProcess, Finish, ExitHook, cancelPendingRequests
  <2> QED BY <2>1 DEF RecoveryInv
<1>10. CASE \/ SetModOperationInProgress \/ SetAutolaunch \/ Shutdown \/ Terminated
            \/ (\E i \in Ids : Stage(i) \/ Submit(i))
            \/ (\E g \in Gens, r \in Reports : Notify(g, r))
            \/ (\E g \in Gens : ProcessExits(g))
  <2>1. UNCHANGED <<soft, counts>>
    BY <1>10 DEF SetModOperationInProgress, SetAutolaunch, Shutdown, Sigterm,
         StopLifecycleManager, DoExit, forceFactorioProcessExit, Terminated, vars, Stage,
         Submit, Notify, ProcessExits
  <2> QED BY <2>1 DEF RecoveryInv
<1> QED
  BY <1>1, <1>2, <1>3, <1>4, <1>5, <1>6, <1>7, <1>8, <1>9, <1>10
  DEF Next, Manager, Others, Updater

\* The recovery restart after an update that lost the SoftMod "does not repeat":
\* interrupted boots carry the check over, and still every installed update causes
\* at most one recovery restart.
THEOREM RecoveryDoesNotRepeat == Spec => []SoftModRecoveryBounded
<1>1. Init => RecoveryInv
  BY DEF Init, RecoveryInv
<1>2. TypeOK /\ RecoveryInv /\ [Next]_vars => RecoveryInv'
  <2>1. CASE Next
    BY <2>1, RecoveryInvStep
  <2>2. CASE UNCHANGED vars
    BY <2>2 DEF vars, RecoveryInv
  <2> QED BY <2>1, <2>2
<1>3. TypeOK /\ RecoveryInv => SoftModRecoveryBounded
  BY DEF TypeOK, SoftModType, RecoveryInv, SoftModRecoveryBounded
<1> QED BY <1>1, <1>2, <1>3, TypeCorrect, PTL DEF Spec

-----------------------------------------------------------------------------
(* Readiness *)

\* Every action preserves ReadyInv.
LEMMA ReadyInvStep ==
  ASSUME TypeOK, ProcessInv, ReadyInv, Next PROVE ReadyInv'
<1> USE DEF TypeOK
<1>0. phase = "running" => gen \in Gens
  BY DEF ProcessInv, Born
<1>1. CASE DrainReady \/ WaitReady
  <2>1. /\ readyCh # <<>> /\ readyCh' = Tail(readyCh) /\ readyCh \in Seq(Gens)
        /\ UNCHANGED <<gen, todo, pc>>
        /\ phase' = phase \/ (phase' = "running" /\ Head(readyCh) = gen)
    BY <1>1 DEF DrainReady, WaitReady, handleReadyEvent, ProcessType
  <2>2. 1 \in DOMAIN readyCh /\ Head(readyCh) = readyCh[1]
    BY <2>1
  <2>3. \A k \in DOMAIN readyCh' : k + 1 \in DOMAIN readyCh /\ readyCh'[k] = readyCh[k + 1]
    BY <2>1
  <2> QED BY <2>1, <2>2, <2>3 DEF ReadyInv, ReadyIsOwn
<1>2. CASE \/ DrainExit \/ WaitExit \/ DrainHealth \/ reconcileProcessHealth \/ WaitGone
           \/ executeStop \/ LaunchFails
  <2>1. /\ UNCHANGED <<readyCh, todo, gen>> /\ pc' \notin {"spawn", "register"}
        /\ phase' = phase \/ phase' \in {"stopped", "stopping"}
    BY <1>2, FinalizeProcess DEF DrainExit, WaitExit, DrainHealth, handleHealthEvent,
         reconcileProcessHealth, WaitGone, executeStop, LaunchFails, Waiting
  <2> QED BY <2>1 DEF ReadyInv, ReadyIsOwn
<1>3. CASE \/ checkStartupTimeout \/ checkSoftModAfterUpdate \/ nextRequest \/ WaitTimeout
           \/ AfterStop \/ GenNewMap \/ StartRefused \/ ArmSoftMod \/ Finish
           \/ cancelPendingRequests \/ LaunchFactorio
  <2>1. UNCHANGED <<phase, readyCh, todo, gen>>
    BY <1>3 DEF checkStartupTimeout, checkSoftModAfterUpdate, nextRequest, WaitTimeout,
         AfterStop, GenNewMap, StartRefused, ArmSoftMod, Finish, cancelPendingRequests,
         LaunchFactorio
  <2>2. pc' \in {"spawn", "register"} => pc = "spawn"
    BY <1>3, StageTypes DEF checkStartupTimeout, checkSoftModAfterUpdate, nextRequest, Begin,
         WaitTimeout, AfterStop, GenNewMap, StartRefused, ArmSoftMod, Finish,
         cancelPendingRequests, LaunchFactorio
  <2> QED BY <2>1, <2>2 DEF ReadyInv, ReadyIsOwn
<1>4. CASE executeStart
  <2>1. /\ phase' = "starting" /\ gen' = gen + 1 /\ gen \in Nat /\ UNCHANGED <<readyCh, todo>>
    BY <1>4, ConstantsOK DEF executeStart, ManagerType, ConstantsOK
  <2>2. \A n \in Gens : n \in Nat
    BY ConstantsOK DEF Gens
  <2>3. \A k \in DOMAIN readyCh : readyCh[k] \in Gens
    BY DEF ProcessType
  <2> QED BY <2>1, <2>2, <2>3 DEF ReadyInv, ReadyIsOwn
<1>5. CASE RegisterProcess
  <2>1. /\ pc = "register" /\ pc' = "arm" /\ phase = "starting" /\ gen \in Gens /\ gen \in Nat
        /\ UNCHANGED <<phase, readyCh, gen>>
    BY <1>5, ConstantsOK DEF RegisterProcess, ProcessInv, Born, Gens
  <2>2. \A g \in Gens : g # gen => todo'[g] = todo[g]
    BY <1>5 DEF RegisterProcess, ProcessType
  <2>3. \A k \in DOMAIN readyCh : readyCh[k] \in Gens /\ readyCh[k] # gen
    BY <2>1 DEF ReadyInv, ProcessType
  <2> QED BY <2>1, <2>2, <2>3 DEF ReadyInv, ReadyIsOwn
<1>6. ASSUME NEW g \in Gens, NEW r \in Reports, Notify(g, r) PROVE ReadyInv'
  <2>1. /\ r \in todo[g] /\ todo' = [todo EXCEPT ![g] = @ \ {r}]
        /\ readyCh' = readyCh \/ (r = "ready" /\ readyCh' = Append(readyCh, g))
        /\ UNCHANGED <<phase, gen, pc>>
    BY <1>6 DEF Notify, Send
  <2>2. /\ \A h \in Gens : "ready" \in todo'[h] => "ready" \in todo[h]
        /\ r = "ready" => "ready" \notin todo'[g]
    BY <2>1 DEF ProcessType
  <2>3. \A k \in DOMAIN readyCh' :
          \/ k \in DOMAIN readyCh /\ readyCh'[k] = readyCh[k] /\ readyCh[k] \in Gens
          \/ r = "ready" /\ readyCh'[k] = g
    <3>1. readyCh \in Seq(Gens)
      BY DEF ProcessType
    <3>2. CASE readyCh' = readyCh
      BY <3>1, <3>2
    <3>3. CASE r = "ready" /\ readyCh' = Append(readyCh, g)
      BY <3>1, <3>3
    <3> QED BY <2>1, <3>2, <3>3
  <2>4. \A k \in DOMAIN readyCh' :
          /\ "ready" \notin todo'[readyCh'[k]] /\ readyCh'[k] <= gen
          /\ pc \in {"spawn", "register"} => readyCh'[k] # gen
    BY <2>1, <2>2, <2>3 DEF ReadyInv
  <2> QED BY <1>0, <2>1, <2>2, <2>4 DEF ReadyInv, ReadyIsOwn
<1>7. CASE \E g \in Gens : NotifySoftModDetected(g) \/ ProcessExits(g)
  <2>1. PICK g \in Gens : NotifySoftModDetected(g) \/ ProcessExits(g)
    BY <1>7
  <2>2. /\ \A h \in Gens : "ready" \in todo'[h] => "ready" \in todo[h]
        /\ UNCHANGED <<phase, gen, pc, readyCh>>
    BY <2>1 DEF NotifySoftModDetected, ProcessExits, ProcessType
  <2>3. \A k \in DOMAIN readyCh : readyCh[k] \in Gens
    BY DEF ProcessType
  <2> QED BY <1>0, <2>2, <2>3 DEF ReadyInv, ReadyIsOwn
<1>8. CASE \/ ExitHook \/ SetModOperationInProgress \/ SetAutolaunch \/ SetUpdateInProgress
           \/ Updater \/ Shutdown \/ Terminated
           \/ (\E i \in Ids : Stage(i) \/ Submit(i))
  <2>1. UNCHANGED <<phase, gen, readyCh, todo, pc>>
    BY <1>8 DEF ExitHook, SetModOperationInProgress, SetAutolaunch, SetUpdateInProgress,
         Updater, WaitFactQuit, WaitFactQuitTimeout, LockInstallation, InstallFails,
         MarkFactorioUpdated, ClearUpdateInProgress, UpdaterStep, Shutdown, Sigterm,
         StopLifecycleManager, DoExit, forceFactorioProcessExit, Terminated, vars,
         Stage, Submit
  <2> QED BY <2>1 DEF ReadyInv, ReadyIsOwn
<1> QED
  BY <1>1, <1>2, <1>3, <1>4, <1>5, <1>6, <1>7, <1>8 DEF Next, Manager, Others

\* The server is "running" only when its own process has reported: a ready line that an
\* old process printed, and that arrives late or was left in the channel, is refused by
\* its generation (handleReadyEvent).
THEOREM ReadyIsItsOwn == Spec => []ReadyIsOwn
<1>1. Init => ReadyInv
  BY DEF Init, ReadyInv, ReadyIsOwn
<1>2. TypeOK /\ ProcessInv /\ ReadyInv /\ [Next]_vars => ReadyInv'
  <2>1. CASE Next
    BY <2>1, ReadyInvStep
  <2>2. CASE UNCHANGED vars
    BY <2>2 DEF vars, ReadyInv, ReadyIsOwn
  <2> QED BY <2>1, <2>2
<1>3. ReadyInv => ReadyIsOwn
  BY DEF ReadyInv
<1> QED BY <1>1, <1>2, <1>3, TypeCorrect, ProcessInvariant, PTL DEF Spec

-----------------------------------------------------------------------------
(* The exit of ChatWire *)

\* Every action preserves ExitInv.
LEMMA ExitInvStep ==
  ASSUME TypeOK, ProcessInv, ExitInv, Next PROVE ExitInv'
<1> USE DEF TypeOK, Alive
<1>1. CASE DrainExit \/ WaitExit \/ DrainHealth \/ reconcileProcessHealth \/ WaitGone
  <2>1. /\ pc \notin {"exit", "done", "stopped", "generate"} /\ pc' \notin {"exit", "generate"}
        /\ UNCHANGED <<halt, proc, sig>>
    BY <1>1 DEF DrainExit, WaitExit, DrainHealth, reconcileProcessHealth, WaitGone, Waiting
  <2>2. pc' = "stopped" => phase' = "stopped"
    BY <1>1 DEF DrainExit, WaitExit, DrainHealth, reconcileProcessHealth, WaitGone, Waiting,
         finalizeStopped
  <2> QED BY <2>1, <2>2 DEF ExitInv
<1>2. CASE \/ DrainReady \/ WaitReady \/ checkStartupTimeout \/ checkSoftModAfterUpdate
           \/ nextRequest \/ WaitTimeout \/ StartRefused \/ ArmSoftMod \/ Finish
  <2>1. /\ pc \notin {"exit", "done", "stopped", "generate"}
        /\ pc' \notin {"exit", "stopped", "generate"} /\ UNCHANGED <<halt, proc>>
    BY <1>2, StageTypes DEF DrainReady, WaitReady, checkStartupTimeout, checkSoftModAfterUpdate,
         nextRequest, Begin, WaitTimeout, StartRefused, ArmSoftMod, Finish, Waiting
  <2> QED BY <2>1 DEF ExitInv
<1>3. CASE \/ executeStart \/ LaunchFails \/ LaunchFactorio \/ RegisterProcess \/ GenNewMap
           \/ executeStop
  <2>1. /\ pc \notin {"exit", "done", "stopped"} /\ pc' \notin {"exit", "generate"}
        /\ UNCHANGED halt /\ (pc' = "stopped" => phase' = "stopped")
    BY <1>3 DEF executeStart, LaunchFails, LaunchFactorio, RegisterProcess, GenNewMap, executeStop
  <2> QED BY <2>1 DEF ExitInv
<1>4. CASE AfterStop
  <2>1. pc = "stopped" /\ UNCHANGED <<phase, halt>>
    BY <1>4 DEF AfterStop
  <2> QED BY <2>1 DEF ExitInv
<1>5. CASE cancelPendingRequests \/ ExitHook
  <2>1. /\ pc \in {"top", "exit"} /\ pc' \in {"exit", "done"} /\ UNCHANGED <<phase, proc, sig>>
        /\ pc' = "exit" => pc = "exit"
        /\ halt' = halt \/ halt' = "check"
    BY <1>5 DEF cancelPendingRequests, ExitHook
  <2> QED BY <2>1 DEF ExitInv
<1>6. CASE DoExit
  <2>1. pc = "done" /\ halt' = "check" /\ UNCHANGED <<pc, phase>>
    BY <1>6 DEF DoExit
  <2> QED BY <2>1 DEF ExitInv
<1>7. CASE forceFactorioProcessExit
  <2>1. halt \in {"check", "int", "kill"} /\ UNCHANGED <<pc, phase, proc>>
    BY <1>7 DEF forceFactorioProcessExit, ExitStage
  <2>2. CASE ~processAlive
    <3>1. Alive' = {}
      BY <2>1, <2>2, GoneMeansNone DEF ExitInv
    <3> QED BY <2>1, <3>1 DEF ExitInv
  <2>3. CASE processAlive
    <3>1. /\ halt = "check" => halt' = "int"
          /\ halt = "int" => halt' = "kill" /\ sig' = "kill"
          /\ halt = "kill" => halt' = "gone" /\ sig' = sig
      BY <1>7, <2>1, <2>3 DEF forceFactorioProcessExit, ExitStage
    <3> QED BY <2>1, <3>1 DEF ExitInv
  <2> QED BY <2>2, <2>3
<1>8. ASSUME NEW g \in Gens, ProcessExits(g) PROVE ExitInv'
  <2>1. /\ proc[g] = "alive" /\ proc' = [proc EXCEPT ![g] = "dead"]
        /\ UNCHANGED <<pc, phase, halt>>
    BY <1>8 DEF ProcessExits
  <2>2. Alive' = {}
    BY <2>1 DEF ProcessInv, ProcessType
  <2> QED BY <2>1, <2>2 DEF ExitInv
<1>9. CASE \/ SetModOperationInProgress \/ SetAutolaunch \/ SetUpdateInProgress
           \/ Updater \/ Sigterm \/ StopLifecycleManager \/ Terminated
           \/ (\E i \in Ids : Stage(i) \/ Submit(i))
           \/ (\E g \in Gens, r \in Reports : Notify(g, r))
           \/ (\E g \in Gens : NotifySoftModDetected(g))
  <2>1. UNCHANGED <<phase, proc, sig, pc, halt>>
    BY <1>9 DEF SetModOperationInProgress, SetAutolaunch, SetUpdateInProgress,
         Updater, WaitFactQuit, WaitFactQuitTimeout, LockInstallation, InstallFails,
         MarkFactorioUpdated, ClearUpdateInProgress, UpdaterStep, Sigterm,
         StopLifecycleManager, Terminated, vars, Stage, Submit, Notify, NotifySoftModDetected
  <2> QED BY <2>1 DEF ExitInv
<1> QED
  BY <1>1, <1>2, <1>3, <1>4, <1>5, <1>6, <1>7, <1>8, <1>9 DEF Next, Manager, Others, Shutdown

\* ExitInv is an invariant.
LEMMA ExitInvariant == Spec => []ExitInv
<1>1. Init => ExitInv
  BY DEF Init, ExitInv
<1>2. TypeOK /\ ProcessInv /\ ExitInv /\ [Next]_vars => ExitInv'
  <2>1. CASE Next
    BY <2>1, ExitInvStep
  <2>2. CASE UNCHANGED vars
    BY <2>2 DEF vars, ExitInv, Alive
  <2> QED BY <2>1, <2>2
<1> QED BY <1>1, <1>2, TypeCorrect, ProcessInvariant, PTL DEF Spec

\* However SIGTERM, a ChatWire restart and requests in progress interleave, the exit
\* hook is reached only with the server stopped, and ChatWire never exits leaving a
\* Factorio process that it has not sent SIGKILL (DoExit, forceFactorioProcessExit).
THEOREM ExitsAreClean == Spec => []ExitClean
<1>1. ExitInv => ExitClean
  BY DEF ExitInv, ExitClean, ExitHookOnlyWhenStopped, NoUnkilledOrphan
<1> QED BY <1>1, ExitInvariant, PTL

-----------------------------------------------------------------------------
(* Requests: answers and snapshots *)

\* What Append and RemoveAt leave in the queue.
LEMMA AppendElements ==
  ASSUME NEW S, NEW s \in Seq(S), NEW e \in S, NEW t, t = Append(s, e)
  PROVE  /\ DOMAIN t = DOMAIN s \cup {Len(s) + 1} /\ Len(s) + 1 \notin DOMAIN s
         /\ \A k \in DOMAIN s : t[k] = s[k]
         /\ t[Len(s) + 1] = e
OBVIOUS

LEMMA RemoveAtElements ==
  ASSUME NEW S, NEW s \in Seq(S), NEW i \in DOMAIN s, NEW t, t = RemoveAt(s, i)
  PROVE  /\ \A k \in DOMAIN t : IF k < i THEN k \in DOMAIN s /\ t[k] = s[k]
                                ELSE k + 1 \in DOMAIN s /\ t[k] = s[k + 1]
         /\ \A k \in DOMAIN s : k # i =>
              \E j \in DOMAIN t : t[j] = s[k]
         /\ DOMAIN t \subseteq Nat /\ i \in Nat
<1>1. Len(s) \in Nat /\ i \in 1 .. Len(s) /\ DOMAIN s = 1 .. Len(s) /\ i \in Nat
  OBVIOUS
<1> DEFINE a == SubSeq(s, 1, i - 1)
           b == SubSeq(s, i + 1, Len(s))
<1>2. a \in Seq(S) /\ Len(a) = i - 1 /\ \A k \in 1 .. i - 1 : a[k] = s[k]
  BY <1>1
<1>3. b \in Seq(S) /\ Len(b) = Len(s) - i /\ \A k \in 1 .. Len(s) - i : b[k] = s[i + k]
  BY <1>1
<1>4. t = a \o b
  BY DEF RemoveAt
<1> HIDE DEF a, b
<1>5. /\ DOMAIN t = 1 .. Len(s) - 1
      /\ \A k \in 1 .. Len(s) - 1 : t[k] = IF k < i THEN s[k] ELSE s[k + 1]
  <2>1. DOMAIN t = 1 .. Len(s) - 1
    <3>1. t \in Seq(S) /\ Len(t) = Len(a) + Len(b)
      BY <1>2, <1>3, <1>4
    <3>2. DOMAIN t = 1 .. Len(t) /\ Len(t) = Len(s) - 1
      BY <1>1, <1>2, <1>3, <3>1
    <3> QED BY <3>2
  <2>2. ASSUME NEW k \in 1 .. Len(s) - 1, k < i PROVE t[k] = s[k]
    <3>1. k \in 1 .. i - 1 /\ t[k] = a[k]
      BY <1>1, <1>2, <1>3, <1>4, <2>2
    <3> QED BY <1>2, <3>1
  <2>3. ASSUME NEW k \in 1 .. Len(s) - 1, ~(k < i) PROVE t[k] = s[k + 1]
    <3>1. k - (i - 1) \in 1 .. Len(s) - i /\ t[k] = b[k - (i - 1)] /\ i + (k - (i - 1)) = k + 1
      BY <1>1, <1>2, <1>3, <1>4, <2>3
    <3> QED BY <1>3, <3>1
  <2> QED BY <2>1, <2>2, <2>3
<1>6. ASSUME NEW k \in DOMAIN s, k # i PROVE \E j \in DOMAIN t : t[j] = s[k]
  <2>1. CASE k < i
    <3>1. k \in 1 .. Len(s) - 1 /\ t[k] = s[k]
      BY <1>1, <1>5, <2>1
    <3> QED BY <1>5, <3>1
  <2>2. CASE k > i
    <3>1. k - 1 \in 1 .. Len(s) - 1 /\ ~(k - 1 < i) /\ (k - 1) + 1 = k
      BY <1>1, <2>2
    <3>2. t[k - 1] = s[k]
      BY <1>5, <3>1
    <3> QED BY <1>5, <3>1, <3>2
  <2> QED BY <1>1, <1>6, <2>1, <2>2
<1> QED BY <1>1, <1>5, <1>6

\* Nothing about requests changes.
LEMMA RequestInvKept ==
  ASSUME RequestInv, UNCHANGED <<cur, client, req, queue, snapshots, answers>>,
         pc' \in {"top", "checks", "next", "done"} <=> pc \in {"top", "checks", "next", "done"}
  PROVE  RequestInv'
BY DEF RequestInv, SnapshotsOwned, AnsweredOnce

\* A request of the program itself joins the queue.
LEMMA InternalQueued ==
  ASSUME TypeOK, RequestInv, NEW r \in Internal, queue' = Append(queue, r),
         UNCHANGED <<cur, client, req, snapshots, answers>>,
         pc' \in {"top", "checks", "next", "done"} <=> pc \in {"top", "checks", "next", "done"}
  PROVE  RequestInv'
<1>1. queue \in Seq(Ids \cup Internal) /\ r \in Ids \cup Internal
  BY DEF TypeOK, ManagerType
<1>2. r \notin Ids
  BY ConstantsOK
<1> DEFINE S == Ids \cup Internal
<1> HIDE DEF S
<1>3. /\ DOMAIN queue' = DOMAIN queue \cup {Len(queue) + 1} /\ Len(queue) + 1 \notin DOMAIN queue
      /\ \A k \in DOMAIN queue : queue'[k] = queue[k]
      /\ queue'[Len(queue) + 1] = r
  <2>1. queue \in Seq(S) /\ r \in S
    BY <1>1 DEF S
  <2> QED BY <2>1, AppendElements
<1>9. ToSet(queue') = ToSet(queue) \cup {r}
  BY <1>3 DEF ToSet
<1>4. \A k \in DOMAIN queue' : queue'[k] \in Ids => k \in DOMAIN queue /\ queue'[k] = queue[k]
  BY <1>2, <1>3
<1>5. SnapshotsOwned'
  BY <1>9 DEF RequestInv, SnapshotsOwned
<1>6. AnsweredOnce'
  BY <1>2, <1>9 DEF RequestInv, AnsweredOnce
<1> QED BY <1>4, <1>5, <1>6 DEF RequestInv

\* nextRequest takes a request from the queue, starts on its own, or waits.
LEMMA RequestInvNext == ASSUME TypeOK, RequestInv, nextRequest PROVE RequestInv'
<1>0. /\ UNCHANGED <<client, req, snapshots, answers>> /\ pc \in {"checks", "next"}
      /\ cur = "none" /\ queue \in Seq(Ids \cup Internal)
      /\ "none" \notin Ids /\ "auto" \notin Ids /\ "none" \notin Internal
  BY ConstantsOK DEF nextRequest, RequestInv, TypeOK, ManagerType, Internal
<1> DEFINE Queued == \E i \in DOMAIN queue : queue' = RemoveAt(queue, i) /\ Begin(queue[i])
           AutoReq == Begin("auto") /\ UNCHANGED queue
           Idle == pc' = "top" /\ UNCHANGED <<op, queue, mgr, autostart>>
<1>1. Queued \/ AutoReq \/ Idle
  BY DEF nextRequest
<1>2. CASE Queued
  <2>1. PICK i \in DOMAIN queue : queue' = RemoveAt(queue, i) /\ Begin(queue[i])
    BY <1>2
  <2>2. cur' = queue[i] /\ pc' \in {"start", "stop"} /\ cur' \in Ids \cup Internal
    BY <1>0, <2>1 DEF Begin
  <2>3. /\ \A k \in DOMAIN queue' : IF k < i THEN k \in DOMAIN queue /\ queue'[k] = queue[k]
                                    ELSE k + 1 \in DOMAIN queue /\ queue'[k] = queue[k + 1]
        /\ \A k \in DOMAIN queue : k # i => \E j \in DOMAIN queue' : queue'[j] = queue[k]
        /\ DOMAIN queue' \subseteq Nat /\ i \in Nat
    BY <1>0, <2>1, RemoveAtElements
  <2> DEFINE f(k) == IF k < i THEN k ELSE k + 1
  <2>4. \A k \in DOMAIN queue' : f(k) \in DOMAIN queue /\ queue'[k] = queue[f(k)] /\ f(k) # i
    BY <2>3
  <2>5. \A j, k \in DOMAIN queue' : f(j) = f(k) => j = k
    BY <2>3
  <2> HIDE DEF f
  <2>6. \A k \in DOMAIN queue' : queue'[k] \in Ids => client[queue'[k]] = "accepted" /\ queue'[k] # cur'
    BY <2>2, <2>4 DEF RequestInv
  <2>7. \A j, k \in DOMAIN queue' : queue'[j] = queue'[k] /\ queue'[j] \in Ids => j = k
    <3> SUFFICES ASSUME NEW j \in DOMAIN queue', NEW k \in DOMAIN queue',
                        queue'[j] = queue'[k], queue'[j] \in Ids
                 PROVE  j = k
      OBVIOUS
    <3>1. f(j) = f(k)
      BY <2>4 DEF RequestInv
    <3> QED BY <2>5, <3>1
  <2>8. \A r : r \in ToSet(queue) => r \in ToSet(queue') \/ r = cur'
    BY <2>2, <2>3 DEF ToSet
  <2>9. \A r : r \in ToSet(queue') => r \in ToSet(queue)
    BY <2>4 DEF ToSet
  <2>10. cur' \in ToSet(queue)
    BY <2>2 DEF ToSet
  <2>11. SnapshotsOwned'
    <3> SUFFICES ASSUME NEW j \in snapshots
                 PROVE  client[j] = "staged" \/ j = cur' \/ j \in ToSet(queue')
      BY <1>0 DEF SnapshotsOwned
    <3>1. j \in Ids
      BY DEF TypeOK, ClientType
    <3> QED BY <1>0, <2>8, <3>1 DEF RequestInv, SnapshotsOwned
  <2>12. AnsweredOnce'
    <3> SUFFICES ASSUME NEW j \in Ids
                 PROVE  answers[j] = IF client[j] = "accepted" /\ req[j].wait /\ j # cur'
                                        /\ j \notin ToSet(queue') THEN 1 ELSE 0
      BY <1>0 DEF AnsweredOnce
    <3>1. (j # cur' /\ j \notin ToSet(queue')) <=> (j # cur /\ j \notin ToSet(queue))
      BY <1>0, <2>8, <2>9, <2>10
    <3> QED BY <3>1 DEF RequestInv, AnsweredOnce
  <2>13. cur' \in Ids => client[cur'] = "accepted"
    BY <2>2 DEF RequestInv
  <2> QED BY <1>0, <2>2, <2>6, <2>7, <2>11, <2>12, <2>13 DEF RequestInv
<1>3. CASE AutoReq
  <2>1. cur' = "auto" /\ pc' \in {"start", "stop"} /\ UNCHANGED queue
    BY <1>3 DEF Begin
  <2>2. \A k \in DOMAIN queue : queue[k] \in Ids => queue[k] # cur'
    BY <1>0, <2>1
  <2>3. SnapshotsOwned'
    <3>1. \A j \in snapshots : j # "none"
      BY <1>0 DEF TypeOK, ClientType
    <3> QED BY <1>0, <2>1, <3>1 DEF RequestInv, SnapshotsOwned
  <2>4. AnsweredOnce'
    BY <1>0, <2>1 DEF RequestInv, AnsweredOnce
  <2> QED BY <1>0, <2>1, <2>2, <2>3, <2>4 DEF RequestInv
<1>4. CASE Idle
  BY <1>0, <1>4, RequestInvKept
<1> QED BY <1>1, <1>2, <1>3, <1>4

\* A client's request is staged, and accepted or refused.
LEMMA RequestInvClient ==
  ASSUME TypeOK, RequestInv, NEW i \in Ids, Stage(i) \/ Submit(i) PROVE RequestInv'
<1>0. /\ UNCHANGED <<cur, pc, answers>> /\ queue \in Seq(Ids \cup Internal)
      /\ client \in [Ids -> {"idle", "staged", "accepted", "rejected"}]
      /\ req \in [Ids -> Shapes \cup {NoShape}] /\ snapshots \subseteq Ids
  BY DEF Stage, Submit, TypeOK, ClientType, ManagerType
<1>1. CASE Stage(i)
  <2>1. PICK s \in Shapes : req' = [req EXCEPT ![i] = s]
    BY <1>1 DEF Stage
  <2>2. /\ client[i] = "idle" /\ client' = [client EXCEPT ![i] = "staged"] /\ UNCHANGED queue
        /\ snapshots' \subseteq snapshots \cup {i}
    BY <1>1 DEF Stage
  <2>3. \A j \in Ids : IF j = i THEN client'[j] = "staged" /\ req'[j] = s
                       ELSE client'[j] = client[j] /\ req'[j] = req[j]
    BY <1>0, <2>1, <2>2
  <2>4. i # cur /\ \A k \in DOMAIN queue : queue[k] # i
    BY <2>2 DEF RequestInv
  <2>5. SnapshotsOwned'
    BY <1>0, <2>2, <2>3 DEF RequestInv, SnapshotsOwned
  <2>6. AnsweredOnce'
    BY <1>0, <2>2, <2>3 DEF RequestInv, AnsweredOnce
  <2>7. \A j \in Ids : client'[j] # "idle" => req'[j] \in Shapes
    BY <2>3 DEF RequestInv
  <2> QED BY <1>0, <2>2, <2>3, <2>4, <2>5, <2>6, <2>7 DEF RequestInv
<1>2. CASE Submit(i) /\ shutdownRequested
  <2>1. /\ client[i] = "staged" /\ client' = [client EXCEPT ![i] = "rejected"]
        /\ UNCHANGED <<queue, req>> /\ snapshots' = snapshots \ {i}
    BY <1>2 DEF Submit
  <2>2. \A j \in Ids : IF j = i THEN client'[j] = "rejected" ELSE client'[j] = client[j]
    BY <1>0, <2>1
  <2>3. i # cur /\ \A k \in DOMAIN queue : queue[k] # i
    BY <2>1 DEF RequestInv
  <2>4. SnapshotsOwned'
    BY <1>0, <2>1, <2>2 DEF RequestInv, SnapshotsOwned
  <2>5. AnsweredOnce'
    BY <1>0, <2>1, <2>2 DEF RequestInv, AnsweredOnce
  <2> QED BY <1>0, <2>1, <2>2, <2>3, <2>4, <2>5 DEF RequestInv
<1>3. CASE Submit(i) /\ ~shutdownRequested
  <2>1. /\ client[i] = "staged" /\ client' = [client EXCEPT ![i] = "accepted"]
        /\ queue' = Append(queue, i) /\ UNCHANGED <<snapshots, req>>
    BY <1>3 DEF Submit
  <2>2. \A j \in Ids : IF j = i THEN client'[j] = "accepted" ELSE client'[j] = client[j]
    BY <1>0, <2>1
  <2>3. i # cur /\ \A k \in DOMAIN queue : queue[k] # i
    BY <2>1 DEF RequestInv
  <2> DEFINE S == Ids \cup Internal
  <2> HIDE DEF S
  <2>4. /\ DOMAIN queue' = DOMAIN queue \cup {Len(queue) + 1} /\ Len(queue) + 1 \notin DOMAIN queue
        /\ \A k \in DOMAIN queue : queue'[k] = queue[k]
        /\ queue'[Len(queue) + 1] = i
    <3>1. queue \in Seq(S) /\ i \in S
      BY <1>0 DEF S
    <3> QED BY <2>1, <3>1, AppendElements
  <2>9. ToSet(queue') = ToSet(queue) \cup {i}
    BY <2>4 DEF ToSet
  <2>5. SnapshotsOwned'
    BY <1>0, <2>1, <2>2, <2>9 DEF RequestInv, SnapshotsOwned
  <2>6. AnsweredOnce'
    BY <1>0, <2>1, <2>2, <2>9 DEF RequestInv, AnsweredOnce
  <2>7. \A k \in DOMAIN queue' : queue'[k] \in Ids =>
          client'[queue'[k]] = "accepted" /\ queue'[k] # cur'
    BY <1>0, <2>2, <2>3, <2>4 DEF RequestInv
  <2>8. \A j, k \in DOMAIN queue' : queue'[j] = queue'[k] /\ queue'[j] \in Ids => j = k
    BY <2>3, <2>4 DEF RequestInv
  <2> QED BY <1>0, <2>1, <2>2, <2>3, <2>5, <2>6, <2>7, <2>8 DEF RequestInv
<1> QED BY <1>1, <1>2, <1>3

\* The requests of R are answered, and leave queue and manager.
LEMMA RequestInvAnswer ==
  ASSUME TypeOK, RequestInv, cancelPendingRequests \/ Finish PROVE RequestInv'
<1>0. /\ UNCHANGED <<client, req>> /\ cur' = "none" /\ pc' \in {"top", "done"}
      /\ queue \in Seq(Ids \cup Internal) /\ "none" \notin Ids
      /\ snapshots \subseteq Ids /\ answers \in [Ids -> Nat]
  BY ConstantsOK
  DEF cancelPendingRequests, Finish, RequestInv, TypeOK, ManagerType, ClientType
<1>1. PICK R : /\ answer(R) /\ snapshots' = snapshots \ R
               /\ \/ R = ToSet(queue) /\ queue' = <<>> /\ cur = "none"
                  \/ R = {cur} /\ queue' = queue /\ cur # "none"
  BY DEF cancelPendingRequests, Finish, RequestInv
<1>2. \A j \in Ids : answers'[j] = IF j \in R /\ req[j].wait THEN answers[j] + 1 ELSE answers[j]
  BY <1>1 DEF Waits
<1>3. \A j \in Ids : (j # cur' /\ j \notin ToSet(queue')) <=>
                     (j \in R \/ (j # cur /\ j \notin ToSet(queue)))
  <2>1. CASE R = ToSet(queue) /\ queue' = <<>> /\ cur = "none"
    BY <1>0, <2>1 DEF ToSet
  <2>2. CASE R = {cur} /\ queue' = queue /\ cur # "none"
    <3>1. \A j \in Ids : j \in ToSet(queue) => j # cur
      BY DEF RequestInv, ToSet
    <3> QED BY <1>0, <2>2, <3>1
  <2> QED BY <1>1, <2>1, <2>2
<1>4. \A j \in Ids : j \in R => client[j] = "accepted" /\ ~(j # cur /\ j \notin ToSet(queue))
  BY <1>0, <1>1 DEF RequestInv, ToSet
<1>5. AnsweredOnce'
  <2> SUFFICES ASSUME NEW j \in Ids
               PROVE  answers'[j] = IF client[j] = "accepted" /\ req[j].wait /\ j # cur'
                                       /\ j \notin ToSet(queue') THEN 1 ELSE 0
    BY <1>0 DEF AnsweredOnce
  <2>1. answers[j] = IF client[j] = "accepted" /\ req[j].wait /\ j # cur
                        /\ j \notin ToSet(queue) THEN 1 ELSE 0
    BY DEF RequestInv, AnsweredOnce
  <2>2. CASE j \in R
    BY <1>2, <1>3, <1>4, <2>1, <2>2
  <2>3. CASE j \notin R
    BY <1>2, <1>3, <2>1, <2>3
  <2> QED BY <2>2, <2>3
<1>6. SnapshotsOwned'
  <2> SUFFICES ASSUME NEW j \in snapshots, j \notin R
               PROVE  client[j] = "staged" \/ j = cur' \/ j \in ToSet(queue')
    BY <1>0, <1>1 DEF SnapshotsOwned
  <2>1. j \in Ids /\ (client[j] = "staged" \/ j = cur \/ j \in ToSet(queue))
    BY <1>0 DEF RequestInv, SnapshotsOwned
  <2> QED BY <1>3, <2>1
<1>7. \A k \in DOMAIN queue' : k \in DOMAIN queue /\ queue'[k] = queue[k]
  BY <1>1
<1>8. \A k \in DOMAIN queue' : queue'[k] \in Ids => client[queue'[k]] = "accepted" /\ queue'[k] # cur'
  BY <1>0, <1>7 DEF RequestInv
<1>9. \A j, k \in DOMAIN queue' : queue'[j] = queue'[k] /\ queue'[j] \in Ids => j = k
  BY <1>7 DEF RequestInv
<1> QED BY <1>0, <1>5, <1>6, <1>8, <1>9 DEF RequestInv

\* Every action preserves RequestInv.
LEMMA RequestInvStep ==
  ASSUME TypeOK, RequestInv, Next PROVE RequestInv'
<1>1. CASE DrainReady \/ DrainExit \/ reconcileProcessHealth
  BY <1>1, RequestInvKept DEF DrainReady, DrainExit, reconcileProcessHealth
<1>2. CASE DrainHealth
  <2>1. UNCHANGED <<cur, client, req, snapshots, answers, pc>>
    BY <1>2 DEF DrainHealth
  <2>2. queue' = queue \/ queue' = Append(queue, "health")
    BY <1>2 DEF DrainHealth, handleHealthEvent
  <2>3. "health" \in Internal
    BY DEF Internal
  <2> QED BY <2>1, <2>2, <2>3, RequestInvKept, InternalQueued
<1>3. CASE checkStartupTimeout \/ checkSoftModAfterUpdate \/ Sigterm
  <2>1. /\ UNCHANGED <<cur, client, req, snapshots, answers>>
        /\ pc' \in {"top", "checks", "next", "done"} <=> pc \in {"top", "checks", "next", "done"}
    BY <1>3 DEF checkStartupTimeout, checkSoftModAfterUpdate, Sigterm
  <2>2. queue' = queue \/ \E r \in {"timeout", "softmod", "sigterm"} : queue' = Append(queue, r)
    BY <1>3 DEF checkStartupTimeout, checkSoftModAfterUpdate, Sigterm
  <2>3. {"timeout", "softmod", "sigterm"} \subseteq Internal
    BY DEF Internal
  <2> QED BY <2>1, <2>2, <2>3, RequestInvKept, InternalQueued
<1>4. CASE executeStop \/ WaitGone \/ WaitExit \/ WaitReady \/ WaitTimeout \/ GenNewMap
  <2>1. UNCHANGED <<cur, client, req, queue, snapshots, answers>>
    BY <1>4 DEF executeStop, WaitGone, WaitExit, WaitReady, WaitTimeout, GenNewMap
  <2>2. /\ pc \notin {"top", "checks", "next", "done"}
        /\ pc' \notin {"top", "checks", "next", "done"}
    BY <1>4, StageTypes DEF executeStop, WaitGone, WaitExit, WaitReady, WaitTimeout, GenNewMap, Waiting
  <2> QED BY <2>1, <2>2, RequestInvKept
<1>5. CASE StartRefused \/ executeStart \/ LaunchFails \/ LaunchFactorio \/ RegisterProcess
           \/ ArmSoftMod \/ ExitHook
  <2>1. UNCHANGED <<cur, client, req, queue, snapshots, answers>>
    BY <1>5 DEF StartRefused, executeStart, LaunchFails, LaunchFactorio, RegisterProcess,
         ArmSoftMod, ExitHook
  <2>2. /\ pc \notin {"top", "checks", "next", "done"}
        /\ pc' \notin {"top", "checks", "next", "done"}
    BY <1>5 DEF StartRefused, executeStart, LaunchFails, LaunchFactorio, RegisterProcess,
         ArmSoftMod, ExitHook
  <2> QED BY <2>1, <2>2, RequestInvKept
<1>6. CASE AfterStop
  <2>1. /\ UNCHANGED <<cur, client, req, queue, answers>> /\ snapshots' \subseteq snapshots
        /\ pc \notin {"top", "checks", "next", "done"}
        /\ pc' \notin {"top", "checks", "next", "done"}
    BY <1>6 DEF AfterStop
  <2> QED BY <2>1 DEF RequestInv, SnapshotsOwned, AnsweredOnce
<1>7. CASE cancelPendingRequests \/ Finish
  BY <1>7, RequestInvAnswer
<1>8. CASE nextRequest
  BY <1>8, RequestInvNext
<1>9. CASE \E i \in Ids : Stage(i) \/ Submit(i)
  BY <1>9, RequestInvClient
<1>10. CASE \/ SetModOperationInProgress \/ SetAutolaunch \/ SetUpdateInProgress
            \/ Updater \/ StopLifecycleManager \/ DoExit \/ forceFactorioProcessExit \/ Terminated
            \/ (\E g \in Gens, r \in Reports : Notify(g, r))
            \/ (\E g \in Gens : NotifySoftModDetected(g) \/ ProcessExits(g))
  <2>1. UNCHANGED <<cur, client, req, queue, snapshots, answers, pc>>
    BY <1>10 DEF SetModOperationInProgress, SetAutolaunch, SetUpdateInProgress,
         Updater, WaitFactQuit, WaitFactQuitTimeout, LockInstallation, InstallFails,
         MarkFactorioUpdated, ClearUpdateInProgress, UpdaterStep, StopLifecycleManager,
         DoExit, forceFactorioProcessExit, Terminated, vars, Notify, NotifySoftModDetected,
         ProcessExits
  <2> QED BY <2>1, RequestInvKept
<1> QED
  BY <1>1, <1>2, <1>3, <1>4, <1>5, <1>6, <1>7, <1>8, <1>9, <1>10
  DEF Next, Manager, Others, Shutdown

\* RequestInv is an invariant.
LEMMA RequestInvariant == Spec => []RequestInv
<1>1. Init => RequestInv
  BY ConstantsOK DEF Init, RequestInv, SnapshotsOwned, AnsweredOnce
<1>2. TypeOK /\ RequestInv /\ [Next]_vars => RequestInv'
  <2>1. CASE Next
    BY <2>1, RequestInvStep
  <2>2. CASE UNCHANGED vars
    BY <2>2, RequestInvKept DEF vars
  <2> QED BY <2>1, <2>2
<1> QED BY <1>1, <1>2, TypeCorrect, PTL DEF Spec

\* Every accepted request that somebody waits for is answered once: never a second time,
\* which would block the manager on the waiter's channel, and not before it has left the
\* queue and execute, also when shutdown cancels it (submit, execute,
\* cancelPendingRequests).
THEOREM AnswersAreSingle == Spec => []AnsweredOnce
<1>1. RequestInv => AnsweredOnce
  BY DEF RequestInv
<1> QED BY <1>1, RequestInvariant, PTL

-----------------------------------------------------------------------------
(* Announced operations *)

\* Only Stage writes the shape of a request.
LEMMA ReqKept ==
  ASSUME Next, ~\E i \in Ids : Stage(i) PROVE UNCHANGED req
<1>1. CASE \/ cancelPendingRequests \/ DrainReady \/ DrainExit \/ DrainHealth
           \/ reconcileProcessHealth \/ checkStartupTimeout \/ checkSoftModAfterUpdate
           \/ nextRequest
  BY <1>1 DEF cancelPendingRequests, DrainReady, DrainExit, DrainHealth,
       reconcileProcessHealth, checkStartupTimeout, checkSoftModAfterUpdate, nextRequest
<1>2. CASE executeStop \/ WaitGone \/ WaitExit \/ WaitReady \/ WaitTimeout \/ AfterStop \/ GenNewMap
  BY <1>2 DEF executeStop, WaitGone, WaitExit, WaitReady, WaitTimeout, AfterStop, GenNewMap
<1>3. CASE \/ StartRefused \/ executeStart \/ LaunchFails \/ LaunchFactorio
           \/ RegisterProcess \/ ArmSoftMod \/ Finish \/ ExitHook
  BY <1>3 DEF StartRefused, executeStart, LaunchFails, LaunchFactorio, RegisterProcess,
       ArmSoftMod, Finish, ExitHook
<1>4. CASE SetModOperationInProgress \/ SetAutolaunch \/ SetUpdateInProgress \/ Updater
  BY <1>4 DEF SetModOperationInProgress, SetAutolaunch, SetUpdateInProgress, Updater,
       WaitFactQuit, WaitFactQuitTimeout, LockInstallation, InstallFails,
       MarkFactorioUpdated, ClearUpdateInProgress, UpdaterStep
<1>5. CASE \/ Shutdown \/ Terminated \/ (\E i \in Ids : Submit(i))
           \/ (\E g \in Gens, r \in Reports : Notify(g, r))
           \/ (\E g \in Gens : NotifySoftModDetected(g) \/ ProcessExits(g))
  BY <1>5 DEF Shutdown, Sigterm, StopLifecycleManager, DoExit, forceFactorioProcessExit,
       Terminated, vars, Submit, Notify, NotifySoftModDetected, ProcessExits
<1> QED BY <1>1, <1>2, <1>3, <1>4, <1>5 DEF Next, Manager, Others

\* A request that is being executed keeps its kind.
LEMMA KindKept ==
  ASSUME TypeOK, RequestInv, Next, cur' = cur, cur # "none"
  PROVE  KindOf(cur)' = KindOf(cur)
<1>1. CASE cur \in Ids
  <2>1. client[cur] = "accepted"
    BY <1>1 DEF RequestInv
  <2>2. req'[cur] = req[cur]
    <3>1. CASE \E i \in Ids : Stage(i)
      <4>1. PICK i \in Ids : Stage(i)
        BY <3>1
      <4>2. i # cur
        BY <2>1, <4>1 DEF Stage
      <4>3. PICK s \in Shapes : req' = [req EXCEPT ![i] = s]
        BY <4>1 DEF Stage
      <4> QED BY <1>1, <4>2, <4>3 DEF TypeOK, ClientType
    <3>2. CASE ~\E i \in Ids : Stage(i)
      <4>1. UNCHANGED req
        BY <3>2, ReqKept
      <4> QED BY <4>1
    <3> QED BY <3>1, <3>2
  <2> QED BY <1>1, <2>2 DEF KindOf
<1>2. CASE cur \notin Ids
  BY <1>2 DEF KindOf
<1> QED BY <1>1, <1>2

\* finalizeStopped closes an operation that has no more to do than to stop.
LEMMA FinalizeOperation ==
  ASSUME TypeOK, NEW g, finalizeStopped(g)
  PROVE  \/ UNCHANGED <<phase, op>>
         \/ /\ phase' = "stopped" /\ g = gen /\ phase # "stopped"
            /\ op' \in {op, "none"} /\ (op = "Stop" => op' = "none")
            /\ phase # "stopping" => op' = "none"
BY DEF finalizeStopped, Continuing

\* Every action preserves OperationInv.
LEMMA OperationInvStep ==
  ASSUME TypeOK, ProcessInv, RequestInv, OperationInv, Next PROVE OperationInv'
<1>0. cur = "none" <=> pc \in {"top", "checks", "next", "done"}
  BY DEF RequestInv
<1>1. CASE DrainReady
  <2>1. /\ UNCHANGED <<pc, cur>> /\ pc = "top"
        /\ UNCHANGED <<phase, op>> \/ (phase' = "running" /\ op' = "none")
    BY <1>1 DEF DrainReady, handleReadyEvent
  <2> QED BY <2>1 DEF OperationInv, OperationClosed, Waiting
<1>2. CASE DrainExit \/ DrainHealth \/ reconcileProcessHealth
  <2>1. /\ pc = "top" /\ pc' \in {"top", "checks"} /\ cur' = cur
        /\ (\E g : finalizeStopped(g)) \/ UNCHANGED <<phase, op>>
    BY <1>2 DEF DrainExit, DrainHealth, handleHealthEvent, reconcileProcessHealth
  <2>2. op # "none" => phase = "starting"
    BY <1>0, <2>1 DEF OperationInv, OperationClosed
  <2>3. UNCHANGED <<phase, op>> \/ op' = "none"
    BY <2>1, <2>2, FinalizeOperation
  <2> QED BY <1>0, <2>1, <2>2, <2>3 DEF OperationInv, OperationClosed, Waiting
<1>3. CASE checkStartupTimeout \/ checkSoftModAfterUpdate \/ cancelPendingRequests
  <2>1. /\ pc \in {"top", "checks"} /\ pc' \in {"next", "done"} /\ UNCHANGED <<cur, phase>>
        /\ op' \in {op, "none"}
    BY <1>3 DEF checkStartupTimeout, checkSoftModAfterUpdate, cancelPendingRequests
  <2> QED BY <1>0, <2>1 DEF OperationInv, OperationClosed, Waiting
<1>4. CASE nextRequest
  <2>1. pc \in {"checks", "next"} /\ UNCHANGED <<phase, req>>
    BY <1>4 DEF nextRequest
  <2>2. op # "none" => phase = "starting"
    BY <1>0, <2>1 DEF OperationInv, OperationClosed
  <2>3. CASE pc' = "top" /\ UNCHANGED <<op, cur>>
    BY <2>1, <2>2, <2>3 DEF OperationInv, OperationClosed, Waiting
  <2>4. ASSUME NEW r \in Ids \cup Internal, Begin(r) PROVE OperationInv'
    <3>1. /\ cur' = r /\ op' = IF requestNoop(r) THEN op ELSE KindOf(r)
          /\ pc' = IF KindOf(r) = "Start" THEN "start" ELSE "stop"
      BY <2>4 DEF Begin
    <3>2. KindOf(cur)' = KindOf(r)
      BY <2>1, <3>1 DEF KindOf
    <3>3. r # "none"
      BY ConstantsOK DEF Internal
    <3>4. CASE KindOf(r) = "Start"
      BY <2>1, <2>2, <3>1, <3>2, <3>3, <3>4 DEF requestNoop, OperationInv, OperationClosed, Waiting
    <3>5. CASE KindOf(r) # "Start"
      BY <2>1, <2>2, <3>1, <3>2, <3>3, <3>5 DEF requestNoop, OperationInv, OperationClosed, Waiting
    <3> QED BY <3>4, <3>5
  <2>5. (pc' = "top" /\ UNCHANGED <<op, cur>>) \/ \E r \in Ids \cup Internal : Begin(r)
    <3>1. \A i \in DOMAIN queue : queue[i] \in Ids \cup Internal
      BY DEF TypeOK, ManagerType
    <3>2. "auto" \in Ids \cup Internal
      BY DEF Internal
    <3> QED BY <1>4, <3>1, <3>2 DEF nextRequest
  <2> QED BY <2>3, <2>4, <2>5
<1>5. CASE executeStop
  <2>1. /\ pc = "stop" /\ UNCHANGED <<cur, op, req>>
        /\ \/ phase = "stopped" /\ phase' = "stopped" /\ pc' = "stopped"
           \/ phase # "stopped" /\ phase' = "stopping" /\ pc' = "wait1"
    BY <1>5 DEF executeStop
  <2>2. KindOf(cur)' = KindOf(cur)
    BY <2>1 DEF KindOf
  <2> QED BY <1>0, <2>1, <2>2 DEF OperationInv, OperationClosed, Waiting
<1>6. CASE WaitGone \/ WaitExit
  <2>1. /\ pc \in Waiting /\ UNCHANGED <<cur, req>> /\ pc' \in {pc, "stopped"}
        /\ \E g : finalizeStopped(g) /\ (pc' = "stopped" <=> g = gen)
    BY <1>6 DEF WaitGone, WaitExit, Waiting
  <2>2. /\ phase = "stopping" /\ (KindOf(cur) = "Stop" => op = "Stop")
        /\ pc \notin {"stopped", "top", "checks", "next", "done"}
    BY <2>1 DEF OperationInv, Waiting
  <2>3. \/ pc' = pc /\ UNCHANGED <<phase, op>>
        \/ pc' = "stopped" /\ phase' = "stopped" /\ (op = "Stop" => op' = "none")
    BY <2>1, <2>2, FinalizeOperation DEF finalizeStopped
  <2>4. KindOf(cur)' = KindOf(cur) /\ cur' # "none"
    BY <1>0, <2>1, <2>2 DEF KindOf
  <2> QED BY <2>1, <2>2, <2>3, <2>4 DEF OperationInv, OperationClosed, Waiting
<1>7. CASE WaitReady
  <2>1. pc \in Waiting /\ UNCHANGED <<pc, cur, req>> /\ handleReadyEvent(Head(readyCh))
    BY <1>7 DEF WaitReady
  <2>2. phase = "stopping"
    BY <2>1 DEF OperationInv
  <2>3. UNCHANGED <<phase, op>>
    BY <2>1, <2>2 DEF handleReadyEvent
  <2>4. KindOf(cur)' = KindOf(cur)
    BY <2>1 DEF KindOf
  <2> QED BY <2>1, <2>3, <2>4 DEF OperationInv, OperationClosed, Waiting
<1>8. CASE WaitTimeout
  <2>1. /\ pc \in Waiting /\ UNCHANGED <<cur, req, phase, op>>
        /\ pc' \in {"wait2", "wait3", "finish"} /\ (pc' = "finish" => err')
    <3>1. pc \in Waiting /\ UNCHANGED <<cur, req, phase, op>> /\ pc' = StopStage[pc]
      BY <1>8 DEF WaitTimeout
    <3>2. pc' = "finish" => pc = "wait3"
      BY <3>1 DEF Waiting, StopStage
    <3>3. err' = (pc = "wait3")
      BY <1>8 DEF WaitTimeout
    <3> QED BY <3>1, <3>2, <3>3, StageTypes
  <2>2. KindOf(cur)' = KindOf(cur)
    BY <2>1 DEF KindOf
  <2> QED BY <2>1, <2>2 DEF OperationInv, OperationClosed, Waiting
<1>9. CASE AfterStop \/ GenNewMap
  <2>1. /\ pc \in {"stopped", "generate"} /\ UNCHANGED <<cur, req, phase, op>>
        /\ pc' \in {"start", "finish", "exit", "generate"}
        /\ pc' = "finish" => err' \/ (pc = "stopped" /\ KindOf(cur) = "Stop")
    BY <1>9 DEF AfterStop, GenNewMap
  <2> QED BY <1>0, <2>1 DEF OperationInv, OperationClosed, Waiting
<1>10. CASE StartRefused
  <2>1. /\ pc = "start" /\ pc' = "finish" /\ UNCHANGED <<cur, phase, op>>
        /\ err' = (phase \notin {"running", "starting"})
    BY <1>10 DEF StartRefused
  <2> QED BY <1>0, <2>1 DEF OperationInv, OperationClosed, Waiting
<1>11. CASE executeStart \/ LaunchFails \/ LaunchFactorio \/ RegisterProcess \/ ArmSoftMod
  <2>1. /\ pc \in {"start", "spawn", "register", "arm"} /\ UNCHANGED <<cur, op>>
        /\ \/ pc = "start" /\ pc' = "spawn"
           \/ pc = "spawn" /\ pc' = "finish" /\ err'
           \/ pc = "spawn" /\ pc' = "register"
           \/ pc = "register" /\ pc' = "arm" /\ UNCHANGED phase
           \/ pc = "arm" /\ pc' = "finish" /\ UNCHANGED phase
    BY <1>11 DEF executeStart, LaunchFails, LaunchFactorio, RegisterProcess, ArmSoftMod
  <2>2. pc = "register" => phase = "starting"
    BY DEF ProcessInv
  <2> QED BY <1>0, <2>1, <2>2 DEF OperationInv, OperationClosed, Waiting
<1>12. CASE Finish
  <2>1. /\ pc = "finish" /\ pc' = "top" /\ op' = (IF err THEN "none" ELSE op) /\ UNCHANGED phase
    BY <1>12 DEF Finish
  <2> QED BY <2>1 DEF OperationInv, OperationClosed, Waiting
<1>13. CASE \/ ExitHook \/ SetModOperationInProgress \/ SetAutolaunch \/ SetUpdateInProgress
            \/ Updater \/ Shutdown \/ Terminated
            \/ (\E i \in Ids : Stage(i) \/ Submit(i))
            \/ (\E g \in Gens, r \in Reports : Notify(g, r))
            \/ (\E g \in Gens : NotifySoftModDetected(g) \/ ProcessExits(g))
  <2>1. UNCHANGED <<phase, op, pc, cur, err>>
    BY <1>13 DEF ExitHook, SetModOperationInProgress, SetAutolaunch, SetUpdateInProgress,
         Updater, WaitFactQuit, WaitFactQuitTimeout, LockInstallation, InstallFails,
         MarkFactorioUpdated, ClearUpdateInProgress, UpdaterStep, Shutdown, Sigterm,
         StopLifecycleManager, DoExit, forceFactorioProcessExit, Terminated, vars, Stage,
         Submit, Notify, NotifySoftModDetected, ProcessExits
  <2>2. cur # "none" => KindOf(cur)' = KindOf(cur)
    BY <2>1, KindKept
  <2>3. pc \in {"stop", "stopped"} \cup Waiting => cur # "none"
    BY <1>0 DEF Waiting
  <2> QED BY <2>1, <2>2, <2>3 DEF OperationInv, OperationClosed
<1> QED
  BY <1>1, <1>2, <1>3, <1>4, <1>5, <1>6, <1>7, <1>8, <1>9, <1>10, <1>11, <1>12, <1>13
  DEF Next, Manager, Others

\* A request that is refused, fails half-way, is cancelled or superseded leaves neither
\* an announced operation nor a snapshot behind (execute, finalizeStopped,
\* finishOperationError, cancelPendingRequests).
THEOREM NothingIsLeftOpen == Spec => []NothingLeftOpen
<1>1. Init => OperationInv
  BY DEF Init, OperationInv, OperationClosed, Waiting
<1>2. TypeOK /\ ProcessInv /\ RequestInv /\ OperationInv /\ [Next]_vars => OperationInv'
  <2>1. CASE Next
    BY <2>1, OperationInvStep
  <2>2. CASE UNCHANGED vars
    BY <2>2 DEF vars, OperationInv, OperationClosed, KindOf
  <2> QED BY <2>1, <2>2
<1>3. RequestInv /\ OperationInv => NothingLeftOpen
  BY DEF RequestInv, OperationInv, NothingLeftOpen
<1> QED BY <1>1, <1>2, <1>3, TypeCorrect, ProcessInvariant, RequestInvariant, PTL DEF Spec

-----------------------------------------------------------------------------
(* Crash loops *)

\* Nobody turns auto-start on again: neither a moderator nor a new map.
NobodyTurnsOn ==
  "autolaunch" \notin Events /\ \A s \in Shapes : s.kind \notin {"ChangeMap", "MapReset"}

\* No map is changed, and after three crashes auto-start is off.
CrashInv == pc # "generate" /\ CrashLoopEndsAutoStart

\* Every action preserves CrashInv.
LEMMA CrashInvStep ==
  ASSUME NobodyTurnsOn, TypeOK, CrashInv, Next PROVE CrashInv'
<1> USE DEF CrashInv, CrashLoopEndsAutoStart, TypeOK
<1>0. \A r \in Ids \cup Internal \cup {"none"} : KindOf(r) \notin {"ChangeMap", "MapReset"}
  <2> SUFFICES ASSUME NEW r \in Ids \cup Internal \cup {"none"}
               PROVE  KindOf(r) \notin {"ChangeMap", "MapReset"}
    OBVIOUS
  <2>1. CASE r \in Ids
    <3>1. req[r] \in Shapes \/ req[r] = NoShape
      BY <2>1 DEF ClientType
    <3>2. req[r].kind \notin {"ChangeMap", "MapReset"}
      BY <3>1 DEF NobodyTurnsOn, NoShape
    <3> QED BY <2>1, <3>2 DEF KindOf
  <2>2. CASE r \notin Ids
    BY <2>2 DEF KindOf
  <2> QED BY <2>1, <2>2
<1>1. KindOf(cur) \notin {"ChangeMap", "MapReset"}
  BY <1>0 DEF ManagerType
<1>2. CASE DrainExit \/ DrainHealth \/ reconcileProcessHealth \/ WaitGone \/ WaitExit
  <2>1. /\ pc' # "generate"
        /\ UNCHANGED <<crashLoop, autostart>> \/ \E q \in BOOLEAN : CountCrash(q)
    BY <1>2 DEF DrainExit, DrainHealth, handleHealthEvent, reconcileProcessHealth, WaitGone,
         WaitExit, finalizeStopped, Waiting
  <2>2. ASSUME NEW q \in BOOLEAN, CountCrash(q), crashLoop' = MaxCrashes PROVE ~autostart'
    <3>1. autostart' = (autostart /\ crashLoop' < MaxCrashes)
      BY <2>2 DEF CountCrash
    <3>2. ~(crashLoop' < MaxCrashes)
      BY <2>2 DEF MaxCrashes
    <3> QED BY <3>1, <3>2
  <2> QED BY <2>1, <2>2
<1>3. CASE DrainReady \/ WaitReady
  <2>1. pc' # "generate" /\ UNCHANGED autostart /\ crashLoop' \in {0, crashLoop}
    BY <1>3 DEF DrainReady, WaitReady, handleReadyEvent
  <2> QED BY <2>1 DEF MaxCrashes
<1>4. CASE nextRequest
  <2>1. pc' # "generate" /\ UNCHANGED crashLoop
    BY <1>4 DEF nextRequest, Begin
  <2>2. autostart' = autostart \/ autostart' = FALSE
    BY <1>4 DEF nextRequest, Begin
  <2> QED BY <2>1, <2>2
<1>5. CASE WaitTimeout \/ AfterStop \/ GenNewMap
  <2>1. pc' # "generate" /\ UNCHANGED <<crashLoop, autostart>>
    BY <1>1, <1>5, StageTypes DEF WaitTimeout, AfterStop, GenNewMap
  <2> QED BY <2>1
<1>6. CASE LaunchFails \/ ExitHook \/ Shutdown \/ (\E i \in Ids : Stage(i) \/ Submit(i))
  <2>1. pc' # "generate" /\ UNCHANGED crashLoop
    BY <1>6 DEF LaunchFails, ExitHook, Shutdown, Sigterm, StopLifecycleManager, DoExit,
         forceFactorioProcessExit, Stage, Submit
  <2>2. autostart' => autostart
    <3>1. CASE LaunchFails
      BY <3>1 DEF LaunchFails
    <3>2. CASE ExitHook \/ Shutdown
      BY <3>2 DEF ExitHook, Shutdown, Sigterm, StopLifecycleManager, DoExit,
           forceFactorioProcessExit
    <3>3. CASE \E i \in Ids : Stage(i) \/ Submit(i)
      BY <3>3 DEF Stage, Submit
    <3> QED BY <1>6, <3>1, <3>2, <3>3
  <2> QED BY <2>1, <2>2
<1>7. CASE \/ checkStartupTimeout \/ checkSoftModAfterUpdate \/ cancelPendingRequests
           \/ executeStop \/ StartRefused \/ executeStart \/ LaunchFactorio
           \/ RegisterProcess \/ ArmSoftMod \/ Finish
  <2>1. pc' # "generate" /\ UNCHANGED <<crashLoop, autostart>>
    BY <1>7 DEF checkStartupTimeout, checkSoftModAfterUpdate, cancelPendingRequests,
         executeStop, StartRefused, executeStart, LaunchFactorio, RegisterProcess,
         ArmSoftMod, Finish
  <2> QED BY <2>1
<1>8. CASE \/ SetModOperationInProgress \/ SetAutolaunch \/ SetUpdateInProgress
           \/ Updater \/ Terminated
           \/ (\E g \in Gens, r \in Reports : Notify(g, r))
           \/ (\E g \in Gens : NotifySoftModDetected(g) \/ ProcessExits(g))
  <2>1. UNCHANGED <<pc, crashLoop, autostart>>
    BY <1>8 DEF NobodyTurnsOn, SetModOperationInProgress, SetAutolaunch, SetUpdateInProgress,
         Updater, WaitFactQuit, WaitFactQuitTimeout, LockInstallation, InstallFails,
         MarkFactorioUpdated, ClearUpdateInProgress, UpdaterStep, Terminated, vars,
         Notify, NotifySoftModDetected, ProcessExits
  <2> QED BY <2>1
<1> QED
  BY <1>2, <1>3, <1>4, <1>5, <1>6, <1>7, <1>8 DEF Next, Manager, Others

\* With nobody turning auto-start on again, three startup crashes in a row end the
\* automatic launches, whatever is asked for, reported or updated meanwhile
\* (finalizeStopped, handleReadyEvent).
THEOREM CrashLoopsEnd ==
  ASSUME NobodyTurnsOn PROVE Spec => []CrashLoopEndsAutoStart
<1>1. Init => CrashInv
  BY DEF Init, CrashInv, CrashLoopEndsAutoStart, MaxCrashes
<1>2. TypeOK /\ CrashInv /\ [Next]_vars => CrashInv'
  <2>1. CASE Next
    BY <2>1, CrashInvStep
  <2>2. CASE UNCHANGED vars
    BY <2>2 DEF vars, CrashInv, CrashLoopEndsAutoStart
  <2> QED BY <2>1, <2>2
<1>3. CrashInv => CrashLoopEndsAutoStart
  BY DEF CrashInv
<1> QED BY <1>1, <1>2, <1>3, TypeCorrect, PTL DEF Spec

-----------------------------------------------------------------------------
(* Refinement *)

\* Every step is a step of the abstract server, or leaves it alone.
LEMMA AbstractStep ==
  ASSUME TypeOK, ProcessInv, ProcessInv', Next
  PROVE  Server!Next \/ UNCHANGED Server!vars
<1> USE DEF TypeOK, Server!Next, Server!vars, Alive, Born
<1>1. CASE DrainReady \/ WaitReady
  <2>1. UNCHANGED <<gen, proc>> /\ pc # "spawn"
    BY <1>1 DEF DrainReady, WaitReady, handleReadyEvent, Waiting
  <2>2. phase' = phase \/ (phase = "starting" /\ phase' = "running")
    BY <1>1 DEF DrainReady, WaitReady, handleReadyEvent
  <2> QED BY <2>1, <2>2 DEF ProcessInv, Server!Ready
<1>2. CASE DrainExit \/ WaitExit \/ DrainHealth \/ reconcileProcessHealth \/ WaitGone
  <2>1. UNCHANGED proc /\ pc # "spawn"
    BY <1>2 DEF DrainExit, WaitExit, DrainHealth, reconcileProcessHealth, WaitGone, Waiting
  <2>2. gen' = gen /\ (phase' = phase \/ phase' = "stopped")
    BY <1>2, FinalizeProcess DEF DrainExit, WaitExit, DrainHealth, handleHealthEvent,
         reconcileProcessHealth, WaitGone
  <2>3. CASE phase' = phase
    BY <2>1, <2>2, <2>3
  <2>4. CASE phase # "stopped" /\ phase' = "stopped"
    BY <2>1, <2>2, <2>4 DEF ProcessInv, Server!Closed
  <2> QED BY <2>2, <2>3, <2>4
<1>3. CASE \/ checkStartupTimeout \/ checkSoftModAfterUpdate \/ nextRequest \/ WaitTimeout
           \/ AfterStop \/ GenNewMap \/ StartRefused \/ ArmSoftMod \/ Finish
           \/ cancelPendingRequests \/ RegisterProcess \/ ExitHook
  <2>1. UNCHANGED <<phase, gen, proc>>
    BY <1>3 DEF checkStartupTimeout, checkSoftModAfterUpdate, nextRequest, WaitTimeout,
         AfterStop, GenNewMap, StartRefused, ArmSoftMod, Finish, cancelPendingRequests,
         RegisterProcess, ExitHook
  <2> QED BY <2>1
<1>4. CASE executeStop
  <2>1. /\ UNCHANGED <<gen, proc>> /\ pc # "spawn"
        /\ phase' = phase \/ (phase # "stopped" /\ phase' = "stopping")
    BY <1>4 DEF executeStop
  <2> QED BY <2>1 DEF ProcessInv, ManagerType, Phases, Server!StopBegins
<1>5. CASE executeStart
  <2>1. /\ phase = "stopped" /\ phase' = "starting" /\ gen' = gen + 1 /\ UNCHANGED proc
    BY <1>5 DEF executeStart, mayStart
  <2> QED BY <2>1 DEF ProcessInv, Server!Launch
<1>6. CASE LaunchFails
  <2>1. pc = "spawn" /\ phase' = "stopped" /\ UNCHANGED <<gen, proc>>
    BY <1>6 DEF LaunchFails
  <2> QED BY <2>1 DEF ProcessInv, Server!SpawnFails
<1>7. CASE LaunchFactorio
  <2>1. pc = "spawn" /\ proc' = [proc EXCEPT ![gen] = "alive"] /\ UNCHANGED <<phase, gen>>
    BY <1>7 DEF LaunchFactorio
  <2>2. gen \in Gens /\ proc[gen] = "none" /\ phase = "starting"
    BY <2>1 DEF ProcessInv
  <2>3. proc'[gen] = "alive" /\ \A g \in Gens : g # gen => proc'[g] = proc[g]
    BY <2>1, <2>2 DEF ProcessType
  <2>4. \A g \in Gens : proc[g] # "alive"
    BY <2>2 DEF ProcessInv
  <2>5. Alive' = {gen} /\ Born' = Born \cup {gen}
    BY <2>2, <2>3, <2>4
  <2> QED BY <2>1, <2>2, <2>4, <2>5 DEF Server!Spawn
<1>8. ASSUME NEW g \in Gens, ProcessExits(g) PROVE Server!Next
  <2>1. proc[g] = "alive" /\ proc' = [proc EXCEPT ![g] = "dead"] /\ UNCHANGED <<phase, gen>>
    BY <1>8 DEF ProcessExits
  <2>2. proc'[g] = "dead" /\ \A h \in Gens : h # g => proc'[h] = proc[h]
    BY <2>1 DEF ProcessType
  <2>3. Alive' = {} /\ Born' = Born /\ Alive # {}
    BY <2>1, <2>2 DEF ProcessInv
  <2> QED BY <2>1, <2>3 DEF Server!Die
<1>9. CASE \/ SetModOperationInProgress \/ SetAutolaunch \/ SetUpdateInProgress
           \/ Updater \/ Shutdown \/ Terminated
           \/ (\E i \in Ids : Stage(i) \/ Submit(i))
           \/ (\E g \in Gens, r \in Reports : Notify(g, r))
           \/ (\E g \in Gens : NotifySoftModDetected(g))
  <2>1. UNCHANGED <<phase, gen, proc>>
    BY <1>9 DEF SetModOperationInProgress, SetAutolaunch, SetUpdateInProgress,
         Updater, WaitFactQuit, WaitFactQuitTimeout, LockInstallation, InstallFails,
         MarkFactorioUpdated, ClearUpdateInProgress, UpdaterStep, Shutdown, Sigterm,
         StopLifecycleManager, DoExit, forceFactorioProcessExit, Terminated, vars,
         Stage, Submit, Notify, NotifySoftModDetected
  <2> QED BY <2>1
<1> QED
  BY <1>1, <1>2, <1>3, <1>4, <1>5, <1>6, <1>7, <1>8, <1>9 DEF Next, Manager, Others

\* The controller of lifecycle.go, with lost, late and stale reports, timeouts and
\* failed launches, implements the server that the rest of the program relies on.
THEOREM Refinement == Spec => ImplementsServer
<1>1. Init => Server!Init
  BY DEF Init, Server!Init, Alive, Born
<1>2. TypeOK /\ ProcessInv /\ ProcessInv' /\ [Next]_vars => [Server!Next]_(Server!vars)
  <2>1. CASE Next
    BY <2>1, AbstractStep
  <2>2. CASE UNCHANGED vars
    BY <2>2 DEF vars, Server!vars, Alive, Born
  <2> QED BY <2>1, <2>2
<1> QED
  BY <1>1, <1>2, TypeCorrect, ProcessInvariant, PTL DEF Spec, ImplementsServer, Server!Spec
=============================================================================
