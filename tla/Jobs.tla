-------------------------------- MODULE Jobs --------------------------------
(***************************************************************************)
(* The operation store of the web control panel (webcontrol/jobs.go) and   *)
(* the goroutine that carries an accepted operation out.                   *)
(*                                                                         *)
(* A job is one file.  save writes a temporary file, renames it over the   *)
(* job's file and syncs the directory; it may fail before the rename (the  *)
(* old record stays) or after it (the new record is there, but the caller  *)
(* is told of an error).  The process may end between any two steps;       *)
(* NewJobs then reads the files of its predecessor.                        *)
(*                                                                         *)
(* Every method of Jobs holds j.mu, so each is one step.  Time stamps,     *)
(* results and messages are left out; List and Get only read.              *)
(*                                                                         *)
(* A definition whose comment says "Fault" is a wrong variant of the one   *)
(* that follows it and is used by no specification.                        *)
(***************************************************************************)
EXTENDS Naturals, FiniteSets

CONSTANTS
  JobIds,     \* random tokens
  Keys,       \* digests of actor, server and idempotency key
  Payloads,   \* digests of action and parameters
  Restarts,   \* the payloads whose action is "chatwire-restart"
  NoJob       \* no identity

ASSUME JobsConstants == Restarts \subseteq Payloads /\ NoJob \notin JobIds

Request == [key : Keys, hash : Payloads]

States == {"absent", "queued", "running", "waiting_for_empty", "waiting_for_restart",
           "succeeded", "failed", "unknown"}
JobPhases == {"absent", "accepted", "executing", "waiting", "waiting_for_ready", "exiting",
              "complete", "interrupted", "storage_error", "reconnected"}
Record == [state : States, phase : JobPhases]

R(s, p) == [state |-> s, phase |-> p]
Absent == R("absent", "absent")

VARIABLES
  of,         \* key and hash of a job, which never change; as an identity is a
              \* fresh token, what it will be used for is settled from the start
  disk,       \* the files
  items, keys, busy, pending,   \* the fields of Jobs
  up,         \* there is a process, and its store was loaded
  worker,     \* progress of the goroutine of a job
  result,     \* what that goroutine is about to record
  ran, good,  \* history: its effects have begun; they were completed, or the
              \* exit checkpoint of a restart was reached
  previous    \* history: jobs of earlier processes

store == <<items, keys, busy, pending>>
work  == <<worker, result>>
hist  == <<ran, good, previous>>
vars  == <<of, disk, store, up, work, hist>>

Unfinished == {"queued", "running", "waiting_for_empty"}

Init ==
  /\ of \in [JobIds -> Request]
  /\ disk = [j \in JobIds |-> Absent]
  /\ items = [j \in JobIds |-> Absent]
  /\ keys = [k \in Keys |-> NoJob]
  /\ busy = NoJob /\ pending = {} /\ up = TRUE
  /\ worker = [j \in JobIds |-> "none"]
  /\ result = [j \in JobIds |-> Absent]
  /\ ran = [j \in JobIds |-> FALSE] /\ good = [j \in JobIds |-> FALSE]
  /\ previous = {}

-----------------------------------------------------------------------------
(* Storage *)

\* "lost": an error before the rename; "unsynced": an error after it.
SaveOutcomes == {"ok", "lost", "unsynced"}

\* Fault: the temporary file is removed without having been renamed.
save_NotRenamed(d, j, v, e) == d

save(d, j, v, e) == IF e = "lost" THEN d ELSE [d EXCEPT ![j] = v]

-----------------------------------------------------------------------------
(* Start *)

\* A new key, and no active operation.  Otherwise Start changes nothing: it answers a
\* known key with its job, or with an error when the payload differs, and so does Lookup.
mayAccept(r) == up /\ keys[r.key] = NoJob /\ busy = NoJob

\* The files after the outcomes of the jobs S were written again.
Repaired(S) == [j \in JobIds |-> IF j \in S THEN items[j] ELSE disk[j]]

\* Unsaved outcomes are written first; the first failure ends Start (503).
RepairFails(r) ==
  /\ mayAccept(r)
  /\ \E done \in SUBSET pending, e \in SaveOutcomes \ {"ok"} : \E j \in pending \ done :
       /\ disk' = save(Repaired(done), j, items[j], e)
       /\ pending' = pending \ done
  /\ UNCHANGED <<of, items, keys, busy, up, work, hist>>

Fresh(j) == disk[j] = Absent /\ items[j] = Absent

\* The acceptance cannot be written (500).
PersistFails(r) ==
  /\ mayAccept(r)
  /\ \E j \in JobIds, e \in SaveOutcomes \ {"ok"} :
       /\ Fresh(j) /\ of[j] = r
       /\ disk' = save(Repaired(pending), j, R("queued", "accepted"), e)
  /\ pending' = {}
  /\ UNCHANGED <<of, items, keys, busy, up, work, hist>>

Accept(r) ==
  /\ mayAccept(r)
  /\ \E j \in JobIds :
       /\ Fresh(j) /\ of[j] = r
       /\ disk' = save(Repaired(pending), j, R("queued", "accepted"), "ok")
       /\ items' = [items EXCEPT ![j] = R("queued", "accepted")]
       /\ keys' = [keys EXCEPT ![r.key] = j]
       /\ busy' = j
       /\ worker' = [worker EXCEPT ![j] = "begin"]
  /\ pending' = {}
  /\ UNCHANGED <<of, up, result, hist>>

Start(r) == RepairFails(r) \/ PersistFails(r) \/ Accept(r)

-----------------------------------------------------------------------------
(* The goroutine of an accepted job *)

\* Update, with the outcome e of its save.
Update(j, v, e) ==
  /\ disk' = save(disk, j, v, e)
  /\ items' = IF e = "ok" THEN [items EXCEPT ![j] = v] ELSE items

Goto(j, l) == worker' = [worker EXCEPT ![j] = l]

\* What the goroutine will hand to finish.
Report(j, v) == result' = [result EXCEPT ![j] = v]

\* Fault: the goroutine returns without giving up its place.
Begun_Leaves(j, e) == Goto(j, IF e = "ok" THEN "run" ELSE "none") /\ UNCHANGED result

\* An operation whose start cannot be persisted is not executed.
Begun(j, e) ==
  IF e = "ok" THEN Goto(j, "run") /\ UNCHANGED result
  ELSE Goto(j, "finish") /\ Report(j, R("failed", "storage_error"))

Begin(j) ==
  /\ worker[j] = "begin"
  /\ \E e \in SaveOutcomes : Update(j, R("running", "executing"), e) /\ Begun(j, e)
  /\ UNCHANGED <<of, keys, busy, pending, up, hist>>

\* A parameter is refused, ControlLock is taken by a Discord command, or execute()
\* panics before it has done anything.
Refuse(j) ==
  /\ worker[j] = "run"
  /\ Goto(j, "finish")
  /\ \E v \in {R("failed", "complete"), R("unknown", "interrupted")} : Report(j, v)
  /\ UNCHANGED <<of, disk, store, up, hist>>

\* The wait for an empty server and the wait for readiness are noted; whether
\* that could be saved is ignored.
Progress(j) ==
  /\ \E e \in SaveOutcomes :
       \/ worker[j] = "run" /\ Update(j, R("waiting_for_empty", "waiting"), e)
       \/ worker[j] = "ran" /\ Update(j, R("running", "waiting_for_ready"), e)
  /\ UNCHANGED <<of, keys, busy, pending, up, work, hist>>

\* execute() does what the job is for.
Execute(j) ==
  /\ worker[j] = "run" /\ of[j].hash \notin Restarts
  /\ Goto(j, "ran")
  /\ ran' = [ran EXCEPT ![j] = TRUE]
  /\ UNCHANGED <<of, disk, store, up, result, good, previous>>

\* The lifecycle controller has stopped the server and calls BeforeExit; when the
\* checkpoint is saved ChatWire exits, otherwise the operation fails.
BeforeExit(j) ==
  /\ worker[j] = "run" /\ of[j].hash \in Restarts
  /\ ran' = [ran EXCEPT ![j] = TRUE]
  /\ good' = [good EXCEPT ![j] = TRUE]
  /\ \E e \in SaveOutcomes :
       /\ Update(j, R("waiting_for_restart", "exiting"), e)
       /\ IF e = "ok" THEN Goto(j, "exiting") /\ UNCHANGED result
          ELSE Goto(j, "finish") /\ Report(j, R("failed", "complete"))
  /\ UNCHANGED <<of, keys, busy, pending, up, previous>>

\* run returns, with success, an error or an unknown outcome, or panics.
Complete(j) ==
  /\ worker[j] = "ran"
  /\ Goto(j, "finish")
  /\ \/ Report(j, R("succeeded", "complete")) /\ good' = [good EXCEPT ![j] = TRUE]
     \/ UNCHANGED good /\ \E v \in {R("failed", "complete"), R("unknown", "complete"),
                                    R("unknown", "interrupted")} : Report(j, v)
  /\ UNCHANGED <<of, disk, store, up, ran, previous>>

\* Fault: the outcome is shown as it is, whether or not it was saved.
Outcome_Unsaved(v, e) == v

\* What finish shows: an outcome that could not be saved is unknown, except that of
\* an operation that was never executed.
Outcome(v, e) ==
  IF e = "ok" THEN v
  ELSE R(IF v.phase = "storage_error" THEN v.state ELSE "unknown", "storage_error")

finish(j) ==
  /\ worker[j] = "finish"
  /\ \E e \in SaveOutcomes :
       /\ disk' = save(disk, j, result[j], e)
       /\ items' = [items EXCEPT ![j] = Outcome(result[j], e)]
       /\ pending' = IF e = "ok" THEN pending ELSE pending \cup {j}
  /\ Goto(j, "release")
  /\ UNCHANGED <<of, keys, busy, up, result, hist>>

Release(j) ==
  /\ worker[j] = "release"
  /\ busy' = IF busy = j THEN NoJob ELSE busy
  /\ Goto(j, "none")
  /\ UNCHANGED <<of, disk, items, keys, pending, up, result, hist>>

Worker(j) ==
  Begin(j) \/ Refuse(j) \/ Progress(j) \/ Execute(j) \/ BeforeExit(j) \/ Complete(j)
    \/ finish(j) \/ Release(j)

-----------------------------------------------------------------------------
(* Restarts *)

\* The process exits, is killed or crashes; a restart job in "exiting" makes it exit.
Crash ==
  /\ up /\ up' = FALSE
  /\ items' = [j \in JobIds |-> Absent]
  /\ keys' = [k \in Keys |-> NoJob]
  /\ busy' = NoJob /\ pending' = {}
  /\ worker' = [j \in JobIds |-> "none"]
  /\ previous' = {j \in JobIds : disk[j] # Absent}
  /\ UNCHANGED <<of, disk, result, ran, good>>

\* Fault: any unfinished restart job counts as done.
Reopened_AnyState(j) ==
  IF of[j].hash \in Restarts /\ disk[j].state \in Unfinished \cup {"waiting_for_restart"}
  THEN R("succeeded", "reconnected")
  ELSE IF disk[j].state \in Unfinished THEN R("unknown", disk[j].phase) ELSE disk[j]

\* Fault: a state that no reader of jobs knows.
Reopened_Interrupted(j) ==
  IF disk[j].state \in Unfinished THEN R("interrupted", disk[j].phase) ELSE disk[j]

\* Fault: only a job that was being executed is given an outcome.
Reopened_Running(j) ==
  IF disk[j].state = "running" THEN R("unknown", disk[j].phase) ELSE disk[j]

\* What NewJobs makes of a job of an earlier process.
Reopened(j) ==
  CASE disk[j].state \in Unfinished -> R("unknown", disk[j].phase)
    [] disk[j].state = "waiting_for_restart" /\ of[j].hash \in Restarts
         -> R("succeeded", "reconnected")
    [] OTHER -> disk[j]

\* Fault: jobs with an unknown outcome are not kept.
Kept_Known(d, j) == d[j] # Absent /\ d[j].state # "unknown"

Kept(d, j) == d[j] # Absent

\* Files are read in the order of their random names, each is written back when
\* it changes, and the last one read owns its key.
NewJobs ==
  /\ ~up
  /\ \E S \in SUBSET JobIds :
       /\ disk' = [j \in JobIds |-> IF j \in S THEN Reopened(j) ELSE disk[j]]
       /\ \/ UNCHANGED <<items, keys, up>>          \* a write fails
          \/ /\ S = JobIds /\ up' = TRUE
             /\ items' = [j \in JobIds |-> IF Kept(disk', j) THEN disk'[j] ELSE Absent]
             /\ keys' \in [Keys -> JobIds \cup {NoJob}]
             /\ \A k \in Keys :
                  LET own == {j \in JobIds : Kept(disk', j) /\ of[j].key = k}
                  IN  IF own = {} THEN keys'[k] = NoJob ELSE keys'[k] \in own
  /\ UNCHANGED <<of, busy, pending, work, hist>>

-----------------------------------------------------------------------------
Next ==
  \/ \E r \in Request : Start(r)
  \/ \E j \in JobIds : Worker(j)
  \/ Crash
  \/ NewJobs

Spec == Init /\ [][Next]_vars

\* The goroutine of a job is scheduled; how long execute() takes, and whether storage
\* works, is left open.
FairSpec ==
  Spec /\ \A j \in JobIds : WF_vars(Begin(j)) /\ WF_vars(finish(j)) /\ WF_vars(Release(j))

-----------------------------------------------------------------------------
(* Properties *)

Workers == {"none", "begin", "run", "ran", "exiting", "finish", "release"}

\* The store, its files, the goroutines and the history have their types.
TypeOK ==
  /\ of \in [JobIds -> Request]
  /\ disk \in [JobIds -> Record] /\ items \in [JobIds -> Record]
  /\ keys \in [Keys -> JobIds \cup {NoJob}]
  /\ busy \in JobIds \cup {NoJob} /\ pending \in SUBSET JobIds /\ up \in BOOLEAN
  /\ worker \in [JobIds -> Workers] /\ result \in [JobIds -> Record]
  /\ ran \in [JobIds -> BOOLEAN] /\ good \in [JobIds -> BOOLEAN]
  /\ previous \in SUBSET JobIds

\* An idempotency key has effects at most once, whatever is retried, whatever fails
\* to be written and however often the process is restarted.
AtMostOnce ==
  \A i, j \in JobIds : ran[i] /\ ran[j] /\ of[i].key = of[j].key => i = j

\* "Start persists acceptance before calling run": effects always have a record.
AcceptedBeforeRun == \A j \in JobIds : ran[j] => disk[j] # Absent

\* At most one goroutine works on the server, and the store knows which.
OneAtATime == \A j \in JobIds : worker[j] # "none" => busy = j

\* What Start promises of an operation it lets in: its acceptance is on disk before its
\* effects begin, no other operation of its key has effects, and it has the server for
\* itself (Start, save and the goroutine of a job).
Admission == AcceptedBeforeRun /\ AtMostOnce /\ OneAtATime

\* What a reader is told is so: a success was reached, and for a restart of ChatWire
\* a later process tells; an operation that "was not executed" had no effect.
OutcomeTrue ==
  \A j \in JobIds : up =>
    /\ items[j].state = "succeeded" => good[j] /\ (of[j].hash \in Restarts => j \in previous)
    /\ items[j] = R("failed", "storage_error") => ~ran[j]

\* A success a reader has seen is never withdrawn, neither by a later step nor by
\* a restart.
SuccessKept ==
  [][\A j \in JobIds :
       up /\ items[j].state = "succeeded" =>
         disk'[j].state = "succeeded" /\ (up' => items'[j].state = "succeeded")]_vars

\* Neither a storage error nor a panic of the operation keeps the panel closed: a job
\* that is not being executed gives up its place.
AdmissionReleased ==
  \A j \in JobIds : busy = j ~> busy # j \/ worker[j] \in {"run", "ran", "exiting"}

-----------------------------------------------------------------------------
(* Refinement *)

OpenStates == Unfinished \cup {"waiting_for_restart"}

\* What Get tells of a job.
Told(j) == IF items[j] = Absent THEN "nothing"
           ELSE IF items[j].state \in OpenStates THEN "open" ELSE items[j].state

Keyed     == [j \in JobIds |-> of[j].key]
Recorded  == {j \in JobIds : disk[j] # Absent}
Effective == {j \in JobIds : ran[j]}
Reached   == {j \in JobIds : good[j]}
Answers   == [j \in JobIds |-> Told(j)]

\* The jobs that are shown as succeeded, or would be by the next process.
Lasting ==
  {j \in JobIds : disk[j].state = "succeeded" /\ (up => items[j].state = "succeeded")}

Ledger == INSTANCE JobLedger WITH key <- Keyed, recorded <- Recorded, begun <- Effective,
                                  reached <- Reached, kept <- Lasting, told <- Answers

\* The store, with writes that fail, are repeated or are lost, and with restarts that
\* find what earlier processes left, keeps its promises to the clients of the panel.
ImplementsLedger == Ledger!Spec

-----------------------------------------------------------------------------
(* The inductive invariant, for the proofs *)

\* Nothing of the store survives the process.
DownInv ==
  ~up => busy = NoJob /\ pending = {}
         /\ \A j \in JobIds : worker[j] = "none" /\ items[j] = Absent

\* A goroutine works on the active job, whose key is taken, whose acceptance is on
\* disk, and whose key no other job has used.
WorkerInv ==
  \A j \in JobIds : worker[j] # "none" =>
    /\ busy = j /\ disk[j] # Absent /\ keys[of[j].key] # NoJob
    /\ \A i \in JobIds : i # j /\ ran[i] => of[i].key # of[j].key

\* finish is never asked to record an open outcome.
ResultInv ==
  \A j \in JobIds : worker[j] = "finish" =>
    /\ result[j].state \in {"succeeded", "failed", "unknown"}
    /\ result[j].state = "succeeded" => result[j].phase = "complete"

\* An outcome to be written again is one the store knows.
PendingInv == \A j \in pending : items[j] # Absent

\* A used key is on disk, and the store remembers it.
RanInv ==
  \A j \in JobIds : ran[j] => disk[j] # Absent /\ (up => keys[of[j].key] # NoJob)

\* A success that is shown is on disk, and no goroutine will write the job again.
SuccessInv ==
  \A j \in JobIds : items[j].state = "succeeded" =>
    disk[j].state = "succeeded" /\ worker[j] \in {"none", "release"}

JobsInv == TypeOK /\ DownInv /\ WorkerInv /\ ResultInv /\ PendingInv /\ RanInv /\ SuccessInv

\* A record of j that may be shown: see OutcomeTrue.
Truthful(j, v) ==
  /\ v.state = "succeeded" => good[j] /\ (of[j].hash \in Restarts => j \in previous)
  /\ v.state = "waiting_for_restart" => good[j]
  /\ v = R("failed", "storage_error") => ~ran[j]

\* Only truthful records are written, shown or about to be, and a process finds on
\* disk the jobs of earlier ones.
TruthInv ==
  /\ \A j \in JobIds :
       /\ Truthful(j, disk[j]) /\ Truthful(j, items[j])
       /\ worker[j] = "finish" => Truthful(j, result[j])
       /\ worker[j] \in {"begin", "run"} =>
            ~ran[j] /\ disk[j].state \in Unfinished /\ items[j].state \in Unfinished
       /\ worker[j] = "ran" => of[j].hash \notin Restarts
  /\ \A j \in previous : disk[j] # Absent
  /\ ~up => \A j \in JobIds : disk[j] # Absent => j \in previous

Active == {"begin", "run", "ran", "exiting", "finish"}

\* A job that is known is on disk, and so is its key to the store; it is open exactly as
\* long as a goroutine is to report on it.
KnownInv ==
  \A j \in JobIds :
    /\ items[j] # Absent => disk[j] # Absent /\ keys[of[j].key] # NoJob
    /\ items[j].state \in OpenStates <=> worker[j] \in Active
    /\ worker[j] = "ran" => ran[j]

\* Only a restart is left waiting for one.
Sensible(j, v) ==
  /\ v.state = "waiting_for_restart" => of[j].hash \in Restarts
  /\ v.state = "absent" => v = Absent

\* What an earlier process left has an outcome or gets one; what is still to be written
\* is no success.
LeftInv ==
  /\ \A j \in JobIds : Sensible(j, disk[j]) /\ Sensible(j, items[j])
  /\ \A j \in pending : items[j].state \in {"unknown", "failed"}

LedgerInv == KnownInv /\ LeftInv
=============================================================================
