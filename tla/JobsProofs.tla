----------------------------- MODULE JobsProofs -----------------------------
(***************************************************************************)
(* Theorems about Jobs, for any numbers of jobs, keys and payloads.  Every *)
(* part of JobsInv is shown to be preserved by every action on its own;    *)
(* the theorems then combine the parts.                                    *)
(***************************************************************************)
EXTENDS Jobs, TLAPS

USE DEF store, work, hist

\* The initial state satisfies the inductive invariant.
LEMMA InitInv == Init => JobsInv
BY JobsConstants DEF Init, JobsInv, TypeOK, DownInv, WorkerInv, ResultInv, PendingInv, RanInv,
   SuccessInv, Absent, R, Record, States, JobPhases, Workers, Request

\* The records the store and the goroutines write.
LEMMA Written ==
  /\ Absent \in Record
  /\ {R("queued", "accepted"), R("running", "executing"), R("failed", "storage_error"),
      R("failed", "complete"), R("unknown", "complete"), R("unknown", "interrupted"),
      R("succeeded", "complete"), R("succeeded", "reconnected"),
      R("waiting_for_empty", "waiting"), R("running", "waiting_for_ready"),
      R("waiting_for_restart", "exiting")} \subseteq Record \ {Absent}
BY DEF Absent, R, Record, States, JobPhases

\* save returns the files with at most the record of j replaced.
LEMMA SaveType ==
  ASSUME NEW d \in [JobIds -> Record], NEW j \in JobIds, NEW v \in Record, NEW e
  PROVE  save(d, j, v, e) \in [JobIds -> Record]
BY DEF save

\* So does writing outcomes again.
LEMMA RepairedType ==
  ASSUME TypeOK, NEW S PROVE Repaired(S) \in [JobIds -> Record]
BY DEF TypeOK, Repaired

\* What finish shows is a record.
LEMMA OutcomeType ==
  ASSUME NEW v \in Record, NEW e PROVE Outcome(v, e) \in Record
BY DEF Outcome, Record, R, States, JobPhases

\* So is what NewJobs makes of a file.
LEMMA ReopenedType == ASSUME TypeOK, NEW j \in JobIds PROVE Reopened(j) \in Record
BY DEF TypeOK, Reopened, Record, R, States, JobPhases

\* Every action keeps the types.
LEMMA TypeStep == ASSUME TypeOK, [Next]_vars PROVE TypeOK'
<1> USE JobsConstants
<1> USE DEF TypeOK, Workers
<1>2. ASSUME NEW r \in Request, RepairFails(r) PROVE TypeOK'
  <2>1. PICK done \in SUBSET pending, e \in SaveOutcomes \ {"ok"}, j \in JobIds :
           disk' = save(Repaired(done), j, items[j], e) /\ pending' = pending \ done
    BY <1>2 DEF RepairFails
  <2>2. items[j] \in Record
    OBVIOUS
  <2>3. disk' \in [JobIds -> Record]
    BY <2>1, <2>2, SaveType, RepairedType
  <2>4. pending' \in SUBSET JobIds
    BY <2>1
  <2> QED BY <1>2, <2>3, <2>4 DEF RepairFails
<1>3. ASSUME NEW r \in Request, PersistFails(r) PROVE TypeOK'
  <2>1. PICK j \in JobIds, e \in SaveOutcomes \ {"ok"} :
           disk' = save(Repaired(pending), j, R("queued", "accepted"), e)
    BY <1>3 DEF PersistFails
  <2>2. R("queued", "accepted") \in Record
    BY Written
  <2>3. disk' \in [JobIds -> Record]
    BY <2>1, <2>2, SaveType, RepairedType
  <2> QED BY <1>3, <2>3 DEF PersistFails
<1>4. ASSUME NEW r \in Request, Accept(r) PROVE TypeOK'
  <2>1. r.key \in Keys
    BY DEF Request
  <2>2. R("queued", "accepted") \in Record
    BY Written
  <2>3. PICK j \in JobIds : disk' = save(Repaired(pending), j, R("queued", "accepted"), "ok")
    BY <1>4 DEF Accept
  <2>4. disk' \in [JobIds -> Record]
    BY <2>2, <2>3, SaveType, RepairedType
  <2> QED BY <1>4, <2>1, <2>2, <2>4 DEF Accept
<1>5. ASSUME NEW j \in JobIds, Begin(j) PROVE TypeOK'
  <2>1. PICK e \in SaveOutcomes : Update(j, R("running", "executing"), e) /\ Begun(j, e)
    BY <1>5 DEF Begin
  <2>2. disk' \in [JobIds -> Record] /\ items' \in [JobIds -> Record]
    BY <2>1, SaveType, Written DEF Update
  <2>3. worker' \in [JobIds -> Workers]
    BY <2>1 DEF Begun, Goto
  <2>4. R("failed", "storage_error") \in Record
    BY Written
  <2>5. result' \in [JobIds -> Record]
    BY <2>1, <2>4 DEF Begun, Report
  <2> QED BY <1>5, <2>2, <2>3, <2>5 DEF Begin
<1>6. ASSUME NEW j \in JobIds, Refuse(j) PROVE TypeOK'
  BY <1>6, Written DEF Refuse, Goto, Report
<1>7. ASSUME NEW j \in JobIds, Progress(j) PROVE TypeOK'
  <2>1. PICK e \in SaveOutcomes, v \in Record : Update(j, v, e)
    BY <1>7, Written DEF Progress
  <2>2. disk' \in [JobIds -> Record] /\ items' \in [JobIds -> Record]
    BY <2>1, SaveType DEF Update
  <2> QED BY <1>7, <2>2 DEF Progress
<1>8. ASSUME NEW j \in JobIds, Execute(j) PROVE TypeOK'
  BY <1>8 DEF Execute, Goto
<1>9. ASSUME NEW j \in JobIds, BeforeExit(j) PROVE TypeOK'
  <2>1. PICK e \in SaveOutcomes :
           /\ Update(j, R("waiting_for_restart", "exiting"), e)
           /\ IF e = "ok" THEN Goto(j, "exiting") /\ UNCHANGED result
              ELSE Goto(j, "finish") /\ Report(j, R("failed", "complete"))
    BY <1>9 DEF BeforeExit
  <2>2. disk' \in [JobIds -> Record] /\ items' \in [JobIds -> Record]
    BY <2>1, SaveType, Written DEF Update
  <2>3. worker' \in [JobIds -> Workers] /\ result' \in [JobIds -> Record]
    BY <2>1, Written DEF Goto, Report
  <2> QED BY <1>9, <2>2, <2>3 DEF BeforeExit
<1>10. ASSUME NEW j \in JobIds, Complete(j) PROVE TypeOK'
  <2>1. result' \in [JobIds -> Record]
    BY <1>10, Written DEF Complete, Report
  <2>2. good' \in [JobIds -> BOOLEAN]
    BY <1>10 DEF Complete
  <2> QED BY <1>10, <2>1, <2>2 DEF Complete, Goto
<1>11. ASSUME NEW j \in JobIds, finish(j) PROVE TypeOK'
  BY <1>11, SaveType, OutcomeType DEF finish, Goto
<1>12. ASSUME NEW j \in JobIds, Release(j) PROVE TypeOK'
  BY <1>12 DEF Release, Goto
<1>13. CASE Crash
  BY <1>13, Written DEF Crash
<1>14. CASE NewJobs
  <2>1. disk' \in [JobIds -> Record]
    BY <1>14, ReopenedType DEF NewJobs
  <2>4. items' = items \/ items' = [j \in JobIds |-> IF Kept(disk', j) THEN disk'[j] ELSE Absent]
    BY <1>14 DEF NewJobs
  <2>2. items' \in [JobIds -> Record]
    BY <2>1, <2>4, Written
  <2>3. up' \in BOOLEAN /\ keys' \in [Keys -> JobIds \cup {NoJob}]
    BY <1>14 DEF NewJobs
  <2> QED BY <1>14, <2>1, <2>2, <2>3 DEF NewJobs
<1>15. CASE UNCHANGED vars
  BY <1>15 DEF vars
<1> QED BY <1>2, <1>3, <1>4, <1>5, <1>6, <1>7, <1>8, <1>9, <1>10, <1>11, <1>12, <1>13,
           <1>14, <1>15 DEF Next, Start, Worker

-----------------------------------------------------------------------------
(* Parts of the invariant, one lemma each *)

\* A saved file is the new record or the old one.
LEMMA Saved ==
  ASSUME NEW d \in [JobIds -> Record], NEW j \in JobIds, NEW v \in Record, NEW e, NEW i \in JobIds
  PROVE  /\ i # j => save(d, j, v, e)[i] = d[i]
         /\ save(d, j, v, e)[i] \in {d[i], v}
         /\ e # "lost" => save(d, j, v, e)[j] = v
BY DEF save

\* No action removes a file.
LEMMA FilesStay ==
  ASSUME JobsInv, [Next]_vars, NEW i \in JobIds, disk[i] # Absent PROVE disk'[i] # Absent
<1> USE DEF JobsInv, TypeOK
<1>0. \A S \in SUBSET pending : Repaired(S) \in [JobIds -> Record] /\ Repaired(S)[i] # Absent
  BY RepairedType DEF Repaired, PendingInv
<1>2. ASSUME NEW r \in Request, RepairFails(r) PROVE disk'[i] # Absent
  <2>1. PICK done \in SUBSET pending, e \in SaveOutcomes, j \in pending :
           disk' = save(Repaired(done), j, items[j], e)
    BY <1>2 DEF RepairFails
  <2>2. j \in JobIds /\ items[j] \in Record /\ items[j] # Absent
    BY DEF PendingInv
  <2>3. disk'[i] \in {Repaired(done)[i], items[j]}
    BY <2>1, <2>2, <1>0, Saved
  <2> QED BY <2>2, <2>3, <1>0
<1>3. ASSUME NEW r \in Request, PersistFails(r) PROVE disk'[i] # Absent
  <2>1. PICK j \in JobIds, e \in SaveOutcomes :
           disk' = save(Repaired(pending), j, R("queued", "accepted"), e)
    BY <1>3 DEF PersistFails
  <2>2. disk'[i] \in {Repaired(pending)[i], R("queued", "accepted")}
    BY <2>1, <1>0, Written, Saved
  <2> QED BY <2>2, <1>0, Written
<1>4. ASSUME NEW r \in Request, Accept(r) PROVE disk'[i] # Absent
  <2>1. PICK j \in JobIds : disk' = save(Repaired(pending), j, R("queued", "accepted"), "ok")
    BY <1>4 DEF Accept
  <2>2. disk'[i] \in {Repaired(pending)[i], R("queued", "accepted")}
    BY <2>1, <1>0, Written, Saved
  <2> QED BY <2>2, <1>0, Written
<1>5. ASSUME NEW j \in JobIds, NEW v \in Record, NEW e, v # Absent, Update(j, v, e)
      PROVE  disk'[i] # Absent
  BY <1>5, Saved DEF Update
<1>6. ASSUME NEW j \in JobIds, Begin(j) \/ Progress(j) \/ BeforeExit(j) PROVE disk'[i] # Absent
  BY <1>6, <1>5, Written DEF Begin, Progress, BeforeExit
<1>7. ASSUME NEW j \in JobIds, Refuse(j) \/ Execute(j) \/ Complete(j) \/ Release(j)
      PROVE  disk'[i] # Absent
  BY <1>7 DEF Refuse, Execute, Complete, Release
<1>8. ASSUME NEW j \in JobIds, finish(j) PROVE disk'[i] # Absent
  <2>1. result[j] # Absent
    BY <1>8 DEF finish, ResultInv, Absent, R
  <2>2. PICK e \in SaveOutcomes : disk' = save(disk, j, result[j], e)
    BY <1>8 DEF finish
  <2>3. disk'[i] \in {disk[i], result[j]}
    BY <2>2, Saved
  <2> QED BY <2>1, <2>3
<1>9. CASE Crash
  BY <1>9 DEF Crash
<1>10. CASE NewJobs
  <2>1. Reopened(i) # Absent
    BY DEF Reopened, Absent, R, Unfinished
  <2> QED BY <1>10, <2>1 DEF NewJobs
<1>11. CASE UNCHANGED vars
  BY <1>11 DEF vars
<1> QED BY <1>2, <1>3, <1>4, <1>6, <1>7, <1>8, <1>9, <1>10, <1>11 DEF Next, Start, Worker

\* What the goroutine of j leaves alone.
LEMMA WorkerFrame ==
  ASSUME JobsInv, NEW j \in JobIds, Worker(j)
  PROVE  /\ up /\ UNCHANGED <<of, keys, up, previous>> /\ worker[j] # "none"
         /\ busy = j /\ (busy' = busy \/ worker'[j] = "none")
         /\ \A i \in JobIds : i # j =>
               /\ worker[i] = "none" /\ worker'[i] = "none"
               /\ ran'[i] = ran[i] /\ items'[i] = items[i] /\ disk'[i] = disk[i]
<1> USE DEF JobsInv, TypeOK
<1>1. worker[j] # "none" /\ UNCHANGED <<of, keys, up, previous>>
  BY DEF Worker, Begin, Refuse, Progress, Execute, BeforeExit, Complete, finish, Release
<1>2. up /\ busy = j /\ \A i \in JobIds : i # j => worker[i] = "none"
  BY <1>1, Zenon DEF DownInv, WorkerInv
<1>3. busy' = busy \/ worker'[j] = "none"
  BY DEF Worker, Begin, Refuse, Progress, Execute, BeforeExit, Complete, finish, Release, Goto
<1>4. \A i \in JobIds : i # j => worker'[i] = worker[i]
  BY DEF Worker, Begin, Begun, Refuse, Progress, Execute, BeforeExit, Complete, finish, Release, Goto
<1>5. \A i \in JobIds : i # j => ran'[i] = ran[i]
  BY DEF Worker, Begin, Refuse, Progress, Execute, BeforeExit, Complete, finish, Release
<1>6. ASSUME NEW v, NEW e, Update(j, v, e), NEW i \in JobIds, i # j
      PROVE  items'[i] = items[i] /\ disk'[i] = disk[i]
  BY <1>6 DEF Update, save
<1>7. \A i \in JobIds : i # j => items'[i] = items[i] /\ disk'[i] = disk[i]
  <2>1. CASE Begin(j) \/ Progress(j) \/ BeforeExit(j)
    BY <2>1, <1>6 DEF Begin, Progress, BeforeExit
  <2>2. CASE Refuse(j) \/ Execute(j) \/ Complete(j) \/ Release(j)
    BY <2>2 DEF Refuse, Execute, Complete, Release
  <2>3. CASE finish(j)
    BY <2>3 DEF finish, save
  <2> QED BY <2>1, <2>2, <2>3 DEF Worker
<1> QED BY <1>1, <1>2, <1>3, <1>4, <1>5, <1>7

\* Without a process the store is empty.
LEMMA DownStep == ASSUME JobsInv, [Next]_vars PROVE DownInv'
<1> USE DEF JobsInv, DownInv
<1>1. ASSUME NEW r \in Request, Start(r) PROVE DownInv'
  BY <1>1 DEF Start, RepairFails, PersistFails, Accept, mayAccept
<1>2. ASSUME NEW j \in JobIds, Worker(j) PROVE DownInv'
  BY <1>2, WorkerFrame
<1>3. CASE Crash
  BY <1>3 DEF Crash
<1>4. CASE NewJobs
  BY <1>4 DEF NewJobs
<1>5. CASE UNCHANGED vars
  BY <1>5 DEF vars
<1> QED BY <1>1, <1>2, <1>3, <1>4, <1>5 DEF Next

\* A goroutine works on the active job, whose key no other job has used.
LEMMA WorkerStep == ASSUME JobsInv, [Next]_vars PROVE WorkerInv'
<1> USE DEF JobsInv, TypeOK
<1>0. \A i \in JobIds : disk[i] # Absent => disk'[i] # Absent
  BY FilesStay
<1>1. ASSUME NEW r \in Request, RepairFails(r) \/ PersistFails(r) PROVE WorkerInv'
  BY <1>1, <1>0 DEF RepairFails, PersistFails, WorkerInv
<1>2. ASSUME NEW r \in Request, Accept(r) PROVE WorkerInv'
  <2>1. PICK j \in JobIds :
           /\ of[j] = r
           /\ disk' = save(Repaired(pending), j, R("queued", "accepted"), "ok")
           /\ keys' = [keys EXCEPT ![r.key] = j]
           /\ busy' = j
           /\ worker' = [worker EXCEPT ![j] = "begin"]
    BY <1>2 DEF Accept
  <2>2. \A i \in JobIds : worker[i] = "none"
    BY <1>2, JobsConstants DEF Accept, mayAccept, WorkerInv
  <2>3. r.key \in Keys /\ keys[r.key] = NoJob /\ up
    BY <1>2 DEF Accept, mayAccept, Request
  <2>4. \A i \in JobIds : ran[i] => of[i].key # r.key
    BY <2>3 DEF RanInv
  <2>5. disk'[j] # Absent
    <3>1. disk' = [Repaired(pending) EXCEPT ![j] = R("queued", "accepted")]
      BY <2>1 DEF save
    <3>2. disk'[j] = R("queued", "accepted")
      BY <3>1 DEF Repaired
    <3> QED BY <3>2, Written
  <2>6. keys'[r.key] # NoJob
    BY <2>1, <2>3, JobsConstants
  <2>7. of' = of /\ ran' = ran
    BY <1>2 DEF Accept
  <2> QED BY <2>1, <2>2, <2>4, <2>5, <2>6, <2>7 DEF WorkerInv
<1>3. ASSUME NEW j \in JobIds, Worker(j) PROVE WorkerInv'
  BY <1>3, <1>0, WorkerFrame DEF WorkerInv
<1>4. CASE Crash
  BY <1>4 DEF Crash, WorkerInv
<1>5. CASE NewJobs
  BY <1>5 DEF NewJobs, WorkerInv, DownInv
<1>6. CASE UNCHANGED vars
  BY <1>6 DEF vars, WorkerInv
<1> QED BY <1>1, <1>2, <1>3, <1>4, <1>5, <1>6 DEF Next, Start

\* finish is only asked to record a final state.
LEMMA ResultStep == ASSUME JobsInv, [Next]_vars PROVE ResultInv'
<1> USE DEF JobsInv, TypeOK, ResultInv
<1>1. ASSUME NEW r \in Request, Start(r) PROVE ResultInv'
  BY <1>1 DEF Start, RepairFails, PersistFails, Accept
<1>2. ASSUME NEW j \in JobIds, Worker(j) PROVE ResultInv'
  <2>1. \A i \in JobIds : i # j => worker'[i] = "none"
    BY <1>2, WorkerFrame
  <2>2. worker'[j] = "finish" =>
          /\ result'[j].state \in {"succeeded", "failed", "unknown"}
          /\ result'[j].state = "succeeded" => result'[j].phase = "complete"
    <3>1. CASE Begin(j)
      BY <3>1 DEF Begin, Begun, Goto, Report, R
    <3>2. CASE Refuse(j)
      BY <3>2 DEF Refuse, Goto, Report, R
    <3>3. CASE Progress(j)
      BY <3>3 DEF Progress
    <3>4. CASE Execute(j) \/ finish(j) \/ Release(j)
      BY <3>4 DEF Execute, finish, Release, Goto
    <3>5. CASE BeforeExit(j)
      BY <3>5 DEF BeforeExit, Goto, Report, R
    <3>6. CASE Complete(j)
      BY <3>6 DEF Complete, Goto, Report, R
    <3> QED BY <1>2, <3>1, <3>2, <3>3, <3>4, <3>5, <3>6 DEF Worker
  <2> QED BY <2>1, <2>2
<1>3. CASE Crash
  BY <1>3 DEF Crash
<1>4. CASE NewJobs
  BY <1>4 DEF NewJobs
<1>5. CASE UNCHANGED vars
  BY <1>5 DEF vars
<1> QED BY <1>1, <1>2, <1>3, <1>4, <1>5 DEF Next

\* Only known outcomes wait to be written again.
LEMMA PendingStep == ASSUME JobsInv, [Next]_vars PROVE PendingInv'
<1> USE DEF JobsInv, TypeOK, PendingInv
<1>1. ASSUME NEW r \in Request, Start(r) PROVE PendingInv'
  BY <1>1 DEF Start, RepairFails, PersistFails, Accept
<1>2. ASSUME NEW j \in JobIds, NEW v \in Record, NEW e, v # Absent, Update(j, v, e)
      PROVE  \A i \in JobIds : items[i] # Absent => items'[i] # Absent
  BY <1>2 DEF Update
<1>3. ASSUME NEW j \in JobIds, Begin(j) \/ Progress(j) \/ BeforeExit(j) PROVE PendingInv'
  <2>1. \A i \in JobIds : items[i] # Absent => items'[i] # Absent
    BY <1>2, <1>3, Written DEF Begin, Progress, BeforeExit
  <2>2. pending' = pending
    BY <1>3 DEF Begin, Progress, BeforeExit
  <2> QED BY <2>1, <2>2
<1>4. ASSUME NEW j \in JobIds, Refuse(j) \/ Execute(j) \/ Complete(j) \/ Release(j)
      PROVE  PendingInv'
  BY <1>4 DEF Refuse, Execute, Complete, Release
<1>5. ASSUME NEW j \in JobIds, finish(j) PROVE PendingInv'
  <2>1. \A e : Outcome(result[j], e) # Absent
    BY <1>5 DEF finish, ResultInv, Outcome, Absent, R
  <2> QED BY <1>5, <2>1 DEF finish
<1>6. CASE Crash
  BY <1>6 DEF Crash
<1>7. CASE NewJobs
  BY <1>7 DEF NewJobs, DownInv
<1>8. CASE UNCHANGED vars
  BY <1>8 DEF vars
<1> QED BY <1>1, <1>3, <1>4, <1>5, <1>6, <1>7, <1>8 DEF Next, Worker

\* A used key stays on disk and is remembered.
LEMMA RanStep == ASSUME JobsInv, [Next]_vars PROVE RanInv'
<1> USE DEF JobsInv, TypeOK, RanInv
<1>0. \A i \in JobIds : disk[i] # Absent => disk'[i] # Absent
  BY FilesStay
<1>1. ASSUME NEW r \in Request, RepairFails(r) \/ PersistFails(r) PROVE RanInv'
  BY <1>1, <1>0 DEF RepairFails, PersistFails
<1>2. ASSUME NEW r \in Request, Accept(r) PROVE RanInv'
  <2>1. \A k \in Keys : keys[k] # NoJob => keys'[k] # NoJob
    BY <1>2, JobsConstants DEF Accept
  <2>2. \A i \in JobIds : of[i].key \in Keys
    BY DEF Request
  <2>3. of' = of /\ ran' = ran /\ up' = up
    BY <1>2 DEF Accept
  <2> QED BY <1>0, <2>1, <2>2, <2>3
<1>3. ASSUME NEW j \in JobIds, Worker(j) PROVE RanInv'
  BY <1>3, <1>0, WorkerFrame DEF WorkerInv
<1>4. CASE Crash
  BY <1>4, <1>0 DEF Crash
<1>5. CASE NewJobs
  <2>1. of' = of /\ ran' = ran
    BY <1>5 DEF NewJobs
  <2>2. ASSUME NEW j \in JobIds, ran[j], up' PROVE keys'[of[j].key] # NoJob
    <3>1. disk'[j] # Absent
      BY <2>2, <1>0
    <3>2. of[j].key \in Keys
      BY DEF Request
    <3>3. LET own == {i \in JobIds : Kept(disk', i) /\ of[i].key = of[j].key}
          IN  IF own = {} THEN keys'[of[j].key] = NoJob ELSE keys'[of[j].key] \in own
      BY <1>5, <2>2, <3>2 DEF NewJobs
    <3> QED BY <3>1, <3>3, JobsConstants DEF Kept
  <2> QED BY <1>0, <2>1, <2>2
<1>6. CASE UNCHANGED vars
  BY <1>6 DEF vars
<1> QED BY <1>1, <1>2, <1>3, <1>4, <1>5, <1>6 DEF Next, Start

-----------------------------------------------------------------------------
(* Successes *)

\* A success that is shown stays, on disk and in the store.
LEMMA SuccessStays ==
  ASSUME JobsInv, [Next]_vars, NEW i \in JobIds, up, items[i].state = "succeeded"
  PROVE  disk'[i].state = "succeeded" /\ (up' => items'[i].state = "succeeded")
<1> DEFINE Goal == disk'[i].state = "succeeded" /\ (up' => items'[i].state = "succeeded")
<1> USE DEF JobsInv, TypeOK
<1>0. disk[i].state = "succeeded" /\ worker[i] \in {"none", "release"} /\ items[i] # Absent
  BY DEF SuccessInv, Absent, R
<1>r. \A S : Repaired(S)[i].state = "succeeded"
  BY <1>0 DEF Repaired
<1>2. ASSUME NEW r \in Request, RepairFails(r) PROVE Goal
  <2>1. PICK done \in SUBSET pending, e \in SaveOutcomes, j \in pending :
           disk' = save(Repaired(done), j, items[j], e)
    BY <1>2 DEF RepairFails
  <2>2. disk'[i] \in {Repaired(done)[i], items[i]}
    BY <2>1 DEF save, Repaired
  <2> QED BY <1>2, <1>r, <2>2 DEF RepairFails
<1>3. ASSUME NEW r \in Request, PersistFails(r) PROVE Goal
  <2>1. PICK j \in JobIds, e \in SaveOutcomes :
           Fresh(j) /\ disk' = save(Repaired(pending), j, R("queued", "accepted"), e)
    BY <1>3 DEF PersistFails
  <2>2. i # j
    BY <2>1, <1>0 DEF Fresh
  <2>3. disk'[i] = Repaired(pending)[i]
    BY <2>1, <2>2 DEF save, Repaired
  <2> QED BY <1>3, <1>r, <2>3 DEF PersistFails
<1>4. ASSUME NEW r \in Request, Accept(r) PROVE Goal
  <2>1. PICK j \in JobIds :
           /\ Fresh(j) /\ disk' = save(Repaired(pending), j, R("queued", "accepted"), "ok")
           /\ items' = [items EXCEPT ![j] = R("queued", "accepted")]
    BY <1>4 DEF Accept
  <2>2. i # j
    BY <2>1, <1>0 DEF Fresh
  <2>3. disk'[i] = Repaired(pending)[i]
    BY <2>1, <2>2 DEF save, Repaired
  <2> QED BY <1>r, <2>1, <2>2, <2>3
<1>5. ASSUME NEW j \in JobIds, Worker(j) PROVE Goal
  <2>1. CASE i # j
    BY <1>5, <1>0, <2>1, WorkerFrame
  <2>2. CASE i = j
    BY <1>5, <1>0, <2>2 DEF Worker, Begin, Refuse, Progress, Execute, BeforeExit, Complete, finish,
       Release
  <2> QED BY <2>1, <2>2
<1>6. CASE Crash
  BY <1>6, <1>0 DEF Crash
<1>7. CASE NewJobs
  BY <1>7 DEF NewJobs
<1>8. CASE UNCHANGED vars
  BY <1>8, <1>0 DEF vars
<1> QED BY <1>2, <1>3, <1>4, <1>5, <1>6, <1>7, <1>8 DEF Next, Start

\* A success that is shown is on disk, and its goroutine has nothing left to write.
LEMMA SuccessStep == ASSUME JobsInv, [Next]_vars PROVE SuccessInv'
<1> USE DEF JobsInv, TypeOK
<1> SUFFICES ASSUME NEW i \in JobIds, items'[i].state = "succeeded"
             PROVE  disk'[i].state = "succeeded" /\ worker'[i] \in {"none", "release"}
  BY DEF SuccessInv
<1>1. ASSUME NEW r \in Request, Start(r)
      PROVE  items[i].state = "succeeded" /\ worker'[i] \in {"none", "release"}
  <2>1. CASE RepairFails(r) \/ PersistFails(r)
    BY <2>1 DEF RepairFails, PersistFails, SuccessInv
  <2>2. CASE Accept(r)
    <3>1. PICK j \in JobIds : /\ items' = [items EXCEPT ![j] = R("queued", "accepted")]
                             /\ worker' = [worker EXCEPT ![j] = "begin"]
      BY <2>2 DEF Accept
    <3>2. i # j
      BY <3>1 DEF R
    <3> QED BY <3>1, <3>2 DEF SuccessInv
  <2> QED BY <1>1, <2>1, <2>2 DEF Start
<1>2. ASSUME NEW r \in Request, Start(r)
      PROVE  disk'[i].state = "succeeded" /\ worker'[i] \in {"none", "release"}
  <2>1. up
    BY <1>2 DEF Start, RepairFails, PersistFails, Accept, mayAccept
  <2> QED BY <1>1, <1>2, <2>1, SuccessStays
<1>3. ASSUME NEW j \in JobIds, Worker(j)
      PROVE  disk'[i].state = "succeeded" /\ worker'[i] \in {"none", "release"}
  <2>1. CASE i # j
    BY <1>3, <2>1, WorkerFrame DEF SuccessInv
  <2>2. CASE i = j /\ (Begin(j) \/ Progress(j) \/ BeforeExit(j))
    <3>1. PICK v \in {R("running", "executing"), R("waiting_for_empty", "waiting"),
                      R("running", "waiting_for_ready"), R("waiting_for_restart", "exiting")},
              e \in SaveOutcomes : Update(j, v, e)
      BY <2>2 DEF Begin, Progress, BeforeExit
    <3>2. v.state # "succeeded"
      BY DEF R
    <3>3. items[i].state = "succeeded"
      BY <2>2, <3>1, <3>2 DEF Update
    <3>4. worker[i] \notin {"none", "release"}
      BY <2>2 DEF Begin, Progress, BeforeExit
    <3> QED BY <3>3, <3>4 DEF SuccessInv
  <2>3. CASE i = j /\ (Refuse(j) \/ Execute(j) \/ Complete(j))
    BY <2>3 DEF Refuse, Execute, Complete, SuccessInv
  <2>4. CASE i = j /\ finish(j)
    <3>1. PICK e \in SaveOutcomes : /\ disk' = save(disk, j, result[j], e)
                                   /\ items' = [items EXCEPT ![j] = Outcome(result[j], e)]
      BY <2>4 DEF finish
    <3>2. worker[j] = "finish" /\ worker'[j] = "release"
      BY <2>4 DEF finish, Goto
    <3>3. e = "ok" /\ result[j].state = "succeeded"
      BY <2>4, <3>1, <3>2 DEF Outcome, ResultInv, R
    <3>4. disk'[j] = result[j]
      BY <3>1, <3>3 DEF save
    <3> QED BY <2>4, <3>2, <3>3, <3>4
  <2>5. CASE i = j /\ Release(j)
    BY <2>5 DEF Release, Goto, SuccessInv
  <2> QED BY <1>3, <2>1, <2>2, <2>3, <2>4, <2>5 DEF Worker
<1>4. CASE Crash
  BY <1>4 DEF Crash, Absent, R
<1>5. CASE NewJobs
  <2>1. ~up /\ worker' = worker
    BY <1>5 DEF NewJobs
  <2>2. worker'[i] = "none" /\ items[i] = Absent
    BY <2>1 DEF DownInv
  <2>3. items' = items \/ items' = [j \in JobIds |-> IF Kept(disk', j) THEN disk'[j] ELSE Absent]
    BY <1>5 DEF NewJobs
  <2>4. Absent.state # "succeeded"
    BY DEF Absent, R
  <2> QED BY <2>2, <2>3, <2>4
<1>6. CASE UNCHANGED vars
  BY <1>6 DEF vars, SuccessInv
<1> QED BY <1>2, <1>3, <1>4, <1>5, <1>6 DEF Next

-----------------------------------------------------------------------------
\* The invariant is inductive.
LEMMA Inductive == JobsInv /\ [Next]_vars => JobsInv'
BY TypeStep, DownStep, WorkerStep, ResultStep, PendingStep, RanStep, SuccessStep DEF JobsInv

\* The invariant holds in every behaviour of the store.
LEMMA Invariance == Spec => []JobsInv
<1>1. JobsInv /\ [Next]_vars => JobsInv'
  BY Inductive
<1> QED BY InitInv, <1>1, PTL DEF Spec

\* Every variable of the store stays within its type.
THEOREM TypeCorrect == Spec => []TypeOK
<1>1. JobsInv => TypeOK
  BY DEF JobsInv
<1> QED BY Invariance, <1>1, PTL

\* Effects always have a record on disk ("Start persists acceptance before calling run").
THEOREM RecordedFirst == Spec => []AcceptedBeforeRun
<1>1. JobsInv => AcceptedBeforeRun
  BY DEF JobsInv, RanInv, AcceptedBeforeRun
<1> QED BY Invariance, <1>1, PTL

\* One operation at a time, and the store knows which.
THEOREM Exclusive == Spec => []OneAtATime
<1>1. JobsInv => OneAtATime
  BY DEF JobsInv, WorkerInv, OneAtATime
<1> QED BY Invariance, <1>1, PTL

\* No key has effects twice, over any number of retries, failed writes and restarts.
THEOREM NoReplay == Spec => []AtMostOnce
<1>1. Init => AtMostOnce
  BY DEF Init, AtMostOnce
<1>2. ASSUME JobsInv, AtMostOnce, [Next]_vars PROVE AtMostOnce'
  <2> SUFFICES ASSUME NEW i \in JobIds, NEW k \in JobIds, i # k, ran'[i], ran'[k],
                      of'[i].key = of'[k].key
               PROVE  FALSE
    BY DEF AtMostOnce
  <2>1. CASE of' = of /\ ran' = ran
    <3>1. ran[i] /\ ran[k] /\ of[i].key = of[k].key
      BY <2>1
    <3> QED BY <1>2, <3>1 DEF AtMostOnce
  <2>2. ASSUME NEW j \in JobIds, Worker(j) PROVE FALSE
    <3>1. /\ of' = of /\ worker[j] # "none"
          /\ \A m \in JobIds : m # j => ran'[m] = ran[m]
      BY <1>2, <2>2, WorkerFrame
    <3>2. \A m \in JobIds : m # j /\ ran[m] => of[m].key # of[j].key
      BY <1>2, <3>1 DEF JobsInv, WorkerInv
    <3>3. (i = j => ran[k]) /\ (k = j => ran[i]) /\ (i # j /\ k # j => ran[i] /\ ran[k])
      BY <3>1
    <3> QED BY <1>2, <3>1, <3>2, <3>3 DEF AtMostOnce
  <2>3. ASSUME NEW r \in Request, Start(r) PROVE of' = of /\ ran' = ran
    BY <2>3 DEF Start, RepairFails, PersistFails, Accept
  <2>4. CASE Crash \/ NewJobs \/ UNCHANGED vars
    BY <2>1, <2>4 DEF Crash, NewJobs, vars
  <2> QED BY <1>2, <2>1, <2>2, <2>3, <2>4 DEF Next
<1> QED BY Invariance, <1>1, <1>2, PTL DEF Spec

\* Start's promise of an operation it lets in: recorded first, once per key, and alone.
THEOREM AdmissionSafe == Spec => []Admission
<1>1. AcceptedBeforeRun /\ AtMostOnce /\ OneAtATime => Admission
  BY DEF Admission
<1> QED BY RecordedFirst, NoReplay, Exclusive, <1>1, PTL

\* A success a reader has seen is never withdrawn, by no step and no restart.
THEOREM SuccessIsFinal == Spec => SuccessKept
<1>1. JobsInv /\ [Next]_vars =>
        [\A j \in JobIds : up /\ items[j].state = "succeeded" =>
            disk'[j].state = "succeeded" /\ (up' => items'[j].state = "succeeded")]_vars
  BY SuccessStays
<1> QED BY Invariance, <1>1, PTL DEF Spec, SuccessKept

-----------------------------------------------------------------------------
(* Outcomes *)

\* The records that say nothing of an outcome.
LEMMA Neutral ==
  \A v \in {Absent, R("queued", "accepted"), R("running", "executing"),
            R("waiting_for_empty", "waiting"), R("running", "waiting_for_ready"),
            R("failed", "complete"), R("unknown", "complete"), R("unknown", "interrupted"),
            R("unknown", "storage_error")} :
    v.state \notin {"succeeded", "waiting_for_restart"} /\ v # R("failed", "storage_error")
BY DEF Absent, R

\* What finish shows of a truthful result is truthful.
LEMMA OutcomeKept ==
  ASSUME NEW v \in Record, v.state \in {"succeeded", "failed", "unknown"},
         v.state = "succeeded" => v.phase = "complete", NEW e
  PROVE  Outcome(v, e) = v \/ (Outcome(v, e).state = "unknown")
<1>1. CASE e = "ok" \/ v.phase # "storage_error"
  BY <1>1 DEF Outcome, R
<1>2. CASE e # "ok" /\ v.phase = "storage_error"
  <2>1. v.state # "succeeded"
    BY <1>2
  <2>2. v = [state |-> v.state, phase |-> v.phase]
    BY DEF Record
  <2>3. Outcome(v, e) = [state |-> v.state, phase |-> "storage_error"]
    BY <1>2 DEF Outcome, R
  <2> QED BY <1>2, <2>2, <2>3
<1> QED BY <1>1, <1>2

\* Start writes outcomes again, and accepts a job that never ran.
LEMMA TruthStart ==
  ASSUME JobsInv, TruthInv, NEW r \in Request, Start(r) PROVE TruthInv'
<1> USE DEF JobsInv, TypeOK
<1>0. /\ up /\ \A i \in JobIds : worker[i] = "none"
      /\ UNCHANGED <<of, up, result, ran, good, previous>>
  BY JobsConstants DEF Start, RepairFails, PersistFails, Accept, mayAccept, WorkerInv
<1>1. \A i \in JobIds : disk[i] # Absent => disk'[i] # Absent
  BY FilesStay DEF Next
<1>2. CASE RepairFails(r) \/ PersistFails(r)
  <2>1. UNCHANGED <<items, worker>>
    BY <1>2 DEF RepairFails, PersistFails
  <2>2. \A i \in JobIds : disk'[i] \in {disk[i], items[i], R("queued", "accepted")}
    <3>1. CASE RepairFails(r)
      <4>1. PICK done \in SUBSET pending, e \in SaveOutcomes, j \in pending :
               disk' = save(Repaired(done), j, items[j], e)
        BY <3>1 DEF RepairFails
      <4> QED BY <4>1 DEF save, Repaired
    <3>2. CASE PersistFails(r)
      <4>1. PICK j \in JobIds, e \in SaveOutcomes :
               disk' = save(Repaired(pending), j, R("queued", "accepted"), e)
        BY <3>2 DEF PersistFails
      <4> QED BY <4>1 DEF save, Repaired
    <3> QED BY <1>2, <3>1, <3>2
  <2>3. ASSUME NEW i \in JobIds PROVE Truthful(i, disk[i])'
    BY <1>0, <2>2, Neutral DEF TruthInv, Truthful
  <2> QED BY <1>0, <1>1, <2>1, <2>3 DEF TruthInv, Truthful
<1>3. CASE Accept(r)
  <2>1. PICK j \in JobIds :
           /\ Fresh(j) /\ disk' = save(Repaired(pending), j, R("queued", "accepted"), "ok")
           /\ items' = [items EXCEPT ![j] = R("queued", "accepted")]
           /\ worker' = [worker EXCEPT ![j] = "begin"]
    BY <1>3 DEF Accept
  <2>2. \A i \in JobIds : IF i = j THEN disk'[i] = R("queued", "accepted")
                          ELSE disk'[i] \in {disk[i], items[i]}
    BY <2>1 DEF save, Repaired
  <2>3. \A i \in JobIds : IF i = j THEN items'[i] = R("queued", "accepted") /\ worker'[i] = "begin"
                          ELSE items'[i] = items[i] /\ worker'[i] = "none"
    BY <1>0, <2>1
  <2>4. ~ran[j]
    BY <2>1 DEF Fresh, RanInv
  <2>5. ASSUME NEW i \in JobIds PROVE Truthful(i, disk[i])' /\ Truthful(i, items[i])'
    BY <1>0, <2>2, <2>3, Neutral DEF TruthInv, Truthful
  <2>6. ASSUME NEW i \in JobIds, worker'[i] \in {"begin", "run"}
        PROVE  ~ran'[i] /\ disk'[i].state \in Unfinished /\ items'[i].state \in Unfinished
    BY <1>0, <2>2, <2>3, <2>4, <2>6 DEF Unfinished, R
  <2>7. \A i \in JobIds : worker'[i] \notin {"finish", "ran"}
    BY <2>3
  <2> QED BY <1>0, <1>1, <2>5, <2>6, <2>7 DEF TruthInv
<1> QED BY <1>2, <1>3 DEF Start

\* What the goroutine of j records of its own job.
TruthOf(j) ==
  /\ Truthful(j, disk[j]) /\ Truthful(j, items[j])
  /\ worker[j] = "finish" => Truthful(j, result[j])
  /\ worker[j] \in {"begin", "run"} =>
       ~ran[j] /\ disk[j].state \in Unfinished /\ items[j].state \in Unfinished
  /\ worker[j] = "ran" => of[j].hash \notin Restarts

LEMMA TruthOwn ==
  ASSUME JobsInv, TruthInv, NEW j \in JobIds, Worker(j) PROVE TruthOf(j)'
<1> USE DEF JobsInv, TypeOK
<1>0. /\ UNCHANGED <<of, previous>> /\ TruthOf(j)
  BY WorkerFrame DEF TruthInv, TruthOf
<1>1. ASSUME NEW v, NEW e, Update(j, v, e)
      PROVE  disk'[j] \in {disk[j], v} /\ items'[j] \in {items[j], v}
  BY <1>1 DEF Update, save
<1>2. CASE Begin(j)
  <2>1. PICK e \in SaveOutcomes : Update(j, R("running", "executing"), e) /\ Begun(j, e)
    BY <1>2 DEF Begin
  <2>2. /\ disk'[j] \in {disk[j], R("running", "executing")}
        /\ items'[j] \in {items[j], R("running", "executing")}
    BY <1>1, <2>1
  <2>3. worker[j] = "begin" /\ UNCHANGED <<ran, good>>
    BY <1>2 DEF Begin
  <2>4. worker'[j] = "run" \/ (worker'[j] = "finish" /\ result'[j] = R("failed", "storage_error"))
    BY <2>1 DEF Begun, Goto, Report
  <2>5. ~ran[j] /\ disk[j].state \in Unfinished /\ items[j].state \in Unfinished
    BY <1>0, <2>3 DEF TruthOf
  <2>6. disk'[j].state \in Unfinished /\ items'[j].state \in Unfinished
    BY <2>2, <2>5 DEF R, Unfinished
  <2>7. Truthful(j, disk[j])' /\ Truthful(j, items[j])'
    BY <2>3, <2>5, <2>6 DEF Truthful, Unfinished
  <2>8. worker'[j] = "finish" => Truthful(j, result[j])'
    BY <2>3, <2>4, <2>5 DEF Truthful, R
  <2> QED BY <2>3, <2>4, <2>5, <2>6, <2>7, <2>8 DEF TruthOf
<1>3. CASE Refuse(j)
  <2>1. /\ worker'[j] = "finish" /\ UNCHANGED <<disk, items, ran, good>>
        /\ result'[j] \in {R("failed", "complete"), R("unknown", "interrupted")}
    BY <1>3 DEF Refuse, Goto, Report
  <2>2. Truthful(j, result[j])'
    BY <2>1, Neutral DEF Truthful
  <2> QED BY <1>0, <2>1, <2>2 DEF TruthOf, Truthful
<1>4. CASE Progress(j)
  <2>1. PICK e \in SaveOutcomes :
           \/ worker[j] = "run" /\ Update(j, R("waiting_for_empty", "waiting"), e)
           \/ worker[j] = "ran" /\ Update(j, R("running", "waiting_for_ready"), e)
    BY <1>4 DEF Progress
  <2>2. PICK v \in {R("waiting_for_empty", "waiting"), R("running", "waiting_for_ready")} :
           disk'[j] \in {disk[j], v} /\ items'[j] \in {items[j], v}
    BY <1>1, <2>1
  <2>3. UNCHANGED <<worker, result, ran, good>> /\ worker[j] \in {"run", "ran"}
    BY <1>4 DEF Progress
  <2>4. v.state \in Unfinished /\ v # R("failed", "storage_error")
    BY DEF R, Unfinished
  <2>5. Truthful(j, disk[j])' /\ Truthful(j, items[j])'
    BY <1>0, <2>2, <2>3, <2>4 DEF TruthOf, Truthful, Unfinished
  <2>6. worker[j] = "run" => disk'[j].state \in Unfinished /\ items'[j].state \in Unfinished
    BY <1>0, <2>2, <2>4 DEF TruthOf
  <2> QED BY <1>0, <2>3, <2>5, <2>6 DEF TruthOf
<1>5. CASE Execute(j)
  <2>1. /\ worker[j] = "run" /\ worker'[j] = "ran" /\ of[j].hash \notin Restarts
        /\ UNCHANGED <<disk, items, good>>
    BY <1>5 DEF Execute, Goto
  <2>2. disk[j].state \in Unfinished /\ items[j].state \in Unfinished
    BY <1>0, <2>1 DEF TruthOf
  <2>3. Truthful(j, disk[j])' /\ Truthful(j, items[j])'
    BY <2>1, <2>2 DEF Truthful, Unfinished, R
  <2> QED BY <1>0, <2>1, <2>3 DEF TruthOf
<1>6. CASE BeforeExit(j)
  <2>1. PICK e \in SaveOutcomes :
           /\ Update(j, R("waiting_for_restart", "exiting"), e)
           /\ IF e = "ok" THEN Goto(j, "exiting") /\ UNCHANGED result
              ELSE Goto(j, "finish") /\ Report(j, R("failed", "complete"))
    BY <1>6 DEF BeforeExit
  <2>2. worker[j] = "run" /\ good'[j]
    BY <1>6 DEF BeforeExit
  <2>3. /\ disk'[j] \in {disk[j], R("waiting_for_restart", "exiting")}
        /\ items'[j] \in {items[j], R("waiting_for_restart", "exiting")}
    BY <1>1, <2>1
  <2>4. worker'[j] = "exiting" \/ (worker'[j] = "finish" /\ result'[j] = R("failed", "complete"))
    BY <2>1 DEF Goto, Report
  <2>5. disk[j].state \in Unfinished /\ items[j].state \in Unfinished
    BY <1>0, <2>2 DEF TruthOf
  <2>6. Truthful(j, disk[j])' /\ Truthful(j, items[j])'
    BY <2>2, <2>3, <2>5 DEF Truthful, Unfinished, R
  <2>7. worker'[j] = "finish" => Truthful(j, result[j])'
    BY <2>4, Neutral DEF Truthful
  <2> QED BY <2>4, <2>6, <2>7 DEF TruthOf
<1>7. CASE Complete(j)
  <2>1. worker[j] = "ran" /\ worker'[j] = "finish" /\ UNCHANGED <<disk, items, ran>>
    BY <1>7 DEF Complete, Goto
  <2>2. of[j].hash \notin Restarts
    BY <1>0, <2>1 DEF TruthOf
  <2>3. \/ result'[j] = R("succeeded", "complete") /\ good'[j]
        \/ /\ good' = good
           /\ result'[j] \in {R("failed", "complete"), R("unknown", "complete"),
                              R("unknown", "interrupted")}
    BY <1>7 DEF Complete, Report
  <2>4. good[j] => good'[j]
    BY <2>3
  <2>5. Truthful(j, result[j])'
    <3>1. CASE result'[j] = R("succeeded", "complete") /\ good'[j]
      BY <1>0, <2>2, <3>1 DEF Truthful, R
    <3>2. CASE result'[j] \in {R("failed", "complete"), R("unknown", "complete"),
                               R("unknown", "interrupted")}
      BY <3>2, Neutral DEF Truthful
    <3> QED BY <2>3, <3>1, <3>2
  <2>6. Truthful(j, disk[j])' /\ Truthful(j, items[j])'
    BY <1>0, <2>1, <2>4 DEF TruthOf, Truthful
  <2> QED BY <2>1, <2>5, <2>6 DEF TruthOf
<1>8. CASE finish(j)
  <2>1. PICK e \in SaveOutcomes : /\ disk' = save(disk, j, result[j], e)
                                 /\ items' = [items EXCEPT ![j] = Outcome(result[j], e)]
    BY <1>8 DEF finish
  <2>2. worker[j] = "finish" /\ worker'[j] = "release" /\ UNCHANGED <<ran, good>>
    BY <1>8 DEF finish, Goto
  <2>3. disk'[j] \in {disk[j], result[j]}
    BY <2>1 DEF save
  <2>4. items'[j] = result[j] \/ items'[j].state = "unknown"
    BY <2>1, <2>2, OutcomeKept DEF ResultInv
  <2>5. Truthful(j, disk[j])' /\ Truthful(j, items[j])'
    BY <1>0, <2>2, <2>3, <2>4 DEF TruthOf, Truthful, R
  <2> QED BY <2>2, <2>5 DEF TruthOf
<1>9. CASE Release(j)
  <2>1. worker'[j] = "none" /\ UNCHANGED <<disk, items, ran, good>>
    BY <1>9 DEF Release, Goto
  <2> QED BY <1>0, <2>1 DEF TruthOf, Truthful
<1> QED BY <1>2, <1>3, <1>4, <1>5, <1>6, <1>7, <1>8, <1>9 DEF Worker

\* Every action preserves TruthInv.
LEMMA TruthStep == ASSUME JobsInv, TruthInv, [Next]_vars PROVE TruthInv'
<1> USE DEF JobsInv, TypeOK
<1>0. \A i \in JobIds : disk[i] # Absent => disk'[i] # Absent
  BY FilesStay
<1>1. ASSUME NEW r \in Request, Start(r) PROVE TruthInv'
  BY <1>1, TruthStart
<1>2. ASSUME NEW j \in JobIds, Worker(j) PROVE TruthInv'
  <2>1. /\ up /\ UNCHANGED <<of, up, previous>>
        /\ \A i \in JobIds : i # j =>
              /\ worker'[i] = "none" /\ ran'[i] = ran[i]
              /\ items'[i] = items[i] /\ disk'[i] = disk[i]
    BY <1>2, WorkerFrame
  <2>2. \A i \in JobIds : i # j => good'[i] = good[i]
    BY <1>2 DEF Worker, Begin, Refuse, Progress, Execute, BeforeExit, Complete, finish, Release
  <2>3. ASSUME NEW i \in JobIds PROVE TruthOf(i)'
    <3>1. CASE i = j
      BY <1>2, <3>1, TruthOwn
    <3>2. CASE i # j
      BY <2>1, <2>2, <3>2 DEF TruthInv, TruthOf, Truthful
    <3> QED BY <3>1, <3>2
  <2>4. \A i \in previous' : disk'[i] # Absent
    BY <1>0, <2>1 DEF TruthInv
  <2> QED BY <2>1, <2>3, <2>4 DEF TruthInv, TruthOf
<1>3. CASE Crash
  <2>1. /\ UNCHANGED <<of, disk, ran, good>> /\ previous' = {j \in JobIds : disk[j] # Absent}
        /\ items' = [j \in JobIds |-> Absent] /\ worker' = [j \in JobIds |-> "none"]
    BY <1>3 DEF Crash
  <2>2. previous \subseteq previous'
    BY <2>1 DEF TruthInv
  <2>3. ASSUME NEW i \in JobIds PROVE TruthOf(i)'
    <3>1. worker'[i] = "none" /\ items'[i] = Absent /\ disk'[i] = disk[i]
      BY <2>1
    <3>2. Truthful(i, items[i])'
      BY <3>1, Neutral DEF Truthful
    <3>3. Truthful(i, disk[i])'
      BY <2>1, <2>2, <3>1 DEF TruthInv, Truthful
    <3> QED BY <3>1, <3>2, <3>3 DEF TruthOf
  <2> QED BY <2>1, <2>3 DEF TruthInv, TruthOf
<1>4. CASE NewJobs
  <2>1. ~up /\ UNCHANGED <<of, ran, good, previous, worker>>
    BY <1>4 DEF NewJobs
  <2>2. \A i \in JobIds : worker[i] = "none" /\ items[i] = Absent
    BY <2>1 DEF DownInv
  <2>3. \A i \in JobIds : disk'[i] \in {disk[i], Reopened(i)}
    BY <1>4 DEF NewJobs
  <2>4. \A i \in JobIds : items'[i] \in {Absent, disk'[i]}
    BY <1>4, <2>2 DEF NewJobs
  <2>5. ASSUME NEW i \in JobIds PROVE Truthful(i, disk[i])'
    <3>1. CASE disk'[i] = disk[i]
      BY <2>1, <3>1 DEF TruthInv, Truthful
    <3>2. CASE disk'[i] = Reopened(i) /\ disk'[i] # disk[i]
      <4>1. CASE disk[i].state \in Unfinished
        <5>1. disk[i].state # "waiting_for_restart"
          BY <4>1 DEF Unfinished
        <5>2. disk'[i] = R("unknown", disk[i].phase)
          BY <3>2, <4>1, <5>1 DEF Reopened
        <5> QED BY <5>2 DEF Truthful, R
      <4>2. CASE disk[i].state \notin Unfinished
        <5>1. /\ disk'[i] = R("succeeded", "reconnected")
              /\ disk[i].state = "waiting_for_restart" /\ of[i].hash \in Restarts
          BY <3>2, <4>2 DEF Reopened
        <5>2. good[i] /\ disk[i] # Absent
          BY <5>1 DEF TruthInv, Truthful, Absent, R
        <5>3. i \in previous
          BY <2>1, <5>2 DEF TruthInv
        <5> QED BY <2>1, <5>1, <5>2, <5>3 DEF Truthful, R
      <4> QED BY <4>1, <4>2
    <3> QED BY <2>3, <3>1, <3>2
  <2>6. ASSUME NEW i \in JobIds PROVE Truthful(i, items[i])'
    BY <2>4, <2>5, Neutral DEF Truthful
  <2>7. \A i \in JobIds : disk'[i] # Absent => disk[i] # Absent
    <3>1. \A i \in JobIds : disk[i] = Absent => Reopened(i) = Absent
      BY DEF Reopened, Unfinished, Absent, R
    <3> QED BY <2>3, <3>1
  <2>8. \A i \in JobIds : worker'[i] = "none"
    BY <2>1, <2>2
  <2>9. \A i \in JobIds : disk'[i] # Absent => i \in previous'
    BY <2>1, <2>7 DEF TruthInv
  <2>10. \A i \in previous' : disk'[i] # Absent
    BY <1>0, <2>1 DEF TruthInv
  <2> QED BY <2>5, <2>6, <2>8, <2>9, <2>10 DEF TruthInv
<1>5. CASE UNCHANGED vars
  BY <1>5 DEF vars, TruthInv, Truthful
<1> QED BY <1>1, <1>2, <1>3, <1>4, <1>5 DEF Next

LEMMA TruthInit == Init => TruthInv
<1> SUFFICES ASSUME Init PROVE TruthInv
  OBVIOUS
<1>1. \A j \in JobIds : disk[j] = Absent /\ items[j] = Absent /\ worker[j] = "none"
  BY DEF Init
<1>2. \A j \in JobIds : Truthful(j, disk[j]) /\ Truthful(j, items[j])
  BY <1>1, Neutral DEF Truthful
<1> QED BY <1>1, <1>2 DEF Init, TruthInv

LEMMA TruthInvariance == Spec => []TruthInv
<1>1. JobsInv /\ TruthInv /\ [Next]_vars => TruthInv'
  BY TruthStep
<1> QED BY TruthInit, <1>1, Invariance, PTL DEF Spec

\* What a reader is told is so, whatever fails to be written and whenever the process
\* ends: a success was reached, that of a ChatWire restart is told by a later process,
\* and an operation that "was not executed" had no effect (finish, BeforeExit, NewJobs).
THEOREM OutcomesAreTrue == Spec => []OutcomeTrue
<1>1. TruthInv => OutcomeTrue
  BY DEF TruthInv, Truthful, OutcomeTrue
<1> QED BY TruthInvariance, <1>1, PTL

-----------------------------------------------------------------------------
(* The refinement *)

\* The records that are written are sensible for every job, or for a restart.
LEMMA SensibleRecords ==
  ASSUME NEW j \in JobIds
  PROVE  /\ \A v \in {Absent, R("queued", "accepted"), R("running", "executing"),
                      R("waiting_for_empty", "waiting"), R("running", "waiting_for_ready")} :
              Sensible(j, v)
         /\ of[j].hash \in Restarts => Sensible(j, R("waiting_for_restart", "exiting"))
         /\ \A v : v.state \in {"succeeded", "failed", "unknown"} => Sensible(j, v)
BY DEF Sensible, Absent, R

\* What finish shows is an outcome, and one that it shows though it could not be written
\* is no success.
LEMMA OutcomeShown ==
  ASSUME NEW v \in Record, v.state \in {"succeeded", "failed", "unknown"},
         v.state = "succeeded" => v.phase = "complete", NEW e
  PROVE  /\ Outcome(v, e).state \in {"succeeded", "failed", "unknown"}
         /\ e = "ok" => Outcome(v, e) = v
         /\ e # "ok" => Outcome(v, e).state # "succeeded"
<1>1. CASE e = "ok"
  BY <1>1 DEF Outcome
<1>2. CASE e # "ok"
  <2>1. Outcome(v, e).state = IF v.phase = "storage_error" THEN v.state ELSE "unknown"
    BY <1>2 DEF Outcome, R
  <2> QED BY <1>2, <2>1
<1> QED BY <1>1, <1>2

\* What the goroutine of j does to the record of j that is shown.
LEMMA WorkerShows ==
  ASSUME JobsInv, TruthInv, LedgerInv, NEW j \in JobIds, Worker(j)
  PROVE  /\ ~Release(j) /\ ~finish(j) =>
              /\ worker[j] \in Active /\ worker'[j] \in Active
              /\ items[j].state \in OpenStates /\ items'[j].state \in OpenStates
              /\ pending' = pending
         /\ worker'[j] = "ran" => ran'[j]
         /\ Sensible(j, disk[j])' /\ Sensible(j, items[j])'
<1> USE DEF JobsInv, TypeOK
<1>0. /\ of' = of /\ (worker[j] \in Active => items[j].state \in OpenStates)
      /\ Sensible(j, disk[j]) /\ Sensible(j, items[j]) /\ (worker[j] = "ran" => ran[j])
  BY WorkerFrame DEF LedgerInv, KnownInv, LeftInv
<1>1. ASSUME NEW v, NEW e, Update(j, v, e)
      PROVE  disk'[j] \in {disk[j], v} /\ items'[j] \in {items[j], v}
  BY <1>1 DEF Update, save
<1>2. \A v : Sensible(j, v) => Sensible(j, v)'
  BY <1>0 DEF Sensible
<1>3. CASE Begin(j)
  <2>1. PICK e \in SaveOutcomes : Update(j, R("running", "executing"), e) /\ Begun(j, e)
    BY <1>3 DEF Begin
  <2>2. /\ worker[j] = "begin" /\ worker'[j] \in {"run", "finish"} /\ pending' = pending
    BY <1>3, <2>1 DEF Begin, Begun, Goto
  <2>3. /\ disk'[j] \in {disk[j], R("running", "executing")}
        /\ items'[j] \in {items[j], R("running", "executing")}
    BY <1>1, <2>1
  <2> QED BY <1>0, <2>2, <2>3, SensibleRecords DEF Active, OpenStates, Unfinished, R, Sensible
<1>4. CASE Refuse(j) \/ Execute(j) \/ Complete(j)
  <2>1. /\ worker[j] \in {"run", "ran"} /\ UNCHANGED <<disk, items, pending>>
        /\ worker'[j] \in {"ran", "finish"} /\ (worker'[j] = "ran" => ran'[j])
    BY <1>4 DEF Refuse, Execute, Complete, Goto
  <2> QED BY <1>0, <2>1 DEF Active, Sensible
<1>5. CASE Progress(j)
  <2>1. PICK e \in SaveOutcomes :
           \/ worker[j] = "run" /\ Update(j, R("waiting_for_empty", "waiting"), e)
           \/ worker[j] = "ran" /\ Update(j, R("running", "waiting_for_ready"), e)
    BY <1>5 DEF Progress
  <2>2. PICK v \in {R("waiting_for_empty", "waiting"), R("running", "waiting_for_ready")} :
           disk'[j] \in {disk[j], v} /\ items'[j] \in {items[j], v}
    BY <1>1, <2>1
  <2>3. UNCHANGED <<worker, ran, pending>> /\ worker[j] \in {"run", "ran"}
    BY <1>5 DEF Progress
  <2>4. v.state \in OpenStates /\ Sensible(j, v)
    BY SensibleRecords DEF OpenStates, Unfinished, R
  <2> QED BY <1>0, <2>2, <2>3, <2>4 DEF Active, Sensible
<1>6. CASE BeforeExit(j)
  <2>1. PICK e \in SaveOutcomes :
           /\ Update(j, R("waiting_for_restart", "exiting"), e)
           /\ IF e = "ok" THEN Goto(j, "exiting") /\ UNCHANGED result
              ELSE Goto(j, "finish") /\ Report(j, R("failed", "complete"))
    BY <1>6 DEF BeforeExit
  <2>2. /\ worker[j] = "run" /\ worker'[j] \in {"exiting", "finish"} /\ pending' = pending
        /\ of[j].hash \in Restarts
    BY <1>6, <2>1 DEF BeforeExit, Goto
  <2>3. PICK v \in {R("waiting_for_restart", "exiting")} :
           disk'[j] \in {disk[j], v} /\ items'[j] \in {items[j], v}
    BY <1>1, <2>1
  <2>4. v.state \in OpenStates /\ Sensible(j, v)
    BY <2>2, SensibleRecords DEF OpenStates, R
  <2> QED BY <1>0, <2>2, <2>3, <2>4 DEF Active, Sensible
<1>7. CASE finish(j)
  <2>1. PICK e \in SaveOutcomes : /\ disk' = save(disk, j, result[j], e)
                                 /\ items' = [items EXCEPT ![j] = Outcome(result[j], e)]
    BY <1>7 DEF finish
  <2>2. worker'[j] = "release" /\ worker[j] = "finish"
    BY <1>7 DEF finish, Goto
  <2>3. disk'[j] \in {disk[j], result[j]} /\ items'[j] = Outcome(result[j], e)
    BY <2>1 DEF save
  <2>4. /\ result[j].state \in {"succeeded", "failed", "unknown"}
        /\ items'[j].state \in {"succeeded", "failed", "unknown"}
    BY <2>2, <2>3, OutcomeShown DEF ResultInv
  <2>5. Sensible(j, result[j]) /\ Sensible(j, items'[j])
    BY <2>4, SensibleRecords
  <2> QED BY <1>0, <1>7, <2>2, <2>3, <2>5 DEF Sensible
<1>8. CASE Release(j)
  <2>1. worker'[j] = "none" /\ UNCHANGED <<disk, items>>
    BY <1>8 DEF Release, Goto
  <2> QED BY <1>0, <1>8, <2>1 DEF Sensible
<1> QED BY <1>3, <1>4, <1>5, <1>6, <1>7, <1>8 DEF Worker

\* Outcomes that are written again are records of the store.
LEMMA RepairWrites ==
  ASSUME JobsInv, NEW r \in Request, RepairFails(r)
  PROVE  /\ \A i \in JobIds : disk'[i] = disk[i] \/ (i \in pending /\ disk'[i] = items[i])
         /\ pending' \subseteq pending
<1>1. PICK done \in SUBSET pending, e \in SaveOutcomes, j \in pending :
         disk' = save(Repaired(done), j, items[j], e) /\ pending' = pending \ done
  BY DEF RepairFails
<1>2. \A i \in JobIds : disk'[i] = disk[i] \/ (i \in pending /\ disk'[i] = items[i])
  <2> SUFFICES ASSUME NEW i \in JobIds
               PROVE  disk'[i] = disk[i] \/ (i \in pending /\ disk'[i] = items[i])
    OBVIOUS
  <2>1. CASE i = j
    BY <1>1, <2>1 DEF save, Repaired
  <2>2. CASE i # j
    BY <1>1, <2>2 DEF save, Repaired
  <2> QED BY <2>1, <2>2
<1> QED BY <1>1, <1>2

\* What Start does to the files: outcomes are written again, and a job may be recorded.
LEMMA StartWrites ==
  ASSUME JobsInv, NEW r \in Request, Start(r)
  PROVE  /\ up /\ UNCHANGED <<of, up, ran, good>> /\ \A i \in JobIds : worker[i] = "none"
         /\ \A i \in JobIds : \/ disk'[i] = disk[i]
                              \/ i \in pending /\ disk'[i] = items[i]
                              \/ Fresh(i) /\ of[i] = r /\ disk'[i] = R("queued", "accepted")
         /\ pending' \subseteq pending
<1> USE DEF JobsInv, TypeOK
<1>1. /\ up /\ UNCHANGED <<of, up, ran, good>> /\ \A i \in JobIds : worker[i] = "none"
  BY JobsConstants DEF Start, RepairFails, PersistFails, Accept, mayAccept, WorkerInv
<1>3. CASE RepairFails(r)
  BY <1>1, <1>3, RepairWrites
<1>4. CASE PersistFails(r) \/ Accept(r)
  <2>1. PICK j \in JobIds, e \in SaveOutcomes :
           /\ Fresh(j) /\ of[j] = r
           /\ disk' = save(Repaired(pending), j, R("queued", "accepted"), e)
    BY <1>4 DEF PersistFails, Accept, SaveOutcomes
  <2>2. pending' = {}
    BY <1>4 DEF PersistFails, Accept
  <2> HIDE DEF JobsInv, TypeOK
  <2>3. pending \in SUBSET pending
    OBVIOUS
  <2>4. \A i \in JobIds : \/ disk'[i] = disk[i]
                          \/ i \in pending /\ disk'[i] = items[i]
                          \/ Fresh(i) /\ of[i] = r /\ disk'[i] = R("queued", "accepted")
    <3> SUFFICES ASSUME NEW i \in JobIds
                 PROVE  \/ disk'[i] = disk[i]
                        \/ i \in pending /\ disk'[i] = items[i]
                        \/ Fresh(i) /\ of[i] = r /\ disk'[i] = R("queued", "accepted")
      OBVIOUS
    <3>1. CASE i = j
      BY <2>1, <2>3, <3>1 DEF save, Repaired
    <3>2. CASE i # j
      BY <2>1, <2>3, <3>2 DEF save, Repaired
    <3> QED BY <3>1, <3>2
  <2> QED BY <1>1, <2>2, <2>4
<1> QED BY <1>3, <1>4 DEF Start

\* What NewJobs reads has an outcome.
LEMMA ReopenedHasOutcome ==
  ASSUME NEW j \in JobIds, disk[j] \in Record, Sensible(j, disk[j])
  PROVE  /\ Reopened(j) = Absent \/ Reopened(j).state \in {"succeeded", "failed", "unknown"}
         /\ Reopened(j) = Absent <=> disk[j] = Absent
         /\ disk[j].state = "succeeded" => Reopened(j) = disk[j]
<1>1. disk[j].state \in States
  BY DEF Record
<1>2. CASE disk[j].state \in Unfinished
  <2>1. Reopened(j) = R("unknown", disk[j].phase)
    BY <1>2 DEF Reopened, Unfinished
  <2> QED BY <1>2, <2>1 DEF R, Absent, Unfinished
<1>3. CASE disk[j].state = "waiting_for_restart"
  <2>1. Reopened(j) = R("succeeded", "reconnected")
    BY <1>3 DEF Reopened, Unfinished, Sensible
  <2> QED BY <1>3, <2>1 DEF R, Absent
<1>4. CASE disk[j].state \notin OpenStates
  <2>1. Reopened(j) = disk[j]
    BY <1>4 DEF Reopened, OpenStates
  <2> QED BY <1>1, <1>4, <2>1 DEF States, OpenStates, Unfinished, Sensible, R, Absent
<1> QED BY <1>2, <1>3, <1>4 DEF OpenStates

LEMMA KnownStep == ASSUME JobsInv, TruthInv, LedgerInv, [Next]_vars PROVE KnownInv'
<1> USE DEF JobsInv, TypeOK
<1>0. KnownInv /\ LeftInv /\ \A i \in JobIds : disk[i] # Absent => disk'[i] # Absent
  BY FilesStay DEF LedgerInv
<1>1. ASSUME NEW r \in Request, RepairFails(r) \/ PersistFails(r) PROVE KnownInv'
  <2>1. UNCHANGED <<of, items, keys, worker, ran>>
    BY <1>1 DEF RepairFails, PersistFails
  <2> QED BY <1>0, <2>1 DEF KnownInv
<1>2. ASSUME NEW r \in Request, Accept(r) PROVE KnownInv'
  <2>1. PICK j \in JobIds :
           /\ Fresh(j) /\ of[j] = r
           /\ disk' = save(Repaired(pending), j, R("queued", "accepted"), "ok")
           /\ items' = [items EXCEPT ![j] = R("queued", "accepted")]
           /\ keys' = [keys EXCEPT ![r.key] = j]
           /\ worker' = [worker EXCEPT ![j] = "begin"]
    BY <1>2 DEF Accept
  <2>2. of' = of /\ ran' = ran /\ r.key \in Keys
    BY <1>2 DEF Accept, Request
  <2>3. disk'[j] = R("queued", "accepted") /\ R("queued", "accepted") # Absent
    BY <2>1, Written DEF save, Repaired
  <2>4. \A k \in Keys : keys[k] # NoJob => keys'[k] # NoJob
    BY <2>1, JobsConstants
  <2>5. keys'[of[j].key] # NoJob
    BY <2>1, <2>2, JobsConstants
  <2>6. \A i \in JobIds : IF i = j THEN items'[i] = R("queued", "accepted") /\ worker'[i] = "begin"
                          ELSE items'[i] = items[i] /\ worker'[i] = worker[i]
    BY <2>1
  <2>7. \A i \in JobIds : of[i].key \in Keys
    BY DEF Request
  <2>8. R("queued", "accepted").state \in OpenStates /\ "begin" \in Active
    BY DEF R, OpenStates, Unfinished, Active
  <2> QED BY <1>0, <2>2, <2>3, <2>4, <2>5, <2>6, <2>7, <2>8 DEF KnownInv
<1>3. ASSUME NEW j \in JobIds, Worker(j) PROVE KnownInv'
  <2>1. /\ UNCHANGED <<of, keys>> /\ worker[j] # "none"
        /\ \A i \in JobIds : i # j =>
              /\ worker[i] = "none" /\ worker'[i] = "none"
              /\ ran'[i] = ran[i] /\ items'[i] = items[i] /\ disk'[i] = disk[i]
    BY <1>3, WorkerFrame
  <2>2. disk'[j] # Absent /\ keys'[of'[j].key] # NoJob
    BY <1>0, <2>1 DEF WorkerInv
  <2>3. worker'[j] = "ran" => ran'[j]
    BY <1>3, WorkerShows
  <2>4. items'[j].state \in OpenStates <=> worker'[j] \in Active
    <3>1. CASE finish(j)
      <4>1. PICK e \in SaveOutcomes : items' = [items EXCEPT ![j] = Outcome(result[j], e)]
        BY <3>1 DEF finish
      <4>2. worker[j] = "finish" /\ worker'[j] = "release"
        BY <3>1 DEF finish, Goto
      <4>3. items'[j].state \in {"succeeded", "failed", "unknown"}
        BY <4>1, <4>2, OutcomeShown DEF ResultInv
      <4> QED BY <4>2, <4>3 DEF OpenStates, Unfinished, Active
    <3>2. CASE Release(j)
      <4>1. worker[j] = "release" /\ worker'[j] = "none" /\ items' = items
        BY <3>2 DEF Release, Goto
      <4> QED BY <1>0, <4>1 DEF KnownInv, Active
    <3> QED BY <1>3, <3>1, <3>2, WorkerShows
  <2> QED BY <1>0, <2>1, <2>2, <2>3, <2>4 DEF KnownInv
<1>4. CASE Crash
  <2>1. items' = [j \in JobIds |-> Absent] /\ worker' = [j \in JobIds |-> "none"]
    BY <1>4 DEF Crash
  <2> QED BY <2>1 DEF KnownInv, Absent, R, OpenStates, Unfinished, Active
<1>5. CASE NewJobs
  <2>1. /\ UNCHANGED <<of, ran, worker>>
        /\ \A i \in JobIds : worker[i] = "none" /\ items[i] = Absent
    BY <1>5 DEF NewJobs, DownInv
  <2>2. CASE items' = items /\ keys' = keys
    BY <1>0, <2>1, <2>2 DEF KnownInv
  <2>3. CASE ~(items' = items /\ keys' = keys)
    <3>1. /\ disk' = [j \in JobIds |-> Reopened(j)]
          /\ items' = [j \in JobIds |-> IF Kept(disk', j) THEN disk'[j] ELSE Absent]
          /\ \A k \in Keys :
               LET own == {j \in JobIds : Kept(disk', j) /\ of[j].key = k}
               IN  IF own = {} THEN keys'[k] = NoJob ELSE keys'[k] \in own
      <4>1. PICK S \in SUBSET JobIds :
              /\ disk' = [j \in JobIds |-> IF j \in S THEN Reopened(j) ELSE disk[j]]
              /\ S = JobIds
              /\ items' = [j \in JobIds |-> IF Kept(disk', j) THEN disk'[j] ELSE Absent]
              /\ \A k \in Keys :
                   LET own == {j \in JobIds : Kept(disk', j) /\ of[j].key = k}
                   IN  IF own = {} THEN keys'[k] = NoJob ELSE keys'[k] \in own
        <5> HIDE DEF JobsInv, TypeOK
        <5> QED BY <1>5, <2>3, Zenon DEF NewJobs
      <4>2. disk' = [j \in JobIds |-> Reopened(j)]
        <5> HIDE DEF JobsInv, TypeOK
        <5> QED BY <4>1
      <4> QED BY <4>1, <4>2, Zenon
    <3>2. \A i \in JobIds : items'[i] # Absent => Kept(disk', i) /\ items'[i] = Reopened(i)
      BY <3>1
    <3>3. \A i \in JobIds : items'[i].state \notin OpenStates
      <4>1. Absent.state \notin OpenStates
        BY DEF Absent, R, OpenStates, Unfinished
      <4> QED BY <1>0, <3>2, <4>1, ReopenedHasOutcome DEF LeftInv, OpenStates, Unfinished
    <3>4. \A i \in JobIds : Kept(disk', i) => keys'[of[i].key] # NoJob
      <4> SUFFICES ASSUME NEW i \in JobIds, Kept(disk', i) PROVE keys'[of[i].key] # NoJob
        OBVIOUS
      <4> DEFINE own == {j \in JobIds : Kept(disk', j) /\ of[j].key = of[i].key}
      <4>1. of[i].key \in Keys /\ i \in own
        BY DEF Request
      <4>2. keys'[of[i].key] \in own
        BY <3>1, <4>1
      <4> QED BY <4>2, JobsConstants
    <3> QED BY <2>1, <3>2, <3>3, <3>4 DEF KnownInv, Active, Kept
  <2> QED BY <2>2, <2>3
<1>6. CASE UNCHANGED vars
  BY <1>0, <1>6 DEF vars, KnownInv
<1> QED BY <1>1, <1>2, <1>3, <1>4, <1>5, <1>6 DEF Next, Start

LEMMA LeftStep == ASSUME JobsInv, TruthInv, LedgerInv, [Next]_vars PROVE LeftInv'
<1> USE DEF JobsInv, TypeOK
<1>0. /\ KnownInv /\ LeftInv
      /\ \A i \in JobIds : \A v : of' = of /\ Sensible(i, v) => Sensible(i, v)'
  BY DEF LedgerInv, Sensible
<1>1. ASSUME NEW r \in Request, Start(r) PROVE LeftInv'
  <2>1. /\ of' = of /\ pending' \subseteq pending
        /\ \A i \in JobIds : \/ disk'[i] = disk[i] \/ disk'[i] = items[i]
                             \/ disk'[i] = R("queued", "accepted")
    BY <1>1, StartWrites
  <2>2. \A i \in JobIds : items'[i] = items[i] \/ (items'[i] = R("queued", "accepted") /\ Fresh(i))
    BY <1>1 DEF Start, RepairFails, PersistFails, Accept
  <2>3. \A i \in JobIds : Sensible(i, disk[i])' /\ Sensible(i, items[i])'
    BY <1>0, <2>1, <2>2, SensibleRecords DEF LeftInv, Sensible
  <2>4. \A i \in pending' : items'[i] = items[i]
    BY <2>1, <2>2 DEF PendingInv, Fresh
  <2> QED BY <1>0, <2>1, <2>3, <2>4 DEF LeftInv
<1>2. ASSUME NEW j \in JobIds, Worker(j) PROVE LeftInv'
  <2>1. /\ of' = of
        /\ \A i \in JobIds : i # j => items'[i] = items[i] /\ disk'[i] = disk[i]
    BY <1>2, WorkerFrame
  <2>2. \A i \in JobIds : Sensible(i, disk[i])' /\ Sensible(i, items[i])'
    BY <1>0, <1>2, <2>1, WorkerShows DEF LeftInv, Sensible
  <2>3. \A i \in pending' : items'[i].state \in {"unknown", "failed"}
    <3>1. CASE finish(j)
      <4>1. PICK e \in SaveOutcomes :
              /\ items' = [items EXCEPT ![j] = Outcome(result[j], e)]
              /\ pending' = IF e = "ok" THEN pending ELSE pending \cup {j}
        BY <3>1 DEF finish
      <4>2. worker[j] = "finish"
        BY <3>1 DEF finish
      <4>3. j \notin pending
        BY <1>0, <4>2 DEF KnownInv, LeftInv, Active, OpenStates, Unfinished
      <4>4. e # "ok" => items'[j].state \in {"unknown", "failed"}
        BY <4>1, <4>2, OutcomeShown DEF ResultInv
      <4> QED BY <1>0, <2>1, <4>1, <4>3, <4>4 DEF LeftInv
    <3>2. CASE Release(j)
      <4>1. UNCHANGED <<items, pending>>
        BY <3>2 DEF Release
      <4> QED BY <1>0, <4>1 DEF LeftInv
    <3>3. CASE ~finish(j) /\ ~Release(j)
      <4>1. pending' = pending /\ items[j].state \in OpenStates
        BY <1>2, <3>3, WorkerShows
      <4>2. j \notin pending
        BY <1>0, <4>1 DEF LeftInv, OpenStates, Unfinished
      <4> QED BY <1>0, <2>1, <4>1, <4>2 DEF LeftInv
    <3> QED BY <3>1, <3>2, <3>3
  <2> QED BY <2>2, <2>3 DEF LeftInv
<1>3. CASE Crash
  <2>1. UNCHANGED <<of, disk>> /\ items' = [j \in JobIds |-> Absent] /\ pending' = {}
    BY <1>3 DEF Crash
  <2> QED BY <1>0, <2>1, SensibleRecords DEF LeftInv, Sensible
<1>4. CASE NewJobs
  <2>1. /\ UNCHANGED <<of, pending>> /\ pending = {} /\ \A i \in JobIds : items[i] = Absent
        /\ \A i \in JobIds : disk'[i] \in {disk[i], Reopened(i)}
        /\ \A i \in JobIds : items'[i] \in {Absent, disk'[i]}
    BY <1>4 DEF NewJobs, DownInv
  <2>2. \A i \in JobIds : Sensible(i, Reopened(i))
    BY <1>0, ReopenedHasOutcome, SensibleRecords DEF LeftInv
  <2> QED BY <1>0, <2>1, <2>2, SensibleRecords DEF LeftInv, Sensible
<1>5. CASE UNCHANGED vars
  BY <1>0, <1>5 DEF vars, LeftInv, Sensible
<1> QED BY <1>1, <1>2, <1>3, <1>4, <1>5 DEF Next

LEMMA LedgerInit == Init => LedgerInv
<1> SUFFICES ASSUME Init PROVE LedgerInv
  OBVIOUS
<1>1. /\ pending = {}
      /\ \A j \in JobIds : disk[j] = Absent /\ items[j] = Absent /\ worker[j] = "none"
  BY DEF Init
<1>2. Absent.state \notin OpenStates
  BY DEF Absent, R, OpenStates, Unfinished
<1> QED BY <1>1, <1>2, SensibleRecords DEF LedgerInv, KnownInv, LeftInv, Active

LEMMA LedgerInvariance == Spec => []LedgerInv
<1>1. JobsInv /\ TruthInv /\ LedgerInv /\ [Next]_vars => LedgerInv'
  BY KnownStep, LeftStep DEF LedgerInv
<1> QED BY LedgerInit, <1>1, Invariance, TruthInvariance, PTL DEF Spec

\* What Get tells, by the state of the record.
LEMMA ToldState ==
  ASSUME NEW j \in JobIds, items[j] \in Record, Sensible(j, items[j])
  PROVE  /\ Told(j) \in {"nothing", "open", "succeeded", "failed", "unknown"}
         /\ Told(j) = "nothing" <=> items[j] = Absent
         /\ Told(j) = "open" <=> items[j].state \in OpenStates
         /\ Told(j) = "succeeded" <=> items[j].state = "succeeded"
         /\ items[j].state \in {"succeeded", "failed", "unknown"} => Told(j) = items[j].state
<1>1. items[j].state \in States /\ (items[j].state = "absent" => items[j] = Absent)
  BY DEF Record, Sensible
<1>2. Absent.state = "absent"
  BY DEF Absent, R
<1> QED BY <1>1, <1>2 DEF Told, States, OpenStates, Unfinished

\* While there is a process, the successes it shows are the lasting ones.
LEMMA LastingShown ==
  ASSUME JobsInv, JobsInv'
  PROVE  /\ up => Lasting = {j \in JobIds : items[j].state = "succeeded"}
         /\ up' => Lasting' = {j \in JobIds : items'[j].state = "succeeded"}
BY DEF Lasting, JobsInv, SuccessInv

\* Start records at most the new job, and opens it only as the one that is open.
LEMMA StartMaps ==
  ASSUME JobsInv, JobsInv', LedgerInv, NEW r \in Request, Start(r)
  PROVE  [Ledger!Next]_(Ledger!vars)
<1>1. /\ up /\ UNCHANGED <<of, up, ran, good>> /\ \A i \in JobIds : worker[i] = "none"
  BY StartWrites
<1>2. UNCHANGED <<Keyed, Effective, Reached>>
  BY <1>1 DEF Keyed, Effective, Reached
<1>3. /\ Lasting = {j \in JobIds : items[j].state = "succeeded"}
      /\ Lasting' = {j \in JobIds : items'[j].state = "succeeded"}
  BY <1>1, LastingShown
<1>4. /\ pending \subseteq JobIds
      /\ \A i \in pending : disk[i] # Absent /\ items[i] # Absent
  BY DEF JobsInv, TypeOK, PendingInv, LedgerInv, KnownInv
<1>5. ASSUME items' = items PROVE UNCHANGED <<Answers, Lasting>>
  BY <1>3, <1>5 DEF Answers, Told
<1>6. CASE RepairFails(r)
  <2>1. items' = items
    BY <1>6 DEF RepairFails
  <2>2. Recorded' = Recorded
    BY <1>4, <1>6, RepairWrites DEF Recorded
  <2> QED BY <1>2, <1>5, <2>1, <2>2 DEF Ledger!vars
<1>7. ASSUME NEW j \in JobIds, NEW e, Fresh(j),
             disk' = save(Repaired(pending), j, R("queued", "accepted"), e)
      PROVE  j \notin Recorded /\ Recorded' \in {Recorded, Recorded \cup {j}}
  <2>1. \A i \in JobIds : i # j => disk'[i] = disk[i] \/ (i \in pending /\ disk'[i] = items[i])
    <3> SUFFICES ASSUME NEW i \in JobIds, i # j
                 PROVE  disk'[i] = disk[i] \/ (i \in pending /\ disk'[i] = items[i])
      OBVIOUS
    <3> QED BY <1>7 DEF save, Repaired
  <2>2. \A i \in JobIds : i # j => (disk'[i] # Absent <=> disk[i] # Absent)
    BY <1>4, <2>1
  <2> QED BY <1>7, <2>2 DEF Recorded, Fresh
<1>8. CASE PersistFails(r)
  <2>1. PICK j \in JobIds, e \in SaveOutcomes :
           Fresh(j) /\ disk' = save(Repaired(pending), j, R("queued", "accepted"), e)
    BY <1>8 DEF PersistFails
  <2>2. items' = items
    BY <1>8 DEF PersistFails
  <2>3. j \notin Recorded /\ Recorded' \in {Recorded, Recorded \cup {j}}
    BY <1>7, <2>1
  <2>4. Recorded' # Recorded => Ledger!Record(j)
    BY <1>2, <1>5, <2>2, <2>3 DEF Ledger!Record
  <2> QED BY <1>2, <1>5, <2>2, <2>4 DEF Ledger!vars, Ledger!Next
<1>9. CASE Accept(r)
  <2>1. PICK j \in JobIds :
           /\ Fresh(j) /\ of[j] = r
           /\ disk' = save(Repaired(pending), j, R("queued", "accepted"), "ok")
           /\ items' = [items EXCEPT ![j] = R("queued", "accepted")]
    BY <1>9 DEF Accept
  <2>2. keys[r.key] = NoJob
    BY <1>9 DEF Accept, mayAccept
  <2>3. Recorded' = Recorded \cup {j} /\ j \notin Recorded
    <3>1. disk'[j] = R("queued", "accepted") /\ R("queued", "accepted") # Absent
      BY <2>1, Written DEF save, Repaired
    <3> QED BY <1>7, <2>1, <3>1 DEF Recorded
  <2>4. R("queued", "accepted").state = "queued"
    BY DEF R
  <2>5. Answers' = [Answers EXCEPT ![j] = "open"]
    <3>1. \A i \in JobIds : Told(i)' = IF i = j THEN "open" ELSE Told(i)
      BY <2>1, <2>4, Written DEF Told, OpenStates, Unfinished, JobsInv, TypeOK
    <3> QED BY <3>1 DEF Answers
  <2>6. Lasting' = Lasting
    BY <1>3, <2>1, <2>4 DEF Fresh, Absent, R, JobsInv, TypeOK
  <2>7. \A i \in JobIds : Answers[i] # "open" /\ (Answers[i] # "nothing" => Keyed[i] # Keyed[j])
    <3> SUFFICES ASSUME NEW i \in JobIds
                 PROVE  Told(i) # "open" /\ (Told(i) # "nothing" => of[i].key # of[j].key)
      BY DEF Answers, Keyed
    <3>1. items[i].state \notin OpenStates /\ (items[i] # Absent => keys[of[i].key] # NoJob)
      BY <1>1 DEF LedgerInv, KnownInv, Active
    <3>2. items[i] \in Record /\ Sensible(i, items[i])
      BY DEF LedgerInv, LeftInv, JobsInv, TypeOK
    <3> QED BY <2>1, <2>2, <3>1, <3>2, ToldState
  <2>8. Ledger!Record(j)
    BY <1>2, <2>3, <2>5, <2>6, <2>7 DEF Ledger!Record
  <2> QED BY <2>8 DEF Ledger!Next
<1> QED BY <1>6, <1>8, <1>9 DEF Start

\* A goroutine begins the effects of its job, completes them and tells of them; all else
\* that it writes is not seen.
LEMMA WorkerMaps ==
  ASSUME JobsInv, JobsInv', TruthInv, TruthInv', LedgerInv, LedgerInv', NEW j \in JobIds, Worker(j)
  PROVE  [Ledger!Next]_(Ledger!vars)
<1>1. /\ up /\ UNCHANGED <<of, up>> /\ worker[j] # "none"
      /\ \A i \in JobIds : i # j =>
            ran'[i] = ran[i] /\ items'[i] = items[i] /\ disk'[i] = disk[i]
  BY WorkerFrame
<1>2. Keyed' = Keyed
  BY <1>1 DEF Keyed
<1>3. Recorded' = Recorded /\ j \in Recorded
  <2>1. disk[j] # Absent
    BY <1>1 DEF JobsInv, WorkerInv
  <2>2. disk'[j] # Absent
    BY <2>1, FilesStay DEF Next
  <2> QED BY <1>1, <2>1, <2>2 DEF Recorded
<1>4. /\ Lasting = {i \in JobIds : items[i].state = "succeeded"}
      /\ Lasting' = {i \in JobIds : items'[i].state = "succeeded"}
  BY <1>1, LastingShown
<1>5. Answers' = [Answers EXCEPT ![j] = Told(j)']
  BY <1>1 DEF Answers, Told
<1>6. /\ Told(j) = "open" <=> items[j].state \in OpenStates
      /\ Told(j)' = "open" <=> items'[j].state \in OpenStates
      /\ items'[j].state \in {"succeeded", "failed", "unknown"} => Told(j)' = items'[j].state
  <2>1. items[j] \in Record /\ Sensible(j, items[j])
    BY DEF JobsInv, TypeOK, LedgerInv, LeftInv
  <2>2. Told(j) = "open" <=> items[j].state \in OpenStates
    BY <2>1, ToldState
  <2>3. Absent.state \notin OpenStates \cup {"succeeded", "failed", "unknown"}
    BY DEF Absent, R, OpenStates, Unfinished
  <2>4. Told(j)' = IF items'[j] = Absent THEN "nothing"
                   ELSE IF items'[j].state \in OpenStates THEN "open" ELSE items'[j].state
    BY DEF Told
  <2>5. "nothing" # "open" /\ OpenStates \cap {"succeeded", "failed", "unknown"} = {}
    BY DEF OpenStates, Unfinished
  <2>6. "open" \notin States
    BY DEF States
  <2>7. items'[j].state \in States
    BY DEF JobsInv, TypeOK, Record
  <2> QED BY <2>2, <2>3, <2>4, <2>5, <2>6, <2>7
<1>7. worker[j] \in Active => items[j].state \in OpenStates
  BY DEF LedgerInv, KnownInv
<1>8. CASE Release(j)
  <2>1. UNCHANGED <<disk, items, ran, good>>
    BY <1>8 DEF Release, hist
  <2>2. UNCHANGED <<Effective, Reached, Answers, Lasting>>
    BY <1>4, <2>1 DEF Effective, Reached, Answers, Told
  <2> QED BY <1>2, <1>3, <2>2 DEF Ledger!vars
<1>9. CASE finish(j)
  <2>1. PICK e \in SaveOutcomes : items' = [items EXCEPT ![j] = Outcome(result[j], e)]
    BY <1>9 DEF finish
  <2>2. UNCHANGED <<ran, good>> /\ worker[j] = "finish"
    BY <1>9 DEF finish, hist
  <2>3. UNCHANGED <<Effective, Reached>>
    BY <2>2 DEF Effective, Reached
  <2>4. items'[j].state \in {"succeeded", "failed", "unknown"}
    BY <2>1, <2>2, OutcomeShown DEF JobsInv, TypeOK, ResultInv
  <2>5. Answers[j] = "open" /\ Answers' = [Answers EXCEPT ![j] = items'[j].state]
    BY <1>5, <1>6, <1>7, <2>2, <2>4 DEF Active, Answers
  <2>6. items'[j].state = "succeeded" => j \in Reached
    BY <2>2 DEF TruthInv, Truthful, Reached
  <2>7. Lasting' = IF items'[j].state = "succeeded" THEN Lasting \cup {j} ELSE Lasting
    BY <1>1, <1>4, <1>7, <2>2 DEF Active, OpenStates, Unfinished
  <2>8. Ledger!Tell(j, items'[j].state)
    BY <1>2, <1>3, <2>3, <2>5, <2>6, <2>7 DEF Ledger!Tell
  <2> QED BY <2>4, <2>8 DEF Ledger!Next, Ledger!Outcomes
<1>10. CASE ~Release(j) /\ ~finish(j)
  <2>1. items[j].state \in OpenStates /\ items'[j].state \in OpenStates
    BY <1>10, WorkerShows
  <2>2. Answers[j] = "open" /\ UNCHANGED <<Answers, Lasting>>
    <3>1. Told(j) = "open" /\ Told(j)' = "open"
      BY <1>6, <2>1
    <3>2. Answers \in [JobIds -> {Told(i) : i \in JobIds}] /\ Answers[j] = "open"
      BY <3>1 DEF Answers
    <3>3. Lasting' = Lasting
      BY <1>1, <1>4, <2>1 DEF OpenStates, Unfinished
    <3> QED BY <1>5, <3>1, <3>2, <3>3
  <2>3. CASE Begin(j) \/ Refuse(j) \/ Progress(j)
    <3>1. UNCHANGED <<ran, good>>
      BY <2>3 DEF Begin, Refuse, Progress, hist
    <3> QED BY <1>2, <1>3, <2>2, <3>1 DEF Ledger!vars, Effective, Reached
  <2>4. CASE Execute(j) \/ BeforeExit(j)
    <3>1. /\ worker[j] = "run" /\ ran' = [ran EXCEPT ![j] = TRUE]
          /\ good' \in {good, [good EXCEPT ![j] = TRUE]}
      BY <2>4 DEF Execute, BeforeExit
    <3>2. Effective' = Effective \cup {j} /\ Reached' \in {Reached, Reached \cup {j}}
      BY <3>1 DEF Effective, Reached, JobsInv, TypeOK
    <3>3. \A i \in Effective : Keyed[i] # Keyed[j]
      BY <1>1, <3>1 DEF TruthInv, JobsInv, WorkerInv, Effective, Keyed
    <3>4. Ledger!Begin(j)
      BY <1>2, <1>3, <2>2, <3>2, <3>3 DEF Ledger!Begin
    <3> QED BY <3>4 DEF Ledger!Next
  <2>5. CASE Complete(j)
    <3>1. ran' = ran /\ ran[j] /\ good' \in {good, [good EXCEPT ![j] = TRUE]}
      BY <2>5 DEF Complete, LedgerInv, KnownInv
    <3>2. /\ Effective' = Effective /\ j \in Effective
          /\ Reached' \in {Reached, Reached \cup {j}}
      BY <3>1 DEF Effective, Reached, JobsInv, TypeOK
    <3>3. Reached' # Reached => Ledger!Reach(j)
      BY <1>2, <1>3, <2>2, <3>2 DEF Ledger!Reach
    <3> QED BY <1>2, <1>3, <2>2, <3>2, <3>3 DEF Ledger!vars, Ledger!Next
  <2> QED BY <1>10, <2>3, <2>4, <2>5 DEF Worker
<1> QED BY <1>8, <1>9, <1>10

\* Nothing is told while there is no process, and no success on disk is lost.
LEMMA RestartMaps ==
  ASSUME JobsInv, JobsInv', TruthInv, TruthInv', LedgerInv, Crash \/ NewJobs
  PROVE  Ledger!Next
<1>1. /\ UNCHANGED <<of, ran, good>>
      /\ \A i \in JobIds : /\ disk'[i] \in {disk[i], Reopened(i)}
                           /\ disk[i].state = "succeeded" => disk'[i].state = "succeeded"
                           /\ disk'[i] = Absent <=> disk[i] = Absent
  <2>1. CASE Crash
    BY <2>1 DEF Crash
  <2>2. CASE NewJobs
    <3>1. UNCHANGED hist /\ of' = of /\ \A i \in JobIds : disk'[i] \in {disk[i], Reopened(i)}
      BY <2>2 DEF NewJobs
    <3>2. \A i \in JobIds : disk[i] \in Record /\ Sensible(i, disk[i])
      BY DEF JobsInv, TypeOK, LedgerInv, LeftInv
    <3> QED BY <3>1, <3>2, ReopenedHasOutcome DEF hist
  <2> QED BY <2>1, <2>2
<1>2. UNCHANGED <<Keyed, Recorded, Effective, Reached>>
  BY <1>1 DEF Keyed, Recorded, Effective, Reached
<1>3. Lasting \subseteq Lasting' /\ Lasting' \subseteq Reached'
  <2>1. \A i \in JobIds : disk'[i].state = "succeeded" => good'[i]
    BY DEF TruthInv, Truthful
  <2>2. \A i \in Lasting : i \in JobIds /\ disk'[i].state = "succeeded"
    BY <1>1 DEF Lasting
  <2>3. ASSUME up', NEW i \in JobIds, disk'[i].state = "succeeded"
        PROVE  items'[i].state = "succeeded"
    <3>1. NewJobs /\ ~(items' = items /\ keys' = keys /\ up' = up)
      BY <2>3 DEF Crash, NewJobs
    <3>2. items' = [j \in JobIds |-> IF Kept(disk', j) THEN disk'[j] ELSE Absent]
      BY <3>1 DEF NewJobs
    <3>3. disk'[i] # Absent
      BY <2>3 DEF Absent, R
    <3> QED BY <2>3, <3>2, <3>3 DEF Kept
  <2> QED BY <2>1, <2>2, <2>3 DEF Lasting, Reached
<1>4. CASE ~up'
  <2>1. \A i \in JobIds : items'[i] = Absent
    BY <1>4 DEF JobsInv, DownInv
  <2>2. Answers' = [j \in JobIds |-> "nothing"]
    BY <2>1 DEF Answers, Told
  <2>3. Ledger!Down
    BY <1>2, <1>3, <2>2 DEF Ledger!Down, Ledger!KeepMore
  <2> QED BY <2>3 DEF Ledger!Next
<1>5. CASE up'
  <2>1. /\ NewJobs /\ ~up
        /\ \E S \in SUBSET JobIds :
             /\ disk' = [j \in JobIds |-> IF j \in S THEN Reopened(j) ELSE disk[j]]
             /\ S = JobIds
             /\ items' = [j \in JobIds |-> IF Kept(disk', j) THEN disk'[j] ELSE Absent]
    BY <1>5, Zenon DEF Crash, NewJobs
  <2>2. Answers = [j \in JobIds |-> "nothing"]
    <3>1. \A i \in JobIds : items[i] = Absent
      BY <2>1 DEF JobsInv, DownInv
    <3> QED BY <3>1 DEF Answers, Told
  <2>3. \A i \in JobIds : disk'[i] = Reopened(i) /\ items'[i] = disk'[i]
    BY <2>1 DEF Kept
  <2>4. \A i \in JobIds : \/ items'[i] = Absent /\ disk[i] = Absent
                          \/ /\ items'[i] # Absent /\ disk[i] # Absent
                             /\ items'[i].state \in {"succeeded", "failed", "unknown"}
    <3>1. \A i \in JobIds : disk[i] \in Record /\ Sensible(i, disk[i])
      BY DEF JobsInv, TypeOK, LedgerInv, LeftInv
    <3> QED BY <2>3, <3>1, ReopenedHasOutcome
  <2>5. \A i \in JobIds : \/ Told(i)' = "nothing" /\ disk[i] = Absent /\ items'[i] = Absent
                          \/ /\ Told(i)' = items'[i].state /\ disk[i] # Absent
                             /\ items'[i].state \in {"succeeded", "failed", "unknown"}
    BY <2>4 DEF Told, OpenStates, Unfinished
  <2>6. Lasting' = {j \in JobIds : items'[j].state = "succeeded"}
    BY <1>5, LastingShown
  <2>7. /\ Answers' \in [JobIds -> Ledger!Outcomes \cup {"nothing"}]
        /\ \A j \in JobIds : /\ Answers'[j] # "nothing" <=> j \in Recorded
                             /\ Answers'[j] = "succeeded" <=> j \in Lasting'
    <3>1. Absent.state # "succeeded"
      BY DEF Absent, R
    <3> QED BY <2>5, <2>6, <3>1 DEF Answers, Recorded, Ledger!Outcomes
  <2>8. Ledger!Restarted
    BY <1>2, <1>3, <2>2, <2>7 DEF Ledger!Restarted, Ledger!KeepMore
  <2> QED BY <2>8 DEF Ledger!Next
<1> QED BY <1>4, <1>5

\* The store keeps its promises to the clients of the panel (see JobLedger), whatever they
\* send again, whatever fails to be written and however often ChatWire is restarted.
THEOREM LedgerKept == Spec => ImplementsLedger
<1>1. Init => Ledger!Init
  <2> SUFFICES ASSUME Init PROVE Ledger!Init
    OBVIOUS
  <2>1. \A j \in JobIds : /\ of[j] \in Request /\ disk[j] = Absent /\ items[j] = Absent
                          /\ ~ran[j] /\ ~good[j]
    BY DEF Init
  <2>2. Absent.state # "succeeded"
    BY DEF Absent, R
  <2> QED BY <2>1, <2>2 DEF Ledger!Init, Keyed, Recorded, Effective, Reached, Answers, Told,
                            Lasting, Request
<1>2. /\ JobsInv /\ JobsInv' /\ TruthInv /\ TruthInv' /\ LedgerInv /\ LedgerInv' /\ [Next]_vars
      => [Ledger!Next]_(Ledger!vars)
  <2> SUFFICES ASSUME JobsInv, JobsInv', TruthInv, TruthInv', LedgerInv, LedgerInv', [Next]_vars
               PROVE  [Ledger!Next]_(Ledger!vars)
    OBVIOUS
  <2>1. CASE UNCHANGED vars
    BY <2>1 DEF vars, store, work, hist, Ledger!vars, Keyed, Recorded, Effective, Reached,
                Answers, Told, Lasting
  <2>2. CASE Crash \/ NewJobs
    BY <2>2, RestartMaps
  <2> QED BY <2>1, <2>2, StartMaps, WorkerMaps DEF Next
<1> QED
  BY <1>1, <1>2, Invariance, TruthInvariance, LedgerInvariance, PTL
     DEF Spec, ImplementsLedger, Ledger!Spec
=============================================================================
