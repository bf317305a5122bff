----------------------------- MODULE WebProofs -----------------------------
(***************************************************************************)
(* What the web panel promises, for any number of instances, users,        *)
(* processes, settings and files: what runs is what was shown and          *)
(* confirmed, once, and a batch that says it succeeded did so everywhere   *)
(* (Console); an upload stays until it is in use (Uploads); and a client   *)
(* never edits settings it has not been shown (Settings).  The components  *)
(* have no variables in common, so that each has an invariant of its own,  *)
(* that of the sessions in AuthProofs; the last theorem is about them all. *)
(***************************************************************************)
EXTENDS MCWeb, AuthProofs, FiniteSetTheorems

USE DEF Active, Final

-----------------------------------------------------------------------------
(* The inductive invariant *)

\* The instances: a token is used up when its job is accepted, and a job has what its
\* preview has shown.
InstanceInv ==
  /\ rev \in [Servers -> Nat] /\ \A s \in Servers : rev[s] <= MaxRev[s]
  /\ shown \in [Servers -> [Tokens -> ShownRecords \cup {Nil}]]
  /\ previews \in [Servers -> SUBSET Tokens]
  /\ jobs \in [Servers -> SUBSET JobRecords]
  /\ control \in [Servers -> {"free", "discord"} \cup RequestKeys \cup Batches]
  /\ \A s \in Servers : \A t \in previews[s] : shown[s][t] # Nil
  /\ \A s \in Servers : \A j \in jobs[s] : j.token \notin previews[s]
  /\ ConfirmedOnce /\ ExecutedAsShown

\* The web service: a batch refers to what was shown for it.
HostInv ==
  /\ building \in PlanRecords \cup {Nil}
  /\ bShown \in [Tokens -> PlanRecords \cup {Nil}]
  /\ bPreviews \subseteq Tokens /\ \A t \in bPreviews : bShown[t] # Nil
  /\ bJobs \in [Batches -> BatchRecords \cup {Nil}]
  /\ \A k \in Batches : bJobs[k] # Nil => bShown[bJobs[k].token] # Nil
  /\ \A k \in Batches : bJobs[k] # Nil /\ bJobs[k].state = "succeeded" =>
       \A s \in DOMAIN bJobs[k].child : bJobs[k].child[s] = "succeeded"
  /\ BatchAsShown

\* A target that has succeeded for a batch has a job of the batch that has succeeded.
TargetsTrue ==
  \A k \in Batches : bJobs[k] # Nil =>
    \A s \in DOMAIN bJobs[k].child : bJobs[k].child[s] = "succeeded" =>
      \E j \in jobs[s] : j.key = k /\ j.state = "succeeded"

ConsoleInv == InstanceInv /\ HostInv /\ TargetsTrue

\* No step takes back a success.
SuccessesStay == \A s \in Servers : \A j \in jobs[s] : j.state = "succeeded" => j \in jobs'[s]

-----------------------------------------------------------------------------
(* One instance *)

\* A token that was never shown is shown.
LEMMA PreviewInv ==
  ASSUME InstanceInv, NEW s \in Servers, NEW a \in Actors, NEW q \in Requests, NEW t \in Tokens,
         Preview(s, a, q, t), UNCHANGED <<rev, jobs, control>>
  PROVE  InstanceInv' /\ SuccessesStay
<1> DEFINE r == [actor |-> a, req |-> q, rev |-> rev[s]]
<1>1. r \in ShownRecords /\ r # Nil
  BY ConsoleConstants DEF InstanceInv, ShownRecords
<1> HIDE DEF r
<1>2. shown' = [shown EXCEPT ![s] = [shown[s] EXCEPT ![t] = r]]
  BY DEF Preview, r, InstanceInv
<1>3. \A x \in Servers, y \in Tokens :
        shown'[x][y] = IF x = s /\ y = t THEN r ELSE shown[x][y]
  BY <1>2 DEF InstanceInv
<1>4. shown' \in [Servers -> [Tokens -> ShownRecords \cup {Nil}]]
  BY <1>1, <1>2 DEF InstanceInv
<1>5. previews' = [previews EXCEPT ![s] = previews[s] \cup {t}]
  BY DEF Preview, InstanceInv
<1>6. previews' \in [Servers -> SUBSET Tokens]
  BY <1>5 DEF InstanceInv
<1>7. \A x \in Servers : \A y \in previews'[x] : shown'[x][y] # Nil
  BY <1>1, <1>3, <1>5, <1>6 DEF InstanceInv
<1>8. \A x \in Servers : \A j \in jobs[x] :
        /\ j.token \in Tokens
        /\ shown[x][j.token] = [actor |-> j.actor, req |-> j.req, rev |-> j.rev]
        /\ shown[x][j.token] # Nil
  <2> SUFFICES ASSUME NEW x \in Servers, NEW j \in jobs[x]
               PROVE  /\ j.token \in Tokens
                      /\ shown[x][j.token] = [actor |-> j.actor, req |-> j.req, rev |-> j.rev]
                      /\ shown[x][j.token] # Nil
    OBVIOUS
  <2>1. j \in JobRecords
    BY DEF InstanceInv
  <2>2. shown[x][j.token] = [actor |-> j.actor, req |-> j.req, rev |-> j.rev]
    BY DEF InstanceInv, ExecutedAsShown
  <2>3. shown[x][j.token] \in ShownRecords
    BY <2>1, <2>2 DEF JobRecords, ShownRecords
  <2> QED
    BY <2>1, <2>2, <2>3, ConsoleConstants DEF JobRecords
<1>9. \A x \in Servers : \A j \in jobs[x] : ~(x = s /\ j.token = t)
  BY <1>8 DEF Preview
<1>10. ExecutedAsShown'
  <2> SUFFICES ASSUME NEW x \in Servers, NEW i \in jobs'[x]
               PROVE  shown'[x][i.token] = [actor |-> i.actor, req |-> i.req, rev |-> i.rev]
    BY DEF ExecutedAsShown
  <2>1. i \in jobs[x] /\ i.token \in Tokens
    BY <1>8
  <2>2. shown'[x][i.token] = shown[x][i.token]
    BY <1>3, <1>9, <2>1
  <2> QED
    BY <1>8, <2>1, <2>2
<1>11. \A x \in Servers : \A j \in jobs[x] : j.token \notin previews'[x]
  BY <1>5, <1>9 DEF InstanceInv
<1>12. ConfirmedOnce'
  BY DEF InstanceInv, ConfirmedOnce
<1> QED
  BY <1>4, <1>6, <1>7, <1>10, <1>11, <1>12 DEF InstanceInv, SuccessesStay

\* A preview that is still open becomes a job, once.
LEMMA AcceptInv ==
  ASSUME InstanceInv, NEW s \in Servers, NEW a \in Actors, NEW q \in Requests,
         NEW k \in RequestKeys \cup Batches, NEW t,
         Accept(s, a, q, k, t), UNCHANGED <<rev, shown, control>>
  PROVE  InstanceInv' /\ SuccessesStay
<1>1. t \in previews[s] /\ t \in Tokens
  BY DEF Accept, Confirms, InstanceInv
<1> DEFINE n == [key |-> k, actor |-> a, req |-> q, token |-> t, rev |-> rev[s],
                 state |-> "queued"]
<1>2. /\ n \in JobRecords /\ n.token = t
      /\ shown[s][n.token] = [actor |-> n.actor, req |-> n.req, rev |-> n.rev]
  <2>1. n \in JobRecords /\ n.token = t /\ n.actor = a /\ n.req = q /\ n.rev = rev[s]
    BY <1>1 DEF InstanceInv, JobRecords
  <2>2. shown[s][t] \in ShownRecords
    BY <1>1 DEF InstanceInv
  <2>3. shown[s][t].actor = a /\ shown[s][t].req = q /\ shown[s][t].rev = rev[s]
    BY DEF Accept, Confirms
  <2> QED
    BY <2>1, <2>2, <2>3 DEF ShownRecords
<1>3. jobs' = [jobs EXCEPT ![s] = jobs[s] \cup {n}]
  BY DEF Accept, InstanceInv
<1> HIDE DEF n
<1>4. previews' = [previews EXCEPT ![s] = previews[s] \ {t}]
  BY DEF Accept, Without, InstanceInv
<1>5. jobs' \in [Servers -> SUBSET JobRecords] /\ previews' \in [Servers -> SUBSET Tokens]
  BY <1>2, <1>3, <1>4 DEF InstanceInv
<1>6. \A x \in Servers : \A j \in jobs'[x] : j \in jobs[x] \/ (x = s /\ j = n)
  BY <1>3 DEF InstanceInv
<1>7. \A x \in Servers : previews'[x] \subseteq previews[x]
  BY <1>4 DEF InstanceInv
<1>8. \A x \in Servers : \A j \in jobs'[x] : j.token \notin previews'[x]
  BY <1>2, <1>4, <1>6, <1>7 DEF InstanceInv
<1>9. ConfirmedOnce'
  <2>1. \A j \in jobs[s] : j.token # t
    BY <1>1 DEF InstanceInv
  <2> QED
    BY <1>2, <1>6, <2>1 DEF InstanceInv, ConfirmedOnce
<1>10. ExecutedAsShown'
  <2> SUFFICES ASSUME NEW x \in Servers, NEW i \in jobs'[x]
               PROVE  shown'[x][i.token] = [actor |-> i.actor, req |-> i.req, rev |-> i.rev]
    BY DEF ExecutedAsShown
  <2>1. CASE i \in jobs[x]
    BY <2>1 DEF InstanceInv, ExecutedAsShown
  <2>2. CASE x = s /\ i = n
    BY <1>2, <2>2
  <2> QED
    BY <1>6, <2>1, <2>2
<1>11. \A x \in Servers : \A y \in previews'[x] : shown'[x][y] # Nil
  BY <1>7 DEF InstanceInv
<1>12. SuccessesStay
  BY <1>3 DEF SuccessesStay, InstanceInv
<1> QED
  BY <1>5, <1>8, <1>9, <1>10, <1>11, <1>12 DEF InstanceInv

\* A job that has not ended gets another state.
LEMMA ToInv ==
  ASSUME InstanceInv, NEW s \in Servers, NEW j \in jobs[s], NEW st \in Active \cup Final,
         j.state \in Active, To(s, j, st), UNCHANGED <<rev, shown, previews>>,
         control' \in [Servers -> {"free", "discord"} \cup RequestKeys \cup Batches]
  PROVE  InstanceInv' /\ SuccessesStay
<1> DEFINE n == [j EXCEPT !.state = st]
<1>1. /\ n \in JobRecords /\ n.token = j.token /\ n.actor = j.actor
      /\ n.req = j.req /\ n.rev = j.rev
  <2>1. j \in JobRecords
    BY DEF InstanceInv
  <2> QED
    BY <2>1 DEF JobRecords
<1>2. jobs' = [jobs EXCEPT ![s] = (jobs[s] \ {j}) \cup {n}]
  BY DEF To, InstanceInv
<1> HIDE DEF n
<1>3. jobs' \in [Servers -> SUBSET JobRecords]
  BY <1>1, <1>2 DEF InstanceInv
<1>4. \A x \in Servers : \A i \in jobs'[x] : (i \in jobs[x] /\ ~(x = s /\ i = j)) \/ (x = s /\ i = n)
  BY <1>2 DEF InstanceInv
<1>5. \A x \in Servers : \A i \in jobs'[x] : i.token \notin previews[x]
  BY <1>1, <1>4 DEF InstanceInv
<1>6. ConfirmedOnce'
  BY <1>1, <1>4 DEF InstanceInv, ConfirmedOnce
<1>7. ExecutedAsShown'
  <2> SUFFICES ASSUME NEW x \in Servers, NEW i \in jobs'[x]
               PROVE  shown'[x][i.token] = [actor |-> i.actor, req |-> i.req, rev |-> i.rev]
    BY DEF ExecutedAsShown
  <2>1. PICK m \in jobs[x] : /\ i.token = m.token /\ i.actor = m.actor /\ i.req = m.req
                             /\ i.rev = m.rev
    BY <1>1, <1>4
  <2>2. shown[x][m.token] = [actor |-> m.actor, req |-> m.req, rev |-> m.rev]
    BY DEF InstanceInv, ExecutedAsShown
  <2> QED
    BY <2>1, <2>2
<1>8. SuccessesStay
  BY <1>2 DEF SuccessesStay, InstanceInv
<1> QED
  BY <1>3, <1>5, <1>6, <1>7, <1>8 DEF InstanceInv

\* The instance starts again: jobs that were under way have an unknown outcome.
LEMMA RestartInv ==
  ASSUME InstanceInv, NEW s \in Servers, InstanceRestarts(s)
  PROVE  InstanceInv' /\ SuccessesStay
<1> DEFINE After(j) == IF j.state \in Active THEN [j EXCEPT !.state = "other"] ELSE j
<1>1. \A j \in JobRecords : /\ After(j) \in JobRecords /\ After(j).token = j.token
                            /\ After(j).actor = j.actor /\ After(j).req = j.req
                            /\ After(j).rev = j.rev
                            /\ j.state = "succeeded" => After(j) = j
  BY DEF JobRecords
<1>2. jobs' = [jobs EXCEPT ![s] = {After(j) : j \in jobs[s]}]
  BY DEF InstanceRestarts, InstanceInv
<1> HIDE DEF After
<1>4. \A x \in Servers : \A i \in jobs'[x] : \E j \in jobs[x] :
        /\ i = IF x = s THEN After(j) ELSE j
        /\ i \in JobRecords /\ i.token = j.token /\ i.actor = j.actor /\ i.req = j.req
        /\ i.rev = j.rev
  BY <1>1, <1>2 DEF InstanceInv
<1>5. jobs' \in [Servers -> SUBSET JobRecords]
  BY <1>1, <1>2 DEF InstanceInv
<1>6. previews' = [previews EXCEPT ![s] = {}]
  BY DEF InstanceRestarts
<1>7. /\ \A x \in Servers : previews'[x] \subseteq previews[x]
      /\ previews' \in [Servers -> SUBSET Tokens]
  BY <1>6 DEF InstanceInv
<1>8. \A x \in Servers : \A i \in jobs'[x] : i.token \notin previews'[x]
  BY <1>4, <1>7 DEF InstanceInv
<1>9. ConfirmedOnce'
  BY <1>4 DEF InstanceInv, ConfirmedOnce
<1>10. ExecutedAsShown'
  <2> SUFFICES ASSUME NEW x \in Servers, NEW i \in jobs'[x]
               PROVE  shown'[x][i.token] = [actor |-> i.actor, req |-> i.req, rev |-> i.rev]
    BY DEF ExecutedAsShown
  <2>1. PICK m \in jobs[x] : /\ i.token = m.token /\ i.actor = m.actor /\ i.req = m.req
                             /\ i.rev = m.rev
    BY <1>4
  <2>2. shown[x][m.token] = [actor |-> m.actor, req |-> m.req, rev |-> m.rev]
    BY DEF InstanceInv, ExecutedAsShown
  <2> QED
    BY <2>1, <2>2 DEF InstanceRestarts
<1>11. SuccessesStay
  BY <1>1, <1>2 DEF SuccessesStay, InstanceInv
<1>12. control' \in [Servers -> {"free", "discord"} \cup RequestKeys \cup Batches]
  BY DEF InstanceRestarts, InstanceInv
<1>13. \A x \in Servers : \A y \in previews'[x] : shown'[x][y] # Nil
  BY <1>7 DEF InstanceInv, InstanceRestarts
<1> QED
  BY <1>5, <1>7, <1>8, <1>9, <1>10, <1>11, <1>12, <1>13 DEF InstanceInv, InstanceRestarts
\* The steps of one instance.
LEMMA InstanceStep ==
  ASSUME InstanceInv, NEW s \in Servers,
         \/ StateChanges(s) \/ TakeControl(s) \/ ReleaseControl(s) \/ InstanceRestarts(s)
         \/ \E t \in Tokens : PreviewExpires(s, t)
         \/ \E a \in Actors, q \in Requests, t \in Tokens :
              previewAction(s, a, q, t) \/ \E k \in RequestKeys : action(s, a, q, k, t)
         \/ \E j \in jobs[s] : BeginJob(s, j) \/ \E st \in Final : EndJob(s, j, st)
  PROVE  InstanceInv' /\ SuccessesStay
<1>1. CASE StateChanges(s)
  <2>1. rev' \in [Servers -> Nat] /\ \A x \in Servers : rev'[x] <= MaxRev[x]
    <3>1. MaxRev \in [Servers -> Nat]
      BY ConsoleConstants
    <3>2. rev \in [Servers -> Nat] /\ \A x \in Servers : rev[x] <= MaxRev[x]
      BY DEF InstanceInv
    <3> QED
      BY <1>1, <3>1, <3>2 DEF StateChanges
  <2> QED
    BY <1>1, <2>1 DEF StateChanges, InstanceInv, ConfirmedOnce, ExecutedAsShown, SuccessesStay
<1>2. CASE TakeControl(s) \/ ReleaseControl(s)
  <2>1. control' \in [Servers -> {"free", "discord"} \cup RequestKeys \cup Batches]
    BY <1>2 DEF TakeControl, ReleaseControl, InstanceInv
  <2> QED
    BY <1>2, <2>1
    DEF TakeControl, ReleaseControl, InstanceInv, ConfirmedOnce, ExecutedAsShown, SuccessesStay
<1>3. ASSUME NEW t \in Tokens, PreviewExpires(s, t) PROVE InstanceInv' /\ SuccessesStay
  <2>1. /\ previews' \in [Servers -> SUBSET Tokens]
        /\ \A x \in Servers : previews'[x] \subseteq previews[x]
    BY <1>3 DEF PreviewExpires, InstanceInv
  <2> QED
    BY <1>3, <2>1 DEF PreviewExpires, InstanceInv, ConfirmedOnce, ExecutedAsShown, SuccessesStay
<1>4. ASSUME NEW a \in Actors, NEW q \in Requests, NEW t \in Tokens, previewAction(s, a, q, t)
      PROVE  InstanceInv' /\ SuccessesStay
  BY <1>4, PreviewInv DEF previewAction
<1>5. ASSUME NEW a \in Actors, NEW q \in Requests, NEW t \in Tokens, NEW k \in RequestKeys,
             action(s, a, q, k, t)
      PROVE  InstanceInv' /\ SuccessesStay
  BY <1>5, AcceptInv DEF action
<1>6. ASSUME NEW j \in jobs[s], BeginJob(s, j) PROVE InstanceInv' /\ SuccessesStay
  <2>1. j.key \in RequestKeys \cup Batches
    BY DEF InstanceInv, JobRecords
  <2>2. control' \in [Servers -> {"free", "discord"} \cup RequestKeys \cup Batches]
    BY <1>6, <2>1 DEF BeginJob, InstanceInv
  <2> QED
    BY <1>6, <2>2, ToInv DEF BeginJob
<1>7. ASSUME NEW j \in jobs[s], NEW st \in Final, EndJob(s, j, st)
      PROVE  InstanceInv' /\ SuccessesStay
  <2>1. control' \in [Servers -> {"free", "discord"} \cup RequestKeys \cup Batches]
    BY <1>7 DEF EndJob, InstanceInv
  <2> QED
    BY <1>7, <2>1, ToInv DEF EndJob
<1> QED
  BY <1>1, <1>2, <1>3, <1>4, <1>5, <1>6, <1>7, RestartInv

-----------------------------------------------------------------------------
(* The web service *)

\* A step of the instances leaves the batches as true as they were.
LEMMA TargetsStay ==
  ASSUME HostInv, TargetsTrue, SuccessesStay, UNCHANGED host
  PROVE  HostInv' /\ TargetsTrue'
<1>1. HostInv'
  BY DEF HostInv, BatchAsShown, host
<1>2. \A k \in Batches : bJobs[k] # Nil => DOMAIN bJobs[k].child \subseteq Servers
  BY DEF HostInv, BatchRecords
<1>3. TargetsTrue'
  BY <1>2 DEF TargetsTrue, SuccessesStay, host
<1> QED
  BY <1>1, <1>3

\* One target of a batch that is running gets another state.
LEMMA ChildInv ==
  ASSUME HostInv, TargetsTrue, SuccessesStay, NEW k \in Batches, NEW s \in Servers, Running(k),
         s \in DOMAIN bJobs[k].child,
         NEW st \in {"posted"} \cup Final,
         st = "succeeded" => \E j \in jobs'[s] : j.key = k /\ j.state = "succeeded",
         Child(k, s, st), UNCHANGED <<building, bShown, bPreviews>>
  PROVE  HostInv' /\ TargetsTrue'
<1> DEFINE c == [bJobs[k].child EXCEPT ![s] = st]
           b == [bJobs[k] EXCEPT !.child = c]
<1>1. bJobs[k] \in BatchRecords /\ bJobs[k].state = "running"
  BY DEF HostInv, Running
<1>2. /\ c \in UNION {[S -> {"waiting", "posted"} \cup Final] : S \in SUBSET Servers}
      /\ DOMAIN c = DOMAIN bJobs[k].child
      /\ \A x \in DOMAIN c : c[x] = IF x = s THEN st ELSE bJobs[k].child[x]
  BY <1>1 DEF BatchRecords
<1>3. bJobs' = [bJobs EXCEPT ![k] = b]
  BY DEF Child, HostInv
<1> HIDE DEF c
<1>4. /\ b \in BatchRecords /\ b.actor = bJobs[k].actor /\ b.req = bJobs[k].req
      /\ b.token = bJobs[k].token /\ b.state = "running" /\ b.child = c
  BY <1>1, <1>2 DEF BatchRecords
<1> HIDE DEF b
<1>5. bJobs' \in [Batches -> BatchRecords \cup {Nil}]
  BY <1>3, <1>4 DEF HostInv
<1>6. bJobs'[k] = b /\ \A x \in Batches : x # k => bJobs'[x] = bJobs[x]
  BY <1>3 DEF HostInv
<1>7. BatchAsShown'
  BY <1>1, <1>2, <1>4, <1>6, ConsoleConstants DEF HostInv, BatchAsShown
<1>8. \A x \in Batches : bJobs'[x] # Nil => bShown'[bJobs'[x].token] # Nil
  BY <1>1, <1>4, <1>6, ConsoleConstants DEF HostInv
<1>9. \A x \in Batches : bJobs'[x] # Nil /\ bJobs'[x].state = "succeeded" =>
        \A y \in DOMAIN bJobs'[x].child : bJobs'[x].child[y] = "succeeded"
  BY <1>4, <1>6 DEF HostInv
<1>10. HostInv'
  BY <1>5, <1>7, <1>8, <1>9 DEF HostInv
<1>11. ASSUME NEW x \in Batches, bJobs'[x] # Nil, NEW y \in DOMAIN bJobs'[x].child,
              bJobs'[x].child[y] = "succeeded"
       PROVE  \E j \in jobs'[y] : j.key = x /\ j.state = "succeeded"
  <2>1. CASE x = k /\ y = s
    BY <1>2, <1>4, <1>6, <1>11, <2>1
  <2>2. CASE ~(x = k /\ y = s)
    <3>1. /\ bJobs[x] # Nil /\ bJobs[x] \in BatchRecords /\ y \in DOMAIN bJobs[x].child
          /\ bJobs[x].child[y] = "succeeded"
      BY <1>1, <1>2, <1>4, <1>6, <1>11, <2>2, ConsoleConstants DEF HostInv
    <3>2. PICK j \in jobs[y] : j.key = x /\ j.state = "succeeded"
      BY <3>1 DEF TargetsTrue
    <3>3. y \in Servers
      BY <3>1 DEF BatchRecords
    <3> QED
      BY <3>2, <3>3 DEF SuccessesStay
  <2> QED
    BY <2>1, <2>2
<1> QED
  BY <1>10, <1>11 DEF TargetsTrue

\* The steps of the web service alone.
LEMMA HostStep ==
  ASSUME ConsoleInv,
         \/ BatchPreviewFails \/ WebRestarts
         \/ \E t \in Tokens : batchPreview(t) \/ BatchPreviewExpires(t)
         \/ \E a \in Actors, q \in Requests, S \in SUBSET Servers :
              BeginBatchPreview(a, q, S) \/ \E k \in Batches, t \in Tokens : batch(a, q, S, k, t)
         \/ \E k \in Batches : EndBatch(k)
         \/ \E k \in Batches, s \in Servers : ChildRefused(k, s) \/ PollChild(k, s) \/ PollFails(k, s)
  PROVE  ConsoleInv'
<1>0. UNCHANGED instances => InstanceInv' /\ SuccessesStay
  BY DEF ConsoleInv, InstanceInv, ConfirmedOnce, ExecutedAsShown, SuccessesStay, instances
<1> USE DEF ConsoleInv
<1>1. CASE BatchPreviewFails
  <2>1. HostInv'
    BY <1>1 DEF BatchPreviewFails, HostInv, BatchAsShown
  <2> QED
    BY <1>0, <1>1, <2>1 DEF BatchPreviewFails, TargetsTrue, instances
<1>2. CASE WebRestarts
  <2> DEFINE After(k) == IF Running(k) THEN [bJobs[k] EXCEPT !.state = "other"] ELSE bJobs[k]
  <2>1. \A k \in Batches : bJobs[k] = Nil => After(k) = Nil
    BY DEF Running
  <2>2. \A k \in Batches : bJobs[k] # Nil =>
          /\ After(k) \in BatchRecords /\ After(k) # Nil
          /\ After(k).actor = bJobs[k].actor /\ After(k).req = bJobs[k].req
          /\ After(k).token = bJobs[k].token /\ After(k).child = bJobs[k].child
          /\ After(k).state = "succeeded" => bJobs[k].state = "succeeded"
    <3> SUFFICES ASSUME NEW k \in Batches, bJobs[k] # Nil
                 PROVE  /\ After(k) \in BatchRecords
                        /\ After(k).actor = bJobs[k].actor /\ After(k).req = bJobs[k].req
                        /\ After(k).token = bJobs[k].token /\ After(k).child = bJobs[k].child
                        /\ After(k).state = "succeeded" => bJobs[k].state = "succeeded"
      BY ConsoleConstants
    <3>1. bJobs[k] \in BatchRecords
      BY DEF HostInv
    <3> QED
      BY <3>1 DEF BatchRecords
  <2>3. bJobs' = [k \in Batches |-> After(k)]
    BY <1>2 DEF WebRestarts
  <2> HIDE DEF After
  <2>4. bJobs' \in [Batches -> BatchRecords \cup {Nil}]
    BY <2>1, <2>2, <2>3
  <2>5. BatchAsShown'
    BY <1>2, <2>1, <2>2, <2>3 DEF WebRestarts, HostInv, BatchAsShown
  <2>6. HostInv'
    BY <1>2, <2>1, <2>2, <2>3, <2>4, <2>5 DEF WebRestarts, HostInv
  <2>7. TargetsTrue'
    BY <1>2, <2>1, <2>2, <2>3 DEF WebRestarts, TargetsTrue, instances
  <2> QED
    BY <1>0, <1>2, <2>6, <2>7 DEF WebRestarts
<1>3. ASSUME NEW t \in Tokens, batchPreview(t) PROVE ConsoleInv'
  <2>1. building \in PlanRecords /\ building # Nil
    BY <1>3 DEF batchPreview, HostInv
  <2>2. /\ bShown' \in [Tokens -> PlanRecords \cup {Nil}] /\ bShown'[t] # Nil
        /\ \A x \in Tokens : x # t => bShown'[x] = bShown[x]
    BY <1>3, <2>1 DEF batchPreview, HostInv
  <2>3. \A k \in Batches : bJobs[k] # Nil => bJobs[k].token \in Tokens /\ bJobs[k].token # t
    BY <1>3 DEF batchPreview, HostInv, BatchRecords
  <2>4. BatchAsShown'
    BY <1>3, <2>2, <2>3 DEF batchPreview, HostInv, BatchAsShown
  <2>5. HostInv'
    BY <1>3, <2>2, <2>3, <2>4 DEF batchPreview, HostInv
  <2> QED
    BY <1>0, <1>3, <2>5 DEF batchPreview, TargetsTrue, instances
<1>4. ASSUME NEW t \in Tokens, BatchPreviewExpires(t) PROVE ConsoleInv'
  <2>1. HostInv'
    BY <1>4 DEF BatchPreviewExpires, HostInv, BatchAsShown
  <2> QED
    BY <1>0, <1>4, <2>1 DEF BatchPreviewExpires, TargetsTrue, instances
<1>5. ASSUME NEW a \in Actors, NEW q \in Requests, NEW S \in SUBSET Servers,
             BeginBatchPreview(a, q, S)
      PROVE  ConsoleInv'
  <2>1. building' \in PlanRecords
    BY <1>5 DEF BeginBatchPreview, PlanRecords
  <2>2. HostInv'
    BY <1>5, <2>1 DEF BeginBatchPreview, HostInv, BatchAsShown
  <2> QED
    BY <1>0, <1>5, <2>2 DEF BeginBatchPreview, TargetsTrue, instances
<1>6. ASSUME NEW a \in Actors, NEW q \in Requests, NEW S \in SUBSET Servers,
             NEW k \in Batches, NEW t \in Tokens, batch(a, q, S, k, t)
      PROVE  ConsoleInv'
  <2> DEFINE b == [actor |-> a, req |-> q, token |-> t, state |-> "running",
                   child |-> [s \in S |-> "waiting"]]
  <2>1. /\ b \in BatchRecords /\ b.token = t /\ b.actor = a /\ b.req = q /\ b.state = "running"
        /\ DOMAIN b.child = S /\ \A s \in S : b.child[s] # "succeeded"
    BY DEF BatchRecords
  <2>2. bJobs' = [bJobs EXCEPT ![k] = b]
    BY <1>6 DEF batch
  <2> HIDE DEF b
  <2>3. bJobs' \in [Batches -> BatchRecords \cup {Nil}]
    BY <2>1, <2>2 DEF HostInv
  <2>4. bJobs'[k] = b /\ \A x \in Batches : x # k => bJobs'[x] = bJobs[x]
    BY <2>2 DEF HostInv
  <2>5. /\ bShown[t] # Nil /\ bShown[t].actor = a /\ bShown[t].req = q /\ bShown[t].servers = S
    BY <1>6 DEF batch, BatchConfirms, HostInv
  <2>6. BatchAsShown'
    BY <1>6, <2>1, <2>4, <2>5 DEF batch, HostInv, BatchAsShown
  <2>7. HostInv'
    BY <1>6, <2>1, <2>3, <2>4, <2>5, <2>6 DEF batch, HostInv
  <2>8. TargetsTrue'
    BY <1>6, <2>1, <2>4 DEF batch, TargetsTrue, instances
  <2> QED
    BY <1>0, <1>6, <2>7, <2>8 DEF batch
<1>7. ASSUME NEW k \in Batches, EndBatch(k) PROVE ConsoleInv'
  <2> DEFINE st == IF AllSucceeded(k) THEN "succeeded" ELSE "other"
             b == [bJobs[k] EXCEPT !.state = st]
  <2>1. bJobs[k] # Nil /\ bJobs[k] \in BatchRecords
    BY <1>7 DEF EndBatch, Running, HostInv
  <2>2. /\ b \in BatchRecords /\ b.token = bJobs[k].token /\ b.actor = bJobs[k].actor
        /\ b.req = bJobs[k].req /\ b.child = bJobs[k].child
        /\ b.state = "succeeded" => AllSucceeded(k)
    BY <2>1 DEF BatchRecords
  <2>3. bJobs' = [bJobs EXCEPT ![k] = b]
    BY <1>7 DEF EndBatch, HostInv
  <2> HIDE DEF b
  <2>4. bJobs' \in [Batches -> BatchRecords \cup {Nil}]
    BY <2>2, <2>3 DEF HostInv
  <2>5. bJobs'[k] = b /\ \A x \in Batches : x # k => bJobs'[x] = bJobs[x]
    BY <2>3 DEF HostInv
  <2>6. BatchAsShown'
    BY <1>7, <2>1, <2>2, <2>5 DEF EndBatch, HostInv, BatchAsShown
  <2>7. HostInv'
    BY <1>7, <2>1, <2>2, <2>4, <2>5, <2>6 DEF EndBatch, HostInv, AllSucceeded
  <2>8. TargetsTrue'
    BY <1>7, <2>1, <2>2, <2>5 DEF EndBatch, TargetsTrue, instances
  <2> QED
    BY <1>0, <1>7, <2>7, <2>8 DEF EndBatch
<1>8. ASSUME NEW k \in Batches, NEW s \in Servers, ChildRefused(k, s) \/ PollFails(k, s)
      PROVE  ConsoleInv'
  BY <1>0, <1>8, ChildInv DEF ChildRefused, PollFails, NoAnswer
<1>9. ASSUME NEW k \in Batches, NEW s \in Servers, PollChild(k, s) PROVE ConsoleInv'
  <2>1. PICK j \in jobs[s] : j.key = k /\ j.state \in Final /\ Child(k, s, j.state)
    BY <1>9 DEF PollChild
  <2>2. j.state = "succeeded" => \E i \in jobs'[s] : i.key = k /\ i.state = "succeeded"
    BY <1>9, <2>1 DEF PollChild, instances
  <2> QED
    BY <1>0, <1>9, <2>1, <2>2, ChildInv DEF PollChild
<1> QED
  BY <1>1, <1>2, <1>3, <1>4, <1>5, <1>6, <1>7, <1>8, <1>9

-----------------------------------------------------------------------------
(* The whole *)

\* A target is previewed for a batch, which remembers the token.
LEMMA PreviewChildInv ==
  ASSUME ConsoleInv, NEW s \in Servers, NEW t \in Tokens, PreviewChild(s, t)
  PROVE  ConsoleInv'
<1>1. building \in PlanRecords
  BY DEF ConsoleInv, HostInv, PreviewChild
<1>2. building.actor \in Actors /\ building.req \in Requests
  BY <1>1 DEF PlanRecords
<1>3. InstanceInv' /\ SuccessesStay
  BY <1>2, PreviewInv DEF ConsoleInv, PreviewChild
<1>4. building' \in PlanRecords
  <2> DEFINE c == [building.children EXCEPT ![s] = t]
  <2>1. c \in UNION {[S -> Tokens \cup {Nil}] : S \in SUBSET Servers}
    BY <1>1 DEF PlanRecords
  <2>2. building' = [building EXCEPT !.children = c]
    BY <1>1 DEF PreviewChild, PlanRecords
  <2> HIDE DEF c
  <2> QED
    BY <1>1, <2>1, <2>2 DEF PlanRecords
<1>5. HostInv'
  BY <1>4 DEF ConsoleInv, HostInv, BatchAsShown, PreviewChild
<1>6. TargetsTrue'
  BY DEF ConsoleInv, TargetsTrue, PreviewChild
<1> QED
  BY <1>3, <1>5, <1>6 DEF ConsoleInv

\* A target of a batch accepts its part, and the answer arrives or not.
LEMMA PostChildInv ==
  ASSUME ConsoleInv, NEW k \in Batches, NEW s \in Servers, NEW answered \in BOOLEAN,
         PostChild(k, s, answered)
  PROVE  ConsoleInv'
<1>1. bJobs[k] \in BatchRecords
  BY DEF ConsoleInv, HostInv, PostChild, Running
<1>2. bJobs[k].actor \in Actors /\ bJobs[k].req \in Requests
  BY <1>1 DEF BatchRecords
<1>3. InstanceInv' /\ SuccessesStay
  BY <1>2, AcceptInv DEF ConsoleInv, PostChild
<1>4. PICK st \in {"posted", "other"} : Child(k, s, st)
  BY DEF PostChild, NoAnswer
<1>5. HostInv' /\ TargetsTrue'
  BY <1>3, <1>4, ChildInv DEF ConsoleInv, PostChild
<1> QED
  BY <1>3, <1>5 DEF ConsoleInv

LEMMA ConsoleInitInv == ConsoleInit => ConsoleInv
<1> SUFFICES ASSUME ConsoleInit PROVE ConsoleInv
  OBVIOUS
<1>1. InstanceInv
  <2>1. MaxRev \in [Servers -> Nat]
    BY ConsoleConstants
  <2> QED
    BY <2>1 DEF ConsoleInit, InstanceInv, ConfirmedOnce, ExecutedAsShown
<1>2. HostInv /\ TargetsTrue
  BY DEF ConsoleInit, HostInv, TargetsTrue, BatchAsShown
<1> QED
  BY <1>1, <1>2 DEF ConsoleInv

LEMMA ConsoleStep == ConsoleInv /\ [ConsoleNext]_consoleVars => ConsoleInv'
<1> SUFFICES ASSUME ConsoleInv, [ConsoleNext]_consoleVars PROVE ConsoleInv'
  OBVIOUS
<1>1. ASSUME NEW s \in Servers,
         \/ StateChanges(s) \/ TakeControl(s) \/ ReleaseControl(s) \/ InstanceRestarts(s)
         \/ \E t \in Tokens : PreviewExpires(s, t)
         \/ \E a \in Actors, q \in Requests, t \in Tokens :
              previewAction(s, a, q, t) \/ \E k \in RequestKeys : action(s, a, q, k, t)
         \/ \E j \in jobs[s] : BeginJob(s, j) \/ \E st \in Final : EndJob(s, j, st)
      PROVE  ConsoleInv'
  <2>1. UNCHANGED host
    BY <1>1 DEF StateChanges, TakeControl, ReleaseControl, InstanceRestarts, PreviewExpires,
                previewAction, action, BeginJob, EndJob
  <2>2. InstanceInv' /\ SuccessesStay
    BY <1>1, InstanceStep DEF ConsoleInv
  <2> QED
    BY <2>1, <2>2, TargetsStay DEF ConsoleInv
<1>2. CASE UNCHANGED consoleVars
  <2>1. UNCHANGED instances /\ UNCHANGED host
    BY <1>2 DEF consoleVars
  <2>2. InstanceInv' /\ SuccessesStay
    BY <2>1 DEF ConsoleInv, InstanceInv, ConfirmedOnce, ExecutedAsShown, SuccessesStay, instances
  <2> QED
    BY <2>1, <2>2, TargetsStay DEF ConsoleInv
<1> QED
  BY <1>1, <1>2, HostStep, PreviewChildInv, PostChildInv DEF ConsoleNext

\* Every table of the instances and of the web service keeps its type.
THEOREM ConsoleTypeCorrect == ConsoleSpec => []ConsoleTypeOK
<1>1. ConsoleInv => ConsoleTypeOK
  BY DEF ConsoleInv, InstanceInv, HostInv, ConsoleTypeOK
<1> QED
  BY <1>1, ConsoleInitInv, ConsoleStep, PTL DEF ConsoleSpec

\* What an instance or a batch runs is what somebody has confirmed, with the state, the
\* parameters and the targets that were shown, and it runs once: whatever is sent again,
\* lost, restarted or expires in between (action, batch).
THEOREM OnlyTheConfirmed == ConsoleSpec => []ConfirmedAsShown
<1>1. ConsoleInv => ConfirmedAsShown
  BY DEF ConsoleInv, InstanceInv, HostInv, ConfirmedAsShown
<1> QED
  BY <1>1, ConsoleInitInv, ConsoleStep, PTL DEF ConsoleSpec

\* A batch that says it succeeded did so on every target (runBatch).
THEOREM BatchesAreTrue == ConsoleSpec => []BatchTruth
<1>1. ConsoleInv => BatchTruth
  BY DEF ConsoleInv, HostInv, TargetsTrue, BatchTruth
<1> QED
  BY <1>1, ConsoleInitInv, ConsoleStep, PTL DEF ConsoleSpec

-----------------------------------------------------------------------------
(* Uploads *)

UploadRecords == [kind : FileKinds, actor : Uploaders, expires : Nat]

ApplyRecords ==
  [at : {"none", "stop", "copy", "sync", "start", "end"}, by : Uploaders \cup {"none"},
   ids : SUBSET UploadIds, left : Seq(UploadIds), start : BOOLEAN]

\* How an upload may leave the staging area.
Ways == {"no", "expired", "deleted", "applied", "restart"}

InLeft(x) == \E i \in 1 .. Len(apply.left) : apply.left[i] = x
InPlace(x) == targets[staged[x].kind] = x

\* The staging area.
StagingInv ==
  /\ minute \in Nat /\ spent \subseteq UploadIds
  /\ staged \in [DOMAIN staged -> UploadRecords] /\ DOMAIN staged \subseteq spent
  /\ Cardinality(DOMAIN staged) <= Quota
  /\ targets \in [FileKinds -> spent \cup {"old"}]
  /\ gone \in [UploadIds -> Ways]

\* The job: its files are staged, no two of them are for the same place, and those that
\* are no longer to be copied are in place.
JobInv ==
  /\ apply \in ApplyRecords
  /\ apply.at # "none" =>
       /\ apply.ids \subseteq DOMAIN staged
       /\ \A x, y \in apply.ids : staged[x].kind = staged[y].kind => x = y
  /\ apply.at \in {"stop", "copy"} =>
       /\ apply.left # <<>>
       /\ \A x \in apply.ids : InLeft(x) \/ InPlace(x)
       /\ \A i \in 1 .. Len(apply.left) : apply.left[i] \in apply.ids
  /\ apply.at \in {"sync", "start", "end"} => \A x \in apply.ids : InPlace(x)

UploadsInv == StagingInv /\ JobInv

\* What is kept of the staging area is a part of it.
LEMMA KeepStaged ==
  ASSUME StagingInv, NEW D
  PROVE  /\ DOMAIN Keep(D) = DOMAIN staged \ D
         /\ Keep(D) \in [DOMAIN Keep(D) -> UploadRecords]
         /\ \A x \in DOMAIN Keep(D) : Keep(D)[x] = staged[x]
         /\ IsFiniteSet(DOMAIN Keep(D)) /\ Cardinality(DOMAIN Keep(D)) \in Nat
         /\ Cardinality(DOMAIN Keep(D)) <= Quota
<1>1. IsFiniteSet(DOMAIN staged)
  BY UploadConstants, FS_Subset DEF StagingInv
<1>2. DOMAIN Keep(D) = DOMAIN staged \ D
  BY DEF Keep
<1>3. IsFiniteSet(DOMAIN Keep(D)) /\ Cardinality(DOMAIN Keep(D)) <= Cardinality(DOMAIN staged)
  BY <1>1, <1>2, FS_Subset
<1>4. Cardinality(DOMAIN Keep(D)) \in Nat /\ Cardinality(DOMAIN staged) \in Nat
  BY <1>1, <1>3, FS_CardinalityType
<1>5. Cardinality(DOMAIN Keep(D)) <= Quota
  BY <1>3, <1>4, UploadConstants DEF StagingInv
<1>6. /\ Keep(D) \in [DOMAIN Keep(D) -> UploadRecords]
      /\ \A x \in DOMAIN Keep(D) : Keep(D)[x] = staged[x]
  BY DEF Keep, StagingInv
<1> QED
  BY <1>2, <1>3, <1>4, <1>5, <1>6

\* Removing uploads from the staging area keeps it sound.
LEMMA RemoveStaged ==
  ASSUME StagingInv, NEW D, staged' = Keep(D), gone' \in [UploadIds -> Ways],
         UNCHANGED <<minute, spent, targets>>
  PROVE  StagingInv'
<1>1. /\ DOMAIN staged' = DOMAIN staged \ D /\ staged' \in [DOMAIN staged' -> UploadRecords]
      /\ Cardinality(DOMAIN staged') <= Quota
  BY KeepStaged
<1> QED
  BY <1>1 DEF StagingInv

LEMMA LeaveType ==
  ASSUME StagingInv, NEW D, NEW how \in Ways
  PROVE  Leave(D, how) \in [UploadIds -> Ways]
  BY DEF StagingInv, Leave, Ways

\* An order of some uploads names all of them.
LEMMA OrderOf ==
  ASSUME NEW ids \in SUBSET UploadIds, ids # {}, NEW order \in SetToSeqs(ids)
  PROVE  /\ order \in Seq(UploadIds) /\ order # <<>>
         /\ \A x \in ids : \E i \in 1 .. Len(order) : order[i] = x
         /\ \A i \in 1 .. Len(order) : order[i] \in ids
<1> DEFINE D == 1 .. Cardinality(ids)
<1>1. IsFiniteSet(ids) /\ Cardinality(ids) \in Nat
  BY UploadConstants, FS_Subset, FS_CardinalityType
<1>2. Cardinality(ids) # 0
  BY <1>1, FS_EmptySet
<1>3. order \in [D -> ids] /\ \A i, j \in D : i # j => order[i] # order[j]
  BY DEF SetToSeqs
<1>4. order \in Seq(UploadIds) /\ Len(order) = Cardinality(ids)
  BY <1>1, <1>3
<1>5. order \in Injection(D, ids)
  BY <1>3 DEF Injection, IsInjective
<1>6. Cardinality(D) = Cardinality(ids)
  BY <1>1, <1>2, FS_Interval
<1>7. order \in Surjection(D, ids)
  BY <1>1, <1>5, <1>6, FS_Injection
<1>8. \A x \in ids : \E i \in D : order[i] = x
  BY <1>7 DEF Surjection
<1> QED
  BY <1>1, <1>2, <1>3, <1>4, <1>8

\* Without a job nothing is asked of the staging area.
LEMMA NoJob ==
  ASSUME apply' \in ApplyRecords, apply'.at = "none"
  PROVE  JobInv'
  BY DEF JobInv

LEMMA NoApplyType == NoApply \in ApplyRecords /\ NoApply.at = "none"
  BY DEF NoApply, ApplyRecords

LEMMA UploadsInitInv == UploadsInit => UploadsInv
<1> SUFFICES ASSUME UploadsInit PROVE UploadsInv
  OBVIOUS
<1>1. DOMAIN staged = {} /\ staged \in [DOMAIN staged -> UploadRecords]
  BY DEF UploadsInit
<1>2. Cardinality(DOMAIN staged) <= Quota
  BY <1>1, FS_EmptySet, UploadConstants
<1>3. StagingInv
  BY <1>1, <1>2 DEF UploadsInit, StagingInv, Ways
<1>4. JobInv
  BY NoApplyType DEF UploadsInit, JobInv
<1> QED
  BY <1>3, <1>4 DEF UploadsInv

\* Staging and unstaging, while no job runs.
LEMMA StagingStep ==
  ASSUME UploadsInv,
         \/ \E id \in UploadIds, a \in Uploaders, k \in FileKinds : upload(id, a, k)
         \/ \E id \in UploadIds, a \in Uploaders : DeleteUpload(id, a)
         \/ UploadRefused
  PROVE  UploadsInv'
<1>1. JobInv'
  BY NoJob DEF UploadsInv, JobInv, upload, DeleteUpload, UploadRefused, muFree
<1>2. ASSUME NEW id \in UploadIds, NEW a \in Uploaders, NEW k \in FileKinds, upload(id, a, k)
      PROVE  StagingInv'
  <2> DEFINE S == Keep(Purge)
             r == [kind |-> k, actor |-> a, expires |-> minute + UploadLife]
  <2>1. /\ S \in [DOMAIN S -> UploadRecords] /\ DOMAIN S \subseteq spent
        /\ IsFiniteSet(DOMAIN S) /\ Cardinality(DOMAIN S) \in Nat
    BY KeepStaged DEF UploadsInv, StagingInv
  <2>2. Cardinality(DOMAIN S) < Quota
    BY <1>2 DEF upload, HasRoom
  <2>3. r \in UploadRecords
    BY UploadConstants DEF UploadRecords, UploadsInv, StagingInv
  <2>4. staged' = [x \in DOMAIN S \cup {id} |-> IF x = id THEN r ELSE S[x]]
    BY <1>2 DEF upload
  <2> HIDE DEF S, r
  <2>5. DOMAIN staged' = DOMAIN S \cup {id} /\ staged' \in [DOMAIN staged' -> UploadRecords]
    BY <2>1, <2>3, <2>4
  <2>6. Cardinality(DOMAIN staged') <= Quota
    <3>1. \/ Cardinality(DOMAIN S \cup {id}) = Cardinality(DOMAIN S)
          \/ Cardinality(DOMAIN S \cup {id}) = Cardinality(DOMAIN S) + 1
      BY <2>1, FS_AddElement
    <3> QED
      BY <2>1, <2>2, <2>5, <3>1, UploadConstants
  <2>7. spent' = spent \cup {id}
    BY <1>2 DEF upload
  <2>8. gone' \in [UploadIds -> Ways]
    BY <1>2, LeaveType DEF upload, UploadsInv, Ways
  <2>9. targets' \in [FileKinds -> spent' \cup {"old"}]
    BY <1>2, <2>7 DEF upload, UploadsInv, StagingInv
  <2> QED
    BY <1>2, <2>1, <2>5, <2>6, <2>7, <2>8, <2>9 DEF upload, UploadsInv, StagingInv, Ways
<1>3. ASSUME NEW id \in UploadIds, NEW a \in Uploaders, DeleteUpload(id, a)
      PROVE  StagingInv'
  <2>1. staged' = Keep({id}) /\ gone' = Leave({id}, "deleted")
    BY <1>3 DEF DeleteUpload, Owner
  <2>2. gone' \in [UploadIds -> Ways]
    BY <2>1, LeaveType DEF UploadsInv, Ways
  <2> QED
    BY <1>3, <2>1, <2>2, RemoveStaged DEF DeleteUpload, UploadsInv
<1>4. ASSUME UploadRefused PROVE StagingInv'
  <2>1. gone' \in [UploadIds -> Ways]
    BY <1>4, LeaveType DEF UploadRefused, UploadsInv, Ways
  <2> QED
    BY <1>4, <2>1, RemoveStaged DEF UploadRefused, UploadsInv
<1> QED
  BY <1>1, <1>2, <1>3, <1>4 DEF UploadsInv

\* The job, from the check to its end.
LEMMA ApplyStep ==
  ASSUME UploadsInv,
         \/ \E ids \in SUBSET UploadIds, a \in Uploaders : applyUploads(ids, a)
         \/ ApplyFails \/ StopServer \/ Activate \/ SyncUpload \/ StartServer \/ ApplyEnds
  PROVE  UploadsInv'
<1>0. StagingInv /\ JobInv /\ apply \in ApplyRecords
  BY DEF UploadsInv, JobInv
<1>1. ASSUME NEW ids \in SUBSET UploadIds, NEW a \in Uploaders, applyUploads(ids, a)
      PROVE  UploadsInv'
  <2>1. PICK start \in BOOLEAN, order \in SetToSeqs(ids) :
          apply' = [at |-> "stop", by |-> a, ids |-> ids, left |-> order, start |-> start]
    BY <1>1 DEF applyUploads
  <2>2. /\ order \in Seq(UploadIds) /\ order # <<>>
        /\ \A x \in ids : \E i \in 1 .. Len(order) : order[i] = x
        /\ \A i \in 1 .. Len(order) : order[i] \in ids
    BY <1>1, OrderOf DEF applyUploads, mayApply
  <2>3. /\ apply' \in ApplyRecords /\ apply'.at = "stop" /\ apply'.ids = ids
        /\ apply'.left = order
    BY <2>1, <2>2 DEF ApplyRecords
  <2>4. /\ ids \subseteq DOMAIN staged
        /\ \A x, y \in ids : staged[x].kind = staged[y].kind => x = y
    BY <1>1 DEF applyUploads, mayApply
  <2>5. JobInv'
    BY <1>1, <2>2, <2>3, <2>4 DEF applyUploads, JobInv, InLeft
  <2> QED
    BY <1>0, <1>1, <2>5 DEF applyUploads, UploadsInv, StagingInv
<1>2. CASE ApplyFails
  <2>1. JobInv'
    BY <1>2, NoJob, NoApplyType DEF ApplyFails
  <2> QED
    BY <1>0, <1>2, <2>1 DEF ApplyFails, UploadsInv, StagingInv
<1>3. CASE StopServer
  <2>1. /\ apply' \in ApplyRecords /\ apply'.at = "copy" /\ apply'.ids = apply.ids
        /\ apply'.left = apply.left
    BY <1>0, <1>3 DEF StopServer, ApplyRecords
  <2>2. JobInv'
    BY <1>0, <1>3, <2>1 DEF StopServer, JobInv, InLeft, InPlace
  <2> QED
    BY <1>0, <1>3, <2>2 DEF StopServer, UploadsInv, StagingInv
<1>4. CASE Activate
  <2> DEFINE id == Head(apply.left)
  <2>1. apply.left \in Seq(UploadIds) /\ apply.left # <<>> /\ apply.ids \subseteq UploadIds
    BY <1>0, <1>4 DEF Activate, ApplyRecords
  <2>2. Len(apply.left) \in Nat \ {0} /\ id = apply.left[1] /\ id \in UploadIds
    BY <2>1
  <2>3. id \in apply.ids /\ id \in DOMAIN staged
    BY <1>0, <1>4, <2>2 DEF Activate, JobInv
  <2>4. staged[id].kind \in FileKinds /\ id \in spent
    BY <1>0, <2>3 DEF StagingInv, UploadRecords
  <2>5. targets' = [targets EXCEPT ![staged[id].kind] = id]
    BY <1>4 DEF Activate
  <2>6. StagingInv'
    BY <1>0, <1>4, <2>4, <2>5 DEF Activate, StagingInv
  <2>7. /\ apply' \in ApplyRecords /\ apply'.ids = apply.ids /\ apply'.left = Tail(apply.left)
        /\ apply'.at = IF Len(apply.left) = 1 THEN "sync" ELSE "copy"
    <3> DEFINE T == Tail(apply.left)
               at == IF Len(apply.left) = 1 THEN "sync" ELSE "copy"
    <3>1. T \in Seq(UploadIds) /\ at \in {"sync", "copy"}
      BY <2>1
    <3>2. apply' = [apply EXCEPT !.left = T, !.at = at]
      BY <1>4 DEF Activate
    <3> HIDE DEF T, at
    <3>3. apply' \in ApplyRecords /\ apply'.ids = apply.ids /\ apply'.left = T /\ apply'.at = at
      BY <1>0, <3>1, <3>2 DEF ApplyRecords
    <3> QED
      BY <3>3 DEF T, at
  <2>8. /\ Len(apply'.left) = Len(apply.left) - 1
        /\ \A i \in 1 .. Len(apply'.left) : apply'.left[i] = apply.left[i + 1]
    BY <2>1, <2>2, <2>7
  <2>9. \A x \in apply.ids : InPlace(x) \/ x = id => InPlace(x)'
    <3> SUFFICES ASSUME NEW x \in apply.ids, InPlace(x) \/ x = id
                 PROVE  targets'[staged[x].kind] = x
      BY <1>4 DEF InPlace, Activate
    <3>1. x \in DOMAIN staged /\ staged[x].kind \in FileKinds
      BY <1>0, <1>4 DEF Activate, JobInv, StagingInv, UploadRecords
    <3>2. x # id => staged[x].kind # staged[id].kind
      BY <1>0, <1>4, <2>3 DEF Activate, JobInv
    <3> QED
      BY <1>0, <2>4, <2>5, <3>1, <3>2 DEF InPlace, StagingInv
  <2>10. \A x \in apply.ids : InLeft(x) /\ x # id => InLeft(x)'
    <3> SUFFICES ASSUME NEW x \in apply.ids, NEW i \in 1 .. Len(apply.left), apply.left[i] = x,
                        x # id
                 PROVE  \E j \in 1 .. Len(apply'.left) : apply'.left[j] = x
      BY DEF InLeft
    <3>1. i - 1 \in 1 .. Len(apply'.left) /\ apply'.left[i - 1] = apply.left[i]
      BY <2>2, <2>8
    <3> QED
      BY <3>1
  <2>11. \A x \in apply.ids : InLeft(x)' \/ InPlace(x)'
    BY <1>0, <1>4, <2>9, <2>10 DEF Activate, JobInv
  <2>12. \A i \in 1 .. Len(apply'.left) : apply'.left[i] \in apply.ids
    <3> SUFFICES ASSUME NEW i \in 1 .. Len(apply'.left) PROVE apply'.left[i] \in apply.ids
      OBVIOUS
    <3>1. i + 1 \in 1 .. Len(apply.left)
      BY <2>2, <2>8
    <3> QED
      BY <1>0, <1>4, <2>8, <3>1 DEF Activate, JobInv
  <2>13. CASE Len(apply.left) = 1
    <3>1. \A x \in apply.ids : ~InLeft(x)'
      BY <2>8, <2>13 DEF InLeft
    <3> QED
      BY <1>0, <1>4, <2>6, <2>7, <2>11, <2>13, <3>1 DEF Activate, JobInv, UploadsInv
  <2>14. CASE Len(apply.left) # 1
    <3>1. apply'.left # <<>>
      <4>1. Len(apply'.left) # 0
        BY <2>2, <2>8, <2>14
      <4> QED
        BY <4>1
    <3> QED
      BY <1>0, <1>4, <2>6, <2>7, <2>11, <2>12, <2>14, <3>1 DEF Activate, JobInv, UploadsInv
  <2> QED
    BY <2>13, <2>14
<1>5. CASE SyncUpload \/ StartServer
  <2>1. /\ apply' \in ApplyRecords /\ apply'.at \in {"start", "end"} /\ apply'.ids = apply.ids
        /\ apply.at \in {"sync", "start"}
    BY <1>0, <1>5 DEF SyncUpload, StartServer, ApplyRecords
  <2>2. UNCHANGED <<minute, staged, spent, targets, gone>>
    BY <1>5 DEF SyncUpload, StartServer
  <2>3. JobInv'
    BY <1>0, <2>1, <2>2 DEF JobInv, InPlace
  <2> QED
    BY <1>0, <2>2, <2>3 DEF UploadsInv, StagingInv
<1>6. CASE ApplyEnds
  <2>1. \A x \in apply.ids \cap DOMAIN staged : targets[staged[x].kind] = x
    BY <1>0, <1>6 DEF ApplyEnds, Finishing, JobInv, InPlace
  <2>2. gone' = Leave(apply.ids, "applied")
    BY <1>6, <2>1 DEF ApplyEnds
  <2>3. gone' \in [UploadIds -> Ways]
    BY <1>0, <2>2, LeaveType DEF Ways
  <2>4. JobInv'
    BY <1>6, NoJob, NoApplyType DEF ApplyEnds
  <2> QED
    BY <1>0, <1>6, <2>3, <2>4, RemoveStaged DEF ApplyEnds, UploadsInv
<1> QED
  BY <1>1, <1>2, <1>3, <1>4, <1>5, <1>6

LEMMA UploadsStep == UploadsInv /\ [UploadsNext]_uploadVars => UploadsInv'
<1> SUFFICES ASSUME UploadsInv, [UploadsNext]_uploadVars PROVE UploadsInv'
  OBVIOUS
<1>1. CASE RuntimeNew
  <2>1. DOMAIN staged' = {} /\ staged' \in [DOMAIN staged' -> UploadRecords]
    BY <1>1 DEF RuntimeNew
  <2>2. Cardinality(DOMAIN staged') <= Quota
    BY <2>1, FS_EmptySet, UploadConstants
  <2>3. gone' \in [UploadIds -> Ways]
    BY <1>1, LeaveType DEF RuntimeNew, UploadsInv, Ways
  <2>4. JobInv'
    BY <1>1, NoJob, NoApplyType DEF RuntimeNew
  <2> QED
    BY <1>1, <2>1, <2>2, <2>3, <2>4 DEF RuntimeNew, UploadsInv, StagingInv, Ways
<1>2. CASE ServerChanges \/ UNCHANGED uploadVars
  BY <1>2 DEF ServerChanges, uploadVars, UploadsInv, StagingInv, JobInv, InLeft, InPlace
<1>3. CASE MinutePasses
  <2>1. StagingInv'
    BY <1>3 DEF MinutePasses, UploadsInv, StagingInv
  <2>2. JobInv'
    BY <1>3 DEF MinutePasses, UploadsInv, JobInv, InLeft, InPlace
  <2> QED
    BY <2>1, <2>2 DEF UploadsInv
<1> QED
  BY <1>1, <1>2, <1>3, StagingStep, ApplyStep DEF UploadsNext

\* An upload stays staged until the job that uses it has ended, and leaves the staging
\* area only as its owner knows: deleted, expired, in place, or with its process.
THEOREM UploadsAreKept == UploadsSpec => []UploadsKept
<1>1. UploadsInv => UploadsKept
  <2> SUFFICES ASSUME UploadsInv PROVE UploadsKept
    OBVIOUS
  <2>1. StagedUntilApplied
    BY DEF UploadsInv, JobInv, StagedUntilApplied
  <2>2. NoUploadLost
    BY DEF UploadsInv, StagingInv, NoUploadLost, Ways
  <2> QED
    BY <2>1, <2>2 DEF UploadsKept
<1> QED
  BY <1>1, UploadsInitInv, UploadsStep, PTL DEF UploadsSpec

-----------------------------------------------------------------------------
(* Settings *)

USE DEF Zero, On, Values, Absent

\* glob.ControlLock: a process has one goroutine at a time that changes settings.
OneWriterEach == \A v, w \in Writers : ProcOf[v] = ProcOf[w] => v = w

-----------------------------------------------------------------------------
(* Types *)

\* Defaults turn what is in the file into values.
LEMMA LoadedType ==
  ASSUME NEW f \in [Keys -> Values \cup {Absent}]
  PROVE  Loaded(f) \in Settled
  BY DEF Loaded, Settled, setDefaults

\* A goroutine belongs to a process.
LEMMA ProcOfType == \A w \in Writers : ProcOf[w] \in Procs
  BY DEF Procs

LEMMA SettingsInitType == SettingsInit => SettingsTypeOK
<1> SUFFICES ASSUME SettingsInit PROVE SettingsTypeOK
  OBVIOUS
<1>1. Nothing \in Settled
  BY DEF Nothing, Settled
<1>2. file \in [Keys -> Values \cup {Absent}]
  BY DEF SettingsInit, Nothing
<1>3. Loaded(file) \in Settled
  BY <1>2, LoadedType
<1> QED
  BY <1>1, <1>2, <1>3 DEF SettingsInit, SettingsTypeOK

LEMMA SettingsStepType == SettingsTypeOK /\ [SettingsNext]_settingsVars => SettingsTypeOK'
<1> SUFFICES ASSUME SettingsTypeOK, [SettingsNext]_settingsVars
             PROVE  SettingsTypeOK'
  OBVIOUS
<1> USE DEF SettingsTypeOK
<1>0. Nothing \in Settled /\ Loaded(file) \in Settled
  BY LoadedType DEF Nothing, Settled
<1>1. ASSUME NEW w \in Writers, ReadFile(w) PROVE SettingsTypeOK'
  BY <1>0, <1>1 DEF ReadFile
<1>2. ASSUME NEW w \in Writers, Install(w) PROVE SettingsTypeOK'
  BY <1>0, <1>2, ProcOfType DEF Install, rememberConfig
<1>3. ASSUME NEW w \in Writers, Capture(w) PROVE SettingsTypeOK'
  BY <1>3, ProcOfType DEF Capture
<1>4. ASSUME NEW w \in Writers, Merge(w) PROVE SettingsTypeOK'
  <2>1. Merged(ProcOf[w], held[w]) \in [Keys -> Values \cup {Absent}]
    BY DEF Merged, Settled
  <2>2. changed' \in [Procs -> SUBSET Keys]
    BY <1>4, ProcOfType DEF Merge
  <2> QED
    BY <1>0, <1>4, <2>1, <2>2, ProcOfType DEF Merge, newBaseline
<1>5. ASSUME NEW w \in Writers, MergeFails(w) PROVE SettingsTypeOK'
  BY <1>0, <1>5 DEF MergeFails
<1>6. ASSUME NEW w \in Writers, Restart(w) PROVE SettingsTypeOK'
  BY <1>0, <1>6 DEF Restart, rememberConfig
<1>7. ASSUME NEW w \in Writers, NEW new \in SettingList, ConfigServer(w, new)
      PROVE  SettingsTypeOK'
  <2>1. PICK K \in SUBSET CommandKeys : new \in [K -> Values]
    BY DEF SettingList
  <2>2. [k \in Keys |-> IF k \in DOMAIN new THEN new[k] ELSE mem[ProcOf[w]][k]] \in Settled
    BY <2>1, ProcOfType DEF Settled
  <2>3. mem' \in [Procs -> Settled]
    BY <1>7, <2>2 DEF ConfigServer
  <2>4. {k \in DOMAIN new : new[k] # mem[ProcOf[w]][k]} \subseteq Keys
    BY <2>1, SettingsConstants
  <2>5. changed' \in [Procs -> SUBSET Keys]
    BY <1>7, <2>4 DEF ConfigServer
  <2> QED
    BY <1>7, <2>3, <2>5 DEF ConfigServer
<1>8. ASSUME NEW c \in Clients, WebRead(c) PROVE SettingsTypeOK'
  BY <1>8 DEF WebRead
<1>9. ASSUME NEW c \in Clients, NEW p \in Procs, NEW admin \in BOOLEAN, WebPatch(c, p, admin)
      PROVE  SettingsTypeOK'
  <2>1. PICK K \in SUBSET {k \in Keys : Editable(k, admin)} : \E patch \in [K -> Values] :
          LET new == [k \in Keys |-> IF k \in K THEN patch[k] ELSE file[k]] IN
          /\ K # {} /\ Consistent(new)
          /\ file' = new
          /\ seen' = [seen EXCEPT ![c] = new]
    BY <1>9, Zenon DEF WebPatch
  <2>2. file' \in [Keys -> Values \cup {Absent}] /\ seen' = [seen EXCEPT ![c] = file']
    BY <2>1
  <2> QED
    BY <1>9, <2>2 DEF WebPatch
<1>10. CASE UNCHANGED settingsVars
  BY <1>10 DEF settingsVars
<1> QED
  BY <1>1, <1>2, <1>3, <1>4, <1>5, <1>6, <1>7, <1>8, <1>9, <1>10 DEF SettingsNext

\* The file, the memories, the copies and the revisions keep their types.
THEOREM SettingsTypeCorrect == SettingsSpec => []SettingsTypeOK
  BY SettingsInitType, SettingsStepType, PTL DEF SettingsSpec

-----------------------------------------------------------------------------
(* The revision that is in force *)

\* A setting that is not in memory as the baseline says is one that a command has set.
LEMMA RevisionStep ==
  SettingsTypeOK /\ RevisionInForce /\ [SettingsNext]_settingsVars => RevisionInForce'
<1> SUFFICES ASSUME SettingsTypeOK, RevisionInForce, [SettingsNext]_settingsVars,
                    NEW q \in Procs, NEW k \in Keys, k \notin changed'[q]
             PROVE  mem'[q][k] = base'[q][k]
  BY DEF RevisionInForce
<1> USE ProcOfType DEF SettingsTypeOK, RevisionInForce
<1>1. ASSUME NEW w \in Writers, Install(w) \/ Restart(w) PROVE mem'[q][k] = base'[q][k]
  BY <1>1 DEF Install, Restart, rememberConfig
<1>2. ASSUME NEW w \in Writers, Merge(w) PROVE mem'[q][k] = base'[q][k]
  BY <1>2 DEF Merge, newBaseline
<1>3. ASSUME NEW w \in Writers, NEW new \in SettingList, ConfigServer(w, new)
      PROVE  mem'[q][k] = base'[q][k]
  <2>1. CASE q # ProcOf[w]
    BY <1>3, <2>1 DEF ConfigServer
  <2>2. CASE q = ProcOf[w]
    <3>1. k \notin changed[q] /\ ~(k \in DOMAIN new /\ new[k] # mem[q][k])
      BY <1>3, <2>2 DEF ConfigServer
    <3>2. mem'[q][k] = mem[q][k]
      BY <1>3, <2>2, <3>1 DEF ConfigServer
    <3> QED
      BY <1>3, <3>1, <3>2 DEF ConfigServer
  <2> QED
    BY <2>1, <2>2
<1>4. CASE UNCHANGED <<mem, base, changed>>
  BY <1>4
<1> QED
  BY <1>1, <1>2, <1>3, <1>4
  DEF SettingsNext, settingsVars, ReadFile, Capture, MergeFails, WebRead, WebPatch

\* What the console shows as the revision in force is what is in memory, but for what
\* commands are changing (RuntimeConfigRevision, rememberConfig, writeConfigMerged).
THEOREM RevisionTold == SettingsSpec => []RevisionInForce
<1>1. SettingsInit => RevisionInForce
  BY DEF SettingsInit, RevisionInForce
<1> QED
  BY <1>1, RevisionStep, SettingsTypeCorrect, PTL DEF SettingsSpec

-----------------------------------------------------------------------------
(* Edits are kept *)

\* What a goroutine is about to merge is what its process has in memory.
CopyCurrent == \A w \in Writers : step[w] = "merge" => held[w] = mem[ProcOf[w]]

\* Nobody else changes the memory of its process meanwhile.
LEMMA CopyStep ==
  ASSUME OneWriterEach, SettingsTypeOK, CopyCurrent, [SettingsNext]_settingsVars
  PROVE  CopyCurrent'
<1> SUFFICES ASSUME NEW v \in Writers, step'[v] = "merge"
             PROVE  held'[v] = mem'[ProcOf[v]]
  BY DEF CopyCurrent
<1> USE ProcOfType DEF SettingsTypeOK, CopyCurrent, OneWriterEach
<1>1. ASSUME NEW w \in Writers,
             \/ ReadFile(w) \/ Install(w) \/ Capture(w) \/ Merge(w) \/ MergeFails(w) \/ Restart(w)
      PROVE  held'[v] = mem'[ProcOf[v]]
  <2>1. CASE ReadFile(w)
    BY <2>1 DEF ReadFile
  <2>2. CASE Install(w)
    BY <2>2 DEF Install
  <2>3. CASE Capture(w)
    BY <2>3 DEF Capture
  <2>4. CASE Merge(w)
    BY <2>4 DEF Merge
  <2>5. CASE MergeFails(w)
    BY <2>5 DEF MergeFails
  <2>6. CASE Restart(w)
    BY <2>6 DEF Restart
  <2> QED
    BY <1>1, <2>1, <2>2, <2>3, <2>4, <2>5, <2>6
<1>2. ASSUME NEW w \in Writers, NEW new \in SettingList, ConfigServer(w, new)
      PROVE  held'[v] = mem'[ProcOf[v]]
  BY <1>2 DEF ConfigServer
<1>3. CASE UNCHANGED <<mem, step, held>>
  BY <1>3
<1> QED
  BY <1>1, <1>2, <1>3 DEF SettingsNext, settingsVars, WebRead, WebPatch

\* A merge writes what a command of its process has set.
LEMMA MergeKeeps ==
  ASSUME SettingsTypeOK, RevisionInForce, CopyCurrent,
         NEW w \in Writers, NEW k \in Keys,
         Merge(w), file'[k] # file[k], file[k] # Absent
  PROVE  k \in changed[ProcOf[w]]
<1>1. held[w][k] # base[ProcOf[w]][k]
  BY DEF Merge, Merged
<1>2. held[w] = mem[ProcOf[w]]
  BY DEF CopyCurrent, Merge
<1> QED
  BY <1>1, <1>2, ProcOfType DEF RevisionInForce

\* Only the browser whose edit it is learns the new revision with it, and it had seen
\* the file.
LEMMA PatchKeeps ==
  ASSUME SettingsTypeOK, [SettingsNext]_settingsVars,
         NEW c \in Clients, seen'[c] # seen[c], file' # file
  PROVE  seen[c] = file
<1> USE DEF SettingsTypeOK
<1>1. ASSUME NEW d \in Clients, NEW p \in Procs, NEW admin \in BOOLEAN, WebPatch(d, p, admin)
      PROVE  seen[c] = file
  <2>1. \E new : seen' = [seen EXCEPT ![d] = new]
    BY <1>1, Zenon DEF WebPatch
  <2>2. d = c
    BY <2>1
  <2> QED
    BY <1>1, <2>2 DEF WebPatch, Current
<1>2. CASE UNCHANGED file \/ UNCHANGED seen
  BY <1>2
<1> QED
  BY <1>1, <1>2
  DEF SettingsNext, settingsVars, ReadFile, Install, Capture, Merge, MergeFails, Restart,
      ConfigServer, WebRead

\* With one writer at a time in each process, no process and no browser undoes an edit
\* it does not know of (writeConfigMerged, WebPatch).
THEOREM EditsAreSafe ==
  ASSUME OneWriterEach
  PROVE  SettingsSpec => EditsSafe
<1>1. SettingsInit => CopyCurrent
  BY DEF SettingsInit, CopyCurrent
<1>2. SettingsTypeOK /\ CopyCurrent /\ [SettingsNext]_settingsVars => CopyCurrent'
  BY CopyStep, OneWriterEach
<1>3. SettingsTypeOK /\ RevisionInForce /\ CopyCurrent /\ [SettingsNext]_settingsVars =>
        [\A w \in Writers, k \in Keys :
           Merge(w) /\ file'[k] # file[k] /\ file[k] # Absent => k \in changed[ProcOf[w]]
        ]_settingsVars
  BY MergeKeeps
<1>4. SettingsTypeOK /\ [SettingsNext]_settingsVars =>
        [\A c \in Clients : seen'[c] # seen[c] /\ file' # file =>
           \A k \in Keys : file'[k] # file[k] => seen[c][k] = file[k]]_settingsVars
  BY PatchKeeps
<1> QED
  BY <1>1, <1>2, <1>3, <1>4, SettingsTypeCorrect, RevisionTold, PTL
  DEF SettingsSpec, EditsSafe, EditsKept, PatchSeesFile

-----------------------------------------------------------------------------
(* The four components side by side *)

WebInv == SettingsTypeOK /\ AuthInv /\ ConsoleInv /\ UploadsInv

\* A step of one component leaves the others as they are.
LEMMA WebSteps ==
  [WebNext]_webVars => /\ [SettingsNext]_settingsVars /\ [AuthNext]_authVars
                       /\ [ConsoleNext]_consoleVars /\ [UploadsNext]_uploadVars
  BY DEF WebNext, webVars

\* The state of every web component keeps its type, also that of the sessions: settings
\* (rememberConfig, Merge), links and sessions (check, revoke), confirmed actions and
\* batches (action, batch) and staged files (stageUpload, runUploads).
THEOREM WebTypeCorrect == WebSpec => []WebTypeOK
<1>1. WebInit => WebInv
  BY SettingsInitType, AuthInitInv, ConsoleInitInv, UploadsInitInv DEF WebInit, WebInv
<1>2. WebInv /\ [WebNext]_webVars => WebInv'
  BY WebSteps, SettingsStepType, AuthStep, ConsoleStep, UploadsStep DEF WebInv
<1>3. WebInv => WebTypeOK
  <2>1. AuthInv => AuthTypeOK
    BY DEF AuthInv
  <2>2. ConsoleInv => ConsoleTypeOK
    BY DEF ConsoleInv, InstanceInv, HostInv, ConsoleTypeOK
  <2>3. UploadsInv => UploadsTypeOK
    BY DEF UploadsInv, StagingInv, JobInv, ApplyRecords, UploadsTypeOK
  <2> QED
    BY <2>1, <2>2, <2>3 DEF WebInv, WebTypeOK
<1> QED
  BY <1>1, <1>2, <1>3, PTL DEF WebSpec
=============================================================================
