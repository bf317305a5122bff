------------------------------ MODULE Console ------------------------------
(***************************************************************************)
(* Operations asked for in the web console: the private API of every       *)
(* instance (controlruntime) and the batches of the web service            *)
(* (webapi/batches.go), which run one operation on several instances.      *)
(*                                                                         *)
(* An operation is previewed first; the confirmation token of the preview  *)
(* is good for that actor, action, parameters and state of the server.     *)
(* rt.mu and s.mu make one confirmation atomic.  The job store is modelled *)
(* in Jobs; here a job is a record that is accepted, begun and finished.   *)
(* A response of an instance may be lost, and a browser may send anything  *)
(* again at any time.                                                      *)
(*                                                                         *)
(* A definition whose comment says "Fault" is a wrong variant of the one   *)
(* that follows it and is used by no specification.                        *)
(***************************************************************************)
EXTENDS Naturals, FiniteSets

CONSTANTS
  Servers, Actors,
  Requests,      \* action and parameters, as their digest tells them apart
  RequestKeys,          \* idempotency keys of direct requests
  Batches,       \* idempotency keys of batches; a child's key is made from its parent's
  Tokens,        \* confirmation tokens, each made once per server and once for batches
  BatchWidth,    \* 4 in the code
  MaxRev,        \* bound on the changes of each server's state
  Nil

Active == {"queued", "running"}
\* "other": failed, or unknown after a restart or a lost answer
Final == {"succeeded", "other"}

\* What was previewed, a job, what was previewed for a batch, and a batch
ShownRecords == [actor : Actors, req : Requests, rev : Nat]
JobRecords ==
  [key : RequestKeys \cup Batches, actor : Actors, req : Requests, token : Tokens, rev : Nat,
   state : Active \cup Final]
PlanRecords ==
  [actor : Actors, req : Requests, servers : SUBSET Servers,
   children : UNION {[S -> Tokens \cup {Nil}] : S \in SUBSET Servers}]
BatchRecords ==
  [actor : Actors, req : Requests, token : Tokens, state : {"running"} \cup Final,
   child : UNION {[S -> {"waiting", "posted"} \cup Final] : S \in SUBSET Servers}]

ASSUME ConsoleConstants ==
  /\ BatchWidth \in Nat \ {0} /\ MaxRev \in [Servers -> Nat]
  /\ RequestKeys \cap Batches = {}
  /\ Nil \notin Tokens \cup Servers \cup RequestKeys \cup Batches
  /\ Nil \notin ShownRecords /\ Nil \notin PlanRecords /\ Nil \notin BatchRecords

VARIABLES
  rev,       \* stateRevision of each server: lifecycle, players, settings
  shown,     \* per server and token: what was previewed
  previews,  \* per server: tokens that can still be used
  jobs,      \* per server: the jobs it has accepted
  control,   \* glob.ControlLock of each server: free, discord or a job's key
  building,  \* the batch preview in progress, one target after the other
  bShown, bPreviews, bJobs   \* the same for batches

instances == <<rev, shown, previews, jobs, control>>
host == <<building, bShown, bPreviews, bJobs>>
consoleVars == <<instances, host>>

-----------------------------------------------------------------------------
(* One instance *)

\* Players join, the game is stopped, settings are edited, ...
StateChanges(s) ==
  /\ rev[s] < MaxRev[s]
  /\ rev' = [rev EXCEPT ![s] = @ + 1]
  /\ UNCHANGED <<shown, previews, jobs, control, host>>

\* A Discord command or a settings PATCH, which try the same lock.
TakeControl(s) ==
  /\ control[s] = "free"
  /\ control' = [control EXCEPT ![s] = "discord"]
  /\ UNCHANGED <<rev, shown, previews, jobs, host>>

ReleaseControl(s) ==
  /\ control[s] = "discord"
  /\ control' = [control EXCEPT ![s] = "free"]
  /\ UNCHANGED <<rev, shown, previews, jobs, host>>

Preview(s, a, q, t) ==
  /\ shown[s][t] = Nil
  /\ shown' = [shown EXCEPT ![s][t] = [actor |-> a, req |-> q, rev |-> rev[s]]]
  /\ previews' = [previews EXCEPT ![s] = @ \cup {t}]

previewAction(s, a, q, t) ==
  /\ Preview(s, a, q, t)
  /\ UNCHANGED <<rev, jobs, control, host>>

\* Two minutes have passed.
PreviewExpires(s, t) ==
  /\ t \in previews[s]
  /\ previews' = [previews EXCEPT ![s] = @ \ {t}]
  /\ UNCHANGED <<rev, shown, jobs, control, host>>

\* Lookup: a request sent again is answered with its job, whatever its token.
Repeats(s, k) == \E j \in jobs[s] : j.key = k

Confirms(s, a, q, t) ==
  /\ t \in previews[s]
  /\ shown[s][t].actor = a /\ shown[s][t].req = q
  /\ shown[s][t].rev = rev[s]

\* Fault: the preview stays usable.
Without_Kept(s, t) == previews[s]

Without(s, t) == previews[s] \ {t}

\* The handler accepts the request under rt.mu (Jobs.Start, one active job).
Accept(s, a, q, k, t) ==
  /\ ~Repeats(s, k)
  /\ Confirms(s, a, q, t)
  /\ ~\E j \in jobs[s] : j.state \in Active
  /\ jobs' = [jobs EXCEPT ![s] = @ \cup
       {[key |-> k, actor |-> a, req |-> q, token |-> t, rev |-> rev[s], state |-> "queued"]}]
  /\ previews' = [previews EXCEPT ![s] = Without(s, t)]

action(s, a, q, k, t) ==
  /\ Accept(s, a, q, k, t)
  /\ UNCHANGED <<rev, shown, control, host>>

To(s, j, st) == jobs' = [jobs EXCEPT ![s] = (@ \ {j}) \cup {[j EXCEPT !.state = st]}]

\* The job's goroutine: the lock is tried, not waited for.
BeginJob(s, j) ==
  /\ j \in jobs[s] /\ j.state = "queued"
  /\ IF control[s] = "free"
     THEN To(s, j, "running") /\ control' = [control EXCEPT ![s] = j.key]
     ELSE To(s, j, "other") /\ UNCHANGED control
  /\ UNCHANGED <<rev, shown, previews, host>>

\* execute has returned; of an rcon command the outcome may be unknown.
EndJob(s, j, st) ==
  /\ j \in jobs[s] /\ j.state = "running" /\ st \in Final
  /\ To(s, j, st)
  /\ control' = [control EXCEPT ![s] = "free"]
  /\ UNCHANGED <<rev, shown, previews, host>>

\* The instance ends and is started again: NewJobs; previews are only in memory.
InstanceRestarts(s) ==
  /\ previews' = [previews EXCEPT ![s] = {}]
  /\ jobs' = [jobs EXCEPT ![s] = {IF j.state \in Active THEN [j EXCEPT !.state = "other"] ELSE j
                                   : j \in @}]
  /\ control' = [control EXCEPT ![s] = "free"]
  /\ UNCHANGED <<rev, shown, host>>

-----------------------------------------------------------------------------
(* Batches *)

\* normalizeBatch: a set of known servers without duplicates.
BeginBatchPreview(a, q, S) ==
  /\ building = Nil /\ S # {}
  /\ building' = [actor |-> a, req |-> q, servers |-> S,
                  children |-> [s \in S |-> Nil]]
  /\ UNCHANGED <<instances, bShown, bPreviews, bJobs>>

PreviewChild(s, t) ==
  /\ building # Nil
  /\ s \in building.servers /\ building.children[s] = Nil
  /\ Preview(s, building.actor, building.req, t)
  /\ building' = [building EXCEPT !.children[s] = t]
  /\ UNCHANGED <<rev, jobs, control, bShown, bPreviews, bJobs>>

\* A target is unavailable: the previews made so far stay where they are.
BatchPreviewFails ==
  /\ building # Nil
  /\ building' = Nil
  /\ UNCHANGED <<instances, bShown, bPreviews, bJobs>>

batchPreview(t) ==
  /\ building # Nil /\ bShown[t] = Nil
  /\ \A s \in building.servers : building.children[s] # Nil
  /\ bShown' = [bShown EXCEPT ![t] = building]
  /\ bPreviews' = bPreviews \cup {t}
  /\ building' = Nil
  /\ UNCHANGED <<instances, bJobs>>

BatchPreviewExpires(t) ==
  /\ t \in bPreviews
  /\ bPreviews' = bPreviews \ {t}
  /\ UNCHANGED <<instances, building, bShown, bJobs>>

BatchConfirms(a, q, S, t) ==
  t \in bPreviews /\ bShown[t].actor = a /\ bShown[t].req = q /\ bShown[t].servers = S

batch(a, q, S, k, t) ==
  /\ bJobs[k] = Nil
  /\ BatchConfirms(a, q, S, t)
  /\ ~\E b \in Batches : bJobs[b] # Nil /\ bJobs[b].state = "running"
  /\ bJobs' = [bJobs EXCEPT ![k] =
       [actor |-> a, req |-> q, token |-> t, state |-> "running",
        child |-> [s \in S |-> "waiting"]]]
  /\ bPreviews' = bPreviews \ {t}
  /\ UNCHANGED <<instances, building, bShown>>

Running(k) == bJobs[k] # Nil /\ bJobs[k].state = "running"
Child(k, s, st) == bJobs' = [bJobs EXCEPT ![k].child[s] = st]
TokenFor(k, s) ==
  LET c == bShown[bJobs[k].token].children IN IF s \in DOMAIN c THEN c[s] ELSE Nil

\* The semaphore.
Posting(k) == Cardinality({s \in DOMAIN bJobs[k].child : bJobs[k].child[s] = "posted"})

\* Fault: a lost answer counts as a refusal that may be ignored.
NoAnswer_Ignored == "succeeded"

\* "Response unavailable; inspect instance jobs before retrying."
NoAnswer == "other"

\* The instance accepts the child; its answer arrives or is lost.
PostChild(k, s, answered) ==
  /\ Running(k) /\ s \in DOMAIN bJobs[k].child /\ bJobs[k].child[s] = "waiting"
  /\ Posting(k) < BatchWidth
  /\ Accept(s, bJobs[k].actor, bJobs[k].req, k, TokenFor(k, s))
  /\ Child(k, s, IF answered THEN "posted" ELSE NoAnswer)
  /\ UNCHANGED <<rev, shown, control, building, bShown, bPreviews>>

\* It is not reached, or it refuses: state changed, busy, preview expired.
ChildRefused(k, s) ==
  /\ Running(k) /\ s \in DOMAIN bJobs[k].child /\ bJobs[k].child[s] = "waiting"
  /\ Posting(k) < BatchWidth
  /\ Child(k, s, NoAnswer)
  /\ UNCHANGED <<instances, building, bShown, bPreviews>>

\* A poll is answered with a final state.
PollChild(k, s) ==
  /\ Running(k) /\ s \in DOMAIN bJobs[k].child /\ bJobs[k].child[s] = "posted"
  /\ \E j \in jobs[s] : j.key = k /\ j.state \in Final /\ Child(k, s, j.state)
  /\ UNCHANGED <<instances, building, bShown, bPreviews>>

\* A poll is not answered, or 24 hours have passed.
PollFails(k, s) ==
  /\ Running(k) /\ s \in DOMAIN bJobs[k].child /\ bJobs[k].child[s] = "posted"
  /\ Child(k, s, NoAnswer)
  /\ UNCHANGED <<instances, building, bShown, bPreviews>>

AllSucceeded(k) == \A s \in DOMAIN bJobs[k].child : bJobs[k].child[s] = "succeeded"

EndBatch(k) ==
  /\ Running(k) /\ \A s \in DOMAIN bJobs[k].child : bJobs[k].child[s] \in Final
  /\ bJobs' = [bJobs EXCEPT ![k].state = IF AllSucceeded(k) THEN "succeeded" ELSE "other"]
  /\ UNCHANGED <<instances, building, bShown, bPreviews>>

\* The web service restarts: a running batch becomes unknown and is not resumed.
WebRestarts ==
  /\ building' = Nil /\ bPreviews' = {}
  /\ bJobs' = [k \in Batches |-> IF Running(k) THEN [bJobs[k] EXCEPT !.state = "other"]
                                 ELSE bJobs[k]]
  /\ UNCHANGED <<instances, bShown>>

-----------------------------------------------------------------------------

ConsoleInit ==
  /\ rev = [s \in Servers |-> 0] /\ control = [s \in Servers |-> "free"]
  /\ shown = [s \in Servers |-> [t \in Tokens |-> Nil]]
  /\ previews = [s \in Servers |-> {}] /\ jobs = [s \in Servers |-> {}]
  /\ building = Nil
  /\ bShown = [t \in Tokens |-> Nil] /\ bPreviews = {} /\ bJobs = [k \in Batches |-> Nil]

ConsoleNext ==
  \/ BatchPreviewFails \/ WebRestarts
  \/ \E t \in Tokens : batchPreview(t) \/ BatchPreviewExpires(t)
  \/ \E a \in Actors, q \in Requests, S \in SUBSET Servers :
       BeginBatchPreview(a, q, S) \/ \E k \in Batches, t \in Tokens : batch(a, q, S, k, t)
  \/ \E k \in Batches : EndBatch(k)
  \/ \E s \in Servers :
       \/ StateChanges(s) \/ TakeControl(s) \/ ReleaseControl(s) \/ InstanceRestarts(s)
       \/ \E t \in Tokens : PreviewExpires(s, t) \/ PreviewChild(s, t)
       \/ \E a \in Actors, q \in Requests, t \in Tokens :
            previewAction(s, a, q, t) \/ \E k \in RequestKeys : action(s, a, q, k, t)
       \/ \E j \in jobs[s] : BeginJob(s, j) \/ \E st \in Final : EndJob(s, j, st)
       \/ \E k \in Batches :
            \/ ChildRefused(k, s) \/ PollChild(k, s) \/ PollFails(k, s)
            \/ \E answered \in BOOLEAN : PostChild(k, s, answered)

ConsoleSpec == ConsoleInit /\ [][ConsoleNext]_consoleVars

-----------------------------------------------------------------------------
(* Properties *)

\* Every table of the instances and of the web service has its type.
ConsoleTypeOK ==
  /\ rev \in [Servers -> Nat] /\ \A s \in Servers : rev[s] <= MaxRev[s]
  /\ shown \in [Servers -> [Tokens -> ShownRecords \cup {Nil}]]
  /\ previews \in [Servers -> SUBSET Tokens]
  /\ jobs \in [Servers -> SUBSET JobRecords]
  /\ control \in [Servers -> {"free", "discord"} \cup RequestKeys \cup Batches]
  /\ building \in PlanRecords \cup {Nil}
  /\ bShown \in [Tokens -> PlanRecords \cup {Nil}]
  /\ bPreviews \subseteq Tokens /\ \A t \in bPreviews : bShown[t] # Nil
  /\ bJobs \in [Batches -> BatchRecords \cup {Nil}]

\* One confirmation, one operation: however often and under whichever keys a confirmed
\* request is sent, directly or as part of a batch, an instance accepts it once (action).
ConfirmedOnce == \A s \in Servers : \A i, j \in jobs[s] : i.token = j.token => i = j

\* What runs is what was shown: the job has the actor, action and parameters of its
\* preview, and the server was in the state that the preview described (action).
ExecutedAsShown ==
  \A s \in Servers : \A j \in jobs[s] :
    shown[s][j.token] = [actor |-> j.actor, req |-> j.req, rev |-> j.rev]

\* A batch runs on the exact list of servers that was confirmed, by the actor and
\* with the request of its preview (batch).
BatchAsShown ==
  \A k \in Batches : bJobs[k] # Nil =>
    LET b == bShown[bJobs[k].token] IN
    /\ b.actor = bJobs[k].actor /\ b.req = bJobs[k].req
    /\ DOMAIN bJobs[k].child = b.servers

\* What an instance or a batch runs is what somebody has confirmed, and once.
ConfirmedAsShown == ConfirmedOnce /\ ExecutedAsShown /\ BatchAsShown

\* A batch that says it succeeded did so on every target: answers that were lost, jobs
\* that failed, restarts of an instance or of the web service never end in success (batch).
BatchTruth ==
  \A k \in Batches : bJobs[k] # Nil /\ bJobs[k].state = "succeeded" =>
    \A s \in DOMAIN bJobs[k].child : \E j \in jobs[s] : j.key = k /\ j.state = "succeeded"
=============================================================================
