------------------------------- MODULE JobLedger -------------------------------
(***************************************************************************)
(* What the operation store promises a client of the web panel, who may    *)
(* send a request again and asks for its outcome: no operation has effects *)
(* before it is recorded, one is open at a time, a key has effects once, a *)
(* success is told only when it was reached and then for good, and after a *)
(* restart everything recorded has an outcome and nothing is open.         *)
(***************************************************************************)
CONSTANTS JobIds, Keys

VARIABLES
  key,        \* the idempotency key of a job, which never changes
  recorded,   \* jobs that have a file; the client may not have heard of one
  begun,      \* jobs whose effects have begun
  reached,    \* jobs that reached what they are for
  kept,       \* jobs whose success no crash can take back
  told        \* what a client is told of a job

vars == <<key, recorded, begun, reached, kept, told>>

Outcomes == {"succeeded", "failed", "unknown"}

Init ==
  /\ key \in [JobIds -> Keys]
  /\ recorded = {} /\ begun = {} /\ reached = {} /\ kept = {}
  /\ told = [j \in JobIds |-> "nothing"]

\* A job gets its record.  It is told to be open only when no other one is and no job that
\* is told of has its key; otherwise the client hears of an error.
Record(j) ==
  /\ j \notin recorded
  /\ recorded' = recorded \cup {j}
  /\ \/ told' = told
     \/ /\ \A i \in JobIds : told[i] # "open" /\ (told[i] # "nothing" => key[i] # key[j])
        /\ told' = [told EXCEPT ![j] = "open"]
  /\ UNCHANGED <<key, begun, reached, kept>>

\* Effects begin, of a key that had none; what the job is for may be reached with them.
Begin(j) ==
  /\ told[j] = "open" /\ j \in recorded
  /\ \A i \in begun : key[i] # key[j]
  /\ begun' = begun \cup {j}
  /\ reached' \in {reached, reached \cup {j}}
  /\ UNCHANGED <<key, recorded, kept, told>>

\* An operation whose effects have begun gets where it should.
Reach(j) ==
  /\ told[j] = "open" /\ j \in begun
  /\ reached' = reached \cup {j}
  /\ UNCHANGED <<key, recorded, begun, kept, told>>

\* The client is told how it ended; of a success only when there was one.
Tell(j, outcome) ==
  /\ told[j] = "open"
  /\ outcome = "succeeded" => j \in reached
  /\ told' = [told EXCEPT ![j] = outcome]
  /\ kept' = IF outcome = "succeeded" THEN kept \cup {j} ELSE kept
  /\ UNCHANGED <<key, recorded, begun, reached>>

\* What was reached may turn out to be on disk.
KeepMore == kept \subseteq kept' /\ kept' \subseteq reached

\* There is no process, or a new one did not get far.
Down ==
  /\ told' = [j \in JobIds |-> "nothing"] /\ KeepMore
  /\ UNCHANGED <<key, recorded, begun, reached>>

\* Whatever was recorded has an outcome, and the successes that were kept are told.
Restarted ==
  /\ told = [j \in JobIds |-> "nothing"] /\ KeepMore
  /\ told' \in [JobIds -> Outcomes \cup {"nothing"}]
  /\ \A j \in JobIds : /\ told'[j] # "nothing" <=> j \in recorded
                       /\ told'[j] = "succeeded" <=> j \in kept'
  /\ UNCHANGED <<key, recorded, begun, reached>>

Next ==
  \/ \E j \in JobIds : \/ Record(j) \/ Begin(j) \/ Reach(j)
                       \/ \E outcome \in Outcomes : Tell(j, outcome)
  \/ Down \/ Restarted

Spec == Init /\ [][Next]_vars
=============================================================================
