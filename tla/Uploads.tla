------------------------------ MODULE Uploads ------------------------------
(***************************************************************************)
(* Staged uploads of the control runtime (controlruntime/files.go): files  *)
(* are staged with an expiry, and applied together by a job that stops     *)
(* Factorio, copies each into place, and starts it again.  Runtime.mu is   *)
(* held by one of them at a time, by the job until it ends.  Whether a     *)
(* stop, a lock, a copy, a mod sync or a start succeeds is a choice.       *)
(*                                                                         *)
(* A definition whose comment says "Fault" is a wrong variant of the one   *)
(* that follows it and is used by no specification.                        *)
(***************************************************************************)
EXTENDS Integers, FiniteSets, Sequences, SequencesExt

CONSTANTS
  UploadIds, Uploaders,
  FileKinds,       \* "save", "mod-list", "mod-settings"
  Quota,           \* 20 in the code
  UploadLife,      \* an hour in the code
  MaxMinute        \* bound on time

ASSUME UploadConstants ==
  /\ Quota \in Nat /\ UploadLife \in Nat /\ MaxMinute \in Nat
  /\ IsFiniteSet(UploadIds)

VARIABLES
  minute,
  staged,      \* Runtime.uploads: id -> [kind, actor, expires]
  spent,       \* ids that were used (tokens are never used again)
  targets,     \* per kind the upload that is in place, or "old"
  server,      \* of Factorio: up or down
  apply,       \* the job: [at, by, ids, left, start]
  gone         \* ghost: how the uploads that left the staging area did so

uploadVars == <<minute, staged, spent, targets, server, apply, gone>>

NoApply == [at |-> "none", by |-> "none", ids |-> {}, left |-> <<>>, start |-> FALSE]

\* Fault: the job releases the mutex while it waits for the lifecycle manager.
muFree_WhileWaiting == apply.at \in {"none", "stop", "start"}

muFree == apply.at = "none"

Live(id) == minute <= staged[id].expires

\* What stays when the ids in D are removed.
Keep(D) == [id \in DOMAIN staged \ D |-> staged[id]]

\* Ghost: one more way in which ids left.
Leave(D, how) == [id \in DOMAIN gone |-> IF id \in D THEN how ELSE gone[id]]

-----------------------------------------------------------------------------
(* Staging *)

\* Expired ones are removed first, even when the quota then refuses the upload or the
\* file turns out to be too long or invalid.
Purge == {id \in DOMAIN staged : ~Live(id)}

HasRoom(S) == Cardinality(DOMAIN S) < Quota

upload(id, a, k) ==
  /\ muFree /\ id \notin spent
  /\ LET S == Keep(Purge) IN
     /\ HasRoom(S)
     /\ staged' = [x \in DOMAIN S \cup {id} |->
                     IF x = id THEN [kind |-> k, actor |-> a, expires |-> minute + UploadLife]
                     ELSE S[x]]
  /\ spent' = spent \cup {id}
  /\ gone' = Leave(Purge, "expired")
  /\ UNCHANGED <<minute, targets, server, apply>>

\* The quota is reached, or validateUpload finds no save, mod list or mod settings in the
\* file.
UploadRefused ==
  /\ muFree /\ Purge # {}
  /\ staged' = Keep(Purge)
  /\ gone' = Leave(Purge, "expired")
  /\ UNCHANGED <<minute, spent, targets, server, apply>>

Owner(id, a) == staged[id].actor = a

DeleteUpload(id, a) ==
  /\ muFree /\ id \in DOMAIN staged /\ Owner(id, a)
  /\ gone' = Leave({id}, IF staged[id].actor = a THEN "deleted" ELSE "stolen")
  /\ staged' = Keep({id})
  /\ UNCHANGED <<minute, spent, targets, server, apply>>

-----------------------------------------------------------------------------
(* applyUploads *)

mayApply(ids, a) ==
  /\ ids # {} /\ Cardinality(ids) <= 3
  /\ \A x \in ids : x \in DOMAIN staged /\ staged[x].actor = a /\ Live(x)
  /\ \A x, y \in ids : staged[x].kind = staged[y].kind => x = y

applyUploads(ids, a) ==
  /\ muFree /\ mayApply(ids, a)
  /\ \E start \in BOOLEAN, order \in SetToSeqs(ids) :
       apply' = [at |-> "stop", by |-> a, ids |-> ids, left |-> order, start |-> start]
  /\ UNCHANGED <<minute, staged, spent, targets, server, gone>>

\* An error ends the job: it says what was done, and the uploads stay staged.
ApplyFails ==
  /\ apply.at # "none"
  /\ apply' = NoApply
  /\ UNCHANGED <<minute, staged, spent, targets, server, gone>>

StopServer ==
  /\ apply.at = "stop"
  /\ server' = "down"
  /\ apply' = [apply EXCEPT !.at = "copy"]
  /\ UNCHANGED <<minute, staged, spent, targets, gone>>

\* copyAtomic, one file after the other
Activate ==
  /\ apply.at = "copy" /\ apply.left # <<>>
  /\ LET id == Head(apply.left) IN
     /\ id \in DOMAIN staged
     /\ targets' = [targets EXCEPT ![staged[id].kind] = id]
  /\ apply' = [apply EXCEPT !.left = Tail(@),
                            !.at = IF Len(apply.left) = 1 THEN "sync" ELSE "copy"]
  /\ UNCHANGED <<minute, staged, spent, server, gone>>

\* The mods of an uploaded save are synchronised before it is started.
SyncUpload ==
  /\ apply.at = "sync"
  /\ apply' = [apply EXCEPT !.at = IF apply.start THEN "start" ELSE "end"]
  /\ UNCHANGED <<minute, staged, spent, targets, server, gone>>

StartServer ==
  /\ apply.at = "start"
  /\ server' = "up"
  /\ apply' = [apply EXCEPT !.at = "end"]
  /\ UNCHANGED <<minute, staged, spent, targets, gone>>

Finishing == apply.at = "end"

ApplyEnds ==
  /\ Finishing
  /\ gone' = Leave(apply.ids, IF \A x \in apply.ids \cap DOMAIN staged : targets[staged[x].kind] = x
                              THEN "applied" ELSE "lost")
  /\ staged' = Keep(apply.ids)
  /\ apply' = NoApply
  /\ UNCHANGED <<minute, spent, targets, server>>

-----------------------------------------------------------------------------
\* New removes what an earlier process staged.
RuntimeNew ==
  /\ staged' = <<>> /\ apply' = NoApply
  /\ gone' = Leave(DOMAIN staged, "restart")
  /\ server' = "down"
  /\ UNCHANGED <<minute, spent, targets>>

\* The operator, or auto-start
ServerChanges ==
  /\ \E s \in {"up", "down"} : server' = s /\ s # server
  /\ UNCHANGED <<minute, staged, spent, targets, apply, gone>>

MinutePasses ==
  /\ minute < MaxMinute /\ minute' = minute + 1
  /\ UNCHANGED <<staged, spent, targets, server, apply, gone>>

UploadsInit ==
  /\ minute = 0 /\ staged = <<>> /\ spent = {}
  /\ targets = [k \in FileKinds |-> "old"]
  /\ server = "up" /\ apply = NoApply
  /\ gone = [id \in UploadIds |-> "no"]

UploadsNext ==
  \/ \E id \in UploadIds, a \in Uploaders, k \in FileKinds : upload(id, a, k)
  \/ \E id \in UploadIds, a \in Uploaders : DeleteUpload(id, a)
  \/ \E ids \in SUBSET UploadIds, a \in Uploaders : applyUploads(ids, a)
  \/ UploadRefused \/ ApplyFails \/ StopServer \/ Activate \/ SyncUpload \/ StartServer \/ ApplyEnds
  \/ RuntimeNew \/ ServerChanges \/ MinutePasses

UploadsSpec == UploadsInit /\ [][UploadsNext]_uploadVars

-----------------------------------------------------------------------------
(* Properties *)

\* Staging area, targets and job have their types, and the quota is kept.
UploadsTypeOK ==
  /\ DOMAIN staged \subseteq spent /\ spent \subseteq UploadIds
  /\ Cardinality(DOMAIN staged) <= Quota
  /\ \A k \in FileKinds : targets[k] \in spent \cup {"old"}
  /\ apply.at \in {"none", "stop", "copy", "sync", "start", "end"}

\* The files of a running job stay staged until it ends: they neither expire nor are
\* deleted while Factorio is being stopped or started, however long that takes.
StagedUntilApplied == apply.at # "none" => apply.ids \subseteq DOMAIN staged

\* An upload leaves the staging area because its owner deleted it, because it expired,
\* with its process, or when the file in place is this one; a job that fails midway
\* keeps all of its uploads for another attempt.
NoUploadLost == \A id \in UploadIds : gone[id] \notin {"lost", "stolen"}

\* An upload is there until it is in use, and leaves in no other way than its owner knows.
UploadsKept == StagedUntilApplied /\ NoUploadLost
=============================================================================
