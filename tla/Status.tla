------------------------------- MODULE Status -------------------------------
(***************************************************************************)
(* Operation status messages (fact/operation_status.go).  One operation is *)
(* shown at a time: a new one takes the place of the one before it, whose  *)
(* updates are then ignored by its token.  An operation is announced after *)
(* a delay unless it ended before, or at once; progress may be scheduled   *)
(* for later, and an update that comes first cancels it.  A goroutine      *)
(* decides under operationStatusLock and queues its message after it.      *)
(*                                                                         *)
(* The lifecycle manager announces at once (beginOperation), the updaters  *)
(* do not.                                                                 *)
(*                                                                         *)
(* A definition whose comment says "Fault" is a wrong variant of the one   *)
(* that follows it and is used by no specification.                        *)
(***************************************************************************)
EXTENDS Integers, FiniteSets, Sequences

CONSTANTS
  MaxOps,          \* bound on operations
  Descriptions,    \* texts of progress
  AnnounceDelay,   \* operationAnnounceDelay
  Throttle,        \* operationProgressThrottle
  MaxUpdatesPerOp, \* bound on updates of an operation
  MaxSecond        \* bound on time

ASSUME StatusConstants ==
  \A n \in {MaxOps, AnnounceDelay, Throttle, MaxUpdatesPerOp, MaxSecond} : n \in Nat

Ops == 1 .. MaxOps

VARIABLES
  second,
  status,      \* operationStatus: [token, text, startedAt, lastKey, lastAt, announced, suppress, delayID]
  begun,       \* operations begun so far
  announcers,  \* announcement goroutines that sleep: [op, at]
  timers,      \* scheduled progress that sleeps: [op, text, at, id]
  said,        \* the last message that was decided on
  updates,     \* ghost: updates, schedules and cancellations per operation
  ended        \* ghost: per operation, how it ended

statusVars == <<second, status, begun, announcers, timers, said, updates, ended>>

NoOp == [token |-> 0, text |-> "none", startedAt |-> 0, lastKey |-> "none", lastAt |-> 0,
         announced |-> FALSE, suppress |-> FALSE, delayID |-> 0]

\* A message: what is said, in answer to what, and what its operation knew by then.
Say(o, text, why, id) ==
  [op |-> o, text |-> text, why |-> why, age |-> second - status.startedAt,
   id |-> id, seen |-> updates[o], ended |-> ended[o]]

-----------------------------------------------------------------------------
(* Begin and announce *)

BeginOperation ==
  /\ begun < MaxOps
  /\ begun' = begun + 1
  /\ status' = [NoOp EXCEPT !.token = begun', !.text = "begin", !.startedAt = second]
  /\ announcers' = announcers \cup {[op |-> begun', at |-> second + AnnounceDelay]}
  /\ ended' = [o \in Ops |-> IF o = status.token THEN "replaced" ELSE ended[o]]
  /\ UNCHANGED <<second, timers, said, updates>>

SuppressPendingOperationAnnouncement(o) ==
  /\ o = status.token
  /\ status' = [status EXCEPT !.suppress = TRUE]
  /\ UNCHANGED <<second, begun, announcers, timers, said, updates, ended>>

mayAnnounce(o) ==
  /\ o = status.token /\ ~status.announced /\ ~status.suppress
  /\ second - status.startedAt >= AnnounceDelay

\* The goroutine wakes up: the operation is announced, or it is too late for that.
AnnouncePendingOperation ==
  \E a \in announcers :
    /\ second >= a.at
    /\ announcers' = announcers \ {a}
    /\ IF mayAnnounce(a.op)
       THEN /\ status' = [status EXCEPT !.announced = TRUE]
            /\ said' = Say(status.token, status.text, "announce", 0)
       ELSE UNCHANGED <<status, said>>
    /\ UNCHANGED <<second, begun, timers, updates, ended>>

-----------------------------------------------------------------------------
(* Updates *)

Early == ~status.announced /\ second - status.startedAt < AnnounceDelay

Repeated(text) == text = status.lastKey /\ second - status.lastAt < Throttle

Updated(o) == updates' = [updates EXCEPT ![o] = @ + 1]

\* Fault: an update leaves what was scheduled before it alone.
NextID_Same(s) == s.delayID

NextID(s) == s.delayID + 1

\* throttled: UpdateOperationProgress; force: AnnounceOperationNow
updateOperation(o, text, throttled, force) ==
  /\ o = status.token /\ updates[o] < MaxUpdatesPerOp
  /\ Updated(o)
  /\ LET s == [status EXCEPT !.delayID = NextID(status)] IN
     IF ~force /\ Early
     THEN status' = [s EXCEPT !.text = text] /\ UNCHANGED said
     ELSE IF throttled /\ Repeated(text)
     THEN status' = s /\ UNCHANGED said
     ELSE /\ status' = [s EXCEPT !.text = text, !.announced = TRUE,
                          !.lastKey = IF throttled THEN text ELSE @,
                          !.lastAt = IF throttled THEN second ELSE @]
          /\ said' = Say(o, text, "update", 0)
  /\ UNCHANGED <<second, begun, announcers, timers, ended>>

\* nextOptionalProgressDelay: never before the announcement is due
firstWait(delay) ==
  IF Early THEN delay + AnnounceDelay - (second - status.startedAt) ELSE delay

UpdateOperationProgressDelayed(o, text) ==
  /\ o = status.token /\ updates[o] < MaxUpdatesPerOp
  /\ status' = [status EXCEPT !.delayID = @ + 1]
  /\ Updated(o)
  /\ timers' = timers \cup {[op |-> o, text |-> text, at |-> second + firstWait(1),
                             id |-> status'.delayID, seen |-> updates'[o]]}
  /\ UNCHANGED <<second, begun, announcers, said, ended>>

CancelOperationDelayedProgress(o) ==
  /\ o = status.token /\ updates[o] < MaxUpdatesPerOp
  /\ status' = [status EXCEPT !.delayID = @ + 1]
  /\ Updated(o)
  /\ UNCHANGED <<second, begun, announcers, timers, said, ended>>

Current(t) == t.op = status.token /\ t.id = status.delayID

emitScheduledOperationProgress ==
  \E t \in timers :
    /\ second >= t.at
    /\ timers' = timers \ {t}
    /\ IF Current(t) /\ ~Repeated(t.text)
       THEN /\ status' = [status EXCEPT !.text = t.text, !.lastKey = t.text,
                                        !.lastAt = second, !.announced = TRUE]
            /\ said' = Say(t.op, t.text, "scheduled", t.seen)
       ELSE UNCHANGED <<status, said>>
    /\ UNCHANGED <<second, begun, announcers, updates, ended>>

-----------------------------------------------------------------------------
(* The end *)

Cleared == NoOp

\* CompleteOperation, FailOperation (with a text) and CancelOperation (without)
finalizeOperation(o, how) ==
  /\ o = status.token
  /\ said' = IF (status.announced \/ second - status.startedAt >= AnnounceDelay) /\ how # "cancel"
             THEN Say(o, how, "final", 0) ELSE said
  /\ status' = Cleared
  /\ ended' = [ended EXCEPT ![o] = how]
  /\ UNCHANGED <<second, begun, announcers, timers, updates>>

SecondPasses ==
  /\ second < MaxSecond /\ second' = second + 1
  /\ UNCHANGED <<status, begun, announcers, timers, said, updates, ended>>

StatusInit ==
  /\ second = 0 /\ status = NoOp /\ begun = 0
  /\ announcers = {} /\ timers = {}
  /\ said = [op |-> 0, text |-> "none", why |-> "none", age |-> 0, id |-> 0, seen |-> 0, ended |-> "no"]
  /\ updates = [o \in Ops |-> 0] /\ ended = [o \in Ops |-> "no"]

StatusNext ==
  \/ BeginOperation \/ AnnouncePendingOperation \/ emitScheduledOperationProgress
  \/ SecondPasses
  \/ \E o \in Ops :
       \/ SuppressPendingOperationAnnouncement(o) \/ CancelOperationDelayedProgress(o)
       \/ \E d \in Descriptions :
            \/ \E throttled, force \in BOOLEAN : updateOperation(o, d, throttled, force)
            \/ UpdateOperationProgressDelayed(o, d)
       \/ \E how \in {"complete", "cancel"} : finalizeOperation(o, how)

StatusSpec == StatusInit /\ [][StatusNext]_statusVars

-----------------------------------------------------------------------------
(* Properties *)

\* The current operation has not ended, and timers and tokens have their types.
StatusTypeOK ==
  /\ status.token \in 0 .. begun /\ begun \in 0 .. MaxOps
  /\ status.token # 0 => ended[status.token] = "no"
  /\ status.token = 0 => status = NoOp
  /\ \A t \in timers : t.op \in Ops /\ t.text \in Descriptions

\* Progress that was scheduled is said only when nothing came after it: no update, no
\* cancellation, no other schedule, no end and no other operation.
NoStaleProgress == said.why = "scheduled" => said.id = said.seen

\* An operation that has ended, or gave its place to another, says nothing more.
SilentAfterEnd == said.ended = "no"

\* Without being told to, an operation says nothing in its first seconds, even when
\* the goroutine of an earlier one wakes up meanwhile.
QuietAtFirst == said.why = "announce" => said.age >= AnnounceDelay

\* What is said about an operation is so at the moment it is decided on.
StatusTrue == NoStaleProgress /\ SilentAfterEnd /\ QuietAtFirst
=============================================================================
