----------------------------- MODULE GameProofs -----------------------------
(***************************************************************************)
(* What happens around the game, for any number of players, votes, dates   *)
(* and operations: a status message never outlives or hides its operation  *)
(* (Status); a vote decides by the votes that stand when it is counted     *)
(* (Votes); the reset schedule is obeyed, and the world that runs is the   *)
(* one that was last asked for (MapCycle).  The components have no         *)
(* variables in common, so each has its own inductive invariant; the last  *)
(* section puts them, the updates (UpdateProofs) and the messages          *)
(* (MessageProofs) side by side.                                           *)
(***************************************************************************)
EXTENDS MCGame, UpdateProofs, MessageProofs, FiniteSetTheorems, SequenceTheorems

-----------------------------------------------------------------------------
(* Status *)

StatusRecords ==
  [token : Nat, text : Descriptions \cup {"none", "begin"}, startedAt : Nat,
   lastKey : Descriptions \cup {"none"}, lastAt : Nat, announced : BOOLEAN,
   suppress : BOOLEAN, delayID : Nat]

\* Every update, schedule and cancellation of an operation has its own number; what is
\* scheduled carries the number it was given.  Operations that have not begun have
\* neither updates nor an end.
StatusInv ==
  /\ StatusTypeOK
  /\ second \in Nat /\ status \in StatusRecords
  /\ updates \in [Ops -> Nat] /\ DOMAIN ended = Ops
  /\ \A a \in announcers : a.op # 0
  /\ \A t \in timers : t.id = t.seen
  /\ status.token # 0 => status.delayID = updates[status.token]
  /\ \A o \in Ops : o > begun => updates[o] = 0 /\ ended[o] = "no"

LEMMA StatusInitInv == StatusInit => StatusInv
<1> SUFFICES ASSUME StatusInit PROVE StatusInv
  OBVIOUS
<1>1. StatusTypeOK
  BY StatusConstants DEF StatusInit, StatusTypeOK, NoOp
<1>2. status \in StatusRecords
  BY DEF StatusInit, NoOp, StatusRecords
<1> QED
  BY <1>1, <1>2 DEF StatusInit, StatusInv, NoOp

\* Nothing is begun or ended: the record of the operation changes, and its updates are
\* counted in it.
LEMMA StatusKept ==
  ASSUME StatusInv, status' \in StatusRecords, status'.token = status.token, status.token # 0,
         UNCHANGED <<second, begun, ended>>,
         \/ UNCHANGED updates /\ status'.delayID = status.delayID
         \/ /\ updates' = [updates EXCEPT ![status.token] = @ + 1]
            /\ status'.delayID = status.delayID + 1,
         \A a \in announcers' : a.op # 0,
         \A t \in timers' : t.op \in Ops /\ t.text \in Descriptions /\ t.id = t.seen
  PROVE  StatusInv'
<1>1. status.token \in Ops /\ status.token \in Nat /\ begun \in Nat
  BY StatusConstants DEF StatusInv, StatusTypeOK, Ops
<1>2. updates' \in [Ops -> Nat]
  BY <1>1 DEF StatusInv
<1>3. StatusTypeOK'
  BY <1>1 DEF StatusInv, StatusTypeOK
<1>4. status'.delayID = updates'[status'.token]
  BY <1>1 DEF StatusInv, StatusRecords
<1>5. \A o \in Ops : o > begun => updates'[o] = 0
  <2>1. status.token <= begun
    BY <1>1 DEF StatusInv, StatusTypeOK
  <2>2. \A o \in Ops : o > begun => updates[o] = 0 /\ o # status.token
    BY <1>1, <2>1 DEF StatusInv, Ops
  <2> QED
    BY <1>1, <2>2 DEF StatusInv
<1> QED
  BY <1>2, <1>3, <1>4, <1>5 DEF StatusInv

LEMMA StatusStep == StatusInv /\ [StatusNext]_statusVars => StatusInv'
<1> SUFFICES ASSUME StatusInv, [StatusNext]_statusVars PROVE StatusInv'
  OBVIOUS
<1>0. /\ StatusTypeOK /\ second \in Nat /\ status \in StatusRecords
      /\ updates \in [Ops -> Nat] /\ DOMAIN ended = Ops
      /\ \A a \in announcers : a.op # 0
      /\ \A t \in timers : t.op \in Ops /\ t.text \in Descriptions /\ t.id = t.seen
      /\ begun \in Nat /\ MaxOps \in Nat
  BY StatusConstants DEF StatusInv, StatusTypeOK
<1>1. CASE BeginOperation
  <2>1. begun' = begun + 1 /\ begun' \in Ops /\ begun' \in Nat \ {0}
    BY <1>0, <1>1 DEF BeginOperation, Ops
  <2>2. /\ status' \in StatusRecords /\ status'.token = begun' /\ status'.delayID = 0
    BY <1>0, <1>1, <2>1 DEF BeginOperation, NoOp, StatusRecords
  <2>3. \A o \in Ops : o > begun => updates[o] = 0 /\ ended[o] = "no"
    BY DEF StatusInv
  <2>4. status.token \in 0 .. begun
    BY <1>0 DEF StatusTypeOK
  <2>5. DOMAIN ended' = Ops /\ \A o \in Ops : o > begun => ended'[o] = "no"
    BY <1>0, <1>1, <2>3, <2>4 DEF BeginOperation, Ops
  <2>6. StatusTypeOK'
    BY <1>0, <1>1, <2>1, <2>2, <2>5 DEF BeginOperation, StatusTypeOK, Ops
  <2>7. \A a \in announcers' : a.op # 0
    BY <1>0, <1>1, <2>1 DEF BeginOperation
  <2>8. \A o \in Ops : o > begun' => updates'[o] = 0 /\ ended'[o] = "no"
    BY <1>0, <1>1, <2>1, <2>3, <2>5 DEF BeginOperation, Ops
  <2>9. status'.delayID = updates'[status'.token]
    BY <1>0, <1>1, <2>1, <2>2, <2>3 DEF BeginOperation
  <2> QED
    BY <1>0, <1>1, <2>2, <2>5, <2>6, <2>7, <2>8, <2>9 DEF BeginOperation, StatusInv
<1>2. ASSUME NEW o \in Ops, SuppressPendingOperationAnnouncement(o) PROVE StatusInv'
  <2>1. status' \in StatusRecords /\ status'.token = status.token
        /\ status'.delayID = status.delayID
    BY <1>0, <1>2 DEF SuppressPendingOperationAnnouncement, StatusRecords
  <2> QED
    BY <1>0, <1>2, <2>1, StatusKept DEF SuppressPendingOperationAnnouncement, Ops
<1>3. CASE AnnouncePendingOperation
  <2>1. PICK a \in announcers :
          /\ announcers' = announcers \ {a}
          /\ IF mayAnnounce(a.op)
             THEN /\ status' = [status EXCEPT !.announced = TRUE]
                  /\ said' = Say(status.token, status.text, "announce", 0)
             ELSE UNCHANGED <<status, said>>
          /\ UNCHANGED <<second, begun, timers, updates, ended>>
    BY <1>3 DEF AnnouncePendingOperation
  <2>2. CASE mayAnnounce(a.op)
    <3>1. status' \in StatusRecords /\ status'.token = status.token
          /\ status'.delayID = status.delayID
      BY <1>0, <2>1, <2>2 DEF StatusRecords
    <3>2. status.token # 0
      BY <1>0, <2>2 DEF mayAnnounce
    <3> QED
      BY <1>0, <2>1, <3>1, <3>2, StatusKept
  <2>3. CASE ~mayAnnounce(a.op)
    BY <1>0, <2>1, <2>3 DEF StatusInv, StatusTypeOK
  <2> QED
    BY <2>2, <2>3
<1>4. ASSUME NEW o \in Ops, NEW d \in Descriptions, NEW throttled \in BOOLEAN,
             NEW force \in BOOLEAN, updateOperation(o, d, throttled, force)
      PROVE  StatusInv'
  <2>1. status' \in StatusRecords /\ status'.token = status.token
        /\ status'.delayID = status.delayID + 1
    <3> DEFINE s == [status EXCEPT !.delayID = NextID(status)]
    <3>1. s \in StatusRecords /\ s.token = status.token /\ s.delayID = status.delayID + 1
      BY <1>0 DEF NextID, StatusRecords
    <3> HIDE DEF s
    <3>2. [s EXCEPT !.text = d] \in StatusRecords
      BY <3>1 DEF StatusRecords
    <3>3. [s EXCEPT !.text = d, !.announced = TRUE,
                    !.lastKey = IF throttled THEN d ELSE @,
                    !.lastAt = IF throttled THEN second ELSE @] \in StatusRecords
      BY <1>0, <3>1 DEF StatusRecords
    <3>4. \/ status' = [s EXCEPT !.text = d]
          \/ status' = s
          \/ status' = [s EXCEPT !.text = d, !.announced = TRUE,
                                 !.lastKey = IF throttled THEN d ELSE @,
                                 !.lastAt = IF throttled THEN second ELSE @]
      BY <1>4 DEF updateOperation, s
    <3> QED
      BY <3>1, <3>2, <3>3, <3>4 DEF StatusRecords
  <2> QED
    BY <1>0, <1>4, <2>1, StatusKept DEF updateOperation, Updated, Ops
<1>5. ASSUME NEW o \in Ops, NEW d \in Descriptions, UpdateOperationProgressDelayed(o, d)
      PROVE  StatusInv'
  <2>1. status' \in StatusRecords /\ status'.token = status.token
        /\ status'.delayID = status.delayID + 1
    BY <1>0, <1>5 DEF UpdateOperationProgressDelayed, StatusRecords
  <2>2. status'.delayID = updates'[o]
    BY <1>0, <1>5, <2>1 DEF UpdateOperationProgressDelayed, Updated, StatusInv, Ops
  <2>3. \A t \in timers' : t.op \in Ops /\ t.text \in Descriptions /\ t.id = t.seen
    BY <1>0, <1>5, <2>2 DEF UpdateOperationProgressDelayed
  <2> QED
    BY <1>0, <1>5, <2>1, <2>3, StatusKept DEF UpdateOperationProgressDelayed, Updated, Ops
<1>6. ASSUME NEW o \in Ops, CancelOperationDelayedProgress(o) PROVE StatusInv'
  <2>1. status' \in StatusRecords /\ status'.token = status.token
        /\ status'.delayID = status.delayID + 1
    BY <1>0, <1>6 DEF CancelOperationDelayedProgress, StatusRecords
  <2> QED
    BY <1>0, <1>6, <2>1, StatusKept DEF CancelOperationDelayedProgress, Updated, Ops
<1>7. CASE emitScheduledOperationProgress
  <2>1. PICK t \in timers :
          /\ timers' = timers \ {t}
          /\ IF Current(t) /\ ~Repeated(t.text)
             THEN /\ status' = [status EXCEPT !.text = t.text, !.lastKey = t.text,
                                              !.lastAt = second, !.announced = TRUE]
                  /\ said' = Say(t.op, t.text, "scheduled", t.seen)
             ELSE UNCHANGED <<status, said>>
          /\ UNCHANGED <<second, begun, announcers, updates, ended>>
    BY <1>7 DEF emitScheduledOperationProgress
  <2>2. CASE Current(t) /\ ~Repeated(t.text)
    <3>1. status' \in StatusRecords /\ status'.token = status.token
          /\ status'.delayID = status.delayID
      BY <1>0, <2>1, <2>2 DEF StatusRecords
    <3> QED
      BY <1>0, <2>1, <2>2, <3>1, StatusKept DEF Current, Ops
  <2>3. CASE ~(Current(t) /\ ~Repeated(t.text))
    BY <1>0, <2>1, <2>3 DEF StatusInv, StatusTypeOK
  <2> QED
    BY <2>2, <2>3
<1>8. ASSUME NEW o \in Ops, NEW how \in {"complete", "cancel"}, finalizeOperation(o, how)
      PROVE  StatusInv'
  <2>1. status' \in StatusRecords /\ status'.token = 0 /\ status' = NoOp
    BY <1>8 DEF finalizeOperation, Cleared, NoOp, StatusRecords
  <2>2. o \in 1 .. begun
    BY <1>0, <1>8 DEF finalizeOperation, StatusTypeOK, Ops
  <2>3. DOMAIN ended' = Ops /\ \A x \in Ops : x > begun => ended'[x] = ended[x]
    BY <1>0, <1>8, <2>2 DEF finalizeOperation, Ops
  <2>4. StatusTypeOK'
    BY <1>0, <1>8, <2>1 DEF finalizeOperation, StatusTypeOK
  <2> QED
    BY <1>0, <1>8, <2>1, <2>3, <2>4 DEF finalizeOperation, StatusInv
<1>9. CASE SecondPasses
  BY <1>0, <1>9 DEF SecondPasses, StatusInv, StatusTypeOK
<1>10. CASE UNCHANGED statusVars
  BY <1>0, <1>10 DEF statusVars, StatusInv, StatusTypeOK
<1> QED
  BY <1>1, <1>2, <1>3, <1>4, <1>5, <1>6, <1>7, <1>8, <1>9, <1>10 DEF StatusNext

\* What is decided on is so at that moment.
LEMMA SaidTrue ==
  StatusInv /\ StatusTrue /\ [StatusNext]_statusVars => StatusTrue'
<1> SUFFICES ASSUME StatusInv, StatusTrue, [StatusNext]_statusVars, said' # said
             PROVE  StatusTrue'
  BY DEF StatusTrue, NoStaleProgress, SilentAfterEnd, QuietAtFirst
<1>1. status.token # 0 => ended[status.token] = "no" /\ status.delayID = updates[status.token]
  BY DEF StatusInv, StatusTypeOK
<1>2. CASE AnnouncePendingOperation
  <2>1. status.token # 0 /\ said' = Say(status.token, status.text, "announce", 0)
        /\ second - status.startedAt >= AnnounceDelay
    BY <1>2 DEF AnnouncePendingOperation, mayAnnounce, StatusInv
  <2> QED
    BY <1>1, <2>1 DEF Say, StatusTrue, NoStaleProgress, SilentAfterEnd, QuietAtFirst
<1>3. CASE emitScheduledOperationProgress
  <2>1. PICK t \in timers : Current(t) /\ said' = Say(t.op, t.text, "scheduled", t.seen)
    BY <1>3 DEF emitScheduledOperationProgress
  <2>2. t.op # 0 /\ t.id = t.seen
    BY StatusConstants DEF StatusInv, StatusTypeOK, Ops
  <2> QED
    BY <1>1, <2>1, <2>2 DEF Current, Say, StatusTrue, NoStaleProgress, SilentAfterEnd, QuietAtFirst
<1>4. ASSUME NEW o \in Ops, NEW text, NEW why \in {"update", "final"},
             o = status.token, said' = Say(o, text, why, 0)
      PROVE  StatusTrue'
  BY <1>1, <1>4 DEF Ops, Say, StatusTrue, NoStaleProgress, SilentAfterEnd, QuietAtFirst
<1>5. ASSUME NEW o \in Ops, NEW d \in Descriptions, NEW throttled \in BOOLEAN,
             NEW force \in BOOLEAN, updateOperation(o, d, throttled, force)
      PROVE  StatusTrue'
  <2>1. o = status.token /\ said' = Say(o, d, "update", 0)
    BY <1>5 DEF updateOperation
  <2> QED
    BY <1>4, <2>1
<1>6. ASSUME NEW o \in Ops, NEW how \in {"complete", "cancel"}, finalizeOperation(o, how)
      PROVE  StatusTrue'
  <2>1. o = status.token /\ said' = Say(o, how, "final", 0)
    BY <1>6 DEF finalizeOperation
  <2> QED
    BY <1>4, <2>1
<1> QED
  BY <1>2, <1>3, <1>5, <1>6
  DEF StatusNext, statusVars, BeginOperation, SuppressPendingOperationAnnouncement,
      UpdateOperationProgressDelayed, CancelOperationDelayedProgress, SecondPasses

\* What is said about an operation is so: it is the current one, nothing came after what
\* was scheduled, and nothing is announced too early (operation_status.go).
THEOREM StatusIsTrue == StatusSpec => []StatusTrue
<1>1. StatusInit => StatusTrue
  BY DEF StatusInit, StatusTrue, NoStaleProgress, SilentAfterEnd, QuietAtFirst
<1> QED
  BY <1>1, StatusInitInv, StatusStep, SaidTrue, PTL DEF StatusSpec

-----------------------------------------------------------------------------
(* Votes *)

VoteRecords ==
  [who : Voters, sel : Selections, at : Nat, voided : BOOLEAN, expired : BOOLEAN,
   changes : Nat, total : Nat]

Ballots == [sel : Selections \cup {"none"}, at : Nat]

OneEach(S) == \A i, j \in DOMAIN S : S[i].who = S[j].who => i = j

\* A vote that is not voided is the last ballot of its user.
LastBallots(S, B) ==
  \A i \in DOMAIN S : ~S[i].voided =>
    B[S[i].who].sel = S[i].sel /\ B[S[i].who].at = S[i].at

\* The box, and what of it is on disk: the process writes the file when it has emptied or
\* voided the box.
BoxInv ==
  /\ tick \in Nat \ {0} /\ last \in Nat /\ last <= tick
  /\ box \in Seq(VoteRecords) /\ OneEach(box)
  /\ ballots \in [Voters -> Ballots] /\ LastBallots(box, ballots)
  /\ voteFile # NoFile =>
       /\ voteFile \in Seq(VoteRecords) /\ OneEach(voteFile)
       /\ \A i \in DOMAIN voteFile : voteFile[i].voided

\* The holder of the lock: a vote that was found is the user's own, or the box is empty.
HoldInv ==
  /\ \/ hold = NoHold
     \/ hold \in [at : {"find"}, who : Voters, sel : Selections]
     \/ hold \in [at : {"write"}, who : Voters, sel : Selections, pos : Nat, changes : BOOLEAN]
     \/ hold \in [at : {"change"}, who : Voters, sel : Selections]
  /\ hold.at = "write" =>
       /\ hold.pos = 0 => ~hold.changes /\ \A i \in DOMAIN box : box[i].who # hold.who
       /\ hold.pos \in DOMAIN box =>
            box[hold.pos].who = hold.who /\ (hold.changes => ~box[hold.pos].voided)

\* A decision is remembered in memory and on disk, and whoever holds the lock to vote has
\* seen the cooldown pass.
DecisionInv ==
  /\ decided.at \in Nat /\ decided.at <= tick
  /\ decided.at # 0 => decided.at <= last /\ voteFile # NoFile
  /\ hold.at \in {"find", "write"} => decided.at = 0 \/ tick - decided.at >= MapCooldown
  /\ decided.points >= VotesNeeded /\ decided.gap >= MapCooldown

VotesInv == BoxInv /\ HoldInv /\ DecisionInv

LEMMA VoteNumbers ==
  /\ VotesNeeded \in Nat /\ MapCooldown \in Nat /\ VoteExpire \in Nat /\ MaxVoteChanges \in Nat
  /\ IsFiniteSet(Voters) /\ Strong \subseteq Voters
  BY VoteConstants

LEMMA CountAnew ==
  ASSUME NEW v \in VoteRecords
  PROVE  [v EXCEPT !.changes = 0] \in VoteRecords
<1> DEFINE n == 0
<1>1. n \in Nat
  OBVIOUS
<1> HIDE DEF n
<1>2. [v EXCEPT !.changes = n] \in VoteRecords
  BY <1>1 DEF VoteRecords
<1> QED
  BY <1>2 DEF n

\* The first pass of the tally leaves voter, selection and time of a vote alone.
LEMMA TallyKeeps ==
  ASSUME NEW S \in Seq(VoteRecords), tick \in Nat
  PROVE  LET T == TallyMapVotes(S) IN
         /\ T \in Seq(VoteRecords) /\ DOMAIN T = DOMAIN S
         /\ \A i \in DOMAIN S : /\ T[i].who = S[i].who /\ T[i].sel = S[i].sel /\ T[i].at = S[i].at
                                /\ T[i].voided = S[i].voided
                                /\ ~T[i].voided /\ ~T[i].expired => tick - T[i].at <= VoteExpire
<1> DEFINE T == TallyMapVotes(S)
<1>1. DOMAIN S = 1 .. Len(S) /\ Len(S) \in Nat /\ DOMAIN T = DOMAIN S
  BY DEF TallyMapVotes
<1>2. ASSUME NEW i \in DOMAIN S
      PROVE  /\ T[i] \in VoteRecords
             /\ T[i].who = S[i].who /\ T[i].sel = S[i].sel /\ T[i].at = S[i].at
             /\ T[i].voided = S[i].voided
             /\ ~T[i].voided /\ ~T[i].expired => tick - T[i].at <= VoteExpire
  <2> DEFINE v == S[i]
  <2>1. v \in VoteRecords
    BY <1>1
  <2>2. T[i] = IF v.voided THEN [v EXCEPT !.changes = 0]
               ELSE IF Stale(v) THEN [v EXCEPT !.expired = TRUE, !.changes = 0] ELSE v
    BY <1>1 DEF TallyMapVotes
  <2> HIDE DEF v, T
  <2>3. CASE v.voided
    <3>1. T[i] = [v EXCEPT !.changes = 0]
      BY <2>2, <2>3
    <3>2. T[i] \in VoteRecords
      BY <2>1, <3>1, CountAnew
    <3>3. /\ T[i].who = v.who /\ T[i].sel = v.sel /\ T[i].at = v.at /\ T[i].voided = v.voided
      BY <2>1, <3>1 DEF VoteRecords
    <3> QED
      BY <2>3, <3>2, <3>3 DEF v
  <2>4. CASE ~v.voided /\ Stale(v)
    <3>1. T[i] = [v EXCEPT !.expired = TRUE, !.changes = 0]
      BY <2>2, <2>4
    <3>2. T[i] \in VoteRecords
      <4> DEFINE w == [v EXCEPT !.expired = TRUE]
      <4>1. w \in VoteRecords
        BY <2>1 DEF VoteRecords
      <4>2. T[i] = [w EXCEPT !.changes = 0]
        BY <2>1, <3>1 DEF VoteRecords
      <4> HIDE DEF w
      <4> QED
        BY <4>1, <4>2, CountAnew
    <3>3. /\ T[i].who = v.who /\ T[i].sel = v.sel /\ T[i].at = v.at /\ T[i].voided = v.voided
      BY <2>1, <3>1 DEF VoteRecords
    <3>4. T[i].expired
      <4>1. "expired" \in DOMAIN v
        BY <2>1 DEF VoteRecords
      <4> QED
        BY <3>1, <4>1
    <3> QED
      BY <3>2, <3>3, <3>4 DEF v
  <2>5. CASE ~v.voided /\ ~Stale(v)
    BY <2>1, <2>2, <2>5, VoteNumbers DEF VoteRecords, Stale, v
  <2> QED
    BY <2>3, <2>4, <2>5
<1>3. T \in Seq(VoteRecords)
  <2>1. T \in [1 .. Len(S) -> VoteRecords]
    BY <1>1, <1>2 DEF TallyMapVotes
  <2> QED
    BY <1>1, <2>1
<1> QED
  BY <1>1, <1>2, <1>3

\* The points of a selection are points of different users whose last ballot is for it.
LEMMA PointsAreBallots ==
  ASSUME NEW S \in Seq(VoteRecords), OneEach(S), NEW B, LastBallots(S, B), NEW s,
         \A i \in DOMAIN S : ~S[i].voided /\ ~S[i].expired => tick - S[i].at <= VoteExpire
  PROVE  /\ Tally(S, s) \in Nat /\ TruePoints(B, s) \in Nat
         /\ Tally(S, s) <= TruePoints(B, s)
<1> DEFINE I  == {i \in DOMAIN S : S[i].sel = s /\ ~S[i].voided /\ ~S[i].expired}
           J  == {i \in I : S[i].who \in Strong}
           V  == {v \in Voters : B[v].sel = s /\ tick - B[v].at <= VoteExpire}
           W  == {v \in V : v \in Strong}
           f  == [i \in I |-> S[i].who]
           g  == [i \in J |-> S[i].who]
           h  == [v \in V |-> v]
<1>1. Tally(S, s) = Cardinality(I) + Cardinality(J)
  <2>1. DOMAIN f = I /\ {i \in I : f[i] \in Strong} = J
    OBVIOUS
  <2>2. Tally(S, s) = Points(f)
    BY Zenon DEF Tally
  <2> QED
    BY <2>1, <2>2, Zenon DEF Points
<1>2. TruePoints(B, s) = Cardinality(V) + Cardinality(W)
  <2>1. DOMAIN h = V /\ {v \in V : h[v] \in Strong} = W
    OBVIOUS
  <2>2. TruePoints(B, s) = Points(h)
    BY Zenon DEF TruePoints
  <2> QED
    BY <2>1, <2>2, Zenon DEF Points
<1>3. \A i \in DOMAIN S : S[i].who \in Voters
  <2>1. \A i \in DOMAIN S : S[i] \in VoteRecords
    OBVIOUS
  <2> QED
    BY <2>1 DEF VoteRecords
<1>4. \A i \in I : S[i].who \in V
  BY <1>3 DEF LastBallots
<1>5. f \in Injection(I, V) /\ g \in Injection(J, W)
  BY <1>4 DEF Injection, IsInjective, OneEach
<1>6. IsFiniteSet(V) /\ IsFiniteSet(W)
  BY VoteNumbers, FS_Subset
<1> HIDE DEF I, J, V, W, f, g
<1>7. /\ IsFiniteSet(I) /\ Cardinality(I) <= Cardinality(V)
      /\ IsFiniteSet(J) /\ Cardinality(J) <= Cardinality(W)
  BY <1>5, <1>6, FS_Injection
<1>8. /\ Cardinality(I) \in Nat /\ Cardinality(J) \in Nat
      /\ Cardinality(V) \in Nat /\ Cardinality(W) \in Nat
  BY <1>6, <1>7, FS_CardinalityType
<1> QED
  BY <1>1, <1>2, <1>7, <1>8

LEMMA NoFileIsNone ==
  /\ <<>> # NoFile /\ \A S \in Seq(VoteRecords) : S # NoFile
<1>1. NoBallot \notin VoteRecords
  BY DEF NoBallot, VoteRecords
<1>2. Len(NoFile) = 1 /\ NoFile[1] = NoBallot
  BY DEF NoFile
<1>3. ASSUME NEW S \in Seq(VoteRecords), S = NoFile PROVE FALSE
  <2>1. S[1] \in VoteRecords
    BY <1>2, <1>3
  <2> QED
    BY <1>1, <1>2, <1>3, <2>1
<1>4. <<>> \in Seq(VoteRecords)
  OBVIOUS
<1> QED
  BY <1>3, <1>4

LEMMA NoBallotsType == NoBallots \in [Voters -> Ballots]
  BY DEF NoBallots, NoBallot, Ballots

\* An empty box.
LEMMA EmptyBox ==
  /\ <<>> \in Seq(VoteRecords) /\ OneEach(<<>>) /\ \A B : LastBallots(<<>>, B)
  /\ \A i \in DOMAIN <<>> : FALSE
  BY DEF OneEach, LastBallots

LEMMA NoHoldAt == NoHold.at = "free"
  BY DEF NoHold

\* The holder of the lock, by what it is doing.
LEMMA HoldKinds ==
  ASSUME HoldInv
  PROVE  /\ hold.at = "find" => hold.who \in Voters /\ hold.sel \in Selections
         /\ hold.at = "write" => /\ hold.who \in Voters /\ hold.sel \in Selections
                                 /\ hold.pos \in Nat /\ hold.changes \in BOOLEAN
  BY NoHoldAt DEF HoldInv

\* What is written: the vote has the place it was found at, or a new one at the end.
LEMMA RecordedVote ==
  ASSUME BoxInv, HoldInv, hold.at = "write", hold.pos <= Len(box)
  PROVE  LET B == [ballots EXCEPT ![hold.who] = [sel |-> hold.sel, at |-> tick]] IN
         /\ Recorded \in Seq(VoteRecords) /\ OneEach(Recorded)
         /\ B \in [Voters -> Ballots] /\ LastBallots(Recorded, B)
<1> DEFINE R == Recorded
           b == [sel |-> hold.sel, at |-> tick]
           B == [ballots EXCEPT ![hold.who] = b]
<1>0. /\ hold.who \in Voters /\ hold.sel \in Selections /\ hold.pos \in Nat
      /\ hold.changes \in BOOLEAN /\ tick \in Nat /\ box \in Seq(VoteRecords)
  BY HoldKinds DEF BoxInv
<1>1. b \in Ballots /\ b.sel = hold.sel /\ b.at = tick
  BY <1>0 DEF Ballots
<1> HIDE DEF b
<1>2. /\ B \in [Voters -> Ballots] /\ B[hold.who] = b
      /\ \A v \in Voters : v # hold.who => B[v] = ballots[v]
  BY <1>0, <1>1 DEF BoxInv
<1> HIDE DEF B
<1>3. \A n \in {0, 1} : /\ NewVote(n) \in VoteRecords
                        /\ NewVote(n).who = hold.who /\ NewVote(n).sel = hold.sel
                        /\ NewVote(n).at = tick
  BY <1>0 DEF NewVote, VoteRecords
<1>4. /\ DOMAIN box = 1 .. Len(box) /\ Len(box) \in Nat
      /\ \A i \in DOMAIN box : box[i] \in VoteRecords /\ box[i].who \in Voters
  <2>1. DOMAIN box = 1 .. Len(box) /\ Len(box) \in Nat /\ \A i \in DOMAIN box : box[i] \in VoteRecords
    BY <1>0
  <2> QED
    BY <2>1 DEF VoteRecords
<1>5. CASE hold.pos = 0
  <2> DEFINE v == NewVote(0)
  <2>1. R = Append(box, v)
    BY <1>0, <1>5 DEF HoldInv, Recorded
  <2>2. v \in VoteRecords /\ v.who = hold.who /\ v.sel = hold.sel /\ v.at = tick
    BY <1>3
  <2> HIDE DEF v, R
  <2>3. /\ R \in Seq(VoteRecords) /\ DOMAIN R = 1 .. Len(box) + 1
        /\ R[Len(box) + 1] = v /\ \A i \in 1 .. Len(box) : R[i] = box[i]
    BY <1>0, <2>1, <2>2
  <2>4. \A i \in DOMAIN box : box[i].who # hold.who
    BY <1>5 DEF HoldInv
  <2>5. \A i \in DOMAIN R : i \in DOMAIN box \/ i = Len(box) + 1
    BY <1>4, <2>3
  <2>6. OneEach(R)
    BY <1>4, <2>2, <2>3, <2>4, <2>5 DEF BoxInv, OneEach
  <2>7. LastBallots(R, B)
    BY <1>1, <1>2, <1>4, <2>2, <2>3, <2>4, <2>5 DEF BoxInv, LastBallots
  <2> QED
    BY <1>2, <2>3, <2>6, <2>7 DEF R, B, b
<1>6. CASE hold.pos # 0
  <2> DEFINE p == hold.pos
             e == [box[p] EXCEPT !.sel = hold.sel, !.at = tick, !.expired = FALSE,
                                 !.changes = @ + 1, !.total = @ + 1]
             v == IF hold.changes THEN e ELSE NewVote(1)
  <2>1. p \in DOMAIN box /\ box[p].who = hold.who
    BY <1>0, <1>4, <1>6 DEF HoldInv
  <2>2. R = [box EXCEPT ![p] = v]
    BY <1>0, <1>4, <1>6, <2>1 DEF Recorded
  <2>3. /\ e \in VoteRecords /\ e.who = hold.who /\ e.sel = hold.sel /\ e.at = tick
    <3> DEFINE x == box[p]
    <3>1. x \in VoteRecords /\ x.who = hold.who
      BY <1>4, <2>1
    <3> HIDE DEF x
    <3> DEFINE c == x.changes + 1
               n == x.total + 1
               f == FALSE
               y == [x EXCEPT !.sel = hold.sel, !.at = tick, !.expired = f, !.changes = c, !.total = n]
    <3>2. e = y
      BY <3>1 DEF VoteRecords, x
    <3>3. c \in Nat /\ n \in Nat /\ f \in BOOLEAN
      BY <3>1 DEF VoteRecords
    <3> HIDE DEF c, n, f
    <3>4. y \in VoteRecords /\ y.who = x.who /\ y.sel = hold.sel /\ y.at = tick
      BY <1>0, <3>1, <3>3 DEF VoteRecords
    <3> HIDE DEF e, y
    <3> QED
      BY <3>1, <3>2, <3>4
  <2>4. v \in VoteRecords /\ v.who = hold.who /\ v.sel = hold.sel /\ v.at = tick
    BY <1>3, <2>3
  <2> HIDE DEF v, e, R
  <2>5. /\ R \in Seq(VoteRecords) /\ DOMAIN R = DOMAIN box
        /\ R[p] = v /\ \A i \in DOMAIN box : i # p => R[i] = box[i]
    BY <1>0, <2>1, <2>2, <2>4
  <2>6. \A i \in DOMAIN R : R[i].who = box[i].who
    BY <2>1, <2>4, <2>5
  <2>7. OneEach(R)
    BY <2>5, <2>6 DEF BoxInv, OneEach
  <2>8. \A i \in DOMAIN box : i # p => box[i].who # hold.who
    BY <2>1 DEF BoxInv, OneEach
  <2>9. LastBallots(R, B)
    BY <1>1, <1>2, <1>4, <2>4, <2>5, <2>8 DEF BoxInv, LastBallots
  <2> QED
    BY <1>2, <2>5, <2>7, <2>9 DEF R, B, b
<1> QED
  BY <1>5, <1>6

\* The tally of a sound box is one.
LEMMA TallyInv ==
  ASSUME NEW S \in Seq(VoteRecords), OneEach(S), NEW B, LastBallots(S, B), tick \in Nat
  PROVE  LET T == TallyMapVotes(S) IN OneEach(T) /\ LastBallots(T, B)
<1> DEFINE T == TallyMapVotes(S)
<1>1. /\ DOMAIN T = DOMAIN S
      /\ \A i \in DOMAIN S : /\ T[i].who = S[i].who /\ T[i].sel = S[i].sel /\ T[i].at = S[i].at
                             /\ T[i].voided = S[i].voided
  BY TallyKeeps
<1> HIDE DEF T
<1>2. OneEach(T) /\ LastBallots(T, B)
  BY <1>1 DEF OneEach, LastBallots
<1> QED
  BY <1>2 DEF T

LEMMA FindVoteInv == ASSUME VotesInv, FindVote PROVE VotesInv'
<1>0. /\ BoxInv /\ HoldInv /\ DecisionInv /\ hold.at = "find" /\ tick \in Nat
      /\ hold.who \in Voters /\ hold.sel \in Selections
      /\ UNCHANGED <<tick, last, voteFile, ballots, decided>> /\ box' = TallyMapVotes(box)
  BY HoldKinds DEF VotesInv, FindVote, BoxInv
<1>1. /\ box' \in Seq(VoteRecords) /\ DOMAIN box' = DOMAIN box
      /\ OneEach(box') /\ LastBallots(box', ballots)
  BY <1>0, TallyKeeps, TallyInv DEF BoxInv
<1>2. BoxInv'
  BY <1>0, <1>1 DEF BoxInv
<1>3. DOMAIN box' = 1 .. Len(box') /\ Len(box') \in Nat
  BY <1>1
<1>4. HoldInv'
  <2> DEFINE P == Position(box', hold.who)
             w(i, c) == [at |-> "write", who |-> hold.who, sel |-> hold.sel, pos |-> i, changes |-> c]
  <2>1. \A i \in Nat, c \in BOOLEAN :
          /\ w(i, c) \in [at : {"write"}, who : Voters, sel : Selections, pos : Nat, changes : BOOLEAN]
          /\ w(i, c).at = "write" /\ w(i, c).who = hold.who /\ w(i, c).pos = i /\ w(i, c).changes = c
    BY <1>0
  <2>2. CASE P = {} /\ hold' = w(0, FALSE)
    <3>1. \A i \in DOMAIN box' : box'[i].who # hold.who
      BY <2>2 DEF Position
    <3>2. 0 \notin DOMAIN box'
      BY <1>3
    <3> HIDE DEF w
    <3>3. hold'.pos = 0 /\ ~hold'.changes /\ hold'.who = hold.who
      BY <2>1, <2>2
    <3> QED
      BY <2>1, <2>2, <3>1, <3>2, <3>3 DEF HoldInv
  <2>3. ASSUME NEW i \in P, hold' = w(i, Changes(box'[i], hold.sel)) PROVE HoldInv'
    <3> DEFINE c == Changes(box'[i], hold.sel)
    <3>1. i \in DOMAIN box' /\ i \in Nat /\ i # 0 /\ box'[i].who = hold.who
      BY <1>3 DEF Position
    <3>2. c \in BOOLEAN /\ (c => ~box'[i].voided)
      BY DEF Changes
    <3> HIDE DEF w, c
    <3>3. hold' = w(i, c)
      BY <2>3 DEF c
    <3> QED
      BY <2>1, <3>1, <3>2, <3>3 DEF HoldInv
  <2>4. CASE hold' = NoHold
    BY <2>4, NoHoldAt DEF HoldInv
  <2> QED
    BY <1>0, <2>2, <2>3, <2>4 DEF FindVote
<1>5. DecisionInv'
  <2>1. hold'.at \in {"free", "write"}
    BY NoHoldAt DEF FindVote
  <2> QED
    BY <1>0, <2>1 DEF DecisionInv
<1> QED
  BY <1>2, <1>4, <1>5 DEF VotesInv

LEMMA WriteVoteInv == ASSUME VotesInv, WriteVote PROVE VotesInv'
<1> DEFINE S == TallyMapVotes(Recorded)
           B == [ballots EXCEPT ![hold.who] = [sel |-> hold.sel, at |-> tick]]
<1>0. /\ BoxInv /\ HoldInv /\ DecisionInv /\ hold.at = "write" /\ hold.pos <= Len(box)
      /\ tick \in Nat \ {0} /\ tick' = tick
  BY DEF VotesInv, WriteVote, BoxInv
<1>1. /\ Recorded \in Seq(VoteRecords) /\ OneEach(Recorded)
      /\ B \in [Voters -> Ballots] /\ LastBallots(Recorded, B)
  BY <1>0, RecordedVote
<1>2. /\ S \in Seq(VoteRecords) /\ OneEach(S) /\ LastBallots(S, B)
      /\ \A i \in DOMAIN S : ~S[i].voided /\ ~S[i].expired => tick - S[i].at <= VoteExpire
  BY <1>0, <1>1, TallyKeeps, TallyInv
<1>3. CASE Winners(S) = {}
  <2>1. /\ box' = S /\ ballots' = B /\ hold' = NoHold /\ UNCHANGED <<tick, last, voteFile, decided>>
    BY <1>3 DEF WriteVote
  <2> HIDE DEF S, B
  <2>2. BoxInv'
    BY <1>0, <1>1, <1>2, <2>1 DEF BoxInv
  <2>3. HoldInv' /\ DecisionInv'
    BY <1>0, <2>1, NoHoldAt DEF HoldInv, DecisionInv
  <2> QED
    BY <2>2, <2>3 DEF VotesInv
<1>4. CASE Winners(S) # {}
  <2>1. PICK s \in Winners(S) :
          /\ last' = tick /\ box' = Emptied(S) /\ voteFile' = box' /\ ballots' = NoBallots
          /\ decided' = [at |-> tick, points |-> TruePoints(B, s),
                         gap |-> IF decided.at = 0 THEN MapCooldown ELSE tick - decided.at]
          /\ hold' = [at |-> "change", who |-> hold.who, sel |-> s]
    BY <1>4, Zenon DEF WriteVote
  <2>2. s \in Selections /\ TruePoints(B, s) >= VotesNeeded
    <3>1. s \in Selections /\ Tally(S, s) >= VotesNeeded
      BY DEF Winners
    <3> HIDE DEF S, B
    <3> QED
      BY <1>2, <3>1, PointsAreBallots, VoteNumbers
  <2>3. box' = <<>> /\ voteFile' = <<>>
    BY <2>1 DEF Emptied
  <2>4. BoxInv'
    BY <1>0, <2>1, <2>3, EmptyBox, NoBallotsType DEF BoxInv
  <2>5. HoldInv'
    <3>1. hold' \in [at : {"change"}, who : Voters, sel : Selections]
      BY <1>0, <2>1, <2>2, HoldKinds
    <3> QED
      BY <2>1, <3>1 DEF HoldInv
  <2>6. DecisionInv'
    <3>1. decided.at = 0 \/ tick - decided.at >= MapCooldown
      BY <1>0 DEF DecisionInv
    <3>2. /\ decided'.at = tick /\ decided'.points >= VotesNeeded
          /\ decided'.gap >= MapCooldown
      BY <1>0, <2>1, <2>2, <3>1, VoteNumbers
    <3> QED
      BY <1>0, <2>1, <2>3, <3>2, NoFileIsNone DEF DecisionInv
  <2> QED
    BY <2>4, <2>5, <2>6 DEF VotesInv
<1> QED
  BY <1>3, <1>4

\* What empties or voids the box, with or without the lock.
LEMMA VoidInv ==
  ASSUME VotesInv, EraseAll \/ VoidAll \/ VoidAllVotes PROVE VotesInv'
<1>0. /\ BoxInv /\ HoldInv /\ DecisionInv /\ tick \in Nat \ {0} /\ last \in Nat
      /\ tick' = tick /\ last' \in {last, tick} /\ decided' = decided /\ hold' = hold
      /\ ballots' = NoBallots
  BY DEF VotesInv, BoxInv, EraseAll, VoidAll, VoidAllVotes
<1>1. CASE EraseAll \/ VoidAllVotes
  <2>1. box' = <<>> /\ voteFile' = <<>>
    BY <1>1 DEF EraseAll, VoidAllVotes
  <2>2. BoxInv'
    BY <1>0, <2>1, EmptyBox, NoBallotsType DEF BoxInv
  <2>3. HoldInv'
    BY <1>0, <2>1, EmptyBox DEF HoldInv
  <2>4. DecisionInv'
    BY <1>0, <2>1, NoFileIsNone DEF DecisionInv
  <2> QED
    BY <2>2, <2>3, <2>4 DEF VotesInv
<1>2. CASE VoidAll
  <2> DEFINE S == [i \in DOMAIN box |-> [box[i] EXCEPT !.voided = TRUE]]
  <2>1. box' = TallyMapVotes(S) /\ voteFile' = box' /\ hold = NoHold
    BY <1>2 DEF VoidAll
  <2>2. /\ DOMAIN box = 1 .. Len(box) /\ Len(box) \in Nat
        /\ \A i \in DOMAIN box : box[i] \in VoteRecords
    BY <1>0 DEF BoxInv
  <2>3. \A i \in DOMAIN box : S[i] \in VoteRecords /\ S[i].who = box[i].who /\ S[i].voided
    <3> SUFFICES ASSUME NEW i \in DOMAIN box
                 PROVE  S[i] \in VoteRecords /\ S[i].who = box[i].who /\ S[i].voided
      OBVIOUS
    <3> DEFINE x == box[i]
    <3>1. x \in VoteRecords /\ "voided" \in DOMAIN x
      BY <2>2 DEF VoteRecords
    <3>2. S[i] = [x EXCEPT !.voided = TRUE]
      OBVIOUS
    <3> HIDE DEF x, S
    <3>3. S[i] \in VoteRecords
      BY <3>1, <3>2 DEF VoteRecords
    <3>4. S[i].who = x.who
      BY <3>1, <3>2
    <3>5. S[i].voided
      BY <3>1, <3>2
    <3> QED
      BY <3>3, <3>4, <3>5 DEF x
  <2>4. S \in Seq(VoteRecords) /\ DOMAIN S = DOMAIN box
    <3>1. S \in [1 .. Len(box) -> VoteRecords]
      BY <2>2, <2>3
    <3> QED
      BY <2>2, <3>1
  <2> HIDE DEF S
  <2>5. OneEach(S) /\ LastBallots(S, NoBallots)
    BY <1>0, <2>3, <2>4 DEF BoxInv, OneEach, LastBallots
  <2>6. /\ box' \in Seq(VoteRecords) /\ OneEach(box') /\ LastBallots(box', NoBallots)
        /\ \A i \in DOMAIN box' : box'[i].voided
    <3>1. /\ box' \in Seq(VoteRecords) /\ OneEach(box') /\ LastBallots(box', NoBallots)
      BY <1>0, <2>1, <2>4, <2>5, TallyKeeps, TallyInv
    <3>2. DOMAIN box' = DOMAIN S /\ \A i \in DOMAIN S : box'[i].voided = S[i].voided
      BY <1>0, <2>1, <2>4, TallyKeeps
    <3> QED
      BY <2>3, <2>4, <3>1, <3>2
  <2>7. BoxInv'
    BY <1>0, <2>1, <2>6, NoBallotsType DEF BoxInv
  <2>8. HoldInv' /\ DecisionInv'
    BY <1>0, <2>1, <2>6, NoHoldAt, NoFileIsNone DEF HoldInv, DecisionInv
  <2> QED
    BY <2>7, <2>8 DEF VotesInv
<1> QED
  BY <1>1, <1>2

LEMMA VotesStep == VotesInv /\ [VotesNext]_voteVars => VotesInv'
<1> SUFFICES ASSUME VotesInv, [VotesNext]_voteVars PROVE VotesInv'
  OBVIOUS
<1>0. BoxInv /\ HoldInv /\ DecisionInv /\ tick \in Nat \ {0} /\ last \in Nat /\ last <= tick
  BY DEF VotesInv, BoxInv
<1>1. ASSUME NEW v \in Voters, NEW s \in Selections, CheckVote(v, s) PROVE VotesInv'
  <2>1. /\ hold' \in [at : {"find"}, who : Voters, sel : Selections] /\ hold'.at = "find"
        /\ UNCHANGED <<tick, box, last, voteFile, ballots, decided>>
    BY <1>1 DEF CheckVote
  <2>2. decided.at = 0 \/ tick - decided.at >= MapCooldown
    BY <1>0, <1>1, VoteNumbers DEF CheckVote, Cooling, DecisionInv
  <2>3. BoxInv' /\ HoldInv' /\ DecisionInv'
    BY <1>0, <2>1, <2>2 DEF BoxInv, HoldInv, DecisionInv
  <2> QED
    BY <2>3 DEF VotesInv
<1>2. CASE ChangeDone
  <2>1. hold' = NoHold /\ UNCHANGED <<tick, box, last, voteFile, ballots, decided>>
    BY <1>2 DEF ChangeDone
  <2>2. BoxInv' /\ HoldInv' /\ DecisionInv'
    BY <1>0, <2>1, NoHoldAt DEF BoxInv, HoldInv, DecisionInv
  <2> QED
    BY <2>2 DEF VotesInv
<1>3. CASE ReadVotes
  <2>1. /\ hold' = NoHold /\ ballots' = NoBallots /\ UNCHANGED <<tick, voteFile, decided>>
        /\ box' = IF voteFile = NoFile THEN <<>> ELSE voteFile
        /\ last' = IF voteFile = NoFile THEN 0 ELSE tick
    BY <1>3 DEF ReadVotes
  <2>2. BoxInv'
    <3>1. CASE voteFile = NoFile
      BY <1>0, <2>1, <3>1, EmptyBox, NoBallotsType DEF BoxInv
    <3>2. CASE voteFile # NoFile
      BY <1>0, <2>1, <3>2, NoBallotsType DEF BoxInv, LastBallots
    <3> QED
      BY <3>1, <3>2
  <2>3. HoldInv' /\ DecisionInv'
    BY <1>0, <2>1, NoHoldAt DEF HoldInv, DecisionInv
  <2> QED
    BY <2>2, <2>3 DEF VotesInv
<1>4. CASE VoteTick
  <2>1. tick' = tick + 1 /\ UNCHANGED <<box, last, voteFile, hold, ballots, decided>>
    BY <1>4 DEF VoteTick
  <2>2. BoxInv' /\ HoldInv'
    BY <1>0, <2>1 DEF BoxInv, HoldInv
  <2>3. DecisionInv'
    BY <1>0, <2>1, VoteNumbers DEF DecisionInv
  <2> QED
    BY <2>2, <2>3 DEF VotesInv
<1>5. CASE UNCHANGED voteVars
  BY <1>5 DEF voteVars, VotesInv, BoxInv, HoldInv, DecisionInv
<1> QED
  BY <1>1, <1>2, <1>3, <1>4, <1>5, FindVoteInv, WriteVoteInv, VoidInv DEF VotesNext

LEMMA VotesInitInv == VotesInit => VotesInv
<1> SUFFICES ASSUME VotesInit PROVE VotesInv
  OBVIOUS
<1>1. BoxInv
  BY EmptyBox, NoBallotsType DEF VotesInit, BoxInv
<1>2. HoldInv /\ DecisionInv
  BY NoHoldAt, VoteNumbers DEF VotesInit, HoldInv, DecisionInv
<1> QED
  BY <1>1, <1>2 DEF VotesInv

\* A map change is decided by enough points of different users whose last vote is for it,
\* and a cooldown after the one before, whatever empties the box or restarts the process
\* meanwhile (CheckVote, TallyMapVotes, VoidAllVotes, ReadVotes).
THEOREM VotesAreFair == VotesSpec => []VotesDecide
<1>1. VotesInv => VotesDecide
  BY DEF VotesInv, BoxInv, DecisionInv, VotesDecide, OneVoteEach, OneEach, DecidedByVotes,
         ChangesApart
<1> QED
  BY <1>1, VotesInitInv, VotesStep, PTL DEF VotesSpec

\* No vote in the box or on disk was changed too often, and the one that is being changed
\* may be changed once more.
Limited(S) == \A i \in DOMAIN S : S[i].changes <= MaxVoteChanges

VoteLimits ==
  /\ tick <= MaxTicks /\ Limited(box) /\ (voteFile # NoFile => Limited(voteFile))
  /\ hold.at = "write" /\ hold.pos \in DOMAIN box /\ hold.changes =>
       box[hold.pos].changes < MaxVoteChanges

LEMMA TallyLimits ==
  ASSUME NEW S \in Seq(VoteRecords), Limited(S)
  PROVE  Limited(TallyMapVotes(S))
<1> DEFINE T == TallyMapVotes(S)
<1>1. DOMAIN T = DOMAIN S
  BY DEF TallyMapVotes
<1>2. ASSUME NEW i \in DOMAIN S PROVE T[i].changes <= MaxVoteChanges
  <2> DEFINE v == S[i]
  <2>1. v \in VoteRecords /\ v.changes <= MaxVoteChanges
    BY DEF Limited
  <2>2. T[i] = IF v.voided THEN [v EXCEPT !.changes = 0]
               ELSE IF Stale(v) THEN [v EXCEPT !.expired = TRUE, !.changes = 0] ELSE v
    BY DEF TallyMapVotes
  <2> HIDE DEF v, T
  <2>3. "changes" \in DOMAIN v
    BY <2>1 DEF VoteRecords
  <2>4. T[i].changes = 0 \/ T[i] = v
    BY <2>2, <2>3
  <2> QED
    BY <2>1, <2>4, VoteNumbers
<1> QED
  BY <1>1, <1>2 DEF Limited

LEMMA RecordedLimits ==
  ASSUME BoxInv, HoldInv, VoteLimits, hold.at = "write", hold.pos <= Len(box)
  PROVE  Limited(Recorded)
<1>0. /\ hold.pos \in Nat /\ hold.changes \in BOOLEAN /\ box \in Seq(VoteRecords)
      /\ DOMAIN box = 1 .. Len(box) /\ Len(box) \in Nat
  BY HoldKinds DEF BoxInv
<1>1. \A n : NewVote(n).changes <= MaxVoteChanges
  BY VoteNumbers DEF NewVote
<1>2. CASE hold.pos = 0
  <2> DEFINE v == NewVote(0)
  <2>1. Recorded = Append(box, v)
    BY <1>0, <1>2 DEF HoldInv, Recorded
  <2>2. v.changes <= MaxVoteChanges
    BY <1>1
  <2> HIDE DEF v
  <2>3. \A i \in DOMAIN Recorded : (i \in DOMAIN box /\ Recorded[i] = box[i]) \/ Recorded[i] = v
    BY <1>0, <2>1
  <2> QED
    BY <2>2, <2>3 DEF VoteLimits, Limited
<1>3. CASE hold.pos # 0
  <2> DEFINE p == hold.pos
             e == [box[p] EXCEPT !.sel = hold.sel, !.at = tick, !.expired = FALSE,
                                 !.changes = @ + 1, !.total = @ + 1]
             v == IF hold.changes THEN e ELSE NewVote(1)
  <2>1. p \in DOMAIN box
    BY <1>0, <1>3
  <2>2. Recorded = [box EXCEPT ![p] = v]
    BY <1>0, <1>3, <2>1 DEF Recorded
  <2>3. hold.changes => e.changes <= MaxVoteChanges
    <3> SUFFICES ASSUME hold.changes PROVE e.changes <= MaxVoteChanges
      OBVIOUS
    <3> DEFINE x == box[p]
               c == x.changes + 1
    <3>1. x \in VoteRecords /\ x.changes < MaxVoteChanges
      BY <1>0, <2>1 DEF VoteLimits
    <3>2. "changes" \in DOMAIN x /\ x.changes \in Nat
      BY <3>1 DEF VoteRecords
    <3>3. e = [x EXCEPT !.sel = hold.sel, !.at = tick, !.expired = FALSE,
                        !.changes = c, !.total = x.total + 1]
      BY <3>1 DEF VoteRecords
    <3>4. c <= MaxVoteChanges
      BY <3>1, <3>2, VoteNumbers
    <3> HIDE DEF x, c, e
    <3>5. e.changes = c
      BY <3>2, <3>3
    <3> QED
      BY <3>4, <3>5
  <2>4. v.changes <= MaxVoteChanges
    BY <1>1, <2>3
  <2> HIDE DEF v, e
  <2>5. \A i \in DOMAIN Recorded : (i \in DOMAIN box /\ Recorded[i] = box[i]) \/ Recorded[i] = v
    BY <1>0, <2>1, <2>2
  <2> QED
    BY <2>4, <2>5 DEF VoteLimits, Limited
<1> QED
  BY <1>2, <1>3

LEMMA LimitsStep == VotesInv /\ VoteLimits /\ [VotesNext]_voteVars => VoteLimits'
<1> SUFFICES ASSUME VotesInv, VoteLimits, [VotesNext]_voteVars PROVE VoteLimits'
  OBVIOUS
<1>0. /\ BoxInv /\ HoldInv /\ tick \in Nat /\ box \in Seq(VoteRecords)
      /\ tick <= MaxTicks /\ Limited(box) /\ Limited(TallyMapVotes(box)) /\ MaxTicks \in Nat
      /\ voteFile # NoFile => Limited(voteFile)
  BY TallyLimits, VoteConstants DEF VotesInv, BoxInv, VoteLimits
<1>1. Limited(<<>>)
  BY DEF Limited
<1>2. ASSUME NEW v \in Voters, NEW s \in Selections, CheckVote(v, s) PROVE VoteLimits'
  BY <1>0, <1>2 DEF CheckVote, VoteLimits
<1>3. CASE FindVote
  <2>1. /\ UNCHANGED <<tick, voteFile>> /\ Limited(box')
        /\ \A i \in DOMAIN box' : Changes(box'[i], hold.sel) => box'[i].changes < MaxVoteChanges
    BY <1>0, <1>3 DEF FindVote, Changes
  <2>2. hold'.at = "write" /\ hold'.changes => Changes(box'[hold'.pos], hold.sel)
    <3> DEFINE w(i, c) == [at |-> "write", who |-> hold.who, sel |-> hold.sel, pos |-> i, changes |-> c]
    <3>1. \A i, c : w(i, c).pos = i /\ w(i, c).changes = c
      OBVIOUS
    <3>2. \/ hold' = w(0, FALSE) \/ hold' = NoHold
          \/ \E i \in DOMAIN box' : hold' = w(i, Changes(box'[i], hold.sel))
      BY <1>3 DEF FindVote, Position
    <3> HIDE DEF w
    <3>3. hold' = w(0, FALSE) \/ hold' = NoHold => ~(hold'.at = "write" /\ hold'.changes)
      BY <3>1, NoHoldAt
    <3>4. ASSUME NEW i \in DOMAIN box', hold' = w(i, Changes(box'[i], hold.sel)), hold'.changes
          PROVE  Changes(box'[hold'.pos], hold.sel)
      BY <3>1, <3>4
    <3> QED
      BY <3>2, <3>3, <3>4, Zenon
  <2> QED
    BY <1>0, <2>1, <2>2 DEF VoteLimits
<1>4. CASE WriteVote
  <2>1. Limited(TallyMapVotes(Recorded))
    BY <1>0, <1>4, RecordedVote, RecordedLimits, TallyLimits DEF WriteVote
  <2>2. CASE Winners(TallyMapVotes(Recorded)) = {}
    <3>1. /\ box' = TallyMapVotes(Recorded) /\ hold' = NoHold /\ UNCHANGED <<tick, voteFile>>
      BY <1>4, <2>2 DEF WriteVote
    <3> QED
      BY <1>0, <2>1, <3>1, NoHoldAt DEF VoteLimits
  <2>3. CASE Winners(TallyMapVotes(Recorded)) # {}
    <3>1. box' = <<>> /\ voteFile' = <<>> /\ hold'.at = "change" /\ UNCHANGED tick
      BY <1>4, <2>3 DEF WriteVote, Emptied
    <3> QED
      BY <1>0, <1>1, <3>1 DEF VoteLimits
  <2> QED
    BY <2>2, <2>3
<1>5. CASE EraseAll \/ VoidAllVotes
  <2>1. box' = <<>> /\ voteFile' = <<>> /\ DOMAIN box' = {} /\ UNCHANGED <<tick, hold>>
    BY <1>5 DEF EraseAll, VoidAllVotes
  <2> QED
    BY <1>0, <1>1, <2>1 DEF VoteLimits
<1>6. CASE VoidAll
  <2> DEFINE S == [i \in DOMAIN box |-> [box[i] EXCEPT !.voided = TRUE]]
  <2>1. \A i \in DOMAIN box : box[i] \in VoteRecords /\ box[i].changes <= MaxVoteChanges
    BY <1>0 DEF Limited
  <2>2. \A i \in DOMAIN box : S[i] \in VoteRecords /\ S[i].changes = box[i].changes
    <3> SUFFICES ASSUME NEW i \in DOMAIN box
                 PROVE  S[i] \in VoteRecords /\ S[i].changes = box[i].changes
      OBVIOUS
    <3> DEFINE x == box[i]
    <3>1. x \in VoteRecords /\ S[i] = [x EXCEPT !.voided = TRUE]
      BY <2>1
    <3> HIDE DEF x, S
    <3> QED
      BY <3>1 DEF VoteRecords, x
  <2>3. S \in Seq(VoteRecords) /\ DOMAIN S = DOMAIN box
    BY <1>0, <2>2
  <2>4. Limited(TallyMapVotes(S))
    <3> HIDE DEF S
    <3> QED
      BY <2>1, <2>2, <2>3, TallyLimits DEF Limited
  <2>5. box' = TallyMapVotes(S) /\ voteFile' = box' /\ hold' = NoHold /\ tick' = tick
    BY <1>6 DEF VoidAll
  <2> QED
    BY <1>0, <2>4, <2>5, NoHoldAt DEF VoteLimits
<1>7. CASE ChangeDone \/ ReadVotes
  <2>1. hold' = NoHold /\ UNCHANGED <<tick, voteFile>> /\ Limited(box')
    BY <1>0, <1>1, <1>7 DEF ChangeDone, ReadVotes
  <2> QED
    BY <1>0, <2>1, NoHoldAt DEF VoteLimits
<1>8. CASE VoteTick
  BY <1>0, <1>8 DEF VoteTick, VoteLimits
<1>9. CASE UNCHANGED voteVars
  BY <1>9 DEF voteVars, VoteLimits, Limited
<1> QED
  BY <1>2, <1>3, <1>4, <1>5, <1>6, <1>7, <1>8, <1>9 DEF VotesNext

LEMMA LimitsInit == VotesInit => VoteLimits
  BY VoteConstants, NoHoldAt DEF VotesInit, VoteLimits, Limited

LEMMA VotesTyped == VotesInv /\ VoteLimits => VotesTypeOK
<1> SUFFICES ASSUME VotesInv, VoteLimits PROVE VotesTypeOK
  OBVIOUS
<1>1. tick \in 1 .. MaxTicks /\ last \in 0 .. tick
  BY VoteConstants DEF VotesInv, BoxInv, VoteLimits
<1>2. \A i \in DOMAIN box : box[i] \in VoteRecords
  BY DEF VotesInv, BoxInv
<1>3. hold.at \in {"free", "find", "write", "change"}
  BY NoHoldAt DEF VotesInv, HoldInv
<1> QED
  BY <1>1, <1>2, <1>3, VoteNumbers DEF VoteRecords, VoteLimits, Limited, VotesTypeOK

\* The votes keep their types; no vote is changed more often than it may be, also when it
\* was counted, voided, or read from the file in between (CheckVote, TallyMapVotes,
\* ReadVotes).
THEOREM VotesTypeCorrect == VotesSpec => []VotesTypeOK
  BY LimitsInit, VotesInitInv, VotesStep, LimitsStep, VotesTyped, PTL DEF VotesSpec

-----------------------------------------------------------------------------
(* The reset schedule *)

\* A reset hour is used only with intervals of a day or more.
DailyAtLeast == ResetHours \subseteq {0} \/ \A n \in Intervals : n = 0 \/ n >= DayLength

Schedules ==
  [next : Nat, interval : Intervals \cup {0}, hour : ResetHours \cup {0}, skip : BOOLEAN]

FromCron(i) == queue[i].by = "cron"

\* The schedule: a date that had its map is past, and the next one is later.
ScheduleInv ==
  /\ clock \in Nat \ {0} /\ clock <= MaxClock
  /\ schedule \in Schedules
  /\ due \in Nat /\ (due # 0 => due < clock)
  /\ asked \in Nat /\ made \in [1 .. 2 * MaxClock -> Nat]
  /\ \A d \in 1 .. 2 * MaxClock : made[d] # 0 =>
       made[d] = 1 /\ d < clock /\ (schedule.next = 0 \/ d < schedule.next)
  /\ DateKept

\* The requests: at most one is CheckMapReset's, which waits for it, and before its map is
\* recorded its date has had none.
RequestInv ==
  /\ queue \in Seq(Range(queue))
  /\ \A i \in 1 .. Len(queue) :
       queue[i].kind \in {"reset", "change"} /\ "by" \in DOMAIN queue[i]
  /\ "by" \in DOMAIN order
  /\ step \in {"idle", "generate", "install", "commit", "launch"}
  /\ step = "idle" => order = NoOrder
  /\ due = 0 => order.by # "cron" /\ \A i \in 1 .. Len(queue) : ~FromCron(i)
  /\ order.by = "cron" => \A i \in 1 .. Len(queue) : ~FromCron(i)
  /\ \A i, j \in 1 .. Len(queue) : FromCron(i) /\ FromCron(j) => i = j
  /\ due # 0 /\ (order.by # "cron" \/ step # "launch") => made[due] = 0

CronInv == ScheduleInv /\ RequestInv

LEMMA MapNumbers ==
  /\ MaxClock \in Nat \ {0} /\ Window \in Nat /\ DayLength \in Nat \ {0}
  /\ Intervals \subseteq Nat /\ \A h \in ResetHours : h \in Nat
  BY MapConstants

\* The beginning of the day is at most a day ago.
LEMMA DayBegins ==
  ASSUME NEW c \in Nat, NEW d \in Nat \ {0}
  PROVE  (c \div d) * d \in Nat /\ (c \div d) * d + d > c
<1>1. c \div d \in Nat /\ d \in Int /\ d > 0
  OBVIOUS
<1>2. (c \div d) * d + d > c
  BY <1>1
<1>3. ASSUME NEW q \in Nat PROVE q * d \in Nat
  OBVIOUS
<1> QED
  BY <1>1, <1>2, <1>3

LEMMA ScheduleNumbers ==
  ASSUME NEW s \in Schedules
  PROVE  s.next \in Nat /\ s.interval \in Nat /\ s.hour \in Nat
<1>1. s.next \in Nat /\ s.interval \in Intervals \cup {0} /\ s.hour \in ResetHours \cup {0}
  BY DEF Schedules
<1>2. \A n \in Intervals \cup {0} : n \in Nat
  BY MapNumbers
<1>3. \A h \in ResetHours \cup {0} : h \in Nat
  BY MapNumbers
<1> QED
  BY <1>1, <1>2, <1>3

\* A date that is taken off
LEMMA NoDate ==
  ASSUME NEW s \in Schedules
  PROVE  LET t == [s EXCEPT !.next = 0] IN
         t \in Schedules /\ t.interval = s.interval /\ t.next = 0
<1> DEFINE n == 0
<1>1. n \in Nat
  OBVIOUS
<1> HIDE DEF n
<1>2. LET t == [s EXCEPT !.next = n] IN
      t \in Schedules /\ t.interval = s.interval /\ t.next = n
  BY <1>1 DEF Schedules
<1> QED
  BY <1>2 DEF n

\* A date that is set anew lies ahead, when a reset hour goes with intervals of days.
LEMMA DateAhead ==
  ASSUME clock \in Nat, NEW s \in Schedules
  PROVE  /\ SetResetDate(s) \in Schedules /\ SetResetDate(s).interval = s.interval
         /\ s.interval = 0 => SetResetDate(s) = s
         /\ DailyAtLeast /\ s.interval # 0 => SetResetDate(s).next > clock
<1>0. /\ s.interval \in Intervals \cup {0} /\ s.hour \in ResetHours \cup {0}
      /\ s.interval \in Nat /\ s.hour \in Nat
  BY ScheduleNumbers DEF Schedules
<1>1. CASE s.interval = 0
  BY <1>1 DEF SetResetDate
<1>2. CASE s.interval # 0
  <2> DEFINE b == IF s.hour > 0 THEN (clock \div DayLength) * DayLength + s.hour ELSE clock
             n == s.interval + b
  <2>1. SetResetDate(s) = [s EXCEPT !.next = n]
    BY <1>2 DEF SetResetDate
  <2>2. n \in Nat /\ (DailyAtLeast => n > clock)
    <3>1. CASE s.hour > 0
      <4> DEFINE m == (clock \div DayLength) * DayLength
      <4>1. m \in Nat /\ m + DayLength > clock
        BY DayBegins, MapNumbers
      <4>2. DailyAtLeast => s.interval >= DayLength
        BY <1>0, <1>2, <3>1 DEF DailyAtLeast
      <4>3. b = m + s.hour
        BY <3>1
      <4> HIDE DEF m, b
      <4> QED
        BY <1>0, <4>1, <4>2, <4>3, MapNumbers
    <3>2. CASE ~(s.hour > 0)
      BY <1>0, <1>2, <3>2
    <3> QED
      BY <3>1, <3>2
  <2> HIDE DEF n
  <2>3. [s EXCEPT !.next = n] \in Schedules
    BY <2>2 DEF Schedules
  <2>4. [s EXCEPT !.next = n].next = n /\ [s EXCEPT !.next = n].interval = s.interval
    BY DEF Schedules
  <2> QED
    BY <1>2, <2>1, <2>2, <2>3, <2>4
<1> QED
  BY <1>1, <1>2

\* A generated map leaves no date that is due; one that lies ahead stays.
LEMMA CommitAhead ==
  ASSUME clock \in Nat, NEW s \in Schedules
  PROVE  LET t == [CommitSchedule(s) EXCEPT !.skip = FALSE] IN
         /\ t \in Schedules /\ t.interval = s.interval
         /\ DailyAtLeast => t.next = 0 \/ t.next > clock
         /\ s.interval = 0 /\ s.next > clock => t.next = s.next
<1> DEFINE t == CommitSchedule(s)
           f == FALSE
<1>0. s.next \in Nat
  BY DEF Schedules
<1>1. /\ t \in Schedules /\ t.interval = s.interval
      /\ DailyAtLeast => t.next = 0 \/ t.next > clock
      /\ s.interval = 0 /\ s.next > clock => t.next = s.next
  <2>1. CASE s.interval = 0 /\ s.next > 0 /\ s.next <= clock
    <3>1. t = [s EXCEPT !.next = 0]
      BY <2>1 DEF CommitSchedule
    <3> HIDE DEF t
    <3> QED
      BY <1>0, <2>1, <3>1, NoDate
  <2>2. CASE ~(s.interval = 0 /\ s.next > 0 /\ s.next <= clock)
    <3>1. t = SetResetDate(s)
      BY <2>2 DEF CommitSchedule
    <3> HIDE DEF t
    <3> QED
      BY <1>0, <2>2, <3>1, DateAhead
  <2> QED
    BY <2>1, <2>2
<1>2. f \in BOOLEAN
  OBVIOUS
<1> HIDE DEF t, f
<1>3. [t EXCEPT !.skip = f] \in Schedules
  BY <1>1, <1>2 DEF Schedules
<1>4. [t EXCEPT !.skip = f].interval = t.interval /\ [t EXCEPT !.skip = f].next = t.next
  BY <1>1 DEF Schedules
<1> QED
  BY <1>1, <1>3, <1>4 DEF t, f

LEMMA AdvanceLater ==
  ASSUME NEW s \in Schedules
  PROVE  /\ AdvanceReset(s) \in Schedules /\ AdvanceReset(s).interval = s.interval
         /\ s.interval = 0 => AdvanceReset(s) = s
         /\ AdvanceReset(s).next >= s.next
<1>1. s.next \in Nat /\ s.interval \in Nat
  BY ScheduleNumbers
<1> DEFINE n == s.next + s.interval
           t == [s EXCEPT !.next = n]
<1>2. n \in Nat /\ n >= s.next
  BY <1>1
<1>3. AdvanceReset(s) = IF s.interval = 0 THEN s ELSE t
  BY DEF AdvanceReset
<1> HIDE DEF n
<1>4. t \in Schedules /\ t.interval = s.interval /\ t.next = n
  BY <1>2 DEF Schedules
<1> HIDE DEF t
<1> QED
  BY <1>1, <1>2, <1>3, <1>4

LEMMA NoOrderIs == NoOrder.by = "none" /\ "by" \in DOMAIN NoOrder
  BY DEF NoOrder

\* Dates that had a map stay behind the schedule when it moves on.
LEMMA ScheduleMoves ==
  ASSUME ScheduleInv, schedule' \in Schedules, clock' = clock, made' = made,
         due' = 0 \/ due' = due,
         \/ schedule'.next \in {0, schedule.next} \/ schedule'.next > clock
         \/ schedule'.next >= schedule.next /\ schedule.next # 0,
         asked' \in Nat, DateKept'
  PROVE  ScheduleInv'
<1>1. schedule.next \in Nat /\ schedule'.next \in Nat
  BY DEF ScheduleInv, Schedules
<1>2. \A d \in 1 .. 2 * MaxClock : made'[d] # 0 =>
        made'[d] = 1 /\ d < clock' /\ (schedule'.next = 0 \/ d < schedule'.next)
  BY <1>1, MapNumbers DEF ScheduleInv
<1> QED
  BY <1>2 DEF ScheduleInv

\* A request joins the queue.
LEMMA QueueGrows ==
  ASSUME RequestInv, NEW r, r.kind \in {"reset", "change"}, "by" \in DOMAIN r,
         queue' = Append(queue, r)
  PROVE  /\ queue' \in Seq(Range(queue')) /\ Len(queue) \in Nat /\ Len(queue') = Len(queue) + 1
         /\ \A i \in 1 .. Len(queue') :
              queue'[i].kind \in {"reset", "change"} /\ "by" \in DOMAIN queue'[i]
         /\ \A i \in 1 .. Len(queue) : queue'[i] = queue[i]
         /\ queue'[Len(queue) + 1] = r
<1> DEFINE S == Range(queue) \cup {r}
<1>1. queue \in Seq(Range(queue))
  BY DEF RequestInv
<1>2. queue \in Seq(S) /\ r \in S
  BY <1>1
<1> HIDE DEF S
<1>3. /\ queue' \in Seq(S) /\ Len(queue) \in Nat /\ Len(queue') = Len(queue) + 1
      /\ \A i \in 1 .. Len(queue) : queue'[i] = queue[i]
      /\ queue'[Len(queue) + 1] = r
  BY <1>2
<1>4. queue' \in Seq(Range(queue'))
  BY <1>3, SeqOfRange
<1>5. \A i \in 1 .. Len(queue') : i \in 1 .. Len(queue) \/ i = Len(queue) + 1
  BY <1>3
<1> QED
  BY <1>3, <1>4, <1>5 DEF RequestInv

\* A request leaves the queue.
LEMMA QueueShrinks ==
  ASSUME RequestInv, queue # <<>>, queue' = Tail(queue)
  PROVE  /\ queue' \in Seq(Range(queue')) /\ Len(queue) \in Nat \ {0}
         /\ Len(queue') = Len(queue) - 1 /\ Head(queue) = queue[1]
         /\ \A i \in 1 .. Len(queue') : queue'[i] = queue[i + 1]
<1>1. queue \in Seq(Range(queue))
  BY DEF RequestInv
<1> DEFINE S == Range(queue)
<1> HIDE DEF S
<1>2. /\ queue' \in Seq(S) /\ Len(queue) \in Nat \ {0}
      /\ Len(queue') = Len(queue) - 1 /\ Head(queue) = queue[1]
      /\ \A i \in 1 .. Len(queue') : queue'[i] = queue[i + 1]
  BY <1>1 DEF S
<1>3. queue' \in Seq(Range(queue'))
  BY <1>2, SeqOfRange
<1> QED
  BY <1>2, <1>3

LEMMA RequestKept ==
  ASSUME RequestInv, UNCHANGED <<queue, order, step, due, made>>
  PROVE  RequestInv'
  BY DEF RequestInv, FromCron

\* A request of a moderator joins the queue.
LEMMA UserOrderInv ==
  ASSUME RequestInv, NEW r, r.kind \in {"reset", "change"}, r.by = "user", "by" \in DOMAIN r,
         queue' = Append(queue, r), UNCHANGED <<order, step, due, made>>
  PROVE  RequestInv'
<1>1. /\ queue' \in Seq(Range(queue')) /\ Len(queue) \in Nat /\ Len(queue') = Len(queue) + 1
      /\ \A i \in 1 .. Len(queue') :
           queue'[i].kind \in {"reset", "change"} /\ "by" \in DOMAIN queue'[i]
      /\ \A i \in 1 .. Len(queue) : queue'[i] = queue[i]
      /\ queue'[Len(queue) + 1] = r
  BY QueueGrows
<1>2. \A i \in 1 .. Len(queue') : FromCron(i)' => i \in 1 .. Len(queue) /\ FromCron(i)
  BY <1>1 DEF FromCron
<1> QED
  BY <1>1, <1>2 DEF RequestInv

\* CheckMapReset puts off a date that was missed, or asks for its map.
LEMMA CheckMapResetInv == ASSUME CronInv, CheckMapReset PROVE CronInv'
<1>0. /\ ScheduleInv /\ RequestInv /\ schedule \in Schedules /\ due = 0
      /\ clock \in Nat /\ clock <= MaxClock /\ schedule.next > 0 /\ schedule.next < clock
      /\ UNCHANGED <<clock, order, step, asked, made>>
  BY DEF CronInv, ScheduleInv, CheckMapReset, HasResetTime, mapGhosts
<1>1. schedule.next \in Nat /\ schedule.interval \in Nat
  BY <1>0, ScheduleNumbers
<1>2. schedule.interval = 0 => ~(asked > clock)
  BY <1>0, <1>1 DEF ScheduleInv, DateKept
<1>3. CASE schedule.next < clock - Window
  <2>1. due' = due /\ queue' = queue
        /\ schedule' = IF HasResetInterval THEN AdvanceReset(schedule)
                       ELSE [schedule EXCEPT !.next = 0]
    BY <1>0, <1>3 DEF CheckMapReset
  <2>2. /\ schedule' \in Schedules /\ schedule'.interval = schedule.interval
        /\ schedule'.next = 0 \/ schedule'.next >= schedule.next
    <3>1. CASE HasResetInterval
      BY <1>0, <2>1, <3>1, AdvanceLater
    <3>2. CASE ~HasResetInterval
      BY <1>0, <2>1, <3>2, NoDate
    <3> QED
      BY <3>1, <3>2
  <2>3. DateKept'
    BY <1>0, <1>2, <2>2 DEF DateKept
  <2>4. ScheduleInv'
    BY <1>0, <1>1, <2>1, <2>2, <2>3, ScheduleMoves DEF ScheduleInv
  <2> QED
    BY <1>0, <2>1, <2>4, RequestKept DEF CronInv
<1>4. CASE ~(schedule.next < clock - Window)
  <2> DEFINE r == [kind |-> "reset", by |-> "cron", world |-> 0]
  <2>1. due' = schedule.next /\ queue' = Append(queue, r) /\ schedule' = schedule
    BY <1>4 DEF CheckMapReset
  <2>2. r.kind = "reset" /\ r.by = "cron" /\ "by" \in DOMAIN r
    OBVIOUS
  <2> HIDE DEF r
  <2>3. ScheduleInv'
    BY <1>0, <1>1, <2>1 DEF ScheduleInv, DateKept
  <2>4. /\ queue' \in Seq(Range(queue')) /\ Len(queue) \in Nat /\ Len(queue') = Len(queue) + 1
        /\ \A i \in 1 .. Len(queue') :
             queue'[i].kind \in {"reset", "change"} /\ "by" \in DOMAIN queue'[i]
        /\ \A i \in 1 .. Len(queue) : queue'[i] = queue[i]
        /\ queue'[Len(queue) + 1] = r
    BY <1>0, <2>1, <2>2, QueueGrows
  <2>5. order.by # "cron" /\ \A i \in 1 .. Len(queue) : ~FromCron(i)
    BY <1>0 DEF RequestInv
  <2>6. \A i \in 1 .. Len(queue') : FromCron(i)' => i = Len(queue) + 1
    BY <2>4, <2>5 DEF FromCron
  <2>7. made[due'] = 0 /\ due' # 0
    BY <1>0, <1>1, <2>1, MapNumbers DEF ScheduleInv
  <2>8. RequestInv'
    BY <1>0, <2>4, <2>5, <2>6, <2>7 DEF RequestInv
  <2> QED
    BY <2>3, <2>8 DEF CronInv
<1> QED
  BY <1>3, <1>4

\* What a moderator sets
LEMMA ScheduleSet ==
  ASSUME clock \in Nat, schedule \in Schedules, SetSchedule
  PROVE  /\ schedule' \in Schedules
         /\ DailyAtLeast => schedule'.next \in {0, schedule.next} \/ schedule'.next > clock
<1>0. schedule.next \in Nat /\ schedule.hour \in ResetHours \cup {0}
  BY DEF Schedules
<1>1. ASSUME NEW h \in ResetHours, schedule' = [schedule EXCEPT !.hour = h]
      PROVE  schedule' \in Schedules /\ schedule'.next = schedule.next
  BY <1>1 DEF Schedules
<1>2. ASSUME NEW n \in Intervals, NEW h \in ResetHours \cup {schedule.hour},
             schedule' = SetResetDate([schedule EXCEPT !.interval = n, !.hour = h])
      PROVE  /\ schedule' \in Schedules
             /\ DailyAtLeast => schedule'.next = schedule.next \/ schedule'.next > clock
  <2> DEFINE s == [schedule EXCEPT !.interval = n, !.hour = h]
  <2>1. s \in Schedules /\ s.next = schedule.next
    BY <1>0 DEF Schedules
  <2> HIDE DEF s
  <2> QED
    BY <1>2, <2>1, DateAhead DEF s
<1>3. ASSUME NEW d \in clock + 1 .. MaxClock, schedule' = [schedule EXCEPT !.next = d]
      PROVE  schedule' \in Schedules /\ schedule'.next > clock
  <2>1. d \in Nat /\ d > clock
    BY MapNumbers
  <2> QED
    BY <1>3, <2>1 DEF Schedules
<1>4. ASSUME schedule' = [schedule EXCEPT !.interval = 0, !.next = 0]
      PROVE  schedule' \in Schedules /\ schedule'.next = 0
  <2> DEFINE n == 0
  <2>1. n \in Nat /\ n \in Intervals \cup {0}
    OBVIOUS
  <2>2. schedule' = [schedule EXCEPT !.interval = n, !.next = n]
    BY <1>4
  <2> HIDE DEF n
  <2>3. schedule' \in Schedules /\ schedule'.next = n
    BY <2>1, <2>2 DEF Schedules
  <2> QED
    BY <2>3 DEF n
<1> QED
  BY <1>1, <1>2, <1>3, <1>4 DEF SetSchedule

\* The date moves on, once per map.
LEMMA ResetSkipped ==
  ASSUME schedule \in Schedules, SkipReset
  PROVE  /\ schedule' \in Schedules /\ schedule'.interval = schedule.interval
         /\ schedule'.next >= schedule.next
<1> DEFINE s == AdvanceReset(schedule)
           y == TRUE
<1>1. schedule' = [s EXCEPT !.skip = y]
  BY DEF SkipReset
<1>2. s \in Schedules /\ s.interval = schedule.interval /\ s.next >= schedule.next /\ y \in BOOLEAN
  BY AdvanceLater
<1> HIDE DEF s, y
<1>3. schedule' \in Schedules /\ schedule'.interval = s.interval /\ schedule'.next = s.next
  BY <1>1, <1>2 DEF Schedules
<1> QED
  BY <1>2, <1>3

\* The moderators' changes of the schedule.
LEMMA SetScheduleInv ==
  ASSUME DailyAtLeast, CronInv, SetSchedule \/ SkipReset PROVE CronInv'
<1>0. /\ ScheduleInv /\ RequestInv /\ schedule \in Schedules /\ clock \in Nat /\ asked \in Nat
      /\ UNCHANGED <<clock, due, order, queue, step, made>>
  BY DEF CronInv, ScheduleInv, SetSchedule, SkipReset, mapGhosts, mgrVars
<1>1. schedule.next \in Nat
  BY <1>0 DEF Schedules
<1>2. CASE SetSchedule
  <2>1. /\ schedule' \in Schedules
        /\ schedule'.next \in {0, schedule.next} \/ schedule'.next > clock
    BY <1>0, <1>2, ScheduleSet
  <2>2. asked' = IF schedule'.interval = 0 THEN schedule'.next ELSE 0
    BY <1>2 DEF SetSchedule
  <2>3. asked' \in Nat /\ DateKept'
    BY <1>0, <2>1, <2>2 DEF DateKept, Schedules
  <2>4. ScheduleInv'
    <3>1. due' = due /\ made' = made /\ clock' = clock
      BY <1>0
    <3> QED
      BY <1>0, <2>1, <2>3, <3>1, ScheduleMoves
  <2> QED
    BY <1>0, <2>4, RequestKept DEF CronInv
<1>3. CASE SkipReset
  <2>1. asked' = asked /\ schedule.interval > 0 /\ schedule.next > 0
    BY <1>3 DEF SkipReset, HasResetInterval, HasResetTime, mapGhosts
  <2>2. /\ schedule' \in Schedules /\ schedule'.interval = schedule.interval
        /\ schedule'.next >= schedule.next
    BY <1>0, <1>3, ResetSkipped
  <2>3. DateKept'
    BY <1>0, <2>1, <2>2 DEF DateKept
  <2>4. ScheduleInv'
    BY <1>0, <1>1, <2>1, <2>2, <2>3, ScheduleMoves
  <2> QED
    BY <1>0, <2>4, RequestKept DEF CronInv
<1> QED
  BY <1>2, <1>3

\* The next request of the queue is executed.
LEMMA ExecuteInv == ASSUME CronInv, Execute PROVE CronInv'
<1>0. /\ ScheduleInv /\ RequestInv /\ step = "idle" /\ order = NoOrder /\ queue # <<>>
      /\ order' = Head(queue) /\ queue' = Tail(queue) /\ step' = Steps[Head(queue).kind]
      /\ UNCHANGED <<clock, schedule, due, asked, made>>
  BY DEF CronInv, RequestInv, Execute, cronVars, mapGhosts
<1>1. /\ queue' \in Seq(Range(queue')) /\ Len(queue) \in Nat \ {0}
      /\ Len(queue') = Len(queue) - 1 /\ Head(queue) = queue[1]
      /\ \A i \in 1 .. Len(queue') : queue'[i] = queue[i + 1]
  BY <1>0, QueueShrinks
<1>2. 1 \in 1 .. Len(queue) /\ \A i \in 1 .. Len(queue') : i + 1 \in 1 .. Len(queue) /\ i + 1 # 1
  BY <1>1
<1>3. queue[1].kind \in {"reset", "change"} /\ "by" \in DOMAIN queue[1]
  BY <1>0, <1>2 DEF RequestInv
<1>4. step' \in {"generate", "install"}
  BY <1>0, <1>1, <1>3 DEF Steps
<1>5. \A i \in 1 .. Len(queue') : FromCron(i)' <=> FromCron(i + 1)
  BY <1>1 DEF FromCron
<1>6. order'.by = "cron" <=> FromCron(1)
  BY <1>0, <1>1 DEF FromCron
<1>7. order.by # "cron"
  BY <1>0, NoOrderIs
<1>8. \A i, j \in 1 .. Len(queue') : FromCron(i)' /\ FromCron(j)' => i = j
  <2> SUFFICES ASSUME NEW i \in 1 .. Len(queue'), NEW j \in 1 .. Len(queue'),
                      FromCron(i)', FromCron(j)'
               PROVE  i = j
    OBVIOUS
  <2>1. i + 1 = j + 1
    BY <1>0, <1>2, <1>5 DEF RequestInv
  <2> QED
    BY <2>1
<1>9. RequestInv'
  BY <1>0, <1>1, <1>2, <1>3, <1>4, <1>5, <1>6, <1>7, <1>8 DEF RequestInv
<1>10. ScheduleInv'
  BY <1>0 DEF ScheduleInv, DateKept
<1> QED
  BY <1>9, <1>10 DEF CronInv

\* The answer to CheckMapReset takes off the date it waited for, or none.
LEMMA AnsweredDate ==
  ASSUME schedule \in Schedules, NEW ok \in BOOLEAN, Answered(ok)
  PROVE  \/ schedule' = schedule
         \/ /\ schedule' \in Schedules /\ schedule'.next = 0 /\ schedule'.interval = 0
            /\ schedule.interval = 0 /\ schedule.next = due
<1>1. CASE order.by # "cron" \/ ~ok
  BY <1>1 DEF Answered, cronVars
<1>2. CASE order.by = "cron" /\ ok
  BY <1>2, NoDate DEF Answered, ResetDone
<1> QED
  BY <1>1, <1>2

\* A request ends, and CheckMapReset hears of its own.
LEMMA EndsInv ==
  ASSUME CronInv, NEW ok \in BOOLEAN, Ends(ok), UNCHANGED <<clock, queue, asked, made>>
  PROVE  CronInv'
<1>0. /\ ScheduleInv /\ RequestInv /\ schedule \in Schedules /\ clock \in Nat /\ due \in Nat
      /\ step' = "idle" /\ order' = NoOrder /\ asked \in Nat /\ schedule.next \in Nat
  BY DEF CronInv, ScheduleInv, Ends, Schedules
<1>1. CASE order.by # "cron"
  <2>1. UNCHANGED <<schedule, due>>
    BY <1>1 DEF Ends, Answered, cronVars
  <2>2. ScheduleInv'
    BY <1>0, <2>1 DEF ScheduleInv, DateKept
  <2>3. RequestInv'
    BY <1>0, <1>1, <2>1, NoOrderIs DEF RequestInv, FromCron
  <2> QED
    BY <2>2, <2>3 DEF CronInv
<1>2. CASE order.by = "cron"
  <2>1. due' = 0 /\ schedule' = IF ok THEN ResetDone(schedule) ELSE schedule
    BY <1>2 DEF Ends, Answered
  <2>2. \/ schedule' = schedule
        \/ /\ schedule' \in Schedules /\ schedule'.next = 0 /\ schedule'.interval = 0
           /\ schedule.interval = 0 /\ schedule.next = due
    BY <1>0, AnsweredDate DEF Ends
  <2>3. DateKept'
    BY <1>0, <2>2 DEF ScheduleInv, DateKept
  <2>4. ScheduleInv'
    <3>1. /\ due' = 0 /\ made' = made /\ clock' = clock /\ asked' \in Nat
          /\ schedule' \in Schedules /\ schedule'.next \in {0, schedule.next}
      BY <1>0, <2>1, <2>2
    <3> QED
      BY <1>0, <2>3, <3>1, ScheduleMoves
  <2>5. RequestInv'
    BY <1>0, <1>2, <2>1, NoOrderIs DEF RequestInv, FromCron
  <2> QED
    BY <2>4, <2>5 DEF CronInv
<1> QED
  BY <1>1, <1>2

\* The map is recorded: its date has had one, and lies behind the schedule.
LEMMA CommitInv == ASSUME DailyAtLeast, CronInv, Commit PROVE CronInv'
<1>0. /\ ScheduleInv /\ RequestInv /\ schedule \in Schedules /\ clock \in Nat /\ due \in Nat
      /\ step = "commit" /\ step' = "launch" /\ UNCHANGED <<clock, due, queue, asked>>
      /\ order' = [order EXCEPT !.world = worlds] /\ "by" \in DOMAIN order
  BY DEF CronInv, ScheduleInv, RequestInv, Commit
<1>1. /\ schedule' \in Schedules /\ schedule'.interval = schedule.interval
      /\ schedule'.next = 0 \/ schedule'.next > clock
      /\ schedule.interval = 0 /\ schedule.next > clock => schedule'.next = schedule.next
  BY <1>0, CommitAhead DEF Commit
<1>2. order'.by = order.by /\ "by" \in DOMAIN order'
  BY <1>0
<1>3. DateKept'
  BY <1>0, <1>1 DEF ScheduleInv, DateKept
<1>4. order.by = "cron" => /\ due \in 1 .. 2 * MaxClock /\ made[due] = 0 /\ due < clock /\ due # 0
                           /\ made' = [made EXCEPT ![due] = @ + 1]
  BY <1>0, MapNumbers DEF ScheduleInv, RequestInv, Commit
<1>5. order.by # "cron" => made' = made
  BY DEF Commit
<1>6. made' \in [1 .. 2 * MaxClock -> Nat]
  BY <1>0, <1>4, <1>5 DEF ScheduleInv
<1>7. \A d \in 1 .. 2 * MaxClock : made'[d] # 0 => made'[d] = 1 /\ d < clock
  <2> SUFFICES ASSUME NEW d \in 1 .. 2 * MaxClock, made'[d] # 0
               PROVE  made'[d] = 1 /\ d < clock
    OBVIOUS
  <2>1. made \in [1 .. 2 * MaxClock -> Nat] /\ (made[d] # 0 => made[d] = 1 /\ d < clock)
    BY <1>0 DEF ScheduleInv
  <2>2. CASE order.by = "cron" /\ d = due
    BY <1>4, <2>1, <2>2
  <2>3. CASE ~(order.by = "cron" /\ d = due)
    <3>1. made'[d] = made[d]
      BY <1>4, <1>5, <2>1, <2>3
    <3> QED
      BY <2>1, <3>1
  <2> QED
    BY <2>2, <2>3
<1>8. schedule'.next \in Nat
  BY <1>1 DEF Schedules
<1>9. ScheduleInv'
  BY <1>0, <1>1, <1>3, <1>6, <1>7, <1>8, MapNumbers DEF ScheduleInv
<1>10. RequestInv'
  BY <1>0, <1>2, <1>4, <1>5 DEF RequestInv, FromCron
<1> QED
  BY <1>9, <1>10 DEF CronInv

LEMMA CronStep ==
  ASSUME DailyAtLeast PROVE CronInv /\ [MapNext]_mapVars => CronInv'
<1> SUFFICES ASSUME CronInv, [MapNext]_mapVars PROVE CronInv'
  OBVIOUS
<1>0. ScheduleInv /\ RequestInv /\ clock \in Nat \ {0} /\ schedule \in Schedules
  BY DEF CronInv, ScheduleInv
<1>1. CASE TickClock
  <2>1. clock' = clock + 1 /\ clock < MaxClock
        /\ UNCHANGED <<schedule, due, queue, order, step, asked, made>>
    BY <1>1 DEF TickClock, cronVars, mgrVars, mapGhosts
  <2>2. ScheduleInv'
    BY <1>0, <2>1, MapNumbers DEF ScheduleInv, DateKept
  <2> QED
    BY <1>0, <2>1, <2>2, RequestKept DEF CronInv
<1>2. CASE ChangeMap \/ MapReset
  <2>1. UNCHANGED <<clock, schedule, due, order, step, asked, made>>
    BY <1>2 DEF ChangeMap, MapReset, cronVars, mapGhosts
  <2>2. PICK r : /\ queue' = Append(queue, r) /\ r.kind \in {"reset", "change"} /\ r.by = "user"
                 /\ "by" \in DOMAIN r
    <3>1. CASE MapReset
      BY <3>1 DEF MapReset
    <3>2. CASE ChangeMap
      <4>1. PICK t \in Good(saves) :
              queue' = Append(queue, [kind |-> "change", by |-> "user", world |-> t.world])
        BY <3>2 DEF ChangeMap
      <4> QED
        BY <4>1
    <3> QED
      BY <1>2, <3>1, <3>2
  <2>3. RequestInv'
    BY <1>0, <2>1, <2>2, UserOrderInv
  <2>4. ScheduleInv'
    BY <1>0, <2>1 DEF ScheduleInv, DateKept
  <2> QED
    BY <2>3, <2>4 DEF CronInv
<1>3. CASE MapFails \/ LaunchMap
  <2>1. UNCHANGED <<clock, queue, asked, made>> /\ \E ok \in BOOLEAN : Ends(ok)
    BY <1>3 DEF MapFails, LaunchMap, mapGhosts
  <2> QED
    BY <2>1, EndsInv
<1>4. CASE GenNewMap \/ doChangeMapAfterStop
  <2>1. /\ UNCHANGED <<clock, schedule, due, order, queue, asked, made>>
        /\ step \in {"generate", "install"} /\ step' \in {"commit", "launch"}
    BY <1>4 DEF GenNewMap, doChangeMapAfterStop, cronVars, mapGhosts
  <2>2. RequestInv'
    BY <1>0, <2>1 DEF RequestInv, FromCron
  <2>3. ScheduleInv'
    BY <1>0, <2>1 DEF ScheduleInv, DateKept
  <2> QED
    BY <2>2, <2>3 DEF CronInv
<1>5. CASE NewMapRuns
  <2>1. /\ UNCHANGED <<clock, due, order, queue, step, asked, made>>
        /\ schedule' = [CommitSchedule(schedule) EXCEPT !.skip = FALSE]
    BY <1>5 DEF NewMapRuns, mgrVars
  <2>2. /\ schedule' \in Schedules /\ schedule'.interval = schedule.interval
        /\ schedule'.next = 0 \/ schedule'.next > clock
        /\ schedule.interval = 0 /\ schedule.next > clock => schedule'.next = schedule.next
    BY <1>0, <2>1, CommitAhead
  <2>3. DateKept' /\ asked' \in Nat
    BY <1>0, <2>1, <2>2 DEF ScheduleInv, DateKept
  <2>4. ScheduleInv'
    <3>1. due' = due /\ made' = made /\ clock' = clock
      BY <2>1
    <3> QED
      BY <1>0, <2>2, <2>3, <3>1, ScheduleMoves
  <2> QED
    BY <1>0, <2>1, <2>4, RequestKept DEF CronInv
<1>6. CASE ChatWireEnds
  <2>1. /\ UNCHANGED <<clock, schedule, asked, made>> /\ due' = 0 /\ step' = "idle"
        /\ order' = NoOrder /\ queue' = <<>>
    BY <1>6 DEF ChatWireEnds
  <2>2. ScheduleInv'
    BY <1>0, <2>1 DEF ScheduleInv, DateKept
  <2>3. RequestInv'
    BY <2>1, NoOrderIs DEF RequestInv, FromCron
  <2> QED
    BY <2>2, <2>3 DEF CronInv
<1>7. CASE Launch \/ Ready \/ Autosave \/ GameCrash \/ NewMap \/ UNCHANGED mapVars
  <2>1. UNCHANGED <<clock, schedule, due, order, queue, step, asked, made>>
    BY <1>7 DEF Launch, Ready, Autosave, GameCrash, NewMap, mapVars, cronVars, mgrVars, mapGhosts
  <2>2. ScheduleInv'
    BY <1>0, <2>1 DEF ScheduleInv, DateKept
  <2> QED
    BY <1>0, <2>1, <2>2, RequestKept DEF CronInv
<1> QED
  BY <1>1, <1>2, <1>3, <1>4, <1>5, <1>6, <1>7, CheckMapResetInv, SetScheduleInv, ExecuteInv,
     CommitInv DEF MapNext

LEMMA CronInitInv == MapInit => CronInv
<1> SUFFICES ASSUME MapInit PROVE CronInv
  OBVIOUS
<1>1. schedule \in Schedules /\ schedule.next = 0
  <2> DEFINE n == 0
             f == FALSE
  <2>1. schedule = [next |-> n, interval |-> n, hour |-> n, skip |-> f]
    BY DEF MapInit
  <2>2. n \in Nat /\ n \in Intervals \cup {0} /\ n \in ResetHours \cup {0} /\ f \in BOOLEAN
    OBVIOUS
  <2> HIDE DEF n, f
  <2>3. schedule \in Schedules /\ schedule.next = n
    BY <2>1, <2>2 DEF Schedules
  <2> QED
    BY <2>3 DEF n
<1>2. ScheduleInv
  BY <1>1, MapNumbers DEF MapInit, ScheduleInv, DateKept
<1>3. RequestInv
  BY NoOrderIs DEF MapInit, RequestInv, FromCron
<1> QED
  BY <1>2, <1>3 DEF CronInv

\* Every date of the schedule leads to at most one map, whatever fails, restarts or is
\* asked for meanwhile, and a one-time date that lies ahead stays set (CheckMapReset,
\* CommitSchedule, SetSchedule), provided that a reset hour is used with intervals of a
\* day or more.
THEOREM ScheduleIsObeyed ==
  ASSUME DailyAtLeast PROVE MapSpec => []ScheduleObeyed
<1>1. CronInv => ScheduleObeyed
  BY MapNumbers DEF CronInv, ScheduleInv, ScheduleObeyed, DueOnce
<1>2. CronInv /\ [MapNext]_mapVars => CronInv'
  BY CronStep
<1> QED
  BY <1>1, <1>2, CronInitInv, PTL DEF MapSpec

-----------------------------------------------------------------------------
(* The world that runs *)

SaveNames == {"none", "auto", "new", "gen"} \X Nat
SaveRecords == [name : SaveNames, world : Nat, good : BOOLEAN]
OrderRecords == [kind : {"none", "reset", "change"}, by : {"none", "user", "cron"}, world : Nat]

\* Saves of the first n worlds; one that is named after a world holds it.
SavesOK(S, n) ==
  S \subseteq SaveRecords
  /\ \A t \in S : t.world <= n /\ (IsGen(t) => t.name = <<"gen", t.world>>)

\* What Factorio writes when it quits.
SavedAs(l) == [name |-> l.name, world |-> l.world, good |-> TRUE]

\* Orders about the first n worlds
OrdersOK(q, n) ==
  q \in Seq(OrderRecords) /\ \A i \in 1 .. Len(q) : q[i].world <= n /\ q[i].kind # "none"

\* Saves and orders are about worlds that were generated.
WorldTypes ==
  /\ worlds \in Nat /\ want \in 0 .. worlds
  /\ SavesOK(saves, worlds) /\ SavesOK({SavedAs(loaded)}, worlds)
  /\ order \in OrderRecords /\ order.world <= worlds
  /\ OrdersOK(queue, worlds)
  /\ overlap \in BOOLEAN

\* What may run: the world asked for last, one whose generation was interrupted, and the
\* one being committed.
MayRun == {want} \cup stray \cup (IF step = "commit" THEN {worlds} ELSE {})

\* A save of another world is older than one that may run and that no crash can damage.
Anchored ==
  \A t \in saves :
    \/ t.world \in MayRun
    \/ \E u \in saves : /\ u.good /\ u.name # AutoName /\ u.world \in MayRun
                        /\ <<u.name, t.name>> \in newer

\* A pending save holds the world asked for, and Factorio is not running beside it.
PendingInv ==
  /\ pending \in {NoSave, NewName, <<"gen", want>>}
  /\ pending = NewName => \A t \in saves : t.name = NewName => t.world = want
  /\ phase = "running" => pending = NoSave

\* Requests are executed on a stopped server; a map is the newest save until it is
\* committed, and pending until it is launched.
ExecuteWorld ==
  /\ step # "idle" => phase = "stopped"
  /\ step \in {"generate", "commit"} => order.kind = "reset"
  /\ step = "install" => order.kind = "change"
  /\ step = "commit" =>
       /\ Gen(worlds) \in saves
       /\ \A t \in saves : t.name # Gen(worlds).name => <<Gen(worlds).name, t.name>> \in newer
  /\ step = "launch" =>
       pending = IF order.kind = "reset" THEN Gen(order.world).name ELSE NewName

RunningInv == phase # "stopped" => loaded.world \in MayRun

WorldInv == overlap \/ (Anchored /\ PendingInv /\ ExecuteWorld /\ RunningInv)

LEMMA NamesDiffer ==
  /\ NoSave # NewName /\ NoSave # AutoName /\ NewName # AutoName
  /\ \A n : /\ <<"gen", n>> # NoSave /\ <<"gen", n>> # NewName /\ <<"gen", n>> # AutoName
            /\ Gen(n).name = <<"gen", n>> /\ Gen(n).world = n /\ Gen(n).good
            /\ IsGen(Gen(n))
  /\ \A m, n : <<"gen", m>> = <<"gen", n>> => m = n
  BY DEF NoSave, NewName, AutoName, Gen, IsGen

LEMMA SavedFields ==
  ASSUME NEW l PROVE SavedAs(l).name = l.name /\ SavedAs(l).world = l.world /\ SavedAs(l).good
  BY DEF SavedAs

\* The saves that are written are of their kinds.
LEMMA NewSaves ==
  /\ \A n \in Nat : SavesOK({Gen(n)}, n)
  /\ \A n, m \in Nat : m <= n => SavesOK({[name |-> NewName, world |-> m, good |-> TRUE]}, n)
  /\ \A n, m \in Nat : m <= n => SavesOK({[name |-> AutoName, world |-> m, good |-> TRUE]}, n)
<1>1. <<"new", 0>> \in SaveNames /\ <<"auto", 0>> \in SaveNames
      /\ \A n \in Nat : <<"gen", n>> \in SaveNames
  BY DEF SaveNames
<1> QED
  BY <1>1 DEF SavesOK, SaveRecords, Gen, IsGen, NewName, AutoName

LEMMA SavesUnion ==
  ASSUME NEW S, NEW T, NEW n, SavesOK(S, n), SavesOK(T, n) PROVE SavesOK(S \cup T, n)
  BY DEF SavesOK

LEMMA SavesSubset ==
  ASSUME NEW S, NEW T, NEW n, SavesOK(S, n), T \subseteq S PROVE SavesOK(T, n)
  BY DEF SavesOK

LEMMA SavesLater ==
  ASSUME NEW S, NEW n \in Nat, NEW m \in Nat, n <= m, SavesOK(S, n) PROVE SavesOK(S, m)
<1>1. \A t \in S : t.world \in Nat
  BY DEF SavesOK, SaveRecords
<1> QED
  BY <1>1 DEF SavesOK

LEMMA WrittenOK ==
  ASSUME NEW n, SavesOK(saves, n), NEW s, SavesOK({s}, n), Written(s)
  PROVE  SavesOK(saves', n)
<1>1. saves' = (saves \ Named(saves, s.name)) \cup {s}
  BY DEF Written, Write
<1> QED
  BY <1>1 DEF SavesOK

\* Executing, and ending ChatWire, stop Factorio, which may write its save.
LEMMA StoppedOK ==
  ASSUME NEW n, SavesOK(saves, n), SavesOK({SavedAs(loaded)}, n), Stopped
  PROVE  SavesOK(saves', n) /\ loaded' = loaded
<1>1. CASE phase = "running"
  BY <1>1, WrittenOK DEF Stopped, SavedAs
<1>2. CASE phase # "running"
  BY <1>2 DEF Stopped, folder
<1> QED
  BY <1>1, <1>2 DEF Stopped

LEMMA StartedOK ==
  ASSUME NEW n, SavesOK(saves, n), NEW m, NEW f \in selectLaunchSave(m), Started(f)
  PROVE  SavesOK({SavedAs(loaded')}, n) /\ loaded'.world = f.world
<1>1. f \in saves
  BY DEF selectLaunchSave, GetSaveGame, Good, Named
<1>2. f \in SaveRecords /\ loaded'.name = f.name /\ loaded'.world = f.world
  BY <1>1 DEF SavesOK, Started
<1>3. SavedAs(loaded') \in SaveRecords
  BY <1>2 DEF SavedAs, SaveRecords
<1> QED
  BY <1>1, <1>2, <1>3, SavedFields DEF SavesOK, IsGen

LEMMA OrderKinds ==
  /\ NoOrder \in OrderRecords /\ NoOrder.world = 0 /\ NoOrder.kind = "none"
  /\ [kind |-> "reset", by |-> "cron", world |-> 0] \in OrderRecords
  /\ [kind |-> "reset", by |-> "user", world |-> 0] \in OrderRecords
  /\ \A w \in Nat : [kind |-> "change", by |-> "user", world |-> w] \in OrderRecords
  BY DEF NoOrder, OrderRecords

LEMMA OrderQueued ==
  ASSUME NEW n \in Nat, NEW q, OrdersOK(q, n), NEW r \in OrderRecords, r.world <= n,
         r.kind # "none"
  PROVE  OrdersOK(Append(q, r), n)
  BY DEF OrdersOK

LEMMA OrderTaken ==
  ASSUME NEW n \in Nat, NEW q, OrdersOK(q, n), q # <<>>
  PROVE  OrdersOK(Tail(q), n) /\ Head(q) \in OrderRecords /\ Head(q).world <= n
         /\ Head(q).kind # "none"
  BY DEF OrdersOK

LEMMA WorldTypesInit == MapInit => WorldTypes
<1> SUFFICES ASSUME MapInit PROVE WorldTypes
  OBVIOUS
<1> DEFINE z == 0
<1>1. /\ worlds = z /\ want = z /\ saves = {[name |-> AutoName, world |-> z, good |-> TRUE]}
      /\ SavedAs(loaded) = [name |-> AutoName, world |-> z, good |-> TRUE]
      /\ order = NoOrder /\ queue = <<>> /\ overlap = FALSE
  BY DEF MapInit, SavedAs
<1>2. z \in Nat /\ z \in 0 .. z /\ z <= z
  OBVIOUS
<1>3. NoOrder.world <= z
  BY OrderKinds
<1>4. OrdersOK(<<>>, z)
  BY DEF OrdersOK
<1> HIDE DEF z
<1> QED
  BY <1>1, <1>2, <1>3, <1>4, NewSaves, OrderKinds DEF WorldTypes

LEMMA WorldTypesStep == WorldTypes /\ [MapNext]_mapVars => WorldTypes'
<1> SUFFICES ASSUME WorldTypes, [MapNext]_mapVars PROVE WorldTypes'
  OBVIOUS
<1> USE DEF mgrVars, gameVars, cronVars, mapGhosts, folder
<1>0. /\ worlds \in Nat /\ want \in Nat /\ want <= worlds
      /\ SavesOK(saves, worlds) /\ SavesOK({SavedAs(loaded)}, worlds)
      /\ order \in OrderRecords /\ order.world \in Nat /\ order.world <= worlds
      /\ OrdersOK(queue, worlds) /\ overlap \in BOOLEAN
      /\ loaded.world \in Nat /\ loaded.world <= worlds
  <2>1. order.world \in Nat
    BY DEF WorldTypes, OrderRecords
  <2>2. SavedAs(loaded).world \in Nat /\ SavedAs(loaded).world <= worlds
    BY DEF WorldTypes, SavesOK, SaveRecords
  <2> QED
    BY <2>1, <2>2, SavedFields DEF WorldTypes
<1>1. CASE TickClock \/ SetSchedule \/ SkipReset \/ Ready \/ NewMap \/ UNCHANGED mapVars
  <2>1. UNCHANGED <<worlds, want, saves, loaded, order, queue, overlap>>
    BY <1>1 DEF TickClock, SetSchedule, SkipReset, Ready, NewMap, mapVars
  <2> QED
    BY <2>1 DEF WorldTypes
<1>2. CASE CheckMapReset \/ ChangeMap \/ MapReset
  <2>1. UNCHANGED <<worlds, want, saves, loaded, order, overlap>>
    BY <1>2 DEF CheckMapReset, ChangeMap, MapReset
  <2>2. \/ queue' = queue
        \/ \E r \in OrderRecords :
             r.world <= worlds /\ r.kind # "none" /\ queue' = Append(queue, r)
    <3>1. CASE CheckMapReset
      BY <1>0, <3>1, OrderKinds DEF CheckMapReset
    <3>2. CASE MapReset
      BY <1>0, <3>2, OrderKinds DEF MapReset
    <3>3. CASE ChangeMap
      <4>1. PICK t \in Good(saves) :
              queue' = Append(queue, [kind |-> "change", by |-> "user", world |-> t.world])
        BY <3>3 DEF ChangeMap
      <4>2. t.world \in Nat /\ t.world <= worlds
        BY <1>0 DEF Good, SavesOK, SaveRecords
      <4> QED
        BY <4>1, <4>2, OrderKinds
    <3> QED
      BY <1>2, <3>1, <3>2, <3>3
  <2>3. OrdersOK(queue', worlds)
    BY <1>0, <2>2, OrderQueued
  <2> QED
    BY <2>1, <2>3 DEF WorldTypes
<1>3. CASE Execute
  <2>1. /\ UNCHANGED <<worlds, want, overlap>> /\ Stopped
        /\ queue # <<>> /\ order' = Head(queue) /\ queue' = Tail(queue)
    BY <1>3 DEF Execute
  <2>2. SavesOK(saves', worlds) /\ loaded' = loaded
    BY <1>0, <2>1, StoppedOK
  <2>3. OrdersOK(queue', worlds) /\ order' \in OrderRecords /\ order'.world <= worlds
    BY <1>0, <2>1, OrderTaken
  <2> QED
    BY <2>1, <2>2, <2>3 DEF WorldTypes
<1>4. CASE MapFails
  <2>1. UNCHANGED <<worlds, want, saves, loaded, queue, overlap>> /\ order' = NoOrder
    BY <1>4 DEF MapFails, Ends
  <2> QED
    BY <1>0, <2>1, OrderKinds DEF WorldTypes
<1>5. CASE LaunchMap
  <2>1. UNCHANGED <<worlds, want, saves, queue, overlap>> /\ order' = NoOrder
    BY <1>5 DEF LaunchMap, Ends
  <2>2. \/ loaded' = loaded
        \/ \E m : \E f \in selectLaunchSave(m) : Started(f)
    BY <1>5, Zenon DEF LaunchMap
  <2>3. SavesOK({SavedAs(loaded')}, worlds)
    BY <1>0, <2>2, StartedOK
  <2> QED
    BY <1>0, <2>1, <2>3, OrderKinds DEF WorldTypes
<1>6. CASE Launch
  <2>1. UNCHANGED <<worlds, want, saves, order, queue, overlap>>
    BY <1>6 DEF Launch
  <2>2. \E f \in selectLaunchSave(NoSave) : Started(f)
    BY <1>6 DEF Launch
  <2>3. SavesOK({SavedAs(loaded')}, worlds)
    BY <1>0, <2>2, StartedOK
  <2> QED
    BY <1>0, <2>1, <2>3 DEF WorldTypes
<1>7. CASE Autosave
  <2>1. /\ UNCHANGED <<worlds, want, loaded, order, queue, overlap>>
        /\ Written([name |-> AutoName, world |-> loaded.world, good |-> TRUE])
    BY <1>7 DEF Autosave
  <2>2. SavesOK({[name |-> AutoName, world |-> loaded.world, good |-> TRUE]}, worlds)
    BY <1>0, NewSaves
  <2>3. SavesOK(saves', worlds)
    BY <1>0, <2>1, <2>2, WrittenOK
  <2> QED
    BY <2>1, <2>3 DEF WorldTypes
<1>8. CASE GameCrash
  <2>1. UNCHANGED <<worlds, want, loaded, order, queue, overlap>>
    BY <1>8 DEF GameCrash
  <2>2. PICK damaged \in {{}, Named(saves, AutoName)} :
          saves' = (saves \ damaged) \cup {[t EXCEPT !.good = FALSE] : t \in damaged}
    BY <1>8 DEF GameCrash
  <2>3. damaged \subseteq saves
    BY DEF Named
  <2> DEFINE f == FALSE
  <2>4. f \in BOOLEAN
    OBVIOUS
  <2> HIDE DEF f
  <2>5. ASSUME NEW t \in damaged PROVE SavesOK({[t EXCEPT !.good = f]}, worlds)
    <3>1. t \in SaveRecords /\ t.world <= worlds /\ (IsGen(t) => t.name = <<"gen", t.world>>)
      BY <1>0, <2>3 DEF SavesOK
    <3>2. /\ [t EXCEPT !.good = f] \in SaveRecords
          /\ [t EXCEPT !.good = f].name = t.name /\ [t EXCEPT !.good = f].world = t.world
      BY <2>4, <3>1 DEF SaveRecords
    <3> QED
      BY <3>1, <3>2 DEF SavesOK, IsGen
  <2>6. SavesOK({[t EXCEPT !.good = f] : t \in damaged}, worlds)
    BY <2>5 DEF SavesOK
  <2>7. SavesOK(saves', worlds)
    <3>1. saves' = (saves \ damaged) \cup {[t EXCEPT !.good = f] : t \in damaged}
      BY <2>2 DEF f
    <3>2. SavesOK(saves \ damaged, worlds)
      BY <1>0 DEF SavesOK
    <3> QED
      BY <2>6, <3>1, <3>2, SavesUnion
  <2> QED
    BY <2>1, <2>7 DEF WorldTypes
<1>9. CASE ChatWireEnds
  <2>1. /\ UNCHANGED <<worlds, want, overlap>> /\ Stopped
        /\ queue' = <<>> /\ order' = NoOrder
    BY <1>9 DEF ChatWireEnds
  <2>2. SavesOK(saves', worlds) /\ loaded' = loaded
    BY <1>0, <2>1, StoppedOK
  <2>3. OrdersOK(<<>>, worlds)
    BY DEF OrdersOK
  <2> QED
    BY <1>0, <2>1, <2>2, <2>3, OrderKinds DEF WorldTypes
<1>10. CASE doChangeMapAfterStop
  <2> DEFINE s == [name |-> NewName, world |-> order.world, good |-> TRUE]
  <2>1. /\ UNCHANGED <<worlds, loaded, order, queue, overlap>>
        /\ want' = order.world /\ Written(s)
    BY <1>10 DEF doChangeMapAfterStop, Promote
  <2>2. SavesOK({s}, worlds)
    BY <1>0, NewSaves
  <2>3. SavesOK(saves', worlds)
    BY <1>0, <2>1, <2>2, WrittenOK
  <2> QED
    BY <1>0, <2>1, <2>3 DEF WorldTypes
<1>11. CASE Commit
  <2>1. /\ UNCHANGED <<worlds, loaded, queue, overlap>>
        /\ want' = worlds /\ saves' \subseteq saves
        /\ order' = [order EXCEPT !.world = worlds]
    BY <1>11 DEF Commit
  <2>2. order' \in OrderRecords /\ order'.world = worlds
    BY <1>0, <2>1 DEF OrderRecords
  <2>3. SavesOK(saves', worlds)
    BY <1>0, <2>1, SavesSubset
  <2> QED
    BY <1>0, <2>1, <2>2, <2>3 DEF WorldTypes
<1>12. CASE GenNewMap \/ NewMapRuns
  <2>1. /\ worlds' = worlds + 1 /\ UNCHANGED <<loaded, order, queue>>
        /\ want' \in {want, worlds'} /\ overlap' \in BOOLEAN
        /\ \E S : S \subseteq saves /\ saves' = S \cup {Gen(worlds')}
    <3>1. CASE GenNewMap
      BY <1>0, <3>1 DEF GenNewMap, Written, Write
    <3>2. CASE NewMapRuns
      <4>1. /\ worlds' = worlds + 1 /\ UNCHANGED <<loaded, order, queue>> /\ want' = worlds'
            /\ saves' = (saves \ Retired(Gen(worlds').name)) \cup {Gen(worlds')}
        BY <3>2 DEF NewMapRuns, Write
      <4>2. overlap' \in BOOLEAN
        BY <3>2 DEF NewMapRuns
      <4> QED
        BY <4>1, <4>2
    <3> QED
      BY <1>12, <3>1, <3>2
  <2>2. worlds' \in Nat /\ worlds <= worlds' /\ want' \in 0 .. worlds' /\ order.world <= worlds'
    BY <1>0, <2>1
  <2>3. SavesOK(saves, worlds') /\ SavesOK({SavedAs(loaded)}, worlds')
    BY <1>0, <2>2, SavesLater
  <2>4. SavesOK({Gen(worlds')}, worlds')
    BY <2>2, NewSaves
  <2>5. SavesOK(saves', worlds')
    BY <2>1, <2>3, <2>4, SavesUnion, SavesSubset
  <2>6. OrdersOK(queue, worlds')
    <3>1. \A i \in 1 .. Len(queue) : queue[i] \in OrderRecords
      BY <1>0 DEF OrdersOK
    <3>2. \A i \in 1 .. Len(queue) : queue[i].world \in Nat
      BY <3>1 DEF OrderRecords
    <3> QED
      BY <1>0, <2>2, <3>2 DEF OrdersOK
  <2> QED
    BY <1>0, <2>1, <2>2, <2>3, <2>5, <2>6 DEF WorldTypes
<1> QED
  BY <1>1, <1>2, <1>3, <1>4, <1>5, <1>6, <1>7, <1>8, <1>9, <1>10, <1>11, <1>12 DEF MapNext

\* A save that is written last, and that may run, stands above the others.
LEMMA NewestAnchors ==
  ASSUME NEW S, NEW s, Write(S, s), s.good, s.name # AutoName, s.world \in MayRun'
  PROVE  Anchored'
<1>1. s \in saves' /\ saves' = S \cup {s}
  BY DEF Write
<1>2. \A t \in S : <<s.name, t.name>> \in newer'
  BY DEF Write, Names
<1> QED
  BY <1>1, <1>2 DEF Anchored

\* A save of a world that may run takes nothing from the others.
LEMMA WrittenAnchors ==
  ASSUME Anchored, NEW s, Written(s), s.good, s.world \in MayRun, MayRun \subseteq MayRun'
  PROVE  Anchored'
<1> DEFINE S == saves \ Named(saves, s.name)
<1>1. saves' = S \cup {s} /\ newer' = Ages(S) \cup {<<s.name, n>> : n \in Names(S)}
  BY DEF Written, Write
<1>2. SUFFICES ASSUME NEW t \in S, t.world \notin MayRun'
               PROVE  \E u \in saves' : /\ u.good /\ u.name # AutoName /\ u.world \in MayRun'
                                        /\ <<u.name, t.name>> \in newer'
  BY <1>1 DEF Anchored
<1>3. PICK u \in saves : /\ u.good /\ u.name # AutoName /\ u.world \in MayRun
                         /\ <<u.name, t.name>> \in newer
  BY <1>2 DEF Anchored
<1>4. CASE u.name = s.name
  BY <1>1, <1>3, <1>4 DEF Names
<1>5. CASE u.name # s.name
  <2>1. u \in S /\ u.name \in Names(S) /\ t.name \in Names(S)
    BY <1>5 DEF Named, Names
  <2>2. <<u.name, t.name>> \in newer'
    BY <1>1, <1>3, <2>1 DEF Ages
  <2> QED
    BY <1>1, <1>3, <2>1, <2>2
<1> QED
  BY <1>4, <1>5

\* The same of the save that Factorio leaves.
LEMMA StoppedAnchors ==
  ASSUME Anchored, RunningInv, Stopped, MayRun \subseteq MayRun'
  PROVE  Anchored'
<1>1. CASE phase = "running"
  <2>1. Written(SavedAs(loaded)) /\ loaded.world \in MayRun
    BY <1>1 DEF Stopped, SavedAs, RunningInv
  <2> QED
    BY <2>1, SavedFields, WrittenAnchors
<1>2. CASE phase # "running"
  <2>1. saves' = saves /\ newer' = newer
    BY <1>2 DEF Stopped, folder
  <2> QED
    BY <2>1 DEF Anchored
<1> QED
  BY <1>1, <1>2

\* Whatever is launched may run.
LEMMA LaunchedMayRun ==
  ASSUME WorldTypes, Anchored, PendingInv, NEW m, NEW f \in selectLaunchSave(m),
         m # NoSave => m = pending
  PROVE  f.world \in MayRun
<1>1. CASE pending = NoSave
  <2>1. f \in GetSaveGame
    BY <1>1 DEF selectLaunchSave
  <2> QED
    BY <2>1 DEF GetSaveGame, Good, Anchored
<1>2. CASE pending # NoSave
  <2>1. f \in saves /\ f.name = pending
    BY <1>2 DEF selectLaunchSave, Good, Named
  <2>2. CASE pending = NewName
    BY <2>1, <2>2 DEF PendingInv, MayRun
  <2>3. CASE pending = <<"gen", want>>
    <3>1. IsGen(f)
      BY <2>1, <2>3 DEF IsGen
    <3>2. f.name = <<"gen", f.world>>
      BY <2>1, <3>1 DEF WorldTypes, SavesOK
    <3> QED
      BY <2>1, <2>3, <3>2, NamesDiffer DEF MayRun
  <2> QED
    BY <1>2, <2>2, <2>3 DEF PendingInv
<1> QED
  BY <1>1, <1>2

WorldParts == Anchored /\ PendingInv /\ ExecuteWorld /\ RunningInv

LEMMA WorldInitInv == MapInit => WorldInv
<1> SUFFICES ASSUME MapInit PROVE WorldParts
  BY DEF WorldInv, WorldParts
<1>1. Anchored
  BY DEF MapInit, Anchored, MayRun
<1>2. PendingInv
  BY NamesDiffer DEF MapInit, PendingInv
<1> QED
  BY <1>1, <1>2 DEF MapInit, WorldParts, ExecuteWorld, RunningInv

LEMMA OverlapStays == [MapNext]_mapVars /\ ~overlap' => ~overlap
<1>1. CASE NewMapRuns
  BY <1>1 DEF NewMapRuns
<1>2. ASSUME [MapNext]_mapVars, ~NewMapRuns PROVE overlap' = overlap
  BY <1>2
  DEF MapNext, mapVars, mapGhosts, TickClock, CheckMapReset, SetSchedule, SkipReset, ChangeMap,
      MapReset, Execute, MapFails, GenNewMap, Commit, doChangeMapAfterStop, LaunchMap, Launch,
      Ready, Autosave, GameCrash, NewMap, ChatWireEnds
<1> QED
  BY <1>1, <1>2

LEMMA WorldPartsStep ==
  ASSUME WorldTypes, WorldParts, [MapNext]_mapVars, ~overlap', overlap \in BOOLEAN
  PROVE  WorldParts'
<1> USE DEF mgrVars, gameVars, cronVars, mapGhosts, folder
<1>0. /\ Anchored /\ PendingInv /\ ExecuteWorld /\ RunningInv
      /\ worlds \in Nat /\ want \in Nat /\ want <= worlds
  BY DEF WorldParts, WorldTypes
<1>1. CASE TickClock \/ SetSchedule \/ SkipReset \/ NewMap \/ UNCHANGED mapVars
           \/ CheckMapReset \/ ChangeMap \/ MapReset
  <2>1. UNCHANGED <<worlds, want, stray, saves, newer, loaded, phase, pending, step, order>>
    BY <1>1 DEF TickClock, SetSchedule, SkipReset, NewMap, mapVars, CheckMapReset, ChangeMap,
                MapReset
  <2> QED
    BY <1>0, <2>1
    DEF WorldParts, Anchored, MayRun, PendingInv, ExecuteWorld, RunningInv
<1>2. CASE Execute
  <2>1. /\ UNCHANGED <<worlds, want, stray, pending>> /\ Stopped /\ phase' = "stopped"
        /\ step = "idle" /\ step' = Steps[Head(queue).kind]
        /\ queue # <<>> /\ order' = Head(queue)
    BY <1>2 DEF Execute, Stopped
  <2>2. Head(queue) \in OrderRecords /\ Head(queue).kind # "none"
    BY <2>1, OrderTaken DEF WorldTypes
  <2>3. order'.kind \in {"reset", "change"} /\ step' \in {"generate", "install"}
        /\ (step' = "generate" => order'.kind = "reset")
        /\ (step' = "install" => order'.kind = "change")
    BY <1>0, <2>1, <2>2 DEF Steps, OrderRecords
  <2>4. MayRun' = MayRun
    BY <2>1, <2>3 DEF MayRun
  <2>5. Anchored'
    BY <1>0, <2>1, <2>4, StoppedAnchors
  <2>6. PendingInv'
    <3>1. CASE phase = "running"
      BY <1>0, <2>1, <3>1, NamesDiffer DEF PendingInv
    <3>2. CASE phase # "running"
      BY <1>0, <2>1, <3>2 DEF PendingInv, Stopped
    <3> QED
      BY <3>1, <3>2
  <2>7. ExecuteWorld' /\ RunningInv'
    BY <2>1, <2>3 DEF ExecuteWorld, RunningInv
  <2> QED
    BY <2>5, <2>6, <2>7 DEF WorldParts
<1>3. CASE MapFails
  <2>1. /\ UNCHANGED <<worlds, want, stray, saves, newer, loaded, phase, pending>>
        /\ step' = "idle" /\ step # "commit"
    BY <1>3 DEF MapFails, Ends
  <2> QED
    BY <1>0, <2>1 DEF WorldParts, Anchored, MayRun, PendingInv, ExecuteWorld, RunningInv
<1>4. CASE GenNewMap
  <2>1. /\ UNCHANGED <<want, stray, loaded, phase, pending, order>>
        /\ worlds' = worlds + 1 /\ Written(Gen(worlds'))
        /\ step = "generate" /\ step' = "commit"
    BY <1>4 DEF GenNewMap
  <2> DEFINE S == saves \ Named(saves, Gen(worlds').name)
  <2>2. saves' = S \cup {Gen(worlds')} /\ Write(S, Gen(worlds'))
    BY <2>1 DEF Written, Write
  <2>3. worlds' \in MayRun'
    BY <2>1 DEF MayRun
  <2>4. Anchored'
    BY <2>2, <2>3, NewestAnchors, NamesDiffer
  <2>5. PendingInv'
    <3>0. Gen(worlds').name # NewName
      BY NamesDiffer
    <3>1. \A t \in saves' : t.name = NewName => t \in saves
      BY <2>2, <3>0
    <3> QED
      BY <1>0, <2>1, <3>1 DEF PendingInv
  <2>6. ExecuteWorld'
    <3>1. \A t \in S : <<Gen(worlds').name, t.name>> \in newer'
      BY <2>2 DEF Write, Names
    <3> QED
      BY <1>0, <2>1, <2>2, <3>1 DEF ExecuteWorld
  <2>7. RunningInv'
    BY <1>0, <2>1 DEF ExecuteWorld, RunningInv
  <2> QED
    BY <2>4, <2>5, <2>6, <2>7 DEF WorldParts
<1>5. CASE Commit
  <2> DEFINE g == Gen(worlds)
  <2>1. /\ UNCHANGED <<worlds, stray, loaded, phase>>
        /\ step = "commit" /\ step' = "launch" /\ want' = worlds /\ pending' = g.name
        /\ saves' = saves \ Retired(g.name) /\ newer' = Ages(saves')
        /\ order' = [order EXCEPT !.world = worlds]
    BY <1>5 DEF Commit, Pend
  <2>2. g \in saves /\ phase = "stopped" /\ order.kind = "reset"
        /\ \A t \in saves : t.name # g.name => <<g.name, t.name>> \in newer
    BY <1>0, <2>1 DEF ExecuteWorld
  <2>3. g \in saves'
    BY <2>1, <2>2 DEF Retired
  <2>0. /\ g.name = <<"gen", worlds>> /\ g.world = worlds /\ g.good /\ g.name # AutoName
        /\ g.name # NewName /\ g.name # NoSave
    BY NamesDiffer
  <2> HIDE DEF g
  <2>4. MayRun' = {worlds} \cup stray
    BY <2>1 DEF MayRun
  <2>5. Anchored'
    <3> SUFFICES ASSUME NEW t \in saves'
                 PROVE  t.world = worlds \/ <<g.name, t.name>> \in newer'
      BY <2>0, <2>3, <2>4 DEF Anchored
    <3>1. CASE t.name = g.name
      <4>1. t \in saves /\ IsGen(t)
        BY <2>0, <2>1, <3>1 DEF IsGen
      <4>2. t.name = <<"gen", t.world>>
        BY <4>1 DEF WorldTypes, SavesOK
      <4> QED
        BY <2>0, <3>1, <4>2, NamesDiffer
    <3>2. CASE t.name # g.name
      <4>1. <<g.name, t.name>> \in newer
        BY <2>1, <2>2, <3>2
      <4> QED
        BY <2>1, <2>3, <4>1 DEF Ages, Names
    <3> QED
      BY <3>1, <3>2
  <2>6. PendingInv'
    BY <2>0, <2>1, <2>2 DEF PendingInv
  <2>7. order'.kind = "reset" /\ order'.world = worlds
    <3>1. order \in OrderRecords
      BY DEF WorldTypes
    <3> QED
      BY <2>1, <2>2, <3>1 DEF OrderRecords
  <2>8. ExecuteWorld' /\ RunningInv'
    <3>1. Gen(order'.world).name = g.name
      BY <2>7 DEF g
    <3> QED
      BY <2>1, <2>2, <2>7, <3>1 DEF ExecuteWorld, RunningInv
  <2> QED
    BY <2>5, <2>6, <2>8 DEF WorldParts
<1>6. CASE doChangeMapAfterStop
  <2> DEFINE s == [name |-> NewName, world |-> order.world, good |-> TRUE]
             S == saves \ Named(saves, s.name)
  <2>1. /\ UNCHANGED <<worlds, stray, loaded, phase, order>>
        /\ step = "install" /\ step' = "launch" /\ want' = order.world /\ pending' = NewName
        /\ Written(s)
    BY <1>6 DEF doChangeMapAfterStop, Promote
  <2>2. Write(S, s) /\ saves' = S \cup {s}
    BY <2>1 DEF Written, Write
  <2>3. s.name = NewName /\ s.world = want' /\ s.good
    BY <2>1
  <2>4. phase = "stopped" /\ order.kind = "change"
    BY <1>0, <2>1 DEF ExecuteWorld
  <2>5. s.world \in MayRun'
    BY <2>3 DEF MayRun
  <2>6. \A t \in saves' : t.name = NewName => t = s
    BY <2>2, <2>3 DEF Named
  <2> HIDE DEF s, S
  <2>7. Anchored'
    BY <2>2, <2>3, <2>5, NewestAnchors, NamesDiffer
  <2>8. PendingInv'
    BY <2>1, <2>3, <2>4, <2>6 DEF PendingInv
  <2>9. ExecuteWorld' /\ RunningInv'
    BY <2>1, <2>4 DEF ExecuteWorld, RunningInv
  <2> QED
    BY <2>7, <2>8, <2>9 DEF WorldParts
<1>7. ASSUME LaunchMap \/ Launch PROVE WorldParts'
  <2>1. /\ UNCHANGED <<worlds, want, stray, saves, newer, pending>>
        /\ step \in {"idle", "launch"} /\ step' = "idle"
    BY <1>7 DEF LaunchMap, Launch, Ends
  <2>2. \/ phase' = phase /\ loaded' = loaded
        \/ phase' = "starting" /\ loaded'.world \in MayRun
    <3>1. ASSUME NEW m, NEW f \in selectLaunchSave(m), Started(f), m # NoSave => m = pending
          PROVE  phase' = "starting" /\ loaded'.world \in MayRun
      <4>1. f.world \in MayRun
        BY <1>0, <3>1, LaunchedMayRun
      <4> QED
        BY <3>1, <4>1 DEF Started
    <3>2. CASE Launch
      <4>1. PICK f \in selectLaunchSave(NoSave) : Started(f)
        BY <3>2 DEF Launch
      <4> QED
        BY <3>1, <4>1
    <3>3. CASE LaunchMap
      <4> DEFINE m == IF order.kind = "reset" THEN Gen(order.world).name ELSE NewName
      <4>1. m = pending
        BY <1>0, <3>3 DEF LaunchMap, ExecuteWorld
      <4>2. (\E f \in selectLaunchSave(m) : Started(f)) \/ UNCHANGED gameVars
        BY <3>3 DEF LaunchMap
      <4> HIDE DEF m
      <4> QED
        BY <3>1, <4>1, <4>2
    <3> QED
      BY <1>7, <3>2, <3>3
  <2>3. MayRun' = MayRun
    BY <2>1 DEF MayRun
  <2>4. Anchored'
    BY <1>0, <2>1, <2>3 DEF Anchored
  <2>5. PendingInv'
    BY <1>0, <2>1, <2>2 DEF PendingInv
  <2>6. ExecuteWorld' /\ RunningInv'
    BY <1>0, <2>1, <2>2, <2>3 DEF ExecuteWorld, RunningInv
  <2> QED
    BY <2>4, <2>5, <2>6 DEF WorldParts
<1>8. CASE Ready
  <2>1. /\ UNCHANGED <<worlds, want, stray, saves, newer, loaded, step, order>>
        /\ pending' = NoSave /\ step = "idle" /\ phase # "stopped"
    BY <1>8 DEF Ready
  <2>2. MayRun' = MayRun
    BY <2>1 DEF MayRun
  <2>3. Anchored' /\ RunningInv'
    BY <1>0, <2>1, <2>2 DEF Anchored, RunningInv
  <2>4. PendingInv' /\ ExecuteWorld'
    BY <2>1, NamesDiffer DEF PendingInv, ExecuteWorld
  <2> QED
    BY <2>3, <2>4 DEF WorldParts
<1>9. CASE Autosave
  <2> DEFINE s == [name |-> AutoName, world |-> loaded.world, good |-> TRUE]
  <2>1. /\ UNCHANGED <<worlds, want, stray, loaded, phase, pending, step, order>>
        /\ phase = "running" /\ step = "idle" /\ Written(s)
    BY <1>9 DEF Autosave
  <2>2. MayRun' = MayRun /\ s.world \in MayRun /\ s.good
    BY <1>0, <2>1 DEF MayRun, RunningInv
  <2> HIDE DEF s
  <2>3. Anchored'
    BY <1>0, <2>1, <2>2, WrittenAnchors
  <2>4. PendingInv' /\ ExecuteWorld' /\ RunningInv'
    BY <1>0, <2>1, <2>2, NamesDiffer DEF PendingInv, ExecuteWorld, RunningInv
  <2> QED
    BY <2>3, <2>4 DEF WorldParts
<1>10. CASE GameCrash
  <2>1. /\ UNCHANGED <<worlds, want, stray, newer, loaded, pending, step, order>>
        /\ phase' = "stopped" /\ step = "idle"
    BY <1>10 DEF GameCrash
  <2>2. PICK damaged \in {{}, Named(saves, AutoName)} :
          saves' = (saves \ damaged) \cup {[t EXCEPT !.good = FALSE] : t \in damaged}
    BY <1>10 DEF GameCrash
  <2>3. MayRun' = MayRun
    BY <2>1 DEF MayRun
  <2>4. \A t \in damaged : t.name = AutoName /\ t \in saves
    BY DEF Named
  <2>5. \A t \in saves' : \E u \in saves : t.name = u.name /\ t.world = u.world
    <3> DEFINE f == FALSE
    <3>1. f \in BOOLEAN
      OBVIOUS
    <3>2. saves' = (saves \ damaged) \cup {[t EXCEPT !.good = f] : t \in damaged}
      BY <2>2
    <3> HIDE DEF f
    <3>3. ASSUME NEW t \in damaged
          PROVE  [t EXCEPT !.good = f].name = t.name /\ [t EXCEPT !.good = f].world = t.world
      <4>1. t \in SaveRecords
        BY <2>4 DEF WorldTypes, SavesOK
      <4> QED
        BY <4>1 DEF SaveRecords
    <3> QED
      BY <2>4, <3>2, <3>3
  <2>6. \A u \in saves : u.name # AutoName => u \in saves'
    BY <2>2, <2>4
  <2>7. Anchored'
    <3> SUFFICES ASSUME NEW t \in saves'
                 PROVE  \/ t.world \in MayRun
                        \/ \E u \in saves' : /\ u.good /\ u.name # AutoName /\ u.world \in MayRun
                                             /\ <<u.name, t.name>> \in newer
      BY <2>1, <2>3 DEF Anchored
    <3>1. PICK v \in saves : t.name = v.name /\ t.world = v.world
      BY <2>5
    <3>2. \/ v.world \in MayRun
          \/ \E u \in saves : /\ u.good /\ u.name # AutoName /\ u.world \in MayRun
                              /\ <<u.name, v.name>> \in newer
      BY <1>0 DEF Anchored
    <3> QED
      BY <2>6, <3>1, <3>2
  <2>8. PendingInv'
    BY <1>0, <2>1, <2>5 DEF PendingInv
  <2>9. ExecuteWorld' /\ RunningInv'
    BY <2>1 DEF ExecuteWorld, RunningInv
  <2> QED
    BY <2>7, <2>8, <2>9 DEF WorldParts
<1>11. CASE NewMapRuns
  <2> DEFINE S == saves \ Retired(Gen(worlds').name)
             s == Gen(worlds')
  <2>1. /\ UNCHANGED <<stray, loaded, phase, step, order>>
        /\ worlds' = worlds + 1 /\ want' = worlds' /\ pending' = s.name /\ Write(S, s)
    BY <1>11 DEF NewMapRuns
  <2>2. phase = "stopped" /\ step = "idle"
    BY <1>11 DEF NewMapRuns
  <2>3. s.name = <<"gen", want'>> /\ s.world \in MayRun' /\ s.good /\ s.name # AutoName
    BY <2>1, NamesDiffer DEF MayRun
  <2> HIDE DEF S, s
  <2>4. Anchored'
    BY <2>1, <2>3, NewestAnchors
  <2>5. PendingInv' /\ ExecuteWorld' /\ RunningInv'
    BY <2>1, <2>2, <2>3, NamesDiffer DEF PendingInv, ExecuteWorld, RunningInv
  <2> QED
    BY <2>4, <2>5 DEF WorldParts
<1>12. CASE ChatWireEnds
  <2>1. /\ UNCHANGED <<worlds, want, pending>> /\ Stopped /\ phase' = "stopped"
        /\ step' = "idle" /\ order' = NoOrder
        /\ stray' = IF step = "commit" THEN stray \cup {worlds} ELSE stray
    BY <1>12 DEF ChatWireEnds, Stopped
  <2>2. MayRun' = MayRun
    BY <2>1 DEF MayRun
  <2>3. Anchored'
    BY <1>0, <2>1, <2>2, StoppedAnchors
  <2>4. PendingInv'
    <3>1. CASE phase = "running"
      BY <1>0, <2>1, <3>1, NamesDiffer DEF PendingInv
    <3>2. CASE phase # "running"
      BY <1>0, <2>1, <3>2 DEF PendingInv, Stopped
    <3> QED
      BY <3>1, <3>2
  <2>5. ExecuteWorld' /\ RunningInv'
    BY <2>1 DEF ExecuteWorld, RunningInv
  <2> QED
    BY <2>3, <2>4, <2>5 DEF WorldParts
<1> QED
  BY <1>1, <1>2, <1>3, <1>4, <1>5, <1>6, <1>7, <1>8, <1>9, <1>10, <1>11, <1>12 DEF MapNext

\* A server that is up runs the world that was last asked for, or one whose generation
\* ChatWire did not survive: no failed launch, crash before the first autosave, torn
\* save or newer file of the old map brings the old one back (selectLaunchSave,
\* doChangeMapAfterStop, GenNewMap), unless a console generation met a running server.
THEOREM WorldIsTheOneAsked == MapSpec => []WorldAsAsked
<1>1. MapInit => WorldTypes /\ WorldInv
  BY WorldTypesInit, WorldInitInv
<1>2. WorldTypes /\ WorldInv /\ [MapNext]_mapVars => WorldTypes' /\ WorldInv'
  <2> SUFFICES ASSUME WorldTypes, WorldInv, [MapNext]_mapVars PROVE WorldTypes' /\ WorldInv'
    OBVIOUS
  <2>1. WorldTypes' /\ overlap \in BOOLEAN
    BY WorldTypesStep DEF WorldTypes
  <2>2. ASSUME ~overlap' PROVE WorldParts'
    <3>1. ~overlap
      BY <2>2, OverlapStays
    <3>2. WorldParts
      BY <3>1 DEF WorldInv, WorldParts
    <3> QED
      BY <2>1, <2>2, <3>2, WorldPartsStep
  <2> QED
    BY <2>1, <2>2 DEF WorldInv, WorldParts
<1>3. WorldInv => WorldAsAsked
  <2> SUFFICES ASSUME WorldInv, ~overlap, phase # "stopped"
               PROVE  loaded.world \in {want} \cup stray
    BY DEF WorldAsAsked
  <2>1. step = "idle" /\ loaded.world \in MayRun
    BY DEF WorldInv, ExecuteWorld, RunningInv
  <2> QED
    BY <2>1 DEF MayRun
<1> QED
  BY <1>1, <1>2, <1>3, PTL DEF MapSpec

-----------------------------------------------------------------------------
(* The saves folder, and the types of the state *)

\* Names are unique, and of two saves one is the newer.
FolderInv ==
  /\ \A t, u \in saves : t.name = u.name => t = u
  /\ newer \subseteq Names(saves) \X Names(saves)
  /\ \A m, n \in Names(saves) : m # n => (<<m, n>> \in newer <=> <<n, m>> \notin newer)

\* A save that is pending, or generated and not yet recorded, is there.
KeptInv ==
  /\ pending # NoSave => pending \in Names(saves)
  /\ step = "commit" => Gen(worlds).name \in Names(saves)

TypesInv ==
  /\ clock \in 1 .. MaxClock /\ worlds <= MaxWorlds /\ schedule \in Schedules
  /\ phase \in {"stopped", "starting", "running"}
  /\ step \in {"idle", "generate", "install", "commit", "launch"}

MapStateInv == WorldTypes /\ FolderInv /\ KeptInv /\ TypesInv

LEMMA NamedIs ==
  /\ \A S, n : Named(S, n) # {} <=> n \in Names(S)
  /\ \A S, n : n \notin Names(S \ Named(S, n))
  /\ \A S, s : Names(S \cup {s}) = Names(S) \cup {s.name}
  BY DEF Named, Names

\* A save of a new name joins a part of the folder.
LEMMA WriteFolder ==
  ASSUME FolderInv, NEW S, S \subseteq saves, NEW s, s.name \notin Names(S), Write(S, s)
  PROVE  FolderInv' /\ Names(saves') = Names(S) \cup {s.name}
<1>1. /\ saves' = S \cup {s}
      /\ newer' = Ages(S) \cup {<<s.name, n>> : n \in Names(S)}
  BY DEF Write
<1>2. Names(saves') = Names(S) \cup {s.name} /\ Names(S) \subseteq Names(saves)
  BY <1>1 DEF Names
<1>3. \A t, u \in saves' : t.name = u.name => t = u
  BY <1>1 DEF FolderInv, Names
<1>4. \A p : p \in newer' <=> \/ p \in newer /\ p[1] \in Names(S) /\ p[2] \in Names(S)
                              \/ \E n \in Names(S) : p = <<s.name, n>>
  BY <1>1 DEF Ages
<1>5. newer' \subseteq Names(saves') \X Names(saves')
  <2>1. \A p \in newer : p = <<p[1], p[2]>>
    BY DEF FolderInv
  <2> QED
    BY <1>2, <1>4, <2>1
<1>6. \A m, n : <<m, n>> \in newer' <=> \/ <<m, n>> \in newer /\ m \in Names(S) /\ n \in Names(S)
                                        \/ m = s.name /\ n \in Names(S)
  BY <1>4
<1>7. ASSUME NEW m \in Names(saves'), NEW n \in Names(saves'), m # n
      PROVE  <<m, n>> \in newer' <=> <<n, m>> \notin newer'
  <2>1. CASE m = s.name
    BY <1>2, <1>6, <1>7, <2>1
  <2>2. CASE n = s.name
    BY <1>2, <1>6, <1>7, <2>2
  <2>3. CASE m # s.name /\ n # s.name
    <3>1. m \in Names(S) /\ n \in Names(S) /\ m \in Names(saves) /\ n \in Names(saves)
      BY <1>2, <1>7, <2>3
    <3> QED
      BY <1>6, <1>7, <2>3, <3>1 DEF FolderInv
  <2> QED
    BY <2>1, <2>2, <2>3
<1> QED
  BY <1>2, <1>3, <1>5, <1>7 DEF FolderInv

LEMMA WrittenFolder ==
  ASSUME FolderInv, NEW s, Written(s)
  PROVE  FolderInv' /\ Names(saves') = Names(saves) \cup {s.name}
<1> DEFINE S == saves \ Named(saves, s.name)
<1>1. S \subseteq saves /\ s.name \notin Names(S) /\ Write(S, s)
  BY NamedIs DEF Written
<1>2. Names(S) \cup {s.name} = Names(saves) \cup {s.name}
  BY DEF Names, Named
<1> HIDE DEF S
<1> QED
  BY <1>1, <1>2, WriteFolder

LEMMA StoppedFolder ==
  ASSUME FolderInv, Stopped
  PROVE  FolderInv' /\ Names(saves) \subseteq Names(saves')
<1>1. CASE phase = "running"
  BY <1>1, WrittenFolder DEF Stopped
<1>2. CASE phase # "running"
  BY <1>2 DEF Stopped, folder, FolderInv
<1> QED
  BY <1>1, <1>2

\* A map that is generated has a name of its own.
LEMMA NewMapIsNew ==
  ASSUME WorldTypes PROVE Gen(worlds + 1).name \notin Names(saves)
<1> SUFFICES ASSUME NEW t \in saves, t.name = Gen(worlds + 1).name PROVE FALSE
  BY DEF Names
<1>1. t.name = <<"gen", worlds + 1>> /\ IsGen(t)
  BY NamesDiffer DEF IsGen
<1>2. t.world \in Nat /\ t.world <= worlds /\ t.name = <<"gen", t.world>> /\ worlds \in Nat
  BY <1>1 DEF WorldTypes, SavesOK, SaveRecords
<1>3. t.world = worlds + 1
  BY <1>1, <1>2, NamesDiffer
<1> QED
  BY <1>2, <1>3

\* Retiring maps leaves the one that is named.
LEMMA RetireFolder ==
  ASSUME FolderInv, NEW g, saves' = saves \ Retired(g), newer' = Ages(saves')
  PROVE  FolderInv' /\ (g \in Names(saves) => g \in Names(saves'))
<1>1. saves' \subseteq saves /\ Names(saves') \subseteq Names(saves)
  BY DEF Names
<1>2. \A p : p \in newer' <=> p \in newer /\ p[1] \in Names(saves') /\ p[2] \in Names(saves')
  BY DEF Ages
<1>3. newer' \subseteq Names(saves') \X Names(saves')
  <2> SUFFICES ASSUME NEW p \in newer' PROVE p \in Names(saves') \X Names(saves')
    OBVIOUS
  <2>1. p \in newer /\ p[1] \in Names(saves') /\ p[2] \in Names(saves')
    BY <1>2
  <2>2. p = <<p[1], p[2]>>
    BY <2>1 DEF FolderInv
  <2> QED
    BY <2>1, <2>2
<1>4. \A m, n \in Names(saves') : m # n => (<<m, n>> \in newer' <=> <<n, m>> \notin newer')
  <2>1. \A m, n \in Names(saves') : <<m, n>> \in newer' <=> <<m, n>> \in newer
    BY <1>2
  <2> QED
    BY <1>1, <2>1 DEF FolderInv
<1>5. g \in Names(saves) => g \in Names(saves')
  BY DEF Names, Retired
<1> QED
  BY <1>1, <1>3, <1>4, <1>5 DEF FolderInv

\* A crash may tear the autosave; it stays in the folder.
LEMMA TornFolder ==
  ASSUME WorldTypes, FolderInv, GameCrash
  PROVE  FolderInv' /\ Names(saves') = Names(saves)
<1> DEFINE f == FALSE
           Torn(t) == [t EXCEPT !.good = f]
<1>1. PICK damaged \in {{}, Named(saves, AutoName)} :
        saves' = (saves \ damaged) \cup {Torn(t) : t \in damaged}
  BY DEF GameCrash
<1>2. damaged \subseteq saves /\ newer' = newer
  BY DEF Named, GameCrash
<1>3. f \in BOOLEAN
  OBVIOUS
<1> HIDE DEF f
<1>4. \A t \in damaged : Torn(t).name = t.name
  <2>1. \A t \in damaged : t \in SaveRecords
    BY <1>2 DEF WorldTypes, SavesOK
  <2> QED
    BY <1>3, <2>1 DEF SaveRecords
<1> HIDE DEF Torn
<1>5. \A t \in saves' : \E u \in saves : /\ t.name = u.name
                                         /\ t = IF u \in damaged THEN Torn(u) ELSE u
  BY <1>1, <1>2, <1>4
<1>6. \A u \in saves : \E t \in saves' : t.name = u.name
  BY <1>1, <1>2, <1>4
<1>7. Names(saves') = Names(saves)
  BY <1>5, <1>6 DEF Names
<1>8. \A t, u \in saves' : t.name = u.name => t = u
  BY <1>5 DEF FolderInv
<1> QED
  BY <1>2, <1>7, <1>8 DEF FolderInv

\* No step leaves the schedule in another form.
LEMMA ScheduleTyped ==
  ASSUME clock \in Nat, schedule \in Schedules, [MapNext]_mapVars PROVE schedule' \in Schedules
<1>1. CASE CheckMapReset
  <2>1. \/ schedule' \in {schedule, AdvanceReset(schedule)}
        \/ schedule' = [schedule EXCEPT !.next = 0]
    BY <1>1 DEF CheckMapReset
  <2> QED
    BY <2>1, AdvanceLater, NoDate
<1>2. CASE SetSchedule
  BY <1>2, ScheduleSet
<1>3. CASE SkipReset
  BY <1>3, ResetSkipped
<1>4. CASE MapFails \/ LaunchMap
  <2>1. \E ok \in BOOLEAN : Answered(ok)
    BY <1>4 DEF MapFails, LaunchMap, Ends
  <2> QED
    BY <2>1, AnsweredDate
<1>5. CASE Commit \/ NewMapRuns
  <2>1. schedule' = [CommitSchedule(schedule) EXCEPT !.skip = FALSE]
    BY <1>5 DEF Commit, NewMapRuns
  <2> QED
    BY <2>1, CommitAhead
<1>6. CASE \/ TickClock \/ ChangeMap \/ MapReset \/ Execute \/ GenNewMap \/ doChangeMapAfterStop
           \/ Launch \/ Ready \/ Autosave \/ GameCrash \/ NewMap \/ ChatWireEnds
           \/ UNCHANGED mapVars
  BY <1>6 DEF TickClock, ChangeMap, MapReset, Execute, GenNewMap, doChangeMapAfterStop, Launch,
              Ready, Autosave, GameCrash, NewMap, ChatWireEnds, mapVars, cronVars
<1> QED
  BY <1>1, <1>2, <1>3, <1>4, <1>5, <1>6 DEF MapNext

LEMMA TypesStep == WorldTypes /\ TypesInv /\ [MapNext]_mapVars => TypesInv'
<1> SUFFICES ASSUME WorldTypes, TypesInv, [MapNext]_mapVars PROVE TypesInv'
  OBVIOUS
<1> USE DEF mgrVars, gameVars, folder
<1>0. /\ clock \in Nat \ {0} /\ clock <= MaxClock /\ worlds \in Nat /\ worlds <= MaxWorlds
      /\ schedule \in Schedules
  BY MapNumbers DEF TypesInv, WorldTypes
<1>1. clock' \in 1 .. MaxClock
  <2>1. CASE TickClock
    BY <1>0, <2>1, MapNumbers DEF TickClock
  <2>2. CASE ~TickClock
    <3>1. clock' = clock
      BY <2>2
      DEF MapNext, mapVars, CheckMapReset, SetSchedule, SkipReset, ChangeMap, MapReset, Execute,
          MapFails, GenNewMap, Commit, doChangeMapAfterStop, LaunchMap, Launch, Ready, Autosave,
          GameCrash, NewMap, NewMapRuns, ChatWireEnds
    <3> QED
      BY <3>1 DEF TypesInv
  <2> QED
    BY <2>1, <2>2
<1>2. worlds' <= MaxWorlds
  <2>1. CASE GenNewMap \/ NewMapRuns
    <3>1. worlds < MaxWorlds /\ worlds' = worlds + 1
      BY <2>1 DEF GenNewMap, NewMapRuns
    <3> QED
      BY <1>0, <3>1, MapConstants
  <2>2. CASE ~(GenNewMap \/ NewMapRuns)
    <3>1. worlds' = worlds
      BY <2>2
      DEF MapNext, mapVars, TickClock, CheckMapReset, SetSchedule, SkipReset, ChangeMap, MapReset,
          Execute, MapFails, Commit, doChangeMapAfterStop, LaunchMap, Launch, Ready, Autosave,
          GameCrash, NewMap, ChatWireEnds
    <3> QED
      BY <1>0, <3>1
  <2> QED
    BY <2>1, <2>2
<1>3. schedule' \in Schedules
  BY <1>0, ScheduleTyped
<1>4. phase' \in {"stopped", "starting", "running"}
  <2>1. phase' \in {phase, "stopped", "starting", "running"}
    BY DEF MapNext, mapVars, TickClock, CheckMapReset, SetSchedule, SkipReset, ChangeMap, MapReset,
           Execute, Stopped, MapFails, GenNewMap, Commit, doChangeMapAfterStop, LaunchMap, Started,
           Launch, Ready, Autosave, GameCrash, NewMap, NewMapRuns, ChatWireEnds
  <2> QED
    BY <2>1 DEF TypesInv
<1>5. step' \in {"idle", "generate", "install", "commit", "launch"}
  <2>1. CASE Execute
    <3>1. Head(queue) \in OrderRecords /\ Head(queue).kind # "none"
      BY <1>0, <2>1, OrderTaken DEF Execute, WorldTypes
    <3> QED
      BY <2>1, <3>1 DEF Execute, Steps, OrderRecords
  <2>2. CASE ~Execute
    <3>1. step' \in {step, "idle", "commit", "launch"}
      BY <2>2
      DEF MapNext, mapVars, TickClock, CheckMapReset, SetSchedule, SkipReset, ChangeMap, MapReset,
          MapFails, GenNewMap, Commit, doChangeMapAfterStop, LaunchMap, Ends,
          Launch, Ready, Autosave, GameCrash, NewMap, NewMapRuns, ChatWireEnds
    <3> QED
      BY <3>1 DEF TypesInv
  <2> QED
    BY <2>1, <2>2
<1> QED
  BY <1>1, <1>2, <1>3, <1>4, <1>5 DEF TypesInv

LEMMA FolderStep ==
  WorldTypes /\ FolderInv /\ KeptInv /\ [MapNext]_mapVars => FolderInv' /\ KeptInv'
<1> SUFFICES ASSUME WorldTypes, FolderInv, KeptInv, [MapNext]_mapVars PROVE FolderInv' /\ KeptInv'
  OBVIOUS
<1> USE DEF mgrVars, gameVars, folder
<1>1. CASE \/ TickClock \/ CheckMapReset \/ SetSchedule \/ SkipReset \/ ChangeMap \/ MapReset
           \/ MapFails \/ LaunchMap \/ Launch \/ NewMap \/ Ready \/ UNCHANGED mapVars
  <2>1. /\ UNCHANGED <<saves, newer, worlds>> /\ pending' \in {pending, NoSave}
        /\ step' \in {step, "idle"}
    BY <1>1 DEF mapVars, TickClock, CheckMapReset, SetSchedule, SkipReset, ChangeMap, MapReset,
                MapFails, LaunchMap, Ends, Launch, NewMap, Ready
  <2> QED
    BY <2>1 DEF FolderInv, KeptInv
<1>2. CASE Execute \/ ChatWireEnds
  <2>1. Stopped /\ UNCHANGED <<worlds, pending>> /\ step' # "commit"
    <3>1. CASE Execute
      <4>1. Head(queue) \in OrderRecords /\ Head(queue).kind # "none"
        BY <3>1, OrderTaken DEF Execute, WorldTypes
      <4> QED
        BY <3>1, <4>1 DEF Execute, Steps, OrderRecords
    <3>2. CASE ChatWireEnds
      BY <3>2 DEF ChatWireEnds
    <3> QED
      BY <1>2, <3>1, <3>2
  <2> QED
    BY <2>1, StoppedFolder DEF KeptInv
<1>3. CASE GenNewMap
  <2>1. Written(Gen(worlds')) /\ pending' = pending
    BY <1>3 DEF GenNewMap
  <2> QED
    BY <2>1, WrittenFolder DEF KeptInv
<1>4. CASE Commit
  <2> DEFINE g == Gen(worlds).name
  <2>1. /\ saves' = saves \ Retired(g) /\ newer' = Ages(saves')
        /\ pending' = g /\ step = "commit" /\ step' = "launch"
    BY <1>4 DEF Commit, Pend
  <2>2. g \in Names(saves)
    BY <2>1 DEF KeptInv
  <2> HIDE DEF g
  <2> QED
    BY <2>1, <2>2, RetireFolder DEF KeptInv
<1>5. CASE doChangeMapAfterStop
  <2> DEFINE s == [name |-> NewName, world |-> order.world, good |-> TRUE]
  <2>1. Written(s) /\ pending' = s.name /\ step' = "launch"
    BY <1>5 DEF doChangeMapAfterStop, Promote
  <2> HIDE DEF s
  <2> QED
    BY <2>1, WrittenFolder DEF KeptInv
<1>6. CASE Autosave
  <2> DEFINE s == [name |-> AutoName, world |-> loaded.world, good |-> TRUE]
  <2>1. Written(s) /\ UNCHANGED <<pending, step, worlds>>
    BY <1>6 DEF Autosave
  <2> HIDE DEF s
  <2> QED
    BY <2>1, WrittenFolder DEF KeptInv
<1>7. CASE GameCrash
  <2>1. UNCHANGED <<pending, step, worlds>>
    BY <1>7 DEF GameCrash
  <2> QED
    BY <1>7, <2>1, TornFolder DEF KeptInv
<1>8. CASE NewMapRuns
  <2> DEFINE g == Gen(worlds')
             S == saves \ Retired(g.name)
  <2>1. /\ worlds' = worlds + 1 /\ pending' = g.name /\ Write(S, g)
        /\ step # "commit" /\ step' = step
    BY <1>8 DEF NewMapRuns
  <2>2. S \subseteq saves /\ g.name \notin Names(S)
    BY <2>1, NewMapIsNew DEF Names
  <2> HIDE DEF g, S
  <2> QED
    BY <2>1, <2>2, WriteFolder DEF KeptInv
<1> QED
  BY <1>1, <1>2, <1>3, <1>4, <1>5, <1>6, <1>7, <1>8 DEF MapNext

LEMMA MapStateInit == MapInit => MapStateInv
<1> SUFFICES ASSUME MapInit PROVE MapStateInv
  OBVIOUS
<1>1. schedule \in Schedules
  BY CronInitInv DEF CronInv, ScheduleInv
<1>2. FolderInv
  <2>1. \A m, n \in Names(saves) : m = n
    BY DEF MapInit, Names
  <2> QED
    BY <2>1 DEF MapInit, FolderInv
<1>3. KeptInv
  BY DEF MapInit, KeptInv
<1>4. TypesInv
  BY <1>1, MapConstants DEF MapInit, TypesInv
<1> QED
  BY <1>2, <1>3, <1>4, WorldTypesInit DEF MapStateInv

LEMMA MapTyped == MapStateInv => MapTypeOK
<1> SUFFICES ASSUME MapStateInv PROVE MapTypeOK
  OBVIOUS
<1>1. worlds \in 0 .. MaxWorlds /\ want \in 0 .. worlds
  BY MapConstants DEF MapStateInv, WorldTypes, TypesInv
<1>2. schedule.interval \in Intervals \cup {0}
  BY DEF MapStateInv, TypesInv, Schedules
<1>3. pending # NoSave => Named(saves, pending) # {}
  BY NamedIs DEF MapStateInv, KeptInv
<1> QED
  BY <1>1, <1>2, <1>3 DEF MapStateInv, TypesInv, FolderInv, MapTypeOK

LEMMA MapStateStep == MapStateInv /\ [MapNext]_mapVars => MapStateInv'
  BY WorldTypesStep, FolderStep, TypesStep DEF MapStateInv

\* The saves folder never holds two saves of one name or of one age, and the save that a
\* launch has to find (PendingSave) is there until the server is up, whatever is written,
\* torn or retired meanwhile (GenNewMap, doChangeMapAfterStop, GameCrash); clock,
\* schedule, phase and step keep their types.
THEOREM MapTypeCorrect == MapSpec => []MapTypeOK
  BY MapStateInit, MapStateStep, MapTyped, PTL DEF MapSpec

-----------------------------------------------------------------------------
(* The six components side by side *)

GameInv ==
  /\ InstallerInv /\ ModsInv /\ MapStateInv /\ VotesInv /\ VoteLimits
  /\ StatusInv /\ MessageInv /\ BoundInv

\* A step of one component leaves the others as they are.
LEMMA GameSteps ==
  [GameNext]_gameParts =>
    /\ [InstallerNext]_installerVars /\ [ModsNext]_modsVars /\ [MapNext]_mapVars
    /\ [VotesNext]_voteVars /\ [StatusNext]_statusVars /\ [MessagesNext]_messageVars
  BY DEF GameNext, gameParts

\* The state of every component around the game keeps its type, whatever restarts, fails
\* or is asked for meanwhile: the versions on disk and the update under way (Installer),
\* the mods and the plan for them (Mods), the saves and the schedule (MapCycle), the votes
\* (Votes), the operation that is shown (Status) and the messages under way (Messages).
THEOREM GameTypeCorrect == GameSpec => []GameTypeOK
<1>1. GameInit => GameInv
  BY InstallerInitInv, ModsInitInv, MapStateInit, VotesInitInv, LimitsInit, StatusInitInv,
     MessageInit, BoundInit
  DEF GameInit, GameInv
<1>2. GameInv /\ [GameNext]_gameParts => GameInv'
  <2> SUFFICES ASSUME GameInv, [GameNext]_gameParts PROVE GameInv'
    OBVIOUS
  <2>1. InstallerInv' /\ ModsInv' /\ MapStateInv'
    BY GameSteps, InstallerStep, ModsStep, MapStateStep DEF GameInv
  <2>2. VotesInv' /\ VoteLimits' /\ StatusInv' /\ MessageInv' /\ BoundInv'
    BY GameSteps, VotesStep, LimitsStep, StatusStep, MessageStep, BoundStep DEF GameInv
  <2> QED
    BY <2>1, <2>2 DEF GameInv
<1>3. GameInv => GameTypeOK
  <2> SUFFICES ASSUME GameInv PROVE GameTypeOK
    OBVIOUS
  <2>1. InstallerTypeOK /\ StatusTypeOK
    BY DEF GameInv, InstallerInv, StatusInv
  <2>2. ModsTypeOK
    BY DEF GameInv, ModsInv
  <2>3. MapTypeOK /\ VotesTypeOK /\ MessagesTypeOK
    BY MapTyped, VotesTyped, MessagesTyped DEF GameInv
  <2> QED
    BY <2>1, <2>2, <2>3 DEF GameTypeOK
<1> QED
  BY <1>1, <1>2, <1>3, PTL DEF GameSpec
=============================================================================
