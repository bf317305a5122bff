------------------------------- MODULE Votes -------------------------------
(***************************************************************************)
(* Map votes (fact/voteMap.go, commands/user/voteMap.go).  A vote is cast  *)
(* under VoteBoxLock, which is kept while a decided map change is carried  *)
(* out.  A map reset and the moderators' map list empty the box without    *)
(* the lock; a vote that is being written then meets an empty list, which  *)
(* ends the process (an index out of range).  Writing votes.dat is taken   *)
(* to succeed; WriteVotes only logs that it did not.                       *)
(*                                                                         *)
(* A definition whose comment says "Fault" is a wrong variant of the one   *)
(* that follows it and is used by no specification.                        *)
(***************************************************************************)
EXTENDS Integers, Sequences, FiniteSets

CONSTANTS
  Voters, Selections,
  Strong,          \* voters whose vote counts twice: moderators, supporters, veterans
  Moderators,
  VotesNeeded, MapCooldown, VoteCooldown, VoteExpire, MaxVoteChanges, MaxVotesPerMap,
  MaxTicks         \* bound on time

ASSUME VoteConstants ==
  /\ Moderators \subseteq Strong /\ Strong \subseteq Voters /\ IsFiniteSet(Voters)
  /\ \A n \in {VotesNeeded, MapCooldown, VoteCooldown, VoteExpire, MaxVoteChanges,
               MaxVotesPerMap, MaxTicks} : n \in Nat
  /\ MaxTicks >= 1

VARIABLES
  tick,
  box,        \* glob.VoteBox.Votes
  last,       \* glob.VoteBox.LastMapChange; 0: long ago
  voteFile,   \* votes.dat, without the time of the last change; NoFile before the first write
  hold,       \* the holder of VoteBoxLock: [at, who, sel, pos, chosen]
  ballots,    \* ghost: per voter the last ballot since the box was emptied
  decided     \* ghost: the last decision: [at, points, gap]

voteVars == <<tick, box, last, voteFile, hold, ballots, decided>>

NoHold   == [at |-> "free"]
NoBallot == [sel |-> "none", at |-> 0]
NoFile   == <<NoBallot>>

\* A point for each vote, and another one for those of strong voters.
Points(who) == Cardinality(DOMAIN who) + Cardinality({i \in DOMAIN who : who[i] \in Strong})

-----------------------------------------------------------------------------
(* The tally *)

Stale(v) == tick - v.at > VoteExpire \/ v.expired

\* Fault: votes that expired are marked and counted all the same.
TallyMapVotes_Expired(S) ==
  [i \in DOMAIN S |->
     IF S[i].voided THEN [S[i] EXCEPT !.changes = 0]
     ELSE IF Stale(S[i]) THEN [S[i] EXCEPT !.changes = 0]
     ELSE S[i]]

\* The first pass: voided and expired votes may be changed again.
TallyMapVotes(S) ==
  [i \in DOMAIN S |->
     IF S[i].voided THEN [S[i] EXCEPT !.changes = 0]
     ELSE IF Stale(S[i]) THEN [S[i] EXCEPT !.expired = TRUE, !.changes = 0]
     ELSE S[i]]

\* The second pass: the points of a selection.
Tally(S, s) ==
  LET valid == {i \in DOMAIN S : S[i].sel = s /\ ~S[i].voided /\ ~S[i].expired}
  IN  Points([i \in valid |-> S[i].who])

Winners(S) == {s \in Selections : Tally(S, s) >= VotesNeeded}

-----------------------------------------------------------------------------
(* CheckVote *)

Cooling == last # 0 /\ tick - last < MapCooldown

\* The checks before the list is read: Factorio is up, the role, the save, the cooldown.
CheckVote(v, s) ==
  /\ hold = NoHold /\ ~Cooling
  /\ hold' = [at |-> "find", who |-> v, sel |-> s]
  /\ UNCHANGED <<tick, box, last, voteFile, ballots, decided>>

Position(S, v) == {i \in DOMAIN S : S[i].who = v}

Changes(v, s) == v.sel # s /\ ~v.voided /\ v.changes < MaxVoteChanges

\* A vote that is neither changed nor old enough to be cast again.
Refused(v, s) ==
  \/ v.changes >= MaxVoteChanges
  \/ tick - v.at < VoteCooldown
  \/ v.who \notin Moderators /\ v.total >= MaxVotesPerMap

\* The list is counted and searched for an earlier vote of the same user.
FindVote ==
  /\ hold.at = "find"
  /\ box' = TallyMapVotes(box)
  /\ LET P == Position(box', hold.who) IN
     \/ /\ P = {}
        /\ hold' = [at |-> "write", who |-> hold.who, sel |-> hold.sel, pos |-> 0, changes |-> FALSE]
     \/ \E i \in P :
          IF Changes(box'[i], hold.sel) \/ ~Refused(box'[i], hold.sel)
          THEN hold' = [at |-> "write", who |-> hold.who, sel |-> hold.sel, pos |-> i,
                        changes |-> Changes(box'[i], hold.sel)]
          ELSE hold' = NoHold
  /\ UNCHANGED <<tick, last, voteFile, ballots, decided>>

NewVote(n) ==
  [who |-> hold.who, sel |-> hold.sel, at |-> tick, voided |-> FALSE,
   expired |-> FALSE, changes |-> 0, total |-> n]

Recorded ==
  IF hold.changes
  THEN [box EXCEPT ![hold.pos].sel = hold.sel, ![hold.pos].at = tick,
                   ![hold.pos].expired = FALSE, ![hold.pos].changes = @ + 1,
                   ![hold.pos].total = @ + 1]
  ELSE IF hold.pos # 0 THEN [box EXCEPT ![hold.pos] = NewVote(1)]
  ELSE Append(box, NewVote(0))

Emptied(S) == <<>>

\* The points of the voters whose last ballot is for s and still counts.
TruePoints(B, s) ==
  LET valid == {v \in Voters : B[v].sel = s /\ tick - B[v].at <= VoteExpire}
  IN  Points([v \in valid |-> v])

NoBallots == [v \in Voters |-> NoBallot]

\* The vote is written and counted; a decision empties the box and is saved first.
WriteVote ==
  /\ hold.at = "write" /\ hold.pos <= Len(box)
  /\ LET S == TallyMapVotes(Recorded)
         B == [ballots EXCEPT ![hold.who] = [sel |-> hold.sel, at |-> tick]] IN
     IF Winners(S) = {}
     THEN /\ box' = S /\ ballots' = B /\ hold' = NoHold
          /\ UNCHANGED <<last, voteFile, decided>>
     ELSE \E s \in Winners(S) :
          /\ last' = tick
          /\ box' = Emptied(S)
          /\ voteFile' = box'
          /\ ballots' = NoBallots
          /\ decided' = [at |-> tick, points |-> TruePoints(B, s),
                         gap |-> IF decided.at = 0 THEN MapCooldown ELSE tick - decided.at]
          /\ hold' = [at |-> "change", who |-> hold.who, sel |-> s]
  /\ UNCHANGED tick

\* DoChangeMap returns: the request is queued, or the reset it waited for has ended.
ChangeDone ==
  /\ hold.at = "change" /\ hold' = NoHold
  /\ UNCHANGED <<tick, box, last, voteFile, ballots, decided>>

-----------------------------------------------------------------------------
(* VoteMap for moderators, and what empties the box without its lock *)

EraseAll ==
  /\ hold = NoHold
  /\ box' = <<>> /\ voteFile' = <<>>
  /\ ballots' = NoBallots
  /\ UNCHANGED <<tick, last, hold, decided>>

VoidAll ==
  /\ hold = NoHold
  /\ box' = TallyMapVotes([i \in DOMAIN box |-> [box[i] EXCEPT !.voided = TRUE]])
  /\ voteFile' = box'
  /\ ballots' = NoBallots
  /\ UNCHANGED <<tick, last, hold, decided>>

\* mapResetAfterStop, and ChangeMap without a save
VoidAllVotes ==
  /\ last' = tick /\ box' = <<>> /\ voteFile' = <<>>
  /\ ballots' = NoBallots
  /\ UNCHANGED <<tick, hold, decided>>

\* The process ends, by a vote written to a list that was emptied or otherwise, and is
\* started again.  The file does not say when the map was changed: the cooldown begins
\* anew; without a file it is almost over (createVoteContainer, initTime).
ReadVotes ==
  /\ box' = IF voteFile = NoFile THEN <<>> ELSE voteFile
  /\ last' = IF voteFile = NoFile THEN 0 ELSE tick
  /\ hold' = NoHold
  /\ ballots' = NoBallots
  /\ UNCHANGED <<tick, voteFile, decided>>

VoteTick ==
  /\ tick < MaxTicks /\ tick' = tick + 1
  /\ UNCHANGED <<box, last, voteFile, hold, ballots, decided>>

VotesInit ==
  /\ tick = 1 /\ box = <<>> /\ last = 0
  /\ voteFile = NoFile
  /\ hold = NoHold
  /\ ballots = NoBallots
  /\ decided = [at |-> 0, points |-> VotesNeeded, gap |-> MapCooldown]

VotesNext ==
  \/ \E v \in Voters, s \in Selections : CheckVote(v, s)
  \/ FindVote \/ WriteVote \/ ChangeDone \/ EraseAll \/ VoidAll \/ VoidAllVotes
  \/ ReadVotes \/ VoteTick

VotesSpec == VotesInit /\ [][VotesNext]_voteVars

-----------------------------------------------------------------------------
(* Properties *)

\* Votes, clock and lock have their types.
VotesTypeOK ==
  /\ tick \in 1 .. MaxTicks /\ last \in 0 .. tick
  /\ \A i \in DOMAIN box : /\ box[i].who \in Voters /\ box[i].sel \in Selections
                           /\ box[i].changes \in 0 .. MaxVoteChanges
  /\ hold.at \in {"free", "find", "write", "change"}

\* Nobody has two votes in the box, also when it is emptied under a vote that is
\* being written.
OneVoteEach ==
  \A i, j \in DOMAIN box : box[i].who = box[j].who => i = j

\* A map change is decided by enough points of different users whose last vote is for
\* it, has not expired, and was cast after the box was last emptied or voided.
DecidedByVotes == decided.points >= VotesNeeded

\* Two decisions are a cooldown apart, whatever restarts lie between them.
ChangesApart == decided.gap >= MapCooldown

\* The map is changed when the users want it: one vote each, enough of them, and not
\* too often.
VotesDecide == OneVoteEach /\ DecidedByVotes /\ ChangesApart
=============================================================================
