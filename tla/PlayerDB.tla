------------------------------ MODULE PlayerDB ------------------------------
(***************************************************************************)
(* The player database (fact/playerDB.go) that several ChatWire instances  *)
(* share through one file.                                                 *)
(*                                                                         *)
(* Each instance keeps all players in memory and remembers which ones it   *)
(* has changed, with the number of the change.  Saving takes a snapshot of *)
(* the changed players, locks the file against the other instances, reads  *)
(* it, puts the snapshot over what it read and renames the result into     *)
(* place.  A watcher reloads the file whenever it has changed.             *)
(*                                                                         *)
(* Of a player only the level is represented; changes of the fields that a *)
(* reload merges by taking the larger value (minutes, last seen) only make *)
(* the player dirty.  The lists written for the game (bans, admins, white  *)
(* list), and the program run with -cleanDB, are left out.  Time is        *)
(* abstracted: delays and debouncing only say that something happens       *)
(* later.  The watcher takes the new time stamp of the file before the     *)
(* reload it has asked for begins, so that both are one step here.         *)
(*                                                                         *)
(* A definition whose comment says "Fault" is a wrong variant of the one   *)
(* that follows it and is used by no specification.                        *)
(***************************************************************************)
EXTENDS Naturals

CONSTANTS
  Instances, Players,
  NoInstance,      \* the file lock is free
  MinLevel, MaxLevel,   \* the range of levels; only 2 and 3 have a meaning here
  Veterans,        \* players whose play time promotes them from level 2 to 3
  MaxChanges,      \* bound on the number of changes all instances make
  MaxRestarts,     \* bound on the number of restarts of all instances
  Events           \* what happens in this instance, see AllEvents

AllEvents == {"fail", "restart", "guild-linked"}
Levels == MinLevel .. MaxLevel
Absent == MaxLevel + 1                \* a player the database does not have
Level == Levels \cup {Absent}
None == MaxLevel + 2

ASSUME PlayerDBConstants ==
  /\ NoInstance \notin Instances
  /\ MinLevel \in Nat /\ MaxLevel \in Nat /\ MaxChanges \in Nat /\ MaxRestarts \in Nat
  /\ Veterans \subseteq Players
  /\ Events \subseteq AllEvents

VARIABLES
  file,                     \* the database file
  lock,                     \* holder of its .lock file
  list,                     \* glob.PlayerList of every instance
  next, versions,           \* playerChanges; version 0: no pending change
  listDirty, statsDirty,    \* glob.PlayerListDirty, glob.PlayerStatsDirty
  due,                      \* a save was scheduled and has not begun
  pc,                       \* holder of PlayerListWriteLock: a save or a reload
  changes, saved,           \* WritePlayers: snapshot and its versions
  players,                  \* what a save or a reload has read
  changed, reload,          \* watcher: file differs from its last stat; reload asked for
  linked,                   \* disc.Guild # nil
  owed,                     \* history: last level set here and not yet in the file
  made, restarts            \* numbers of changes and restarts, for the bounds

loc  == <<list, next, versions, owed>>
sig  == <<listDirty, statsDirty, due>>
io   == <<pc, changes, saved, players>>
wat  == <<changed, reload, linked>>
cnt  == <<made, restarts>>
vars == <<file, lock, loc, sig, io, wat, cnt>>

PCs == {"idle", "lock", "read", "write", "load", "boot"}

Nothing == [p \in Players |-> None]
NoVersions == [p \in Players |-> 0]

\* LoadPlayers: a regular with enough play time becomes a veteran.
Promoted(p, l) == IF l = 2 /\ p \in Veterans /\ MaxLevel > 2 THEN 3 ELSE l

NewVeterans(f) == {p \in Players : Promoted(p, f[p]) # f[p]}

\* What LoadPlayers makes of the file in a new process: the players, the number and
\* the versions of the changes, and the levels not yet in the file.
BootList == [p \in Players |-> Promoted(p, file[p])]
BootNext == IF NewVeterans(file) = {} THEN 0 ELSE 1
BootVersions == [p \in Players |-> IF p \in NewVeterans(file) THEN 1 ELSE 0]
BootOwed == [p \in Players |-> IF p \in NewVeterans(file) THEN 3 ELSE None]

Init ==
  /\ file \in [Players -> Level]
  /\ lock = NoInstance
  /\ list = [i \in Instances |-> BootList]
  /\ next = [i \in Instances |-> BootNext]
  /\ versions = [i \in Instances |-> BootVersions]
  /\ listDirty = [i \in Instances |-> BootNext = 1]
  /\ statsDirty = [i \in Instances |-> FALSE]
  /\ due = [i \in Instances |-> FALSE]
  /\ pc = [i \in Instances |-> "idle"]
  /\ changes = [i \in Instances |-> Nothing]
  /\ saved = [i \in Instances |-> NoVersions]
  /\ players = [i \in Instances |-> Nothing]
  /\ changed = [i \in Instances |-> FALSE]
  /\ reload = [i \in Instances |-> FALSE]
  /\ linked = [i \in Instances |-> "guild-linked" \notin Events]
  /\ owed = [i \in Instances |-> BootOwed]
  /\ made = 0 /\ restarts = 0

-----------------------------------------------------------------------------
(* Changes made by an instance *)

markPlayerDirty(i, p) ==
  /\ next' = [next EXCEPT ![i] = @ + 1]
  /\ versions' = [versions EXCEPT ![i][p] = next[i] + 1]

\* Every change is counted.
Counted == made < MaxChanges /\ made' = made + 1

\* The game or a command changes a level, bans, unbans or registers a player, or a
\* player is seen for the first time: SetPlayerListDirty.  The moderation command also
\* calls WritePlayers itself.
playerLevelSet(i, p, l) ==
  /\ Counted
  /\ list' = [list EXCEPT ![i][p] = l]
  /\ owed' = [owed EXCEPT ![i][p] = l]
  /\ markPlayerDirty(i, p)
  /\ listDirty' = [listDirty EXCEPT ![i] = TRUE]
  /\ \E now \in BOOLEAN : due' = [due EXCEPT ![i] = @ \/ now]
  /\ UNCHANGED <<file, lock, statsDirty, io, wat, restarts>>

\* Time stamps and minutes of a known player: SetPlayerStatsDirty.
UpdateSeen(i, p) ==
  /\ Counted
  /\ list[i][p] # Absent
  /\ markPlayerDirty(i, p)
  /\ statsDirty' = [statsDirty EXCEPT ![i] = TRUE]
  /\ UNCHANGED <<file, lock, list, owed, listDirty, due, io, wat, restarts>>

-----------------------------------------------------------------------------
(* Saving *)

\* The save loops: at once for changes of the list, every 15 minutes for statistics.
SaveLoop(i) ==
  /\ \/ listDirty[i] /\ listDirty' = [listDirty EXCEPT ![i] = FALSE] /\ UNCHANGED statsDirty
     \/ statsDirty[i] /\ statsDirty' = [statsDirty EXCEPT ![i] = FALSE] /\ UNCHANGED listDirty
  /\ due' = [due EXCEPT ![i] = TRUE]
  /\ UNCHANGED <<file, lock, loc, io, wat, cnt>>

Included(i, p) == versions[i][p] # 0

\* WritePlayers takes PlayerListWriteLock and a snapshot of the changed players.
WritePlayers(i) ==
  /\ due[i] /\ pc[i] = "idle"
  /\ due' = [due EXCEPT ![i] = FALSE]
  /\ LET S == {p \in Players : Included(i, p)} IN
     /\ changes' = [changes EXCEPT ![i] = [p \in Players |-> IF p \in S THEN list[i][p] ELSE None]]
     /\ saved' = [saved EXCEPT ![i] = IF S = {} THEN NoVersions ELSE versions[i]]
     /\ pc' = [pc EXCEPT ![i] = IF S = {} THEN "idle" ELSE "lock"]
  /\ UNCHANGED <<file, lock, loc, listDirty, statsDirty, players, wat, cnt>>

\* Fault: the lock is not waited for.
mayLock_Always == TRUE

mayLock == lock = NoInstance

AcquireFileLock(i) ==
  /\ pc[i] = "lock" /\ mayLock
  /\ lock' = i
  /\ pc' = [pc EXCEPT ![i] = "read"]
  /\ UNCHANGED <<file, loc, sig, changes, saved, players, wat, cnt>>

\* Release, when this instance has the lock.
Released(i) == IF lock = i THEN NoInstance ELSE lock

\* The end of a save: its locals are gone.
SaveEnds(i) ==
  /\ lock' = Released(i)
  /\ pc' = [pc EXCEPT ![i] = "idle"]
  /\ changes' = [changes EXCEPT ![i] = Nothing]
  /\ saved' = [saved EXCEPT ![i] = NoVersions]
  /\ players' = [players EXCEPT ![i] = Nothing]

\* Fault: a save that fails is not tried again.
Retry_Not(i) == UNCHANGED listDirty

\* signalPlayerListDirty: the save loop will try again.
Retry(i) == listDirty' = [listDirty EXCEPT ![i] = TRUE]

\* The lock is not free in time, or the file cannot be read, decoded or written.
WriteFails(i) ==
  /\ \/ pc[i] = "lock" /\ lock # NoInstance
     \/ pc[i] \in {"lock", "read", "write"} /\ "fail" \in Events
  /\ SaveEnds(i)
  /\ Retry(i)
  /\ UNCHANGED <<file, loc, statsDirty, due, wat, cnt>>

ReadFile(i) ==
  /\ pc[i] = "read"
  /\ players' = [players EXCEPT ![i] = file]
  /\ pc' = [pc EXCEPT ![i] = "write"]
  /\ UNCHANGED <<file, lock, loc, sig, changes, saved, wat, cnt>>

\* Fault: only the changed players are written.
mergePlayerChanges_Only(i) == changes[i]

mergePlayerChanges(i) ==
  [p \in Players |-> IF changes[i][p] # None THEN changes[i][p] ELSE players[i][p]]

\* Fault: a change made after the snapshot counts as saved, too.
Completed_Any(i, p) == saved[i][p] # 0

\* completePlayerChanges: not when the player was changed again.
Completed(i, p) == saved[i][p] # 0 /\ versions[i][p] = saved[i][p]

WriteBytesAtomic(i) ==
  /\ pc[i] = "write"
  /\ file' = mergePlayerChanges(i)
  /\ changed' = [k \in Instances |-> TRUE]
  /\ SaveEnds(i)
  /\ versions' = [versions EXCEPT ![i] =
                    [p \in Players |-> IF Completed(i, p) THEN 0 ELSE versions[i][p]]]
  /\ owed' = [owed EXCEPT ![i] =
                [p \in Players |-> IF changes[i][p] = owed[i][p] THEN None ELSE owed[i][p]]]
  /\ UNCHANGED <<list, next, sig, reload, linked, cnt>>

-----------------------------------------------------------------------------
(* Reloading *)

Watch(i) ==
  /\ changed[i]
  /\ changed' = [changed EXCEPT ![i] = FALSE]
  /\ reload' = [reload EXCEPT ![i] = TRUE]
  /\ UNCHANGED <<file, lock, loc, sig, io, linked, cnt>>

\* LoadPlayers takes PlayerListWriteLock and reads the file: when the watcher asks for
\* it, and, in the mode meant for the start of ChatWire, when Discord answers at last ...
LoadPlayers(i) ==
  /\ pc[i] = "idle"
  /\ \/ /\ reload[i]
        /\ reload' = [reload EXCEPT ![i] = FALSE]
        /\ pc' = [pc EXCEPT ![i] = "load"]
        /\ UNCHANGED linked
     \/ /\ ~linked[i]
        /\ linked' = [linked EXCEPT ![i] = TRUE]
        /\ pc' = [pc EXCEPT ![i] = "boot"]
        /\ UNCHANGED reload
  /\ players' = [players EXCEPT ![i] = file]
  /\ UNCHANGED <<file, lock, loc, sig, changes, saved, changed, cnt>>

\* The players a reload takes over; at the start nothing is thought to be pending.
Loaded(i) ==
  {p \in Players : players[i][p] # Absent /\ (pc[i] = "boot" \/ versions[i][p] = 0)}

\* ... and takes over what it has read; others may have made changes in between.  The
\* new veterans are marked as changed.
addPlayers(i) ==
  /\ pc[i] \in {"load", "boot"}
  /\ LET L == Loaded(i)
         V == L \cap NewVeterans(players[i])
     IN  /\ list' = [list EXCEPT ![i] =
                       [p \in Players |-> IF p \in L THEN Promoted(p, players[i][p]) ELSE list[i][p]]]
         /\ versions' = [versions EXCEPT ![i] =
                           [p \in Players |-> IF p \in V THEN next[i] + 1 ELSE versions[i][p]]]
         /\ owed' = [owed EXCEPT ![i] =
                       [p \in Players |-> IF p \in V THEN Promoted(p, players[i][p]) ELSE owed[i][p]]]
         /\ next' = [next EXCEPT ![i] = IF V = {} THEN @ ELSE @ + 1]
         /\ listDirty' = [listDirty EXCEPT ![i] = @ \/ V # {}]
  /\ pc' = [pc EXCEPT ![i] = "idle"]
  /\ players' = [players EXCEPT ![i] = Nothing]
  /\ UNCHANGED <<file, lock, statsDirty, due, changes, saved, wat, cnt>>

\* The process ends, at any point (DoExit calls WritePlayers first); the kernel releases
\* its lock, and the next process loads the file.
Restart(i) ==
  /\ "restart" \in Events /\ restarts < MaxRestarts
  /\ restarts' = restarts + 1
  /\ SaveEnds(i)
  /\ list' = [list EXCEPT ![i] = BootList]
  /\ next' = [next EXCEPT ![i] = BootNext]
  /\ versions' = [versions EXCEPT ![i] = BootVersions]
  /\ owed' = [owed EXCEPT ![i] = BootOwed]
  /\ listDirty' = [listDirty EXCEPT ![i] = BootNext = 1]
  /\ statsDirty' = [statsDirty EXCEPT ![i] = FALSE]
  /\ due' = [due EXCEPT ![i] = FALSE]
  /\ changed' = [changed EXCEPT ![i] = FALSE]
  /\ reload' = [reload EXCEPT ![i] = FALSE]
  /\ linked' = [linked EXCEPT ![i] = "guild-linked" \notin Events]
  /\ UNCHANGED <<file, made>>

-----------------------------------------------------------------------------
Change(i) ==
  \E p \in Players : UpdateSeen(i, p) \/ \E l \in Levels : playerLevelSet(i, p, l)

\* The loops and goroutines of an instance that work the changes off.
Work(i) ==
  \/ SaveLoop(i) \/ WritePlayers(i) \/ AcquireFileLock(i) \/ ReadFile(i) \/ WriteBytesAtomic(i)
  \/ Watch(i) \/ LoadPlayers(i) \/ addPlayers(i)

Next == \E i \in Instances : Change(i) \/ Work(i) \/ WriteFails(i) \/ Restart(i)

Spec == Init /\ [][Next]_vars

\* Every loop of an instance runs; a file lock that is free again and again is taken at
\* last.
FairSpec ==
  Spec /\ \A i \in Instances :
            /\ WF_vars(SaveLoop(i)) /\ WF_vars(WritePlayers(i)) /\ SF_vars(AcquireFileLock(i))
            /\ WF_vars(ReadFile(i)) /\ WF_vars(WriteBytesAtomic(i))
            /\ WF_vars(Watch(i)) /\ WF_vars(LoadPlayers(i)) /\ WF_vars(addPlayers(i))

-----------------------------------------------------------------------------
(* Properties *)

\* The values the database, its copies and the loops can have.
TypeOK ==
  /\ file \in [Players -> Level]
  /\ lock \in Instances \cup {NoInstance}
  /\ list \in [Instances -> [Players -> Level]]
  /\ next \in [Instances -> Nat]
  /\ versions \in [Instances -> [Players -> Nat]]
  /\ listDirty \in [Instances -> BOOLEAN] /\ statsDirty \in [Instances -> BOOLEAN]
  /\ due \in [Instances -> BOOLEAN]
  /\ pc \in [Instances -> PCs]
  /\ changes \in [Instances -> [Players -> Level \cup {None}]]
  /\ saved \in [Instances -> [Players -> Nat]]
  /\ players \in [Instances -> [Players -> Level \cup {None}]]
  /\ changed \in [Instances -> BOOLEAN] /\ reload \in [Instances -> BOOLEAN]
  /\ linked \in [Instances -> BOOLEAN]
  /\ owed \in [Instances -> [Players -> Levels \cup {None}]]
  /\ made \in 0 .. MaxChanges /\ restarts \in 0 .. MaxRestarts

\* A level set here stays set here, and pending, until it has been written to the file:
\* no reload puts the old level back, and no save that began before takes the mark off
\* (playerChangePending in LoadPlayers, the versions in completePlayerChanges).
OwnChangeKept ==
  \A i \in Instances, p \in Players :
    owed[i][p] # None => list[i][p] = owed[i][p] /\ versions[i][p] # 0

\* A save changes no player but the ones this instance has marked as changed, whatever
\* other instances have written since it last read the file (WritePlayers).
OthersPreserved ==
  [][\A i \in Instances :
       pc[i] = "write" /\ pc'[i] = "idle" =>
         \A p \in Players : versions[i][p] = 0 => file'[p] = file[p]]_vars

\* A pending change is on its way: a save is asked for, due or under way, also after
\* saves that failed (WritePlayers, the save loops).
SaveScheduled ==
  \A i \in Instances, p \in Players :
    versions[i][p] # 0 => listDirty[i] \/ statsDirty[i] \/ due[i] \/ pc[i] \in {"lock", "read", "write"}

\* When the changes end, the file and all instances end up with the same levels, and
\* nothing stays pending (the save loops, the watcher).
Converges == <>[](\A i \in Instances : list[i] = file /\ versions[i] = NoVersions)

\* Time stamps and minutes are saved without changing a level: a save changes the level
\* of a player only if this instance has set it (SetPlayerStatsDirty, WritePlayers).
StatsKeepLevel ==
  [][\A i \in Instances :
       pc[i] = "write" /\ pc'[i] = "idle" =>
         \A p \in Players : owed[i][p] = None => file'[p] = file[p]]_vars
=============================================================================
