--------------------------- MODULE PlayerDBProofs ---------------------------
(* Theorems about the player database, for any numbers of instances, players and changes. *)
EXTENDS PlayerDB, TLAPS

Saving == {"lock", "read", "write"}

(* The file lock excludes other writers, so what its holder has read stays current. *)
LockInv ==
  \A i \in Instances :
    /\ pc[i] \in {"read", "write"} <=> lock = i
    /\ pc[i] = "write" => players[i] = file
    /\ pc[i] \in {"load", "boot"} => players[i] \in [Players -> Level]

(* A snapshot holds exactly the players it has versions of, and these stay pending. *)
SnapshotInv ==
  \A i \in Instances, p \in Players :
    /\ versions[i][p] <= next[i]
    /\ saved[i][p] # 0 => pc[i] \in Saving /\ versions[i][p] >= saved[i][p] /\ changes[i][p] # None
    /\ saved[i][p] = 0 => changes[i][p] = None

(* A change that is not in the snapshot of a running save has a save to come. *)
SignalInv ==
  \A i \in Instances, p \in Players :
    versions[i][p] # 0 /\ versions[i][p] # saved[i][p] =>
      listDirty[i] = TRUE \/ statsDirty[i] = TRUE \/ due[i] = TRUE

(* With the guild linked from the start, no reload in boot mode happens; and a snapshot
   that is current holds the level set last. *)
OwnInv ==
  \A i \in Instances :
    /\ linked[i] = TRUE /\ pc[i] # "boot"
    /\ \A p \in Players :
         owed[i][p] # None /\ saved[i][p] # 0 /\ versions[i][p] = saved[i][p] => changes[i][p] = owed[i][p]

LEMMA Distinct == /\ Absent \notin Levels /\ None \notin Level /\ Levels \subseteq Level
                  /\ None # Absent
BY PlayerDBConstants DEF Absent, Levels, Level, None

LEMMA PromotedType == \A p \in Players, l \in Levels : Promoted(p, l) \in Levels
BY PlayerDBConstants DEF Promoted, Levels

(* What a new process makes of the file. *)
LEMMA Boot ==
  ASSUME file \in [Players -> Level]
  PROVE  /\ BootList \in [Players -> Level]
         /\ BootNext \in {0, 1}
         /\ BootVersions \in [Players -> Nat]
         /\ BootOwed \in [Players -> Levels \cup {None}]
         /\ \A p \in Players :
              /\ BootVersions[p] # 0 => BootVersions[p] = 1 /\ BootNext = 1
              /\ BootOwed[p] # None => BootList[p] = BootOwed[p] /\ BootVersions[p] # 0
<1>1. \A p \in Players : /\ file[p] \in Level
                         /\ Promoted(p, file[p]) \in Level
                         /\ p \in NewVeterans(file) => Promoted(p, file[p]) = 3 /\ 3 \in Levels
  BY PlayerDBConstants DEF Promoted, NewVeterans, Levels, Level, Absent
<1>2. BootList \in [Players -> Level]
  BY <1>1 DEF BootList
<1>3. BootOwed \in [Players -> Levels \cup {None}]
  BY <1>1 DEF BootOwed
<1> QED
  BY <1>1, <1>2, <1>3 DEF BootList, BootNext, BootVersions, BootOwed

LEMMA TypeInit == Init => TypeOK
<1> SUFFICES ASSUME Init PROVE TypeOK
  OBVIOUS
<1> QED
  <2>1. file \in [Players -> Level]
    BY Zenon DEF Init
  <2>2. listDirty \in [Instances -> BOOLEAN] /\ linked \in [Instances -> BOOLEAN]
    BY Zenon DEF Init
  <2> QED
    BY <2>1, <2>2, Boot, PlayerDBConstants DEF Init, TypeOK, Nothing, NoVersions, PCs

LEMMA SaveEndsType == 
  ASSUME TypeOK, NEW i \in Instances, SaveEnds(i)
  PROVE  /\ lock' \in Instances \cup {NoInstance}
         /\ pc' \in [Instances -> PCs]
         /\ changes' \in [Instances -> [Players -> Level \cup {None}]]
         /\ saved' \in [Instances -> [Players -> Nat]]
         /\ players' \in [Instances -> [Players -> Level \cup {None}]]
BY DEF SaveEnds, TypeOK, Released, Nothing, NoVersions, PCs

(* One step preserves the types and LockInv. *)
LEMMA CoreStep == TypeOK /\ LockInv /\ [Next]_vars => TypeOK' /\ LockInv'
<1> SUFFICES ASSUME TypeOK, LockInv, [Next]_vars PROVE TypeOK' /\ LockInv'
  OBVIOUS
<1> USE DEF loc, sig, io, wat, cnt
<1>1. ASSUME NEW i \in Instances, NEW p \in Players, NEW l \in Levels, playerLevelSet(i, p, l)
      PROVE  TypeOK' /\ LockInv'
  <2>1. TypeOK'
    BY <1>1, PlayerDBConstants, Distinct DEF playerLevelSet, Counted, markPlayerDirty, TypeOK
  <2> QED
    BY <1>1, <2>1 DEF playerLevelSet, LockInv
<1>2. ASSUME NEW i \in Instances, NEW p \in Players, UpdateSeen(i, p) PROVE TypeOK' /\ LockInv'
  <2>1. TypeOK'
    BY <1>2, PlayerDBConstants DEF UpdateSeen, Counted, markPlayerDirty, TypeOK
  <2> QED
    BY <1>2, <2>1 DEF UpdateSeen, LockInv
<1>3. ASSUME NEW i \in Instances, SaveLoop(i) PROVE TypeOK' /\ LockInv'
  <2>1. TypeOK'
    BY <1>3 DEF SaveLoop, TypeOK
  <2> QED
    BY <1>3, <2>1 DEF SaveLoop, LockInv
<1>4. ASSUME NEW i \in Instances, WritePlayers(i) PROVE TypeOK' /\ LockInv'
  <2>1. TypeOK'
    BY <1>4 DEF WritePlayers, NoVersions, PCs, TypeOK
  <2> QED
    BY <1>4, <2>1 DEF WritePlayers, LockInv, TypeOK
<1>5. ASSUME NEW i \in Instances, AcquireFileLock(i) PROVE TypeOK' /\ LockInv'
  <2>1. TypeOK'
    BY <1>5 DEF AcquireFileLock, PCs, TypeOK
  <2> QED
    BY <1>5, <2>1, PlayerDBConstants DEF AcquireFileLock, mayLock, LockInv, TypeOK
<1>6. ASSUME NEW i \in Instances, WriteFails(i) PROVE TypeOK' /\ LockInv'
  <2>1. TypeOK'
    BY <1>6, SaveEndsType DEF WriteFails, Retry, TypeOK
  <2> QED
    BY <1>6, <2>1, PlayerDBConstants DEF WriteFails, SaveEnds, Released, LockInv, TypeOK
<1>7. ASSUME NEW i \in Instances, ReadFile(i) PROVE TypeOK' /\ LockInv'
  <2>1. TypeOK'
    BY <1>7 DEF ReadFile, PCs, TypeOK
  <2> QED
    BY <1>7, <2>1 DEF ReadFile, LockInv, TypeOK
<1>8. ASSUME NEW i \in Instances, WriteBytesAtomic(i) PROVE TypeOK' /\ LockInv'
  <2>1. file' \in [Players -> Level]
    BY <1>8 DEF WriteBytesAtomic, mergePlayerChanges, LockInv, TypeOK
  <2>2. TypeOK'
    BY <1>8, <2>1, SaveEndsType DEF WriteBytesAtomic, TypeOK
  <2>3. \A k \in Instances \ {i} : pc[k] # "write"
    BY <1>8, PlayerDBConstants DEF WriteBytesAtomic, LockInv, TypeOK
  <2> QED
    BY <1>8, <2>2, <2>3, PlayerDBConstants DEF WriteBytesAtomic, SaveEnds, Released, LockInv, TypeOK
<1>9. ASSUME NEW i \in Instances, Watch(i) PROVE TypeOK' /\ LockInv'
  <2>1. TypeOK'
    BY <1>9 DEF Watch, TypeOK
  <2> QED
    BY <1>9, <2>1 DEF Watch, LockInv
<1>10. ASSUME NEW i \in Instances, LoadPlayers(i) PROVE TypeOK' /\ LockInv'
  <2>1. TypeOK'
    BY <1>10 DEF LoadPlayers, PCs, TypeOK
  <2> QED
    BY <1>10, <2>1 DEF LoadPlayers, LockInv, TypeOK
<1>11. ASSUME NEW i \in Instances, addPlayers(i) PROVE TypeOK' /\ LockInv'
  <2>1. \A p \in Loaded(i) : players[i][p] \in Levels /\ Promoted(p, players[i][p]) \in Levels
    BY <1>11, PromotedType, Distinct DEF addPlayers, Loaded, LockInv, TypeOK, Level
  <2>2. list' \in [Instances -> [Players -> Level]]
    BY <1>11, <2>1, Distinct DEF addPlayers, TypeOK
  <2>3. owed' \in [Instances -> [Players -> Levels \cup {None}]]
    BY <1>11, <2>1 DEF addPlayers, TypeOK
  <2>4. versions' \in [Instances -> [Players -> Nat]] /\ next' \in [Instances -> Nat]
    BY <1>11 DEF addPlayers, TypeOK
  <2>5. TypeOK'
    BY <1>11, <2>2, <2>3, <2>4 DEF addPlayers, TypeOK, PCs, Nothing
  <2> QED
    BY <1>11, <2>5 DEF addPlayers, LockInv, TypeOK
<1>12. ASSUME NEW i \in Instances, Restart(i) PROVE TypeOK' /\ LockInv'
  <2>1. TypeOK'
    BY <1>12, SaveEndsType, Boot, PlayerDBConstants DEF Restart, TypeOK
  <2> QED
    BY <1>12, <2>1, PlayerDBConstants DEF Restart, SaveEnds, Released, LockInv, TypeOK
<1>13. CASE UNCHANGED vars
  BY <1>13 DEF vars, TypeOK, LockInv
<1> QED
  BY <1>1, <1>2, <1>3, <1>4, <1>5, <1>6, <1>7, <1>8, <1>9, <1>10, <1>11, <1>12, <1>13
  DEF Next, Change, Work

(* The initial values, function by function. *)
LEMMA InitValues ==
  ASSUME Init
  PROVE  /\ file \in [Players -> Level] /\ lock = NoInstance
         /\ \A i \in Instances :
              /\ list[i] = BootList /\ next[i] = BootNext /\ versions[i] = BootVersions
              /\ owed[i] = BootOwed /\ listDirty[i] = (BootNext = 1)
              /\ pc[i] = "idle" /\ changes[i] = Nothing /\ saved[i] = NoVersions
              /\ linked[i] = ("guild-linked" \notin Events)
BY Zenon DEF Init

LEMMA CoreInit == Init => LockInv
BY InitValues, PlayerDBConstants DEF LockInv

(* One step preserves SnapshotInv. *)
LEMMA SnapshotStep ==
  ASSUME TypeOK, SnapshotInv, [Next]_vars PROVE SnapshotInv'
<1> USE DEF loc, sig, io, wat, cnt
<1>1. ASSUME NEW i \in Instances, NEW p \in Players, NEW l \in Levels, playerLevelSet(i, p, l)
      PROVE  SnapshotInv'
  BY <1>1 DEF playerLevelSet, markPlayerDirty, SnapshotInv, TypeOK, Saving
<1>2. ASSUME NEW i \in Instances, NEW p \in Players, UpdateSeen(i, p) PROVE SnapshotInv'
  BY <1>2 DEF UpdateSeen, markPlayerDirty, SnapshotInv, TypeOK, Saving
<1>3. ASSUME NEW i \in Instances, SaveLoop(i) PROVE SnapshotInv'
  BY <1>3 DEF SaveLoop, SnapshotInv, TypeOK, Saving
<1>4. ASSUME NEW i \in Instances, WritePlayers(i) PROVE SnapshotInv'
  BY <1>4, Distinct DEF WritePlayers, Included, NoVersions, SnapshotInv, TypeOK, Saving
<1>5. ASSUME NEW i \in Instances, AcquireFileLock(i) PROVE SnapshotInv'
  BY <1>5 DEF AcquireFileLock, SnapshotInv, TypeOK, Saving
<1>6. ASSUME NEW i \in Instances, WriteFails(i) PROVE SnapshotInv'
  BY <1>6 DEF WriteFails, SaveEnds, Nothing, NoVersions, Retry, SnapshotInv, TypeOK, Saving
<1>7. ASSUME NEW i \in Instances, ReadFile(i) PROVE SnapshotInv'
  BY <1>7 DEF ReadFile, SnapshotInv, TypeOK, Saving
<1>8. ASSUME NEW i \in Instances, WriteBytesAtomic(i) PROVE SnapshotInv'
  BY <1>8 DEF WriteBytesAtomic, SaveEnds, Nothing, NoVersions, Completed, SnapshotInv, TypeOK, Saving
<1>9. ASSUME NEW i \in Instances, Watch(i) PROVE SnapshotInv'
  BY <1>9 DEF Watch, SnapshotInv, TypeOK, Saving
<1>10. ASSUME NEW i \in Instances, LoadPlayers(i) PROVE SnapshotInv'
  BY <1>10 DEF LoadPlayers, SnapshotInv, TypeOK, Saving
<1>11. ASSUME NEW i \in Instances, addPlayers(i) PROVE SnapshotInv'
  BY <1>11 DEF addPlayers, Loaded, SnapshotInv, TypeOK, Saving
<1>12. ASSUME NEW i \in Instances, Restart(i) PROVE SnapshotInv'
  <2>1. /\ versions' = [versions EXCEPT ![i] = BootVersions] /\ next' = [next EXCEPT ![i] = BootNext]
        /\ SaveEnds(i)
    BY <1>12, Zenon DEF Restart
  <2> QED
    BY <2>1, Boot DEF SaveEnds, Nothing, NoVersions, SnapshotInv, TypeOK, Saving
<1>13. CASE UNCHANGED vars
  BY <1>13 DEF vars, SnapshotInv, TypeOK, Saving
<1> QED
  BY <1>1, <1>2, <1>3, <1>4, <1>5, <1>6, <1>7, <1>8, <1>9, <1>10, <1>11, <1>12, <1>13
  DEF Next, Change, Work

(* One step preserves SignalInv. *)
LEMMA SignalStep ==
  ASSUME TypeOK, SnapshotInv, SignalInv, [Next]_vars PROVE SignalInv'
<1> USE DEF loc, sig, io, wat, cnt
<1>1. ASSUME NEW i \in Instances, NEW p \in Players, NEW l \in Levels, playerLevelSet(i, p, l)
      PROVE  SignalInv'
  BY <1>1 DEF playerLevelSet, markPlayerDirty, SignalInv, TypeOK
<1>2. ASSUME NEW i \in Instances, NEW p \in Players, UpdateSeen(i, p) PROVE SignalInv'
  BY <1>2 DEF UpdateSeen, markPlayerDirty, SignalInv, TypeOK
<1>3. ASSUME NEW i \in Instances, SaveLoop(i) PROVE SignalInv'
  BY <1>3 DEF SaveLoop, SignalInv, TypeOK
<1>4. ASSUME NEW i \in Instances, WritePlayers(i) PROVE SignalInv'
  BY <1>4 DEF WritePlayers, Included, NoVersions, SignalInv, SnapshotInv, TypeOK
<1>5. ASSUME NEW i \in Instances, AcquireFileLock(i) PROVE SignalInv'
  BY <1>5 DEF AcquireFileLock, SignalInv, TypeOK
<1>6. ASSUME NEW i \in Instances, WriteFails(i) PROVE SignalInv'
  BY <1>6 DEF WriteFails, SaveEnds, Nothing, NoVersions, Retry, SignalInv, TypeOK
<1>7. ASSUME NEW i \in Instances, ReadFile(i) PROVE SignalInv'
  BY <1>7 DEF ReadFile, SignalInv, TypeOK
<1>8. ASSUME NEW i \in Instances, WriteBytesAtomic(i) PROVE SignalInv'
  BY <1>8 DEF WriteBytesAtomic, SaveEnds, Nothing, NoVersions, Completed, SignalInv, SnapshotInv, TypeOK
<1>9. ASSUME NEW i \in Instances, Watch(i) PROVE SignalInv'
  BY <1>9 DEF Watch, SignalInv, TypeOK
<1>10. ASSUME NEW i \in Instances, LoadPlayers(i) PROVE SignalInv'
  BY <1>10 DEF LoadPlayers, SignalInv, TypeOK
<1>11. ASSUME NEW i \in Instances, addPlayers(i) PROVE SignalInv'
  <2> DEFINE V == Loaded(i) \cap NewVeterans(players[i])
  <2> USE <1>11
  <2>1. ASSUME V # {} PROVE listDirty'[i] = TRUE
    BY <2>1, Zenon DEF addPlayers, TypeOK
  <2>2. ASSUME V = {} PROVE listDirty' = listDirty
    <3>1. (listDirty[i] \/ V # {}) = listDirty[i]
      BY <2>2, Zenon DEF TypeOK
    <3> QED
      BY <3>1 DEF addPlayers, TypeOK
  <2>3. \A k \in Instances \ {i} : listDirty'[k] = listDirty[k]
    BY Zenon DEF addPlayers, TypeOK
  <2>4. \A q \in Players : q \notin V => versions'[i][q] = versions[i][q]
    BY DEF addPlayers, TypeOK
  <2>5. \A k \in Instances \ {i} : versions'[k] = versions[k]
    BY DEF addPlayers, TypeOK
  <2>6. saved' = saved /\ statsDirty' = statsDirty /\ due' = due
    BY DEF addPlayers
  <2> HIDE <1>11 DEF V
  <2>7. CASE V = {}
    <3>1. listDirty' = listDirty
      BY <2>2, <2>7
    <3>2. \A k \in Instances, q \in Players : versions'[k][q] = versions[k][q]
      BY <2>4, <2>5, <2>7
    <3> QED
      BY <2>6, <3>1, <3>2 DEF SignalInv
  <2>8. CASE V # {}
    <3>1. \A k \in Instances \ {i}, q \in Players :
            versions'[k][q] # 0 /\ versions'[k][q] # saved'[k][q] =>
              listDirty'[k] = TRUE \/ statsDirty'[k] = TRUE \/ due'[k] = TRUE
      BY <2>3, <2>5, <2>6, Zenon DEF SignalInv
    <3>2. listDirty'[i] = TRUE
      BY <2>1, <2>8
    <3> QED
      BY <3>1, <3>2, Zenon DEF SignalInv
  <2> QED
    BY <2>7, <2>8
<1>12. ASSUME NEW i \in Instances, Restart(i) PROVE SignalInv'
  <2>1. \A k \in Instances \ {i} : /\ versions'[k] = versions[k] /\ saved'[k] = saved[k]
                                   /\ listDirty'[k] = listDirty[k] /\ statsDirty'[k] = statsDirty[k]
                                   /\ due'[k] = due[k]
    BY <1>12, Zenon DEF Restart, SaveEnds, TypeOK
  <2>2. versions'[i] = BootVersions /\ listDirty'[i] = (BootNext = 1)
    BY <1>12, Zenon DEF Restart, TypeOK
  <2>3. \A p \in Players : versions'[i][p] # 0 => listDirty'[i] = TRUE
    <3>1. file \in [Players -> Level]
      BY DEF TypeOK
    <3> QED
      BY <2>2, <3>1, Boot
  <2>4. \A k \in Instances \ {i}, p \in Players :
          versions'[k][p] # 0 /\ versions'[k][p] # saved'[k][p] =>
            listDirty'[k] = TRUE \/ statsDirty'[k] = TRUE \/ due'[k] = TRUE
    <3> SUFFICES ASSUME NEW k \in Instances \ {i}, NEW p \in Players,
                        versions'[k][p] # 0, versions'[k][p] # saved'[k][p]
                 PROVE  listDirty'[k] = TRUE \/ statsDirty'[k] = TRUE \/ due'[k] = TRUE
      OBVIOUS
    <3>1. versions[k][p] # 0 /\ versions[k][p] # saved[k][p]
      BY <2>1
    <3>2. listDirty[k] = TRUE \/ statsDirty[k] = TRUE \/ due[k] = TRUE
      BY <3>1 DEF SignalInv
    <3> QED
      BY <2>1, <3>2
  <2> QED
    BY <2>3, <2>4, Zenon DEF SignalInv
<1>13. CASE UNCHANGED vars
  BY <1>13 DEF vars, SignalInv, TypeOK
<1> QED
  BY <1>1, <1>2, <1>3, <1>4, <1>5, <1>6, <1>7, <1>8, <1>9, <1>10, <1>11, <1>12, <1>13
  DEF Next, Change, Work

(* One step preserves OwnChangeKept and OwnInv. *)
LEMMA OwnStep ==
  ASSUME "guild-linked" \notin Events, TypeOK, LockInv, SnapshotInv, OwnChangeKept /\ OwnInv, [Next]_vars PROVE (OwnChangeKept /\ OwnInv)'
<1> USE DEF loc, sig, io, wat, cnt
<1>1. ASSUME NEW i \in Instances, NEW p \in Players, NEW l \in Levels, playerLevelSet(i, p, l)
      PROVE  (OwnChangeKept /\ OwnInv)'
  BY <1>1 DEF playerLevelSet, markPlayerDirty, OwnInv, SnapshotInv, OwnChangeKept, TypeOK
<1>2. ASSUME NEW i \in Instances, NEW p \in Players, UpdateSeen(i, p) PROVE (OwnChangeKept /\ OwnInv)'
  BY <1>2 DEF UpdateSeen, markPlayerDirty, OwnInv, SnapshotInv, OwnChangeKept, TypeOK
<1>3. ASSUME NEW i \in Instances, SaveLoop(i) PROVE (OwnChangeKept /\ OwnInv)'
  BY <1>3 DEF SaveLoop, OwnInv, SnapshotInv, OwnChangeKept, TypeOK
<1>4. ASSUME NEW i \in Instances, WritePlayers(i) PROVE (OwnChangeKept /\ OwnInv)'
  BY <1>4 DEF WritePlayers, Included, NoVersions, OwnInv, SnapshotInv, OwnChangeKept, TypeOK
<1>5. ASSUME NEW i \in Instances, AcquireFileLock(i) PROVE (OwnChangeKept /\ OwnInv)'
  BY <1>5 DEF AcquireFileLock, OwnInv, SnapshotInv, OwnChangeKept, TypeOK
<1>6. ASSUME NEW i \in Instances, WriteFails(i) PROVE (OwnChangeKept /\ OwnInv)'
  BY <1>6 DEF WriteFails, SaveEnds, Nothing, NoVersions, Retry, OwnInv, SnapshotInv, OwnChangeKept, TypeOK
<1>7. ASSUME NEW i \in Instances, ReadFile(i) PROVE (OwnChangeKept /\ OwnInv)'
  BY <1>7 DEF ReadFile, OwnInv, SnapshotInv, OwnChangeKept, TypeOK
<1>8. ASSUME NEW i \in Instances, WriteBytesAtomic(i) PROVE (OwnChangeKept /\ OwnInv)'
  BY <1>8 DEF WriteBytesAtomic, SaveEnds, Nothing, NoVersions, Completed, OwnInv, SnapshotInv, OwnChangeKept, TypeOK
<1>9. ASSUME NEW i \in Instances, Watch(i) PROVE (OwnChangeKept /\ OwnInv)'
  BY <1>9 DEF Watch, OwnInv, SnapshotInv, OwnChangeKept, TypeOK
<1>10. ASSUME NEW i \in Instances, LoadPlayers(i) PROVE (OwnChangeKept /\ OwnInv)'
  BY <1>10 DEF LoadPlayers, OwnInv, SnapshotInv, OwnChangeKept, TypeOK
<1>11. ASSUME NEW i \in Instances, addPlayers(i) PROVE (OwnChangeKept /\ OwnInv)'
  BY <1>11 DEF addPlayers, Loaded, OwnInv, SnapshotInv, OwnChangeKept, TypeOK
<1>12. ASSUME NEW i \in Instances, Restart(i) PROVE (OwnChangeKept /\ OwnInv)'
  <2>1. linked'[i] = TRUE
    <3>1. ("guild-linked" \notin Events) = TRUE
      OBVIOUS
    <3> QED
      BY <1>12, <3>1 DEF Restart, TypeOK
  <2>2. \A k \in Instances \ {i} : linked'[k] = linked[k]
    BY <1>12, Zenon DEF Restart, TypeOK
  <2>3. /\ list' = [list EXCEPT ![i] = BootList] /\ versions' = [versions EXCEPT ![i] = BootVersions]
        /\ owed' = [owed EXCEPT ![i] = BootOwed] /\ SaveEnds(i)
    BY <1>12, Zenon DEF Restart
  <2>4. OwnChangeKept'
    BY <2>3, Boot DEF OwnChangeKept, TypeOK
  <2>5. \A k \in Instances :
          /\ pc'[k] # "boot"
          /\ \A p \in Players :
               owed'[k][p] # None /\ saved'[k][p] # 0 /\ versions'[k][p] = saved'[k][p]
               => changes'[k][p] = owed'[k][p]
    BY <2>3 DEF SaveEnds, Nothing, NoVersions, OwnInv, TypeOK
  <2>6. \A k \in Instances : linked'[k] = TRUE
    BY <2>1, <2>2 DEF OwnInv
  <2> QED
    BY <2>4, <2>5, <2>6, Zenon DEF OwnInv
<1>13. CASE UNCHANGED vars
  BY <1>13 DEF vars, OwnInv, OwnChangeKept, TypeOK
<1> QED
  BY <1>1, <1>2, <1>3, <1>4, <1>5, <1>6, <1>7, <1>8, <1>9, <1>10, <1>11, <1>12, <1>13
  DEF Next, Change, Work

-----------------------------------------------------------------------------
(* The file, its copies and the state of every loop keep their types; the file gets only
   levels, as a save merges into a complete copy of it (WritePlayers, LoadPlayers). *)
THEOREM TypeCorrect == Spec => []TypeOK
<1>1. Init => TypeOK /\ LockInv
  BY TypeInit, CoreInit
<1> QED
  BY <1>1, CoreStep, PTL DEF Spec

LEMMA SnapshotInit == Init => SnapshotInv /\ SignalInv
<1> SUFFICES ASSUME Init PROVE SnapshotInv /\ SignalInv
  OBVIOUS
<1>1. SnapshotInv
  <2>1. /\ file \in [Players -> Level]
        /\ \A i \in Instances : /\ next[i] = BootNext /\ versions[i] = BootVersions
                                 /\ changes[i] = Nothing /\ saved[i] = NoVersions
    BY InitValues, Zenon
  <2> QED
    BY <2>1, Boot DEF SnapshotInv, Nothing, NoVersions
<1>2. SignalInv
  <2>1. /\ file \in [Players -> Level]
        /\ \A i \in Instances : versions[i] = BootVersions /\ listDirty[i] = (BootNext = 1)
    BY InitValues, Zenon
  <2>2. \A i \in Instances, p \in Players : versions[i][p] # 0 => listDirty[i] = TRUE
    BY <2>1, Boot
  <2> QED
    BY <2>2, Zenon DEF SignalInv
<1> QED
  BY <1>1, <1>2

LEMMA Invariants == Spec => [](TypeOK /\ LockInv /\ SnapshotInv /\ SignalInv)
<1>1. Init => TypeOK /\ LockInv /\ SnapshotInv /\ SignalInv
  BY TypeInit, CoreInit, SnapshotInit
<1>2. TypeOK /\ LockInv /\ SnapshotInv /\ SignalInv /\ [Next]_vars
      => (TypeOK /\ LockInv /\ SnapshotInv /\ SignalInv)'
  BY CoreStep, SnapshotStep, SignalStep
<1> QED
  BY <1>1, <1>2, PTL DEF Spec

(* No save of an instance loses what another one has written: the merge of WritePlayers
   starts from the file as it is, and changes only the players marked here. *)
THEOREM NoLostUpdate == Spec => OthersPreserved
<1>1. ASSUME TypeOK, LockInv, SnapshotInv, [Next]_vars
      PROVE  [\A i \in Instances :
                pc[i] = "write" /\ pc'[i] = "idle" =>
                  \A p \in Players : versions[i][p] = 0 => file'[p] = file[p]]_vars
  <2> SUFFICES ASSUME NEW i \in Instances, pc[i] = "write", pc'[i] = "idle",
                      NEW p \in Players, versions[i][p] = 0
               PROVE  file'[p] = file[p]
    OBVIOUS
  <2>1. CASE \E k \in Instances : WriteBytesAtomic(k)
    <3>1. PICK k \in Instances : WriteBytesAtomic(k)
      BY <2>1
    <3>2. k = i
      BY <3>1 DEF WriteBytesAtomic, SaveEnds, LockInv
    <3>3. saved[i][p] = 0 /\ changes[i][p] = None
      BY <1>1 DEF SnapshotInv, TypeOK
    <3> QED
      BY <1>1, <3>1, <3>2, <3>3 DEF WriteBytesAtomic, mergePlayerChanges, LockInv
  <2>2. CASE ~\E k \in Instances : WriteBytesAtomic(k)
    BY <1>1, <2>2 DEF Next, Change, Work, vars, loc, sig, io, wat, cnt, playerLevelSet, UpdateSeen, SaveLoop,
         WritePlayers, AcquireFileLock, WriteFails, ReadFile, Watch, LoadPlayers, addPlayers, Restart
  <2> QED
    BY <2>1, <2>2
<1> QED
  BY <1>1, Invariants, PTL DEF Spec, OthersPreserved

(* A pending change has a save to come, whatever fails (WritePlayers, the save loops). *)
THEOREM NothingStranded == Spec => []SaveScheduled
<1>1. TypeOK /\ SnapshotInv /\ SignalInv => SaveScheduled
  <2> SUFFICES ASSUME TypeOK, SnapshotInv, SignalInv, NEW i \in Instances, NEW p \in Players,
                      versions[i][p] # 0
               PROVE  listDirty[i] \/ statsDirty[i] \/ due[i] \/ pc[i] \in {"lock", "read", "write"}
    BY DEF SaveScheduled
  <2>1. CASE versions[i][p] = saved[i][p]
    BY <2>1 DEF SnapshotInv, Saving
  <2>2. CASE versions[i][p] # saved[i][p]
    BY <2>2, Zenon DEF SignalInv
  <2> QED
    BY <2>1, <2>2
<1> QED
  BY <1>1, Invariants, PTL

(* A level set in an instance is neither put back by a reload nor taken off the list of
   pending changes before it is in the file, provided no reload in boot mode comes after
   the start (LoadPlayers, completePlayerChanges). *)
THEOREM OwnChangesSafe == ASSUME "guild-linked" \notin Events PROVE Spec => []OwnChangeKept
<1>1. Init => OwnChangeKept /\ OwnInv
  <2> SUFFICES ASSUME Init PROVE OwnChangeKept /\ OwnInv
    OBVIOUS
  <2>1. /\ file \in [Players -> Level]
        /\ \A i \in Instances : /\ list[i] = BootList /\ versions[i] = BootVersions /\ owed[i] = BootOwed
                                 /\ pc[i] = "idle" /\ saved[i] = NoVersions
    BY InitValues, Zenon
  <2>2. \A i \in Instances : linked[i] = TRUE
    BY InitValues, Zenon
  <2>3. OwnChangeKept
    BY <2>1, Boot DEF OwnChangeKept
  <2>4. \A i \in Instances : pc[i] # "boot" /\ \A p \in Players : saved[i][p] = 0
    BY <2>1 DEF NoVersions
  <2>5. OwnInv
    BY <2>2, <2>4, Zenon DEF OwnInv
  <2> QED
    BY <2>3, <2>5
<1>2. TypeOK /\ LockInv /\ SnapshotInv /\ (OwnChangeKept /\ OwnInv) /\ [Next]_vars
      => (OwnChangeKept /\ OwnInv)'
  BY OwnStep
<1> QED
  BY <1>1, <1>2, Invariants, PTL DEF Spec
=============================================================================
