------------------------------ MODULE MapCycle ------------------------------
(***************************************************************************)
(* The life of a map: the reset schedule (fact/newCron.go), generating a   *)
(* map (fact/mapReset.go), changing to a save (fact/save_transition.go),   *)
(* and the save a launch chooses (support/launcher_saves.go).              *)
(*                                                                         *)
(* A world is what a save holds: 0 is the one before everything here, n    *)
(* the n-th generated map.  The requests are executed one at a time, as    *)
(* the lifecycle manager does (module Lifecycle); whether a stop or a      *)
(* launch succeeds is a choice.  Time is counted in steps; Window is the   *)
(* three hours after which a missed reset is skipped.                      *)
(*                                                                         *)
(* A definition whose comment says "Fault" is a wrong variant of the one   *)
(* that follows it and is used by no specification.                        *)
(***************************************************************************)
EXTENDS Integers, Sequences, FiniteSets, SequencesExt

CONSTANTS
  MaxWorlds,    \* bound on generated maps
  MaxClock,     \* bound on time
  Window,       \* maxResetWindow
  DayLength,    \* steps of a day
  Intervals,    \* reset intervals a moderator sets; 0: none
  ResetHours,   \* hours of the day a moderator sets; 0: none
  MaxOrders     \* bound on what moderators ask for

ASSUME MapConstants ==
  /\ MaxWorlds \in Nat /\ MaxClock \in Nat \ {0} /\ Window \in Nat /\ MaxOrders \in Nat
  /\ DayLength \in Nat \ {0}
  /\ Intervals \subseteq Nat /\ ResetHours \subseteq 0 .. DayLength - 1

VARIABLES
  clock,
  schedule,   \* cfg.Local.Options: [next, interval, hour, skip]; next = 0: no reset
  retry,      \* [for, at] of the last scheduled reset that failed
  pending,    \* cfg.Local.PendingSave
  saves,      \* the saves folder: [name, world, good]
  newer,      \* its modification times: <<m, n>> when save m is newer than save n
  phase,      \* of Factorio
  loaded,     \* [name, world] it was started with
  step,       \* of the request the manager executes
  order,      \* that request: [kind, by, world]
  queue,      \* the requests after it
  due,        \* the reset CheckMapReset waits for; 0: none
  worlds,     \* maps generated so far
  orders,
  console,    \* a generation asked for by command or web console, past its check
  want,       \* ghost: the world that was last asked for
  asked,      \* ghost: the one-time reset date a moderator left
  made,       \* ghost: per reset date, the maps generated for it
  stray,      \* ghost: maps whose generation ChatWire did not survive
  overlap     \* ghost: a console generation met a running server

mgrVars   == <<step, order, queue>>
gameVars  == <<phase, loaded>>
cronVars  == <<schedule, retry, due>>
mapGhosts == <<asked, made, stray, overlap>>
folder    == <<saves, newer>>
mapVars   == <<clock, cronVars, pending, folder, gameVars, mgrVars, worlds,
               orders, console, want, mapGhosts>>

\* Names of saves
NoSave   == <<"none", 0>>
AutoName == <<"auto", 0>>
NewName  == <<"new", 0>>

NoOrder == [kind |-> "none", by |-> "none", world |-> 0]
Gen(n) == [name |-> <<"gen", n>>, world |-> n, good |-> TRUE]
IsGen(s) == s.name[1] = "gen"

-----------------------------------------------------------------------------
(* The saves folder *)

Names(S) == {t.name : t \in S}
Named(S, n) == {t \in S : t.name = n}

\* The ages of the saves in S
Ages(S) == {p \in newer : p[1] \in Names(S) /\ p[2] \in Names(S)}

\* Of the folder S remains, and s is written and the newest.
Write(S, s) ==
  /\ saves' = S \cup {s}
  /\ newer' = Ages(S) \cup {<<s.name, n>> : n \in Names(S)}

\* A save that is written replaces the one of its name.
Written(s) == Write(saves \ Named(saves, s.name), s)

Good(S) == {t \in S : t.good}

\* Newest first, the first valid one; none when there is none.
GetSaveGame ==
  {t \in Good(saves) : \A u \in Good(saves) : <<u.name, t.name>> \notin newer}

\* An explicit save, else the pending one, else the newest; never another one than asked.
selectLaunchSave(name) ==
  LET n == IF name # NoSave THEN name ELSE pending IN
  IF n = NoSave THEN GetSaveGame ELSE Good(Named(saves, n))

-----------------------------------------------------------------------------
(* The schedule *)

HasResetTime == schedule.next > 0
HasResetInterval == schedule.interval > 0

\* Counted from now, or from the reset hour of this day.
SetResetDate(s) ==
  IF s.interval = 0 THEN s
  ELSE [s EXCEPT !.next = s.interval +
          IF s.hour > 0 THEN (clock \div DayLength) * DayLength + s.hour ELSE clock]

AdvanceReset(s) == IF s.interval = 0 THEN s ELSE [s EXCEPT !.next = @ + s.interval]

\* Fault: a date without an interval is left to CheckMapReset, which sees only success.
CommitSchedule_Left(s) == SetResetDate(s)

\* Generation completes the reset even when the launch has to wait or fails.
CommitSchedule(s) ==
  IF s.interval = 0 /\ s.next > 0 /\ s.next <= clock
  THEN [s EXCEPT !.next = 0]
  ELSE SetResetDate(s)

\* A one-time date is cleared, unless it was changed meanwhile.
ResetDone(s) == IF s.interval = 0 /\ s.next = due THEN [s EXCEPT !.next = 0] ELSE s

\* The loop of startMapResetLoop: one turn of CheckMapReset.  It waits for its request.
CheckMapReset ==
  /\ due = 0 /\ HasResetTime /\ schedule.next < clock
  /\ IF schedule.next < clock - Window
     THEN /\ schedule' = IF HasResetInterval THEN AdvanceReset(schedule)
                         ELSE [schedule EXCEPT !.next = 0]
          /\ UNCHANGED <<due, queue>>
     ELSE /\ ~(schedule.next = retry.for /\ clock < retry.at)
          /\ due' = schedule.next
          /\ queue' = Append(queue, [kind |-> "reset", by |-> "cron", world |-> 0])
          /\ UNCHANGED schedule
  /\ UNCHANGED <<clock, retry, pending, folder, gameVars, step, order, worlds,
                 orders, console, want, mapGhosts>>

-----------------------------------------------------------------------------
(* Moderators: SetSchedule, ChangeMap, MapReset; DoChangeMap of the votes *)

Order == orders < MaxOrders /\ orders' = orders + 1

SetSchedule ==
  /\ Order
  /\ \/ \E h \in ResetHours : schedule' = [schedule EXCEPT !.hour = h]
     \/ \E n \in Intervals, h \in ResetHours \cup {schedule.hour} :
          schedule' = SetResetDate([schedule EXCEPT !.interval = n, !.hour = h])
     \/ \E d \in clock + 1 .. MaxClock : schedule' = [schedule EXCEPT !.next = d]
     \/ schedule' = [schedule EXCEPT !.interval = 0, !.next = 0]
  /\ asked' = IF schedule'.interval = 0 THEN schedule'.next ELSE 0
  /\ UNCHANGED <<clock, retry, due, pending, folder, gameVars, mgrVars, worlds,
                 console, want, made, stray, overlap>>

\* "skip-reset", once per map
SkipReset ==
  /\ Order /\ HasResetTime /\ HasResetInterval /\ ~schedule.skip
  /\ schedule' = [AdvanceReset(schedule) EXCEPT !.skip = TRUE]
  /\ UNCHANGED <<clock, retry, due, pending, folder, gameVars, mgrVars, worlds,
                 console, want, mapGhosts>>

\* stageMapChange copies the chosen save when it is chosen.
ChangeMap ==
  /\ Order
  /\ \E t \in Good(saves) :
       queue' = Append(queue, [kind |-> "change", by |-> "user", world |-> t.world])
  /\ UNCHANGED <<clock, cronVars, pending, folder, gameVars, step, order, worlds,
                 console, want, mapGhosts>>

MapReset ==
  /\ Order
  /\ queue' = Append(queue, [kind |-> "reset", by |-> "user", world |-> 0])
  /\ UNCHANGED <<clock, cronVars, pending, folder, gameVars, step, order, worlds,
                 console, want, mapGhosts>>

-----------------------------------------------------------------------------
(* The manager: execute *)

Steps == [reset |-> "generate", change |-> "install"]

\* The answer to CheckMapReset: a success, or a failure that is tried again later.
Answered(ok) ==
  IF order.by # "cron" THEN UNCHANGED cronVars
  ELSE /\ due' = 0
       /\ retry' = IF ok THEN [for |-> 0, at |-> 0] ELSE [for |-> due, at |-> clock + 1]
       /\ schedule' = IF ok THEN ResetDone(schedule) ELSE schedule

Ends(ok) == step' = "idle" /\ order' = NoOrder /\ Answered(ok)

\* executeStop; Factorio writes the save it was started with when it quits.
Stopped ==
  /\ phase' = "stopped" /\ UNCHANGED loaded
  /\ IF phase = "running"
     THEN Written([name |-> loaded.name, world |-> loaded.world, good |-> TRUE])
     ELSE UNCHANGED folder

Execute ==
  /\ step = "idle" /\ queue # <<>>
  /\ order' = Head(queue) /\ queue' = Tail(queue)
  /\ step' = Steps[Head(queue).kind]
  /\ Stopped
  /\ UNCHANGED <<clock, cronVars, pending, worlds, orders, console, want, mapGhosts>>

\* The stop timed out, or generating failed: nothing was changed.
MapFails ==
  /\ step \in {"generate", "install"}
  /\ Ends(FALSE)
  /\ UNCHANGED <<clock, pending, folder, gameVars, queue, worlds, orders, console,
                 want, mapGhosts>>

\* runMapCreateCommand into a staging directory, CheckSave, Rename
GenNewMap ==
  /\ step = "generate" /\ worlds < MaxWorlds
  /\ worlds' = worlds + 1
  /\ Written(Gen(worlds'))
  /\ step' = "commit"
  /\ UNCHANGED <<clock, cronVars, pending, gameVars, order, queue, orders, console,
                 want, mapGhosts>>

\* One write of the configuration: the schedule and the pending save together.
Pend(n) == n

\* Older generated maps are retired once the new one is recorded.
Retired(n) == {t \in saves : IsGen(t) /\ t.name # n}

Commit ==
  /\ step = "commit"
  /\ schedule' = [CommitSchedule(schedule) EXCEPT !.skip = FALSE]
  /\ pending' = Pend(Gen(worlds).name)
  /\ saves' = saves \ Retired(Gen(worlds).name) /\ newer' = Ages(saves')
  /\ want' = worlds
  /\ made' = IF order.by = "cron" THEN [made EXCEPT ![due] = @ + 1] ELSE made
  /\ step' = "launch" /\ order' = [order EXCEPT !.world = worlds]
  /\ UNCHANGED <<clock, retry, due, gameVars, queue, worlds, orders, console,
                 asked, stray, overlap>>

\* Fault: the snapshot keeps the age of the save it was copied from.
Promote_Old(s) ==
  LET S == saves \ Named(saves, s.name) IN
  saves' = S \cup {s} /\ newer' = Ages(S) \cup {<<n, s.name>> : n \in Names(S)}

Promote(s) == Written(s)

doChangeMapAfterStop ==
  /\ step = "install"
  /\ Promote([name |-> NewName, world |-> order.world, good |-> TRUE])
  /\ pending' = NewName
  /\ want' = order.world
  /\ step' = "launch"
  /\ UNCHANGED <<clock, cronVars, gameVars, order, queue, worlds, orders, console,
                 mapGhosts>>

Started(f) == phase' = "starting" /\ loaded' = [name |-> f.name, world |-> f.world]

\* executeStart with the save of the request
LaunchMap ==
  LET n == IF order.kind = "reset" THEN Gen(order.world).name ELSE NewName IN
  /\ step = "launch"
  /\ \/ (\E f \in selectLaunchSave(n) : Started(f)) /\ Ends(TRUE)
     \/ Ends(FALSE) /\ UNCHANGED gameVars
  /\ UNCHANGED <<clock, pending, folder, queue, worlds, orders, console, want, mapGhosts>>

\* A plain start, by the operator or by auto-start
Launch ==
  /\ phase = "stopped" /\ step = "idle"
  /\ \E f \in selectLaunchSave(NoSave) : Started(f)
  /\ UNCHANGED <<clock, cronVars, pending, folder, mgrVars, worlds, orders, console,
                 want, mapGhosts>>

\* handleReadyEvent
Ready ==
  /\ phase = "starting" /\ step = "idle"
  /\ phase' = "running" /\ pending' = NoSave
  /\ UNCHANGED <<clock, cronVars, folder, loaded, mgrVars, worlds, orders, console,
                 want, mapGhosts>>

-----------------------------------------------------------------------------
(* Factorio, commands that generate a map, and the end of the process *)

Autosave ==
  /\ phase = "running" /\ step = "idle"
  /\ Written([name |-> AutoName, world |-> loaded.world, good |-> TRUE])
  /\ UNCHANGED <<clock, cronVars, pending, gameVars, mgrVars, worlds, orders, console,
                 want, mapGhosts>>

\* Factorio dies and may leave a broken autosave.
GameCrash ==
  /\ phase # "stopped" /\ step = "idle"
  /\ phase' = "stopped"
  /\ \E torn \in {{}, Named(saves, AutoName)} :
       saves' = (saves \ torn) \cup {[t EXCEPT !.good = FALSE] : t \in torn}
  /\ UNCHANGED <<newer, clock, cronVars, pending, loaded, mgrVars, worlds, orders, console,
                 want, mapGhosts>>

\* NewMap and MapExchange check that Factorio is stopped, then wait for the locks.
NewMap ==
  /\ Order /\ phase = "stopped" /\ ~console
  /\ console' = TRUE
  /\ UNCHANGED <<clock, cronVars, pending, folder, gameVars, mgrVars, worlds, want,
                 mapGhosts>>

NewMapRuns ==
  /\ console /\ step # "commit" /\ worlds < MaxWorlds
  /\ worlds' = worlds + 1
  /\ Write(saves \ Retired(Gen(worlds').name), Gen(worlds'))
  /\ schedule' = [CommitSchedule(schedule) EXCEPT !.skip = FALSE]
  /\ pending' = Gen(worlds').name
  /\ want' = worlds'
  /\ console' = FALSE
  /\ overlap' = (overlap \/ phase # "stopped" \/ step # "idle")
  /\ UNCHANGED <<clock, retry, due, gameVars, mgrVars, orders, asked, made, stray>>

\* ChatWire dies: requests are lost, Factorio is stopped with it, files stay.
ChatWireEnds ==
  /\ step' = "idle" /\ order' = NoOrder /\ queue' = <<>>
  /\ due' = 0 /\ retry' = [for |-> 0, at |-> 0]
  /\ console' = FALSE
  /\ Stopped
  /\ stray' = IF step = "commit" THEN stray \cup {worlds} ELSE stray
  /\ UNCHANGED <<clock, schedule, pending, worlds, orders, want, asked, made, overlap>>

TickClock ==
  /\ clock < MaxClock /\ clock' = clock + 1
  /\ UNCHANGED <<cronVars, pending, folder, gameVars, mgrVars, worlds, orders, console,
                 want, mapGhosts>>

MapInit ==
  /\ clock = 1
  /\ schedule = [next |-> 0, interval |-> 0, hour |-> 0, skip |-> FALSE]
  /\ retry = [for |-> 0, at |-> 0] /\ due = 0
  /\ pending = NoSave
  /\ saves = {[name |-> AutoName, world |-> 0, good |-> TRUE]} /\ newer = {}
  /\ phase = "stopped" /\ loaded = [name |-> AutoName, world |-> 0]
  /\ step = "idle" /\ order = NoOrder /\ queue = <<>>
  /\ worlds = 0 /\ orders = 0 /\ console = FALSE
  /\ want = 0 /\ asked = 0 /\ stray = {} /\ overlap = FALSE
  /\ made = [d \in 1 .. 2 * MaxClock |-> 0]

MapNext ==
  \/ TickClock \/ CheckMapReset \/ SetSchedule \/ SkipReset \/ ChangeMap \/ MapReset
  \/ Execute \/ MapFails \/ GenNewMap \/ Commit \/ doChangeMapAfterStop \/ LaunchMap
  \/ Launch \/ Ready \/ Autosave \/ GameCrash \/ NewMap \/ NewMapRuns \/ ChatWireEnds

MapSpec == MapInit /\ [][MapNext]_mapVars

-----------------------------------------------------------------------------
(* Properties *)

\* Clock, schedule, phase and step have their types; names of saves are unique, and a
\* pending save exists.
MapTypeOK ==
  /\ clock \in 1 .. MaxClock /\ worlds \in 0 .. MaxWorlds /\ want \in 0 .. worlds
  /\ schedule.interval \in Intervals \cup {0}
  /\ phase \in {"stopped", "starting", "running"}
  /\ step \in {"idle", "generate", "install", "commit", "launch"}
  /\ \A t, u \in saves : t.name = u.name => t = u
  /\ newer \subseteq Names(saves) \X Names(saves)
  /\ \A m, n \in Names(saves) : m # n => (<<m, n>> \in newer <=> <<n, m>> \notin newer)
  /\ pending # NoSave => Named(saves, pending) # {}

\* A server that is up runs the world that was last asked for: a failed launch, a
\* crash before the first autosave or a newer file of the old map never brings the
\* old one back (selectLaunchSave, PendingSave, Chtimes).  A map that was complete when
\* ChatWire died may also run.  Nothing is said once a console generation, whose check
\* is older than its locks, has met a server that was up.
WorldAsAsked ==
  overlap \/ (phase # "stopped" => loaded.world \in {want} \cup stray)

\* A reset date generates one map: when its launch fails, the retry starts that map.
DueOnce == \A d \in DOMAIN made : made[d] <= 1

\* A one-time date a moderator has set survives resets that run or end meanwhile.
DateKept == asked > clock /\ schedule.interval = 0 => schedule.next = asked

\* Every date of the schedule leads to one map, and none is forgotten.
ScheduleObeyed == DueOnce /\ DateKept
=============================================================================
