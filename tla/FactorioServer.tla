---------------------------- MODULE FactorioServer ----------------------------
(***************************************************************************)
(* What the lifecycle controller promises the rest of ChatWire about the   *)
(* Factorio server: the phase that commands, the web panel, the updater    *)
(* and the exit sequence read, against the processes that really exist.    *)
(* Each generation is launched once, from a world without processes; its   *)
(* process is started at most once; and the phase returns to "stopped"     *)
(* only when that process is gone or was never started.                    *)
(***************************************************************************)
EXTENDS Naturals

VARIABLES
  phase,   \* what the controller reports
  gen,     \* the number of launches so far
  live,    \* generations whose process exists
  born     \* generations whose process was ever started

vars == <<phase, gen, live, born>>

Init == phase = "stopped" /\ gen = 0 /\ live = {} /\ born = {}

\* A launch is decided when the server is stopped and no process is left.
Launch ==
  /\ phase = "stopped" /\ live = {}
  /\ phase' = "starting" /\ gen' = gen + 1
  /\ UNCHANGED <<live, born>>

Spawn ==
  /\ phase = "starting" /\ live = {} /\ gen \notin born
  /\ live' = {gen} /\ born' = born \cup {gen}
  /\ UNCHANGED <<phase, gen>>

SpawnFails ==
  /\ phase = "starting" /\ gen \notin born
  /\ phase' = "stopped"
  /\ UNCHANGED <<gen, live, born>>

Ready ==
  /\ phase = "starting" /\ gen \in born
  /\ phase' = "running"
  /\ UNCHANGED <<gen, live, born>>

StopBegins ==
  /\ phase \in {"starting", "running"} /\ gen \in born
  /\ phase' = "stopping"
  /\ UNCHANGED <<gen, live, born>>

\* A process may end at any time, noticed or not.
Die == live # {} /\ live' = {} /\ UNCHANGED <<phase, gen, born>>

Closed ==
  /\ phase # "stopped" /\ live = {} /\ gen \in born
  /\ phase' = "stopped"
  /\ UNCHANGED <<gen, live, born>>

Next == Launch \/ Spawn \/ SpawnFails \/ Ready \/ StopBegins \/ Die \/ Closed

Spec == Init /\ [][Next]_vars
=============================================================================
