----------------------------- MODULE MCLifecycle -----------------------------
(* Small instances of the lifecycle controller for TLC. *)
EXTENDS Lifecycle, TLC

S(k, w) == [kind |-> k, whenEmpty |-> FALSE, force |-> FALSE, wait |-> w,
            disable |-> FALSE]

\* Every kind of request; the waiting variants where an answer matters.
AllShapes ==
  {S("Start", TRUE), S("Stop", TRUE), S("RestartFactorio", FALSE),
   S("ChangeMap", TRUE), S("MapReset", FALSE),
   [S("RestartChatWire", TRUE) EXCEPT !.force = TRUE],
   [S("RestartChatWire", FALSE) EXCEPT !.whenEmpty = TRUE]}

\* An operator's stop, and the requests that switch auto-start themselves.
StopShapes ==
  {[S("Stop", TRUE) EXCEPT !.disable = TRUE], S("ChangeMap", TRUE), S("MapReset", FALSE)}

\* Requests of every kind that anybody waits for.
WaitedShapes ==
  {S("Start", TRUE), S("Stop", TRUE), S("ChangeMap", TRUE),
   [S("RestartChatWire", TRUE) EXCEPT !.force = TRUE]}

\* The same without the start, for the liveness instance.
BlockingShapes == {s \in WaitedShapes : s.kind # "Start"}

NoShapes == {}
=============================================================================
