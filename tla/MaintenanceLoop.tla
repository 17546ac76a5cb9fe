-------------------------- MODULE MaintenanceLoop --------------------------
(***************************************************************************)
(* One maintenance loop (stats/maintenance-loop.ts): a pass, a pause, the  *)
(* next pass.  Its state is a record, and what its closures do to it are   *)
(* operators from one record to the next, so that several loops can be put *)
(* side by side.                                                           *)
(***************************************************************************)
EXTENDS Naturals

\* timer: none is set, one that is due at once, or one for the interval.
Timers == {"none", "soon", "interval"}
LoopStates ==
  [timer : Timers, running : BOOLEAN, pending : BOOLEAN, stopped : BOOLEAN]

\* startMaintenanceLoop: the first pass runs at once.
LoopStarted == [timer |-> "none", running |-> TRUE, pending |-> FALSE, stopped |-> FALSE]
LoopIdle == [LoopStarted EXCEPT !.running = FALSE]

-----------------------------------------------------------------------------
(* Faulty variants of definitions below, one per property: slips this code    *)
(* could contain.  No specification uses them.                                *)

\* A request that is only noted, also while the loop is waiting.
OnlyNoted(l) == IF l.stopped THEN l ELSE [l EXCEPT !.pending = TRUE]

-----------------------------------------------------------------------------
\* A pass has ended, well or not.  A request made meanwhile goes first.
PassEnded(l) ==
  IF l.stopped THEN [l EXCEPT !.running = FALSE]
  ELSE [l EXCEPT !.running = FALSE, !.pending = FALSE,
                 !.timer = IF l.pending THEN "soon" ELSE "interval"]

TimerFired(l) == [l EXCEPT !.timer = "none", !.running = TRUE]

\* One more pass: at once when the loop is waiting, after this one when it runs.
Requested(l) ==
  CASE l.stopped -> l
    [] ~l.stopped /\ l.timer # "none" -> TimerFired(l)
    [] ~l.stopped /\ l.timer = "none" -> [l EXCEPT !.pending = TRUE]

\* stop() up to its await; it resolves when no pass is running.
Stopped(l) == [l EXCEPT !.stopped = TRUE, !.timer = "none"]
=============================================================================
