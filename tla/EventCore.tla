------------------------------ MODULE EventCore ------------------------------
(***************************************************************************)
(* The event core (event/factory.py) around the event loop and its pipe:    *)
(* who starts the loop.  A synchronous getter schedules a task that runs    *)
(* start_core(), one at a time; an asynchronous getter runs start_core()    *)
(* itself.  Nobody watches the loop: after a stop, or when its consumer has *)
(* died, the next getter starts it again.                                   *)
(*                                                                         *)
(* Neither start() yields, so start_lock is never contended and start_core()*)
(* is one step.  The pipe's own signal, which pipe.stop() may reset at any  *)
(* time, is a free choice: without it the core counts as not started although*)
(* the loop runs.                                                           *)
(***************************************************************************)
EXTENDS EventLoop

VARIABLE startTask      \* start_task exists and is not done

CoreInit == Init /\ startTask = FALSE

\* get_event_pipe() and its like: _ensure_started
Getter ==
    /\ ~startTask
    /\ startTask' = TRUE
    /\ UNCHANGED vars

\* start_core() up to its end; start() checks for itself whether it is running.
StartCore == IF started THEN UNCHANGED vars ELSE Start

AsyncGetter == StartCore /\ UNCHANGED startTask

\* The scheduled task may come too late, when somebody else has started.
StartTaskRuns == startTask /\ startTask' = FALSE /\ StartCore

\* The task is cancelled, or fails; the next getter tries again.
StartTaskFails == startTask /\ startTask' = FALSE /\ UNCHANGED vars

Next ==
    \/ LoopNext /\ UNCHANGED startTask
    \/ Yielded /\ (Getter \/ AsyncGetter \/ StartTaskRuns \/ StartTaskFails)

coreVars == <<vars, startTask>>

\* The application keeps asking for a core that is stopped, and its start does
\* not fail for ever.
Fairness ==
    /\ LoopFairness
    /\ WF_coreVars(Yielded /\ ~started /\ Getter)
    /\ SF_coreVars(Yielded /\ StartTaskRuns)

Spec == CoreInit /\ [][Next]_coreVars
FairSpec == Spec /\ Fairness
=============================================================================
