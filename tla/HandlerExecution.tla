-------------------------- MODULE HandlerExecution --------------------------
(***************************************************************************)
(* One dispatch of an event along a captured handler chain (event/base.py,  *)
(* event/event_loop.py): foreground handlers in turn, background handlers as*)
(* tasks that share the event, notifications about upstream errors and      *)
(* acceptance, on_error after a failure, and cancellation.                  *)
(*                                                                         *)
(* A handler is its place in the chain.  It is in a phase while one of its  *)
(* functions runs, and other tasks may run then; between two functions of   *)
(* the dispatch task nothing else runs.                                     *)
(***************************************************************************)
EXTENDS Naturals, Sequences, SequencesExt

CONSTANT N      \* handlers in the chain

ASSUME ChainLengthAssumption == N \in Nat \ {0}

Handlers == 1..N

VARIABLES
    background, \* handlers with background=True
    stopping,   \* handlers with stop_when_error=True
    hooked,     \* handlers with all four notification callbacks, else none
    pos,        \* the handler the dispatch task is at
    dispatch,   \* the dispatch task
    at,         \* the phase of each handler
    recovering, \* handlers whose on_error runs after that phase
    accepted,   \* history: handlers that called event.accept()
    errors,     \* event.error_stack: who failed
    seen,       \* event.seen
    called,     \* history: calls of each function
    told        \* history: calls of on_cancelled

config == <<background, stopping, hooked>>
event == <<accepted, errors, seen>>
vars == <<config, pos, dispatch, at, recovering, event, called, told>>

Functions == {"has_error", "accepted", "core", "on_error"}
Phase == {"idle", "scheduled", "has_error", "accepted", "core", "done", "cancelled"}

TypeOK ==
    /\ background \subseteq Handlers /\ stopping \subseteq Handlers
    /\ hooked \subseteq Handlers /\ pos \in 1..(N + 1)
    /\ dispatch \in {"created", "running", "unwinding", "done", "cancelled", "abandoned"}
    /\ at \in [Handlers -> Phase]
    /\ recovering \subseteq {h \in Handlers : at[h] \in {"has_error", "accepted", "core"}}
    /\ accepted \subseteq Handlers
    /\ errors \in Seq(Handlers) /\ seen \in Seq(Handlers)
    /\ called \in [Handlers -> [Functions -> 0..2]]
    /\ told \in [Handlers -> 0..1]

Init ==
    /\ background \in SUBSET Handlers /\ stopping \in SUBSET Handlers
    /\ hooked \in SUBSET Handlers
    /\ pos = 1 /\ dispatch = "created"
    /\ at = [h \in Handlers |-> "idle"] /\ recovering = {}
    /\ accepted = {} /\ errors = << >> /\ seen = << >>
    /\ called = [h \in Handlers |-> [f \in Functions |-> 0]]
    /\ told = [h \in Handlers |-> 0]

-----------------------------------------------------------------------------
(* ApixEventHandler.execute() and _execute_func().                          *)

Called(h, f) == called' = [called EXCEPT ![h][f] = @ + 1]

InFunction(h) == at[h] \in {"has_error", "accepted", "core"}

\* Mutant: stop_when_error looks at acceptance alone.
AfterErrors_Continues(h, es) ==
    IF accepted # {} THEN IF h \in hooked THEN "accepted" ELSE "done" ELSE "core"

\* Mutant: acceptance only stops handlers that listen for it.
AfterErrors_NeedsHook(h, es) ==
    IF accepted # {} /\ h \in hooked THEN "accepted"
    ELSE IF es # << >> /\ h \in stopping THEN "done" ELSE "core"

\* What execute() does once upstream errors es have been notified.
AfterErrors(h, es) ==
    IF accepted # {} THEN IF h \in hooked THEN "accepted" ELSE "done"
    ELSE IF es # << >> /\ h \in stopping THEN "done" ELSE "core"

FirstPhase(h) ==
    IF errors # << >> /\ h \in hooked THEN "has_error" ELSE AfterErrors(h, errors)

\* The phase after the one h is in, and after its on_error.
PhaseAfter(h, es) == IF at[h] = "has_error" THEN AfterErrors(h, es) ELSE "done"

Foreground(h) == h \notin background

\* The dispatch task goes on when a foreground handler is done.
EnterPhase(h, phase) ==
    /\ at' = [at EXCEPT ![h] = phase]
    /\ seen' = IF phase = "core" THEN Append(seen, h) ELSE seen
    /\ IF phase \in Functions THEN Called(h, phase) ELSE UNCHANGED called
    /\ pos' = IF phase = "done" /\ Foreground(h) THEN h + 1 ELSE pos

Recorded(h) == IF Foreground(h) THEN Append(errors, h) ELSE errors

\* The dispatch task is between two functions: no other task runs.
Busy == dispatch = "running" /\ (pos > N \/ at[pos] = "idle")

Start(h) ==
    /\ \/ dispatch = "running" /\ pos = h /\ Foreground(h) /\ at[h] = "idle"
       \/ ~Busy /\ at[h] = "scheduled"
    /\ EnterPhase(h, FirstPhase(h))
    /\ UNCHANGED <<config, dispatch, recovering, accepted, errors, told>>

Accept(h) ==
    /\ ~Busy /\ InFunction(h)
    /\ accepted' = accepted \cup {h}
    /\ UNCHANGED <<config, pos, dispatch, at, recovering, errors, seen, called, told>>

Returns(h) ==
    /\ ~Busy /\ InFunction(h)
    /\ recovering' = recovering \ {h}
    /\ EnterPhase(h, PhaseAfter(h, errors))
    /\ UNCHANGED <<config, dispatch, accepted, errors, told>>

\* Mutant: a failing on_error calls on_error.
Raises_Recursive(h) ==
    /\ ~Busy /\ InFunction(h)
    /\ errors' = Recorded(h)
    /\ \/ /\ h \in hooked /\ called[h]["on_error"] < 5
          /\ recovering' = recovering \cup {h}
          /\ Called(h, "on_error")
          /\ UNCHANGED <<pos, at, seen>>
       \/ /\ h \notin hooked
          /\ recovering' = recovering
          /\ EnterPhase(h, PhaseAfter(h, errors'))
    /\ UNCHANGED <<config, dispatch, accepted, told>>

\* An exception or a timeout of the running function.
Raises(h) ==
    /\ ~Busy /\ InFunction(h)
    /\ errors' = Recorded(h)
    /\ IF h \in hooked /\ h \notin recovering
       THEN /\ recovering' = recovering \cup {h}
            /\ Called(h, "on_error")
            /\ UNCHANGED <<pos, at, seen>>
       ELSE /\ recovering' = recovering \ {h}
            /\ EnterPhase(h, PhaseAfter(h, errors'))
    /\ UNCHANGED <<config, dispatch, accepted, told>>

-----------------------------------------------------------------------------
(* The dispatch task and the background tasks.                              *)

Tell(h) == told' = [told EXCEPT ![h] = IF h \in hooked THEN @ + 1 ELSE @]

DispatchStarts ==
    /\ dispatch = "created"
    /\ dispatch' = "running"
    /\ UNCHANGED <<config, pos, at, recovering, event, called, told>>

\* Cancelled before its first step: the coroutine never runs, its except
\* clause neither.
DispatchAbandoned ==
    /\ dispatch = "created"
    /\ dispatch' = "abandoned"
    /\ UNCHANGED <<config, pos, at, recovering, event, called, told>>

\* _create_background_handler_task
Schedule(h) ==
    /\ dispatch = "running" /\ pos = h /\ h \in background
    /\ at' = [at EXCEPT ![h] = "scheduled"]
    /\ pos' = h + 1
    /\ UNCHANGED <<config, dispatch, recovering, event, called, told>>

\* Mutant: handlers before the cancelled one are not told.
Cancelled_FromHere(h) ==
    /\ ~Busy /\ InFunction(h)
    /\ at' = [at EXCEPT ![h] = "cancelled"]
    /\ recovering' = recovering \ {h}
    /\ errors' = Recorded(h)
    /\ IF Foreground(h) THEN dispatch' = "unwinding" /\ UNCHANGED <<pos, told>>
       ELSE Tell(h) /\ UNCHANGED <<dispatch, pos>>
    /\ UNCHANGED <<config, accepted, seen, called>>

\* CancelledError, from the function or from outside.  A background task
\* tells its own handler, the dispatch task starts to tell all of its chain.
Cancelled(h) ==
    /\ ~Busy /\ InFunction(h)
    /\ at' = [at EXCEPT ![h] = "cancelled"]
    /\ recovering' = recovering \ {h}
    /\ errors' = Recorded(h)
    /\ IF Foreground(h) THEN dispatch' = "unwinding" /\ pos' = 1 /\ UNCHANGED told
       ELSE Tell(h) /\ UNCHANGED <<dispatch, pos>>
    /\ UNCHANGED <<config, accepted, seen, called>>

\* A background task that never ran has nobody to tell.
CancelledEarly(h) ==
    /\ ~Busy /\ at[h] = "scheduled"
    /\ at' = [at EXCEPT ![h] = "cancelled"]
    /\ UNCHANGED <<config, pos, dispatch, recovering, event, called, told>>

\* notify_cancelled() keeps failures and further cancellations to itself.
NotifyCancelled(h) ==
    /\ dispatch = "unwinding" /\ pos = h
    /\ IF Foreground(h) THEN Tell(h) ELSE UNCHANGED told
    /\ pos' = h + 1
    /\ UNCHANGED <<config, dispatch, at, recovering, event, called>>

DispatchEnds ==
    /\ pos > N
    /\ \/ dispatch = "running" /\ dispatch' = "done"
       \/ dispatch = "unwinding" /\ dispatch' = "cancelled"
    /\ UNCHANGED <<config, pos, at, recovering, event, called, told>>

-----------------------------------------------------------------------------
Next ==
    \/ DispatchStarts \/ DispatchAbandoned \/ DispatchEnds
    \/ \E h \in Handlers :
        \/ Start(h) \/ Accept(h) \/ Returns(h) \/ Raises(h)
        \/ Schedule(h) \/ Cancelled(h) \/ CancelledEarly(h) \/ NotifyCancelled(h)

Spec == Init /\ [][Next]_vars

-----------------------------------------------------------------------------
(* Properties.                                                              *)

\* Each notification and the core run once at most, and on_error once per
\* function that failed: a failing on_error does not call itself.
CalledOnce ==
    \A h \in Handlers :
        /\ \A f \in {"has_error", "accepted", "core"} : called[h][f] <= 1
        /\ called[h]["on_error"] <= called[h]["has_error"] + called[h]["accepted"]
                                      + called[h]["core"]

\* A handler that has run to its end was told of every failure of a handler
\* before it, and did not run its core when it stops on errors.
UpstreamErrorsAreReported ==
    \A h \in Handlers, g \in Handlers :
        g < h /\ Foreground(g) /\ at[h] = "done" /\ Contains(errors, g) =>
            /\ h \in hooked => called[h]["has_error"] = 1
            /\ h \in stopping => called[h]["core"] = 0

\* No core runs behind a foreground handler that accepted the event, in a
\* background task neither; those that listen are told of the acceptance.
AcceptanceStopsLaterCores ==
    \A g \in accepted \ background, h \in Handlers :
        g < h => /\ called[h]["core"] = 0
                 /\ at[h] = "done" /\ h \in hooked => called[h]["accepted"] = 1

\* When a dispatch that had started ends cancelled, every foreground handler
\* of its chain was told once, whether it had finished, was running or had yet
\* to start; otherwise none was.
CancellationReachesTheChain ==
    \A h \in hooked \ background :
        /\ dispatch = "cancelled" => told[h] = 1
        /\ dispatch \notin {"unwinding", "cancelled"} => told[h] = 0

\* base.py:146, docs/core/event/handlers.md:116: on_has_error reports failures
\* of preceding handlers only.
OnlyUpstreamErrorsReported ==
    \A h \in Handlers : called[h]["has_error"] > 0 => \E g \in 1..(h - 1) : Contains(errors, g)
=============================================================================
