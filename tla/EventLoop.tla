----------------------------- MODULE EventLoop -----------------------------
(***************************************************************************)
(* The event pipe and the event loop (event/event_pipe.py,                  *)
(* event/event_loop.py): a bounded queue, one consumer task that start() and*)
(* stop() replace while an old one may still be finishing, and one dispatch *)
(* task per event.                                                          *)
(*                                                                         *)
(* A dispatch publishes follow-up events through post_event(), which lends  *)
(* the chain's permit for as long as the queue is full.  A timeout or a     *)
(* cancellation may end a put() that waits, and the reacquisition of the    *)
(* permit after it; the chain then goes on without one (HandlerChain models *)
(* chains with several branches).  An action is the code a task runs between*)
(* two awaits; the consumer's loop does not yield while it finds events and *)
(* permits, and no other action happens then.                               *)
(***************************************************************************)
EXTENDS PermitSemaphore

CONSTANTS
    Events,
    Parent,     \* the event whose handler publishes it, or External
    External,
    QueueSize,  \* EVENT_PIPE_MAX_LEN
    Consumers,  \* names for consumer tasks, reused once a task is gone
    None,
    MaxStops    \* bound of the model on calls of stop()

ASSUME EventsAssumption ==
    /\ Parent \in [Events -> Events \cup {External}]
    /\ External \notin Events /\ None \notin Events \cup Consumers
    /\ Events \cap Consumers = {}
    /\ QueueSize \in Nat \ {0} /\ MaxStops \in Nat
    /\ Users = Events \cup Consumers

VARIABLES
    queue,      \* the channel's queue
    unfinished, \* its count of events without task_done()
    pending,    \* _pending_dispatch
    st,         \* an event on its way, and then its dispatch task
    handed,     \* history: events for which a dispatch task was created
    held,       \* dispatches whose chain token says that it holds a permit
    lapsed,     \* history: chains that lost it in a cancelled reacquisition
    at,         \* where each consumer task is
    cancelled,  \* consumer tasks on which stop() called cancel()
    current,    \* _event_consumer_task
    started,    \* _started
    stops

pipeVars == <<queue, unfinished>>
chainVars == <<held, lapsed>>
loopVars == <<at, cancelled, current, started, stops>>
vars == <<semVars, pipeVars, pending, st, handed, chainVars, loopVars>>

\* "blocked" waits in put(); "lending" is a dispatch whose handler waits in
\* put(), "regain" one that waits for its permit afterwards.  "withdrawn" was
\* never accepted: its put() was cancelled.
EventState == {"new", "blocked", "queued", "pending", "running", "lending",
               "regain", "ended", "done", "dropped", "withdrawn"}

\* "loop" is a consumer that runs: it yields in "get" and "acquire".
ConsumerState == {"gone", "created", "loop", "get", "acquire", "ended"}

TypeOK ==
    /\ SemTypeOK
    /\ queue \in Seq(Events) /\ Len(queue) <= QueueSize
    /\ unfinished \in Nat
    /\ pending \in Events \cup {None}
    /\ st \in [Events -> EventState]
    /\ handed \in Seq(Events)
    /\ held \subseteq Events /\ lapsed \subseteq Events
    /\ at \in [Consumers -> ConsumerState]
    /\ cancelled \in [Consumers -> BOOLEAN]
    /\ current \in Consumers \cup {None}
    /\ started \in BOOLEAN
    /\ stops \in 0..MaxStops

Init ==
    /\ SemInit
    /\ queue = << >> /\ unfinished = 0 /\ pending = None
    /\ st = [e \in Events |-> "new"]
    /\ handed = << >> /\ held = {} /\ lapsed = {}
    /\ at = [k \in Consumers |-> "gone"]
    /\ cancelled = [k \in Consumers |-> FALSE]
    /\ current = None /\ started = FALSE /\ stops = 0

Room == Len(queue) < QueueSize

\* No consumer is between two awaits.
Yielded == \A k \in Consumers : at[k] # "loop"

Enter(k, s) == at' = [at EXCEPT ![k] = s]

-----------------------------------------------------------------------------
(* Publication: ApixEventPipe.put() and post_event().                       *)

Accept(e) ==
    /\ queue' = Append(queue, e)
    /\ unfinished' = unfinished + 1

PublishExternal(e) ==
    /\ Parent[e] = External /\ st[e] = "new"
    /\ \/ Room /\ Accept(e) /\ st' = [st EXCEPT ![e] = "queued"]
       \/ ~Room /\ UNCHANGED pipeVars /\ st' = [st EXCEPT ![e] = "blocked"]
    /\ UNCHANGED <<semVars, pending, handed, chainVars, loopVars>>

\* suspend_process() ends: d takes a permit, at once or in its turn.  The put()
\* of event e left e in state s.
Reacquire(d, e, s) ==
    \/ /\ AcquireNow
       /\ held' = held \cup {d}
       /\ st' = [st EXCEPT ![e] = s, ![d] = "running"]
    \/ /\ Enqueue(d)
       /\ st' = [st EXCEPT ![e] = s, ![d] = "regain"]
       /\ UNCHANGED held

\* The queue has room: a permit that is held goes round once.
PublishNow(d, e) ==
    /\ Room /\ Accept(e)
    /\ \/ /\ d \in held /\ Yield(d)
          /\ st' = [st EXCEPT ![e] = "queued",
                              ![d] = IF fut'[d] = "pending" THEN "regain" ELSE @]
          /\ held' = IF fut'[d] = "pending" THEN held \ {d} ELSE held
       \/ d \notin held /\ Reacquire(d, e, "queued")

\* Mutant: the handler keeps its permit while the queue is full.
PublishFrom_KeepsPermit(d, e) ==
    /\ Parent[e] = d /\ st[e] = "new" /\ st[d] = "running"
    /\ \/ PublishNow(d, e)
       \/ /\ ~Room /\ UNCHANGED <<pipeVars, semVars, held>>
          /\ st' = [st EXCEPT ![e] = "blocked", ![d] = "lending"]
    /\ lapsed' = lapsed \ {d}
    /\ UNCHANGED <<pending, handed, loopVars>>

\* The handler running for event d publishes e.
PublishFrom(d, e) ==
    /\ Parent[e] = d /\ st[e] = "new" /\ st[d] = "running"
    /\ \/ PublishNow(d, e)
       \/ /\ ~Room /\ UNCHANGED pipeVars
          /\ IF d \in held THEN Release ELSE UNCHANGED semVars
          /\ held' = held \ {d}
          /\ st' = [st EXCEPT ![e] = "blocked", ![d] = "lending"]
    /\ lapsed' = lapsed \ {d}
    /\ UNCHANGED <<pending, handed, loopVars>>

\* put(e) returns or raises; the publishing handler takes its permit back.
PutEnds(e, s) ==
    /\ \/ /\ Parent[e] = External
          /\ st' = [st EXCEPT ![e] = s]
          /\ UNCHANGED <<semVars, held>>
       \/ Parent[e] # External /\ Reacquire(Parent[e], e, s)
    /\ UNCHANGED <<pending, handed, lapsed, loopVars>>

\* Mutant: a blocked put() does not look at the queue again.
PutResumes_ChecksNoRoom(e) ==
    /\ st[e] = "blocked"
    /\ Accept(e)
    /\ PutEnds(e, "queued")

\* A blocked put() finds room.
PutResumes(e) ==
    /\ st[e] = "blocked" /\ Room
    /\ Accept(e)
    /\ PutEnds(e, "queued")

\* A blocked put() is cancelled or times out, even when there is room again.
PutCancelled(e) ==
    /\ st[e] = "blocked"
    /\ UNCHANGED pipeVars
    /\ PutEnds(e, "withdrawn")

Regained(d) ==
    /\ st[d] = "regain" /\ fut[d] = "granted"
    /\ Leave(d, 0)
    /\ held' = held \cup {d}
    /\ st' = [st EXCEPT ![d] = "running"]
    /\ UNCHANGED <<pipeVars, pending, handed, lapsed, loopVars>>

\* A timeout or a cancellation strikes while the chain waits for its permit.
CancelRegain(d) ==
    /\ st[d] = "regain"
    /\ CancelWait(d)
    /\ UNCHANGED <<pipeVars, pending, st, handed, chainVars, loopVars>>

\* acquire() raises and the chain goes on without a permit: an error callback,
\* the notification of a cancelled dispatch, the next handler.
RegainCancelled(d) ==
    /\ st[d] = "regain"
    /\ \/ fut[d] = "cancelled" /\ Leave(d, 0)
       \/ fut[d] = "revoked" /\ Leave(d, 1)
    /\ lapsed' = lapsed \cup {d}
    /\ st' = [st EXCEPT ![d] = "running"]
    /\ UNCHANGED <<pipeVars, pending, handed, held, loopVars>>

\* The handlers return, having published all their events or, after a failure
\* or a cancellation, only some.
DispatchEnds(d) ==
    /\ st[d] = "running"
    /\ st' = [st EXCEPT ![d] = "ended"]
    /\ UNCHANGED <<semVars, pipeVars, pending, handed, chainVars, loopVars>>

\* Mutant: the callback returns a permit that the chain no longer has.
OnDispatchDone_ReleasesAlways(d) ==
    /\ st[d] = "ended"
    /\ Release
    /\ held' = held \ {d} /\ lapsed' = lapsed \ {d}
    /\ st' = [st EXCEPT ![d] = "done"]
    /\ UNCHANGED <<pipeVars, pending, handed, loopVars>>

OnDispatchDone(d) ==
    /\ st[d] = "ended"
    /\ IF d \in held THEN Release ELSE UNCHANGED semVars
    /\ held' = held \ {d} /\ lapsed' = lapsed \ {d}
    /\ st' = [st EXCEPT ![d] = "done"]
    /\ UNCHANGED <<pipeVars, pending, handed, loopVars>>

\* clear() removes and acknowledges everything that is still queued.
Clear ==
    /\ queue # << >>
    /\ queue' = << >>
    /\ unfinished' = unfinished - Len(queue)
    /\ st' = [e \in Events |-> IF st[e] = "queued" THEN "dropped" ELSE st[e]]
    /\ UNCHANGED <<semVars, pending, handed, chainVars, loopVars>>

-----------------------------------------------------------------------------
(* The consumer.                                                            *)

\* An exception that is not an Exception ends the consumer.
GoOn(k) == Enter(k, "loop") \/ Enter(k, "ended")

ConsumerRuns(k) ==
    /\ \/ at[k] = "created"
       \/ at[k] = "get" /\ queue # << >>
    /\ ~cancelled[k]
    /\ Enter(k, "loop")
    /\ UNCHANGED <<semVars, pipeVars, pending, st, handed, chainVars,
                   cancelled, current, started, stops>>

ConsumerSleeps(k) ==
    /\ at[k] = "loop" /\ pending = None /\ queue = << >>
    /\ Enter(k, "get")
    /\ UNCHANGED <<semVars, pipeVars, pending, st, handed, chainVars,
                   cancelled, current, started, stops>>

\* Mutant: an event whose handlers cannot be captured is not acknowledged.
Dequeue_NoTaskDone(k) ==
    /\ at[k] = "loop" /\ pending = None /\ queue # << >>
    /\ queue' = Tail(queue)
    /\ \/ /\ pending' = Head(queue)
          /\ st' = [st EXCEPT ![Head(queue)] = "pending"]
          /\ UNCHANGED at
       \/ /\ st' = [st EXCEPT ![Head(queue)] = "dropped"]
          /\ GoOn(k)
          /\ UNCHANGED pending
    /\ UNCHANGED <<semVars, unfinished, handed, chainVars, cancelled, current,
                   started, stops>>

\* get() and the capture of the handler chain, which may raise.
Dequeue(k) ==
    /\ at[k] = "loop" /\ pending = None /\ queue # << >>
    /\ queue' = Tail(queue)
    /\ \/ /\ pending' = Head(queue)
          /\ st' = [st EXCEPT ![Head(queue)] = "pending"]
          /\ UNCHANGED <<unfinished, at>>
       \/ /\ unfinished' = unfinished - 1
          /\ st' = [st EXCEPT ![Head(queue)] = "dropped"]
          /\ GoOn(k)
          /\ UNCHANGED pending
    /\ UNCHANGED <<semVars, handed, chainVars, cancelled, current, started,
                   stops>>

AwaitPermit(k) ==
    /\ at[k] = "loop" /\ pending # None
    /\ Enqueue(k)
    /\ Enter(k, "acquire")
    /\ UNCHANGED <<pipeVars, pending, st, handed, chainVars, cancelled, current,
                   started, stops>>

\* The permit is there: create the dispatch task of the pending event.
CreateDispatch(k) ==
    /\ st' = [st EXCEPT ![pending] = "running"]
    /\ handed' = Append(handed, pending)
    /\ held' = held \cup {pending}
    /\ Enter(k, "loop")

\* record_event() or create_task() raised; the permit goes back.
CreateFails(k) ==
    /\ st' = [st EXCEPT ![pending] = "dropped"]
    /\ GoOn(k)
    /\ UNCHANGED <<handed, held>>

\* Mutant: a consumer cancelled after its grant dispatches all the same.
Launch_SwallowsCancellation(k) ==
    /\ pending # None
    /\ \/ at[k] = "loop" /\ AcquireNow
       \/ at[k] = "acquire" /\ fut[k] \in {"granted", "revoked"} /\ Leave(k, 0)
    /\ CreateDispatch(k)
    /\ pending' = None
    /\ unfinished' = unfinished - 1
    /\ UNCHANGED <<queue, lapsed, cancelled, current, started, stops>>

Launch(k) ==
    /\ \/ /\ at[k] = "loop" /\ pending # None /\ ~Locked
          /\ \/ AcquireNow /\ CreateDispatch(k)
             \/ UNCHANGED semVars /\ CreateFails(k)
       \/ /\ at[k] = "acquire" /\ fut[k] = "granted"
          /\ \/ Leave(k, 0) /\ CreateDispatch(k)
             \/ Leave(k, 1) /\ CreateFails(k)
    /\ pending' = None
    /\ unfinished' = unfinished - 1
    /\ UNCHANGED <<queue, lapsed, cancelled, current, started, stops>>

\* A cancelled consumer gets CancelledError at its await and returns; the
\* pending event stays for the next consumer.
ConsumerCancelled(k) ==
    /\ cancelled[k]
    /\ \/ at[k] \in {"created", "get"} /\ UNCHANGED semVars
       \/ at[k] = "acquire" /\ fut[k] = "cancelled" /\ Leave(k, 0)
       \/ at[k] = "acquire" /\ fut[k] = "revoked" /\ Leave(k, 1)
    /\ Enter(k, "ended")
    /\ UNCHANGED <<pipeVars, pending, st, handed, chainVars, cancelled, current,
                   started, stops>>

\* Mutant: the callback of any consumer resets the loop.
OnConsumerDone_AnyConsumer(k) ==
    /\ at[k] = "ended"
    /\ Enter(k, "gone")
    /\ cancelled' = [cancelled EXCEPT ![k] = FALSE]
    /\ current' = None /\ started' = FALSE
    /\ UNCHANGED <<semVars, pipeVars, pending, st, handed, chainVars, stops>>

OnConsumerDone(k) ==
    /\ at[k] = "ended"
    /\ Enter(k, "gone")
    /\ cancelled' = [cancelled EXCEPT ![k] = FALSE]
    /\ IF current = k THEN current' = None /\ started' = FALSE
                      ELSE UNCHANGED <<current, started>>
    /\ UNCHANGED <<semVars, pipeVars, pending, st, handed, chainVars, stops>>

-----------------------------------------------------------------------------
(* start() and stop().                                                      *)

Start ==
    /\ ~started
    /\ \E k \in Consumers :
        /\ at[k] = "gone"
        /\ Enter(k, "created")
        /\ current' = k
    /\ started' = TRUE
    /\ UNCHANGED <<semVars, pipeVars, pending, st, handed, chainVars, cancelled,
                   stops>>

\* Mutant: the event that waits for capacity is forgotten.
Stop_ForgetsPending ==
    /\ current # None /\ stops < MaxStops
    /\ current' = None /\ started' = FALSE /\ stops' = stops + 1
    /\ cancelled' = [cancelled EXCEPT ![current] = at[current] # "ended"]
    /\ IF at[current] = "acquire" THEN CancelWait(current) ELSE UNCHANGED semVars
    /\ pending' = None
    /\ UNCHANGED <<pipeVars, st, handed, chainVars, at>>

\* stop() up to its gather(); what follows only waits for the old consumer.
Stop ==
    /\ current # None /\ stops < MaxStops
    /\ current' = None /\ started' = FALSE /\ stops' = stops + 1
    /\ cancelled' = [cancelled EXCEPT ![current] = at[current] # "ended"]
    /\ IF at[current] = "acquire" THEN CancelWait(current) ELSE UNCHANGED semVars
    /\ UNCHANGED <<pipeVars, pending, st, handed, chainVars, at>>

-----------------------------------------------------------------------------
ConsumerStep(k) ==
    ConsumerSleeps(k) \/ Dequeue(k) \/ AwaitPermit(k)
        \/ (at[k] = "loop" /\ Launch(k))

ConsumerWakes(k) ==
    ConsumerRuns(k) \/ (at[k] = "acquire" /\ Launch(k))
        \/ ConsumerCancelled(k) \/ OnConsumerDone(k)

HandlerStep(d) ==
    \/ \E e \in Events : PublishFrom(d, e)
    \/ Regained(d) \/ RegainCancelled(d) \/ DispatchEnds(d) \/ OnDispatchDone(d)

Cancellation(e) == PutCancelled(e) \/ CancelRegain(e)

\* Everything but start(), which is the core's to call (EventCore).
LoopNext ==
    \/ \E k \in Consumers : ConsumerStep(k)
    \/ /\ Yielded
       /\ \/ \E k \in Consumers : ConsumerWakes(k)
          \/ \E e \in Events : \/ PublishExternal(e) \/ PutResumes(e)
                              \/ HandlerStep(e) \/ Cancellation(e)
          \/ Clear \/ Stop

\* asyncio runs what is ready and handlers return.  Nobody need cancel anything.
LoopFairness ==
    /\ \A k \in Consumers :
        WF_vars(ConsumerStep(k) \/ (Yielded /\ ConsumerWakes(k)))
    /\ \A e \in Events : WF_vars(Yielded /\ (PutResumes(e) \/ HandlerStep(e)))

\* The loop on its own, started and stopped at will
LoopSpec == Init /\ [][LoopNext \/ (Yielded /\ Start)]_vars

-----------------------------------------------------------------------------
(* Safety.                                                                  *)

Live(k) == at[k] \in {"created", "loop", "get", "acquire"} /\ ~cancelled[k]

\* stop() and start() may overlap an old consumer with its replacement, but
\* only the current one still consumes.
OnlyCurrentConsumes == \A k \in Consumers : Live(k) => current = k /\ started

\* A consumer that is waiting for a permit finds the pending event when it
\* gets one: nobody else took it (event_loop.py:136 unpacks it unchecked).
PendingAwaitsPermit ==
    \A k \in Consumers : at[k] = "acquire" /\ ~cancelled[k] => pending # None

\* join() counts exactly the events that are queued or pending.
UnfinishedMatchesQueue ==
    unfinished = Len(queue) + (IF pending = None THEN 0 ELSE 1)

\* Backpressure: each permit is free, reserved for a waiter or held by a chain
\* that runs, and a chain runs without one only if its last reacquisition was
\* cancelled, whatever else is cancelled, fails or is replaced.
Running == {d \in Events : st[d] \in {"running", "ended"}}
BackpressureHolds ==
    /\ value + Cardinality(Reserved) + Cardinality(held) = Permits
    /\ Running = held \cup lapsed
    /\ held \cap lapsed = {}

\* Every accepted event is handed over at most once, in order of acceptance;
\* a stop never loses the event that waited for capacity.
Delivery == INSTANCE EventDelivery
    WITH inbox <- (IF pending = None THEN << >> ELSE <<pending>>) \o queue,
         dropped <- {e \in Events : st[e] = "dropped"}
DeliverySpec == Delivery!Spec

-----------------------------------------------------------------------------
(* Liveness.                                                                *)

Finished(e) == st[e] \in {"done", "dropped", "withdrawn"}

\* Every published event is dispatched to its end or visibly dropped, unless
\* its put() was cancelled: again and again nothing is on its way, even when all
\* permits belong to handlers that publish into a full queue, when
\* reacquisitions are cancelled and when the loop is stopped and restarted.
EveryEventFinishes == []<>(\A e \in Events : st[e] = "new" \/ Finished(e))
=============================================================================
