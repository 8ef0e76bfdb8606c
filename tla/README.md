# Verification of the Apixis event core and graph runtime

TLA+ models of the asyncio event runtime (`src/source/apixis/core/event`), the
graph runtime built on it (`core/graph`) and the ID generator (`core/utils/snow`),
checked with TLC on small instances and, except for liveness, proved with TLAPS
for every value of the constants.

Paths below are relative to `src/source/apixis/core/`.

## The system

Apixis is one asyncio process. An application registers *handlers* for event
name patterns, publishes *events* into a bounded in-memory queue, and one
*event loop* consumer takes them out and starts one dispatch task per event,
never more than `EVENT_LOOP_BACKPRESSURE` at a time. Graph execution is built on
top: a compiled graph is a handler, and each step of a graph invocation is an
event it posts to itself.

| Component | State | Operations | Talks to | What is hard |
|---|---|---|---|---|
| Handler chains (`event/base.py`) | `HandlerChainToken`: `held`, `closed`, `suspended`, `resume_lock`; the shared semaphore | `suspend_process()`, `_on_dispatch_done` | event loop, pipe, waiters, `interrupt()` | sibling tasks share one permit; cancellation inside the reacquisition; children that outlive the dispatch |
| Handler execution (`event/base.py`, `event/event_loop.py`) | `ApixEvent`: `accepted`, `error_stack`, `seen`; background tasks | `execute`, `_execute_func`, `accept`, `notify_cancelled`, `_dispatch_event` | graph and waiter callbacks | background tasks share the event; failing callbacks; cancellation half way down a chain |
| Event loop, pipe, channel (`event/event_loop.py`, `event_pipe.py`, `pipe_channel.py`) | queue and its unfinished count, `_pending_dispatch`, `_event_consumer_task`, `_started`, dispatch tasks | `post_event`, `put`, `clear`, `start`, `stop`, consumer loop, done callbacks | registry (capture), semaphore | stop and start overlap two consumers; a dequeued event waits for capacity; publishing from handlers into a full queue |
| Handler registry, subscription (`event/handler_registry.py`, `subscription.py`) | `registry`, `priority_buckets`, `cached_chain` | `register_handler`, `unregister_handler`, `get_handlers_for_event` | event loop | stale cached chains; indices that shift when a handler is replaced |
| Event waiters (`event/subscription.py`) | a future, a deadline, a temporary handler | `wait_for_event`, `await_for`, `EventWaiter.wait` | registry, suspend | deadline against a late event |
| Core factory (`event/factory.py`) | one core per loop, `start_task`, `start_lock` | getters, `start_core` | all of the above | several scheduled starts |
| Graph invocation (`graph/node_graph.py`, `graph/context/graph_context.py`) | graphs, `_contexts`, per attempt: status, completion, live state, steps, target, history | constructor, `decompose`, `create_context`, `restore_context`, `invoke`, `stream`, `abort`, the dispatch handler, `apply_command`, `_post_next` | event pipe, registry, namespaces | an attempt is driven by events only: a lost or doubled one hangs or repeats it; late node results; replacement while attempts run |
| Interruption (`graph/interrupter/`) | `Block` futures | `interrupt`, `resolve`, `fail`, `cancel` | pipe, suspend, contexts | resolution, timeout, cancellation and the end of the attempt race |
| Namespaces (`graph/utils/namespace.py`) | namespace to graph | acquire, release | graph constructor | a constructor that fails after it retired the owner |
| Streams (`graph/context/stream_writer.py`) | a channel of chunks | write, close, iterate | `stream()` | chunks against close |
| Builder, nodes, state helpers (`graph/graph_manager.py`, `node.py`, `utils/`) | tables built before `compile()` | add nodes and edges, gather a batch, merge state | graph | order of results in a batch |
| Snowflake IDs (`utils/snow/`) | last tick, sequence, over-cost and turn-back counters | `next_id` | wall clock | clocks that go backwards, exhausted sequences |
| Logger (`utils/logger.py`) | bounded buffer, flush task | log, flush, start, stop | disk | eviction while flushing |

What makes each correct, in a sentence: a chain runs under a permit and lends it
while it waits, and permits are conserved; every handler hears exactly what
happened before it; every accepted event is dispatched at most once, in order,
and does not wait for ever; the cached chain is the chain; an attempt is carried
by exactly one event, commits whole batches, and ends exactly once; IDs do not
repeat. The lines where each of these can fail are the hazards of
`PROJECT.json`.

## Modules

asyncio is cooperative: a task runs alone from one `await` to the next. In all
modules **one action is the code between two awaits**, and interleavings are
exactly those asyncio allows. A done callback is a separate action, because
other callbacks may run before it.

| Module | Models |
|---|---|
| `PermitSemaphore` | `asyncio.BoundedSemaphore` as the code uses it: FIFO waiters, a grant that is reserved before the waiter runs, cancellation before and after the grant. External code, modelled from its use. |
| `HandlerChain` | `HandlerChainToken`, `suspend_process()` and the consumer's acquisition. `pc[c][b]` is where branch `b` (the dispatch task or a child task) of chain `c` is: `body` is inside the context manager, `lock` and `acquire` are the two awaits of its exit. |
| `PermitPool` | The abstract specification of `HandlerChain`: chains take free permits and give them back. |
| `HandlerExecution` | One dispatch: `execute()` phase by phase, failures with `on_error`, acceptance, background tasks, cancellation and its notifications. |
| `EventLoop` | Queue, consumer tasks, `start()`, `stop()`, `clear()`, `post_event()` from outside and from handlers, with cancelled puts and cancelled reacquisitions. |
| `EventCore` | `EventLoop` with the core factory around it: the getters, the scheduled start task, `start_core()`. |
| `EventDelivery` | The abstract specification of `EventLoop`: a FIFO of accepted events, each handed over at most once or visibly dropped. |
| `HandlerRegistry` | Buckets, registry and cache; a pattern is the set of event names it accepts. |
| `GraphInvocation` | Graphs, contexts, callers and dispatch events. A state counts applied commands (`Batch` per completed node batch), so that a half-applied batch shows. |
| `Attempts` | The abstract specification of `GraphInvocation`: what a caller can rely on, without graphs, tasks and events. An attempt begins once, commits whole batches one by one between checkpoints, ends once, and its caller is answered once and not before the end. |
| `GraphInterrupt` | One node batch of a running attempt: node tasks, `interrupt()`, `Block`, hooks and the fallback handler, the ordered gather. |
| `EventWaiter` | `wait_for_event()` and `await_for()` in handler chains that share the permits with the events they wait for. |
| `Snowflake` | `next_id()` with its three modes, under a clock that may be set anywhere in a range. |
| `PermitSemaphoreProofs`, `HandlerChainProofs`, `HandlerExecutionProofs`, `EventLoopProofs`, `GraphInvocationProofs`, `GraphInterruptProofs`, `SubscriptionProofs` (`EventWaiter` and `HandlerRegistry`), `SnowflakeProofs` | Theorems and proofs. |
| `MC*` | Instances for TLC: sets of users, event parents, symmetries. |

`HandlerChain` and `EventLoop` both EXTEND `PermitSemaphore`. They split the
work: `HandlerChain` has several branches per chain and their cancellation but
no queue; `EventLoop` has the queue and consumers that are stopped, with one
branch per chain whose suspension is a single step when nothing blocks (`Yield`).
Both let a chain whose reacquisition was cancelled go on without a permit.
`EventCore` adds to `EventLoop` who starts it, and is what its run checks.
`EventWaiter` takes the semaphore for a counter and keeps, per chain, whether it
holds a permit; `GraphInterrupt` is the inside of the step that
`GraphInvocation` awaits in `NodeReturns`.

Operators named `X_Reason` preceded by a comment `Mutant:` are deliberately wrong
variants of `X`, one per property. They are used by no specification; they
document which mistake a property catches.

### How the state maps to the code

* `HandlerChain`: `held`, `closed`, `suspended` are the token's fields;
  `value`, `waiters`, `fut` the semaphore; `resume_lock` is owned by the branch
  in `acquire` (it is a FIFO lock, released on every way out). `lapsed` is a
  history variable: the chain's last reacquisition was cancelled.
* `HandlerExecution`: `at[h]` is the function handler `h` is in; `recovering`
  says that it is in `on_error` of that phase. A handler has all notification
  callbacks or none (`hooked`). A timeout is a failure.
* `EventLoop`: `at[k]` is the await of consumer task `k`; `loop` is a consumer
  that runs, and `Yielded` forbids every other action until it reaches an await.
  `current` and `started` are `_event_consumer_task` and `_started`. `held` is
  the set of dispatches whose token says `held`, `lapsed` is history: chains
  whose last reacquisition was cancelled, which run without a permit until they
  suspend again. An event is `withdrawn` when its `put()` was cancelled or timed
  out: it was never accepted.
* `GraphInvocation`: `slot[s]` is a dispatch event and then its task,
  `invoker[c]` the task that runs `invoke()` or `stream()`. `End` is
  `_transition_to` together with the callback that discards the context from its
  graph; `Active` is `_is_active_context`, the test every callback makes.
  `EventDropped` is a dispatch event lost to `clear()` or to a failed capture;
  `lost` remembers it. `InvokerResumes` may raise although there is a result:
  the caller's copy of it can fail. To `Attempts` a context shows its lifecycle, its
  completed steps, the steps at its checkpoints and its completion; the live
  state is left out, half a batch is visible only if it is delivered.
* `HandlerRegistry`: `registry` and `cached` are the code's dictionaries,
  `buckets` is `priority_buckets` (the sorted list of its keys is their order).
  `Before` is the order in which `_iter_active_handler_names` yields, without the
  list it would yield. A name is registered under the priority it asked for, or
  under `Between`.
* `EventCore`: `startTask` is an unfinished `start_task`. Neither `start()`
  yields, so `start_lock` is never contended and `start_core()` is one step.
* `GraphInterrupt`: `node[n].at` is where the task of node `n` is: `posting` in
  `post_event()`, `blocked` in `await block`, `leaving` at the exit of
  `suspend_process()`. `fut`, `accepted` are the `Block`, `ev` its event, with
  `hooking` inside the hook; `timer` and `limit` are the `asyncio.timeout` scopes
  of `interrupt()` and of the node, `cancelling` is `Task.cancelling()` and
  `must` a cancellation that will be raised at the task's next step. `batch` is
  the dispatch in `_gather_tasks_in_order`: the first gather, the one that
  unwinds, and what `_execute_node` did afterwards. `End` and `Running` are
  those of `GraphInvocation` without the context bookkeeping. `requested` and
  `revoked` are history.
* `EventWaiter`: `fut`, `deadline`, `timer`, `open` are `_future`, `_deadline`,
  `_timeout_handle` and the negated `_closed`; `expired` is the cancellation by
  `asyncio.wait_for`'s own timer. `event[e].chain` are the waiters captured when
  the event was dequeued and not called yet. `held` is the token's: a cancelled
  reacquisition leaves it false, and the next `wait()` or the end of the dispatch
  gives back only what the chain has. `Functions` is what a dispatch may call
  first of a waiter's handler, `Resolving` the functions that
  `_register_wait_handler` sets to `_resolve`. `since`, `got` and `first`, the
  first event that reached the waiter in time, are history.
* `Snowflake`: `last`, `seq`, `over`, `terms`, `back`, `index` are the private
  fields; `issued`, `calls`, `newest` and `turns` are history.

## Runs

| Run | Instance | Shows |
|---|---|---|
| `HandlerChain` | 2 chains, 2 branches each, 1 permit (18 thousand states) | permit conservation, lending, reacquisition, refinement of `PermitPool`; branches get out of `suspend_process()` and the consumer is served |
| `HandlerChainCancelled` | 2 chains, 1 branch | *violated*: see Divergences |
| `HandlerExecution` | all chains of 3 handlers (3.5 million states) | what is run, recorded and notified |
| `HandlerExecutionBackground` | chains of 2 | *violated*: see Divergences |
| `EventLoop` | 4 events (two published by handlers of the others), queue of 1, 1 permit, 2 consumer names, 1 stop, getters and start tasks, puts and reacquisitions that may be cancelled (239 thousand states) | single consumer, no lost pending event, accounting, backpressure, refinement of `EventDelivery`; every event finishes |
| `HandlerRegistry` | 3 names, 2 event names, 2 priorities, all registrations (2 thousand states) | cached chains are those a rebuild gives, buckets and registry agree, nobody else is reordered, `between_handlers` places as promised |
| `GraphInvocation` | 1 graph, 2 attempts (one may restore the other's checkpoint), 2 events, 2 steps, batches of 2, snapshots, dropped events (1.2 million states up to symmetry) | one carrier per attempt, whole checkpoints and results, no late commit, refinement of `Attempts` |
| `GraphReplacement` | 2 graphs in one namespace, 1 attempt, 3 events, 2 steps, dropped events (20 thousand states) | the owner manages what runs; a replacement that gets the event of a retired graph's attempt commits nothing; every invocation ends whose event was not dropped |
| `GraphInterrupt` | 2 nodes, one may interrupt, 1 cancellation of the dispatch (220 thousand states) | the gather leaves nothing behind, no orphaned block, only a wish to abort aborts, a cancelled block stops its node; blocked nodes get out |
| `EventWaiter` | a context and an `await_for()`, 2 events, 1 permit, clock 0..1 (252 thousand states) | results in time, the first event kept, only held permits given back; due waits end |
| `Snowflake` | 2 numbers per tick, 2 over-cost ticks, 4 clock values, 14 calls (198 thousand states) | increase, uniqueness up to four turn-backs |
| `SnowflakeSequence` | a tick with 3 numbers | *violated*: see Divergences |

**Why these bounds.** One permit and one queue place are the tight case of
backpressure; two chains are one that waits and one that holds, two branches are
one that resumes while its sibling suspends or is cancelled (more of each is
what the proofs are for). With one stop, two consumer names are enough: only a
stopped consumer can be there beside the current one, and one that dies is
replaced after its done callback. More stops can pile up more old consumers, as
each may still be finishing; the theorems of `EventLoopProofs` hold for any number
of stops and consumers. Three handlers put one before and one behind
any other. Two graphs are a graph and its replacement; steps 0, 1 and 2 have a
first, a middle and an exhausted budget. `MaxStops`, `MaxSteps`, `MaxCalls`,
`MaxCancels`, `MaxTime`, `ClockStart` and `ClockEnd` are the only bounds on
behaviours; `MaxSteps` is the program's own. Slots bound the events that exist at a time: there is at most one
per attempt and one dispatch that has not ended yet. One interrupting node and a
sibling that fails, times out or returns are what the gather and the attempt make
different; the permits of several interrupting nodes are those of `HandlerChain`,
and the theorems of `GraphInterruptProofs` hold for all nodes and any number of
cancellations (with two interrupting nodes the safety properties were also
checked). A clock of two values has a deadline that passes before, together with
and after an event, and a timer that fires late; two events in the queue are one
that is captured before the other is; one permit makes the waiting chains and
the events they wait for exclude each other.

Deadlock is checked in `GraphInterrupt`, where it means a batch that can neither
go on nor is finished (`Terminating`). It is not checked elsewhere: the instances
are finite work, and the program stops when it is done.

**Fairness.** Weak fairness on what asyncio schedules (ready tasks and
callbacks), on handlers and, in `GraphInvocation`, nodes returning, and on the
application asking for a stopped core (each getter in `event/factory.py`
schedules a start). Strong fairness only where a FIFO queue serves whoever waits:
`resume_lock` (`TakeLock`), blocked puts (`InvokerPuts`, `PutNext`) and the
permits in `EventWaiter` (`Regain`, `Dispatch`); and on the start task of
`EventCore`, which is not cancelled for ever. Handlers are never assumed to
publish, suspend, accept, fail or be cancelled; a task that has been cancelled
while it waits for a permit does get its exception (`RegainCancelled`).
`EveryEventFinishes` says that again and again no event is on its way; as the
events of an instance are finitely many, each one that is published finishes. `GraphInterrupt` assumes nothing
of the code outside the runtime: node functions, hooks and holders of a block
may take for ever and no timeout need be armed, so `InterruptionEnds` only
promises what the runtime itself brings about.

## Divergences between the code and its documentation

* **A permit is not always reacquired** (`HandlerChainCancelled`).
  `event/event_pipe.py:51-53`: a handler's permit is reacquired "before
  continuing, including after errors or cancellation". A cancellation that
  arrives *during* the reacquisition (`event/base.py:72-79`) leaves `held` false;
  whoever catches it goes on without a permit, and so do the handlers behind.
  `ResumedChainHoldsPermit` is what does hold. Capacity is never lost, but more
  handlers may run than there are permits: `BackpressureHolds` says exactly which
  (`lapsed`).
* **A background handler hears of later failures** (`HandlerExecutionBackground`).
  `event/base.py:146`: "`on_has_error` handles upstream failures only". A
  background task reads `event.has_error` whenever it starts
  (`event/base.py:233`), by then a handler behind it may have failed; with
  `stop_when_error` its core is skipped for it.
* **One number above `max_seq_number`** (`SnowflakeSequence`).
  `utils/snow/options.py:34` calls it inclusive; the overflow test precedes the
  increment (`utils/snow/snowflake_m1.py:105,115`). With the default options the
  extra number is 2^6 and carries into the worker bits.

Also worth knowing: `utils/id_generator.py:8` promises IDs unique within the
process; the four numbers reserved for turn-backs are reused cyclically
(`snowflake_m1.py:92-93`), so this holds until the fifth turn-back, and
`UniqueUpToFourTurnBacks` is the property stated and proved.

## Proofs

All theorems are proved by `tlapm` from the specifications and the named
`ASSUME`s of the modules: finite sets of chains, branches and other users of the
semaphore, at least one permit and one handler in a chain, distinct names for
what the code keeps apart (a dispatch task and a consumer task, the consumer and
the branches of chains), a state merge that applies at least one command per
batch, and the documented option ranges of Snowflake. Nothing else is assumed:
the bounds of the runs (`MaxStops`, `MaxSteps`, `MaxCancels`, `MaxCalls`,
`MaxTime`) are arbitrary numbers in the theorems.

Each proof follows the same line: an inductive invariant `IInv` (in most modules
with one part per kind of record), one lemma per action, in which a step proves
each part the action can disturb, `Spec => []IInv`, and then each property from
`IInv`. TLC checked every `IInv` on the runs' instances before it was proved.

**Handler chains** (`PermitSemaphoreProofs`, `HandlerChainProofs`).
`PermitConservation` is not inductive. It needs to know that a permit reserved
for a task belongs to a task that is at the await (`OwnershipInvariant`: who is
at which await has which future, at most one branch is past `resume_lock`), and
that a chain with a suspended or closed token holds nothing. The lemmas of
`PermitSemaphoreProofs` say what each semaphore operation does to
`value + |Reserved|`; each action of the chain then either moves one unit between
the pool and `held` or moves nothing. From the invariant follow
`PermitsConserved`, `SuspendedChainsLend`, `TypeCorrect`, `ResumedChainsHold` (which also needs that a settled chain's count is zero), and
`ImplementsPermitPool`: each step maps to `Take`, `Give` or a stutter.

**Snowflake** (`SnowflakeProofs`). Ticks are `WorkerSpan * SeqSpan` apart and
numbers stay within `SeqSpan`, so an ID determines its tick and number
(`IdInjective`). Every regular call returns more than `Id(last, seq)` whatever
the clock does; with that as the invariant `Ordered`, IDs increase
(`IncreasingIds`). For `FourTurnBacks` the invariant `Unique` classifies the
issued IDs: regular ones at most `Id(last, seq)`, and turned-back ones whose
number belongs to their turn-back and whose tick the running one has passed.

**Interruptions** (`GraphInterruptProofs`). What the properties say of a node at
the end depends on how it got there, so the invariant follows it. `Counted`: a
cancellation that is due, and a deadline that has expired, are counted in
`cancelling`; hence `interrupt()`'s test for `cancelling() == 0` never takes a
timeout or a failing sibling for a cancelled block. `Excused`: a block that is
cancelled while its task is not was revoked on purpose, or the attempt is over;
with it `AbortOnlyWhenAsked` follows at the one step that aborts, `Leave`.
`RevokedNode`: the node of a revoked block can leave only as stopped, or behind
its own expired deadline. `Attempt` holds what the gather achieved: done nodes
once it is past, good ends once it has committed. `Posted` orders block and
event. Every action then keeps each node's `Sound`, one lemma per kind of step.

**Handler registry** (`SubscriptionProofs`). The properties speak of lists:
chains, buckets, the order of their names. Induction over lists is not available,
so the order is stated as a relation: `Before(m, n)` holds when two places in the
buckets say so. Every operation is then one shape, `OneMore`: the buckets after
it have one place more, or one less, than those before it. `RemoveSkips` and
`InsertSkips` prove this of the two list operations, `SkipsKeeps` and
`OneMoreKeeps` that all other names keep their bucket and their order; so
`OthersAlwaysKeepOrder` needs no case for the replacing registration, which is
two such steps. A chain is a function of the matching names and of the order
among them (`ChainOfOthers`), hence a change expires enough when it expires the
events of the name it touches: `CacheAlwaysCoherent`. That every name has one
place only (`Distinct`) makes the place that `_find_handler_position` finds the
place (`FoundPlace`), and decides who is whose neighbour (`PlacesOrder`,
`Neighbours`): `BucketsAlwaysMatch` and `BetweenAlwaysHonoured`, whose boundaries
may have moved because the name was registered in front of them before. The
invariant is the conjunction of type, `BucketsMatchRegistry` and `CacheCoherent`;
the two action properties follow from it step by step (`Kept`).

**Event waiters** (`SubscriptionProofs`). `Sound` says that a future exists from
the entry of the context to its exit, that a timer has a deadline, and that only
`await_for()` is cancelled by its own timer; without the last one a context's
wait could report a timeout that is not stored. `ResultsAreInTime` follows.
`FirstEventsAreKept` is `FirstKept`, one part of `Sound`: before anything in time has reached
an open waiter its future holds no event, and from then on that event or the
cancellation of a wait; it holds because every function a dispatch may call first
resolves, `Functions \subseteq Resolving`. `WaiterTypes` rests on the sum of
`PermitsSum`: free permits, chains that hold one, and running events make
`Permits` at every moment, which fails as soon as a `wait()` gives back what a
cancelled reacquisition did not return.

**Handler execution** (`HandlerExecutionProofs`). The properties speak of two
handlers of a chain and compare what one was told with what the other did, so
they hold only because the dispatch task goes through the chain in order while
background tasks lag behind. `Position` ties each handler to `pos`, `InTurn` says
that whoever has begun has only finished foreground handlers in front of it, and
`Informed` carries the obligation (errors and acceptances in front of a handler
that has begun are known to it). `Calls` counts calls by phase: `on_error` always
has a failed function to answer for. Then `FunctionsRunOnce`,
`UpstreamErrorsReach`, `AcceptanceStops`; `Told` (the notifications have reached
exactly the handlers in front of `pos`) gives `CancellationReaches`.

**Event loop** (`EventLoopProofs`, about the `Spec` of `EventCore`, thus with
getters, start tasks and restarts). `BackpressureHolds` accounts for every permit
and for every chain that runs without one, and says nothing of who waits with
which future, so the invariant adds `Consumer` (a consumer owns a future exactly
while it awaits a permit; only the current one is not cancelled) and `Event` (an
event is in the one place its state names, a dispatch owns a future exactly
while it regains its permit, and has lent it to one put at a time: without that,
two puts could resume one dispatch). The semaphore lemmas are those of the
handler chains. From it follow `OneConsumer`, `PermitFindsPending`, `JoinCounts`,
`PermitsConserved` and `LoopTypes`. `LoopImplementsDelivery` maps queue and
pending event to the abstract inbox: a put appends to it, a launch hands over its
head, and `clear()` and a failed capture or launch drop from it; every other step
stutters. That a launch finds the event it hands over is `PendingAwaitsPermit`. `DispatchedOnce` adds that the history of dispatches holds
no event twice.

**Graph invocation** (`GraphInvocationProofs`). `OneCarrier` counts what drives a
running attempt, and is inductive only together with `Served`: a dispatch of a
running attempt holds the handler of the attempt's own graph. Without it, the
handler that captured the event could be a retired graph's, take the attempt for
inactive and return, and nothing would carry it any more. `Served` in turn needs
`GraphsOK`: one graph at most is live, it is the owner, and it manages exactly the
running attempts (`RunningIsManaged`). `NotBegun` gives the start its first
carrier, `Single` and `Carried` are the two halves of `RunningHasOneCarrier`.
`Sound` keeps every attempt's state at whole batches unless it failed, and
whatever was delivered as its result equal to the state it was taken from:
`WholeCheckpoints`, `WholeResults`. `LateResultsAreDropped` is proved action by
action: each changes only attempts that it first finds active.

`InvocationImplementsAttempts` maps every step to a step of `Attempts` or to
none. Most steps move what carries an attempt and stutter (`QuietMatches`); every
callback that ends an attempt is one `End`, whichever of caller, dispatch, batch
or application came first, because it found the attempt active
(`EndIfActiveMatches`); a retired graph aborts all its attempts in one step
(`AbortMatches`). The mapping needs one invariant more, `AnswersOK`: a completion
is pending only while the attempt runs, a running attempt's completion can be
complete only because its waiting caller gave it up, and a caller that is done
has an attempt that is. Without it the caller could be answered while its
attempt still runs, which `Attempts` forbids. `EndsAttempt` and `FailsAttempt` say
what the ends are: from `Sound`, that an aborted attempt delivers its last
checkpoint as a whole number of batches.

**Only model-checked:** liveness (`ResumeCompletes`, `ConsumerServed`,
`EveryEventFinishes`, `InvocationEnds`, `InterruptionEnds`, `WaitEnds`), which
TLAPS cannot do under fairness, and the three violated properties. Also beyond
the proofs: that `Listed` sorts, that is, that a chain lists its names in the
order `Before`; it is the library's `SetToSortSeq`, evaluated by TLC only. The
types of `HandlerChain`, `HandlerRegistry` and `GraphInvocation` are proved, and no run
repeats them.

## What is not modelled

Threads: handlers are coroutines of one loop; the registries' locks are held for
whole calls, which are single steps here. Wall-clock time: except in `Snowflake`
and `EventWaiter`, a timeout may happen whenever its scope is open. Values:
payloads, node outputs, reducers, the merge of commands, formatting. The
semaphore's and queue's inner loops are taken from asyncio.

`GraphInterrupt`: a node interrupts once, its function does not swallow a
cancellation, and only one batch runs. A block that is
cancelled because another handler accepts its event counts as cancelled on
purpose, as the code treats both alike. `EventWaiter`: two tasks that wait on one
waiter. `Snowflake.cfg` keeps the numbers of a tick below the worker bits; the carry
that the default options allow is covered by the theorems `IncreasingIds` and
`FourTurnBacks`, whose assumptions admit it. A dispatch event that `clear()` or a failed capture drops leaves its
invocation waiting until somebody ends the attempt: that is what the code does,
`GraphInvocation` models it and `InvocationEnds` says so.

Components without a module: the stream writer, a FIFO queue with one end mark;
the logger, from which nothing else reads; the graph builder, which is
sequential and validates before anything runs; state helpers, context variables
and configuration, which hold data and no control; the observed event registry,
a set that grows.

## Plan

Done, in this order: permits and chains with their proofs, event loop, registry,
IDs, graph invocation, handler execution; then the core's start, dropped dispatch
events, interruptions and waiters, the last two with their proofs; then the
proofs for handler execution, event loop with its refinement, and graph
invocation; last those for the registry, and `Attempts` with its refinement.

1. `CommandMerge`: `apply_command` as pure operators against a reference
   definition: order of results, conflicts, step budget.
2. `StreamChannel`, if the life of `stream()` shows a hazard that
   `GraphInvocation` does not have.
