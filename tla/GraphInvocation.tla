--------------------------- MODULE GraphInvocation ---------------------------
(***************************************************************************)
(* Graph invocations (graph/node_graph.py, graph/context/graph_context.py): *)
(* graphs that replace each other in one namespace, execution attempts      *)
(* (contexts) with their lifecycle, completion and checkpoints, the caller  *)
(* that awaits an attempt, and the dispatch events that drive it.           *)
(*                                                                         *)
(* An attempt has no task of its own.  Each step is one event: its dispatch *)
(* executes the targeted node batch, commits the result and posts the next  *)
(* event, while aborts, cancellations, decomposition and a replacing graph  *)
(* may come between any two awaits.  A state is counted in applied commands,*)
(* Batch per completed node batch.  Order in the queue plays no role here.  *)
(***************************************************************************)
EXTENDS Integers, Sequences, FiniteSets

CONSTANTS
    Graphs,     \* compiled graphs that share the namespace
    Contexts,
    GraphOf,    \* GraphContext.graph_id
    Slots,      \* dispatch events that may exist at a time
    None,
    MaxSteps,   \* NodeGraph max_steps
    Snapshots,  \* ~no_snapshot
    Batch       \* commands of one node batch

ASSUME GraphAssumption ==
    /\ GraphOf \in [Contexts -> Graphs]
    /\ None \notin Graphs \cup Contexts
    /\ MaxSteps \in Nat /\ Snapshots \in BOOLEAN /\ Batch \in Nat \ {0}

VARIABLES
    born,       \* graphs whose construction was tried
    live,       \* graphs that are not decomposed
    owner,      \* the graph registered for the namespace, and its handlers
    managed,    \* NodeGraph._contexts, of all graphs
    ctx,        \* the contexts
    invoker,    \* the task that runs invoke() or stream() for a context
    slot,       \* the dispatch events and their tasks
    lost        \* running attempts whose event was dropped from the queue

vars == <<born, live, owner, managed, ctx, invoker, slot, lost>>

Status == {"absent", "pending", "running", "failed", "aborted", "finished"}
Terminal == {"failed", "aborted", "finished"}
Targets == {"node", "end"}
Checkpoint == [state : Nat, steps : Nat, target : Targets]

Context == [status : Status,
            completion : {"none", "pending", "result", "error", "cancelled"},
            result : Nat,           \* the value of a completion with a result
            state : Nat, steps : Nat, target : Targets,
            history : Seq(Checkpoint)]

\* "created" is stream()'s task before it runs.  "posting" waits in
\* post_event(), "waiting" for the completion.
Invoker == {"idle", "created", "posting", "waiting",
            "closing", "postCancelled", "waitCancelled",
            "returned", "raised", "cancelled"}

\* "after" runs the handlers behind the graph's; "unwinding" is a dispatch
\* with a CancelledError on its way.
SlotState == [at : {"free", "queued", "upstream", "node", "posting", "after",
                    "unwinding"},
              c : Contexts \cup {None},
              by : Graphs \cup {None}]

TypeOK ==
    /\ born \subseteq Graphs /\ live \subseteq born
    /\ owner \in live \cup {None}
    /\ managed \subseteq Contexts
    /\ ctx \in [Contexts -> Context]
    /\ invoker \in [Contexts -> Invoker]
    /\ slot \in [Slots -> SlotState]
    /\ lost \subseteq Contexts

Absent == [status |-> "absent", completion |-> "none", result |-> 0,
           state |-> 0, steps |-> 0, target |-> "end", history |-> << >>]
Free == [at |-> "free", c |-> None, by |-> None]

Init ==
    /\ born = {} /\ live = {} /\ owner = None /\ managed = {}
    /\ ctx = [c \in Contexts |-> Absent]
    /\ invoker = [c \in Contexts |-> "idle"]
    /\ slot = [s \in Slots |-> Free]
    /\ lost = {}

-----------------------------------------------------------------------------
(* GraphContext: what its transitions do to a context x.                    *)

\* _latest_snapshot_state
Saved(x) == IF x.history = << >> THEN x.state ELSE x.history[Len(x.history)].state

Ended(x, status, how, value) ==
    [x EXCEPT !.status = status,
              !.completion = IF @ = "pending" THEN how ELSE @,
              !.result = IF x.completion = "pending" THEN value ELSE @]

Finish(x) == Ended(x, "finished", "result", x.state)
Fail(x) == Ended(x, "failed", "error", 0)

\* Mutant: an abort delivers the live state.
Abort_LiveState(x) == Ended(x, "aborted", "result", x.state)

Abort(x) == Ended(x, "aborted", "result", Saved(x))

\* Mutant: a cancelled attempt leaves its completion alone.
Cancel_LeavesCompletion(x) == [x EXCEPT !.status = "aborted"]

Cancel(x) == Ended(x, "aborted", "cancelled", 0)

Running(c) == ctx[c].status = "running"

\* _is_active_context of graph g
Active(g, c) == g \in live /\ GraphOf[c] = g /\ c \in managed /\ Running(c)

\* A terminal transition, which releases the context from its graph ...
End(c, x) ==
    /\ ctx' = [ctx EXCEPT ![c] = x]
    /\ managed' = managed \ {c}

\* Mutant: the handler that gets an event ends its attempt in any case.
EndIfActive_Unchecked(g, c, x) == End(c, x)

\* ... and the way every callback of graph g asks for one.
EndIfActive(g, c, x) ==
    IF Active(g, c) THEN End(c, x) ELSE UNCHANGED <<ctx, managed>>

Update(c, x) == ctx' = [ctx EXCEPT ![c] = x] /\ UNCHANGED managed

-----------------------------------------------------------------------------
(* Graphs: construction, replacement, decomposition.                        *)

\* Mutant: a retired graph forgets its attempts instead of aborting them.
Retire_ForgetsContexts(g) ==
    /\ managed' = {c \in managed : GraphOf[c] # g}
    /\ UNCHANGED ctx

\* decompose(force=True) of graph g; None stands for no graph.
Retire(g) ==
    LET mine == {c \in managed : GraphOf[c] = g}
    IN  /\ ctx' = [c \in Contexts |-> IF c \in mine THEN Abort(ctx[c]) ELSE ctx[c]]
        /\ managed' = managed \ mine

\* The previous owner is retired first.  A registration that fails afterwards
\* releases the namespace again.
Construct(g) ==
    /\ g \notin born
    /\ born' = born \cup {g}
    /\ Retire(owner)
    /\ \/ live' = (live \ {owner}) \cup {g} /\ owner' = g
       \/ live' = live \ {owner} /\ owner' = None
    /\ UNCHANGED <<invoker, slot, lost>>

Decompose(g) ==
    /\ g \in live
    /\ live' = live \ {g}
    /\ owner' = IF owner = g THEN None ELSE owner
    /\ Retire(g)
    /\ UNCHANGED <<born, invoker, slot, lost>>

-----------------------------------------------------------------------------
(* Contexts.                                                                *)

graphVars == <<born, live, owner, lost>>

CreateContext(c) ==
    /\ ctx[c].status = "absent" /\ GraphOf[c] \in live
    /\ \E entry \in Targets :
         Update(c, [Absent EXCEPT !.status = "pending", !.target = entry])
    /\ UNCHANGED <<graphVars, invoker, slot>>

\* A checkpoint becomes an attempt of its own, with the history before it or
\* alone.
RestoreContext(c, src) ==
    /\ ctx[c].status = "absent" /\ GraphOf[c] \in live /\ GraphOf[src] = GraphOf[c]
    /\ \E i \in DOMAIN ctx[src].history :
        LET point == ctx[src].history[i]
        IN  \E history \in {SubSeq(ctx[src].history, 1, i), <<point>>} :
              Update(c, [Absent EXCEPT
                  !.status = "pending", !.state = point.state, !.steps = point.steps,
                  !.target = point.target, !.history = history])
    /\ UNCHANGED <<graphVars, invoker, slot>>

\* GraphContext.abort(), NodeGraph.abort()
AbortContext(c) ==
    /\ ctx[c].status \in {"pending", "running"}
    /\ End(c, Abort(ctx[c]))
    /\ UNCHANGED <<graphVars, invoker, slot>>

\* _begin_invocation, which rejects a step budget that is used up.
Begin(c) ==
    /\ ctx[c].status = "pending" /\ GraphOf[c] \in live
    /\ ctx[c].target = "end" \/ ctx[c].steps < MaxSteps
    /\ ctx' = [ctx EXCEPT ![c].status = "running", ![c].completion = "pending"]
    /\ managed' = managed \cup {c}
    /\ \E start \in {"posting", "created"} : invoker' = [invoker EXCEPT ![c] = start]
    /\ UNCHANGED <<graphVars, slot>>

-----------------------------------------------------------------------------
(* The caller: _invoke() and the end of stream().                           *)

Becomes(c, s) == invoker' = [invoker EXCEPT ![c] = s]

InvokeStarts(c) ==
    /\ invoker[c] = "created"
    /\ Becomes(c, IF Active(GraphOf[c], c) THEN "posting" ELSE "waiting")
    /\ UNCHANGED <<graphVars, managed, ctx, slot>>

Queued(c) == [Free EXCEPT !.at = "queued", !.c = c]

\* Mutant: a put that succeeded is tried again.
InvokerPuts_Retries(c) ==
    /\ invoker[c] = "posting"
    /\ \E s \in Slots : slot[s] = Free /\ slot' = [slot EXCEPT ![s] = Queued(c)]
    /\ \E at \in {"posting", "waiting"} : Becomes(c, at)
    /\ UNCHANGED <<graphVars, managed, ctx>>

InvokerPuts(c) ==
    /\ invoker[c] = "posting"
    /\ \E s \in Slots : slot[s] = Free /\ slot' = [slot EXCEPT ![s] = Queued(c)]
    /\ Becomes(c, "waiting")
    /\ UNCHANGED <<graphVars, managed, ctx>>

InvokerPostFails(c) ==
    /\ invoker[c] = "posting"
    /\ EndIfActive(GraphOf[c], c, Fail(ctx[c]))
    /\ Becomes(c, "raised")
    /\ UNCHANGED <<graphVars, slot>>

\* The attempt is over; copying its result for the caller may fail.
InvokerResumes(c) ==
    /\ invoker[c] = "waiting"
    /\ \/ ctx[c].completion = "result" /\ Becomes(c, "returned")
       \/ ctx[c].completion \in {"result", "error"} /\ Becomes(c, "raised")
       \/ ctx[c].completion = "cancelled" /\ Becomes(c, "cancelled")
    /\ UNCHANGED <<graphVars, managed, ctx, slot>>

\* The caller's task is cancelled, or its stream is closed.  A task that
\* awaits the completion cancels the completion with it.
CancelInvoker(c) ==
    /\ \/ invoker[c] = "created" /\ Becomes(c, "closing") /\ UNCHANGED ctx
       \/ invoker[c] = "posting" /\ Becomes(c, "postCancelled") /\ UNCHANGED ctx
       \/ /\ invoker[c] = "waiting" /\ Becomes(c, "waitCancelled")
          /\ ctx' = [ctx EXCEPT ![c].completion = IF @ = "pending" THEN "cancelled" ELSE @]
    /\ UNCHANGED <<graphVars, managed, slot>>

\* A stream closed before its task ran aborts the attempt; _invoke() cancels it.
InvokerCancelled(c) ==
    /\ invoker[c] \in {"closing", "postCancelled", "waitCancelled"}
    /\ IF ~Running(c) THEN UNCHANGED <<ctx, managed>>
       ELSE IF invoker[c] = "closing" THEN End(c, Abort(ctx[c])) ELSE End(c, Cancel(ctx[c]))
    /\ Becomes(c, "cancelled")
    /\ UNCHANGED <<graphVars, slot>>

-----------------------------------------------------------------------------
(* The dispatch of event s, whose chain holds the handler of graph by.      *)

Moves(s, at) == slot' = [slot EXCEPT ![s].at = at]
C(s) == slot[s].c
By(s) == slot[s].by

Dequeue(s) ==
    /\ slot[s].at = "queued"
    /\ slot' = [slot EXCEPT ![s] =
                  IF owner = None THEN Free
                  ELSE [@ EXCEPT !.at = "upstream", !.by = owner]]
    /\ UNCHANGED <<graphVars, managed, ctx, invoker>>

\* clear() drops what is queued; a failed capture, or a dispatch that cannot be
\* prepared, drops the event that was taken.
EventDropped(s) ==
    /\ slot[s].at \in {"queued", "upstream"}
    /\ slot' = [slot EXCEPT ![s] = Free]
    /\ lost' = IF Running(C(s)) THEN lost \cup {C(s)} ELSE lost
    /\ UNCHANGED <<born, live, owner, managed, ctx, invoker>>

\* A handler before the graph's accepted the event or failed, or the graph's
\* own failed before its batch, while it took the snapshot.
UpstreamEnds(s) ==
    /\ slot[s].at = "upstream"
    /\ EndIfActive(By(s), C(s), Abort(ctx[C(s)])) \/ EndIfActive(By(s), C(s), Fail(ctx[C(s)]))
    /\ Moves(s, "after")
    /\ UNCHANGED <<graphVars, invoker>>

\* dispatch_node up to the start of the node batch
DispatchNode(s) ==
    /\ slot[s].at = "upstream"
    /\ LET x == ctx[C(s)]
           taken == [state |-> x.state, steps |-> x.steps, target |-> x.target]
       IN  IF Active(By(s), C(s)) /\ x.target = "node"
           THEN /\ Moves(s, "node")
                /\ Update(C(s), IF Snapshots
                                THEN [x EXCEPT !.history = Append(@, taken)] ELSE x)
           ELSE /\ Moves(s, "after")
                /\ EndIfActive(By(s), C(s), Finish(ctx[C(s)]))
    /\ UNCHANGED <<graphVars, invoker>>

\* Mutant: the result is committed although the attempt has ended.
NodeReturns_CommitsLate(s) ==
    /\ slot[s].at = "node"
    /\ \E goto \in Targets :
         Update(C(s), [ctx[C(s)] EXCEPT !.state = @ + Batch, !.steps = @ + 1,
                                        !.target = goto])
    /\ Moves(s, "posting")
    /\ UNCHANGED <<graphVars, invoker>>

\* Mutant: a batch whose commands failed half way is dispatched again.
NodeReturns_RetriesHalf(s) ==
    /\ slot[s].at = "node"
    /\ LET x == ctx[C(s)]
       IN  IF ~Running(C(s)) THEN Moves(s, "after") /\ UNCHANGED <<ctx, managed>>
           ELSE /\ \E n \in 0..(Batch - 1) : Update(C(s), [x EXCEPT !.state = @ + n])
                /\ Moves(s, "posting")
    /\ UNCHANGED <<graphVars, invoker>>

\* The batch returned commands.  They are dropped unless the attempt still
\* runs; applying them may fail half way, or exhaust the step budget.
NodeReturns(s) ==
    /\ slot[s].at = "node"
    /\ LET x == ctx[C(s)]
           done == [x EXCEPT !.state = @ + Batch, !.steps = @ + 1]
       IN  IF ~Running(C(s)) THEN Moves(s, "after") /\ UNCHANGED <<ctx, managed>>
           ELSE \/ \E goto \in Targets :
                    IF goto = "end" \/ done.steps < MaxSteps
                    THEN /\ Update(C(s), [done EXCEPT !.target = goto])
                         /\ Moves(s, "posting")
                    ELSE End(C(s), Fail(done)) /\ Moves(s, "after")
                \/ \E n \in 0..(Batch - 1) :
                    /\ End(C(s), Fail([x EXCEPT !.state = @ + n]))
                    /\ Moves(s, "after")
    /\ UNCHANGED <<graphVars, invoker>>

\* The batch, or the publication of the next event, raised.
DispatchFails(s) ==
    /\ slot[s].at \in {"node", "posting"}
    /\ EndIfActive(By(s), C(s), Fail(ctx[C(s)]))
    /\ Moves(s, "after")
    /\ UNCHANGED <<graphVars, invoker>>

PutNext(s) ==
    /\ slot[s].at = "posting"
    /\ \E t \in Slots :
        /\ slot[t] = Free
        /\ slot' = [slot EXCEPT ![s].at = "after", ![t] = Queued(C(s))]
    /\ UNCHANGED <<graphVars, managed, ctx, invoker>>

EndDispatch(s) ==
    /\ slot[s].at = "after"
    /\ slot' = [slot EXCEPT ![s] = Free]
    /\ UNCHANGED <<graphVars, managed, ctx, invoker>>

\* A node, another handler of the chain or the application cancels the
\* dispatch; siblings are awaited, then every handler of the chain is told.
CancelDispatch(s) ==
    /\ slot[s].at \in {"upstream", "node", "posting", "after"}
    /\ Moves(s, "unwinding")
    /\ UNCHANGED <<graphVars, managed, ctx, invoker>>

DispatchCancelled(s) ==
    /\ slot[s].at = "unwinding"
    /\ EndIfActive(By(s), C(s), Cancel(ctx[C(s)]))
    /\ slot' = [slot EXCEPT ![s] = Free]
    /\ UNCHANGED <<graphVars, invoker>>

-----------------------------------------------------------------------------
InvokerStep(c) ==
    InvokeStarts(c) \/ InvokerPuts(c) \/ InvokerResumes(c) \/ InvokerCancelled(c)

NodeEnds(s) == NodeReturns(s) \/ (slot[s].at = "node" /\ DispatchFails(s))

Next ==
    \/ \E g \in Graphs : Construct(g) \/ Decompose(g)
    \/ \E c \in Contexts :
        \/ CreateContext(c) \/ (\E src \in Contexts : RestoreContext(c, src))
        \/ AbortContext(c) \/ Begin(c)
        \/ InvokerStep(c) \/ InvokerPostFails(c) \/ CancelInvoker(c)
    \/ \E s \in Slots :
        \/ Dequeue(s) \/ EventDropped(s) \/ UpstreamEnds(s) \/ DispatchNode(s) \/ NodeReturns(s)
        \/ DispatchFails(s) \/ PutNext(s) \/ EndDispatch(s)
        \/ CancelDispatch(s) \/ DispatchCancelled(s)

\* Ready tasks run, nodes and handlers return, and the event loop dispatches
\* what is queued; a put that keeps finding room gets it.
Fairness ==
    /\ \A c \in Contexts :
        /\ WF_vars(InvokeStarts(c) \/ InvokerResumes(c) \/ InvokerCancelled(c))
        /\ SF_vars(InvokerPuts(c))
    /\ \A s \in Slots :
        /\ WF_vars(Dequeue(s) \/ DispatchNode(s) \/ NodeEnds(s))
        /\ WF_vars(EndDispatch(s) \/ DispatchCancelled(s))
        /\ SF_vars(PutNext(s))

Spec == Init /\ [][Next]_vars
FairSpec == Spec /\ Fairness

-----------------------------------------------------------------------------
(* Safety.                                                                  *)

\* The namespace has at most one live graph, its owner, and a graph manages
\* exactly its running attempts: replacing or decomposing it leaves none
\* running that no dispatch would recognise and no decompose() would end.
GraphsManageRunning ==
    /\ live \subseteq {owner}
    /\ \A c \in Contexts : Running(c) <=> c \in managed /\ GraphOf[c] \in live

\* What will take the attempt of c to its next step.
Carriers(c) ==
    {s \in Slots : slot[s].c = c /\ slot[s].at \in {"queued", "upstream", "node", "posting"}}
        \cup (IF invoker[c] \in {"created", "posting"} THEN {c} ELSE {})

CancellationUnderWay(c) ==
    \/ invoker[c] \in {"closing", "postCancelled"}
    \/ \E s \in Slots : slot[s].c = c /\ slot[s].at = "unwinding"

\* A running attempt is carried on by one event or task: none gets lost except
\* by a queue that drops events, so the caller does not wait for ever, and none
\* is duplicated, so no node runs twice or beside its successor.
OneCarrier ==
    \A c \in Contexts : Running(c) =>
        /\ Cardinality(Carriers(c)) <= 1
        /\ Carriers(c) # {} \/ CancellationUnderWay(c) \/ c \in lost

\* Every checkpoint holds the effect of each completed batch exactly once,
\* across aborts and restores, and never half of one.
CheckpointsAreWhole ==
    \A c \in Contexts : \A i \in DOMAIN ctx[c].history :
        ctx[c].history[i].state = Batch * ctx[c].history[i].steps

\* A caller that gets a value gets the final state of a finished attempt or
\* the last checkpoint of an aborted one, whatever ran since.
CallersGetWholeStates ==
    \A c \in Contexts : invoker[c] = "returned" =>
        \/ ctx[c].status = "finished" /\ ctx[c].result = Batch * ctx[c].steps
        \/ ctx[c].status = "aborted" /\ ctx[c].result = Saved(ctx[c])

\* Once an attempt has ended nothing of it changes, completion aside: a late
\* node result neither commits nor schedules another step.
LateResultsNeverCommit ==
    [][\A c \in Contexts : ctx[c].status \in Terminal =>
        ctx'[c] = [ctx[c] EXCEPT !.completion = ctx'[c].completion]]_vars

-----------------------------------------------------------------------------
(* Refinement: what callers can rely on, without graphs, tasks and events.  *)

Over(c) == invoker[c] \in {"returned", "raised", "cancelled"}

StepsAt(history) == [i \in DOMAIN history |-> history[i].steps]

\* The attempt behind a context; half a batch does not show.
Attempt(x) ==
    [status |-> x.status, steps |-> x.steps, saved |-> StepsAt(x.history),
     completion |-> x.completion, result |-> x.result]

Attempts == INSTANCE Attempts WITH
    Ids <- Contexts,
    attempt <- [c \in Contexts |-> Attempt(ctx[c])],
    answer <- [c \in Contexts |-> IF Over(c) THEN invoker[c] ELSE "none"]

\* Whatever carries an attempt, it begins once, commits whole batches one by
\* one, ends once, and its caller is answered once and not before the end.
AttemptSpec == Attempts!Spec

-----------------------------------------------------------------------------
(* Liveness.                                                                *)

\* Every invocation returns, raises or is cancelled.  One whose event was
\* dropped waits until its attempt is ended from outside, but no longer.
InvocationEnds ==
    \A c \in Contexts :
        /\ invoker[c] # "idle" ~> Over(c) \/ c \in lost
        /\ invoker[c] # "idle" /\ ~Running(c) ~> Over(c)
=============================================================================
