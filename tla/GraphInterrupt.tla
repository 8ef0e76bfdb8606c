---------------------------- MODULE GraphInterrupt ----------------------------
(***************************************************************************)
(* Interruptions inside one node batch of a running graph attempt           *)
(* (graph/interrupter, NodeGraph._execute_node, BaseNode's ordered gather). *)
(*                                                                         *)
(* The batch runs one task per node.  A node may call interrupt(): it posts *)
(* a Block as an event, lends its permit and waits for the block.  A hook   *)
(* receives the block and hands it to the application, which may resolve,   *)
(* fail, cancel or claim it at any later time; the interruption's timeout,  *)
(* the node's timeout, a failing sibling, a cancelled dispatch and the end  *)
(* of the attempt race with it.  asyncio is modelled by what the code relies*)
(* on: cancel() cancels the future a task waits for, or else is raised at   *)
(* its next step, and asyncio.timeout converts its own cancellation only.   *)
(***************************************************************************)
EXTENDS Integers, FiniteSets

CONSTANTS
    Nodes,      \* the nodes of the batch
    Interrupting, \* those that may call interrupt(), once
    MaxCancels  \* cancellations of the dispatch task, a bound

ASSUME InterruptAssumption == Interrupting \subseteq Nodes /\ MaxCancels \in Nat

VARIABLES
    status,     \* GraphContext.status
    completion, \* GraphContext.completion
    batch,      \* the dispatch task in _execute_node
    cause,      \* what its gather() raised
    cancelAsked,\* gather() was cancelled before it had an outcome
    cancels,    \* cancellations of the dispatch task so far
    node,       \* the node tasks with their block and its event
    requested,  \* history: something outside the batch aborted the attempt
    revoked     \* history: nodes whose pending block was cancelled on purpose

vars == <<status, completion, batch, cause, cancelAsked, cancels, node,
          requested, revoked>>

Node == [
    \* "posting" is in post_event(), "leaving" regains the permit
    at : {"code", "posting", "blocked", "leaving", "after", "done"},
    \* what interrupt() returned or raised, then how the task ended
    how : {"none", "value", "timeout", "error", "cancelled", "ok"},
    timer : {"off", "armed", "expired"},    \* asyncio.timeout of interrupt()
    limit : {"off", "armed", "expired"},    \* asyncio.timeout of the node
    cancelling : Nat,                       \* Task.cancelling()
    must : BOOLEAN,                         \* a CancelledError to be raised
    fut : {"none", "pending", "value", "error", "cancelError", "cancelled"},
    accepted : BOOLEAN,                     \* Block.accepted
    given : BOOLEAN,                        \* a hook has handed out the block
    ev : {"none", "queued", "hook", "hooking", "fallback", "over", "lost"}]

TypeOK ==
    /\ status \in {"running", "failed", "aborted"}
    /\ completion \in {"pending", "result", "error", "cancelled"}
    /\ batch \in {"gather", "unwind", "raised", "committed", "over"}
    /\ cause \in {"none", "error", "cancelled"}
    /\ cancelAsked \in BOOLEAN
    /\ cancels \in 0..MaxCancels
    /\ node \in [Nodes -> Node]
    /\ requested \in BOOLEAN
    /\ revoked \subseteq Nodes

Init ==
    /\ status = "running" /\ completion = "pending"
    /\ batch = "gather" /\ cause = "none"
    /\ cancelAsked = FALSE /\ cancels = 0
    /\ node \in [Nodes -> {
           [at |-> "code", how |-> "none", timer |-> "off", limit |-> l,
            cancelling |-> 0, must |-> FALSE, fut |-> "none",
            accepted |-> FALSE, given |-> FALSE, ev |-> "none"]
           : l \in {"off", "armed"}}]
    /\ requested = FALSE /\ revoked = {}

-----------------------------------------------------------------------------
(* The attempt.                                                             *)

Running == status = "running"

End(to, outcome) ==
    /\ status' = to
    /\ completion' = IF completion = "pending" THEN outcome ELSE completion

Abort == End("aborted", "result")
Fail == End("failed", "error")
Cancel == End("aborted", "cancelled")

\* GraphContext.abort() by the application, decompose(), another handler.
AbortAttempt ==
    /\ Running
    /\ Abort
    /\ requested' = TRUE
    /\ UNCHANGED <<batch, cause, cancelAsked, cancels, node, revoked>>

\* The invoking task is cancelled while it awaits the completion ...
CallerCancelled ==
    /\ Running /\ completion = "pending"
    /\ completion' = "cancelled"
    /\ UNCHANGED <<status, batch, cause, cancelAsked, cancels, node, requested,
                   revoked>>

\* ... and ends the attempt when it runs again.
InvokerUnwinds ==
    /\ Running /\ completion = "cancelled"
    /\ Cancel
    /\ UNCHANGED <<batch, cause, cancelAsked, cancels, node, requested, revoked>>

attempt == <<status, completion, requested, revoked>>
dispatch == <<batch, cause, cancelAsked, cancels>>

-----------------------------------------------------------------------------
(* A node task and its interruption.  r is the record of a node.            *)

\* Task.cancel()
CancelTask(r) ==
    IF r.at = "done" THEN r
    ELSE IF r.at = "blocked" /\ r.fut = "pending"
         THEN [r EXCEPT !.cancelling = @ + 1, !.fut = "cancelled"]
         ELSE [r EXCEPT !.cancelling = @ + 1, !.must = TRUE]

\* Block.resolve, fail and cancel: a block is completed once.
Complete(r, outcome) ==
    IF r.fut = "pending" THEN [r EXCEPT !.fut = outcome] ELSE r

Set(n, r) == node' = [node EXCEPT ![n] = r]

NodeStep(n, r) == Set(n, r) /\ UNCHANGED <<attempt, dispatch>>

\* interrupt() up to the post of its event.
Interrupt(n) ==
    /\ n \in Interrupting /\ node[n].at = "code" /\ ~node[n].must
    /\ Running
    /\ \E t \in {"off", "armed"} :
           NodeStep(n, [node[n] EXCEPT !.at = "posting", !.fut = "pending",
                                       !.timer = t])

PutEvent(n) ==
    /\ node[n].at = "posting" /\ node[n].ev = "none" /\ ~node[n].must
    /\ NodeStep(n, [node[n] EXCEPT !.ev = "queued"])

\* The post returns.  A block that is already complete is not waited for.
PostDone(n) ==
    /\ node[n].at = "posting" /\ node[n].ev # "none" /\ ~node[n].must
    /\ NodeStep(n,
           IF node[n].fut = "pending" THEN [node[n] EXCEPT !.at = "blocked"]
           ELSE [node[n] EXCEPT !.at = "leaving", !.timer = "off",
                     !.how = IF node[n].fut \in {"value", "error"}
                             THEN node[n].fut ELSE "cancelled"])

\* The post fails, or is cancelled while it waits.
PostFails(n) ==
    /\ node[n].at = "posting"
    /\ node[n].must \/ node[n].ev = "none"
    /\ NodeStep(n, [Complete(node[n], "cancelled") EXCEPT
                        !.at = "after", !.timer = "off", !.must = FALSE,
                        !.how = IF node[n].must THEN "cancelled" ELSE "error"])

\* asyncio.timeout(timeout): its deadline cancels the task.
Expire(n) ==
    /\ node[n].at = "blocked" /\ node[n].timer = "armed"
    /\ NodeStep(n, [CancelTask(node[n]) EXCEPT !.timer = "expired"])

\* The node's own timeout, in _execute_one_node.
LimitExpires(n) ==
    /\ node[n].at # "done" /\ node[n].limit = "armed"
    /\ NodeStep(n, [CancelTask(node[n]) EXCEPT !.limit = "expired"])

\* A timeout scope converts a CancelledError if no other cancellation is left.
OwnTimeout(r, deadline) == deadline = "expired" /\ r.cancelling <= 1

\* The awaited block, or a cancellation, resumes interrupt().
Wake(n) ==
    LET r == node[n]
        raised == r.must \/ r.fut \in {"cancelled", "cancelError"}
    IN  /\ r.at = "blocked"
        /\ raised \/ r.fut # "pending"
        /\ NodeStep(n, [r EXCEPT
               !.at = "leaving", !.must = FALSE,
               !.timer = IF @ = "armed" THEN "off" ELSE @,
               !.how = IF ~raised THEN r.fut
                       ELSE IF OwnTimeout(r, r.timer) THEN "timeout"
                       ELSE "cancelled",
               !.cancelling = IF r.timer = "expired" THEN @ - 1 ELSE @])

\* Mutant: any cancelled block aborts the attempt.
RevokedByHolder_AnyCancel(r) == r.fut = "cancelled"

\* Mutant: the test is the wrong way round.
RevokedByHolder_OnlyCancelledTask(r) == r.fut = "cancelled" /\ r.cancelling # 0

\* "block.cancelled and current_task.cancelling() == 0"
RevokedByHolder(r) == r.fut = "cancelled" /\ r.cancelling = 0

\* suspend_process() has the permit again, or is cancelled while it waits.
Leave(n) ==
    LET r == node[n]
        how == IF r.must THEN "cancelled" ELSE r.how
    IN  /\ r.at = "leaving"
        /\ Set(n, [Complete(r, "cancelled") EXCEPT
                       !.at = "after", !.how = how, !.must = FALSE])
        /\ IF how = "cancelled" /\ RevokedByHolder(r) /\ Running
           THEN Abort ELSE UNCHANGED <<status, completion>>
        /\ UNCHANGED <<requested, revoked, dispatch>>

\* Mutant: the callback is removed once the event is posted.
CloseBlock_UntilPosted(n) ==
    /\ completion # "pending"
    /\ node[n].at = "posting" /\ node[n].fut = "pending"
    /\ NodeStep(n, Complete(node[n], "cancelled"))

\* A block cannot outlive its attempt: close_block, on the completion.
CloseBlock(n) ==
    /\ completion # "pending"
    /\ node[n].at \in {"posting", "blocked", "leaving"}
    /\ node[n].fut = "pending"
    /\ NodeStep(n, Complete(node[n], "cancelled"))

\* The node's function returns or raises.  It does not swallow cancellation.
NodeEnds(n) ==
    LET r == node[n]
        ends == IF r.must \/ r.how = "cancelled"
                THEN {IF OwnTimeout(r, r.limit) THEN "error" ELSE "cancelled"}
                ELSE {"ok", "error"}
    IN  /\ r.at \in {"code", "after"}
        /\ \E end \in ends :
               /\ Set(n, [r EXCEPT !.at = "done", !.must = FALSE, !.limit = "off",
                     !.how = IF @ = "timeout" /\ end = "ok" THEN @ ELSE end])
               /\ cause' = IF batch = "gather" /\ cause = "none" /\ end # "ok"
                           THEN end ELSE cause
        /\ UNCHANGED <<attempt, batch, cancelAsked, cancels>>

-----------------------------------------------------------------------------
(* The dispatch: _gather_tasks_in_order and what _execute_node does next.   *)

AllDone == \A n \in Nodes : node[n].at = "done"
CancelTasks == node' = [n \in Nodes |-> CancelTask(node[n])]

\* The first bad end makes gather() raise; unfinished siblings are cancelled.
BatchFails ==
    /\ batch = "gather" /\ cause # "none"
    /\ batch' = "unwind"
    /\ CancelTasks
    /\ UNCHANGED <<attempt, cause, cancelAsked, cancels>>

\* gather() is through: a result is committed by an active attempt only.
BatchReturns ==
    /\ batch = "gather" /\ cause = "none" /\ AllDone
    /\ IF cancelAsked THEN batch' = "unwind" /\ cause' = "cancelled"
       ELSE /\ batch' = IF Running THEN "committed" ELSE "over"
            /\ UNCHANGED cause
    /\ UNCHANGED <<attempt, node, cancelAsked, cancels>>

\* Mutant: the siblings are cancelled and not awaited.
Joined_Unawaited == TRUE

\* The second gather(), of the siblings it cancelled.
Joined == AllDone

BatchUnwinds ==
    /\ batch = "unwind" /\ Joined
    /\ IF cause = "error"
       THEN /\ batch' = "over"
            /\ IF Running THEN Fail ELSE UNCHANGED <<status, completion>>
       ELSE batch' = "raised" /\ UNCHANGED <<status, completion>>
    /\ UNCHANGED <<node, cause, cancelAsked, cancels, requested, revoked>>

\* on_dispatch_cancelled
DispatchCancelled ==
    /\ batch = "raised"
    /\ batch' = "over"
    /\ IF Running THEN Cancel ELSE UNCHANGED <<status, completion>>
    /\ UNCHANGED <<node, cause, cancelAsked, cancels, requested, revoked>>

\* The dispatch task is cancelled in one of its two gather() calls.
CancelBatch ==
    /\ batch \in {"gather", "unwind"} /\ cancels < MaxCancels
    /\ cancels' = cancels + 1
    /\ IF batch = "gather" /\ cause = "none" /\ ~AllDone
       THEN CancelTasks /\ cancelAsked' = TRUE /\ UNCHANGED cause
       ELSE /\ cause' = "cancelled" /\ UNCHANGED cancelAsked
            /\ IF batch = "unwind" THEN CancelTasks ELSE UNCHANGED node
    /\ UNCHANGED <<attempt, batch>>

-----------------------------------------------------------------------------
(* The block's event: a hook, if one is registered, then the graph's        *)
(* fallback handler.  _is_active_block asks for a running attempt.          *)

EventStep(n, from, to, outcome) ==
    /\ node[n].ev \in from
    /\ NodeStep(n, [Complete(node[n], outcome) EXCEPT !.ev = to])

\* A dequeued event captures the handlers; a cleared queue drops it.
Dequeue(n) ==
    /\ node[n].ev = "queued"
    /\ \E to \in {"hook", "fallback"} : NodeStep(n, [node[n] EXCEPT !.ev = to])

EventLost(n) ==
    /\ node[n].ev = "queued"
    /\ NodeStep(n, [node[n] EXCEPT !.ev = "lost"])

\* BlockEventHandler.dispatch_block: a complete block is skipped.  The hook of
\* an ended attempt runs if it is interrupted_hook()'s, not if the graph owns it.
HookStarts(n) ==
    /\ node[n].ev = "hook"
    /\ \/ /\ node[n].fut = "pending"
          /\ NodeStep(n, [node[n] EXCEPT !.ev = "hooking", !.given = TRUE])
       \/ /\ node[n].fut # "pending" \/ ~Running
          /\ NodeStep(n, [node[n] EXCEPT !.ev = "over"])

HookReturns(n) ==
    /\ node[n].ev = "hooking"
    /\ NodeStep(n, [node[n] EXCEPT !.ev = "fallback"])

HookFails(n) == EventStep(n, {"hooking"}, "over", "error")

\* Another handler of the event fails, or the event is cancelled.
UpstreamFails(n) == EventStep(n, {"hook", "fallback"}, "over", "error")
EventCancelled(n) ==
    EventStep(n, {"hook", "hooking", "fallback"}, "over", "cancelError")

\* A block of an active attempt is cancelled on purpose.
Revoke(n) == revoked' = IF Running /\ completion = "pending"
                              /\ node[n].fut = "pending"
                        THEN revoked \cup {n} ELSE revoked

\* on_accepted: another handler has accepted the event.
UpstreamAccepts(n) ==
    /\ node[n].ev \in {"hook", "fallback"}
    /\ Set(n, [Complete(node[n], "cancelled") EXCEPT !.ev = "over"])
    /\ Revoke(n)
    /\ UNCHANGED <<status, completion, requested, dispatch>>

\* Mutant: only a missing hook is an error.
Unhandled_IgnoresHook(n) == ~node[n].given

\* "not block.accepted and not block.done"
Unhandled(n) == ~node[n].accepted

\* require_interrupted_hook
FallbackRuns(n) ==
    /\ node[n].ev = "fallback"
    /\ NodeStep(n, [(IF Running /\ Unhandled(n) THEN Complete(node[n], "error")
                     ELSE node[n]) EXCEPT !.ev = "over"])

\* What the application does with a block it was given.
Held(n) == node[n].given /\ node[n].fut = "pending"

Claim(n) ==
    /\ Held(n) /\ ~node[n].accepted
    /\ NodeStep(n, [node[n] EXCEPT !.accepted = TRUE])

Resolve(n) ==
    /\ Held(n)
    /\ \E outcome \in {"value", "error"} :
           NodeStep(n, Complete(node[n], outcome))

CancelBlock(n) ==
    /\ Held(n)
    /\ Set(n, Complete(node[n], "cancelled"))
    /\ Revoke(n)
    /\ UNCHANGED <<status, completion, requested, dispatch>>

-----------------------------------------------------------------------------
Finished ==
    /\ batch \in {"committed", "over"} /\ AllDone
    /\ \A n \in Nodes : node[n].ev \in {"none", "over", "lost"}

\* The step of this attempt is over; later steps are not modelled here.
Terminating == Finished /\ UNCHANGED vars

NodeTask(n) ==
    \/ PutEvent(n) \/ PostDone(n) \/ PostFails(n) \/ Wake(n) \/ Leave(n)

EventTask(n) == Dequeue(n) \/ HookStarts(n) \/ FallbackRuns(n)

Holder(n) == Claim(n) \/ Resolve(n) \/ CancelBlock(n)

Fault(n) ==
    \/ Expire(n) \/ LimitExpires(n) \/ EventLost(n) \/ EventCancelled(n)
    \/ UpstreamFails(n) \/ UpstreamAccepts(n)

Dispatch == BatchFails \/ BatchReturns \/ BatchUnwinds \/ DispatchCancelled

Next ==
    \/ AbortAttempt \/ CallerCancelled \/ InvokerUnwinds
    \/ Dispatch \/ CancelBatch
    \/ \E n \in Nodes :
           \/ Interrupt(n) \/ NodeEnds(n) \/ CloseBlock(n)
           \/ NodeTask(n) \/ EventTask(n) \/ HookReturns(n) \/ HookFails(n)
           \/ Holder(n) \/ Fault(n)
    \/ Terminating

\* asyncio runs what is ready and the loop dequeues what is queued.  Nothing
\* makes a node's function, a hook, a holder, a timeout or a fault take place.
Fairness ==
    /\ WF_vars(InvokerUnwinds)
    /\ WF_vars(Dispatch)
    /\ \A n \in Nodes :
           /\ WF_vars(NodeTask(n))
           /\ WF_vars(EventTask(n))
           /\ WF_vars(CloseBlock(n))

Spec == Init /\ [][Next]_vars /\ Fairness

-----------------------------------------------------------------------------
(* Properties                                                               *)

(* Nothing outlives the batch: when its dispatch has gone on or raised,     *)
(* every node task has ended and every block it waited for is complete, also*)
(* after a failing sibling or repeated cancellation (the second gather() in *)
(* _gather_tasks_in_order, the finally clause of interrupt()).              *)
NothingOutlivesTheBatch ==
    batch \in {"raised", "committed", "over"} =>
        \A n \in Nodes : node[n].at = "done" /\ node[n].fut # "pending"

(* No orphan: once the event of a block has been processed, a block that is *)
(* still pending in a running attempt was claimed by Block.accept(); the    *)
(* graph's fallback handler fails every other one.                          *)
NoOrphanBlock ==
    \A n \in Nodes :
        Running /\ completion = "pending" /\ node[n].ev = "over"
            /\ node[n].fut = "pending" => node[n].accepted

(* An attempt ends at its checkpoint only when it was asked to: by abort(), *)
(* or by someone who cancelled a block.  Neither the interruption's timeout,*)
(* nor the node's, nor a failing sibling, nor a cancelled dispatch aborts   *)
(* it, although all of them cancel the very future the block waits on.      *)
AbortIsAsked == completion = "result" => requested \/ revoked # {}

(* Whoever cancels the block of a running attempt stops it: the node does   *)
(* not go on as if it were answered and the batch does not commit, unless   *)
(* the interruption's own deadline passed before the node could run again.  *)
(* If nothing else ended or cancelled the node, the attempt is aborted.     *)
CancelledBlockStopsTheNode ==
    \A n \in revoked : node[n].at \in {"after", "done"} =>
        \/ node[n].timer = "expired"
        \/ /\ node[n].how \in {"cancelled", "error"}
           /\ batch # "committed"
           /\ ~Running \/ node[n].cancelling > 0

(* A node does not stay blocked behind an attempt that has ended, and a     *)
(* posted block gets an answer, a claimant or an application's hook, unless *)
(* its event was dropped from the queue.                                    *)
InterruptionEnds ==
    \A n \in Nodes :
        /\ node[n].at = "blocked" /\ completion # "pending"
               ~> node[n].at # "blocked"
        /\ node[n].at = "blocked"
               ~> \/ node[n].at # "blocked" \/ node[n].accepted
                  \/ node[n].ev \in {"hooking", "lost"}

=============================================================================
