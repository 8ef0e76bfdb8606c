---------------------------- MODULE HandlerChain ----------------------------
(***************************************************************************)
(* Permit ownership of foreground handler chains (event/base.py,            *)
(* event/event_loop.py).                                                    *)
(*                                                                         *)
(* The consumer acquires a permit per dequeued event and starts a dispatch  *)
(* task that owns it through a HandlerChainToken.  suspend_process() lends  *)
(* the permit while a handler waits and takes it back on exit; tasks that   *)
(* handlers spawn inherit the token, so sibling branches of one chain       *)
(* suspend and resume independently, may be cancelled while they wait for   *)
(* the permit, and may outlive the dispatch.                                *)
(*                                                                         *)
(* One action is the code a task runs between two awaits.                   *)
(***************************************************************************)
EXTENDS PermitSemaphore    \* Permits is EVENT_LOOP_BACKPRESSURE

CONSTANTS
    Chains,     \* one per dequeued event
    Branches,   \* tasks that share a chain's token
    Dispatch,   \* the branch that is the dispatch task itself
    Consumer,   \* the consumer task
    NoChain

Tasks == Chains \X Branches

ASSUME ChainsAssumption ==
    /\ IsFiniteSet(Chains) /\ NoChain \notin Chains
    /\ IsFiniteSet(Branches) /\ Dispatch \in Branches
    /\ Consumer \notin Tasks
    /\ Users = Tasks \cup {Consumer}

VARIABLES
    next,       \* the chain the consumer waits to start, or NoChain
    pc,         \* where each task is
    held,       \* HandlerChainToken.held
    closed,     \* HandlerChainToken.closed
    suspended,  \* HandlerChainToken.suspended
    lapsed      \* history: the chain's last reacquisition was cancelled

chainVars == <<next, pc, held, closed, suspended, lapsed>>
vars == <<value, waiters, fut, next, pc, held, closed, suspended, lapsed>>

\* "body" is inside suspend_process(); "lock" and "acquire" are its exit,
\* waiting for resume_lock and for a permit; "ended" has returned, with the
\* done callback of the dispatch task still to run.
Location == {"unborn", "running", "body", "lock", "lockCancelled", "acquire",
             "ended", "done"}

TypeOK ==
    /\ SemTypeOK
    /\ next \in Chains \cup {NoChain}
    /\ pc \in [Chains -> [Branches -> Location]]
    /\ held \in [Chains -> BOOLEAN]
    /\ closed \in [Chains -> BOOLEAN]
    /\ suspended \in [Chains -> 0..Cardinality(Branches)]
    /\ lapsed \in [Chains -> BOOLEAN]

Init ==
    /\ SemInit
    /\ next = NoChain
    /\ pc = [c \in Chains |-> [b \in Branches |-> "unborn"]]
    /\ held = [c \in Chains |-> FALSE]
    /\ closed = [c \in Chains |-> FALSE]
    /\ suspended = [c \in Chains |-> 0]
    /\ lapsed = [c \in Chains |-> FALSE]

Fresh(c) == pc[c][Dispatch] = "unborn"

Goto(c, b, loc) == pc' = [pc EXCEPT ![c] = [@ EXCEPT ![b] = loc]]

-----------------------------------------------------------------------------
(* The consumer: dequeue, acquire, start the dispatch task.                 *)

StartDispatch(c) ==
    /\ Goto(c, Dispatch, "running")
    /\ held' = [held EXCEPT ![c] = TRUE]
    /\ UNCHANGED <<closed, suspended, lapsed>>

\* record_event() or create_task() raised: the token is closed and the
\* permit goes back.
AbandonDispatch(c) ==
    /\ Goto(c, Dispatch, "done")
    /\ closed' = [closed EXCEPT ![c] = TRUE]
    /\ UNCHANGED <<held, suspended, lapsed>>

\* The semaphore is not locked: no other task runs before the dispatch task
\* exists, or before the permit of a failed preparation is back.
ConsumeNow(c) ==
    /\ next = NoChain /\ Fresh(c)
    /\ \/ AcquireNow /\ StartDispatch(c)
       \/ ~Locked /\ UNCHANGED semVars /\ AbandonDispatch(c)
    /\ UNCHANGED next

ConsumeWait(c) ==
    /\ next = NoChain /\ Fresh(c)
    /\ Enqueue(Consumer)
    /\ next' = c
    /\ UNCHANGED <<pc, held, closed, suspended, lapsed>>

ConsumerGranted ==
    /\ next # NoChain
    /\ fut[Consumer] = "granted"
    /\ \/ Leave(Consumer, 0) /\ StartDispatch(next)
       \/ Leave(Consumer, 1) /\ AbandonDispatch(next)
    /\ next' = NoChain

-----------------------------------------------------------------------------
(* Handler code: spawning child tasks, ending.                              *)

Spawn(c, b) ==
    /\ pc[c][b] = "unborn" /\ b # Dispatch
    /\ \E p \in Branches : pc[c][p] = "running"
    /\ Goto(c, b, "running")
    /\ UNCHANGED <<semVars, next, held, closed, suspended, lapsed>>

ChildEnd(c, b) ==
    /\ pc[c][b] = "running" /\ b # Dispatch
    /\ Goto(c, b, "done")
    /\ UNCHANGED <<semVars, next, held, closed, suspended, lapsed>>

DispatchEnd(c) ==
    /\ pc[c][Dispatch] = "running"
    /\ Goto(c, Dispatch, "ended")
    /\ UNCHANGED <<semVars, next, held, closed, suspended, lapsed>>

\* Mutant: the token still claims the permit.
OnDispatchDone_ForgetsHeld(c) ==
    /\ pc[c][Dispatch] = "ended"
    /\ Goto(c, Dispatch, "done")
    /\ closed' = [closed EXCEPT ![c] = TRUE]
    /\ IF held[c] THEN Release ELSE UNCHANGED semVars
    /\ UNCHANGED <<next, held, suspended, lapsed>>

\* Mutant: the permit is not released.
OnDispatchDone_KeepsPermit(c) ==
    /\ pc[c][Dispatch] = "ended"
    /\ Goto(c, Dispatch, "done")
    /\ closed' = [closed EXCEPT ![c] = TRUE]
    /\ held' = [held EXCEPT ![c] = FALSE]
    /\ UNCHANGED <<semVars, next, suspended, lapsed>>

\* _on_dispatch_done runs from the ready queue, after other ready tasks.
OnDispatchDone(c) ==
    /\ pc[c][Dispatch] = "ended"
    /\ Goto(c, Dispatch, "done")
    /\ closed' = [closed EXCEPT ![c] = TRUE]
    /\ IF held[c] THEN Release ELSE UNCHANGED semVars
    /\ held' = [held EXCEPT ![c] = FALSE]
    /\ UNCHANGED <<next, suspended, lapsed>>

-----------------------------------------------------------------------------
(* suspend_process().  Nested calls and calls on a closed chain have no     *)
(* effect on the token, so they are not steps of the model.                 *)

Suspend(c, b) ==
    /\ pc[c][b] = "running" /\ ~closed[c]
    /\ suspended' = [suspended EXCEPT ![c] = @ + 1]
    /\ IF held[c] THEN Release ELSE UNCHANGED semVars
    /\ held' = [held EXCEPT ![c] = FALSE]
    /\ Goto(c, b, "body")
    /\ UNCHANGED <<next, closed, lapsed>>

\* The task owns resume_lock; the chain has s branches suspended.
Reacquire(c, b, s) ==
    IF closed[c] \/ held[c] \/ s > 0
    THEN /\ Goto(c, b, "running")
         /\ UNCHANGED <<semVars, held, lapsed>>
    ELSE \/ /\ AcquireNow
            /\ held' = [held EXCEPT ![c] = TRUE]
            /\ lapsed' = [lapsed EXCEPT ![c] = FALSE]
            /\ Goto(c, b, "running")
         \/ /\ Enqueue(<<c, b>>)
            /\ Goto(c, b, "acquire")
            /\ UNCHANGED <<held, lapsed>>

\* Mutant: a cancelled owner does not release resume_lock.
LockOwned_AfterCancel(c) == lapsed[c] \/ \E b \in Branches : pc[c][b] = "acquire"

\* Only a task that waits for its permit keeps resume_lock across an await.
LockOwned(c) == \E b \in Branches : pc[c][b] = "acquire"
LockWanted(c) == \E b \in Branches : pc[c][b] = "lock"

\* Mutant: the exit looks at the count before it takes itself off.
EndSuspend_CountsItself(c, b) ==
    /\ pc[c][b] = "body"
    /\ suspended' = [suspended EXCEPT ![c] = @ - 1]
    /\ \/ /\ suspended[c] > 0
          /\ Goto(c, b, "running")
          /\ UNCHANGED <<semVars, held, lapsed>>
       \/ /\ suspended[c] = 0
          /\ Reacquire(c, b, 0)
    /\ UNCHANGED <<next, closed>>

\* The body returned, raised or was cancelled.
EndSuspend(c, b) ==
    /\ pc[c][b] = "body"
    /\ suspended' = [suspended EXCEPT ![c] = @ - 1]
    /\ \/ /\ suspended[c] > 1
          /\ Goto(c, b, "running")
          /\ UNCHANGED <<semVars, held, lapsed>>
       \/ /\ suspended[c] = 1 /\ (LockOwned(c) \/ LockWanted(c))
          /\ Goto(c, b, "lock")
          /\ UNCHANGED <<semVars, held, lapsed>>
       \/ /\ suspended[c] = 1 /\ ~LockOwned(c) /\ ~LockWanted(c)
          /\ Reacquire(c, b, 0)
    /\ UNCHANGED <<next, closed>>

TakeLock(c, b) ==
    /\ pc[c][b] = "lock" /\ ~LockOwned(c)
    /\ Reacquire(c, b, suspended[c])
    /\ UNCHANGED <<next, closed, suspended>>

\* Mutant: the permit is kept although a sibling has suspended.
PermitGranted_IgnoresSiblings(c, b) ==
    /\ pc[c][b] = "acquire" /\ fut[<<c, b>>] = "granted"
    /\ IF closed[c]
       THEN Leave(<<c, b>>, 1) /\ UNCHANGED <<held, lapsed>>
       ELSE /\ Leave(<<c, b>>, 0)
            /\ held' = [held EXCEPT ![c] = TRUE]
            /\ lapsed' = [lapsed EXCEPT ![c] = FALSE]
    /\ Goto(c, b, "running")
    /\ UNCHANGED <<next, closed, suspended>>

\* Mutant: a permit that is not kept is not released either.
PermitGranted_DropsPermit(c, b) ==
    /\ pc[c][b] = "acquire" /\ fut[<<c, b>>] = "granted"
    /\ Leave(<<c, b>>, 0)
    /\ IF closed[c] \/ suspended[c] > 0
       THEN UNCHANGED <<held, lapsed>>
       ELSE /\ held' = [held EXCEPT ![c] = TRUE]
            /\ lapsed' = [lapsed EXCEPT ![c] = FALSE]
    /\ Goto(c, b, "running")
    /\ UNCHANGED <<next, closed, suspended>>

\* The permit arrived: keep it unless the dispatch ended or a sibling
\* suspended in the meantime.
PermitGranted(c, b) ==
    /\ pc[c][b] = "acquire" /\ fut[<<c, b>>] = "granted"
    /\ IF closed[c] \/ suspended[c] > 0
       THEN Leave(<<c, b>>, 1) /\ UNCHANGED <<held, lapsed>>
       ELSE /\ Leave(<<c, b>>, 0)
            /\ held' = [held EXCEPT ![c] = TRUE]
            /\ lapsed' = [lapsed EXCEPT ![c] = FALSE]
    /\ Goto(c, b, "running")
    /\ UNCHANGED <<next, closed, suspended>>

\* A handler timeout or a cancelled caller cancels the waiting task ...
CancelLockWait(c, b) ==
    /\ pc[c][b] = "lock"
    /\ Goto(c, b, "lockCancelled")
    /\ UNCHANGED <<semVars, next, held, closed, suspended, lapsed>>

CancelPermitWait(c, b) ==
    /\ pc[c][b] = "acquire"
    /\ CancelWait(<<c, b>>)
    /\ UNCHANGED chainVars

\* ... which then leaves suspend_process() with the exception, and goes on
\* in whatever code catches it.
LockWaitCancelled(c, b) ==
    /\ pc[c][b] = "lockCancelled"
    /\ Goto(c, b, "running")
    /\ lapsed' = [lapsed EXCEPT ![c] = ~held[c]]
    /\ UNCHANGED <<semVars, next, held, closed, suspended>>

PermitWaitCancelled(c, b) ==
    /\ pc[c][b] = "acquire"
    /\ \/ fut[<<c, b>>] = "cancelled" /\ Leave(<<c, b>>, 0)
       \/ fut[<<c, b>>] = "revoked" /\ Leave(<<c, b>>, 1)
    /\ Goto(c, b, "running")
    /\ lapsed' = [lapsed EXCEPT ![c] = TRUE]
    /\ UNCHANGED <<next, held, closed, suspended>>

-----------------------------------------------------------------------------
ConsumerStep ==
    \/ \E c \in Chains : ConsumeNow(c) \/ ConsumeWait(c)
    \/ ConsumerGranted

ResumeStep(c, b) == TakeLock(c, b) \/ PermitGranted(c, b)
CancelledStep(c, b) == LockWaitCancelled(c, b) \/ PermitWaitCancelled(c, b)

Next ==
    \/ ConsumerStep
    \/ \E c \in Chains : DispatchEnd(c) \/ OnDispatchDone(c)
    \/ \E c \in Chains, b \in Branches :
        \/ Spawn(c, b) \/ ChildEnd(c, b)
        \/ Suspend(c, b) \/ EndSuspend(c, b)
        \/ ResumeStep(c, b)
        \/ CancelLockWait(c, b) \/ CancelPermitWait(c, b) \/ CancelledStep(c, b)

\* asyncio runs every ready task and callback; resume_lock is FIFO, so a
\* branch that keeps finding it free gets it (strong fairness on TakeLock).
\* A dispatch that is left running ends: handlers terminate.
Fairness ==
    /\ WF_vars(ConsumerStep)
    /\ \A c \in Chains : WF_vars(DispatchEnd(c)) /\ WF_vars(OnDispatchDone(c))
    /\ \A c \in Chains, b \in Branches :
        /\ SF_vars(TakeLock(c, b))
        /\ WF_vars(PermitGranted(c, b))
        /\ WF_vars(CancelledStep(c, b))

Spec == Init /\ [][Next]_vars
FairSpec == Spec /\ Fairness

-----------------------------------------------------------------------------
(* Safety.                                                                  *)

Holders == {c \in Chains : held[c]}

\* Every permit is free, reserved for a waiter that was granted it, or held
\* by exactly one chain: suspension, cancellation and the end of a dispatch
\* neither lose a permit nor return one twice.
PermitConservation ==
    value + Cardinality(Reserved) + Cardinality(Holders) = Permits

\* A chain never keeps a permit while one of its branches is suspended, nor
\* after its dispatch is over: a waiting handler cannot starve the others.
SuspendedChainLendsPermit ==
    \A c \in Chains : held[c] => suspended[c] = 0 /\ ~closed[c]

\* No branch of the chain is inside suspend_process().
Settled(c) ==
    \A b \in Branches : pc[c][b] \notin {"body", "lock", "lockCancelled", "acquire"}

Open(c) == ~Fresh(c) /\ ~closed[c]

\* When the last branch has resumed, its chain runs under a permit again,
\* unless a cancellation interrupted the reacquisition.
ResumedChainHoldsPermit ==
    \A c \in Chains : Open(c) /\ Settled(c) => held[c] \/ lapsed[c]

\* event_pipe.py:51-53 without that exception: a handler has its permit back
\* before it continues, "including after errors or cancellation".
ReacquiresBeforeContinuing ==
    \A c \in Chains : Open(c) /\ Settled(c) => held[c]

\* The chains take and give permits as the abstract pool allows.
Pool == INSTANCE PermitPool
    WITH holders <- Holders, free <- value + Cardinality(Reserved)
PoolSpec == Pool!Spec

-----------------------------------------------------------------------------
(* Liveness.                                                                *)

\* A branch leaving suspend_process() gets out, with its permit or cancelled.
ResumeCompletes ==
    \A c \in Chains, b \in Branches : pc[c][b] \in {"lock", "acquire"} ~> pc[c][b] = "running"

\* A dequeued event waiting for capacity is dispatched.
ConsumerServed == next # NoChain ~> next = NoChain
=============================================================================
