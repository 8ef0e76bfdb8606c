----------------------------- MODULE EventWaiter -----------------------------
(***************************************************************************)
(* wait_for_event() and await_for() (event/subscription.py) inside handler  *)
(* chains that share the dispatch permits with the events waited for.       *)
(*                                                                         *)
(* A waiter is a temporary handler and a future.  Events that are dequeued  *)
(* while it is registered run it, as core function or as any of its         *)
(* notifications, and the first one in time completes the future.  Its      *)
(* deadline, the cancellation of its task and the end of its context race   *)
(* with them.  A timer fires when its time has come, and may fire late.  A  *)
(* chain whose reacquisition is cancelled goes on without a permit.         *)
(***************************************************************************)
EXTENDS Integers, FiniteSets

CONSTANTS
    Waiters,    \* handler chains that wait once or more in one context
    Contexts,   \* those that use wait_for_event(); the others await_for()
    Queue,      \* the events that match all of them, in queue order
    Permits,    \* capacity of the dispatch semaphore
    MaxTime,    \* a bound on the clock
    Never       \* no deadline

Events == {Queue[i] : i \in DOMAIN Queue}

ASSUME WaiterAssumption ==
    /\ IsFiniteSet(Waiters) /\ IsFiniteSet(Events)
    /\ Permits \in Nat \ {0} /\ MaxTime \in Nat /\ Never \notin Int
    /\ Contexts \subseteq Waiters /\ Waiters \cap Events = {}
    /\ Events \cap {"none", "pending", "timeout", "cancelled", "closed"} = {}

VARIABLES
    clock,      \* loop.time()
    free,       \* dispatch permits nobody holds
    waiter,     \* the waiting chains and their EventWaiter
    event       \* the events and their dispatches

vars == <<clock, free, waiter, event>>

Outcome == {"timeout", "cancelled"} \cup Events

Waiter == [
    kind : {"wait_for_event", "await_for"},
    \* "waiting" has lent its permit, "regain" wants one back
    at : {"idle", "body", "waiting", "regain", "done"},
    held : BOOLEAN,                     \* HandlerChainToken.held
    open : BOOLEAN,                     \* registered, and not _closed
    deadline : 0..MaxTime \cup {Never},
    timer : BOOLEAN,                    \* _timeout_handle, or that of wait_for()
    fut : {"none", "pending", "closed"} \cup Outcome,     \* _future
    since : 0..MaxTime,                 \* when _future was completed
    expired : BOOLEAN,                  \* wait_for() has cancelled the task
    must : BOOLEAN,                     \* the task was cancelled while waiting
    got : {"none"} \cup Outcome,        \* the result of its last wait
    first : {"none"} \cup Events]       \* history: the first event in time

Event == [
    \* "ahead" is not dequeued yet, "over" ended or was dropped
    at : {"ahead", "pending", "running", "over"},
    chain : SUBSET Waiters]             \* captured, and not called yet

TypeOK ==
    /\ clock \in 0..MaxTime
    /\ free \in 0..Permits
    /\ waiter \in [Waiters -> Waiter]
    /\ event \in [Events -> Event]

Init ==
    /\ clock = 0 /\ free = Permits
    /\ waiter = [w \in Waiters |->
           [kind |-> IF w \in Contexts THEN "wait_for_event" ELSE "await_for",
            at |-> "idle", held |-> FALSE, open |-> FALSE,
            deadline |-> Never, timer |-> FALSE, fut |-> "none", since |-> 0,
            expired |-> FALSE, must |-> FALSE, got |-> "none", first |-> "none"]]
    /\ event = [e \in Events |-> [at |-> "ahead", chain |-> {}]]

Set(w, r) == waiter' = [waiter EXCEPT ![w] = r]
Context(r) == r.kind = "wait_for_event"

-----------------------------------------------------------------------------
(* The waiter's future.                                                     *)

Completed(r, outcome) == [r EXCEPT !.fut = outcome, !.since = clock]
CompletedOnce(r, outcome) ==
    IF r.fut = "pending" THEN Completed(r, outcome) ELSE r

\* asyncio's wait_for() keeps its own timer, and no _deadline.
Late(r) == Context(r) /\ r.deadline # Never /\ clock >= r.deadline

\* Mutant: the deadline is left to the timer.
Resolved_LateResult(r, e) ==
    IF r.fut # "pending" THEN r
    ELSE [Completed(r, e) EXCEPT !.timer = r.timer /\ ~Context(r)]

\* _resolve
Resolved(r, e) ==
    IF r.fut # "pending" THEN r
    ELSE IF Late(r)
         THEN Completed(r, "timeout")
         ELSE [Completed(r, e) EXCEPT !.timer = r.timer /\ ~Context(r)]

\* What a dispatch calls first of the waiter's handler: on_has_error when an
\* earlier handler failed, on_accepted when one accepted the event, and
\* on_cancelled when the dispatch is cancelled.
Functions == {"core_func", "on_has_error", "on_accepted", "on_cancelled"}

\* Mutant: a cancelled event does not reach the waiter.
Resolving_NotWhenCancelled == {"core_func", "on_has_error", "on_accepted"}

\* _register_wait_handler: the functions that are _resolve.
Resolving == {"core_func", "on_has_error", "on_accepted", "on_cancelled"}

\* History: e reaches the waiter's handler.
Reached(r, e) ==
    IF r.open /\ r.first = "none" /\ ~Late(r) THEN [r EXCEPT !.first = e] ELSE r

\* _close and unregister, at every exit: the future is complete, and what is
\* in it can no longer be asked for.
Closed(r) ==
    [r EXCEPT !.fut = "closed", !.open = FALSE, !.timer = FALSE,
              !.deadline = Never, !.since = 0, !.expired = FALSE,
              !.got = "none", !.first = "none"]

-----------------------------------------------------------------------------
(* A chain that waits.                                                      *)

\* Its dispatch starts and enters the context; await_for() waits at once.
Enter(w) ==
    /\ waiter[w].at = "idle" /\ free > 0
    /\ \E d \in (clock..MaxTime) \cup {Never} :
           Set(w, [waiter[w] EXCEPT
                       !.at = IF Context(waiter[w]) THEN "body" ELSE "waiting",
                       !.held = Context(waiter[w]),
                       !.open = TRUE, !.fut = "pending",
                       !.deadline = d, !.timer = d # Never])
    /\ free' = IF Context(waiter[w]) THEN free - 1 ELSE free
    /\ UNCHANGED <<clock, event>>

\* suspend_process() and _on_dispatch_done give back what the chain holds.
FreeWithout(r) == IF r.held THEN free + 1 ELSE free

\* Mutant: wait() keeps the permit.
Wait_KeepsPermit(w) ==
    /\ waiter[w].at = "body" /\ waiter[w].open
    /\ Set(w, [waiter[w] EXCEPT !.at = "waiting"])
    /\ UNCHANGED <<clock, free, event>>

\* Mutant: wait() releases a permit in any case.
Wait_ReleasesAlways(w) ==
    /\ waiter[w].at = "body" /\ waiter[w].open
    /\ Set(w, [waiter[w] EXCEPT !.at = "waiting", !.held = FALSE,
                               !.got = "none"])
    /\ free' = free + 1
    /\ UNCHANGED <<clock, event>>

\* wait(), which a context may call again
Wait(w) ==
    /\ waiter[w].at = "body" /\ waiter[w].open
    /\ Set(w, [waiter[w] EXCEPT !.at = "waiting", !.held = FALSE,
                               !.got = "none"])
    /\ free' = FreeWithout(waiter[w])
    /\ UNCHANGED <<clock, event>>

\* _expire; the timer of await_for() cancels its task instead
Expire(w) ==
    LET r == waiter[w]
    IN  /\ r.timer /\ clock >= r.deadline
        /\ Set(w, IF Context(r)
                  THEN [CompletedOnce(r, "timeout") EXCEPT !.timer = FALSE]
                  ELSE [CompletedOnce(r, "cancelled") EXCEPT
                            !.timer = FALSE, !.expired = TRUE])
        /\ UNCHANGED <<clock, free, event>>

\* The waiting task is cancelled.
CancelWait(w) ==
    /\ waiter[w].at = "waiting" /\ ~waiter[w].must
    /\ Set(w, [CompletedOnce(waiter[w], "cancelled") EXCEPT !.must = TRUE])
    /\ UNCHANGED <<clock, free, event>>

Resume(w) ==
    LET r == waiter[w]
    IN  /\ r.at = "waiting" /\ r.fut # "pending"
        /\ Set(w, [r EXCEPT
               !.at = "regain", !.must = FALSE,
               !.timer = @ /\ Context(r),
               !.got = IF r.must THEN "cancelled"
                       ELSE IF r.expired THEN "timeout" ELSE r.fut])
        /\ UNCHANGED <<clock, free, event>>

\* The permit is back; await_for() is over.
Regain(w) ==
    LET r == [waiter[w] EXCEPT !.at = "body", !.held = TRUE]
    IN  /\ waiter[w].at = "regain" /\ free > 0
        /\ free' = free - 1
        /\ Set(w, IF Context(r) THEN r ELSE Closed(r))
        /\ UNCHANGED <<clock, event>>

\* The task is cancelled while it wants its permit back: its wait ends with
\* the cancellation, and what catches that goes on without a permit.
CancelRegain(w) ==
    LET r == [waiter[w] EXCEPT !.at = "body", !.got = "cancelled"]
    IN  /\ waiter[w].at = "regain"
        /\ Set(w, IF Context(r) THEN r ELSE Closed(r))
        /\ UNCHANGED <<clock, free, event>>

\* The context is left, with or without a wait, and the dispatch ends.
Leave(w) ==
    /\ waiter[w].at = "body"
    /\ Set(w, [Closed(waiter[w]) EXCEPT !.at = "done", !.held = FALSE])
    /\ free' = FreeWithout(waiter[w])
    /\ UNCHANGED <<clock, event>>

-----------------------------------------------------------------------------
(* The events, and time.                                                    *)

\* Handlers are captured at dequeue, before the event waits for a permit.
Dequeue(e) ==
    /\ \E i \in DOMAIN Queue :
           /\ Queue[i] = e /\ event[e].at = "ahead"
           /\ \A j \in 1..(i - 1) : event[Queue[j]].at # "ahead"
    /\ \A f \in Events : event[f].at # "pending"
    /\ event' = [event EXCEPT ![e] =
           [at |-> "pending", chain |-> {w \in Waiters : waiter[w].open}]]
    /\ UNCHANGED <<clock, free, waiter>>

\* Its dispatch cannot be prepared, or is cancelled before its first step.
Drop(e) ==
    /\ event[e].at = "pending"
    /\ event' = [event EXCEPT ![e] = [at |-> "over", chain |-> {}]]
    /\ UNCHANGED <<clock, free, waiter>>

Dispatch(e) ==
    /\ event[e].at = "pending" /\ free > 0
    /\ event' = [event EXCEPT ![e].at = "running"]
    /\ free' = free - 1
    /\ UNCHANGED <<clock, waiter>>

\* A captured waiter's handler runs, whatever became of the waiter.
Notify(e, w) ==
    /\ event[e].at = "running" /\ w \in event[e].chain
    /\ event' = [event EXCEPT ![e].chain = @ \ {w}]
    /\ \E f \in Functions :
           Set(w, IF f \in Resolving THEN Resolved(Reached(waiter[w], e), e)
                  ELSE Reached(waiter[w], e))
    /\ UNCHANGED <<clock, free>>

EventEnds(e) ==
    /\ event[e].at = "running" /\ event[e].chain = {}
    /\ event' = [event EXCEPT ![e].at = "over"]
    /\ free' = free + 1
    /\ UNCHANGED <<clock, waiter>>

Tick ==
    /\ clock < MaxTime
    /\ clock' = clock + 1
    /\ UNCHANGED <<free, waiter, event>>

\* The task of a waiter with its timer, and the dispatch of an event
WaiterStep(w) == Expire(w) \/ Resume(w) \/ Wait(w) \/ Leave(w)
EventStep(e) == EventEnds(e) \/ \E w \in Waiters : Notify(e, w)

Next ==
    \/ Tick
    \/ \E w \in Waiters :
           \/ Enter(w) \/ WaiterStep(w) \/ Regain(w)
           \/ CancelWait(w) \/ CancelRegain(w)
    \/ \E e \in Events :
           \/ Dequeue(e) \/ Drop(e) \/ Dispatch(e)
           \/ EventStep(e)

\* Ready tasks and due timers run, handlers return, a context's body waits or
\* ends, and the permits' semaphore serves those who want one in order.
Fairness ==
    /\ WF_vars(Tick)
    /\ \A w \in Waiters : WF_vars(WaiterStep(w)) /\ SF_vars(Regain(w))
    /\ \A e \in Events : WF_vars(EventStep(e)) /\ SF_vars(Dispatch(e))

Spec == Init /\ [][Next]_vars /\ Fairness

-----------------------------------------------------------------------------
(* Properties                                                               *)

(* The deadline is about the arrival of the event: a stored event reached   *)
(* the waiter before it, however late wait() is called or the timer fires,  *)
(* a timeout is never early, and every wait of the context ends with what   *)
(* is stored, unless it is cancelled itself.                                *)
ResultInTime ==
    \A w \in Waiters :
        LET r == waiter[w]
        IN  Context(r) /\ r.open =>
            /\ r.fut \in Events /\ r.deadline # Never => r.since < r.deadline
            /\ r.fut = "timeout" => r.deadline # Never /\ r.since >= r.deadline
            /\ r.got \notin {"none", "cancelled"} => r.got = r.fut

(* No event is missed: the first one that reaches a registered waiter       *)
(* before its deadline is what the waiter keeps and its waits return,       *)
(* whether the event was handled, accepted, failed or cancelled on its way, *)
(* and whatever timer, later events and repeated or late calls of wait()    *)
(* do; only the cancellation of a wait can take its place                   *)
(* (_register_wait_handler, _resolve).                                      *)
FirstEventIsKept ==
    \A w \in Waiters :
        LET r == waiter[w]
        IN  r.open =>
            /\ r.first # "none" => r.fut \in {r.first, "cancelled"}
            /\ r.fut \in Events => r.fut = r.first
            /\ r.got \in Events => r.got = r.first

(* A wait with a deadline ends, and so does the wait for an event that has  *)
(* captured the waiter and is not dropped, even when all permits are in use *)
(* by waiting chains: wait() lends the permit that the event's dispatch     *)
(* needs, and gets it back.                                                 *)
Due(w) ==
    waiter[w].at = "waiting" /\
        \/ waiter[w].deadline # Never \/ waiter[w].fut # "pending"
        \/ \E e \in Events : w \in event[e].chain

WaitEnds ==
    \A w \in Waiters :
        Due(w) ~> \/ waiter[w].at \in {"body", "done"}
                  \/ waiter[w].at = "waiting" /\ ~Due(w)

=============================================================================
