--------------------------- MODULE PermitSemaphore ---------------------------
(***************************************************************************)
(* asyncio.BoundedSemaphore (Python 3.12), the counter of dispatch permits  *)
(* that the event loop creates with EVENT_LOOP_BACKPRESSURE and that the    *)
(* consumer, the handler chains and suspend_process() share.  It is library *)
(* code: this module models what its callers can observe of it.             *)
(*                                                                         *)
(* A user that has to wait owns a future in a FIFO queue.  Granting sets the*)
(* future's result; the user's task runs later, so a grant can be overtaken *)
(* by new arrivals, by a release or by a cancellation of the waiting task.  *)
(***************************************************************************)
EXTENDS Integers, Sequences, FiniteSets

CONSTANTS
    Permits,    \* the bound of the semaphore
    Users       \* the tasks that may call acquire()

ASSUME PermitsAssumption == Permits \in Nat \ {0}
ASSUME UsersAssumption == IsFiniteSet(Users)

VARIABLES
    value,      \* free permits not reserved for a waiter
    waiters,    \* users whose future is still queued, oldest first
    fut         \* state of each user's future

semVars == <<value, waiters, fut>>

\* "granted" has a result; "revoked" was granted, then its task was cancelled.
FutState == {"none", "pending", "granted", "cancelled", "revoked"}

SemTypeOK ==
    /\ value \in 0..Permits
    /\ waiters \in Seq(Users)
    /\ fut \in [Users -> FutState]

SemInit ==
    /\ value = Permits
    /\ waiters = << >>
    /\ fut = [u \in Users |-> "none"]

Pending == {u \in Users : fut[u] = "pending"}

\* Permits already taken out of value for a user whose task has yet to run.
Reserved == {u \in Users : fut[u] \in {"granted", "revoked"}}

\* acquire() returns at once only with a free permit and nobody waiting.
Locked == value = 0 \/ Pending # {} \/ Reserved # {}

Before(u, v) ==
    \E i, j \in DOMAIN waiters : i < j /\ waiters[i] = u /\ waiters[j] = v

\* W are the first n pending waiters, or all of them if there are fewer.
Oldest(n, W) ==
    /\ Cardinality(W) =
         IF n < Cardinality(Pending) THEN n ELSE Cardinality(Pending)
    /\ \A u \in W, v \in Pending \ W : Before(u, v)

Grant(W) == [u \in Users |-> IF u \in W THEN "granted" ELSE fut[u]]

AcquireNow ==
    /\ ~Locked
    /\ value' = value - 1
    /\ UNCHANGED <<waiters, fut>>

Enqueue(u) ==
    /\ Locked
    /\ fut[u] = "none"
    /\ fut' = [fut EXCEPT ![u] = "pending"]
    /\ waiters' = Append(waiters, u)
    /\ UNCHANGED value

\* release(): one more permit, which wakes at most one waiter.
Release ==
    \E W \in SUBSET Pending :
        /\ Oldest(1, W)
        /\ value' = value + 1 - Cardinality(W)
        /\ fut' = Grant(W)
        /\ UNCHANGED waiters

\* The task of u resumes after its future is done.  It gives back `back`
\* permits (a revoked grant, or a permit released at once), and acquire()'s
\* finally block wakes as many waiters as there are free permits.
Leave(u, back) ==
    /\ fut[u] \in {"granted", "cancelled", "revoked"}
    /\ \E W \in SUBSET Pending :
        /\ Oldest(value + back, W)
        /\ value' = value + back - Cardinality(W)
        /\ fut' = [Grant(W) EXCEPT ![u] = "none"]
    /\ \E i \in DOMAIN waiters :
        /\ waiters[i] = u
        /\ waiters' = SubSeq(waiters, 1, i - 1)
                        \o SubSeq(waiters, i + 1, Len(waiters))

\* release() and then acquire() by u without a task switch: u keeps its permit
\* if nobody is waiting, and otherwise queues behind the waiters.
Yield(u) ==
    \/ Pending = {} /\ Reserved = {} /\ UNCHANGED semVars
    \/ /\ Pending # {} \/ Reserved # {}
       /\ \E W \in SUBSET Pending :
            /\ Oldest(1, W)
            /\ value' = value + 1 - Cardinality(W)
            /\ fut' = [Grant(W) EXCEPT ![u] = "pending"]
       /\ waiters' = Append(waiters, u)

\* The waiting task is cancelled.  A pending future is cancelled with it; a
\* granted one keeps its result and the task sees the cancellation later.
CancelWait(u) ==
    /\ fut[u] \in {"pending", "granted"}
    /\ fut' = [fut EXCEPT ![u] =
                 IF fut[u] = "pending" THEN "cancelled" ELSE "revoked"]
    /\ UNCHANGED <<value, waiters>>
=============================================================================
