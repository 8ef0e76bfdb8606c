--------------------------- MODULE EventLoopProofs ---------------------------
(***************************************************************************)
(* Proofs about EventLoop and EventCore: any events, publications between   *)
(* them, queue size, permits, consumer tasks and number of stops.           *)
(***************************************************************************)
EXTENDS EventCore, PermitSemaphoreProofs, SequenceTheorems

(* TypeOK without the bound on value, which follows from PermitsAddUp. *)
Shape ==
    /\ SemShape
    /\ queue \in Seq(Events) /\ Len(queue) <= QueueSize
    /\ unfinished \in Nat
    /\ pending \in Events \cup {None}
    /\ st \in [Events -> EventState]
    /\ handed \in Seq(Events)
    /\ held \subseteq Events /\ lapsed \subseteq Events
    /\ at \in [Consumers -> ConsumerState]
    /\ cancelled \in [Consumers -> BOOLEAN]
    /\ current \in Consumers \cup {None}
    /\ started \in BOOLEAN
    /\ stops \in 0..MaxStops

(* A consumer owns a future while it awaits a permit, and only the current  *)
(* one is not cancelled.                                                    *)
Consumer(k) ==
    /\ fut[k] # "none" <=> at[k] = "acquire"
    /\ at[k] = "acquire" =>
           fut[k] \in IF cancelled[k] THEN {"cancelled", "revoked"}
                                      ELSE {"pending", "granted"}
    /\ at[k] \in {"gone", "loop"} => ~cancelled[k]
    /\ Live(k) => current = k
    /\ current = k => at[k] # "gone" /\ ~cancelled[k]

ConsumersOK ==
    /\ \A k \in Consumers : Consumer(k)
    /\ started <=> current # None
    /\ PendingAwaitsPermit

Queued(e) == \E i \in 1..Len(queue) : queue[i] = e

(* An event is where its state says; a dispatch owns a future while it      *)
(* wants its permit back, and has lent it to one put at a time.             *)
Event(e) ==
    /\ st[e] = "pending" <=> pending = e
    /\ st[e] = "queued" <=> Queued(e)
    /\ fut[e] # "none" <=> st[e] = "regain"
    /\ st[e] = "blocked" /\ Parent[e] # External => st[Parent[e]] = "lending"

(* A chain runs with a permit, or without one after a cancellation. *)
Chain(e) ==
    /\ st[e] \in {"running", "ended"} <=> e \in held \/ e \in lapsed
    /\ ~(e \in held /\ e \in lapsed)

OnePut(e, f) ==
    st[e] = "blocked" /\ st[f] = "blocked" /\ Parent[e] = Parent[f]
        /\ Parent[e] # External => e = f

NoDuplicate ==
    \A i, j \in 1..Len(queue) : queue[i] = queue[j] => i = j

EventsOK ==
    /\ \A e \in Events : Event(e)
    /\ \A e \in Events : Chain(e)
    /\ \A e, f \in Events : OnePut(e, f)
    /\ NoDuplicate

(* Every permit is unclaimed, which includes the reserved ones, or held. *)
PermitsAddUp == Unclaimed + Cardinality(held) = Permits

IInv ==
    /\ Shape
    /\ ConsumersOK
    /\ EventsOK
    /\ UnfinishedMatchesQueue
    /\ PermitsAddUp

-----------------------------------------------------------------------------
(* The semaphore: whose future an operation touches.                        *)

(* A future that another user's operation may only grant *)
Woken(v) == fut'[v] = fut[v] \/ (fut[v] = "pending" /\ fut'[v] = "granted")

AllWoken == \A v \in Users : Woken(v)

(* release() only grants. *)
LEMMA ReleaseWakes ==
    ASSUME SemShape, Release
    PROVE  AllWoken
<1>1. PICK W \in SUBSET Pending : fut' = Grant(W)
    BY DEF Release
<1>. QED BY <1>1 DEF AllWoken, Woken, Grant, Pending

(* A waiter that leaves drops its future and only grants those of others. *)
LEMMA LeaveWakes ==
    ASSUME SemShape, NEW u \in Users, NEW b \in {0, 1}, Leave(u, b)
    PROVE  /\ fut'[u] = "none"
           /\ \A v \in Users \ {u} : Woken(v)
<1>1. PICK W \in SUBSET Pending : fut' = [Grant(W) EXCEPT ![u] = "none"]
    BY DEF Leave
<1>. QED BY <1>1 DEF Woken, Grant, Pending

(* A waiter that queues up touches no other future. *)
LEMMA EnqueueWakes ==
    ASSUME SemShape, NEW u \in Users, Enqueue(u)
    PROVE  /\ fut[u] = "none" /\ fut'[u] = "pending"
           /\ \A v \in Users \ {u} : Woken(v)
BY DEF SemShape, Enqueue, Woken

(* A release followed by an acquire keeps the permit or queues up. *)
LEMMA YieldEffect ==
    ASSUME SemShape, NEW u \in Users, fut[u] = "none", Yield(u)
    PROVE  /\ SemShape'
           /\ \A v \in Users \ {u} : Woken(v)
           /\ \/ fut'[u] = "none" /\ Unclaimed' = Unclaimed
              \/ fut'[u] = "pending" /\ Unclaimed' = Unclaimed + 1
<1>1. CASE UNCHANGED semVars
  <2>1. fut' = fut
    BY <1>1 DEF semVars
  <2>. QED BY <1>1, <2>1, SemaphoreStutter DEF Woken
<1>2. ASSUME NEW W \in SUBSET Pending, Oldest(1, W),
             value' = value + 1 - Cardinality(W),
             fut' = [Grant(W) EXCEPT ![u] = "pending"],
             waiters' = Append(waiters, u)
      PROVE  /\ SemShape' /\ Unclaimed' = Unclaimed + 1
             /\ fut'[u] = "pending"
             /\ \A v \in Users \ {u} : Woken(v)
  <2>1. IsFiniteSet(W) /\ Cardinality(W) \in Nat /\ Cardinality(W) <= 1
    BY <1>2, UserSetsFinite, FS_Subset, FS_CardinalityType DEF Oldest
  <2>2. /\ Reserved' = Reserved \cup W /\ Reserved \cap W = {}
        /\ fut' \in [Users -> FutState]
        /\ fut'[u] = "pending"
        /\ \A v \in Users \ {u} : Woken(v)
    BY <1>2 DEF SemShape, Reserved, Pending, Grant, FutState, Woken
  <2>3. Cardinality(Reserved') = Cardinality(Reserved) + Cardinality(W)
    <3>1. Cardinality(Reserved \cap W) = 0
      BY <2>2, FS_EmptySet
    <3>2. Cardinality(Reserved \cup W)
            = Cardinality(Reserved) + Cardinality(W) - Cardinality(Reserved \cap W)
      BY <2>1, UserSetsFinite, FS_Union
    <3>. QED BY <2>1, <2>2, <3>1, <3>2, UserSetsFinite
  <2>4. value \in Nat /\ value' \in Nat /\ Unclaimed' = Unclaimed + 1
    <3>1. value \in Nat /\ value' = value + 1 - Cardinality(W)
      BY <1>2 DEF SemShape
    <3>2. Cardinality(Reserved) \in Nat
      BY UserSetsFinite, FS_CardinalityType
    <3>3. value' \in Nat
      BY <2>1, <3>1
    <3>4. value' + Cardinality(Reserved') = value + Cardinality(Reserved) + 1
      BY <2>1, <2>3, <3>1, <3>2
    <3>. QED BY <3>1, <3>3, <3>4 DEF Unclaimed
  <2>5. waiters' \in Seq(Users)
    BY <1>2 DEF SemShape
  <2>. QED BY <2>2, <2>4, <2>5 DEF SemShape
<1>. QED BY <1>1, <1>2 DEF Yield

-----------------------------------------------------------------------------
(* Dispatches that hold a permit.                                           *)

LEMMA UsersSplit ==
    /\ Events \subseteq Users /\ Consumers \subseteq Users
    /\ \A e \in Events, k \in Consumers : e # k
BY EventsAssumption

LEMMA HeldFinite ==
    ASSUME NEW H, H \subseteq Events
    PROVE  IsFiniteSet(H) /\ Cardinality(H) \in Nat
<1>1. H \in SUBSET Users
    BY UsersSplit
<1>. QED BY <1>1, UsersAssumption, FS_Subset, FS_CardinalityType

(* A chain takes a permit or gives one up. *)
LEMMA HeldChange ==
    ASSUME held \subseteq Events, NEW d \in Events
    PROVE  /\ d \in held => Cardinality(held \ {d}) = Cardinality(held) - 1
           /\ d \notin held => /\ Cardinality(held \cup {d}) = Cardinality(held) + 1
                              /\ held \ {d} = held
<1>1. IsFiniteSet(held) /\ Cardinality(held) \in Nat
    BY HeldFinite
<1>2. CASE d \in held
  <2>. QED BY <1>1, <1>2, FS_RemoveElement
<1>3. CASE d \notin held
  <2>1. held \ {d} = held
    BY <1>3
  <2>. QED BY <1>1, <1>3, <2>1, FS_AddElement
<1>. QED BY <1>2, <1>3

(* No permit is created or lost: what is unclaimed and held adds up. *)
LEMMA PermitsKept ==
    ASSUME PermitsAddUp,
           Unclaimed' + Cardinality(held') = Unclaimed + Cardinality(held)
    PROVE  PermitsAddUp'
BY DEF PermitsAddUp

-----------------------------------------------------------------------------
(* The queue.                                                               *)

(* put() appends an event that is not yet in the queue. *)
LEMMA AcceptAppends ==
    ASSUME Shape, NoDuplicate, NEW e \in Events, ~Queued(e), Room, Accept(e)
    PROVE  /\ queue' \in Seq(Events) /\ Len(queue') <= QueueSize
           /\ Len(queue') = Len(queue) + 1
           /\ unfinished' = unfinished + 1
           /\ \A f \in Events : Queued(f)' <=> Queued(f) \/ f = e
           /\ NoDuplicate'
<1>1. queue \in Seq(Events) /\ Len(queue) \in Nat /\ Len(queue) < QueueSize
      /\ QueueSize \in Nat
    BY EventsAssumption DEF Shape, Room
<1>2. /\ queue' \in Seq(Events) /\ Len(queue') = Len(queue) + 1
      /\ \A i \in 1..Len(queue) : queue'[i] = queue[i]
      /\ queue'[Len(queue) + 1] = e
    BY <1>1 DEF Accept
<1>3. \A f \in Events : Queued(f)' <=> Queued(f) \/ f = e
    BY <1>1, <1>2 DEF Queued
<1>4. NoDuplicate'
    BY <1>1, <1>2 DEF Queued, NoDuplicate
<1>. QED BY <1>1, <1>2, <1>3, <1>4 DEF Accept

(* get() removes the oldest event and no other. *)
LEMMA TakeRemoves ==
    ASSUME Shape, NoDuplicate, queue # << >>, queue' = Tail(queue)
    PROVE  /\ Head(queue) \in Events /\ Queued(Head(queue))
           /\ queue' \in Seq(Events) /\ Len(queue') <= QueueSize
           /\ Len(queue') = Len(queue) - 1 /\ Len(queue) \in Nat \ {0}
           /\ \A f \in Events : Queued(f)' <=> Queued(f) /\ f # Head(queue)
           /\ NoDuplicate'
<1>1. queue \in Seq(Events) /\ Len(queue) \in Nat \ {0} /\ Len(queue) <= QueueSize
      /\ QueueSize \in Nat /\ Head(queue) = queue[1]
    BY EventsAssumption DEF Shape
<1>2. /\ queue' \in Seq(Events) /\ Len(queue') = Len(queue) - 1
      /\ \A i \in 1..Len(queue') : queue'[i] = queue[i + 1]
    BY <1>1
<1>3. \A f \in Events : Queued(f)' <=> Queued(f) /\ f # Head(queue)
  <2>. SUFFICES ASSUME NEW f \in Events
                PROVE  Queued(f)' <=> Queued(f) /\ f # Head(queue)
    OBVIOUS
  <2>1. ASSUME NEW i \in 1..Len(queue'), queue'[i] = f
        PROVE  Queued(f) /\ f # Head(queue)
    <3>1. i + 1 \in 1..Len(queue) /\ queue[i + 1] = f /\ 1 \in 1..Len(queue)
      BY <1>1, <1>2, <2>1
    <3>. QED BY <1>1, <3>1 DEF NoDuplicate, Queued
  <2>2. ASSUME NEW i \in 1..Len(queue), queue[i] = f, f # Head(queue)
        PROVE  Queued(f)'
    <3>1. i - 1 \in 1..Len(queue') /\ (i - 1) + 1 = i
      BY <1>1, <1>2, <2>2
    <3>2. queue'[i - 1] = f
      BY <1>2, <2>2, <3>1
    <3>. QED BY <3>1, <3>2 DEF Queued
  <2>. QED BY <2>1, <2>2 DEF Queued
<1>4. NoDuplicate'
  <2>. SUFFICES ASSUME NEW i \in 1..Len(queue'), NEW j \in 1..Len(queue'),
                       queue'[i] = queue'[j]
                PROVE  i = j
    BY DEF NoDuplicate
  <2>1. i + 1 \in 1..Len(queue) /\ j + 1 \in 1..Len(queue)
        /\ queue[i + 1] = queue[j + 1]
    BY <1>1, <1>2
  <2>. QED BY <2>1 DEF NoDuplicate
<1>5. Head(queue) \in Events /\ Queued(Head(queue))
    BY <1>1 DEF Queued
<1>6. Len(queue') <= QueueSize
    BY <1>1, <1>2
<1>. QED BY <1>1, <1>2, <1>3, <1>4, <1>5, <1>6

-----------------------------------------------------------------------------
(* What a step that leaves a part alone preserves.                          *)

(* Steps of publishers, dispatches and the queue do not disturb consumers. *)
LEMMA ConsumersCalm ==
    ASSUME ConsumersOK, UNCHANGED <<loopVars, pending>>,
           \A k \in Consumers : Woken(k)
    PROVE  ConsumersOK'
<1>1. at' = at /\ cancelled' = cancelled /\ current' = current
      /\ started' = started /\ pending' = pending
    BY DEF loopVars
<1>2. \A k \in Consumers : Consumer(k)'
    BY <1>1 DEF ConsumersOK, Consumer, Woken, Live
<1>. QED BY <1>1, <1>2 DEF ConsumersOK, PendingAwaitsPermit

(* Steps of consumers do not disturb the events they do not move. *)
LEMMA EventsCalm ==
    ASSUME EventsOK, UNCHANGED <<queue, pending, st, chainVars>>,
           \A e \in Events : Woken(e)
    PROVE  EventsOK' /\ held' = held
<1>1. \A e \in Events : Event(e)'
    BY DEF EventsOK, Event, Woken, Queued
<1>2. (\A e \in Events : Chain(e)') /\ held' = held
    BY DEF EventsOK, Chain, chainVars
<1>. QED BY <1>1, <1>2 DEF EventsOK, OnePut, NoDuplicate

(* A step that leaves queue and loop alone *)
LEMMA LoopShape ==
    ASSUME Shape, SemShape', UNCHANGED <<pipeVars, handed>>,
           pending' \in Events \cup {None},
           st' \in [Events -> EventState],
           held' \subseteq Events, lapsed' \subseteq Events,
           UNCHANGED loopVars
    PROVE  Shape'
BY DEF Shape, pipeVars, loopVars

-----------------------------------------------------------------------------
(* Publication.                                                             *)

(* put() counts what it accepts. *)
LEMMA AcceptCounts ==
    ASSUME IInv, NEW e \in Events, st[e] # "queued", Room, Accept(e),
           pending' = pending
    PROVE  /\ queue' \in Seq(Events) /\ Len(queue') <= QueueSize
           /\ unfinished' \in Nat
           /\ \A f \in Events : Queued(f)' <=> Queued(f) \/ f = e
           /\ NoDuplicate' /\ UnfinishedMatchesQueue'
<1>1. Shape /\ NoDuplicate /\ ~Queued(e)
    BY DEF IInv, EventsOK, Event
<1>2. /\ queue' \in Seq(Events) /\ Len(queue') <= QueueSize
      /\ Len(queue') = Len(queue) + 1 /\ Len(queue) \in Nat
      /\ unfinished' = unfinished + 1 /\ unfinished \in Nat
      /\ \A f \in Events : Queued(f)' <=> Queued(f) \/ f = e
      /\ NoDuplicate'
    BY <1>1, AcceptAppends DEF Shape
<1>3. unfinished = Len(queue) + (IF pending = None THEN 0 ELSE 1)
    BY DEF IInv, UnfinishedMatchesQueue
<1>4. UnfinishedMatchesQueue'
    BY <1>2, <1>3 DEF UnfinishedMatchesQueue
<1>. QED BY <1>2, <1>4

(* What happens to the queue when the event of a put() gets into state s *)
Puts(e, s) ==
    \/ s = "queued" /\ Room /\ Accept(e)
    \/ s # "queued" /\ UNCHANGED pipeVars

(* put() accepts the event, waits or is cancelled. *)
LEMMA PutCounts ==
    ASSUME IInv, NEW e \in Events, NEW s, Puts(e, s), st[e] # "queued",
           pending' = pending
    PROVE  /\ queue' \in Seq(Events) /\ Len(queue') <= QueueSize
           /\ unfinished' \in Nat
           /\ \A f \in Events : Queued(f)' <=> Queued(f) \/ (f = e /\ s = "queued")
           /\ NoDuplicate' /\ UnfinishedMatchesQueue'
<1>1. CASE s = "queued" /\ Room /\ Accept(e)
    BY <1>1, AcceptCounts
<1>2. CASE s # "queued" /\ UNCHANGED pipeVars
  <2>1. queue' = queue /\ unfinished' = unfinished
    BY <1>2 DEF pipeVars
  <2>2. Shape /\ NoDuplicate /\ UnfinishedMatchesQueue
    BY DEF IInv, EventsOK
  <2>. QED
    BY <1>2, <2>1, <2>2 DEF Shape, Queued, NoDuplicate, UnfinishedMatchesQueue
<1>. QED BY <1>1, <1>2 DEF Puts

(* A publication from outside moves its event and no permit. *)
LEMMA ExternalMoves ==
    ASSUME IInv, NEW e \in Events, Parent[e] = External,
           NEW s \in {"queued", "blocked", "withdrawn"}, Puts(e, s),
           st[e] \in {"new", "blocked"}, st' = [st EXCEPT ![e] = s],
           UNCHANGED <<semVars, pending, handed, chainVars, loopVars>>
    PROVE  IInv'
<1>1. /\ Shape /\ ConsumersOK /\ EventsOK /\ PermitsAddUp
      /\ st \in [Events -> EventState] /\ pending # e
      /\ \A f \in Events : Event(f) /\ Chain(f)
      /\ \A f, g \in Events : OnePut(f, g)
      /\ fut' = fut /\ held' = held /\ lapsed' = lapsed
    BY DEF IInv, Shape, EventsOK, Event, semVars, chainVars
<1>2. SemShape' /\ Unclaimed' = Unclaimed
    BY <1>1, SemaphoreStutter DEF Shape
<1>3. ConsumersOK'
    BY <1>1, ConsumersCalm DEF Woken
<1>4. /\ queue' \in Seq(Events) /\ Len(queue') <= QueueSize
      /\ unfinished' \in Nat
      /\ \A f \in Events : Queued(f)' <=> Queued(f) \/ (f = e /\ s = "queued")
      /\ NoDuplicate' /\ UnfinishedMatchesQueue'
    BY PutCounts
<1>5. Shape'
    BY <1>1, <1>2, <1>4 DEF Shape, EventState, loopVars
<1>6. ~Queued(e)
    BY <1>1 DEF Event
<1>7. ASSUME NEW f \in Events PROVE Event(f)'
  <2>1. Event(f) /\ Parent[f] \in Events \cup {External} /\ External \notin Events
    BY <1>1, EventsAssumption
  <2>2. st'[f] = "blocked" /\ Parent[f] # External => st'[Parent[f]] = "lending"
    BY <1>1, <2>1 DEF Event
  <2>. QED BY <1>1, <1>4, <1>6, <2>1, <2>2 DEF Event
<1>8. \A f \in Events : Chain(f)'
    BY <1>1 DEF Chain
<1>9. \A f, g \in Events : OnePut(f, g)'
    BY <1>1 DEF OnePut
<1>10. PermitsAddUp'
    BY <1>1, <1>2, PermitsKept
<1>. QED BY <1>3, <1>4, <1>5, <1>7, <1>8, <1>9, <1>10 DEF IInv, EventsOK

(* A dispatch that publishes, or whose put() ends, holds a permit exactly if *)
(* it runs on; no other put uses that dispatch's permit.                    *)
LEMMA PublisherMoves ==
    ASSUME IInv, NEW d \in Events, NEW e \in Events, Parent[e] = d,
           NEW s \in {"queued", "blocked", "withdrawn"},
           NEW t \in {"running", "lending", "regain"},
           \/ st[e] = "new" /\ st[d] = "running"
           \/ st[e] = "blocked" /\ st[d] = "lending" /\ s # "blocked",
           s = "blocked" <=> t = "lending",
           st' = [st EXCEPT ![e] = s, ![d] = t],
           Puts(e, s), UNCHANGED <<pending, handed, loopVars>>,
           SemShape', \A v \in Users \ {d} : Woken(v),
           fut'[d] # "none" <=> t = "regain",
           held' \subseteq Events, lapsed' = lapsed \ {d},
           \A f \in Events \ {d} : f \in held' <=> f \in held,
           d \in held' <=> t = "running",
           Unclaimed' + Cardinality(held') = Unclaimed + Cardinality(held)
    PROVE  IInv'
<1>1. /\ Shape /\ ConsumersOK /\ EventsOK /\ PermitsAddUp
      /\ st \in [Events -> EventState]
      /\ \A f \in Events : Event(f) /\ Chain(f)
      /\ \A f, g \in Events : OnePut(f, g)
      /\ d # e /\ d # External /\ d \in Users /\ lapsed \subseteq Events
    BY UsersSplit, EventsAssumption DEF IInv, Shape, EventsOK
<1>2. /\ queue' \in Seq(Events) /\ Len(queue') <= QueueSize
      /\ unfinished' \in Nat
      /\ \A f \in Events : Queued(f)' <=> Queued(f) \/ (f = e /\ s = "queued")
      /\ NoDuplicate' /\ UnfinishedMatchesQueue'
    BY PutCounts
<1>3. /\ ~Queued(e) /\ ~Queued(d) /\ pending # e /\ pending # d
      /\ \A f \in Events \ {e} : st[f] = "blocked" => Parent[f] # d
  <2>1. Event(d) /\ Event(e)
    BY <1>1
  <2>2. ASSUME NEW f \in Events \ {e}, st[f] = "blocked", Parent[f] = d
        PROVE  FALSE
    <3>1. Event(f) /\ OnePut(f, e)
      BY <1>1
    <3>2. st[d] = "lending"
      BY <1>1, <2>2, <3>1 DEF Event
    <3>. QED BY <1>1, <2>2, <3>1, <3>2 DEF OnePut
  <2>. QED BY <2>1, <2>2 DEF Event
<1>4. ConsumersOK'
    BY <1>1, UsersSplit, ConsumersCalm
<1>5. Shape'
    BY <1>1, <1>2 DEF Shape, EventState, loopVars
<1>6. /\ st'[e] = s /\ st'[d] = t
      /\ \A f \in Events \ {d, e} : st'[f] = st[f]
    BY <1>1
<1>7. ASSUME NEW f \in Events PROVE Event(f)'
  <2>1. /\ Event(f) /\ pending' = pending /\ (f # d => Woken(f))
        /\ Parent[f] \in Events \cup {External} /\ External \notin Events
    BY <1>1, UsersSplit, EventsAssumption
  <2>2. Queued(f)' <=> Queued(f) \/ (f = e /\ s = "queued")
    BY <1>2
  <2>3. st'[f] = "blocked" /\ Parent[f] # External => st'[Parent[f]] = "lending"
    <3>1. CASE f = e
      BY <1>6, <3>1
    <3>2. CASE f = d
      BY <1>6, <3>2
    <3>3. CASE f # e /\ f # d /\ st[f] = "blocked" /\ Parent[f] # External
      <4>1. Parent[f] # d /\ Parent[f] # e /\ Parent[f] \in Events
        BY <1>1, <1>3, <2>1, <3>3 DEF Event
      <4>. QED BY <1>6, <2>1, <3>3, <4>1 DEF Event
    <3>. QED BY <1>6, <3>1, <3>2, <3>3
  <2>4. CASE f = d
    BY <1>1, <1>3, <1>6, <2>1, <2>2, <2>3, <2>4 DEF Event
  <2>5. CASE f = e
    BY <1>1, <1>3, <1>6, <2>1, <2>2, <2>3, <2>5 DEF Event, Woken
  <2>6. CASE f # d /\ f # e
    BY <1>6, <2>1, <2>2, <2>3, <2>6 DEF Event, Woken
  <2>. QED BY <2>4, <2>5, <2>6
<1>8. ASSUME NEW f \in Events PROVE Chain(f)'
  <2>1. Chain(f)
    BY <1>1
  <2>. QED BY <1>6, <2>1 DEF Chain
<1>9. ASSUME NEW f \in Events, NEW g \in Events PROVE OnePut(f, g)'
    BY <1>1, <1>3, <1>6 DEF OnePut
<1>10. PermitsAddUp'
    BY <1>1, PermitsKept
<1>. QED BY <1>2, <1>4, <1>5, <1>7, <1>8, <1>9, <1>10 DEF IInv, EventsOK

(* The end of a suspension takes a permit or queues up for one. *)
LEMMA ReacquireEffect ==
    ASSUME Shape, NEW d \in Events, d \notin held, fut[d] = "none",
           NEW e \in Events, NEW s, Reacquire(d, e, s)
    PROVE  \E t \in {"running", "regain"} :
              /\ st' = [st EXCEPT ![e] = s, ![d] = t]
              /\ SemShape' /\ \A v \in Users \ {d} : Woken(v)
              /\ fut'[d] # "none" <=> t = "regain"
              /\ held' \subseteq Events
              /\ \A f \in Events \ {d} : f \in held' <=> f \in held
              /\ d \in held' <=> t = "running"
              /\ Unclaimed' + Cardinality(held') = Unclaimed + Cardinality(held)
<1>1. /\ SemShape /\ held \subseteq Events /\ d \in Users
      /\ Unclaimed \in Int /\ Cardinality(held) \in Nat
    BY UsersSplit, UserSetsFinite, HeldFinite DEF Shape, SemShape, Unclaimed
<1>2. CASE /\ AcquireNow /\ held' = held \cup {d}
           /\ st' = [st EXCEPT ![e] = s, ![d] = "running"]
  <2>1. fut' = fut /\ SemShape' /\ Unclaimed' = Unclaimed - 1
    BY <1>1, <1>2, AcquireNowEffect DEF AcquireNow
  <2>2. Cardinality(held') = Cardinality(held) + 1
    BY <1>1, <1>2, HeldChange
  <2>3. Unclaimed' + Cardinality(held') = Unclaimed + Cardinality(held)
    BY <1>1, <2>1, <2>2
  <2>. QED BY <1>1, <1>2, <2>1, <2>3 DEF Woken
<1>3. CASE /\ Enqueue(d) /\ held' = held
           /\ st' = [st EXCEPT ![e] = s, ![d] = "regain"]
  <2>1. /\ fut'[d] = "pending" /\ \A v \in Users \ {d} : Woken(v)
        /\ SemShape' /\ Unclaimed' = Unclaimed
    BY <1>1, <1>3, EnqueueEffect, EnqueueWakes
  <2>. QED BY <1>1, <1>3, <2>1
<1>. QED BY <1>2, <1>3 DEF Reacquire

(* What a handler that publishes finds: its event is new, its future free. *)
LEMMA PublishFromKeeps ==
    ASSUME IInv, NEW d \in Events, NEW e \in Events, PublishFrom(d, e)
    PROVE  IInv'
<1>1. /\ Shape /\ SemShape /\ d \in Users /\ d # e /\ held \subseteq Events
      /\ Parent[e] = d /\ st[e] = "new" /\ st[d] = "running" /\ fut[d] = "none"
      /\ UNCHANGED <<pending, handed, loopVars>> /\ lapsed' = lapsed \ {d}
      /\ Unclaimed \in Int /\ Cardinality(held) \in Nat
      /\ st \in [Events -> EventState]
  <2>1. Shape /\ Event(d)
    BY DEF IInv, EventsOK
  <2>. QED
    BY <2>1, UsersSplit, UserSetsFinite, HeldFinite
       DEF PublishFrom, Shape, SemShape, Unclaimed, Event
<1>2. ASSUME NEW s \in {"queued", "blocked"},
             NEW t \in {"running", "lending", "regain"},
             s = "blocked" <=> t = "lending",
             st' = [st EXCEPT ![e] = s, ![d] = t],
             Puts(e, s), SemShape', \A v \in Users \ {d} : Woken(v),
             fut'[d] # "none" <=> t = "regain",
             held' \subseteq Events,
             \A f \in Events \ {d} : f \in held' <=> f \in held,
             d \in held' <=> t = "running",
             Unclaimed' + Cardinality(held') = Unclaimed + Cardinality(held)
      PROVE  IInv'
    BY <1>1, <1>2, PublisherMoves
<1>3. ASSUME Room, Accept(e), d \in held, Yield(d),
             st' = [st EXCEPT ![e] = "queued",
                              ![d] = IF fut'[d] = "pending" THEN "regain" ELSE @],
             held' = IF fut'[d] = "pending" THEN held \ {d} ELSE held
      PROVE  IInv'
  <2>1. /\ SemShape'
        /\ \A v \in Users \ {d} : Woken(v)
        /\ \/ fut'[d] = "none" /\ Unclaimed' = Unclaimed
           \/ fut'[d] = "pending" /\ Unclaimed' = Unclaimed + 1
    BY <1>1, <1>3, YieldEffect
  <2>2. Puts(e, "queued")
    BY <1>3 DEF Puts
  <2>3. CASE fut'[d] = "none" /\ Unclaimed' = Unclaimed
    <3>1. st' = [st EXCEPT ![e] = "queued", ![d] = "running"] /\ held' = held
      BY <1>1, <1>3, <2>3
    <3>. QED BY <1>1, <1>2, <1>3, <2>1, <2>2, <2>3, <3>1
  <2>4. CASE fut'[d] = "pending" /\ Unclaimed' = Unclaimed + 1
    <3>1. st' = [st EXCEPT ![e] = "queued", ![d] = "regain"] /\ held' = held \ {d}
      BY <1>1, <1>3, <2>4
    <3>2. Cardinality(held') = Cardinality(held) - 1
      BY <1>1, <1>3, <3>1, HeldChange
    <3>3. Unclaimed' + Cardinality(held') = Unclaimed + Cardinality(held)
      BY <1>1, <2>4, <3>2
    <3>. QED BY <1>1, <1>2, <2>1, <2>2, <2>4, <3>1, <3>3
  <2>. QED BY <2>1, <2>3, <2>4
<1>4. ASSUME Room, Accept(e), d \notin held, Reacquire(d, e, "queued")
      PROVE  IInv'
  <2>1. Puts(e, "queued")
    BY <1>4 DEF Puts
  <2>2. PICK t \in {"running", "regain"} :
          /\ st' = [st EXCEPT ![e] = "queued", ![d] = t]
          /\ SemShape' /\ \A v \in Users \ {d} : Woken(v)
          /\ fut'[d] # "none" <=> t = "regain"
          /\ held' \subseteq Events
          /\ \A f \in Events \ {d} : f \in held' <=> f \in held
          /\ d \in held' <=> t = "running"
          /\ Unclaimed' + Cardinality(held') = Unclaimed + Cardinality(held)
    BY <1>1, <1>4, ReacquireEffect
  <2>. QED BY <1>2, <2>1, <2>2
<1>5. ASSUME UNCHANGED pipeVars,
             IF d \in held THEN Release ELSE UNCHANGED semVars,
             held' = held \ {d},
             st' = [st EXCEPT ![e] = "blocked", ![d] = "lending"]
      PROVE  IInv'
  <2>1. Puts(e, "blocked")
    BY <1>5 DEF Puts
  <2>2. CASE d \in held
    <3>1. SemShape' /\ Unclaimed' = Unclaimed + 1 /\ \A v \in Users : Woken(v)
      BY <1>1, <1>5, <2>2, ReleaseEffect, ReleaseWakes DEF AllWoken
    <3>2. Cardinality(held') = Cardinality(held) - 1
      BY <1>1, <1>5, <2>2, HeldChange
    <3>3. Unclaimed' + Cardinality(held') = Unclaimed + Cardinality(held)
      BY <1>1, <3>1, <3>2
    <3>4. fut'[d] = "none"
      BY <1>1, <3>1 DEF Woken
    <3>. QED BY <1>1, <1>2, <1>5, <2>1, <3>1, <3>3, <3>4
  <2>3. CASE d \notin held
    <3>1. SemShape' /\ Unclaimed' = Unclaimed /\ fut' = fut /\ held' = held
      BY <1>1, <1>5, <2>3, SemaphoreStutter DEF semVars
    <3>. QED BY <1>1, <1>2, <1>5, <2>1, <2>3, <3>1 DEF Woken
  <2>. QED BY <2>2, <2>3
<1>. QED BY <1>3, <1>4, <1>5 DEF PublishFrom, PublishNow

LEMMA PublishExternalKeeps ==
    ASSUME IInv, NEW e \in Events, PublishExternal(e)
    PROVE  IInv'
<1>1. PICK s \in {"queued", "blocked"} :
        Puts(e, s) /\ st' = [st EXCEPT ![e] = s]
    BY DEF PublishExternal, Puts
<1>. QED BY <1>1, ExternalMoves DEF PublishExternal

(* A put that ends, accepted or cancelled, gives its handler a permit back, *)
(* or a place in the semaphore's queue.                                     *)
LEMMA PutEndsKeeps ==
    ASSUME IInv, NEW e \in Events, NEW s \in {"queued", "withdrawn"},
           st[e] = "blocked", Puts(e, s), PutEnds(e, s)
    PROVE  IInv'
<1>1. CASE Parent[e] = External
  <2>1. /\ st' = [st EXCEPT ![e] = s]
        /\ UNCHANGED <<semVars, pending, handed, chainVars, loopVars>>
    BY <1>1 DEF PutEnds, chainVars
  <2>. QED BY <1>1, <2>1, ExternalMoves
<1>2. CASE Parent[e] # External
  <2>. DEFINE d == Parent[e]
  <2>1. /\ d \in Events /\ Shape /\ Event(e) /\ Event(d) /\ Chain(d)
        /\ UNCHANGED <<pending, handed, loopVars>> /\ lapsed' = lapsed
        /\ Reacquire(d, e, s)
    BY <1>2, EventsAssumption DEF IInv, EventsOK, PutEnds
  <2>2. st[d] = "lending" /\ fut[d] = "none" /\ d \notin held /\ lapsed' = lapsed \ {d}
    BY <1>2, <2>1 DEF Event, Chain
  <2>. HIDE DEF d
  <2>3. PICK t \in {"running", "regain"} :
          /\ st' = [st EXCEPT ![e] = s, ![d] = t]
          /\ SemShape' /\ \A v \in Users \ {d} : Woken(v)
          /\ fut'[d] # "none" <=> t = "regain"
          /\ held' \subseteq Events
          /\ \A f \in Events \ {d} : f \in held' <=> f \in held
          /\ d \in held' <=> t = "running"
          /\ Unclaimed' + Cardinality(held') = Unclaimed + Cardinality(held)
    BY <2>1, <2>2, ReacquireEffect
  <2>4. Parent[e] = d
    BY DEF d
  <2>5. /\ s \in {"queued", "blocked", "withdrawn"}
        /\ t \in {"running", "lending", "regain"}
        /\ s # "blocked" /\ (s = "blocked" <=> t = "lending")
        /\ d \in Events /\ UNCHANGED <<pending, handed, loopVars>>
    BY <2>1, <2>3
  <2>. QED BY ZenonT(40), <2>2, <2>3, <2>4, <2>5, PublisherMoves
<1>. QED BY <1>1, <1>2

LEMMA BlockedPutKeeps ==
    ASSUME IInv, NEW e \in Events, PutResumes(e) \/ PutCancelled(e)
    PROVE  IInv'
<1>1. PICK s \in {"queued", "withdrawn"} :
        st[e] = "blocked" /\ Puts(e, s) /\ PutEnds(e, s)
    BY DEF PutResumes, PutCancelled, Puts
<1>. QED BY <1>1, PutEndsKeeps

-----------------------------------------------------------------------------
(* Dispatches.                                                              *)

(* A dispatch moves on and takes or returns the permit its state says. *)
LEMMA DispatchMoves ==
    ASSUME IInv, NEW d \in Events,
           NEW s \in {"regain", "running", "ended", "done"},
           st' = [st EXCEPT ![d] = s],
           st[d] \in {"regain", "running", "ended"},
           SemShape', fut'[d] # "none" <=> s = "regain",
           \A v \in Users \ {d} : Woken(v),
           UNCHANGED <<pipeVars, pending, handed, loopVars>>,
           held' \subseteq Events, lapsed' \subseteq Events,
           \A f \in Events \ {d} : /\ f \in held' <=> f \in held
                                   /\ f \in lapsed' <=> f \in lapsed,
           s \in {"running", "ended"} <=> d \in held' \/ d \in lapsed',
           ~(d \in held' /\ d \in lapsed'),
           Unclaimed' + Cardinality(held') = Unclaimed + Cardinality(held)
    PROVE  IInv'
<1>1. /\ Shape /\ ConsumersOK /\ EventsOK /\ SemShape /\ PermitsAddUp
      /\ st \in [Events -> EventState]
      /\ queue' = queue /\ unfinished' = unfinished /\ pending' = pending
      /\ \A f \in Events : Event(f) /\ Chain(f)
      /\ \A f, g \in Events : OnePut(f, g)
    BY DEF IInv, Shape, EventsOK, pipeVars
<1>2. ConsumersOK'
    BY <1>1, UsersSplit, ConsumersCalm
<1>3. Shape'
    BY <1>1, LoopShape DEF EventState, Shape
<1>4. ASSUME NEW f \in Events PROVE Event(f)'
    <2>1. Event(f) /\ Event(d) /\ (f # d => Woken(f)) /\ (Queued(f)' <=> Queued(f))
        BY <1>1, UsersSplit DEF Queued
    <2>2. st'[f] = "blocked" /\ Parent[f] # External => st'[Parent[f]] = "lending"
        BY <1>1, <2>1, EventsAssumption DEF Event
    <2>3. CASE f = d
        BY <1>1, <2>1, <2>2, <2>3 DEF Event
    <2>4. CASE f # d
        BY <1>1, <2>1, <2>2, <2>4 DEF Event, Woken
    <2>. QED BY <2>3, <2>4
<1>5. ASSUME NEW f \in Events PROVE Chain(f)'
    <2>1. Chain(f) /\ st'[f] = IF f = d THEN s ELSE st[f]
        BY <1>1
    <2>. QED BY <2>1 DEF Chain
<1>6. \A f, g \in Events : OnePut(f, g)'
    BY <1>1 DEF OnePut
<1>7. PermitsAddUp' /\ NoDuplicate' /\ UnfinishedMatchesQueue'
    BY <1>1, PermitsKept DEF EventsOK, NoDuplicate, IInv, UnfinishedMatchesQueue
<1>. QED BY <1>2, <1>3, <1>4, <1>5, <1>6, <1>7 DEF IInv, EventsOK

(* What a chain's step finds *)
LEMMA DispatchKeeps ==
    ASSUME IInv, NEW d \in Events,
           \/ Regained(d) \/ CancelRegain(d) \/ RegainCancelled(d)
           \/ DispatchEnds(d) \/ OnDispatchDone(d)
    PROVE  IInv'
<1>1. /\ Shape /\ SemShape /\ Event(d) /\ Chain(d) /\ d \in Users
      /\ st \in [Events -> EventState] /\ fut \in [Users -> FutState]
      /\ held \subseteq Events /\ lapsed \subseteq Events
      /\ Unclaimed \in Int /\ Cardinality(held) \in Nat
    BY UsersSplit, UserSetsFinite, HeldFinite
       DEF IInv, Shape, EventsOK, Unclaimed, SemShape
<1>2. CASE Regained(d)
  <2>1. /\ SemShape' /\ Unclaimed' = Unclaimed - 1
        /\ fut'[d] = "none" /\ \A v \in Users \ {d} : Woken(v)
    BY <1>1, <1>2, LeaveEffect, LeaveWakes DEF Regained
  <2>2. /\ UNCHANGED <<pipeVars, pending, handed, loopVars>>
        /\ st[d] = "regain" /\ st' = [st EXCEPT ![d] = "running"]
        /\ held' = held \cup {d} /\ lapsed' = lapsed
        /\ d \notin held /\ d \notin lapsed
    BY <1>1, <1>2 DEF Regained, Chain
  <2>3. Unclaimed' + Cardinality(held') = Unclaimed + Cardinality(held)
    <3>1. Cardinality(held') = Cardinality(held) + 1
      BY <1>1, <2>2, HeldChange
    <3>. QED BY <1>1, <2>1, <3>1
  <2>. QED BY <1>1, <2>1, <2>2, <2>3, DispatchMoves
<1>3. CASE CancelRegain(d)
  <2>1. /\ SemShape' /\ Unclaimed' = Unclaimed
        /\ fut'[d] # "none" /\ \A v \in Users \ {d} : Woken(v)
    <3>1. fut'[d] \in {"cancelled", "revoked"}
          /\ \A v \in Users \ {d} : fut'[v] = fut[v]
      BY <1>1, <1>3 DEF CancelRegain, CancelWait
    <3>. QED BY <1>1, <1>3, <3>1, CancelWaitEffect DEF CancelRegain, Woken
  <2>2. /\ UNCHANGED <<pipeVars, pending, handed, loopVars>>
        /\ st[d] = "regain" /\ st' = [st EXCEPT ![d] = "regain"]
        /\ held' = held /\ lapsed' = lapsed
        /\ d \notin held /\ d \notin lapsed
    BY <1>1, <1>3 DEF CancelRegain, Chain, chainVars
  <2>. QED BY <1>1, <2>1, <2>2, DispatchMoves
<1>4. CASE RegainCancelled(d)
  <2>1. /\ SemShape' /\ Unclaimed' = Unclaimed
        /\ fut'[d] = "none" /\ \A v \in Users \ {d} : Woken(v)
    <3>1. CASE fut[d] = "cancelled" /\ Leave(d, 0)
      BY <1>1, <3>1, LeaveEffect, LeaveWakes
    <3>2. CASE fut[d] = "revoked" /\ Leave(d, 1)
      BY <1>1, <3>2, LeaveEffect, LeaveWakes
    <3>. QED BY <1>4, <3>1, <3>2 DEF RegainCancelled
  <2>2. /\ UNCHANGED <<pipeVars, pending, handed, loopVars>>
        /\ st[d] = "regain" /\ st' = [st EXCEPT ![d] = "running"]
        /\ held' = held /\ lapsed' = lapsed \cup {d}
        /\ d \notin held /\ d \notin lapsed
    BY <1>1, <1>4 DEF RegainCancelled, Chain
  <2>. QED BY <1>1, <2>1, <2>2, DispatchMoves
<1>5. CASE DispatchEnds(d)
  <2>1. fut' = fut /\ UNCHANGED semVars /\ st[d] = "running" /\ fut[d] = "none"
    BY <1>1, <1>5 DEF DispatchEnds, semVars, Event
  <2>2. SemShape' /\ Unclaimed' = Unclaimed /\ \A v \in Users : Woken(v)
    BY <1>1, <2>1, SemaphoreStutter DEF Woken
  <2>3. /\ UNCHANGED <<pipeVars, pending, handed, loopVars>>
        /\ st' = [st EXCEPT ![d] = "ended"]
        /\ held' = held /\ lapsed' = lapsed
    BY <1>5 DEF DispatchEnds, chainVars
  <2>. QED BY <1>1, <2>1, <2>2, <2>3, DispatchMoves DEF Chain
<1>6. CASE OnDispatchDone(d)
  <2>1. st[d] = "ended" /\ fut[d] = "none"
    BY <1>1, <1>6 DEF OnDispatchDone, Event
  <2>2. /\ SemShape' /\ \A v \in Users : Woken(v)
        /\ Unclaimed' + Cardinality(held') = Unclaimed + Cardinality(held)
    <3>1. CASE d \in held
      <4>1. SemShape' /\ Unclaimed' = Unclaimed + 1 /\ \A v \in Users : Woken(v)
        BY <1>1, <1>6, <3>1, ReleaseEffect, ReleaseWakes DEF OnDispatchDone, AllWoken
      <4>2. Cardinality(held') = Cardinality(held) - 1
        BY <1>1, <1>6, <3>1, HeldChange DEF OnDispatchDone
      <4>. QED BY <1>1, <4>1, <4>2
    <3>2. CASE d \notin held
      <4>1. UNCHANGED semVars /\ fut' = fut /\ held' = held
        BY <1>6, <3>2 DEF OnDispatchDone, semVars
      <4>. QED BY <1>1, <4>1, SemaphoreStutter DEF Woken
    <3>. QED BY <3>1, <3>2
  <2>3. /\ UNCHANGED <<pipeVars, pending, handed, loopVars>>
        /\ st' = [st EXCEPT ![d] = "done"] /\ fut'[d] = "none"
        /\ held' = held \ {d} /\ lapsed' = lapsed \ {d}
    BY <1>1, <1>6, <2>1, <2>2 DEF OnDispatchDone, Woken
  <2>. QED BY <1>1, <2>1, <2>2, <2>3, DispatchMoves
<1>. QED BY <1>2, <1>3, <1>4, <1>5, <1>6

(* clear() acknowledges what it removes and leaves the pending event. *)
LEMMA ClearKeeps ==
    ASSUME IInv, Clear
    PROVE  IInv'
<1>1. /\ Shape /\ ConsumersOK /\ EventsOK /\ SemShape
      /\ st \in [Events -> EventState] /\ queue \in Seq(Events)
      /\ UNCHANGED <<semVars, pending, handed, loopVars>>
      /\ held' = held /\ lapsed' = lapsed
      /\ queue' = << >> /\ unfinished' = unfinished - Len(queue)
      /\ st' = [e \in Events |-> IF st[e] = "queued" THEN "dropped" ELSE st[e]]
      /\ \A f \in Events : Event(f) /\ Chain(f)
      /\ \A f, g \in Events : OnePut(f, g)
    BY DEF Clear, IInv, Shape, EventsOK, chainVars
<1>2. SemShape' /\ Unclaimed' = Unclaimed /\ fut' = fut
    BY <1>1, SemaphoreStutter DEF semVars
<1>3. ConsumersOK'
    BY <1>1, <1>2, ConsumersCalm DEF Woken
<1>4. Len(queue') = 0 /\ Len(queue) \in Nat /\ queue' \in Seq(Events)
    BY <1>1
<1>5. unfinished' \in Nat /\ UnfinishedMatchesQueue'
    <2>1. unfinished = Len(queue) + (IF pending = None THEN 0 ELSE 1)
        BY DEF IInv, UnfinishedMatchesQueue
    <2>. QED BY <1>1, <1>4, <2>1 DEF UnfinishedMatchesQueue
<1>6. Shape'
    BY <1>1, <1>2, <1>4, <1>5, EventsAssumption DEF Shape, EventState, loopVars
<1>7. ASSUME NEW f \in Events PROVE Event(f)'
    <2>1. ~Queued(f)' /\ Event(f) /\ pending' = pending
        BY <1>1, <1>4 DEF Queued
    <2>2. \A g \in Events : st'[g] = IF st[g] = "queued" THEN "dropped" ELSE st[g]
        BY <1>1
    <2>3. Parent[f] \in Events \cup {External}
        BY EventsAssumption
    <2>. QED BY <1>2, <2>1, <2>2, <2>3 DEF Event
<1>8. (\A f, g \in Events : OnePut(f, g)') /\ NoDuplicate'
    BY <1>1, <1>4 DEF OnePut, NoDuplicate
<1>9. (\A f \in Events : Chain(f)') /\ PermitsAddUp'
    BY <1>1, <1>2, PermitsKept DEF IInv, Chain
<1>. QED BY <1>3, <1>5, <1>6, <1>7, <1>8, <1>9 DEF IInv, EventsOK

-----------------------------------------------------------------------------
(* The consumer.                                                            *)

(* A consumer starts or stops running without touching anything else. *)
LEMMA ConsumerTurns ==
    ASSUME IInv, NEW k \in Consumers, ConsumerRuns(k) \/ ConsumerSleeps(k)
    PROVE  IInv'
<1>1. /\ Shape /\ ConsumersOK /\ EventsOK /\ at \in [Consumers -> ConsumerState]
      /\ UNCHANGED <<semVars, pipeVars, pending, st, handed, chainVars, cancelled, current,
                     started, stops>>
      /\ \A c \in Consumers : Consumer(c)
      /\ queue' = queue /\ unfinished' = unfinished /\ fut' = fut
    BY DEF IInv, Shape, ConsumerRuns, ConsumerSleeps, ConsumersOK, pipeVars, semVars
<1>2. PICK a \in {"loop", "get"} : at' = [at EXCEPT ![k] = a]
    BY DEF ConsumerRuns, ConsumerSleeps, Enter
<1>3. at[k] \in {"created", "get", "loop"} /\ ~cancelled[k]
    BY <1>1 DEF ConsumerRuns, ConsumerSleeps, Consumer
<1>4. SemShape' /\ Unclaimed' = Unclaimed
    BY <1>1, SemaphoreStutter DEF Shape
<1>5. EventsOK' /\ held' = held
    BY <1>1, EventsCalm DEF Woken
<1>6. ASSUME NEW c \in Consumers PROVE Consumer(c)'
    <2>1. Consumer(c) /\ Consumer(k)
        BY <1>1
    <2>. QED BY <1>1, <1>2, <1>3, <2>1 DEF Consumer, Live
<1>7. ConsumersOK'
    BY <1>1, <1>2, <1>6 DEF ConsumersOK, PendingAwaitsPermit
<1>8. Shape'
    BY <1>1, <1>2, <1>4 DEF Shape, ConsumerState, chainVars
<1>9. UnfinishedMatchesQueue' /\ PermitsAddUp'
    BY <1>1, <1>4, <1>5, PermitsKept DEF IInv, UnfinishedMatchesQueue, Shape
<1>. QED BY <1>5, <1>7, <1>8, <1>9 DEF IInv

(* The consumer takes the oldest event, and keeps or drops it. *)
LEMMA DequeueKeeps ==
    ASSUME IInv, NEW k \in Consumers, Dequeue(k)
    PROVE  IInv'
<1>. DEFINE h == Head(queue)
<1>1. /\ Shape /\ ConsumersOK /\ EventsOK /\ at \in [Consumers -> ConsumerState]
      /\ st \in [Events -> EventState]
      /\ UNCHANGED <<semVars, handed, cancelled, current, started, stops>>
      /\ \A c \in Consumers : Consumer(c)
      /\ \A f \in Events : Event(f) /\ Chain(f)
      /\ \A f, g \in Events : OnePut(f, g)
      /\ held' = held /\ lapsed' = lapsed
      /\ fut' = fut /\ queue # << >> /\ queue' = Tail(queue)
      /\ at[k] = "loop" /\ pending = None /\ ~cancelled[k] /\ current = k
    BY DEF IInv, Shape, Dequeue, ConsumersOK, Consumer, Live, EventsOK, semVars,
           chainVars
<1>2. SemShape' /\ Unclaimed' = Unclaimed
    BY <1>1, SemaphoreStutter DEF Shape
<1>3. /\ h \in Events /\ Queued(h)
      /\ queue' \in Seq(Events) /\ Len(queue') <= QueueSize
      /\ Len(queue') = Len(queue) - 1 /\ Len(queue) \in Nat \ {0}
      /\ \A f \in Events : Queued(f)' <=> Queued(f) /\ f # h
      /\ NoDuplicate'
    BY <1>1, TakeRemoves DEF EventsOK
<1>4. st[h] = "queued" /\ h # None /\ unfinished = Len(queue)
    <2>1. h # None /\ Len(queue) \in Nat
        BY <1>3, EventsAssumption
    <2>. QED BY <1>1, <1>3, <2>1 DEF IInv, UnfinishedMatchesQueue, Event
<1>5. PICK s \in {"pending", "dropped"}, a \in {"loop", "ended"} :
        /\ st' = [st EXCEPT ![h] = s]
        /\ at' = [at EXCEPT ![k] = a]
        /\ \/ s = "pending" /\ pending' = h /\ unfinished' = unfinished
           \/ s = "dropped" /\ pending' = None /\ unfinished' = unfinished - 1
    <2>1. at = [at EXCEPT ![k] = "loop"]
        BY <1>1
    <2>. QED BY <1>1, <2>1 DEF Dequeue, GoOn, Enter
<1>6. ASSUME NEW c \in Consumers PROVE Consumer(c)'
    <2>1. Consumer(c)
        BY <1>1
    <2>. QED BY <1>1, <1>5, <2>1 DEF Consumer, Live
<1>7. ConsumersOK'
    <2>1. \A c \in Consumers : at[c] = "acquire" /\ ~cancelled[c] => c = k
        BY <1>1 DEF Consumer, Live
    <2>. QED BY <1>1, <1>5, <1>6, <2>1 DEF ConsumersOK, PendingAwaitsPermit
<1>8. ASSUME NEW f \in Events PROVE Event(f)'
    <2>1. Event(f) /\ f # None
        BY <1>1, EventsAssumption
    <2>2. st'[f] = "blocked" /\ Parent[f] # External => st'[Parent[f]] = "lending"
        BY <1>1, <1>4, <1>5, <2>1, EventsAssumption DEF Event
    <2>. QED BY <1>1, <1>3, <1>4, <1>5, <2>1, <2>2 DEF Event
<1>9. \A f, g \in Events : OnePut(f, g)'
    BY <1>1, <1>5 DEF OnePut
<1>10. unfinished' \in Nat /\ UnfinishedMatchesQueue'
    BY <1>3, <1>4, <1>5 DEF UnfinishedMatchesQueue
<1>11. Shape'
    BY <1>1, <1>2, <1>3, <1>5, <1>10 DEF Shape, EventState, ConsumerState
<1>12. (\A f \in Events : Chain(f)') /\ PermitsAddUp'
    BY <1>1, <1>2, <1>4, <1>5, PermitsKept DEF IInv, Chain
<1>. QED BY <1>3, <1>7, <1>8, <1>9, <1>10, <1>11, <1>12 DEF IInv, EventsOK

(* The consumer queues up for a permit with its event in its hand. *)
LEMMA AwaitPermitKeeps ==
    ASSUME IInv, NEW k \in Consumers, AwaitPermit(k)
    PROVE  IInv'
<1>1. /\ Shape /\ ConsumersOK /\ EventsOK /\ at \in [Consumers -> ConsumerState]
      /\ UNCHANGED <<pipeVars, pending, st, handed, chainVars, cancelled, current, started,
                     stops>>
      /\ queue' = queue /\ unfinished' = unfinished
      /\ \A c \in Consumers : Consumer(c)
      /\ at' = [at EXCEPT ![k] = "acquire"] /\ at[k] = "loop" /\ pending # None
      /\ ~cancelled[k] /\ k \in Users
    BY UsersSplit
       DEF IInv, Shape, AwaitPermit, Enter, ConsumersOK, Consumer, pipeVars
<1>2. /\ SemShape' /\ Unclaimed' = Unclaimed /\ fut'[k] = "pending"
      /\ \A v \in Users \ {k} : Woken(v)
    BY <1>1, EnqueueEffect, EnqueueWakes DEF AwaitPermit, Shape
<1>3. EventsOK' /\ held' = held
    BY <1>1, <1>2, UsersSplit, EventsCalm
<1>4. ASSUME NEW c \in Consumers PROVE Consumer(c)'
    <2>1. Consumer(c) /\ (c # k => Woken(c))
        BY <1>1, <1>2, UsersSplit
    <2>. QED BY <1>1, <1>2, <2>1 DEF Consumer, Live, Woken
<1>5. ConsumersOK'
    BY <1>1, <1>4 DEF ConsumersOK, PendingAwaitsPermit
<1>6. Shape'
    BY <1>1, <1>2 DEF Shape, ConsumerState, chainVars
<1>7. UnfinishedMatchesQueue' /\ PermitsAddUp'
    BY <1>1, <1>2, <1>3, PermitsKept DEF IInv, UnfinishedMatchesQueue, Shape
<1>. QED BY <1>3, <1>5, <1>6, <1>7 DEF IInv

(* The consumer hands its event over with a permit, or drops it without. *)
LEMMA LaunchKeeps ==
    ASSUME IInv, NEW k \in Consumers, Launch(k)
    PROVE  IInv'
<1>. DEFINE p == pending
<1>1. /\ Shape /\ ConsumersOK /\ EventsOK /\ at \in [Consumers -> ConsumerState]
      /\ st \in [Events -> EventState] /\ SemShape /\ k \in Users
      /\ UNCHANGED <<queue, cancelled, current, started, stops>>
      /\ pending' = None /\ unfinished' = unfinished - 1
      /\ \A c \in Consumers : Consumer(c)
      /\ \A f \in Events : Event(f) /\ Chain(f)
      /\ \A f, g \in Events : OnePut(f, g)
      /\ held \subseteq Events /\ lapsed \subseteq Events /\ lapsed' = lapsed
    BY UsersSplit DEF IInv, Shape, Launch, ConsumersOK, EventsOK
<1>2. ~cancelled[k] /\ current = k /\ p # None
    <2>1. Consumer(k)
        BY <1>1
    <2>2. CASE at[k] = "loop" /\ pending # None
        BY <2>1, <2>2 DEF Consumer, Live
    <2>3. CASE at[k] = "acquire" /\ fut[k] = "granted"
        BY <1>1, <2>1, <2>3 DEF Consumer, Live, ConsumersOK, PendingAwaitsPermit
    <2>. QED BY <2>2, <2>3 DEF Launch
<1>3. /\ p \in Events /\ st[p] = "pending" /\ ~Queued(p) /\ fut[p] = "none"
      /\ p \notin held /\ p \notin lapsed
    BY <1>1, <1>2 DEF Shape, Event, Chain
<1>4. PICK s \in {"running", "dropped"}, a \in {"loop", "ended"} :
        /\ st' = [st EXCEPT ![p] = s]
        /\ at' = [at EXCEPT ![k] = a]
        /\ handed' = IF s = "running" THEN Append(handed, p) ELSE handed
        /\ held' = IF s = "running" THEN held \cup {p} ELSE held
        /\ \/ at[k] = "loop" /\ s = "running" /\ AcquireNow
           \/ at[k] = "loop" /\ s = "dropped" /\ UNCHANGED semVars
           \/ /\ at[k] = "acquire" /\ fut[k] = "granted" /\ s = "running"
              /\ Leave(k, 0)
           \/ /\ at[k] = "acquire" /\ fut[k] = "granted" /\ s = "dropped"
              /\ Leave(k, 1)
    BY DEF Launch, CreateDispatch, CreateFails, GoOn, Enter
<1>5. /\ SemShape' /\ fut'[k] = "none" /\ \A v \in Users \ {k} : Woken(v)
      /\ Unclaimed' = IF s = "running" THEN Unclaimed - 1 ELSE Unclaimed
    <2>0. Unclaimed \in Int /\ Consumer(k)
        BY <1>1, UserSetsFinite DEF Unclaimed, SemShape
    <2>1. CASE at[k] = "loop" /\ s = "running" /\ AcquireNow
        <3>1. fut' = fut
            BY <2>1 DEF AcquireNow
        <3>. QED BY <1>1, <2>0, <2>1, <3>1, AcquireNowEffect DEF Woken, Consumer
    <2>2. CASE at[k] = "loop" /\ s = "dropped" /\ UNCHANGED semVars
        <3>1. fut' = fut
            BY <2>2 DEF semVars
        <3>. QED BY <1>1, <2>0, <2>2, <3>1, SemaphoreStutter DEF Woken, Consumer
    <2>3. CASE at[k] = "acquire" /\ fut[k] = "granted" /\ s = "running" /\ Leave(k, 0)
        BY <1>1, <2>0, <2>3, LeaveEffect, LeaveWakes
    <2>4. CASE at[k] = "acquire" /\ fut[k] = "granted" /\ s = "dropped" /\ Leave(k, 1)
        BY <1>1, <2>0, <2>4, LeaveEffect, LeaveWakes
    <2>. QED BY <1>4, <2>1, <2>2, <2>3, <2>4
<1>6. ASSUME NEW c \in Consumers PROVE Consumer(c)'
    <2>1. Consumer(c) /\ (c # k => Woken(c))
        BY <1>1, <1>5, UsersSplit
    <2>. QED BY <1>1, <1>2, <1>4, <1>5, <2>1 DEF Consumer, Live, Woken
<1>7. ConsumersOK'
    <2>1. \A c \in Consumers : at[c] = "acquire" /\ ~cancelled[c] => c = k
        BY <1>1, <1>2 DEF Consumer, Live
    <2>. QED BY <1>1, <1>4, <1>6, <2>1 DEF ConsumersOK, PendingAwaitsPermit
<1>8. ASSUME NEW f \in Events PROVE Event(f)'
    <2>1. Event(f) /\ f # None /\ Woken(f) /\ (Queued(f)' <=> Queued(f))
        BY <1>1, <1>5, UsersSplit, EventsAssumption DEF Queued
    <2>2. st'[f] = "blocked" /\ Parent[f] # External => st'[Parent[f]] = "lending"
        BY <1>1, <1>3, <1>4, <2>1, EventsAssumption DEF Event
    <2>. QED BY <1>1, <1>3, <1>4, <2>1, <2>2 DEF Event, Woken
<1>9. (\A f, g \in Events : OnePut(f, g)') /\ NoDuplicate'
    BY <1>1, <1>3, <1>4 DEF OnePut, NoDuplicate, EventsOK
<1>10. unfinished' \in Nat /\ UnfinishedMatchesQueue'
    <2>1. Len(queue) \in Nat /\ unfinished = Len(queue) + 1
        BY <1>1, <1>2 DEF Shape, IInv, UnfinishedMatchesQueue
    <2>. QED BY <1>1, <2>1 DEF UnfinishedMatchesQueue
<1>11. Shape'
    <2>1. handed' \in Seq(Events)
        BY <1>1, <1>3, <1>4 DEF Shape
    <2>. QED BY <1>1, <1>3, <1>4, <1>5, <1>10, <2>1 DEF Shape, EventState, ConsumerState
<1>12. PermitsAddUp'
    <2>1. Unclaimed \in Int /\ Cardinality(held) \in Nat
        BY <1>1, UserSetsFinite, HeldFinite DEF SemShape, Unclaimed
    <2>2. Cardinality(held') = Cardinality(held) + IF s = "running" THEN 1 ELSE 0
        BY <1>1, <1>3, <1>4, <2>1, HeldChange
    <2>3. Unclaimed' + Cardinality(held') = Unclaimed + Cardinality(held)
        BY <1>5, <2>1, <2>2
    <2>. QED BY <2>3, PermitsKept DEF IInv
<1>13. ASSUME NEW f \in Events PROVE Chain(f)'
    <2>1. Chain(f) /\ st'[f] = IF f = p THEN s ELSE st[f]
        BY <1>1, <1>4
    <2>. QED BY <1>1, <1>3, <1>4, <2>1 DEF Chain
<1>. QED
    BY <1>7, <1>8, <1>9, <1>10, <1>11, <1>12, <1>13 DEF IInv, EventsOK

(* A cancelled consumer ends, returns a permit granted too late and leaves  *)
(* its event to its successor.                                              *)
LEMMA ConsumerCancelledKeeps ==
    ASSUME IInv, NEW k \in Consumers, ConsumerCancelled(k)
    PROVE  IInv'
<1>1. /\ Shape /\ ConsumersOK /\ EventsOK /\ at \in [Consumers -> ConsumerState]
      /\ UNCHANGED <<pipeVars, pending, st, handed, chainVars, cancelled, current, started,
                     stops>>
      /\ queue' = queue /\ unfinished' = unfinished
      /\ \A c \in Consumers : Consumer(c)
      /\ at' = [at EXCEPT ![k] = "ended"] /\ cancelled[k] /\ k \in Users
      /\ SemShape
    BY UsersSplit
       DEF IInv, Shape, ConsumerCancelled, Enter, ConsumersOK, pipeVars
<1>2. /\ SemShape' /\ Unclaimed' = Unclaimed /\ fut'[k] = "none"
      /\ \A v \in Users \ {k} : Woken(v)
    <2>0. Unclaimed \in Int /\ Consumer(k)
        BY <1>1, UserSetsFinite DEF Unclaimed, SemShape
    <2>1. CASE at[k] \in {"created", "get"} /\ UNCHANGED semVars
        <3>1. fut' = fut
            BY <2>1 DEF semVars
        <3>. QED BY <1>1, <2>0, <2>1, <3>1, SemaphoreStutter DEF Woken, Consumer
    <2>2. CASE at[k] = "acquire" /\ fut[k] = "cancelled" /\ Leave(k, 0)
        BY <1>1, <2>0, <2>2, LeaveEffect, LeaveWakes
    <2>3. CASE at[k] = "acquire" /\ fut[k] = "revoked" /\ Leave(k, 1)
        BY <1>1, <2>0, <2>3, LeaveEffect, LeaveWakes
    <2>. QED BY <2>1, <2>2, <2>3 DEF ConsumerCancelled
<1>3. EventsOK' /\ held' = held
    BY <1>1, <1>2, UsersSplit, EventsCalm
<1>4. ASSUME NEW c \in Consumers PROVE Consumer(c)'
    <2>1. Consumer(c) /\ (c # k => Woken(c))
        BY <1>1, <1>2, UsersSplit
    <2>. QED BY <1>1, <1>2, <2>1 DEF Consumer, Live, Woken
<1>5. ConsumersOK'
    BY <1>1, <1>4 DEF ConsumersOK, PendingAwaitsPermit
<1>6. Shape'
    BY <1>1, <1>2 DEF Shape, ConsumerState, chainVars
<1>7. UnfinishedMatchesQueue' /\ PermitsAddUp'
    BY <1>1, <1>2, <1>3, PermitsKept DEF IInv, UnfinishedMatchesQueue
<1>. QED BY <1>3, <1>5, <1>6, <1>7 DEF IInv

(* A consumer that has ended resets the loop only if it is the current one. *)
LEMMA OnConsumerDoneKeeps ==
    ASSUME IInv, NEW k \in Consumers, OnConsumerDone(k)
    PROVE  IInv'
<1>1. /\ Shape /\ ConsumersOK /\ EventsOK /\ at \in [Consumers -> ConsumerState]
      /\ cancelled \in [Consumers -> BOOLEAN]
      /\ UNCHANGED <<semVars, pipeVars, pending, st, handed, chainVars, stops>>
      /\ queue' = queue /\ unfinished' = unfinished /\ fut' = fut
      /\ \A c \in Consumers : Consumer(c)
      /\ at' = [at EXCEPT ![k] = "gone"] /\ at[k] = "ended"
      /\ cancelled' = [cancelled EXCEPT ![k] = FALSE]
      /\ \/ current = k /\ current' = None /\ started' = FALSE
         \/ current # k /\ current' = current /\ started' = started
    BY DEF IInv, Shape, OnConsumerDone, Enter, ConsumersOK, pipeVars, semVars
<1>2. SemShape' /\ Unclaimed' = Unclaimed
    BY <1>1, SemaphoreStutter DEF Shape
<1>3. EventsOK' /\ held' = held
    BY <1>1, EventsCalm DEF Woken
<1>4. ASSUME NEW c \in Consumers PROVE Consumer(c)'
    <2>1. Consumer(c) /\ c # None
        BY <1>1, EventsAssumption
    <2>. QED BY <1>1, <2>1 DEF Consumer, Live
<1>5. ConsumersOK'
    BY <1>1, <1>4 DEF ConsumersOK, PendingAwaitsPermit
<1>6. Shape'
    BY <1>1, <1>2 DEF Shape, ConsumerState, chainVars
<1>7. UnfinishedMatchesQueue' /\ PermitsAddUp'
    BY <1>1, <1>2, <1>3, PermitsKept DEF IInv, UnfinishedMatchesQueue, Shape
<1>. QED BY <1>3, <1>5, <1>6, <1>7 DEF IInv

-----------------------------------------------------------------------------
(* start() and stop().                                                      *)

(* No consumer lives when start() creates one. *)
LEMMA StartKeeps ==
    ASSUME IInv, Start
    PROVE  IInv'
<1>1. PICK k \in Consumers :
        at[k] = "gone" /\ at' = [at EXCEPT ![k] = "created"] /\ current' = k
    BY DEF Start, Enter
<1>2. /\ Shape /\ ConsumersOK /\ EventsOK /\ at \in [Consumers -> ConsumerState]
      /\ UNCHANGED <<semVars, pipeVars, pending, st, handed, chainVars, cancelled, stops>>
      /\ queue' = queue /\ unfinished' = unfinished /\ fut' = fut
      /\ \A c \in Consumers : Consumer(c)
      /\ current = None /\ started' = TRUE /\ k # None /\ ~cancelled[k]
    BY <1>1, EventsAssumption
       DEF IInv, Shape, Start, ConsumersOK, Consumer, pipeVars, semVars
<1>3. SemShape' /\ Unclaimed' = Unclaimed
    BY <1>2, SemaphoreStutter DEF Shape
<1>4. EventsOK' /\ held' = held
    BY <1>2, EventsCalm DEF Woken
<1>5. ASSUME NEW c \in Consumers PROVE Consumer(c)'
    <2>1. Consumer(c) /\ c # None
        BY <1>2, EventsAssumption
    <2>. QED BY <1>1, <1>2, <2>1 DEF Consumer, Live
<1>6. ConsumersOK'
    BY <1>1, <1>2, <1>5 DEF ConsumersOK, PendingAwaitsPermit
<1>7. Shape'
    BY <1>1, <1>2, <1>3 DEF Shape, ConsumerState, chainVars
<1>8. UnfinishedMatchesQueue' /\ PermitsAddUp'
    BY <1>2, <1>3, <1>4, PermitsKept DEF IInv, UnfinishedMatchesQueue, Shape
<1>. QED BY <1>4, <1>6, <1>7, <1>8 DEF IInv

(* stop() cancels the current consumer at its await and forgets it. *)
LEMMA StopKeeps ==
    ASSUME IInv, Stop, Yielded
    PROVE  IInv'
<1>. DEFINE k == current
<1>1. /\ Shape /\ ConsumersOK /\ EventsOK /\ at \in [Consumers -> ConsumerState]
      /\ cancelled \in [Consumers -> BOOLEAN]
      /\ UNCHANGED <<pipeVars, pending, st, handed, chainVars, at>>
      /\ queue' = queue /\ unfinished' = unfinished
      /\ \A c \in Consumers : Consumer(c)
      /\ k \in Consumers /\ k \in Users /\ at[k] # "loop" /\ SemShape
      /\ current' = None /\ started' = FALSE /\ stops' \in 0..MaxStops
      /\ cancelled' = [cancelled EXCEPT ![k] = at[k] # "ended"]
    BY UsersSplit, EventsAssumption
       DEF IInv, Shape, Stop, ConsumersOK, Yielded, pipeVars
<1>2. Consumer(k) /\ at[k] # "gone" /\ ~cancelled[k]
    BY <1>1 DEF Consumer
<1>3. /\ SemShape' /\ Unclaimed' = Unclaimed
      /\ \A v \in Users \ {k} : Woken(v)
      /\ IF at[k] = "acquire" THEN fut'[k] \in {"cancelled", "revoked"}
                              ELSE fut'[k] = "none"
    <2>1. CASE at[k] = "acquire" /\ CancelWait(k)
        <3>1. fut'[k] \in {"cancelled", "revoked"}
              /\ \A v \in Users \ {k} : fut'[v] = fut[v]
            BY <1>1, <2>1 DEF CancelWait, SemShape
        <3>. QED BY <1>1, <2>1, <3>1, CancelWaitEffect DEF Woken
    <2>2. CASE at[k] # "acquire" /\ UNCHANGED semVars
        <3>1. fut' = fut
            BY <2>2 DEF semVars
        <3>. QED BY <1>1, <1>2, <2>2, <3>1, SemaphoreStutter DEF Woken, Consumer
    <2>. QED BY <2>1, <2>2 DEF Stop
<1>4. EventsOK' /\ held' = held
    BY <1>1, <1>3, UsersSplit, EventsCalm
<1>5. ASSUME NEW c \in Consumers PROVE Consumer(c)'
    <2>1. Consumer(c) /\ (c # k => Woken(c)) /\ c # None
        BY <1>1, <1>3, UsersSplit, EventsAssumption
    <2>2. at[k] \in {"created", "get", "acquire", "ended"}
        BY <1>1, <1>2 DEF ConsumerState
    <2>3. CASE c = k
        <3>1. at'[k] = at[k] /\ cancelled'[k] = (at[k] # "ended")
            BY <1>1
        <3>. QED BY <1>1, <1>3, <2>1, <2>2, <2>3, <3>1 DEF Consumer, Live
    <2>4. CASE c # k
        <3>1. at'[c] = at[c] /\ cancelled'[c] = cancelled[c]
            BY <1>1, <2>4
        <3>. QED BY <1>1, <2>1, <2>4, <3>1 DEF Consumer, Live, Woken
    <2>. QED BY <2>3, <2>4
<1>6. ConsumersOK'
    <2>1. \A c \in Consumers : at'[c] = "acquire" /\ ~cancelled'[c] => pending' # None
        BY <1>1, <1>2 DEF ConsumersOK, PendingAwaitsPermit
    <2>. QED BY <1>1, <1>5, <2>1 DEF ConsumersOK, PendingAwaitsPermit
<1>7. Shape'
    BY <1>1, <1>3 DEF Shape, chainVars
<1>8. UnfinishedMatchesQueue' /\ PermitsAddUp'
    BY <1>1, <1>3, <1>4, PermitsKept DEF IInv, UnfinishedMatchesQueue
<1>. QED BY <1>4, <1>6, <1>7, <1>8 DEF IInv

-----------------------------------------------------------------------------
(* The invariant.                                                           *)

LEMMA InitHolds == Init => IInv
<1>. SUFFICES ASSUME Init PROVE IInv
    OBVIOUS
<1>1. /\ Shape /\ value = Permits /\ Permits \in Nat
      /\ \A u \in Users : fut[u] = "none"
    <2>1. SemShape /\ value = Permits /\ Permits \in Nat
          /\ \A u \in Users : fut[u] = "none"
        BY PermitsAssumption DEF Init, SemInit, SemShape, FutState
    <2>2. /\ queue \in Seq(Events) /\ Len(queue) = 0 /\ handed \in Seq(Events)
          /\ held \subseteq Events /\ lapsed \subseteq Events
        BY DEF Init
    <2>3. QueueSize \in Nat /\ MaxStops \in Nat
        BY EventsAssumption
    <2>4. /\ st \in [Events -> EventState]
          /\ at \in [Consumers -> ConsumerState]
          /\ cancelled \in [Consumers -> BOOLEAN]
        BY DEF Init, EventState, ConsumerState
    <2>5. unfinished = 0 /\ pending = None /\ current = None /\ stops = 0
        BY DEF Init
    <2>6. started \in BOOLEAN
        BY DEF Init
    <2>7. Len(queue) <= QueueSize /\ stops \in 0..MaxStops /\ unfinished \in Nat
        BY <2>2, <2>3, <2>5
    <2>. QED BY <2>1, <2>2, <2>4, <2>5, <2>6, <2>7 DEF Shape
<1>2. ConsumersOK
    BY <1>1, UsersSplit, EventsAssumption
       DEF Init, ConsumersOK, Consumer, Live, PendingAwaitsPermit
<1>3. EventsOK
    <2>1. \A e \in Events : ~Queued(e) /\ st[e] = "new" /\ pending # e
        BY EventsAssumption DEF Init, Queued
    <2>. QED
        BY <1>1, <2>1, UsersSplit
           DEF Init, EventsOK, Event, Chain, OnePut, NoDuplicate
<1>4. UnfinishedMatchesQueue
    BY DEF Init, UnfinishedMatchesQueue
<1>5. PermitsAddUp
    <2>1. Reserved = {} /\ held = {}
        BY <1>1 DEF Init, Reserved
    <2>. QED BY <1>1, <2>1, FS_EmptySet DEF PermitsAddUp, Unclaimed
<1>. QED BY <1>1, <1>2, <1>3, <1>4, <1>5 DEF IInv

LEMMA StutterKeeps ==
    ASSUME IInv, UNCHANGED vars
    PROVE  IInv'
<1>1. /\ UNCHANGED <<queue, pending, st, chainVars>> /\ fut' = fut /\ UNCHANGED semVars
      /\ UNCHANGED <<loopVars, pending>> /\ UNCHANGED <<pipeVars, handed>>
      /\ Shape /\ ConsumersOK /\ EventsOK /\ unfinished' = unfinished
    BY DEF IInv, vars, semVars, pipeVars
<1>2. SemShape' /\ Unclaimed' = Unclaimed
    BY <1>1, SemaphoreStutter DEF Shape
<1>3. ConsumersOK' /\ EventsOK' /\ held' = held
    BY <1>1, ConsumersCalm, EventsCalm DEF Woken
<1>4. Shape'
    BY <1>1, <1>2, LoopShape DEF Shape, chainVars
<1>5. UnfinishedMatchesQueue' /\ PermitsAddUp'
    BY <1>1, <1>2, <1>3, PermitsKept DEF IInv, UnfinishedMatchesQueue, Shape
<1>. QED BY <1>3, <1>4, <1>5 DEF IInv

LEMMA LoopStepKeeps ==
    ASSUME IInv, [LoopNext \/ (Yielded /\ Start)]_vars
    PROVE  IInv'
<1>1. ASSUME NEW k \in Consumers, ConsumerStep(k) PROVE IInv'
    BY <1>1, ConsumerTurns, DequeueKeeps, AwaitPermitKeeps, LaunchKeeps
       DEF ConsumerStep
<1>2. ASSUME NEW k \in Consumers, ConsumerWakes(k) PROVE IInv'
    BY <1>2, ConsumerTurns, LaunchKeeps, ConsumerCancelledKeeps,
       OnConsumerDoneKeeps DEF ConsumerWakes
<1>3. ASSUME NEW e \in Events,
             \/ PublishExternal(e) \/ PutResumes(e)
             \/ HandlerStep(e) \/ Cancellation(e)
      PROVE  IInv'
    BY <1>3, PublishExternalKeeps, BlockedPutKeeps, PublishFromKeeps, DispatchKeeps
       DEF HandlerStep, Cancellation
<1>. QED
    BY <1>1, <1>2, <1>3, ClearKeeps, StopKeeps, StartKeeps, StutterKeeps
       DEF LoopNext

LEMMA CoreStepKeeps ==
    ASSUME IInv, [Next]_coreVars
    PROVE  IInv'
<1>1. [LoopNext \/ (Yielded /\ Start)]_vars
    BY DEF Next, coreVars, Getter, AsyncGetter, StartTaskRuns, StartTaskFails,
           StartCore
<1>. QED BY <1>1, LoopStepKeeps

THEOREM LoopInvariant == Spec => []IInv
<1>1. CoreInit => IInv
    BY InitHolds DEF CoreInit
<1>. QED BY <1>1, CoreStepKeeps, PTL DEF Spec

(* The variables keep their types, the count of free permits its bound. *)
THEOREM LoopTypes == Spec => []TypeOK
<1>1. ASSUME IInv PROVE TypeOK
    <2>1. Shape /\ value \in Nat /\ Permits \in Nat
          /\ value + Cardinality(Reserved) + Cardinality(held) = Permits
        BY <1>1, PermitsAssumption
           DEF IInv, Shape, SemShape, PermitsAddUp, Unclaimed
    <2>2. value \in 0..Permits
        BY <2>1, UserSetsFinite, HeldFinite DEF Shape
    <2>. QED BY <2>1, <2>2 DEF TypeOK, Shape, SemShape, SemTypeOK
<1>. QED BY <1>1, LoopInvariant, PTL

(* However start() and stop() overlap, no consumer but the current one of a *)
(* started loop consumes (event_loop.py: _on_consumer_done, start, stop).   *)
THEOREM OneConsumer == Spec => []OnlyCurrentConsumes
<1>1. ASSUME IInv PROVE OnlyCurrentConsumes
    <2>1. \A k \in Consumers : Consumer(k) /\ k # None
        BY <1>1, EventsAssumption DEF IInv, ConsumersOK
    <2>2. started <=> current # None
        BY <1>1 DEF IInv, ConsumersOK
    <2>. QED BY <2>1, <2>2 DEF OnlyCurrentConsumes, Consumer
<1>. QED BY <1>1, LoopInvariant, PTL

(* _prepare_dispatch() finds the pending event when its permit arrives. *)
THEOREM PermitFindsPending == Spec => []PendingAwaitsPermit
<1>1. ASSUME IInv PROVE PendingAwaitsPermit
    BY <1>1 DEF IInv, ConsumersOK
<1>. QED BY <1>1, LoopInvariant, PTL

(* join() waits for exactly the events queued or pending. *)
THEOREM JoinCounts == Spec => []UnfinishedMatchesQueue
<1>1. ASSUME IInv PROVE UnfinishedMatchesQueue
    BY <1>1 DEF IInv
<1>. QED BY <1>1, LoopInvariant, PTL

(* The permits of the loop are conserved: each is free, reserved or held by *)
(* a running chain, and a chain runs without one only after a cancelled     *)
(* reacquisition (base.py: suspend_process; _on_dispatch_done).             *)
THEOREM PermitsConserved == Spec => []BackpressureHolds
<1>1. ASSUME IInv PROVE BackpressureHolds
    <2>1. /\ held \subseteq Events /\ lapsed \subseteq Events
          /\ \A e \in Events : Chain(e)
        BY <1>1 DEF IInv, Shape, EventsOK
    <2>2. Running = held \cup lapsed /\ held \cap lapsed = {}
        BY <2>1 DEF Running, Chain
    <2>. QED BY <1>1, <2>2 DEF IInv, PermitsAddUp, Unclaimed, BackpressureHolds
<1>. QED BY <1>1, LoopInvariant, PTL

-----------------------------------------------------------------------------
(* The loop and its pipe implement EventDelivery.                           *)

InboxOf(p, q) == (IF p = None THEN << >> ELSE <<p>>) \o q
Inbox == InboxOf(pending, queue)
Dropped == {e \in Events : st[e] = "dropped"}

(* The pending event is the oldest of the inbox. *)
LEMMA InboxShape ==
    ASSUME NEW p \in Events \cup {None}, NEW q \in Seq(Events)
    PROVE  /\ p = None => InboxOf(p, q) = q
           /\ p # None => /\ InboxOf(p, q) \in Seq(Events)
                          /\ Len(InboxOf(p, q)) = Len(q) + 1
                          /\ InboxOf(p, q) # << >>
                          /\ InboxOf(p, q)[1] = p
                          /\ \A i \in 1..Len(q) : InboxOf(p, q)[i + 1] = q[i]
                          /\ Head(InboxOf(p, q)) = p
                          /\ Tail(InboxOf(p, q)) = q
<1>1. CASE p = None
    BY <1>1, ConcatEmptySeq DEF InboxOf
<1>2. CASE p # None
    <2>. DEFINE s == <<p>> \o q
    <2>1. InboxOf(p, q) = s /\ p \in Events /\ <<p>> \in Seq(Events) /\ Len(q) \in Nat
        BY <1>2 DEF InboxOf
    <2>2. /\ s \in Seq(Events) /\ Len(s) = Len(q) + 1 /\ s[1] = p
          /\ \A i \in 1..Len(q) : s[i + 1] = q[i]
        <3>1. /\ s \in Seq(Events) /\ Len(s) = Len(<<p>>) + Len(q)
              /\ \A i \in 1..Len(<<p>>) + Len(q) :
                    s[i] = IF i <= Len(<<p>>) THEN <<p>>[i] ELSE q[i - Len(<<p>>)]
            BY <2>1, ConcatProperties
        <3>2. Len(<<p>>) = 1 /\ <<p>>[1] = p
            OBVIOUS
        <3>. HIDE DEF s
        <3>3. \A i \in 1..Len(q) : s[i + 1] = q[i]
            <4>. SUFFICES ASSUME NEW i \in 1..Len(q) PROVE s[i + 1] = q[i]
                OBVIOUS
            <4>1. i + 1 \in 1..1 + Len(q) /\ ~(i + 1 <= 1) /\ (i + 1) - 1 = i
                BY <2>1
            <4>. QED BY <3>1, <3>2, <4>1
        <3>. QED BY <2>1, <3>1, <3>2, <3>3
    <2>. HIDE DEF s
    <2>3. s # << >> /\ Head(s) = p
        BY <2>1, <2>2
    <2>4. Tail(s) = q
        <3>1. /\ Tail(s) \in Seq(Events) /\ Len(Tail(s)) = Len(q)
              /\ \A i \in 1..Len(q) : Tail(s)[i] = q[i]
            BY <2>1, <2>2, <2>3
        <3>. QED BY <3>1, SeqEqual
    <2>. QED BY <1>2, <2>1, <2>2, <2>3, <2>4
<1>. QED BY <1>1, <1>2

(* The steps of EventDelivery, on the state of the loop *)
Accepts(e) == Inbox' = Append(Inbox, e) /\ handed' = handed /\ Dropped' = Dropped
HandsOver == /\ Inbox # << >> /\ Inbox' = Tail(Inbox)
             /\ handed' = Append(handed, Head(Inbox)) /\ Dropped' = Dropped
Drops == /\ Inbox # << >> /\ Inbox' = Tail(Inbox)
         /\ Dropped' = Dropped \cup {Head(Inbox)} /\ handed' = handed
Clears == /\ \E n \in {0, 1} :
                /\ n <= Len(Inbox)
                /\ Inbox' = SubSeq(Inbox, 1, n)
                /\ Dropped' = Dropped \cup {Inbox[i] : i \in n + 1..Len(Inbox)}
          /\ handed' = handed
Idles == Inbox' = Inbox /\ handed' = handed /\ Dropped' = Dropped
Delivers == (\E e \in Events : Accepts(e)) \/ HandsOver \/ Drops \/ Clears \/ Idles

(* A step that leaves queue and pending event alone and drops nothing *)
LEMMA IdleSteps ==
    ASSUME UNCHANGED <<queue, pending, handed>>, Dropped' = Dropped
    PROVE  Idles
<1>1. queue' = queue /\ pending' = pending /\ handed' = handed
    OBVIOUS
<1>. QED BY <1>1 DEF Idles, Inbox, InboxOf

(* Whoever accepts an event appends it to the inbox, pending event or not. *)
LEMMA AcceptDelivers ==
    ASSUME IInv, NEW e \in Events, Accept(e), UNCHANGED <<pending, handed>>,
           Dropped' = Dropped
    PROVE  Accepts(e)
<1>1. /\ queue \in Seq(Events) /\ queue' = Append(queue, e)
      /\ pending \in Events \cup {None} /\ pending' = pending /\ handed' = handed
    BY DEF IInv, Shape, Accept
<1>2. Inbox' = Append(Inbox, e)
    <2>1. CASE pending = None
        <3>1. queue' \in Seq(Events)
            BY <1>1
        <3>2. InboxOf(pending, queue) = queue /\ InboxOf(pending', queue') = queue'
            BY <1>1, <2>1, <3>1, InboxShape
        <3>. QED BY <1>1, <3>2 DEF Inbox
    <2>2. CASE pending # None
        <3>. DEFINE p == <<pending>>
        <3>1. p \in Seq(Events) /\ <<e>> \in Seq(Events)
            BY <1>1, <2>2
        <3>2. Inbox = p \o queue /\ Inbox' = p \o queue'
            BY <1>1, <2>2 DEF Inbox, InboxOf
        <3>. HIDE DEF p
        <3>3. p \o queue \in Seq(Events) /\ queue' = queue \o <<e>>
            BY <1>1, <3>1, ConcatProperties, AppendIsConcat
        <3>4. (p \o queue) \o <<e>> = p \o (queue \o <<e>>)
            BY <1>1, <3>1, ConcatAssociative
        <3>5. Append(p \o queue, e) = (p \o queue) \o <<e>>
            BY <3>3, AppendIsConcat
        <3>. QED BY <3>2, <3>3, <3>4, <3>5
    <2>. QED BY <2>1, <2>2
<1>. QED BY <1>1, <1>2 DEF Accepts

(* A put that ends drops nothing. *)
LEMMA PutEndsDropsNothing ==
    ASSUME IInv, NEW e \in Events, NEW s \in {"queued", "withdrawn"},
           st[e] = "blocked", PutEnds(e, s)
    PROVE  Dropped' = Dropped /\ UNCHANGED <<pending, handed>>
<1>1. /\ st \in [Events -> EventState]
      /\ Parent[e] # External => Parent[e] \in Events /\ st[Parent[e]] = "lending"
    BY EventsAssumption DEF IInv, Shape, EventsOK, Event
<1>2. \A f \in Events : f \in Dropped <=> f \in Dropped'
    BY <1>1 DEF PutEnds, Reacquire, Dropped
<1>. QED BY <1>2 DEF PutEnds, Dropped

LEMMA PublicationDelivers ==
    ASSUME IInv, NEW e \in Events,
           \/ PublishExternal(e) \/ PutResumes(e)
           \/ HandlerStep(e) \/ Cancellation(e)
    PROVE  Delivers
<1>1. st \in [Events -> EventState] /\ \A f \in Events : Event(f)
    BY DEF IInv, Shape, EventsOK
<1>2. CASE PublishExternal(e)
    <2>1. Dropped' = Dropped /\ UNCHANGED <<pending, handed>>
        BY <1>1, <1>2 DEF PublishExternal, Dropped
    <2>2. CASE Accept(e)
        BY <2>1, <2>2, AcceptDelivers DEF Delivers
    <2>3. CASE UNCHANGED pipeVars
        BY <2>1, <2>3, IdleSteps DEF Delivers, pipeVars
    <2>. QED BY <1>2, <2>2, <2>3 DEF PublishExternal
<1>3. CASE PutResumes(e)
    <2>1. Dropped' = Dropped /\ UNCHANGED <<pending, handed>> /\ Accept(e)
        BY <1>3, PutEndsDropsNothing DEF PutResumes
    <2>. QED BY <2>1, AcceptDelivers DEF Delivers
<1>4. CASE PutCancelled(e)
    <2>1. Dropped' = Dropped /\ UNCHANGED <<queue, pending, handed>>
        BY <1>4, PutEndsDropsNothing DEF PutCancelled, pipeVars
    <2>. QED BY <2>1, IdleSteps DEF Delivers
<1>5. ASSUME NEW f \in Events, PublishFrom(e, f) PROVE Delivers
    <2>1. Dropped' = Dropped /\ UNCHANGED <<pending, handed>>
        BY <1>1, <1>5 DEF PublishFrom, PublishNow, Reacquire, Dropped
    <2>2. CASE Accept(f)
        BY <2>1, <2>2, AcceptDelivers DEF Delivers
    <2>3. CASE UNCHANGED pipeVars
        BY <2>1, <2>3, IdleSteps DEF Delivers, pipeVars
    <2>. QED BY <1>5, <2>2, <2>3 DEF PublishFrom, PublishNow
<1>6. CASE \/ Regained(e) \/ CancelRegain(e) \/ RegainCancelled(e)
           \/ DispatchEnds(e) \/ OnDispatchDone(e)
    <2>1. Dropped' = Dropped /\ UNCHANGED <<queue, pending, handed>>
        BY <1>1, <1>6
           DEF Regained, CancelRegain, RegainCancelled, DispatchEnds,
               OnDispatchDone, Dropped, pipeVars
    <2>. QED BY <2>1, IdleSteps DEF Delivers
<1>. QED BY <1>2, <1>3, <1>4, <1>5, <1>6 DEF HandlerStep, Cancellation

(* clear() drops what is queued and nothing else. *)
LEMMA ClearDelivers ==
    ASSUME IInv, Clear
    PROVE  Delivers
<1>1. /\ queue \in Seq(Events) /\ Len(queue) \in Nat
      /\ queue' = << >> /\ queue' \in Seq(Events)
      /\ pending \in Events \cup {None} /\ pending' = pending /\ handed' = handed
      /\ st' = [e \in Events |-> IF st[e] = "queued" THEN "dropped" ELSE st[e]]
      /\ \A f \in Events : Event(f)
    BY DEF IInv, Shape, Clear, EventsOK
<1>2. Dropped' = Dropped \cup {queue[i] : i \in 1..Len(queue)}
    <2>1. Dropped' = Dropped \cup {e \in Events : st[e] = "queued"}
        BY <1>1 DEF Dropped
    <2>2. \A i \in 1..Len(queue) : queue[i] \in Events
        BY <1>1
    <2>3. {e \in Events : st[e] = "queued"} = {queue[i] : i \in 1..Len(queue)}
        BY <1>1, <2>2 DEF Event, Queued
    <2>. QED BY <2>1, <2>3
<1>3. CASE pending = None
    <2>1. Inbox = queue /\ Inbox' = << >>
        <3>1. InboxOf(pending, queue) = queue /\ InboxOf(pending', queue') = queue'
            BY <1>1, <1>3, InboxShape
        <3>. QED BY <1>1, <3>1 DEF Inbox
    <2>2. SubSeq(Inbox, 1, 0) = << >>
        BY SubSeqEmpty
    <2>3. 0 <= Len(Inbox) /\ 0 + 1..Len(Inbox) = 1..Len(queue)
        BY <1>1, <2>1
    <2>4. Dropped' = Dropped \cup {Inbox[i] : i \in 0 + 1..Len(Inbox)}
        BY <1>2, <2>1, <2>3
    <2>. QED BY <1>1, <2>1, <2>2, <2>3, <2>4 DEF Delivers, Clears
<1>4. CASE pending # None
    <2>1. /\ Inbox \in Seq(Events) /\ Len(Inbox) = Len(queue) + 1
          /\ Inbox[1] = pending
          /\ \A i \in 1..Len(queue) : Inbox[i + 1] = queue[i]
        BY <1>1, <1>4, InboxShape DEF Inbox
    <2>2. Inbox' \in Seq(Events) /\ Len(Inbox') = 1 /\ Inbox'[1] = pending
        <3>1. /\ InboxOf(pending', queue') \in Seq(Events)
              /\ Len(InboxOf(pending', queue')) = Len(queue') + 1
              /\ InboxOf(pending', queue')[1] = pending'
            BY <1>1, <1>4, InboxShape
        <3>2. Len(queue') = 0
            BY <1>1
        <3>. QED BY <1>1, <3>1, <3>2 DEF Inbox
    <2>3. Inbox' = SubSeq(Inbox, 1, 1)
        <3>1. /\ SubSeq(Inbox, 1, 1) \in Seq(Events)
              /\ Len(SubSeq(Inbox, 1, 1)) = 1
              /\ SubSeq(Inbox, 1, 1)[1] = Inbox[1]
            BY <1>1, <2>1
        <3>. QED BY <2>1, <2>2, <3>1, SeqEqual
    <2>4. {Inbox[i] : i \in 1 + 1..Len(Inbox)} = {queue[i] : i \in 1..Len(queue)}
        <3>1. \A i \in 1 + 1..Len(Inbox) : i - 1 \in 1..Len(queue) /\ Inbox[i] = queue[i - 1]
            <4>. SUFFICES ASSUME NEW i \in 1 + 1..Len(Inbox)
                          PROVE  i - 1 \in 1..Len(queue) /\ Inbox[i] = queue[i - 1]
                OBVIOUS
            <4>1. i - 1 \in 1..Len(queue) /\ (i - 1) + 1 = i
                BY <1>1, <2>1
            <4>2. Inbox[(i - 1) + 1] = queue[i - 1]
                BY <2>1, <4>1
            <4>. QED BY <4>1, <4>2
        <3>2. ASSUME NEW i \in 1..Len(queue)
              PROVE  i + 1 \in 1 + 1..Len(Inbox) /\ Inbox[i + 1] = queue[i]
            <4>1. i + 1 \in 1 + 1..Len(Inbox)
                BY <1>1, <2>1
            <4>. QED BY <2>1, <4>1
        <3>3. {Inbox[i] : i \in 1 + 1..Len(Inbox)} \subseteq {queue[i] : i \in 1..Len(queue)}
            BY <3>1
        <3>4. {queue[i] : i \in 1..Len(queue)} \subseteq {Inbox[i] : i \in 1 + 1..Len(Inbox)}
            BY <3>2
        <3>. QED BY <3>3, <3>4
    <2>5. 1 <= Len(Inbox)
        BY <1>1, <2>1
    <2>6. \E n \in {0, 1} :
            /\ n <= Len(Inbox)
            /\ Inbox' = SubSeq(Inbox, 1, n)
            /\ Dropped' = Dropped \cup {Inbox[i] : i \in n + 1..Len(Inbox)}
        <3>1. Dropped' = Dropped \cup {Inbox[i] : i \in 1 + 1..Len(Inbox)}
            BY <1>2, <2>4
        <3>. WITNESS 1 \in {0, 1}
        <3>. QED BY <2>3, <2>5, <3>1
    <2>. QED BY <1>1, <2>6 DEF Delivers, Clears
<1>. QED BY <1>3, <1>4

(* Taking the oldest event out of the queue leaves it at the head of the    *)
(* inbox, unless it is dropped.                                             *)
LEMMA DequeueDelivers ==
    ASSUME IInv, NEW k \in Consumers, Dequeue(k)
    PROVE  Delivers
<1>1. /\ Shape /\ NoDuplicate /\ queue \in Seq(Events)
      /\ st \in [Events -> EventState]
      /\ queue # << >> /\ queue' = Tail(queue) /\ pending = None
      /\ handed' = handed /\ \A f \in Events : Event(f)
    BY DEF IInv, Shape, EventsOK, Dequeue
<1>2. /\ Head(queue) \in Events /\ Queued(Head(queue)) /\ queue' \in Seq(Events)
      /\ Head(queue) # None
    BY <1>1, TakeRemoves, EventsAssumption
<1>3. Inbox = queue
    BY <1>1, InboxShape DEF Inbox
<1>4. CASE pending' = Head(queue) /\ st' = [st EXCEPT ![Head(queue)] = "pending"]
    <2>1. Dropped' = Dropped
        BY <1>1, <1>2, <1>4 DEF Dropped, Event
    <2>2. /\ Inbox' \in Seq(Events) /\ Len(Inbox') = Len(queue') + 1
          /\ Inbox'[1] = Head(queue)
          /\ \A i \in 1..Len(queue') : Inbox'[i + 1] = queue'[i]
        BY <1>2, <1>4, InboxShape DEF Inbox
    <2>3. Inbox' = queue
        <3>1. /\ Len(queue) \in Nat /\ Len(queue') = Len(queue) - 1
              /\ Head(queue) = queue[1]
              /\ \A i \in 1..Len(queue') : queue'[i] = queue[i + 1]
            BY <1>1
        <3>2. ASSUME NEW i \in 1..Len(queue) PROVE Inbox'[i] = queue[i]
            <4>1. CASE i = 1
                BY <2>2, <3>1, <4>1
            <4>2. CASE i # 1
                <5>1. i - 1 \in 1..Len(queue') /\ (i - 1) + 1 = i
                    BY <3>1, <4>2
                <5>. QED BY <2>2, <3>1, <5>1
            <4>. QED BY <4>1, <4>2
        <3>3. Len(Inbox') = Len(queue)
            BY <2>2, <3>1
        <3>. QED BY <1>1, <2>2, <3>2, <3>3, SeqEqual
    <2>. QED BY <1>1, <1>3, <2>1, <2>3 DEF Delivers, Idles
<1>5. CASE pending' = None /\ st' = [st EXCEPT ![Head(queue)] = "dropped"]
    <2>1. Dropped' = Dropped \cup {Head(queue)}
        BY <1>1, <1>2, <1>5 DEF Dropped
    <2>2. Inbox' = queue'
        BY <1>2, <1>5, InboxShape DEF Inbox
    <2>. QED BY <1>1, <1>3, <2>1, <2>2 DEF Delivers, Drops
<1>. QED BY <1>1, <1>4, <1>5 DEF Dequeue

(* The event at the head of the inbox is the one handed over or dropped. *)
LEMMA LaunchDelivers ==
    ASSUME IInv, NEW k \in Consumers, Launch(k)
    PROVE  Delivers
<1>1. /\ Shape /\ queue \in Seq(Events) /\ queue' = queue /\ pending' = None
      /\ st \in [Events -> EventState] /\ Consumer(k)
    BY DEF IInv, Shape, Launch, ConsumersOK
<1>2. pending \in Events /\ pending # None /\ Event(pending)
    <2>1. pending # None
        <3>1. CASE at[k] = "loop" /\ pending # None
            BY <3>1
        <3>2. CASE at[k] = "acquire" /\ fut[k] = "granted"
            BY <1>1, <3>2 DEF Consumer, IInv, ConsumersOK, PendingAwaitsPermit
        <3>. QED BY <3>1, <3>2 DEF Launch
    <2>. QED BY <1>1, <2>1 DEF Shape, IInv, EventsOK
<1>3. st[pending] = "pending"
    BY <1>2 DEF Event
<1>4. Inbox # << >> /\ Head(Inbox) = pending /\ Tail(Inbox) = queue
    BY <1>1, <1>2, InboxShape DEF Inbox
<1>5. Inbox' = queue
    <2>1. InboxOf(None, queue) = queue
        BY <1>1, InboxShape
    <2>. QED BY <1>1, <2>1 DEF Inbox
<1>6. CASE st' = [st EXCEPT ![pending] = "running"]
           /\ handed' = Append(handed, pending)
    <2>1. Dropped' = Dropped
        BY <1>1, <1>2, <1>3, <1>6 DEF Dropped
    <2>. QED BY <1>4, <1>5, <1>6, <2>1 DEF Delivers, HandsOver
<1>7. CASE st' = [st EXCEPT ![pending] = "dropped"] /\ handed' = handed
    <2>1. Dropped' = Dropped \cup {pending}
        BY <1>1, <1>2, <1>7 DEF Dropped
    <2>. QED BY <1>4, <1>5, <1>7, <2>1 DEF Delivers, Drops
<1>. QED BY <1>6, <1>7 DEF Launch, CreateDispatch, CreateFails

LEMMA CoreStepDelivers ==
    ASSUME IInv, [Next]_coreVars
    PROVE  Delivers
<1>1. [LoopNext \/ (Yielded /\ Start)]_vars
    BY DEF Next, coreVars, Getter, AsyncGetter, StartTaskRuns, StartTaskFails,
           StartCore
<1>2. ASSUME UNCHANGED <<queue, pending, handed, st>> PROVE Delivers
    <2>1. Dropped' = Dropped
        BY <1>2 DEF Dropped
    <2>. QED BY <1>2, <2>1, IdleSteps DEF Delivers
<1>3. ASSUME NEW k \in Consumers, ConsumerStep(k) \/ ConsumerWakes(k)
      PROVE  Delivers
    <2>1. CASE ConsumerSleeps(k) \/ AwaitPermit(k) \/ ConsumerRuns(k)
                 \/ ConsumerCancelled(k) \/ OnConsumerDone(k)
        BY <1>2, <2>1 DEF ConsumerSleeps, AwaitPermit, ConsumerRuns,
                          ConsumerCancelled, OnConsumerDone, pipeVars
    <2>. QED
        BY <1>3, <2>1, DequeueDelivers, LaunchDelivers DEF ConsumerStep, ConsumerWakes
<1>4. CASE Stop \/ Start \/ UNCHANGED vars
    BY <1>2, <1>4 DEF Stop, Start, vars, pipeVars
<1>. QED
    BY <1>1, <1>3, <1>4, PublicationDelivers, ClearDelivers DEF LoopNext

(* Events are handed to dispatches in the order in which the pipe accepted  *)
(* them, and no stop, restart, cancellation or failure loses one without    *)
(* dropping it visibly.                                                     *)
THEOREM LoopImplementsDelivery == Spec => DeliverySpec
<1>1. CoreInit => Delivery!Init
    <2>. SUFFICES ASSUME CoreInit PROVE Delivery!Init
        OBVIOUS
    <2>1. pending = None /\ queue = << >> /\ handed = << >>
          /\ \A e \in Events : st[e] = "new"
        BY DEF CoreInit, Init
    <2>2. << >> \o queue = << >>
        BY <2>1
    <2>. QED BY <2>1, <2>2 DEF Delivery!Init
<1>2. ASSUME IInv, [Next]_coreVars
      PROVE  [Delivery!Next]_<<Inbox, handed, Dropped>>
    <2>1. Delivers
        BY <1>2, CoreStepDelivers
    <2>. QED
        BY <2>1 DEF Delivers, Accepts, HandsOver, Drops, Clears, Idles,
                    Delivery!Next, Delivery!Accept, Delivery!HandOver,
                    Delivery!Drop, Delivery!Clear, Inbox, InboxOf, Dropped
<1>. QED
    BY <1>1, <1>2, LoopInvariant, PTL
       DEF Spec, DeliverySpec, Delivery!Spec, Inbox, InboxOf, Dropped

-----------------------------------------------------------------------------
(* At most one dispatch per event.                                          *)

Given == {"running", "lending", "regain", "ended", "done"}

(* No event is in the history twice; those that are have left the inbox *)
Once == \A i, j \in 1..Len(handed) : handed[i] = handed[j] => i = j
HandedAreGiven == \A i \in 1..Len(handed) : st[handed[i]] \in Given

(* A dispatch never goes back into the inbox. *)
LEMMA GivenStays ==
    ASSUME IInv, [Next]_coreVars, NEW f \in Events, st[f] \in Given
    PROVE  st'[f] \in Given
<1>1. [LoopNext \/ (Yielded /\ Start)]_vars
    BY DEF Next, coreVars, Getter, AsyncGetter, StartTaskRuns, StartTaskFails,
           StartCore
<1>2. /\ st \in [Events -> EventState] /\ queue \in Seq(Events)
      /\ \A e \in Events : Event(e)
    BY DEF IInv, Shape, EventsOK
<1>3. ASSUME NEW k \in Consumers, ConsumerStep(k) \/ ConsumerWakes(k)
      PROVE  st'[f] \in Given
    <2>1. CASE ConsumerSleeps(k) \/ AwaitPermit(k) \/ ConsumerRuns(k)
                 \/ ConsumerCancelled(k) \/ OnConsumerDone(k)
        BY <2>1 DEF ConsumerSleeps, AwaitPermit, ConsumerRuns,
                    ConsumerCancelled, OnConsumerDone
    <2>2. CASE Dequeue(k)
        <3>1. Head(queue) \in Events /\ Queued(Head(queue))
            BY <2>2, TakeRemoves DEF Dequeue, IInv, EventsOK
        <3>2. f # Head(queue)
            BY <1>2, <3>1 DEF Event, Given
        <3>. QED BY <1>2, <2>2, <3>2 DEF Dequeue
    <2>3. CASE Launch(k)
        <3>1. f # pending
            BY <1>2 DEF Event, Given
        <3>. QED
            BY <1>2, <2>3, <3>1 DEF Launch, CreateDispatch, CreateFails
    <2>. QED BY <1>3, <2>1, <2>2, <2>3 DEF ConsumerStep, ConsumerWakes
<1>4. ASSUME NEW e \in Events,
             \/ PublishExternal(e) \/ PutResumes(e)
             \/ HandlerStep(e) \/ Cancellation(e)
      PROVE  st'[f] \in Given
    <2>1. CASE PublishExternal(e)
        BY <1>2, <2>1 DEF PublishExternal, Given
    <2>2. ASSUME NEW s, st[e] = "blocked", PutEnds(e, s) PROVE st'[f] \in Given
        BY <1>2, <2>2, EventsAssumption DEF PutEnds, Reacquire, Given
    <2>3. ASSUME NEW g \in Events, PublishFrom(e, g) PROVE st'[f] \in Given
        BY <1>2, <2>3 DEF PublishFrom, PublishNow, Reacquire, Given
    <2>4. CASE \/ Regained(e) \/ CancelRegain(e) \/ RegainCancelled(e)
               \/ DispatchEnds(e) \/ OnDispatchDone(e)
        BY <1>2, <2>4 DEF Regained, CancelRegain, RegainCancelled, DispatchEnds,
                          OnDispatchDone, Given
    <2>. QED
        BY <1>4, <2>1, <2>2, <2>3, <2>4
           DEF HandlerStep, Cancellation, PutResumes, PutCancelled
<1>5. CASE Clear
    BY <1>2, <1>5 DEF Clear, Given
<1>6. CASE Stop \/ Start \/ UNCHANGED vars
    BY <1>6 DEF Stop, Start, vars
<1>. QED BY <1>1, <1>3, <1>4, <1>5, <1>6 DEF LoopNext

(* Only a pending event is handed over, and it has not been before. *)
LEMMA OnceKeeps ==
    ASSUME IInv, Once, HandedAreGiven, [Next]_coreVars
    PROVE  Once' /\ HandedAreGiven'
<1>1. handed \in Seq(Events) /\ Len(handed) \in Nat
    BY DEF IInv, Shape
<1>2. CASE handed' = handed
    <2>1. \A i \in 1..Len(handed) : handed[i] \in Events
        BY <1>1
    <2>. QED BY <1>2, <2>1, GivenStays DEF Once, HandedAreGiven
<1>3. ASSUME NEW k \in Consumers, Launch(k), handed' # handed
      PROVE  Once' /\ HandedAreGiven'
    <2>1. handed' = Append(handed, pending) /\ st' = [st EXCEPT ![pending] = "running"]
        BY <1>3 DEF Launch, CreateDispatch, CreateFails
    <2>2. pending \in Events /\ st[pending] = "pending"
        <3>1. pending # None
            <4>1. CASE at[k] = "loop" /\ pending # None
                BY <4>1
            <4>2. CASE at[k] = "acquire" /\ fut[k] = "granted"
                BY <4>2 DEF IInv, ConsumersOK, Consumer, PendingAwaitsPermit
            <4>. QED BY <1>3, <4>1, <4>2 DEF Launch
        <3>. QED BY <3>1 DEF IInv, Shape, EventsOK, Event
    <2>3. /\ Len(handed') = Len(handed) + 1
          /\ \A i \in 1..Len(handed) : handed'[i] = handed[i]
          /\ handed'[Len(handed) + 1] = pending
        BY <1>1, <2>1, <2>2
    <2>4. \A i \in 1..Len(handed) : handed[i] \in Events /\ handed[i] # pending
        BY <1>1, <2>2 DEF HandedAreGiven, Given
    <2>5. Once'
        BY <1>1, <2>3, <2>4 DEF Once
    <2>6. ASSUME NEW i \in 1..Len(handed') PROVE st'[handed'[i]] \in Given
        <3>1. CASE i = Len(handed) + 1
            BY <2>1, <2>2, <2>3, <3>1 DEF Given, IInv, Shape
        <3>2. CASE i \in 1..Len(handed)
            BY <2>3, <2>4, <3>2, GivenStays DEF HandedAreGiven
        <3>. QED BY <1>1, <2>3, <3>1, <3>2
    <2>. QED BY <2>5, <2>6 DEF HandedAreGiven
<1>4. handed' = handed \/ \E k \in Consumers : Launch(k)
    BY DEF Next, coreVars, vars, LoopNext, Getter, AsyncGetter, StartTaskRuns,
           StartTaskFails, StartCore, Start, Stop, Clear, ConsumerStep,
           ConsumerWakes, HandlerStep, ConsumerSleeps, AwaitPermit, ConsumerRuns,
           ConsumerCancelled, OnConsumerDone, Dequeue, PublishExternal, PutResumes,
           PutCancelled, PutEnds, Cancellation, PublishFrom, Regained, CancelRegain,
           RegainCancelled, DispatchEnds, OnDispatchDone
<1>. QED BY <1>2, <1>3, <1>4

(* An event gets at most one dispatch task, whatever is stopped, restarted  *)
(* or cancelled on the way.                                                 *)
THEOREM DispatchedOnce == Spec => []Once
<1>1. CoreInit => Once /\ HandedAreGiven
    BY DEF CoreInit, Init, Once, HandedAreGiven
<1>. QED BY <1>1, OnceKeeps, LoopInvariant, PTL DEF Spec

=============================================================================
