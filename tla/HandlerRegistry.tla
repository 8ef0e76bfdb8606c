--------------------------- MODULE HandlerRegistry ---------------------------
(***************************************************************************)
(* The handler registry (event/handler_registry.py, subscription.py): the   *)
(* priority buckets that order handlers, and the chains cached per event    *)
(* name, which are expired when a registration changes and rebuilt when an  *)
(* event is dequeued.                                                       *)
(*                                                                         *)
(* Glob patterns are abstracted to the set of event names a handler accepts *)
(* (subscribe minus filter_event).  A handler is registered with a priority *)
(* or between two others; its recorded priority is then Between.            *)
(***************************************************************************)
EXTENDS Integers, SequencesExt, FiniteSetsExt

CONSTANTS
    Names,          \* handler names
    EventNames,
    Priorities,     \* the numbers handlers may ask for
    Between,        \* stands for priority None
    NoName          \* stands for boundary None

ASSUME NamesAssumption == NoName \notin Names /\ Between \notin Priorities
ASSUME PrioritiesAssumption == Priorities \subseteq Int

VARIABLES
    registry,   \* name -> [accepts, priority] of the registered handlers
    buckets,    \* priority -> names in dispatch order
    cached      \* event name -> cached chain of names

registryVars == <<registry, buckets, cached>>

Handlers == [accepts: SUBSET EventNames, priority: Priorities \cup {Between}]

RegistryTypeOK ==
    /\ DOMAIN registry \subseteq Names
    /\ \A n \in DOMAIN registry : registry[n] \in Handlers
    /\ DOMAIN buckets \subseteq Priorities
    /\ \A p \in DOMAIN buckets : buckets[p] \in Seq(Names)
    /\ DOMAIN cached \subseteq EventNames    \* CacheCoherent says which chains

Without(f, k) == [x \in DOMAIN f \ {k} |-> f[x]]
With(f, k, v) == [x \in DOMAIN f \cup {k} |-> IF x = k THEN v ELSE f[x]]

RegistryInit ==
    /\ registry = << >>    \* empty functions
    /\ buckets = << >>
    /\ cached = << >>

-----------------------------------------------------------------------------
(* Reading the registry.                                                    *)

\* a comes before b in the bucket s.
Precedes(s, a, b) == \E i, j \in DOMAIN s : i < j /\ s[i] = a /\ s[j] = b

\* _iter_active_handler_names: the names it yields, and the order in which it
\* does, the buckets by descending priority and each from its first name on.
Yielded(bs) == UNION {ToSet(bs[p]) : p \in DOMAIN bs}

Before(bs, m, n) ==
    \E p, q \in DOMAIN bs :
        \/ p > q /\ Contains(bs[p], m) /\ Contains(bs[q], n)
        \/ p = q /\ Precedes(bs[p], m, n)

Order(bs, S) == {mn \in S \X S : Before(bs, mn[1], mn[2])}

\* The names of S as a list in the order R.
Listed(S, R) == SetToSortSeq(S, LAMBDA m, n : <<m, n>> \in R)

\* The chain get_handlers_chain_for_event builds when nothing is cached.
Chain(reg, bs, x) ==
    LET S == {n \in Yielded(bs) \cap DOMAIN reg : x \in reg[n].accepts}
    IN  Listed(S, Order(bs, S))

IndexOf(s, n) == CHOOSE i \in DOMAIN s : s[i] = n

\* The buckets in which _find_handler_position finds n: the recorded
\* priority's bucket only, or any bucket when none is recorded.
Homes(n) ==
    {p \in DOMAIN buckets :
        /\ n \in DOMAIN registry => registry[n].priority \in {p, Between}
        /\ Contains(buckets[p], n)}

Found(n) == Homes(n) # {}
Home(n) == CHOOSE p \in Homes(n) : TRUE
Position(n) == IndexOf(buckets[Home(n)], n)

-----------------------------------------------------------------------------
(* Operations.                                                              *)

\* get_handlers_for_event, on every dequeue.
Lookup(x) ==
    /\ x \notin DOMAIN cached
    /\ cached' = With(cached, x, Chain(registry, buckets, x))
    /\ UNCHANGED <<registry, buckets>>

\* _invalidate_matching_chains
Expired(c, h) == [x \in DOMAIN c \ h.accepts |-> c[x]]

\* Mutant: the last name of the bucket fills the gap.
BucketsWithout_Swaps(n) ==
    IF ~Found(n) THEN buckets
    ELSE LET b == buckets[Home(n)]
             rest == Front([b EXCEPT ![Position(n)] = Last(b)])
         IN  IF rest = << >> THEN Without(buckets, Home(n))
             ELSE With(buckets, Home(n), rest)

\* _remove_from_bucket: an empty bucket disappears.
BucketsWithout(n) ==
    IF ~Found(n) THEN buckets
    ELSE LET rest == RemoveAt(buckets[Home(n)], Position(n))
         IN  IF rest = << >> THEN Without(buckets, Home(n))
             ELSE With(buckets, Home(n), rest)

\* The state unregister_handler(n, missing_ok=True) leaves.
Unregistered(n) ==
    IF n \in DOMAIN registry
    THEN [registry |-> Without(registry, n), buckets |-> BucketsWithout(n),
          cached |-> Expired(cached, registry[n])]
    ELSE [registry |-> registry, buckets |-> buckets, cached |-> cached]

Unregister(n) ==
    /\ n \in DOMAIN registry
    /\ registry' = Unregistered(n).registry
    /\ buckets' = Unregistered(n).buckets
    /\ cached' = Unregistered(n).cached

\* priority_buckets.setdefault(p, [])
Bucket(bs, p) == IF p \in DOMAIN bs THEN bs[p] ELSE << >>

\* Bucket p once the registration of n's name is gone.
Remaining(n, p) == Bucket(Unregistered(n).buckets, p)

\* Mutant: chains that only the replaced registration matched stay cached.
RegisterAt_ExpiresNewOnly(n, h, p, i) ==
    LET base == Unregistered(n)
    IN  /\ registry' = With(base.registry, n, h)
        /\ buckets' = With(base.buckets, p, InsertAt(Remaining(n, p), i, n))
        /\ cached' = Expired(cached, h)

\* Mutant: a replaced registration stays in its bucket.
RegisterAt_NoUnregister(n, h, p, i) ==
    /\ registry' = With(registry, n, h)
    /\ buckets' = With(buckets, p, InsertAt(Bucket(buckets, p), i, n))
    /\ cached' = Expired(Unregistered(n).cached, h)

\* Everything register_handler does once the arguments are valid: replace the
\* registration of h's name, and put the name at index i of what remains of
\* bucket p.
RegisterAt(n, h, p, i) ==
    LET base == Unregistered(n)
    IN  /\ registry' = With(base.registry, n, h)
        /\ buckets' = With(base.buckets, p, InsertAt(Remaining(n, p), i, n))
        /\ cached' = Expired(base.cached, h)

RegisterPriority(n, acc, p) ==
    RegisterAt(n, [accepts |-> acc, priority |-> p], p, Len(Remaining(n, p)) + 1)

\* _validate_between_handlers
ValidBoundaries(n, l, r) ==
    /\ l # NoName \/ r # NoName
    /\ l # r /\ n \notin {l, r}
    /\ l # NoName => Found(l)
    /\ r # NoName => Found(r)
    /\ l # NoName /\ r # NoName =>
         \/ Home(l) > Home(r)
         \/ Home(l) = Home(r) /\ Position(l) < Position(r)

\* The right boundary decides the bucket, else the left one.
Edge(l, r) == IF r # NoName THEN r ELSE l

\* The index before the right boundary in bucket b, or behind the left one.
Place(l, r, b) == IF r # NoName THEN IndexOf(b, r) ELSE IndexOf(b, l) + 1

\* Mutant: the place is taken from the bucket before n left it.
RegisterBetween_StaleIndex(n, acc, l, r) ==
    /\ ValidBoundaries(n, l, r)
    /\ LET p == Home(Edge(l, r))
           i == Place(l, r, buckets[p])
       IN  RegisterAt(n, [accepts |-> acc, priority |-> Between], p,
                 Min({i, Len(Remaining(n, p)) + 1}))

RegisterBetween(n, acc, l, r) ==
    /\ ValidBoundaries(n, l, r)
    /\ LET p == Home(Edge(l, r))
       IN  RegisterAt(n, [accepts |-> acc, priority |-> Between], p,
                 Place(l, r, Remaining(n, p)))

Boundaries == Names \cup {NoName}

RegistryNext ==
    \/ \E x \in EventNames : Lookup(x)
    \/ \E n \in Names : Unregister(n)
    \/ \E n \in Names, acc \in SUBSET EventNames \ {{}} :
        \/ \E p \in Priorities : RegisterPriority(n, acc, p)
        \/ \E l, r \in Boundaries : RegisterBetween(n, acc, l, r)

RegistrySpec == RegistryInit /\ [][RegistryNext]_registryVars

-----------------------------------------------------------------------------
(* Properties.                                                              *)

\* A chain found in the cache is the chain a rebuild would give: no change of
\* a registration leaves a stale, misordered or unresolvable chain behind.
CacheCoherent == \A x \in DOMAIN cached : cached[x] = Chain(registry, buckets, x)

\* The buckets hold each registered name exactly once and nothing else, none
\* is empty, and a handler with a priority is in the bucket of its priority.
BucketsMatchRegistry ==
    /\ Yielded(buckets) = DOMAIN registry
    /\ \A p, q \in DOMAIN buckets :
        \A i \in DOMAIN buckets[p], j \in DOMAIN buckets[q] :
            buckets[p][i] = buckets[q][j] => p = q /\ i = j
    /\ \A p \in DOMAIN buckets : buckets[p] # << >>
    /\ \A n \in DOMAIN registry : Found(n)

\* Registering, replacing or removing one handler never reorders, adds or
\* drops another.
OthersKept(bs, cs, n) ==
    /\ Yielded(bs) \ {n} = Yielded(cs) \ {n}
    /\ \A a, b \in Names \ {n} : Before(bs, a, b) <=> Before(cs, a, b)

OthersKeepOrder == [][\E n \in Names : OthersKept(buckets, buckets', n)]_buckets

\* a comes before b and no handler runs between the two.
RightBefore(bs, a, b) ==
    Before(bs, a, b) /\ ~\E m \in Names : Before(bs, a, m) /\ Before(bs, m, b)

\* between_handlers: the handler runs right before the right boundary, or
\* right after the left one, and always between the two.
BetweenHonoured ==
    [][\A n \in Names, acc \in SUBSET EventNames \ {{}}, l, r \in Boundaries :
        RegisterBetween(n, acc, l, r) =>
            /\ r # NoName => RightBefore(buckets', n, r)
            /\ r = NoName => RightBefore(buckets', l, n)
            /\ l # NoName => Before(buckets', l, n)]_registryVars
=============================================================================
