------------------------ MODULE PermitSemaphoreProofs ------------------------
(***************************************************************************)
(* What each operation of the semaphore does to the number of permits that  *)
(* are free or reserved.                                                    *)
(***************************************************************************)
EXTENDS PermitSemaphore, FiniteSetTheorems, TLAPS

\* SemTypeOK without the bound, which depends on how the permits are used.
SemShape ==
    /\ value \in Nat
    /\ waiters \in Seq(Users)
    /\ fut \in [Users -> FutState]

\* The permits nobody has taken away yet.
Unclaimed == value + Cardinality(Reserved)

LEMMA UserSetsFinite ==
    /\ IsFiniteSet(Reserved) /\ Cardinality(Reserved) \in Nat
    /\ IsFiniteSet(Pending) /\ Cardinality(Pending) \in Nat
    /\ IsFiniteSet(Reserved') /\ Cardinality(Reserved') \in Nat
    /\ IsFiniteSet(Pending') /\ Cardinality(Pending') \in Nat
<1>1. Reserved \in SUBSET Users /\ Pending \in SUBSET Users
      /\ Reserved' \in SUBSET Users /\ Pending' \in SUBSET Users
    BY DEF Reserved, Pending
<1>2. \A S \in SUBSET Users : IsFiniteSet(S) /\ Cardinality(S) \in Nat
    BY UsersAssumption, FS_Subset, FS_CardinalityType
<1> QED BY <1>1, <1>2

\* Waking the waiters W moves as many permits from free to reserved.
LEMMA GrantReserves ==
    ASSUME SemShape, NEW W \in SUBSET Pending, fut' = Grant(W)
    PROVE  /\ Reserved' = Reserved \cup W
           /\ Reserved \cap W = {}
           /\ Pending' = Pending \ W
           /\ IsFiniteSet(W) /\ Cardinality(W) \in Nat
           /\ Cardinality(Reserved') = Cardinality(Reserved) + Cardinality(W)
           /\ fut' \in [Users -> FutState]
<1>1. /\ Reserved' = Reserved \cup W
      /\ Reserved \cap W = {}
      /\ Pending' = Pending \ W
      /\ fut' \in [Users -> FutState]
    BY DEF SemShape, Reserved, Pending, Grant, FutState
<1>2. IsFiniteSet(W) /\ Cardinality(W) \in Nat
    BY UserSetsFinite, FS_Subset, FS_CardinalityType
<1>3. Cardinality(Reserved \cup W)
        = Cardinality(Reserved) + Cardinality(W) - Cardinality(Reserved \cap W)
    BY <1>2, UserSetsFinite, FS_Union
<1>4. Cardinality(Reserved \cap W) = 0
    BY <1>1, FS_EmptySet
<1> QED BY <1>1, <1>2, <1>3, <1>4, UserSetsFinite

\* acquire() with a free permit takes it.
LEMMA AcquireNowEffect ==
    ASSUME SemShape, AcquireNow
    PROVE  SemShape' /\ Unclaimed' = Unclaimed - 1
<1>1. value' = value - 1 /\ value # 0 /\ Reserved' = Reserved /\ Pending = {}
      /\ Pending' = Pending /\ UNCHANGED <<waiters, fut>>
    BY DEF AcquireNow, Locked, Reserved, Pending
<1> QED BY <1>1, UserSetsFinite DEF SemShape, Unclaimed

\* acquire() without one only queues its future.
LEMMA EnqueueEffect ==
    ASSUME SemShape, NEW u \in Users, Enqueue(u)
    PROVE  /\ SemShape' /\ Unclaimed' = Unclaimed
<1>1. Reserved' = Reserved /\ value' = value
    BY DEF Enqueue, Reserved, SemShape
<1>2. SemShape'
    BY DEF Enqueue, SemShape, FutState
<1> QED BY <1>1, <1>2 DEF Unclaimed

\* release() adds exactly one permit.
LEMMA ReleaseEffect ==
    ASSUME SemShape, Release
    PROVE  /\ SemShape' /\ Unclaimed' = Unclaimed + 1
<1>1. PICK W \in SUBSET Pending :
        /\ Oldest(1, W) /\ value' = value + 1 - Cardinality(W)
        /\ fut' = Grant(W) /\ waiters' = waiters
    BY DEF Release
<1>2. Cardinality(W) \in Nat /\ Cardinality(W) <= 1
    BY <1>1, GrantReserves, UserSetsFinite DEF Oldest
<1>3. /\ Cardinality(Reserved') = Cardinality(Reserved) + Cardinality(W)
      /\ Reserved' = Reserved \cup W /\ Pending' = Pending \ W
      /\ fut' \in [Users -> FutState]
    BY <1>1, GrantReserves
<1>4. SemShape'
    BY <1>1, <1>2, <1>3 DEF SemShape
<1>5. Unclaimed' = Unclaimed + 1
    BY <1>1, <1>2, <1>3, UserSetsFinite DEF Unclaimed, SemShape
<1> QED BY <1>4, <1>5

\* A waiter whose future is done leaves with its permit, less what it gives
\* back, and wakes others while permits are free.
LEMMA LeaveEffect ==
    ASSUME SemShape, NEW u \in Users, NEW back \in {0, 1}, Leave(u, back)
    PROVE  /\ SemShape'
           /\ Unclaimed' = Unclaimed + back
                             - (IF fut[u] \in {"granted", "revoked"} THEN 1 ELSE 0)
<1>1. PICK W \in SUBSET Pending :
        /\ Oldest(value + back, W) /\ value' = value + back - Cardinality(W)
        /\ fut' = [Grant(W) EXCEPT ![u] = "none"]
    BY DEF Leave
<1>2. PICK i \in DOMAIN waiters :
        waiters' = SubSeq(waiters, 1, i - 1) \o SubSeq(waiters, i + 1, Len(waiters))
    BY DEF Leave
<1>3. u \notin Pending /\ u \notin W
    BY DEF Leave, Pending
<1>4. /\ Reserved' = (Reserved \ {u}) \cup W
      /\ (Reserved \ {u}) \cap W = {}
      /\ Pending' = Pending \ W
      /\ fut' \in [Users -> FutState]
    BY <1>1, <1>3 DEF SemShape, Reserved, Pending, Grant, FutState
<1>5. IsFiniteSet(W) /\ Cardinality(W) \in Nat
    BY UserSetsFinite, FS_Subset, FS_CardinalityType
<1>6. /\ Cardinality(W) <= value + back
      /\ Cardinality(W) <= Cardinality(Pending)
      /\ Cardinality(W) = value + back \/ Cardinality(W) = Cardinality(Pending)
    BY <1>1, UserSetsFinite DEF Oldest, SemShape
<1>7. Cardinality(Reserved') = Cardinality(Reserved \ {u}) + Cardinality(W)
    <2>1. IsFiniteSet(Reserved \ {u}) /\ Cardinality(Reserved \ {u}) \in Nat
        BY UserSetsFinite, FS_RemoveElement, FS_CardinalityType
    <2>2. Cardinality(Reserved') = Cardinality(Reserved \ {u}) + Cardinality(W)
                                     - Cardinality((Reserved \ {u}) \cap W)
        BY <1>4, <1>5, <2>1, FS_Union
    <2>3. Cardinality((Reserved \ {u}) \cap W) = 0
        BY <1>4, FS_EmptySet
    <2> QED BY <1>5, <2>1, <2>2, <2>3
<1>8. Cardinality(Reserved \ {u}) =
        Cardinality(Reserved) - (IF fut[u] \in {"granted", "revoked"} THEN 1 ELSE 0)
    <2>1. u \in Reserved <=> fut[u] \in {"granted", "revoked"}
        BY DEF Reserved
    <2>2. Cardinality(Reserved \ {u}) =
            IF u \in Reserved THEN Cardinality(Reserved) - 1 ELSE Cardinality(Reserved)
        BY UserSetsFinite, FS_RemoveElement
    <2> QED BY <2>1, <2>2, UserSetsFinite
<1>9. waiters' \in Seq(Users)
    BY <1>2 DEF SemShape
<1>10. SemShape'
    BY <1>1, <1>4, <1>5, <1>6, <1>9 DEF SemShape
<1>11. Unclaimed' = Unclaimed + back
                      - (IF fut[u] \in {"granted", "revoked"} THEN 1 ELSE 0)
    <2>1. value \in Nat /\ Cardinality(Reserved) \in Nat
        BY UserSetsFinite DEF SemShape
    <2>2. value' = value + back - Cardinality(W)
        BY <1>1
    <2>3. Cardinality(Reserved') =
            Cardinality(Reserved) + Cardinality(W)
              - (IF fut[u] \in {"granted", "revoked"} THEN 1 ELSE 0)
        BY <1>5, <1>7, <1>8, <2>1
    <2>4. Unclaimed' = value' + Cardinality(Reserved')
        BY DEF Unclaimed
    <2> QED BY <1>5, <2>1, <2>2, <2>3, <2>4 DEF Unclaimed
<1> QED BY <1>10, <1>11

\* Cancelling a waiting task moves no permit before that task runs.
LEMMA CancelWaitEffect ==
    ASSUME SemShape, NEW u \in Users, CancelWait(u)
    PROVE  /\ SemShape' /\ Unclaimed' = Unclaimed
<1>1. Reserved' = Reserved /\ value' = value
    BY DEF CancelWait, Reserved, SemShape
<1>2. SemShape'
    BY DEF CancelWait, SemShape, FutState
<1> QED BY <1>1, <1>2 DEF Unclaimed

\* A step that leaves the semaphore alone.
LEMMA SemaphoreStutter ==
    ASSUME SemShape, UNCHANGED semVars
    PROVE  /\ SemShape' /\ Unclaimed' = Unclaimed
<1>1. Reserved' = Reserved /\ Pending' = Pending /\ value' = value
      /\ waiters' = waiters /\ fut' = fut
    BY DEF semVars, Reserved, Pending
<1> QED BY <1>1 DEF SemShape, Unclaimed
=============================================================================
