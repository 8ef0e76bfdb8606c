-------------------------- MODULE HandlerChainProofs --------------------------
(***************************************************************************)
(* Permit ownership of handler chains, for any number of chains, branches   *)
(* and permits.                                                             *)
(*                                                                         *)
(* Ownership, the inductive invariant about tokens and tasks, is proved     *)
(* first.  It shows that every step moves permits one at a time between the *)
(* semaphore and a chain, from which PermitConservation, the refinement of  *)
(* PermitPool and the bound on the semaphore's value follow.                *)
(***************************************************************************)
EXTENDS HandlerChain, PermitSemaphoreProofs

ChainShape ==
    /\ next \in Chains \cup {NoChain}
    /\ pc \in [Chains -> [Branches -> Location]]
    /\ held \in [Chains -> BOOLEAN]
    /\ closed \in [Chains -> BOOLEAN]
    /\ suspended \in [Chains -> Nat]
    /\ lapsed \in [Chains -> BOOLEAN]

InBody(c) == {b \in Branches : pc[c][b] = "body"}

\* The counter of the token is the number of branches inside the body.
SuspendedCounted == \A c \in Chains : suspended[c] = Cardinality(InBody(c))

\* Nothing happens to a chain before its dispatch task exists.
FreshUntouched ==
    \A c \in Chains : Fresh(c) =>
        ~held[c] /\ ~closed[c] /\ \A b \in Branches : pc[c][b] = "unborn"

\* resume_lock: one branch at a time waits for the permit, of a chain that
\* does not hold one.
LockExclusive ==
    \A c \in Chains : \A b \in Branches : pc[c][b] = "acquire" =>
        ~held[c] /\ \A d \in Branches : pc[c][d] = "acquire" => d = b

\* The consumer waits on behalf of a chain that has not started.
NextFresh == next # NoChain => Fresh(next)

Ownership ==
    /\ ChainShape
    /\ SuspendedCounted
    /\ FreshUntouched
    /\ LockExclusive
    /\ NextFresh
    /\ SuspendedChainLendsPermit

-----------------------------------------------------------------------------
\* How a task's move changes the set of branches inside the body.
LEMMA BodyCounting ==
    ASSUME ChainShape, NEW c \in Chains, NEW b \in Branches,
           NEW loc \in Location, Goto(c, b, loc)
    PROVE  /\ pc' \in [Chains -> [Branches -> Location]]
           /\ pc'[c][b] = loc
           /\ \A d \in Branches : d # b => pc'[c][d] = pc[c][d]
           /\ \A e \in Chains : e # c => pc'[e] = pc[e] /\ InBody(e)' = InBody(e)
           /\ Cardinality(InBody(c)) \in Nat
           /\ pc[c][b] # "body" /\ loc = "body" =>
                Cardinality(InBody(c)') = Cardinality(InBody(c)) + 1
           /\ pc[c][b] = "body" /\ loc # "body" =>
                Cardinality(InBody(c)') = Cardinality(InBody(c)) - 1
           /\ pc[c][b] # "body" /\ loc # "body" => InBody(c)' = InBody(c)
<1>1. /\ pc' \in [Chains -> [Branches -> Location]]
      /\ pc'[c][b] = loc
      /\ \A d \in Branches : d # b => pc'[c][d] = pc[c][d]
      /\ \A e \in Chains : e # c => pc'[e] = pc[e]
    BY DEF ChainShape, Goto
<1>2. \A e \in Chains : e # c => InBody(e)' = InBody(e)
    BY <1>1 DEF InBody
<1>3. IsFiniteSet(InBody(c)) /\ Cardinality(InBody(c)) \in Nat
    <2>1. InBody(c) \in SUBSET Branches
        BY DEF InBody
    <2> QED BY <2>1, ChainsAssumption, FS_Subset, FS_CardinalityType
<1>4. pc[c][b] # "body" /\ loc = "body" =>
        InBody(c)' = InBody(c) \cup {b} /\ b \notin InBody(c)
    BY <1>1 DEF InBody
<1>5. pc[c][b] = "body" /\ loc # "body" =>
        InBody(c)' = InBody(c) \ {b} /\ b \in InBody(c)
    BY <1>1 DEF InBody
<1>6. pc[c][b] # "body" /\ loc # "body" => InBody(c)' = InBody(c)
    BY <1>1 DEF InBody
<1>7. /\ b \notin InBody(c) => Cardinality(InBody(c) \cup {b}) = Cardinality(InBody(c)) + 1
      /\ b \in InBody(c) => Cardinality(InBody(c) \ {b}) = Cardinality(InBody(c)) - 1
    BY <1>3, FS_AddElement, FS_RemoveElement
<1> QED BY <1>1, <1>2, <1>3, <1>4, <1>5, <1>6, <1>7

LEMMA BodyEmpty ==
    ASSUME ChainShape, SuspendedCounted, NEW c \in Chains
    PROVE  suspended[c] = 0 <=> \A b \in Branches : pc[c][b] # "body"
<1>1. InBody(c) \in SUBSET Branches
    BY DEF InBody
<1>2. IsFiniteSet(InBody(c))
    BY <1>1, ChainsAssumption, FS_Subset
<1>3. suspended[c] = 0 <=> InBody(c) = {}
    BY <1>2, FS_EmptySet DEF SuspendedCounted
<1> QED BY <1>3 DEF InBody

-----------------------------------------------------------------------------
LEMMA OwnershipInit == Init => Ownership
<1> SUFFICES ASSUME Init PROVE Ownership
    OBVIOUS
<1>1. ChainShape
    BY ChainsAssumption DEF Init, ChainShape, Location
<1>2. SuspendedCounted
    <2>1. \A c \in Chains : InBody(c) = {}
        BY DEF Init, InBody
    <2> QED BY <2>1, FS_EmptySet DEF Init, SuspendedCounted
<1>3. FreshUntouched /\ LockExclusive /\ NextFresh /\ SuspendedChainLendsPermit
    BY DEF Init, FreshUntouched, LockExclusive, NextFresh, SuspendedChainLendsPermit
<1> QED BY <1>1, <1>2, <1>3 DEF Ownership

\* Starting or abandoning the dispatch of a chain that is still fresh.
LEMMA StartOwnership ==
    ASSUME Ownership, NEW c \in Chains, Fresh(c), next \in {NoChain, c},
           StartDispatch(c) \/ AbandonDispatch(c), next' = NoChain
    PROVE  Ownership'
<1> USE DEF Ownership
<1>1. PICK loc \in {"running", "done"} : Goto(c, Dispatch, loc)
    BY DEF StartDispatch, AbandonDispatch
<1>2. loc \in Location /\ Dispatch \in Branches /\ pc[c][Dispatch] = "unborn"
    BY ChainsAssumption DEF Location, Fresh
<1>3. /\ pc' \in [Chains -> [Branches -> Location]]
      /\ pc'[c][Dispatch] = loc
      /\ \A d \in Branches : d # Dispatch => pc'[c][d] = pc[c][d]
      /\ \A e \in Chains : e # c => pc'[e] = pc[e]
      /\ \A e \in Chains : InBody(e)' = InBody(e)
    BY <1>1, <1>2, BodyCounting
<1>4. UNCHANGED suspended
    BY DEF StartDispatch, AbandonDispatch
<1>5. ChainShape' /\ SuspendedCounted'
    BY <1>3, <1>4 DEF ChainShape, SuspendedCounted, StartDispatch, AbandonDispatch
<1>6. FreshUntouched'
    BY <1>3 DEF FreshUntouched, Fresh, ChainShape, StartDispatch, AbandonDispatch
<1>7. LockExclusive'
    <2>1. \A b \in Branches : pc'[c][b] # "acquire"
        BY <1>3 DEF FreshUntouched
    <2> QED BY <1>3, <2>1 DEF LockExclusive, ChainShape, StartDispatch, AbandonDispatch
<1>8. suspended[c] = 0
    BY BodyEmpty DEF FreshUntouched
<1>9. SuspendedChainLendsPermit'
    BY <1>4, <1>8 DEF SuspendedChainLendsPermit, FreshUntouched, ChainShape,
        StartDispatch, AbandonDispatch
<1> QED BY <1>5, <1>6, <1>7, <1>9 DEF NextFresh

\* A task of a started chain moves to loc and leaves the token with permit
\* ownership h, closed flag k and s suspended branches.
Move(c, b, loc, h, k, s) ==
    /\ Goto(c, b, loc) /\ loc \in Location \ {"unborn"}
    /\ held' = [held EXCEPT ![c] = h] /\ h \in BOOLEAN
    /\ closed' = [closed EXCEPT ![c] = k] /\ k \in BOOLEAN
    /\ suspended' = [suspended EXCEPT ![c] = s] /\ s \in Nat
    /\ lapsed' \in [Chains -> BOOLEAN] /\ next' = next
    /\ ~Fresh(c)
    /\ \/ pc[c][b] # "body" /\ loc = "body" /\ s = suspended[c] + 1
       \/ pc[c][b] = "body" /\ loc # "body" /\ s = suspended[c] - 1
       \/ pc[c][b] # "body" /\ loc # "body" /\ s = suspended[c]
    /\ h => s = 0 /\ ~k
    /\ loc = "acquire" => ~h /\ ~LockOwned(c)
    /\ h => held[c] \/ \A d \in Branches : d # b => pc[c][d] # "acquire"

LEMMA MoveOwnership ==
    ASSUME Ownership, NEW c \in Chains, NEW b \in Branches,
           NEW loc, NEW h, NEW k, NEW s, Move(c, b, loc, h, k, s)
    PROVE  Ownership'
<1> USE DEF Ownership, Move
<1>1. /\ pc' \in [Chains -> [Branches -> Location]]
      /\ pc'[c][b] = loc
      /\ \A d \in Branches : d # b => pc'[c][d] = pc[c][d]
      /\ \A e \in Chains : e # c => pc'[e] = pc[e] /\ InBody(e)' = InBody(e)
      /\ pc[c][b] # "body" /\ loc = "body" =>
           Cardinality(InBody(c)') = Cardinality(InBody(c)) + 1
      /\ pc[c][b] = "body" /\ loc # "body" =>
           Cardinality(InBody(c)') = Cardinality(InBody(c)) - 1
      /\ pc[c][b] # "body" /\ loc # "body" => InBody(c)' = InBody(c)
    BY BodyCounting
<1>2. /\ held' \in [Chains -> BOOLEAN] /\ held'[c] = h
      /\ closed' \in [Chains -> BOOLEAN] /\ closed'[c] = k
      /\ suspended' \in [Chains -> Nat] /\ suspended'[c] = s
      /\ \A e \in Chains : e # c =>
           held'[e] = held[e] /\ closed'[e] = closed[e] /\ suspended'[e] = suspended[e]
    BY DEF ChainShape
<1>3. ChainShape'
    BY <1>1, <1>2 DEF ChainShape
<1>4. Cardinality(InBody(c)') = s
    BY <1>1 DEF SuspendedCounted
<1>5. SuspendedCounted'
    BY <1>1, <1>2, <1>4 DEF SuspendedCounted
<1>6. ~Fresh(c)' /\ \A e \in Chains : e # c => Fresh(e)' = Fresh(e)
    BY <1>1, ChainsAssumption DEF Fresh
<1>7. FreshUntouched'
    BY <1>1, <1>2, <1>6 DEF FreshUntouched
<1>8. LockExclusive'
    <2>1. ASSUME NEW d1 \in Branches, pc'[c][d1] = "acquire"
          PROVE  ~h /\ \A d2 \in Branches : pc'[c][d2] = "acquire" => d2 = d1
        <3>1. CASE loc = "acquire"
            BY <1>1, <2>1, <3>1 DEF LockOwned
        <3>2. CASE loc # "acquire"
            BY <1>1, <2>1, <3>2 DEF LockExclusive
        <3> QED BY <3>1, <3>2
    <2> QED BY <1>1, <1>2, <2>1 DEF LockExclusive
<1>9. NextFresh'
    BY <1>6 DEF NextFresh, ChainShape
<1>10. SuspendedChainLendsPermit'
    BY <1>2 DEF SuspendedChainLendsPermit
<1> QED BY <1>3, <1>5, <1>7, <1>8, <1>9, <1>10

\* Only the dispatch task of a fresh chain can move in it.
LEMMA NotFresh ==
    ASSUME Ownership, NEW c \in Chains, NEW b \in Branches, pc[c][b] # "unborn"
    PROVE  ~Fresh(c)
BY DEF Ownership, FreshUntouched

\* Leaving suspend_process() once resume_lock is owned.
LEMMA ReacquireOwnership ==
    ASSUME Ownership, NEW c \in Chains, NEW b \in Branches,
           NEW s \in Nat, suspended' = [suspended EXCEPT ![c] = s],
           \/ pc[c][b] = "body" /\ s = suspended[c] - 1
           \/ pc[c][b] = "lock" /\ s = suspended[c],
           ~LockOwned(c), Reacquire(c, b, s), UNCHANGED <<next, closed>>
    PROVE  Ownership'
<1>1. /\ closed' = [closed EXCEPT ![c] = closed[c]] /\ closed[c] \in BOOLEAN
      /\ held[c] \in BOOLEAN /\ next' = next
      /\ held[c] => s = 0 /\ ~closed[c]
    BY DEF Ownership, ChainShape, SuspendedChainLendsPermit
<1>2. ~Fresh(c) /\ \A d \in Branches : pc[c][d] # "acquire"
    BY NotFresh DEF LockOwned
<1>3. CASE /\ Goto(c, b, "running")
           /\ UNCHANGED <<held, lapsed>>
    <2>1. Move(c, b, "running", held[c], closed[c], s)
        BY <1>1, <1>2, <1>3 DEF Move, Location, Ownership, ChainShape
    <2> QED BY <2>1, MoveOwnership
<1>4. CASE /\ Goto(c, b, "running") /\ ~closed[c] /\ s = 0
           /\ held' = [held EXCEPT ![c] = TRUE]
           /\ lapsed' = [lapsed EXCEPT ![c] = FALSE]
    <2>1. Move(c, b, "running", TRUE, closed[c], s)
        BY <1>1, <1>2, <1>4 DEF Move, Location, Ownership, ChainShape
    <2> QED BY <2>1, MoveOwnership
<1>5. CASE /\ Goto(c, b, "acquire") /\ ~held[c]
           /\ UNCHANGED <<held, lapsed>>
    <2>1. Move(c, b, "acquire", FALSE, closed[c], s)
        BY <1>1, <1>2, <1>5 DEF Move, Location, Ownership, ChainShape, LockOwned
    <2> QED BY <2>1, MoveOwnership
<1> QED BY <1>3, <1>4, <1>5 DEF Reacquire

-----------------------------------------------------------------------------
(* Ownership is inductive.                                                  *)

\* Rewrites an unchanged token field the way Move states it.
LEMMA SameToken ==
    ASSUME ChainShape, NEW c \in Chains
    PROVE  /\ held' = held => held' = [held EXCEPT ![c] = held[c]]
           /\ closed' = closed => closed' = [closed EXCEPT ![c] = closed[c]]
           /\ suspended' = suspended =>
                suspended' = [suspended EXCEPT ![c] = suspended[c]]
           /\ held[c] \in BOOLEAN /\ closed[c] \in BOOLEAN /\ suspended[c] \in Nat
BY DEF ChainShape

LEMMA OwnershipStep == Ownership /\ [Next]_vars => Ownership'
<1> SUFFICES ASSUME Ownership, [Next]_vars PROVE Ownership'
    OBVIOUS
<1>a. ChainShape /\ SuspendedChainLendsPermit /\ LockExclusive
    BY DEF Ownership
<1>1. CASE UNCHANGED vars
    <2>1. UNCHANGED chainVars
        BY <1>1 DEF vars, chainVars
    <2> QED BY <2>1 DEF chainVars, Ownership, ChainShape, SuspendedCounted, InBody,
        FreshUntouched, Fresh, LockExclusive, NextFresh, SuspendedChainLendsPermit
<1>2. ASSUME NEW c \in Chains, ConsumeNow(c) PROVE Ownership'
    BY <1>2, StartOwnership DEF ConsumeNow
<1>3. ASSUME NEW c \in Chains, ConsumeWait(c) PROVE Ownership'
    BY <1>3 DEF ConsumeWait, Ownership, ChainShape, SuspendedCounted, InBody,
        FreshUntouched, Fresh, LockExclusive, NextFresh, SuspendedChainLendsPermit
<1>4. ASSUME ConsumerGranted PROVE Ownership'
    <2>1. next \in Chains /\ Fresh(next)
        BY <1>4, <1>a DEF ConsumerGranted, ChainShape, Ownership, NextFresh
    <2> QED BY <1>4, <2>1, StartOwnership DEF ConsumerGranted
<1>5. ASSUME NEW c \in Chains, DispatchEnd(c) PROVE Ownership'
    <2>1. ~Fresh(c) /\ Dispatch \in Branches
        BY <1>5, ChainsAssumption DEF DispatchEnd, Fresh
    <2>2. Move(c, Dispatch, "ended", held[c], closed[c], suspended[c])
        BY <1>5, <1>a, <2>1, SameToken
        DEF DispatchEnd, Move, Location, SuspendedChainLendsPermit, ChainShape
    <2> QED BY <2>1, <2>2, MoveOwnership
<1>6. ASSUME NEW c \in Chains, OnDispatchDone(c) PROVE Ownership'
    <2>1. ~Fresh(c) /\ Dispatch \in Branches
        BY <1>6, ChainsAssumption DEF OnDispatchDone, Fresh
    <2>2. Move(c, Dispatch, "done", FALSE, TRUE, suspended[c])
        BY <1>6, <1>a, <2>1, SameToken DEF OnDispatchDone, Move, Location, ChainShape
    <2> QED BY <2>1, <2>2, MoveOwnership
<1>7. ASSUME NEW c \in Chains, NEW b \in Branches, Spawn(c, b) PROVE Ownership'
    <2>1. ~Fresh(c)
        BY <1>7, NotFresh DEF Spawn
    <2>2. Move(c, b, "running", held[c], closed[c], suspended[c])
        BY <1>7, <1>a, <2>1, SameToken
        DEF Spawn, Move, Location, SuspendedChainLendsPermit, ChainShape
    <2> QED BY <2>2, MoveOwnership
<1>8. ASSUME NEW c \in Chains, NEW b \in Branches, ChildEnd(c, b) PROVE Ownership'
    <2>1. ~Fresh(c)
        BY <1>8, NotFresh DEF ChildEnd
    <2>2. Move(c, b, "done", held[c], closed[c], suspended[c])
        BY <1>8, <1>a, <2>1, SameToken
        DEF ChildEnd, Move, Location, SuspendedChainLendsPermit, ChainShape
    <2> QED BY <2>2, MoveOwnership
<1>9. ASSUME NEW c \in Chains, NEW b \in Branches, Suspend(c, b) PROVE Ownership'
    <2>1. ~Fresh(c)
        BY <1>9, NotFresh DEF Suspend
    <2>2. Move(c, b, "body", FALSE, closed[c], suspended[c] + 1)
        BY <1>9, <1>a, <2>1, SameToken DEF Suspend, Move, Location, ChainShape
    <2> QED BY <2>2, MoveOwnership
<1>10. ASSUME NEW c \in Chains, NEW b \in Branches, EndSuspend(c, b) PROVE Ownership'
    <2>1. ~Fresh(c)
        BY <1>10, NotFresh DEF EndSuspend
    <2>2. CASE suspended[c] > 1 /\ Goto(c, b, "running") /\ UNCHANGED <<held, lapsed>>
        <3>1. Move(c, b, "running", held[c], closed[c], suspended[c] - 1)
            BY <1>10, <1>a, <2>1, <2>2, SameToken
            DEF EndSuspend, Move, Location, SuspendedChainLendsPermit, ChainShape
        <3> QED BY <3>1, MoveOwnership
    <2>3. CASE suspended[c] = 1 /\ Goto(c, b, "lock") /\ UNCHANGED <<held, lapsed>>
        <3>1. Move(c, b, "lock", held[c], closed[c], 0)
            BY <1>10, <1>a, <2>1, <2>3, SameToken
            DEF EndSuspend, Move, Location, SuspendedChainLendsPermit, ChainShape
        <3> QED BY <3>1, MoveOwnership
    <2>4. CASE suspended[c] = 1 /\ ~LockOwned(c) /\ Reacquire(c, b, 0)
        <3>1. /\ suspended' = [suspended EXCEPT ![c] = 0] /\ 0 \in Nat
              /\ pc[c][b] = "body" /\ 0 = suspended[c] - 1
              /\ UNCHANGED <<next, closed>>
            BY <1>10, <2>4 DEF EndSuspend
        <3> HIDE <1>10
        <3> QED BY <2>4, <3>1, ReacquireOwnership
    <2> QED BY <1>10, <2>2, <2>3, <2>4 DEF EndSuspend
<1>11. ASSUME NEW c \in Chains, NEW b \in Branches, TakeLock(c, b) PROVE Ownership'
    BY <1>11, <1>a, SameToken, ReacquireOwnership DEF TakeLock
<1>12. ASSUME NEW c \in Chains, NEW b \in Branches, PermitGranted(c, b) PROVE Ownership'
    <2>1. ~Fresh(c)
        BY <1>12, NotFresh DEF PermitGranted
    <2>2. ~held[c] /\ \A d \in Branches : d # b => pc[c][d] # "acquire"
        BY <1>12, <1>a DEF PermitGranted, LockExclusive
    <2>3. CASE (closed[c] \/ suspended[c] > 0) /\ UNCHANGED <<held, lapsed>>
        <3>1. Move(c, b, "running", FALSE, closed[c], suspended[c])
            BY <1>12, <1>a, <2>1, <2>2, <2>3, SameToken
            DEF PermitGranted, Move, Location, ChainShape
        <3> QED BY <3>1, MoveOwnership
    <2>4. CASE /\ ~closed[c] /\ ~(suspended[c] > 0)
               /\ held' = [held EXCEPT ![c] = TRUE]
               /\ lapsed' = [lapsed EXCEPT ![c] = FALSE]
        <3>1. Move(c, b, "running", TRUE, closed[c], suspended[c])
            BY <1>12, <1>a, <2>1, <2>2, <2>4, SameToken
            DEF PermitGranted, Move, Location, ChainShape
        <3> QED BY <3>1, MoveOwnership
    <2> QED BY <1>12, <2>3, <2>4 DEF PermitGranted
<1>13. ASSUME NEW c \in Chains, NEW b \in Branches, CancelLockWait(c, b)
       PROVE  Ownership'
    <2>1. ~Fresh(c)
        BY <1>13, NotFresh DEF CancelLockWait
    <2>2. Move(c, b, "lockCancelled", held[c], closed[c], suspended[c])
        BY <1>13, <1>a, <2>1, SameToken
        DEF CancelLockWait, Move, Location, SuspendedChainLendsPermit, ChainShape
    <2> QED BY <2>2, MoveOwnership
<1>14. ASSUME NEW c \in Chains, NEW b \in Branches, CancelPermitWait(c, b)
       PROVE  Ownership'
    BY <1>14 DEF CancelPermitWait, chainVars, Ownership, ChainShape, SuspendedCounted,
        InBody, FreshUntouched, Fresh, LockExclusive, NextFresh, SuspendedChainLendsPermit
<1>15. ASSUME NEW c \in Chains, NEW b \in Branches, LockWaitCancelled(c, b)
       PROVE  Ownership'
    <2>1. ~Fresh(c)
        BY <1>15, NotFresh DEF LockWaitCancelled
    <2>2. Move(c, b, "running", held[c], closed[c], suspended[c])
        BY <1>15, <1>a, <2>1, SameToken
        DEF LockWaitCancelled, Move, Location, SuspendedChainLendsPermit, ChainShape
    <2> QED BY <2>2, MoveOwnership
<1>16. ASSUME NEW c \in Chains, NEW b \in Branches, PermitWaitCancelled(c, b)
       PROVE  Ownership'
    <2>1. ~Fresh(c)
        BY <1>16, NotFresh DEF PermitWaitCancelled
    <2>2. Move(c, b, "running", held[c], closed[c], suspended[c])
        BY <1>16, <1>a, <2>1, SameToken
        DEF PermitWaitCancelled, Move, Location, SuspendedChainLendsPermit, ChainShape
    <2> QED BY <2>2, MoveOwnership
<1> QED BY <1>1, <1>2, <1>3, <1>4, <1>5, <1>6, <1>7, <1>8, <1>9, <1>10, <1>11,
    <1>12, <1>13, <1>14, <1>15, <1>16
    DEF Next, ConsumerStep, ResumeStep, CancelledStep

THEOREM OwnershipInvariant == Spec => []Ownership
<1> QED BY OwnershipInit, OwnershipStep, PTL DEF Spec

-----------------------------------------------------------------------------
(* Where the permits are.                                                   *)

LEMMA HoldersFinite ==
    IsFiniteSet(Holders) /\ Cardinality(Holders) \in Nat
<1>1. Holders \in SUBSET Chains
    BY DEF Holders
<1> QED BY <1>1, ChainsAssumption, FS_Subset, FS_CardinalityType

LEMMA HoldersChange ==
    ASSUME ChainShape, NEW c \in Chains
    PROVE  /\ held' = held => Holders' = Holders
           /\ ~held[c] /\ held' = [held EXCEPT ![c] = TRUE] =>
                /\ c \notin Holders /\ Holders' = Holders \cup {c}
                /\ Cardinality(Holders') = Cardinality(Holders) + 1
           /\ held[c] /\ held' = [held EXCEPT ![c] = FALSE] =>
                /\ c \in Holders /\ Holders' = Holders \ {c}
                /\ Cardinality(Holders') = Cardinality(Holders) - 1
           /\ ~held[c] /\ held' = [held EXCEPT ![c] = FALSE] => Holders' = Holders
<1>1. /\ held' = held => Holders' = Holders
      /\ ~held[c] /\ held' = [held EXCEPT ![c] = TRUE] =>
           c \notin Holders /\ Holders' = Holders \cup {c}
      /\ held[c] /\ held' = [held EXCEPT ![c] = FALSE] =>
           c \in Holders /\ Holders' = Holders \ {c}
      /\ ~held[c] /\ held' = [held EXCEPT ![c] = FALSE] => Holders' = Holders
    BY DEF ChainShape, Holders
<1>2. /\ c \notin Holders => Cardinality(Holders \cup {c}) = Cardinality(Holders) + 1
      /\ c \in Holders => Cardinality(Holders \ {c}) = Cardinality(Holders) - 1
    BY HoldersFinite, FS_AddElement, FS_RemoveElement
<1> QED BY <1>1, <1>2

\* A permit moves from the semaphore to a chain, back, or not at all.
PermitMove ==
    \/ Unclaimed' = Unclaimed /\ Holders' = Holders
    \/ \E c \in Chains :
         /\ Unclaimed' = Unclaimed - 1
         /\ c \notin Holders /\ Holders' = Holders \cup {c}
         /\ Cardinality(Holders') = Cardinality(Holders) + 1
    \/ \E c \in Chains :
         /\ Unclaimed' = Unclaimed + 1
         /\ c \in Holders /\ Holders' = Holders \ {c}
         /\ Cardinality(Holders') = Cardinality(Holders) - 1

Accounted ==
    /\ SemShape' /\ PermitMove

LEMMA ReacquireAccounted ==
    ASSUME Ownership, SemShape, NEW c \in Chains, NEW b \in Branches, NEW s,
           Reacquire(c, b, s)
    PROVE  Accounted
<1>a. ChainShape /\ <<c, b>> \in Users
    BY ChainsAssumption DEF Ownership, Tasks
<1>1. CASE UNCHANGED <<semVars, held>>
    BY <1>1, <1>a, SemaphoreStutter, HoldersChange DEF Accounted, PermitMove
<1>2. CASE AcquireNow /\ ~held[c] /\ held' = [held EXCEPT ![c] = TRUE]
    BY <1>2, <1>a, AcquireNowEffect, HoldersChange DEF Accounted, PermitMove
<1>3. CASE Enqueue(<<c, b>>) /\ UNCHANGED held
    BY <1>3, <1>a, EnqueueEffect, HoldersChange DEF Accounted, PermitMove
<1> QED BY <1>1, <1>2, <1>3 DEF Reacquire

\* Giving the chain's permit back, if it has one.
LEMMA GiveAccounted ==
    ASSUME Ownership, SemShape, NEW c \in Chains,
           IF held[c] THEN Release ELSE UNCHANGED semVars,
           held' = [held EXCEPT ![c] = FALSE]
    PROVE  Accounted
<1>a. ChainShape
    BY DEF Ownership
<1>1. CASE held[c]
    BY <1>1, <1>a, ReleaseEffect, HoldersChange DEF Accounted, PermitMove
<1>2. CASE ~held[c]
    BY <1>2, <1>a, SemaphoreStutter, HoldersChange DEF Accounted, PermitMove
<1> QED BY <1>1, <1>2

LEMMA AccountedStep ==
    ASSUME Ownership, SemShape, [Next]_vars
    PROVE  Accounted
<1>a. ChainShape /\ LockExclusive /\ FreshUntouched /\ NextFresh
    BY DEF Ownership
<1>b. Consumer \in Users /\ \A c \in Chains, b \in Branches : <<c, b>> \in Users
    BY ChainsAssumption DEF Tasks
<1>c. ASSUME UNCHANGED <<semVars, held>> PROVE Accounted
    <2>1. Holders' = Holders
        BY <1>c DEF Holders
    <2> QED BY <1>c, <2>1, SemaphoreStutter DEF Accounted, PermitMove
<1>1. CASE UNCHANGED vars
    BY <1>1, <1>c DEF vars, semVars
<1>2. ASSUME NEW c \in Chains, ConsumeNow(c) PROVE Accounted
    <2>1. ~held[c]
        BY <1>2, <1>a DEF ConsumeNow, FreshUntouched
    <2>2. CASE AcquireNow /\ StartDispatch(c)
        BY <2>1, <2>2, <1>a, AcquireNowEffect, HoldersChange
        DEF StartDispatch, Accounted, PermitMove
    <2>3. CASE UNCHANGED semVars /\ AbandonDispatch(c)
        BY <2>3, <1>c DEF AbandonDispatch
    <2> QED BY <1>2, <2>2, <2>3 DEF ConsumeNow
<1>3. ASSUME NEW c \in Chains, ConsumeWait(c) PROVE Accounted
    <2>1. Holders' = Holders
        BY <1>3 DEF ConsumeWait, Holders
    <2> QED BY <1>3, <1>b, <2>1, EnqueueEffect DEF ConsumeWait, Accounted, PermitMove
<1>4. ASSUME ConsumerGranted PROVE Accounted
    <2>1. next \in Chains /\ ~held[next]
        BY <1>4, <1>a DEF ConsumerGranted, ChainShape, NextFresh, FreshUntouched
    <2>2. CASE Leave(Consumer, 0) /\ StartDispatch(next)
        <3>1. SemShape' /\ Unclaimed' = Unclaimed + 0 - 1
            BY <1>4, <1>b, <2>2, LeaveEffect DEF ConsumerGranted
        <3>2. Unclaimed' = Unclaimed - 1
            BY <3>1, UserSetsFinite DEF Unclaimed, SemShape
        <3> QED BY <1>a, <2>1, <2>2, <3>1, <3>2, HoldersChange
            DEF StartDispatch, Accounted, PermitMove
    <2>3. CASE Leave(Consumer, 1) /\ AbandonDispatch(next)
        <3>1. SemShape' /\ Unclaimed' = Unclaimed + 1 - 1
            BY <1>4, <1>b, <2>3, LeaveEffect DEF ConsumerGranted
        <3>2. Unclaimed' = Unclaimed
            BY <3>1, UserSetsFinite DEF Unclaimed, SemShape
        <3>3. Holders' = Holders
            BY <2>3 DEF AbandonDispatch, Holders
        <3> QED BY <3>1, <3>2, <3>3 DEF Accounted, PermitMove
    <2> QED BY <1>4, <2>2, <2>3 DEF ConsumerGranted
<1>5. ASSUME NEW c \in Chains, DispatchEnd(c) PROVE Accounted
    BY <1>5, <1>c DEF DispatchEnd
<1>6. ASSUME NEW c \in Chains, OnDispatchDone(c) PROVE Accounted
    BY <1>6, GiveAccounted DEF OnDispatchDone
<1>7. ASSUME NEW c \in Chains, NEW b \in Branches,
             \/ Spawn(c, b) \/ ChildEnd(c, b)
             \/ CancelLockWait(c, b) \/ LockWaitCancelled(c, b)
      PROVE  Accounted
    BY <1>7, <1>c DEF Spawn, ChildEnd, CancelLockWait, LockWaitCancelled
<1>8. ASSUME NEW c \in Chains, NEW b \in Branches, Suspend(c, b) PROVE Accounted
    BY <1>8, GiveAccounted DEF Suspend
<1>9. ASSUME NEW c \in Chains, NEW b \in Branches, EndSuspend(c, b) PROVE Accounted
    BY <1>9, <1>c, ReacquireAccounted DEF EndSuspend
<1>10. ASSUME NEW c \in Chains, NEW b \in Branches, TakeLock(c, b) PROVE Accounted
    BY <1>10, ReacquireAccounted DEF TakeLock
<1>11. ASSUME NEW c \in Chains, NEW b \in Branches, PermitGranted(c, b)
       PROVE  Accounted
    <2>1. ~held[c] /\ fut[<<c, b>>] = "granted" /\ <<c, b>> \in Users
        BY <1>11, <1>a, <1>b DEF PermitGranted, LockExclusive
    <2>2. CASE Leave(<<c, b>>, 1) /\ UNCHANGED held
        <3>1. SemShape' /\ Unclaimed' = Unclaimed + 1 - 1
            BY <2>1, <2>2, LeaveEffect
        <3>2. Unclaimed' = Unclaimed
            BY <3>1, UserSetsFinite DEF Unclaimed, SemShape
        <3>3. Holders' = Holders
            BY <2>2 DEF Holders
        <3> QED BY <3>1, <3>2, <3>3 DEF Accounted, PermitMove
    <2>3. CASE Leave(<<c, b>>, 0) /\ held' = [held EXCEPT ![c] = TRUE]
        <3>1. SemShape' /\ Unclaimed' = Unclaimed + 0 - 1
            BY <2>1, <2>3, LeaveEffect
        <3>2. Unclaimed' = Unclaimed - 1
            BY <3>1, UserSetsFinite DEF Unclaimed, SemShape
        <3> QED BY <1>a, <2>1, <2>3, <3>1, <3>2, HoldersChange DEF Accounted, PermitMove
    <2> QED BY <1>11, <2>2, <2>3 DEF PermitGranted
<1>12. ASSUME NEW c \in Chains, NEW b \in Branches, CancelPermitWait(c, b)
       PROVE  Accounted
    <2>1. Holders' = Holders
        BY <1>12 DEF CancelPermitWait, chainVars, Holders
    <2> QED BY <1>12, <1>b, <2>1, CancelWaitEffect
        DEF CancelPermitWait, Accounted, PermitMove
<1>13. ASSUME NEW c \in Chains, NEW b \in Branches, PermitWaitCancelled(c, b)
       PROVE  Accounted
    <2>1. Holders' = Holders /\ <<c, b>> \in Users
        BY <1>13, <1>b DEF PermitWaitCancelled, Holders
    <2>2. \/ SemShape' /\ Unclaimed' = Unclaimed + 0 - 0
          \/ SemShape' /\ Unclaimed' = Unclaimed + 1 - 1
        BY <1>13, <2>1, LeaveEffect DEF PermitWaitCancelled
    <2>3. Unclaimed' = Unclaimed
        BY <2>2, UserSetsFinite DEF Unclaimed, SemShape
    <2> QED BY <2>1, <2>2, <2>3 DEF Accounted, PermitMove
<1> QED BY <1>1, <1>2, <1>3, <1>4, <1>5, <1>6, <1>7, <1>8, <1>9, <1>10, <1>11,
    <1>12, <1>13
    DEF Next, ConsumerStep, ResumeStep, CancelledStep

\* The inductive invariant: ownership of the tokens, and every permit in one
\* place.
PermitInv == Ownership /\ SemShape /\ PermitConservation

LEMMA PermitInvInit == Init => PermitInv
<1> SUFFICES ASSUME Init PROVE PermitInv
    OBVIOUS
<1>1. SemShape /\ Pending = {} /\ Reserved = {} /\ Holders = {}
    BY PermitsAssumption
    DEF Init, SemInit, SemShape, FutState, Pending, Reserved, Holders
<1>2. PermitConservation
    BY <1>1, FS_EmptySet, PermitsAssumption DEF Init, SemInit, PermitConservation
<1> QED BY <1>1, <1>2, OwnershipInit DEF PermitInv

LEMMA PermitInvStep == PermitInv /\ [Next]_vars => PermitInv'
<1> SUFFICES ASSUME PermitInv, [Next]_vars PROVE PermitInv'
    OBVIOUS
<1>1. Ownership' /\ Accounted
    BY OwnershipStep, AccountedStep DEF PermitInv
<1>2. /\ value \in Nat /\ value' \in Nat
      /\ Cardinality(Reserved) \in Nat /\ Cardinality(Reserved') \in Nat
      /\ Cardinality(Holders) \in Nat
    BY <1>1, UserSetsFinite, HoldersFinite DEF PermitInv, SemShape, Accounted
<1>3. value + Cardinality(Reserved) + Cardinality(Holders) = Permits
    BY DEF PermitInv, PermitConservation
<1>4. value' + Cardinality(Reserved') + Cardinality(Holders') = Permits
    BY <1>1, <1>2, <1>3 DEF Accounted, PermitMove, Unclaimed
<1>5. PermitConservation'
    BY <1>4 DEF PermitConservation
<1> QED BY <1>1, <1>5 DEF PermitInv, Accounted

THEOREM PermitInvariant == Spec => []PermitInv
<1> QED BY PermitInvInit, PermitInvStep, PTL DEF Spec

\* No interleaving of suspension, cancellation and completion loses a permit
\* or returns one twice.
THEOREM PermitsConserved == Spec => []PermitConservation
<1>1. PermitInv => PermitConservation
    BY DEF PermitInv
<1> QED BY <1>1, PermitInvariant, PTL

\* A chain with a suspended branch, or whose dispatch is over, has no permit.
THEOREM SuspendedChainsLend == Spec => []SuspendedChainLendsPermit
<1>1. PermitInv => SuspendedChainLendsPermit
    BY DEF PermitInv, Ownership
<1> QED BY <1>1, PermitInvariant, PTL

\* Type correctness; value <= Permits says that BoundedSemaphore.release()
\* never raises ValueError.
THEOREM TypeCorrect == Spec => []TypeOK
<1>1. ASSUME PermitInv PROVE TypeOK
    <2>1. value \in 0..Permits
        BY <1>1, UserSetsFinite, HoldersFinite, PermitsAssumption
        DEF PermitInv, SemShape, PermitConservation
    <2>2. \A c \in Chains : suspended[c] \in 0..Cardinality(Branches)
        <3>1. ASSUME NEW c \in Chains
              PROVE  /\ Cardinality(InBody(c)) \in Nat
                     /\ Cardinality(InBody(c)) <= Cardinality(Branches)
            <4>1. InBody(c) \in SUBSET Branches
                BY DEF InBody
            <4> QED BY <4>1, ChainsAssumption, FS_Subset, FS_CardinalityType
        <3> QED BY <1>1, <3>1, ChainsAssumption, FS_CardinalityType
            DEF PermitInv, Ownership, SuspendedCounted
    <2>3. suspended \in [Chains -> 0..Cardinality(Branches)]
        BY <1>1, <2>2 DEF PermitInv, Ownership, ChainShape
    <2> QED BY <1>1, <2>1, <2>3
        DEF TypeOK, SemTypeOK, PermitInv, SemShape, Ownership, ChainShape
<1> QED BY <1>1, PermitInvariant, PTL

-----------------------------------------------------------------------------
(* The chain runs under a permit again once its last branch has resumed.    *)

LEMMA ResumedStep ==
    Ownership /\ ResumedChainHoldsPermit /\ [Next]_vars => ResumedChainHoldsPermit'
<1> SUFFICES ASSUME Ownership, ResumedChainHoldsPermit, [Next]_vars,
                    NEW e \in Chains, Open(e)', Settled(e)'
             PROVE  held'[e] \/ lapsed'[e]
    BY DEF ResumedChainHoldsPermit
<1>a. ChainShape /\ SuspendedCounted
    BY DEF Ownership
<1>b. Dispatch \in Branches
    BY ChainsAssumption
\* A step that does not concern e, or leaves it as settled as it was.
<1>c. ASSUME Open(e) /\ Settled(e), held'[e] = held[e], lapsed[e] => lapsed'[e]
      PROVE  held'[e] \/ lapsed'[e]
    BY <1>c DEF ResumedChainHoldsPermit
<1>d. ASSUME pc'[e] = pc[e], held'[e] = held[e], closed'[e] = closed[e],
             lapsed'[e] = lapsed[e]
      PROVE  held'[e] \/ lapsed'[e]
    BY <1>c, <1>d DEF Open, Fresh, Settled
<1>1. CASE UNCHANGED chainVars
    BY <1>1, <1>d DEF chainVars
<1>2. ASSUME NEW c \in Chains, StartDispatch(c) \/ AbandonDispatch(c)
      PROVE  held'[e] \/ lapsed'[e]
    <2>1. CASE e = c
        BY <1>2, <1>a, <2>1 DEF StartDispatch, AbandonDispatch, ChainShape, Open
    <2>2. CASE e # c
        BY <1>2, <1>a, <1>d, <2>2 DEF StartDispatch, AbandonDispatch, ChainShape, Goto
    <2> QED BY <2>1, <2>2
<1>3. ASSUME NEW c \in Chains, DispatchEnd(c) PROVE held'[e] \/ lapsed'[e]
    <2>1. Open(e) /\ Settled(e)
        BY <1>3, <1>a, <1>b DEF DispatchEnd, Goto, ChainShape, Open, Fresh, Settled
    <2> QED BY <1>3, <1>c, <2>1 DEF DispatchEnd
<1>4. ASSUME NEW c \in Chains, OnDispatchDone(c) PROVE held'[e] \/ lapsed'[e]
    <2>1. e # c
        BY <1>4, <1>a DEF OnDispatchDone, ChainShape, Open
    <2> QED BY <1>4, <1>a, <1>d, <2>1 DEF OnDispatchDone, ChainShape, Goto
<1>5. ASSUME NEW c \in Chains, NEW b \in Branches, e # c,
             \/ Suspend(c, b) \/ EndSuspend(c, b) \/ TakeLock(c, b)
             \/ PermitGranted(c, b) \/ LockWaitCancelled(c, b)
             \/ PermitWaitCancelled(c, b)
      PROVE  held'[e] \/ lapsed'[e]
    BY <1>5, <1>a, <1>d DEF Suspend, EndSuspend, TakeLock, PermitGranted,
        LockWaitCancelled, PermitWaitCancelled, Reacquire, Goto, ChainShape
<1>6. ASSUME NEW c \in Chains, NEW b \in Branches, Spawn(c, b) \/ ChildEnd(c, b)
      PROVE  held'[e] \/ lapsed'[e]
    <2>1. Open(e) /\ Settled(e)
        BY <1>6, <1>a, <1>b DEF Spawn, ChildEnd, Goto, ChainShape, Open, Fresh, Settled
    <2> QED BY <1>6, <1>c, <2>1 DEF Spawn, ChildEnd
\* From here on the step is one of a branch of e.
<1>7. ASSUME NEW b \in Branches, Suspend(e, b) PROVE FALSE
    <2>1. pc'[e][b] = "body"
        BY <1>7, <1>a DEF Suspend, Goto, ChainShape
    <2> QED BY <2>1 DEF Settled
<1>8. ASSUME NEW b \in Branches, NEW d \in Branches, d # b, pc[e][d] = "body",
             NEW loc, Goto(e, b, loc)
      PROVE  FALSE
    <2>1. pc'[e][d] = "body"
        BY <1>8, <1>a DEF Goto, ChainShape
    <2> QED BY <2>1 DEF Settled
<1>9. ASSUME NEW b \in Branches, NEW s \in Nat, closed'[e] = closed[e],
             Reacquire(e, b, s),
             s > 0 => \E d \in Branches : d # b /\ pc[e][d] = "body"
      PROVE  held'[e] \/ lapsed'[e]
    <2>1. ~closed[e]
        BY <1>9 DEF Open
    <2>2. CASE (held[e] \/ s > 0) /\ Goto(e, b, "running") /\ UNCHANGED held
        <3>1. CASE held[e]
            BY <2>2, <3>1
        <3>2. CASE s > 0
            BY <1>8, <1>9, <2>2, <3>2
        <3> QED BY <2>2, <3>1, <3>2
    <2>3. CASE held' = [held EXCEPT ![e] = TRUE]
        BY <2>3, <1>a DEF ChainShape
    <2>4. CASE Goto(e, b, "acquire")
        <3>1. pc'[e][b] = "acquire"
            BY <2>4, <1>a DEF Goto, ChainShape
        <3> QED BY <3>1 DEF Settled
    <2> QED BY <1>9, <2>1, <2>2, <2>3, <2>4 DEF Reacquire
<1>10. ASSUME NEW b \in Branches, EndSuspend(e, b) PROVE held'[e] \/ lapsed'[e]
    <2>1. ASSUME suspended[e] > 1
          PROVE  \E d \in Branches : d # b /\ pc[e][d] = "body"
        <3>1. InBody(e) \in SUBSET Branches /\ Cardinality(InBody(e)) > 1
            BY <1>a, <2>1 DEF InBody, SuspendedCounted
        <3>2. InBody(e) # {b}
            BY <3>1, FS_Singleton
        <3>3. b \in InBody(e)
            BY <1>10 DEF EndSuspend, InBody
        <3> QED BY <3>2, <3>3 DEF InBody
    <2>2. CASE suspended[e] > 1 /\ Goto(e, b, "running")
        BY <1>8, <2>1, <2>2
    <2>3. CASE Goto(e, b, "lock")
        <3>1. pc'[e][b] = "lock"
            BY <2>3, <1>a DEF Goto, ChainShape
        <3> QED BY <3>1 DEF Settled
    <2>4. CASE Reacquire(e, b, 0)
        BY <1>9, <1>10, <2>4 DEF EndSuspend
    <2> QED BY <1>10, <2>2, <2>3, <2>4 DEF EndSuspend
\* A branch that waits is not inside the body, so a suspended one is another.
<1>11. ASSUME NEW b \in Branches, pc[e][b] # "body", suspended[e] > 0
       PROVE  \E d \in Branches : d # b /\ pc[e][d] = "body"
    BY <1>11, <1>a, BodyEmpty
<1>12. ASSUME NEW b \in Branches, TakeLock(e, b) PROVE held'[e] \/ lapsed'[e]
    <2>1. suspended[e] \in Nat /\ pc[e][b] # "body"
        BY <1>12, <1>a DEF ChainShape, TakeLock
    <2> QED BY <1>9, <1>11, <1>12, <2>1 DEF TakeLock
<1>13. ASSUME NEW b \in Branches, PermitGranted(e, b) PROVE held'[e] \/ lapsed'[e]
    <2>1. ~closed[e] /\ pc[e][b] # "body"
        BY <1>13 DEF Open, PermitGranted
    <2>2. ~(suspended[e] > 0)
        BY <1>8, <1>11, <1>13, <2>1 DEF PermitGranted
    <2> QED BY <1>13, <1>a, <2>1, <2>2 DEF PermitGranted, ChainShape
<1>14. ASSUME NEW b \in Branches, LockWaitCancelled(e, b) \/ PermitWaitCancelled(e, b)
       PROVE  held'[e] \/ lapsed'[e]
    BY <1>14, <1>a DEF LockWaitCancelled, PermitWaitCancelled, ChainShape
<1>15. ASSUME NEW c \in Chains, NEW b \in Branches, CancelLockWait(c, b)
       PROVE  held'[e] \/ lapsed'[e]
    <2>1. CASE e # c
        BY <1>15, <1>a, <1>d, <2>1 DEF CancelLockWait, Goto, ChainShape
    <2>2. CASE e = c
        <3>1. pc'[e][b] = "lockCancelled"
            BY <1>15, <1>a, <2>2 DEF CancelLockWait, Goto, ChainShape
        <3> QED BY <3>1 DEF Settled
    <2> QED BY <2>1, <2>2
<1>16. ASSUME NEW c \in Chains, ConsumeWait(c) PROVE held'[e] \/ lapsed'[e]
    BY <1>16, <1>d DEF ConsumeWait
<1>17. ASSUME ConsumerGranted PROVE held'[e] \/ lapsed'[e]
    <2>1. next \in Chains
        BY <1>17, <1>a DEF ConsumerGranted, ChainShape
    <2> QED BY <1>17, <1>2, <2>1 DEF ConsumerGranted
<1>18. ASSUME NEW c \in Chains, NEW b \in Branches,
              \/ Suspend(c, b) \/ EndSuspend(c, b) \/ TakeLock(c, b)
              \/ PermitGranted(c, b) \/ LockWaitCancelled(c, b)
              \/ PermitWaitCancelled(c, b)
       PROVE  held'[e] \/ lapsed'[e]
    <2>1. CASE e # c
        BY <1>5, <1>18, <2>1
    <2>2. CASE e = c
        BY <1>7, <1>10, <1>12, <1>13, <1>14, <1>18, <2>2
    <2> QED BY <2>1, <2>2
<1>19. CASE Next
    BY <1>19, <1>1, <1>2, <1>3, <1>4, <1>6, <1>15, <1>16, <1>17, <1>18
    DEF Next, ConsumerStep, ConsumeNow, ResumeStep, CancelledStep, CancelPermitWait
<1>20. CASE UNCHANGED vars
    BY <1>20, <1>1 DEF vars, chainVars
<1> QED BY <1>19, <1>20

\* A handler that has left suspend_process() runs under its chain's permit,
\* unless a cancellation interrupted the reacquisition.
THEOREM ResumedChainsHold == Spec => []ResumedChainHoldsPermit
<1>1. Init => ResumedChainHoldsPermit
    BY ChainsAssumption DEF Init, ResumedChainHoldsPermit, Open, Fresh
<1> QED BY <1>1, ResumedStep, OwnershipInvariant, PTL DEF Spec

-----------------------------------------------------------------------------
(* Refinement.                                                              *)

\* The chains use their permits as PermitPool says: one chain at a time takes
\* a permit that is free or gives its own back, never more than Permits.
THEOREM ImplementsPermitPool == Spec => PoolSpec
<1>1. Init => Pool!Init
    <2> SUFFICES ASSUME Init PROVE Pool!Init
        OBVIOUS
    <2>1. Reserved = {} /\ Holders = {} /\ value = Permits
        BY DEF Init, SemInit, Reserved, Holders
    <2> QED BY <2>1, FS_EmptySet, PermitsAssumption DEF Pool!Init
<1>2. ASSUME PermitInv, PermitInv', [Next]_vars
      PROVE  [Pool!Next]_<<Unclaimed, Holders>>
    <2>1. PermitMove
        BY <1>2, AccountedStep DEF PermitInv, Accounted
    <2>2. Unclaimed \in Nat /\ Unclaimed' \in Nat
        BY <1>2, UserSetsFinite DEF Unclaimed, PermitInv, SemShape
    <2>3. ASSUME NEW c \in Chains, c \notin Holders, Holders' = Holders \cup {c},
                 Unclaimed' = Unclaimed - 1
          PROVE  Pool!Take(c)
        BY <2>2, <2>3 DEF Pool!Take, Unclaimed
    <2>4. ASSUME NEW c \in Chains, c \in Holders, Holders' = Holders \ {c},
                 Unclaimed' = Unclaimed + 1
          PROVE  Pool!Give(c)
        BY <2>4 DEF Pool!Give, Unclaimed
    <2> QED BY <2>1, <2>3, <2>4 DEF PermitMove, Pool!Next
<1> QED BY <1>1, <1>2, PermitInvariant, PTL DEF Spec, PoolSpec, Pool!Spec, Unclaimed
=============================================================================
