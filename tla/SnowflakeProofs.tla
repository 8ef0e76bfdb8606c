--------------------------- MODULE SnowflakeProofs ---------------------------
(***************************************************************************)
(* Proofs about Snowflake: for all options, IDs are unique up to the fourth *)
(* turn-back, and they increase until the first one.                        *)
(***************************************************************************)
EXTENDS Snowflake, FiniteSetTheorems, TLAPS

\* Ticks leave room for all the numbers of one tick.
LEMMA TicksApart ==
    ASSUME NEW K \in Nat, NEW a \in Int, NEW b \in Int, a < b
    PROVE  a * K + K <= b * K
<1>1. PICK m \in Nat : b = a + 1 + m
    <2>1. b - a - 1 \in Nat /\ b = a + 1 + (b - a - 1) OBVIOUS
    <2> QED BY <2>1
<1>2. b * K = a * K + K + m * K BY <1>1
<1>3. m * K >= 0 OBVIOUS
<1>4. a * K \in Int /\ m * K \in Int OBVIOUS
<1> QED BY <1>2, <1>3, <1>4

Numbers == 1..SeqSpan

LEMMA Spans == /\ WorkerSpan * SeqSpan \in Nat /\ SeqSpan <= WorkerSpan * SeqSpan
               /\ Worker * SeqSpan \in Nat
<1>1. /\ SeqSpan \in Nat /\ WorkerSpan \in Nat /\ WorkerSpan >= 1 /\ Worker \in Nat
    BY OptionsAssumption
<1>2. WorkerSpan * SeqSpan \in Nat /\ Worker * SeqSpan \in Nat BY <1>1
<1>3. CASE WorkerSpan = 1 BY <1>1, <1>2, <1>3
<1>4. CASE 1 < WorkerSpan
    <2>1. 1 * SeqSpan + SeqSpan <= WorkerSpan * SeqSpan BY <1>1, <1>4, TicksApart
    <2> QED BY <2>1, <1>1, <1>2
<1> QED BY <1>1, <1>2, <1>3, <1>4

LEMMA IdIsInt == ASSUME NEW t \in Int, NEW s \in Int PROVE Id(t, s) \in Int
<1>1. t * (WorkerSpan * SeqSpan) \in Int BY Spans
<1> QED BY <1>1, Spans DEF Id

\* Later ticks have greater IDs, whatever the number.
LEMMA LaterTick ==
    ASSUME NEW t \in Int, NEW u \in Int, t < u, NEW s \in Numbers, NEW r \in Numbers
    PROVE  Id(t, s) < Id(u, r)
<1> DEFINE K == WorkerSpan * SeqSpan
<1>1. K \in Nat /\ SeqSpan <= K /\ Worker * SeqSpan \in Nat BY Spans
<1>2. t * K + K <= u * K BY <1>1, TicksApart
<1>3. t * K \in Int /\ u * K \in Int BY <1>1
<1>4. SeqSpan \in Nat /\ s \in Int /\ r \in Int /\ s <= SeqSpan /\ 1 <= r
    BY OptionsAssumption DEF Numbers
<1> HIDE DEF K
<1>5. t * K + Worker * SeqSpan + s < u * K + Worker * SeqSpan + r
    BY <1>1, <1>2, <1>3, <1>4
<1> QED BY <1>5 DEF Id, K

\* Within a tick, greater numbers have greater IDs.
LEMMA LaterNumber ==
    ASSUME NEW t \in Int, NEW s \in Int, NEW r \in Int, s < r
    PROVE  Id(t, s) < Id(t, r)
<1>1. t * (WorkerSpan * SeqSpan) \in Int /\ Worker * SeqSpan \in Int BY Spans
<1> DEFINE base == t * (WorkerSpan * SeqSpan) + Worker * SeqSpan
<1>2. base \in Int BY <1>1
<1> HIDE DEF base
<1>3. base + s < base + r BY <1>2
<1> QED BY <1>3 DEF Id, base

\* An ID determines its tick and its number.
LEMMA IdInjective ==
    ASSUME NEW t \in Int, NEW u \in Int, NEW s \in Numbers, NEW r \in Numbers,
           Id(t, s) = Id(u, r)
    PROVE  t = u /\ s = r
<1>1. s \in Int /\ r \in Int BY OptionsAssumption DEF Numbers
<1>2. Id(t, s) \in Int /\ Id(u, r) \in Int BY <1>1, IdIsInt
<1>3. ~(t < u) BY <1>2, LaterTick
<1>4. ~(u < t) BY <1>2, LaterTick
<1>5. t = u BY <1>3, <1>4
<1>6. ~(s < r) /\ ~(r < s) BY <1>1, <1>2, <1>5, LaterNumber
<1> QED BY <1>1, <1>5, <1>6

-----------------------------------------------------------------------------
(* Regular IDs, NewTick to SameTick: they increase always, for the last one *)
(* is Id(last, seq) and what follows starts from there.                     *)

Types ==
    /\ clock \in Int /\ last \in Nat /\ back \in Int
    /\ seq \in MinSeq..(MaxSeq + 1)
    /\ over \in BOOLEAN /\ index \in 0..4
    /\ calls \in Nat /\ turns \in Nat

\* A step that returns a regular ID.
RegularStep ==
    /\ last' \in Nat /\ seq' \in (MinSeq + 1)..(MaxSeq + 1)
    /\ Id(last, seq) < Id(last', seq')
    /\ Return(Id(last', seq'))

LEMMA NumberRange ==
    /\ MinSeq \in Nat /\ MaxSeq \in Nat /\ SeqSpan \in Nat
    /\ 5 <= MinSeq /\ MinSeq <= MaxSeq /\ MaxSeq + 1 <= SeqSpan
BY OptionsAssumption

LEMMA NewTickIsRegular == ASSUME Types, NewTick PROVE RegularStep
<1>1. last' = clock /\ seq' = MinSeq + 1 /\ Return(Id(clock, MinSeq + 1)) /\ last < clock
    BY DEF Types, NewTick, CalcId
<1>2. seq \in Numbers /\ MinSeq + 1 \in Numbers BY NumberRange DEF Types, Numbers
<1>3. Id(last, seq) < Id(clock, MinSeq + 1) BY <1>1, <1>2, LaterTick DEF Types
<1> QED BY <1>1, <1>3, NumberRange DEF Types, RegularStep

LEMMA DriftTickIsRegular ==
    ASSUME Types, NEW count, DriftTick(count) PROVE RegularStep
<1>1. last' = last + 1 /\ seq' = MinSeq + 1 /\ Return(Id(last + 1, MinSeq + 1))
    BY DEF Types, DriftTick, CalcId
<1>2. seq \in Numbers /\ MinSeq + 1 \in Numbers BY NumberRange DEF Types, Numbers
<1>3. last \in Int /\ last + 1 \in Int /\ last < last + 1 BY DEF Types
<1>4. Id(last, seq) < Id(last + 1, MinSeq + 1) BY <1>2, <1>3, LaterTick
<1> QED BY <1>1, <1>4, NumberRange DEF Types, RegularStep

LEMMA SameTickIsRegular == ASSUME Types, SameTick PROVE RegularStep
<1>1. last' = last /\ seq' = seq + 1 /\ Return(Id(last, seq + 1)) /\ seq <= MaxSeq
    BY DEF Types, SameTick, CalcId
<1>2. Id(last, seq) < Id(last, seq + 1) BY NumberRange, LaterNumber DEF Types
<1> QED BY <1>1, <1>2, NumberRange DEF Types, RegularStep

LEMMA NextIdCases ==
    ASSUME Types, NextId
    PROVE  /\ clock' = clock
           /\ \/ RegularStep /\ index' = index /\ turns' = turns
                 /\ (back' = back \/ back' = 0)
              \/ TurnBackId
<1>1. clock' = clock BY DEF NextId
<1>2. CASE NextOverCostId
    <2>1. RegularStep
        BY <1>2, NewTickIsRegular, DriftTickIsRegular, SameTickIsRegular DEF NextOverCostId
    <2> QED BY <1>1, <1>2, <2>1 DEF NextOverCostId
<1>3. CASE NextNormalId
    <2>1. RegularStep
        BY <1>3, NewTickIsRegular, DriftTickIsRegular, SameTickIsRegular DEF NextNormalId
    <2> QED BY <1>1, <1>3, <2>1 DEF NextNormalId
<1> QED BY <1>1, <1>2, <1>3 DEF NextId

-----------------------------------------------------------------------------
(* Until the first turn-back, IDs increase.                                 *)

Ordered ==
    /\ Types
    /\ turns = 0 => newest \in Int /\ newest <= Id(last, seq) /\ back < 1

LEMMA TypesInit == ASSUME Init PROVE Types
<1>1. clock \in Int BY BoundsAssumption DEF Init
<1>2. seq \in MinSeq..(MaxSeq + 1) BY NumberRange DEF Init
<1>3. last = 0 /\ back = 0 /\ index = 0 /\ calls = 0 /\ turns = 0 BY DEF Init
<1>4. over \in BOOLEAN BY DEF Init
<1> QED BY <1>1, <1>2, <1>3, <1>4 DEF Types

LEMMA OrderedInit == ASSUME Init PROVE Ordered
<1>1. Id(0, MinSeq) = 0 * (WorkerSpan * SeqSpan) + Worker * SeqSpan + MinSeq BY DEF Id
<1>2. 0 <= Id(0, MinSeq) BY <1>1, Spans, NumberRange
<1>3. last = 0 /\ seq = MinSeq /\ newest = 0 /\ back < 1 BY DEF Init
<1> QED BY <1>2, <1>3, TypesInit DEF Ordered

LEMMA TypesNext == ASSUME Types, Next PROVE Types'
<1>1. CASE ClockChange
    <2>1. UNCHANGED <<state, calls, turns>> /\ clock' \in Int
        BY <1>1, BoundsAssumption DEF ClockChange
    <2> QED BY <2>1 DEF Types, state
<1>2. CASE NextId
    <2>1. CASE RegularStep /\ index' = index /\ turns' = turns /\ (back' = back \/ back' = 0)
        <3>1. over' \in BOOLEAN
            BY <1>2 DEF Types, NextId, NextOverCostId, NextNormalId, TurnBackId, NewTick,
                        DriftTick, SameTick
        <3> QED BY <2>1, <3>1, <1>2, NextIdCases, NumberRange DEF Types, RegularStep, Return
    <2>2. CASE TurnBackId
        BY <2>2, <1>2, NextIdCases DEF Types, TurnBackId, Return
    <2> QED BY <1>2, <2>1, <2>2, NextIdCases
<1> QED BY <1>1, <1>2 DEF Next

\* Without a turn-back, the generator returns regular IDs.
LEMMA NoTurnBack == ASSUME Ordered, NextId, turns' = 0 PROVE RegularStep /\ turns = 0
<1>1. ~TurnBackId BY DEF Ordered, Types, TurnBackId
<1> QED BY <1>1, NextIdCases DEF Ordered

LEMMA OrderedNext == ASSUME Ordered, [Next]_vars PROVE Ordered'
<1>1. CASE UNCHANGED vars BY <1>1 DEF vars, state, Ordered, Types, Id
<1>2. CASE ClockChange
    <2>1. Types' BY <1>2, TypesNext DEF Next, Ordered
    <2>2. UNCHANGED <<last, seq, back, newest, turns>> BY <1>2 DEF ClockChange, state
    <2> QED BY <2>1, <2>2 DEF Ordered, Id
<1>3. CASE NextId
    <2>1. Types /\ Types' BY <1>3, TypesNext DEF Next, Ordered
    <2>2. SUFFICES ASSUME turns' = 0
                   PROVE  newest' \in Int /\ newest' <= Id(last', seq') /\ back' < 1
        BY <2>1 DEF Ordered
    <2>3. RegularStep /\ turns = 0 BY <1>3, <2>2, NoTurnBack
    <2>4. newest' \in Int /\ newest' <= Id(last', seq')
        BY <2>1, <2>3, IdIsInt DEF Types, RegularStep, Return
    <2>5. back' < 1
        <3>1. ~TurnBackId BY <2>2, <2>3 DEF Ordered, Types, TurnBackId
        <3> QED BY <1>3, <2>1, <2>3, <3>1, NextIdCases DEF Ordered
    <2> QED BY <2>4, <2>5
<1> QED BY <1>1, <1>2, <1>3 DEF Next

LEMMA IncreasingStep ==
    ASSUME Ordered, [Next]_vars, calls' # calls, turns' = 0 PROVE newest' > newest
<1>1. NextId BY DEF Next, ClockChange, vars
<1>2. RegularStep /\ turns = 0 BY <1>1, NoTurnBack
<1>3. newest' = Id(last', seq') /\ Id(last, seq) < Id(last', seq') /\ newest <= Id(last, seq)
    BY <1>2 DEF RegularStep, Return, Ordered
<1>4. newest \in Int /\ Id(last, seq) \in Int /\ Id(last', seq') \in Int
    BY <1>2, IdIsInt DEF RegularStep, Ordered, Types
<1> QED BY <1>3, <1>4

\* Until next_id() notices a clock turned back, each ID is greater than the
\* one before, through exhausted ticks and over-cost terms.
THEOREM IncreasingIds == Spec => Increasing
<1>1. Spec => []Ordered
    <2>1. Init => Ordered BY OrderedInit
    <2>2. Ordered /\ [Next]_vars => Ordered' BY OrderedNext
    <2> QED BY <2>1, <2>2, PTL DEF Spec
<1>2. Ordered /\ [Next]_vars => [calls' # calls /\ turns' = 0 => newest' > newest]_vars
    BY IncreasingStep
<1> QED BY <1>1, <1>2, PTL DEF Spec, Increasing

-----------------------------------------------------------------------------
(* Up to the fourth turn-back, IDs are unique.  Each is either regular, and *)
(* at most Id(last, seq), or carries the number 1 to 4 of its turn-back and *)
(* a tick the running turn-back has already left behind.                    *)

Regular(id) ==
    \E t \in Int, s \in (MinSeq + 1)..(MaxSeq + 1) : id = Id(t, s) /\ id <= Id(last, seq)

TurnedBack(id) ==
    \E t \in Int, i \in 1..4 :
        id = Id(t, i) /\ i <= index /\ (i = index /\ back >= 1 => t > back)

Unique ==
    /\ Types
    /\ back >= 1 => index >= 1
    /\ turns <= 4 => /\ index = turns
                     /\ IsFiniteSet(issued) /\ Cardinality(issued) = calls
                     /\ \A id \in issued : Regular(id) \/ TurnedBack(id)

LEMMA UniqueInit == ASSUME Init PROVE Unique
<1>1. IsFiniteSet(issued) /\ Cardinality(issued) = calls BY FS_EmptySet DEF Init
<1> QED BY <1>1, TypesInit DEF Init, Unique

\* Neither kind can be an ID about to be returned as a regular one.
LEMMA RegularIsFresh ==
    ASSUME Types, RegularStep, NEW id \in issued, Regular(id) \/ TurnedBack(id)
    PROVE  id # Id(last', seq')
<1>1. last' \in Int /\ seq' \in (MinSeq + 1)..(MaxSeq + 1) BY DEF RegularStep
<1>2. CASE Regular(id)
    <2>1. PICK t \in Int, s \in (MinSeq + 1)..(MaxSeq + 1) : id = Id(t, s) /\ id <= Id(last, seq)
        BY <1>2 DEF Regular
    <2>2. id \in Int BY <2>1, IdIsInt, NumberRange
    <2>3. Id(last, seq) \in Int /\ Id(last', seq') \in Int
        BY <1>1, IdIsInt, NumberRange DEF Types
    <2>4. Id(last, seq) < Id(last', seq') BY DEF RegularStep
    <2> QED BY <2>1, <2>2, <2>3, <2>4
<1>3. CASE TurnedBack(id)
    <2>1. PICK t \in Int, i \in 1..4 : id = Id(t, i) BY <1>3 DEF TurnedBack
    <2>2. seq' \in Numbers /\ i \in Numbers /\ i # seq' BY <1>1, NumberRange DEF Numbers
    <2> QED BY <1>1, <2>1, <2>2, IdInjective
<1> QED BY <1>2, <1>3

\* What a call did stays what it was.
LEMMA RegularStays ==
    ASSUME Types, NEW id, Regular(id), Id(last, seq) <= Id(last', seq'),
           Types'
    PROVE  Regular(id)'
<1>1. PICK t \in Int, s \in (MinSeq + 1)..(MaxSeq + 1) : id = Id(t, s) /\ id <= Id(last, seq)
    BY DEF Regular
<1>2. id \in Int BY <1>1, IdIsInt, NumberRange
<1>3. Id(last, seq) \in Int /\ Id(last', seq') \in Int BY IdIsInt, NumberRange DEF Types
<1>4. id <= Id(last', seq') BY <1>1, <1>2, <1>3
<1> QED BY <1>1, <1>4 DEF Regular

LEMMA FreshIdCounts ==
    ASSUME IsFiniteSet(issued), Cardinality(issued) = calls, NEW id, id \notin issued, Return(id)
    PROVE  IsFiniteSet(issued') /\ Cardinality(issued') = calls'
BY FS_AddElement DEF Return

LEMMA UniqueRegularStep ==
    ASSUME Unique, Types', RegularStep, index' = index, turns' = turns,
           back' = back \/ back' = 0, turns <= 4
    PROVE  Unique'
<1>1. /\ Types /\ index' = turns'
      /\ IsFiniteSet(issued) /\ Cardinality(issued) = calls
      /\ \A id \in issued : Regular(id) \/ TurnedBack(id)
    BY DEF Unique
<1>2. PICK new : new = Id(last', seq') OBVIOUS
<1>3. new \notin issued BY <1>1, <1>2, RegularIsFresh
<1>4. Return(new) BY <1>2 DEF RegularStep
<1>5. IsFiniteSet(issued') /\ Cardinality(issued') = calls'
    BY <1>1, <1>3, <1>4, FreshIdCounts
<1>6. Regular(new)'
    <2>1. new \in Int BY <1>1, <1>2, IdIsInt, NumberRange DEF Types, RegularStep
    <2>2. last' \in Int /\ seq' \in (MinSeq + 1)..(MaxSeq + 1) BY DEF RegularStep
    <2> QED BY <1>2, <2>1, <2>2 DEF Regular
<1>7. ASSUME NEW id \in issued PROVE Regular(id)' \/ TurnedBack(id)'
    <2>1. CASE Regular(id)
        <3>1. Id(last, seq) <= Id(last', seq')
            BY <1>1, IdIsInt, NumberRange DEF Types, RegularStep
        <3> QED BY <1>1, <2>1, <3>1, RegularStays
    <2>2. CASE TurnedBack(id)
        <3>1. PICK t \in Int, i \in 1..4 :
                id = Id(t, i) /\ i <= index /\ (i = index /\ back >= 1 => t > back)
            BY <2>2 DEF TurnedBack
        <3>2. i <= index' /\ (i = index' /\ back' >= 1 => t > back') BY <3>1
        <3> QED BY <3>1, <3>2 DEF TurnedBack
    <2> QED BY <1>1, <2>1, <2>2
<1>8. ASSUME NEW id \in issued' PROVE Regular(id)' \/ TurnedBack(id)'
    BY <1>4, <1>6, <1>7 DEF Return
<1> QED BY <1>1, <1>5, <1>8 DEF Unique

LEMMA UniqueTurnBack ==
    ASSUME Unique, Types', TurnBackId, turns' <= 4
    PROVE  Unique'
<1>1. PICK tick \in Int :
        /\ tick = IF back < 1 THEN last - 1 ELSE back
        /\ back' = tick - 1 /\ Return(Id(tick, index'))
    BY DEF TurnBackId, Unique, Types
<1>2. PICK new : new = Id(tick, index') OBVIOUS
<1>3. UNCHANGED <<last, seq>> BY DEF TurnBackId
\* A fresh turn-back has a number of its own, a running one is below its ticks.
<1>4. /\ index' \in 1..4 /\ index <= index' /\ index' = turns' /\ turns <= 4
      /\ index' = index => back >= 1 /\ tick = back
    <2>1. turns <= 4 /\ index = turns /\ index \in 0..4 BY DEF Unique, Types, TurnBackId
    <2>2. CASE back < 1
        BY <2>1, <2>2 DEF TurnBackId, Unique, Types
    <2>3. CASE ~(back < 1)
        <3>1. index' = index /\ turns' = turns BY <2>3 DEF TurnBackId
        <3>2. index # 0 BY <2>3 DEF Unique, Types
        <3> QED BY <1>1, <2>1, <2>3, <3>1, <3>2 DEF Unique, Types
    <2> QED BY <2>2, <2>3
<1>5. /\ Types /\ IsFiniteSet(issued) /\ Cardinality(issued) = calls
      /\ \A id \in issued : Regular(id) \/ TurnedBack(id)
    BY <1>4 DEF Unique
<1>6. ASSUME NEW id \in issued PROVE id # new
    <2>1. index' \in Numbers BY <1>4, NumberRange DEF Numbers
    <2>2. CASE Regular(id)
        <3>1. PICK t \in Int, s \in (MinSeq + 1)..(MaxSeq + 1) : id = Id(t, s)
            BY <2>2 DEF Regular
        <3>2. s \in Numbers /\ s # index' BY <1>4, NumberRange DEF Numbers
        <3> QED BY <1>2, <2>1, <3>1, <3>2, IdInjective
    <2>3. CASE TurnedBack(id)
        <3>1. PICK t \in Int, i \in 1..4 :
                id = Id(t, i) /\ i <= index /\ (i = index /\ back >= 1 => t > back)
            BY <2>3 DEF TurnedBack
        <3>2. i \in Numbers BY NumberRange DEF Numbers
        <3>3. ~(t = tick /\ i = index') BY <1>4, <1>5, <3>1 DEF Types
        <3> QED BY <1>2, <2>1, <3>1, <3>2, <3>3, IdInjective
    <2> QED BY <1>5, <2>2, <2>3
<1>7. Return(new) BY <1>1, <1>2
<1>8. IsFiniteSet(issued') /\ Cardinality(issued') = calls'
    BY <1>5, <1>6, <1>7, FreshIdCounts
<1>9. TurnedBack(new)'
    <2>1. index' <= index' /\ tick > back' BY <1>1, <1>4
    <2> QED BY <1>2, <1>4, <2>1 DEF TurnedBack
<1>10. ASSUME NEW id \in issued PROVE Regular(id)' \/ TurnedBack(id)'
    <2>1. CASE Regular(id) BY <1>3, <2>1 DEF Regular, Id
    <2>2. CASE TurnedBack(id)
        <3>1. PICK t \in Int, i \in 1..4 :
                id = Id(t, i) /\ i <= index /\ (i = index /\ back >= 1 => t > back)
            BY <2>2 DEF TurnedBack
        <3>2. i <= index' /\ (i = index' /\ back' >= 1 => t > back')
            BY <1>1, <1>4, <1>5, <3>1 DEF Types
        <3> QED BY <3>1, <3>2 DEF TurnedBack
    <2> QED BY <1>5, <2>1, <2>2
<1>11. ASSUME NEW id \in issued' PROVE Regular(id)' \/ TurnedBack(id)'
    BY <1>7, <1>9, <1>10 DEF Return
<1> QED BY <1>4, <1>8, <1>11 DEF Unique

LEMMA UniqueNext == ASSUME Unique, [Next]_vars PROVE Unique'
<1>1. CASE UNCHANGED vars
    BY <1>1 DEF vars, state, Unique, Types, Regular, TurnedBack, Id
<1>2. CASE Next
    <2>1. Types /\ Types' BY <1>2, TypesNext DEF Unique
    <2>2. CASE ClockChange
        BY <2>1, <2>2 DEF ClockChange, state, Unique, Regular, TurnedBack, Id
    <2>3. CASE NextId /\ ~(turns' <= 4)
        <3>1. CASE TurnBackId
            <4>1. back < 1 => index' = (index % 4) + 1 BY <3>1 DEF TurnBackId
            <4>2. ~(back < 1) => index' = index BY <3>1 DEF TurnBackId
            <4>3. index' >= 1 BY <2>1, <4>1, <4>2 DEF Unique, Types
            <4> QED BY <2>1, <2>3, <4>3 DEF Unique
        <3>2. CASE index' = index /\ (back' = back \/ back' = 0)
            BY <2>1, <2>3, <3>2 DEF Unique
        <3> QED BY <2>1, <2>3, <3>1, <3>2, NextIdCases
    <2>4. CASE NextId /\ turns' <= 4
        BY <2>1, <2>4, NextIdCases, UniqueRegularStep, UniqueTurnBack
    <2> QED BY <1>2, <2>2, <2>3, <2>4 DEF Next
<1> QED BY <1>1, <1>2

\* The four reserved numbers keep all IDs different for as many turn-backs of
\* the clock, whatever the bit lengths, sequence bounds and over-cost limit.
THEOREM FourTurnBacks == Spec => []UniqueUpToFourTurnBacks
<1>1. Init => Unique BY UniqueInit
<1>2. Unique /\ [Next]_vars => Unique' BY UniqueNext
<1>3. Unique => UniqueUpToFourTurnBacks BY DEF Unique, UniqueUpToFourTurnBacks, UniqueIds
<1> QED BY <1>1, <1>2, <1>3, PTL DEF Spec
=============================================================================
