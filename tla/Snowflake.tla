------------------------------ MODULE Snowflake ------------------------------
(***************************************************************************)
(* The drifting snowflake ID generator (utils/snow/snowflake_m1.py): ticks  *)
(* of a wall clock that may be turned back, a sequence number per tick, and *)
(* an over-cost mode that borrows future ticks when one tick's numbers are  *)
(* used up.  next_id() runs under a lock, so a call is one step.            *)
(***************************************************************************)
EXTENDS Integers, FiniteSets

CONSTANTS
    SeqSpan,        \* 2^seq_bit_length
    WorkerSpan,     \* 2^worker_id_bit_length
    Worker,         \* worker_id
    MinSeq, MaxSeq, \* min_seq_number, max_seq_number
    TopOverCost,    \* top_over_cost_count
    ClockStart, ClockEnd,   \* bounds of the model on the clock
    MaxCalls                \* bound of the model on calls

ASSUME OptionsAssumption ==
    /\ SeqSpan \in Nat /\ WorkerSpan \in Nat \ {0}
    /\ Worker \in 0..(WorkerSpan - 1)
    /\ MinSeq \in Nat /\ MaxSeq \in Nat
    /\ 5 <= MinSeq /\ MinSeq <= MaxSeq /\ MaxSeq < SeqSpan
    /\ TopOverCost \in Nat

ASSUME BoundsAssumption ==
    ClockStart \in Nat \ {0} /\ ClockEnd \in Nat /\ MaxCalls \in Nat

VARIABLES
    clock,      \* the wall clock, in ticks since base_time
    last,       \* __last_time_tick
    seq,        \* __current_seq_number
    over,       \* __is_over_cost
    terms,      \* ___over_cost_count_in_one_term
    back,       \* __turn_back_time_tick
    index,      \* __turn_back_index
    newest,     \* history: the last ID returned
    issued,     \* history: all IDs returned
    calls,      \* history: their number
    turns       \* history: turn-backs the generator noticed

state == <<last, seq, over, terms, back, index>>
vars == <<clock, state, newest, issued, calls, turns>>

TypeOK ==
    /\ clock \in Int /\ last \in Nat /\ back \in Int
    /\ seq \in MinSeq..(MaxSeq + 1)
    /\ over \in BOOLEAN
    /\ terms \in 0..TopOverCost + 1
    /\ index \in 0..4
    /\ newest \in Int /\ issued \subseteq Int
    /\ calls \in Nat /\ turns \in Nat

Init ==
    /\ clock = ClockStart
    /\ last = 0 /\ seq = MinSeq /\ over = FALSE /\ terms = 0
    /\ back = 0 /\ index = 0
    /\ newest = 0 /\ issued = {} /\ calls = 0 /\ turns = 0

\* The shifts and additions of __calc_id; the modulus is out of reach.
Id(tick, s) == tick * (WorkerSpan * SeqSpan) + Worker * SeqSpan + s

Return(id) ==
    /\ newest' = id
    /\ issued' = issued \cup {id}
    /\ calls' = calls + 1

\* __calc_id increments the sequence number before it uses it.
CalcId(tick, s) ==
    /\ last' = tick
    /\ seq' = s + 1
    /\ Return(Id(tick, s + 1))

\* The clock moved on: a new tick and a fresh sequence.
NewTick ==
    /\ clock > last
    /\ over' = FALSE
    /\ CalcId(clock, MinSeq)

\* Mutant: the sequence starts again in the same tick.
DriftTick_SameTick(count) ==
    /\ seq > MaxSeq
    /\ over' = TRUE /\ terms' = count
    /\ CalcId(last, MinSeq)

\* The tick's numbers are used up: borrow the next one.
DriftTick(count) ==
    /\ seq > MaxSeq
    /\ over' = TRUE /\ terms' = count
    /\ CalcId(last + 1, MinSeq)

SameTick ==
    /\ seq <= MaxSeq
    /\ CalcId(last, seq)
    /\ UNCHANGED <<over, terms>>

\* Once TopOverCost ticks are borrowed, the caller sleeps until NewTick.
NextOverCostId ==
    /\ over
    /\ \/ NewTick /\ terms' = 0
       \/ /\ clock <= last /\ terms < TopOverCost
          /\ DriftTick(terms + 1) \/ SameTick
    /\ UNCHANGED <<back, index, turns>>

\* Mutant: every turn-back uses the same reserved number.
TurnBackId_OneIndex ==
    /\ ~over /\ clock < last
    /\ LET fresh == back < 1
           tick == IF fresh THEN last - 1 ELSE back
       IN  /\ index' = 1
           /\ turns' = IF fresh THEN turns + 1 ELSE turns
           /\ back' = tick - 1
           /\ Return(Id(tick, index'))
    /\ UNCHANGED <<last, seq, over, terms>>

\* The clock is behind: number 1 to 4 of an earlier tick, which of them
\* depends on how often the clock was turned back.
TurnBackId ==
    /\ ~over /\ clock < last
    /\ LET fresh == back < 1
           tick == IF fresh THEN last - 1 ELSE back
       IN  /\ index' = IF fresh THEN (index % 4) + 1 ELSE index
           /\ turns' = IF fresh THEN turns + 1 ELSE turns
           /\ back' = tick - 1
           /\ Return(Id(tick, index'))
    /\ UNCHANGED <<last, seq, over, terms>>

NextNormalId ==
    /\ ~over /\ clock >= last
    /\ back' = IF back < 0 THEN back ELSE 0
    /\ \/ NewTick /\ UNCHANGED terms
       \/ clock = last /\ (DriftTick(1) \/ SameTick)
    /\ UNCHANGED <<index, turns>>

NextId ==
    /\ calls < MaxCalls
    /\ NextOverCostId \/ TurnBackId \/ NextNormalId
    /\ UNCHANGED clock

ClockChange ==
    /\ clock' \in ClockStart..ClockEnd \ {clock}
    /\ UNCHANGED <<state, newest, issued, calls, turns>>

Next == NextId \/ ClockChange

Spec == Init /\ [][Next]_vars

-----------------------------------------------------------------------------
(* Properties.                                                              *)

\* id_generator.py:8: "generate an ID unique within this process".
UniqueIds == Cardinality(issued) = calls

\* The four reserved numbers keep IDs unique for as many turn-backs.
UniqueUpToFourTurnBacks == turns <= 4 => UniqueIds

\* Until the generator notices a clock turned back, its IDs increase: through
\* exhausted ticks, over-cost terms and turn-backs that a term conceals.
Increasing == [][calls' # calls /\ turns' = 0 => newest' > newest]_vars

\* options.py:34: max_seq_number is the largest sequence number, inclusive.
SeqWithinOptions == \A id \in issued : id % SeqSpan \in 1..MaxSeq
=============================================================================
