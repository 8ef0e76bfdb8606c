------------------------ MODULE GraphInvocationProofs ------------------------
(***************************************************************************)
(* Proofs about GraphInvocation: any graphs, attempts, dispatch events, step*)
(* budget and batch size, with and without checkpoints.                     *)
(***************************************************************************)
EXTENDS GraphInvocation, FiniteSetTheorems, SequenceTheorems, TLAPS

(* The state and the history of an attempt hold whole batches; only a batch *)
(* that fails half way leaves half of one, in an attempt that has failed.   *)
Whole(x) == x.state = Batch * x.steps

WholeHistory(x) == \A i \in DOMAIN x.history : Whole(x.history[i])

(* What a delivered result was taken from has not changed since. *)
Sound(x) ==
    /\ x.status # "failed" => Whole(x)
    /\ WholeHistory(x)
    /\ x.status \in {"absent", "pending"} => x.completion = "none"
    /\ x.completion = "result" =>
         \/ x.status = "finished" /\ x.result = x.state
         \/ x.status = "aborted" /\ x.result = Saved(x)

ContextsOK ==
    /\ ctx \in [Contexts -> Context]
    /\ \A c \in Contexts : Sound(ctx[c])

(* One graph is live, and it manages the running attempts, all its own. *)
GraphsOK ==
    /\ born \subseteq Graphs /\ live \subseteq born
    /\ owner \in live \cup {None} /\ live \subseteq {owner}
    /\ managed \subseteq Contexts
    /\ \A c \in Contexts : Running(c) <=> c \in managed
    /\ \A c \in managed : GraphOf[c] \in live

Fresh(c) == ctx[c].status \in {"absent", "pending"}

Carries(s, c) ==
    slot[s].c = c /\ slot[s].at \in {"queued", "upstream", "node", "posting"}

InvokerCarries(c) == invoker[c] \in {"created", "posting"}

SlotsOK ==
    /\ slot \in [Slots -> SlotState]
    /\ \A s \in Slots : IF slot[s].at = "free" THEN slot[s].c = None
                                              ELSE slot[s].c \in Contexts

(* Nothing drives an attempt that has not begun. *)
NotBegun(c) == Fresh(c) => invoker[c] = "idle" /\ \A s \in Slots : slot[s].c # c

(* The dispatches of a running attempt hold the handler of its own graph, *)
(* so that each of them recognises it as active.                          *)
Served(c) ==
    Running(c) => \A s \in Slots :
        slot[s].c = c /\ slot[s].at # "queued" => slot[s].by = GraphOf[c]

(* One carrier at most, and one at least unless an end is on its way *)
Single(c) ==
    Running(c) => \A s \in Slots : Carries(s, c) =>
        /\ ~InvokerCarries(c)
        /\ \A t \in Slots : Carries(t, c) => s = t

Carried(c) ==
    Running(c) => \/ \E s \in Slots : Carries(s, c)
                  \/ InvokerCarries(c) \/ CancellationUnderWay(c) \/ c \in lost

CarriersOK ==
    /\ SlotsOK
    /\ invoker \in [Contexts -> Invoker] /\ lost \subseteq Contexts
    /\ \A c \in Contexts : NotBegun(c) /\ Served(c) /\ Single(c) /\ Carried(c)

(* A caller returned with the result of the attempt. *)
CallersOK ==
    \A c \in Contexts : invoker[c] = "returned" => ctx[c].completion = "result"

IInv == ContextsOK /\ GraphsOK /\ CarriersOK /\ CallersOK

-----------------------------------------------------------------------------
(* Records of attempts.                                                     *)

LEMMA SavedIsNat ==
    ASSUME NEW x \in Context
    PROVE  Saved(x) \in Nat
<1>1. x.state \in Nat /\ x.history \in Seq(Checkpoint)
    BY DEF Context
<1>2. CASE x.history # << >>
    <2>1. x.history[Len(x.history)] \in Checkpoint
        BY <1>1, <1>2
    <2>. QED BY <1>2, <2>1 DEF Saved, Checkpoint
<1>. QED BY <1>1, <1>2 DEF Saved

(* Every terminal transition of an attempt that runs, or never will, is     *)
(* sound: what it delivers is the state it leaves.                          *)
LEMMA EndedSound ==
    ASSUME NEW x \in Context, Sound(x), x.status \in {"pending", "running"},
           NEW z \in {Finish(x), Fail(x), Abort(x), Cancel(x)}
    PROVE  z \in Context /\ Sound(z) /\ z.status \in Terminal
<1>. DEFINE Good(w) == w \in Context /\ Sound(w) /\ w.status \in Terminal
<1>1. /\ x.state \in Nat /\ 0 \in Nat /\ Saved(x) \in Nat
      /\ x.completion # "result" /\ Whole(x)
    BY SavedIsNat DEF Context, Sound
<1>2. Good(Finish(x))
    <2>. DEFINE y == Finish(x)
    <2>1. /\ y \in Context /\ y.status = "finished"
          /\ y.state = x.state /\ y.steps = x.steps /\ y.history = x.history
          /\ y.completion = (IF x.completion = "pending" THEN "result" ELSE x.completion)
          /\ y.result = (IF x.completion = "pending" THEN x.state ELSE x.result)
        BY <1>1 DEF Finish, Ended, Context, Status
    <2>. QED BY <1>1, <2>1 DEF Sound, Whole, WholeHistory, Terminal
<1>3. Good(Fail(x))
    <2>. DEFINE y == Fail(x)
    <2>1. /\ y \in Context /\ y.status = "failed" /\ y.history = x.history
          /\ y.completion = (IF x.completion = "pending" THEN "error" ELSE x.completion)
        BY <1>1 DEF Fail, Ended, Context, Status
    <2>. QED BY <1>1, <2>1 DEF Sound, Whole, WholeHistory, Terminal
<1>4. Good(Abort(x))
    <2>. DEFINE y == Abort(x)
    <2>1. /\ y \in Context /\ y.status = "aborted"
          /\ y.state = x.state /\ y.steps = x.steps /\ y.history = x.history
          /\ y.completion = (IF x.completion = "pending" THEN "result" ELSE x.completion)
          /\ y.result = (IF x.completion = "pending" THEN Saved(x) ELSE x.result)
        BY <1>1 DEF Abort, Ended, Context, Status
    <2>2. Saved(y) = Saved(x)
        BY <2>1 DEF Saved
    <2>. QED BY <1>1, <2>1, <2>2 DEF Sound, Whole, WholeHistory, Terminal
<1>5. Good(Cancel(x))
    <2>. DEFINE y == Cancel(x)
    <2>1. /\ y \in Context /\ y.status = "aborted"
          /\ y.state = x.state /\ y.steps = x.steps /\ y.history = x.history
          /\ y.completion = (IF x.completion = "pending" THEN "cancelled" ELSE x.completion)
        BY <1>1 DEF Cancel, Ended, Context, Status
    <2>. QED BY <1>1, <2>1 DEF Sound, Whole, WholeHistory, Terminal
<1>. QED BY <1>2, <1>3, <1>4, <1>5

(* A failed attempt may be left with half a batch. *)
LEMMA FailedSound ==
    ASSUME NEW x \in Context, WholeHistory(x), x.completion # "result"
    PROVE  Fail(x) \in Context /\ Sound(Fail(x)) /\ Fail(x).status \in Terminal
<1>. DEFINE y == Fail(x)
<1>1. /\ y \in Context /\ y.status = "failed" /\ y.history = x.history
      /\ y.completion = (IF x.completion = "pending" THEN "error" ELSE x.completion)
    BY DEF Fail, Ended, Context, Status
<1>. QED BY <1>1 DEF Sound, WholeHistory, Terminal

-----------------------------------------------------------------------------
(* Attempts and graphs.                                                     *)

(* What a step may do to attempts that it does not begin: some end, and     *)
(* those that have ended change their completion at most.                   *)
Settled(c) == ctx[c].status \in Terminal
                => ctx'[c] = [ctx[c] EXCEPT !.completion = ctx'[c].completion]

NoneBegins == \A c \in Contexts : /\ Running(c)' => Running(c)
                                  /\ Fresh(c)' => Fresh(c)
                                  /\ Settled(c)

(* The completion of an attempt keeps a result. *)
KeepsResults == \A c \in Contexts :
    ctx[c].completion = "result" => ctx'[c].completion = "result"

LEMMA SameRecord ==
    ASSUME NEW x \in Context
    PROVE  x = [x EXCEPT !.completion = x.completion]
BY DEF Context

(* A step that leaves attempts and graphs alone *)
LEMMA CalmKeeps ==
    ASSUME ContextsOK, GraphsOK, UNCHANGED <<born, live, owner, managed, ctx>>
    PROVE  ContextsOK' /\ GraphsOK' /\ NoneBegins /\ KeepsResults
<1>1. born' = born /\ live' = live /\ owner' = owner /\ managed' = managed /\ ctx' = ctx
    OBVIOUS
<1>2. \A c \in Contexts : Settled(c)
    BY <1>1, SameRecord DEF ContextsOK, Settled
<1>. QED
    BY <1>1, <1>2 DEF ContextsOK, GraphsOK, NoneBegins, KeepsResults, Running, Fresh

(* An attempt ends: it is no longer managed, and its graph forgets it. *)
LEMMA EndKeeps ==
    ASSUME ContextsOK, GraphsOK, UNCHANGED <<born, live, owner>>,
           NEW c \in Contexts, ctx[c].status \in {"pending", "running"},
           NEW y \in Context, Sound(y), y.status \in Terminal, End(c, y)
    PROVE  /\ ContextsOK' /\ GraphsOK' /\ NoneBegins /\ KeepsResults
           /\ ~Running(c)'
<1>1. /\ ctx \in [Contexts -> Context] /\ ctx' = [ctx EXCEPT ![c] = y]
      /\ managed' = managed \ {c}
      /\ born' = born /\ live' = live /\ owner' = owner
    BY DEF ContextsOK, End
<1>2. ctx'[c] = y /\ \A d \in Contexts \ {c} : ctx'[d] = ctx[d]
    BY <1>1
<1>3. ContextsOK'
    <2>1. ctx' \in [Contexts -> Context]
        BY <1>1
    <2>2. ASSUME NEW d \in Contexts PROVE Sound(ctx'[d])
        BY <1>2 DEF ContextsOK
    <2>. QED BY <2>1, <2>2 DEF ContextsOK
<1>4. ~Running(c)' /\ GraphsOK'
    BY <1>1, <1>2 DEF GraphsOK, Running, Terminal
<1>5. ASSUME NEW d \in Contexts PROVE Settled(d)
    BY <1>1, <1>2, SameRecord DEF Settled, Terminal
<1>6. ctx[c].completion # "result"
    BY DEF ContextsOK, Sound
<1>. QED
    BY <1>2, <1>3, <1>4, <1>5, <1>6 DEF NoneBegins, KeepsResults, Running, Fresh, Terminal

(* A callback that ends the attempt of its own graph does end it. *)
LEMMA EndIfActiveKeeps ==
    ASSUME ContextsOK, GraphsOK, UNCHANGED <<born, live, owner>>,
           NEW g, NEW c \in Contexts,
           NEW y \in {Finish(ctx[c]), Fail(ctx[c]), Abort(ctx[c]), Cancel(ctx[c])},
           EndIfActive(g, c, y)
    PROVE  /\ ContextsOK' /\ GraphsOK' /\ NoneBegins /\ KeepsResults
           /\ g = GraphOf[c] => ~Running(c)'
<1>1. CASE Active(g, c)
    <2>1. ctx[c] \in Context /\ Sound(ctx[c]) /\ ctx[c].status = "running"
        BY <1>1 DEF ContextsOK, Active, Running
    <2>2. y \in Context /\ Sound(y) /\ y.status \in Terminal
        BY <2>1, EndedSound
    <2>3. End(c, y)
        BY <1>1 DEF EndIfActive
    <2>. QED BY <2>1, <2>2, <2>3, EndKeeps
<1>2. CASE ~Active(g, c)
    <2>1. UNCHANGED <<born, live, owner, managed, ctx>>
        BY <1>2 DEF EndIfActive
    <2>2. g = GraphOf[c] => ~Running(c)
        BY <1>2 DEF Active, GraphsOK
    <2>3. Running(c)' => Running(c)
        BY <2>1 DEF Running
    <2>. QED BY <2>1, <2>2, <2>3, CalmKeeps
<1>. QED BY <1>1, <1>2

(* A step within the life of an attempt *)
LEMMA UpdateKeeps ==
    ASSUME ContextsOK, GraphsOK, UNCHANGED <<born, live, owner>>,
           NEW c \in Contexts, ctx[c].status \notin Terminal,
           NEW y \in Context, Sound(y),
           y.status = "running" <=> Running(c),
           y.status \in {"absent", "pending"} <=> Fresh(c),
           ctx[c].completion = "result" => y.completion = "result",
           Update(c, y)
    PROVE  ContextsOK' /\ GraphsOK' /\ NoneBegins /\ KeepsResults
<1>1. /\ ctx \in [Contexts -> Context] /\ ctx' = [ctx EXCEPT ![c] = y]
      /\ managed' = managed /\ born' = born /\ live' = live /\ owner' = owner
    BY DEF ContextsOK, Update
<1>2. ctx'[c] = y /\ \A d \in Contexts \ {c} : ctx'[d] = ctx[d]
    BY <1>1
<1>3. ContextsOK'
    <2>1. ctx' \in [Contexts -> Context]
        BY <1>1
    <2>2. ASSUME NEW d \in Contexts PROVE Sound(ctx'[d])
        BY <1>2 DEF ContextsOK
    <2>. QED BY <2>1, <2>2 DEF ContextsOK
<1>4. \A d \in Contexts : (Running(d)' <=> Running(d)) /\ (Fresh(d)' <=> Fresh(d))
    BY <1>2 DEF Running, Fresh
<1>5. GraphsOK'
    BY <1>1, <1>4 DEF GraphsOK
<1>6. ASSUME NEW d \in Contexts PROVE Settled(d)
    BY <1>1, <1>2, SameRecord DEF Settled
<1>. QED BY <1>2, <1>3, <1>4, <1>5, <1>6 DEF NoneBegins, KeepsResults

(* Whoever retires the owner leaves no attempt running anywhere. *)
LEMMA RetireKeeps ==
    ASSUME ContextsOK, GraphsOK, Retire(owner)
    PROVE  /\ ContextsOK' /\ NoneBegins /\ KeepsResults /\ managed' = {}
           /\ \A c \in Contexts : ~Running(c)'
<1>1. {c \in managed : GraphOf[c] = owner} = managed
    BY DEF GraphsOK
<1>2. /\ ctx \in [Contexts -> Context] /\ managed \subseteq Contexts
      /\ ctx' = [c \in Contexts |-> IF c \in managed THEN Abort(ctx[c]) ELSE ctx[c]]
      /\ managed' = {}
    BY <1>1 DEF ContextsOK, GraphsOK, Retire
<1>3. ASSUME NEW c \in managed
      PROVE  /\ ctx'[c] \in Context /\ Sound(ctx'[c]) /\ ctx'[c].status \in Terminal
             /\ Running(c) /\ ctx[c].completion # "result"
    <2>1. /\ c \in Contexts /\ Running(c) /\ ctx[c] \in Context /\ Sound(ctx[c])
          /\ ctx'[c] = Abort(ctx[c]) /\ ctx[c].status \in {"pending", "running"}
        BY <1>2, <1>3 DEF GraphsOK, ContextsOK, Running
    <2>2. ctx[c].completion # "result"
        BY <2>1 DEF Sound
    <2>. QED BY <2>1, <2>2, EndedSound
<1>4. ASSUME NEW c \in Contexts \ managed
      PROVE  ctx'[c] = ctx[c] /\ ~Running(c)
    BY <1>2 DEF GraphsOK
<1>5. ContextsOK'
    <2>1. ASSUME NEW c \in Contexts PROVE ctx'[c] \in Context /\ Sound(ctx'[c])
        <3>1. CASE c \in managed
            BY <1>3, <3>1
        <3>2. CASE c \notin managed
            BY <1>2, <1>4, <3>2 DEF ContextsOK
        <3>. QED BY <3>1, <3>2
    <2>2. ctx' \in [Contexts -> Context]
        BY <1>2, <2>1
    <2>. QED BY <2>1, <2>2 DEF ContextsOK
<1>6. ASSUME NEW c \in Contexts
      PROVE  /\ ~Running(c)' /\ (Fresh(c)' => Fresh(c)) /\ Settled(c)
             /\ ctx[c].completion = "result" => ctx'[c].completion = "result"
    <2>1. CASE c \in managed
        BY <1>3, <2>1 DEF Running, Fresh, Terminal, Settled
    <2>2. CASE c \notin managed
        BY <1>2, <1>4, <2>2, SameRecord DEF Running, Fresh, Settled
    <2>. QED BY <2>1, <2>2
<1>. QED BY <1>2, <1>5, <1>6 DEF NoneBegins, KeepsResults

-----------------------------------------------------------------------------
(* Carriers.                                                                *)

(* Ending attempts takes no carrier away. *)
LEMMA CarriersCalm ==
    ASSUME IInv, NoneBegins, KeepsResults, UNCHANGED <<invoker, slot, lost>>
    PROVE  CarriersOK' /\ CallersOK'
<1>1. invoker' = invoker /\ slot' = slot /\ lost' = lost
    OBVIOUS
<1>2. ASSUME NEW c \in Contexts
      PROVE  (NotBegun(c) /\ Served(c) /\ Single(c) /\ Carried(c))'
    <2>1. /\ NotBegun(c) /\ Served(c) /\ Single(c) /\ Carried(c)
          /\ Running(c)' => Running(c)
          /\ Fresh(c)' => Fresh(c)
        BY DEF IInv, CarriersOK, NoneBegins
    <2>. QED
        BY <1>1, <2>1 DEF NotBegun, Served, Single, Carried, Carries, InvokerCarries,
                          CancellationUnderWay
<1>. QED
    BY <1>1, <1>2 DEF IInv, CarriersOK, SlotsOK, CallersOK, KeepsResults

(* The event of slot s moves on, or its slot is freed. *)
LEMMA DispatchMoves ==
    ASSUME IInv, ContextsOK', GraphsOK', NoneBegins, KeepsResults,
           invoker' = invoker, lost \subseteq lost', lost' \subseteq Contexts,
           NEW s \in Slots, NEW d \in Contexts, slot[s].c = d,
           NEW z \in SlotState, slot' = [slot EXCEPT ![s] = z],
           z.c = IF z.at = "free" THEN None ELSE d,
           Running(d)' =>
             /\ z.at \notin {"free", "queued"} => z.by = GraphOf[d]
             /\ Carries(s, d) \/ slot[s].at = "unwinding" =>
                  \/ z.at \in {"queued", "upstream", "node", "posting", "unwinding"}
                  \/ d \in lost'
             /\ slot[s].at = "unwinding" => z.at = "unwinding",
           z.at \in {"queued", "upstream", "node", "posting"} => Carries(s, d)
    PROVE  IInv'
<1>1. /\ slot \in [Slots -> SlotState] /\ SlotsOK /\ d \in Contexts /\ d # None
      /\ slot'[s] = z /\ \A t \in Slots \ {s} : slot'[t] = slot[t]
      /\ None \notin Contexts
    BY GraphAssumption DEF IInv, CarriersOK, SlotsOK
<1>2. SlotsOK'
    BY <1>1 DEF SlotsOK
<1>3. ASSUME NEW c \in Contexts
      PROVE  (NotBegun(c) /\ Served(c) /\ Single(c) /\ Carried(c))'
    <2>1. /\ NotBegun(c) /\ Served(c) /\ Single(c) /\ Carried(c)
          /\ Running(c)' => Running(c)
          /\ Fresh(c)' => Fresh(c)
        BY DEF IInv, CarriersOK, NoneBegins
    <2>2. /\ \A t \in Slots : slot'[t].c = c => slot[t].c = c
          /\ \A t \in Slots : Carries(t, c)' => Carries(t, c)
        BY <1>1 DEF Carries
    <2>3. NotBegun(c)'
        BY <2>1, <2>2 DEF NotBegun
    <2>4. Served(c)'
        BY <1>1, <2>1 DEF Served
    <2>5. Single(c)'
        BY <2>1, <2>2 DEF Single, InvokerCarries
    <2>6. Carried(c)'
        <3>. SUFFICES ASSUME Running(c)' PROVE Carried(c)'
            BY DEF Carried
        <3>1. CASE \E t \in Slots : Carries(t, c)
            <4>1. PICK t \in Slots : Carries(t, c)
                BY <3>1
            <4>2. CASE t # s
                BY <1>1, <4>1, <4>2 DEF Carries, Carried
            <4>3. CASE t = s
                <5>1. c = d
                    BY <4>1, <4>3 DEF Carries
                <5>2. \/ z.at \in {"queued", "upstream", "node", "posting", "unwinding"}
                      \/ c \in lost'
                    BY <4>1, <4>3, <5>1
                <5>3. z.at # "free" => slot'[s].c = c
                    BY <1>1, <5>1
                <5>. QED
                    BY <1>1, <5>2, <5>3 DEF Carried, Carries, CancellationUnderWay
            <4>. QED BY <4>2, <4>3
        <3>2. CASE InvokerCarries(c) \/ invoker[c] \in {"closing", "postCancelled"}
                     \/ c \in lost
            BY <3>2 DEF Carried, InvokerCarries, CancellationUnderWay
        <3>3. CASE \E t \in Slots : slot[t].c = c /\ slot[t].at = "unwinding"
            <4>1. PICK t \in Slots : slot[t].c = c /\ slot[t].at = "unwinding"
                BY <3>3
            <4>2. t = s => z.at = "unwinding" /\ z.c = c
                BY <1>1, <4>1
            <4>3. slot'[t].c = c /\ slot'[t].at = "unwinding"
                BY <1>1, <4>1, <4>2
            <4>. QED BY <4>3 DEF Carried, CancellationUnderWay
        <3>. QED
            BY <2>1, <3>1, <3>2, <3>3 DEF Carried, CancellationUnderWay
    <2>. QED BY <2>3, <2>4, <2>5, <2>6
<1>4. CarriersOK'
    BY <1>2, <1>3 DEF CarriersOK, IInv
<1>5. CallersOK'
    BY DEF CallersOK, KeepsResults, IInv
<1>. QED BY <1>4, <1>5 DEF IInv

(* The invoker of attempt c moves on. *)
LEMMA InvokerMoves ==
    ASSUME IInv, ContextsOK', GraphsOK', NoneBegins, KeepsResults,
           UNCHANGED <<slot, lost>>,
           NEW c \in Contexts, invoker[c] # "idle",
           NEW v \in Invoker, invoker' = [invoker EXCEPT ![c] = v],
           v \in {"created", "posting"} => InvokerCarries(c),
           InvokerCarries(c) \/ invoker[c] \in {"closing", "postCancelled"} =>
             \/ v \in {"created", "posting", "closing", "postCancelled"}
             \/ ~Running(c)',
           v = "returned" => ctx'[c].completion = "result"
    PROVE  IInv'
<1>1. /\ invoker \in [Contexts -> Invoker] /\ slot' = slot /\ lost' = lost
      /\ invoker'[c] = v /\ \A d \in Contexts \ {c} : invoker'[d] = invoker[d]
    BY DEF IInv, CarriersOK
<1>2. ASSUME NEW d \in Contexts
      PROVE  (NotBegun(d) /\ Served(d) /\ Single(d) /\ Carried(d))'
    <2>1. /\ NotBegun(d) /\ Served(d) /\ Single(d) /\ Carried(d)
          /\ Running(d)' => Running(d)
          /\ Fresh(d)' => Fresh(d)
        BY DEF IInv, CarriersOK, NoneBegins
    <2>2. InvokerCarries(d)' => InvokerCarries(d)
        BY <1>1 DEF InvokerCarries
    <2>3. \A t \in Slots : Carries(t, d)' <=> Carries(t, d)
        BY <1>1 DEF Carries
    <2>4. NotBegun(d)' /\ Served(d)' /\ Single(d)'
        BY <1>1, <2>1, <2>2, <2>3 DEF NotBegun, Served, Single
    <2>5. Carried(d)'
        BY <1>1, <2>1, <2>3 DEF Carried, InvokerCarries, CancellationUnderWay
    <2>. QED BY <2>4, <2>5
<1>3. CarriersOK'
    BY <1>1, <1>2 DEF CarriersOK, IInv, SlotsOK
<1>4. CallersOK'
    BY <1>1 DEF CallersOK, KeepsResults, IInv
<1>. QED BY <1>3, <1>4 DEF IInv

-----------------------------------------------------------------------------
(* Graphs and contexts.                                                     *)

AllSettled == \A c \in Contexts : Settled(c)

LEMMA ReplacementKeeps ==
    ASSUME IInv, NEW g \in Graphs, Construct(g) \/ Decompose(g)
    PROVE  IInv' /\ AllSettled
<1>1. Retire(owner)
    BY DEF Construct, Decompose, IInv, GraphsOK
<1>2. /\ ContextsOK' /\ NoneBegins /\ KeepsResults /\ managed' = {}
      /\ \A c \in Contexts : ~Running(c)'
    BY <1>1, RetireKeeps DEF IInv
<1>3. GraphsOK'
    <2>1. /\ born' \subseteq Graphs /\ live' \subseteq born'
          /\ owner' \in live' \cup {None} /\ live' \subseteq {owner'}
        BY DEF Construct, Decompose, IInv, GraphsOK
    <2>. QED BY <1>2, <2>1 DEF GraphsOK
<1>4. CarriersOK' /\ CallersOK'
    BY <1>2, CarriersCalm DEF Construct, Decompose
<1>. QED BY <1>2, <1>3, <1>4 DEF IInv, NoneBegins, AllSettled

(* Steps that move an attempt and nothing else *)
LEMMA AttemptMoves ==
    ASSUME IInv, ContextsOK', GraphsOK', NoneBegins, KeepsResults,
           UNCHANGED <<invoker, slot, lost>>
    PROVE  IInv' /\ AllSettled
BY CarriersCalm DEF IInv, NoneBegins, AllSettled

(* A new attempt starts whole, from nothing ... *)
LEMMA CreateKeeps ==
    ASSUME IInv, NEW c \in Contexts, CreateContext(c)
    PROVE  IInv' /\ AllSettled
<1>1. PICK entry \in Targets :
        Update(c, [Absent EXCEPT !.status = "pending", !.target = entry])
    BY DEF CreateContext
<1>. DEFINE y == [Absent EXCEPT !.status = "pending", !.target = entry]
<1>2. /\ y \in Context /\ y.status = "pending" /\ y.completion = "none"
      /\ y.state = 0 /\ y.steps = 0 /\ y.history = << >>
    <2>1. << >> \in Seq(Checkpoint)
        OBVIOUS
    <2>2. y \in Context
        BY <2>1 DEF Absent, Context, Status, Targets
    <2>3. /\ y.status = "pending" /\ y.completion = "none"
          /\ y.state = 0 /\ y.steps = 0
        BY DEF Absent
    <2>4. y.history = << >>
        BY DEF Absent
    <2>. QED BY <2>2, <2>3, <2>4
<1>3. Batch * 0 = 0
    BY GraphAssumption
<1>4. Sound(y)
    BY <1>2, <1>3 DEF Sound, Whole, WholeHistory
<1>5. ctx[c] \in Context /\ ctx[c].status = "absent" /\ ctx[c].completion # "result"
    BY DEF CreateContext, IInv, ContextsOK, Sound
<1>. HIDE DEF y
<1>6. ContextsOK' /\ GraphsOK' /\ NoneBegins /\ KeepsResults
    <2>1. UNCHANGED <<born, live, owner>> /\ ContextsOK /\ GraphsOK
        BY DEF CreateContext, graphVars, IInv
    <2>2. Update(c, y)
        BY <1>1 DEF y
    <2>. QED
        BY <1>2, <1>4, <1>5, <2>1, <2>2, UpdateKeeps DEF Terminal, Running, Fresh
<1>. QED BY <1>6, AttemptMoves DEF CreateContext, graphVars

(* ... or from a checkpoint, whose history is whole as well. *)
LEMMA RestoreKeeps ==
    ASSUME IInv, NEW c \in Contexts, NEW src \in Contexts, RestoreContext(c, src)
    PROVE  IInv' /\ AllSettled
<1>. DEFINE h == ctx[src].history
<1>0. PICK i \in DOMAIN h : \E past \in {SubSeq(h, 1, i), <<h[i]>>} :
        Update(c, [Absent EXCEPT
            !.status = "pending", !.state = h[i].state, !.steps = h[i].steps,
            !.target = h[i].target, !.history = past])
    BY DEF RestoreContext
<1>1. PICK past \in {SubSeq(h, 1, i), <<h[i]>>} :
        Update(c, [Absent EXCEPT
            !.status = "pending", !.state = h[i].state, !.steps = h[i].steps,
            !.target = h[i].target, !.history = past])
    BY <1>0
<1>2. h \in Seq(Checkpoint) /\ WholeHistory(ctx[src])
    BY DEF IInv, ContextsOK, Context, Sound
<1>3. /\ h[i] \in Checkpoint /\ Whole(h[i]) /\ i \in 1..Len(h) /\ Len(h) \in Nat
      /\ \A j \in 1..i : h[j] \in Checkpoint /\ Whole(h[j])
    BY <1>2 DEF WholeHistory
<1>4. past \in Seq(Checkpoint) /\ \A j \in DOMAIN past : Whole(past[j])
    <2>1. CASE past = <<h[i]>>
        BY <1>3, <2>1
    <2>2. CASE past = SubSeq(h, 1, i)
        <3>1. past \in Seq(Checkpoint) /\ Len(past) = i
              /\ \A j \in 1..i : past[j] = h[j]
            BY <1>2, <1>3, <2>2
        <3>. QED BY <1>3, <3>1
    <2>. QED BY <1>1, <2>1, <2>2
<1>. DEFINE y == [Absent EXCEPT
            !.status = "pending", !.state = h[i].state, !.steps = h[i].steps,
            !.target = h[i].target, !.history = past]
<1>5. /\ y \in Context /\ y.status = "pending" /\ y.completion = "none"
      /\ y.state = h[i].state /\ y.steps = h[i].steps /\ y.history = past
    BY <1>3, <1>4 DEF Absent, Context, Status, Targets, Checkpoint
<1>6. Update(c, y)
    BY <1>1
<1>. HIDE DEF y
<1>7. Sound(y)
    BY <1>3, <1>4, <1>5 DEF Sound, Whole, WholeHistory
<1>8. ctx[c] \in Context /\ ctx[c].status = "absent" /\ ctx[c].completion # "result"
    BY DEF RestoreContext, IInv, ContextsOK, Sound
<1>9. UNCHANGED <<born, live, owner, invoker, slot, lost>> /\ ContextsOK /\ GraphsOK
    BY DEF RestoreContext, graphVars, IInv
<1>10. ContextsOK' /\ GraphsOK' /\ NoneBegins /\ KeepsResults
    BY <1>5, <1>6, <1>7, <1>8, <1>9, UpdateKeeps DEF Terminal, Running, Fresh
<1>. QED BY <1>9, <1>10, AttemptMoves

LEMMA AbortKeeps ==
    ASSUME IInv, NEW c \in Contexts, AbortContext(c)
    PROVE  IInv' /\ AllSettled
<1>1. /\ ctx[c] \in Context /\ Sound(ctx[c]) /\ ContextsOK /\ GraphsOK
      /\ ctx[c].status \in {"pending", "running"} /\ End(c, Abort(ctx[c]))
      /\ UNCHANGED <<born, live, owner, invoker, slot, lost>>
    BY DEF AbortContext, IInv, ContextsOK, graphVars
<1>2. Abort(ctx[c]) \in Context /\ Sound(Abort(ctx[c]))
      /\ Abort(ctx[c]).status \in Terminal
    BY <1>1, EndedSound
<1>3. ContextsOK' /\ GraphsOK' /\ NoneBegins /\ KeepsResults
    BY <1>1, <1>2, EndKeeps
<1>. QED BY <1>1, <1>3, AttemptMoves

(* An attempt begins with its caller as the one carrier. *)
LEMMA BeginKeeps ==
    ASSUME IInv, NEW c \in Contexts, Begin(c)
    PROVE  IInv' /\ AllSettled
<1>. DEFINE x == ctx[c]
            y == [x EXCEPT !.status = "running", !.completion = "pending"]
<1>1. /\ ctx \in [Contexts -> Context] /\ x \in Context /\ Sound(x)
      /\ x.status = "pending" /\ GraphOf[c] \in live
      /\ ctx' = [ctx EXCEPT ![c] = y]
      /\ managed' = managed \cup {c}
      /\ UNCHANGED <<born, live, owner, slot, lost>>
      /\ GraphsOK /\ NotBegun(c) /\ invoker \in [Contexts -> Invoker]
    BY DEF Begin, IInv, ContextsOK, CarriersOK, graphVars
<1>2. /\ y \in Context /\ y.status = "running" /\ y.completion = "pending"
      /\ y.state = x.state /\ y.steps = x.steps /\ y.history = x.history
    BY <1>1 DEF Context, Status
<1>3. Sound(y)
    BY <1>1, <1>2 DEF Sound, Whole, WholeHistory
<1>. HIDE DEF y
<1>4. ctx'[c] = y /\ \A d \in Contexts \ {c} : ctx'[d] = ctx[d]
    BY <1>1
<1>5. ContextsOK'
    <2>1. ctx' \in [Contexts -> Context]
        BY <1>1, <1>2
    <2>2. ASSUME NEW d \in Contexts PROVE Sound(ctx'[d])
        BY <1>3, <1>4 DEF IInv, ContextsOK
    <2>. QED BY <2>1, <2>2 DEF ContextsOK
<1>6. GraphsOK'
    BY <1>1, <1>2, <1>4 DEF GraphsOK, Running
<1>7. AllSettled
    BY <1>1, <1>4, SameRecord DEF AllSettled, Settled, Terminal
<1>8. PICK v \in {"posting", "created"} : invoker' = [invoker EXCEPT ![c] = v]
    BY DEF Begin
<1>9. /\ invoker[c] = "idle" /\ \A s \in Slots : slot[s].c # c
      /\ slot' = slot /\ lost' = lost
    BY <1>1 DEF NotBegun, Fresh
<1>10. ASSUME NEW d \in Contexts
       PROVE  (NotBegun(d) /\ Served(d) /\ Single(d) /\ Carried(d))'
    <2>1. NotBegun(d) /\ Served(d) /\ Single(d) /\ Carried(d)
        BY DEF IInv, CarriersOK
    <2>2. CASE d = c
        BY <1>1, <1>2, <1>4, <1>8, <1>9, <2>2
           DEF NotBegun, Served, Single, Carried, Fresh, Running, Carries,
               InvokerCarries
    <2>3. CASE d # c
        <3>1. ctx'[d] = ctx[d] /\ invoker'[d] = invoker[d]
            BY <1>1, <1>4, <1>8, <2>3
        <3>. QED
            BY <1>9, <2>1, <3>1
               DEF NotBegun, Served, Single, Carried, Fresh, Running, Carries,
                   InvokerCarries, CancellationUnderWay
    <2>. QED BY <2>2, <2>3
<1>11. CarriersOK'
    BY <1>1, <1>8, <1>9, <1>10 DEF CarriersOK, IInv, SlotsOK, Invoker
<1>12. CallersOK'
    BY <1>1, <1>4, <1>8 DEF CallersOK, IInv
<1>. QED BY <1>5, <1>6, <1>7, <1>11, <1>12 DEF IInv

-----------------------------------------------------------------------------
(* The caller.                                                              *)

LEMMA InvokeStartsKeeps ==
    ASSUME IInv, NEW c \in Contexts, InvokeStarts(c)
    PROVE  IInv' /\ AllSettled
<1>1. /\ UNCHANGED <<born, live, owner, managed, ctx, slot, lost>>
      /\ invoker[c] = "created"
      /\ ContextsOK /\ GraphsOK
    BY DEF InvokeStarts, graphVars, IInv
<1>2. ContextsOK' /\ GraphsOK' /\ NoneBegins /\ KeepsResults
    BY <1>1, CalmKeeps
<1>3. Running(c)' => Active(GraphOf[c], c)
    BY <1>1 DEF Running, Active, GraphsOK
<1>4. PICK v \in {"posting", "waiting"} :
        /\ invoker' = [invoker EXCEPT ![c] = v]
        /\ v = "posting" <=> Active(GraphOf[c], c)
    BY DEF InvokeStarts, Becomes
<1>5. IInv'
    BY <1>1, <1>2, <1>3, <1>4, InvokerMoves DEF InvokerCarries, Invoker
<1>. QED BY <1>2, <1>5 DEF NoneBegins, AllSettled

LEMMA QueuedShape ==
    ASSUME NEW c \in Contexts
    PROVE  Queued(c) \in SlotState /\ Queued(c).at = "queued" /\ Queued(c).c = c
<1>1. Queued(c) \in SlotState
    BY DEF Queued, Free, SlotState
<1>2. Queued(c).at = "queued"
    BY DEF Queued, Free
<1>3. Queued(c).c = c
    BY DEF Queued, Free
<1>. QED BY <1>1, <1>2, <1>3

(* post_event() puts exactly one event. *)
LEMMA InvokerPutsKeeps ==
    ASSUME IInv, NEW c \in Contexts, InvokerPuts(c)
    PROVE  IInv' /\ AllSettled
<1>1. /\ UNCHANGED <<born, live, owner, managed, ctx>> /\ lost' = lost
      /\ invoker[c] = "posting" /\ invoker' = [invoker EXCEPT ![c] = "waiting"]
      /\ invoker \in [Contexts -> Invoker] /\ slot \in [Slots -> SlotState]
      /\ ContextsOK /\ GraphsOK
    BY DEF InvokerPuts, graphVars, IInv, CarriersOK, SlotsOK, Becomes
<1>2. ContextsOK' /\ GraphsOK' /\ NoneBegins /\ KeepsResults
    BY <1>1, CalmKeeps
<1>3. PICK s \in Slots : slot[s] = Free /\ slot' = [slot EXCEPT ![s] = Queued(c)]
    BY DEF InvokerPuts
<1>4. /\ slot[s].at = "free" /\ slot[s].c = None
      /\ Queued(c) \in SlotState /\ Queued(c).at = "queued" /\ Queued(c).c = c
      /\ c # None
    BY <1>3, QueuedShape, GraphAssumption DEF Free
<1>5. /\ slot'[s].at = "queued" /\ slot'[s].c = c
      /\ \A t \in Slots \ {s} : slot'[t] = slot[t]
      /\ invoker'[c] = "waiting"
      /\ \A d \in Contexts \ {c} : invoker'[d] = invoker[d]
    BY <1>1, <1>3, <1>4
<1>6. ASSUME NEW d \in Contexts
      PROVE  (NotBegun(d) /\ Served(d) /\ Single(d) /\ Carried(d))'
    <2>1. /\ NotBegun(d) /\ Served(d) /\ Single(d) /\ Carried(d)
          /\ ctx'[d] = ctx[d] /\ lost' = lost
        BY <1>1 DEF IInv, CarriersOK
    <2>2. CASE d = c
        <3>1. NotBegun(d)'
            BY <1>1, <2>1, <2>2 DEF NotBegun, Fresh
        <3>2. Served(d)'
            BY <1>5, <2>1, <2>2 DEF Served, Running
        <3>3. Running(d) => \A t \in Slots : ~Carries(t, d)
            BY <1>1, <2>1, <2>2 DEF Single, InvokerCarries
        <3>4. Running(d)' => \A t \in Slots : Carries(t, d)' => t = s
            BY <1>5, <2>1, <3>3 DEF Carries, Running
        <3>5. Single(d)'
            BY <1>5, <2>2, <3>4 DEF Single, InvokerCarries
        <3>6. Carried(d)'
            BY <1>5, <2>2 DEF Carried, Carries
        <3>. QED BY <3>1, <3>2, <3>5, <3>6
    <2>3. CASE d # c
        <3>1. \A t \in Slots : (slot'[t].c = d <=> slot[t].c = d)
                                 /\ (slot[t].c = d => slot'[t] = slot[t])
            BY <1>4, <1>5, <2>3, GraphAssumption
        <3>2. invoker'[d] = invoker[d]
            BY <1>5, <2>3
        <3>. QED
            BY <2>1, <3>1, <3>2
               DEF NotBegun, Served, Single, Carried, Fresh, Running, Carries,
                   InvokerCarries, CancellationUnderWay
    <2>. QED BY <2>2, <2>3
<1>7. SlotsOK'
    BY <1>1, <1>3, <1>4, <1>5 DEF SlotsOK, IInv, CarriersOK
<1>8. CarriersOK'
    BY <1>1, <1>6, <1>7 DEF CarriersOK, IInv, Invoker
<1>9. CallersOK'
    BY <1>1, <1>5 DEF CallersOK, IInv
<1>. QED BY <1>2, <1>8, <1>9 DEF IInv, NoneBegins, AllSettled

LEMMA InvokerPostFailsKeeps ==
    ASSUME IInv, NEW c \in Contexts, InvokerPostFails(c)
    PROVE  IInv' /\ AllSettled
<1>1. /\ UNCHANGED <<born, live, owner, slot, lost>>
      /\ invoker[c] = "posting" /\ invoker' = [invoker EXCEPT ![c] = "raised"]
      /\ EndIfActive(GraphOf[c], c, Fail(ctx[c]))
      /\ ContextsOK /\ GraphsOK
    BY DEF InvokerPostFails, graphVars, IInv, Becomes
<1>2. ContextsOK' /\ GraphsOK' /\ NoneBegins /\ KeepsResults /\ ~Running(c)'
    BY <1>1, EndIfActiveKeeps
<1>3. IInv'
    BY <1>1, <1>2, InvokerMoves DEF Invoker
<1>. QED BY <1>2, <1>3 DEF NoneBegins, AllSettled

(* The caller takes over what the completion says. *)
LEMMA InvokerResumesKeeps ==
    ASSUME IInv, NEW c \in Contexts, InvokerResumes(c)
    PROVE  IInv' /\ AllSettled
<1>1. /\ UNCHANGED <<born, live, owner, managed, ctx, slot, lost>>
      /\ invoker[c] = "waiting"
      /\ ContextsOK /\ GraphsOK
    BY DEF InvokerResumes, graphVars, IInv
<1>2. ContextsOK' /\ GraphsOK' /\ NoneBegins /\ KeepsResults
    BY <1>1, CalmKeeps
<1>3. PICK v \in {"returned", "raised", "cancelled"} :
        /\ invoker' = [invoker EXCEPT ![c] = v]
        /\ v = "returned" => ctx[c].completion = "result"
    BY DEF InvokerResumes, Becomes
<1>4. v = "returned" => ctx'[c].completion = "result"
    BY <1>1, <1>3
<1>5. IInv'
    BY <1>1, <1>2, <1>3, <1>4, InvokerMoves DEF InvokerCarries, Invoker
<1>. QED BY <1>2, <1>5 DEF NoneBegins, AllSettled

(* A cancelled caller may cancel the completion, which changes no result. *)
LEMMA CompletionCancelled ==
    ASSUME ContextsOK, GraphsOK, UNCHANGED <<born, live, owner, managed>>,
           NEW c \in Contexts, ~Fresh(c),
           ctx' = [ctx EXCEPT ![c].completion = IF @ = "pending" THEN "cancelled" ELSE @]
    PROVE  ContextsOK' /\ GraphsOK' /\ NoneBegins /\ KeepsResults
<1>. DEFINE x == ctx[c]
            y == [x EXCEPT !.completion = IF @ = "pending" THEN "cancelled" ELSE @]
<1>1. /\ ctx \in [Contexts -> Context] /\ x \in Context /\ Sound(x)
      /\ ctx' = [ctx EXCEPT ![c] = y]
    BY DEF ContextsOK
<1>2. /\ y \in Context /\ y.status = x.status /\ y.result = x.result
      /\ y.state = x.state /\ y.steps = x.steps /\ y.history = x.history
      /\ y.completion = (IF x.completion = "pending" THEN "cancelled" ELSE x.completion)
    BY <1>1 DEF Context
<1>3. y = [x EXCEPT !.completion = y.completion]
    BY <1>1, <1>2 DEF Context
<1>. HIDE DEF y
<1>4. Sound(y)
    <2>1. Saved(y) = Saved(x)
        BY <1>2 DEF Saved
    <2>. QED BY <1>1, <1>2, <2>1 DEF Sound, Whole, WholeHistory, Fresh
<1>5. ctx'[c] = y /\ \A d \in Contexts \ {c} : ctx'[d] = ctx[d]
    BY <1>1
<1>6. ContextsOK'
    <2>1. ctx' \in [Contexts -> Context]
        BY <1>1, <1>2
    <2>2. ASSUME NEW d \in Contexts PROVE Sound(ctx'[d])
        BY <1>4, <1>5 DEF ContextsOK
    <2>. QED BY <2>1, <2>2 DEF ContextsOK
<1>7. \A d \in Contexts : ctx'[d].status = ctx[d].status
    BY <1>2, <1>5
<1>8. GraphsOK'
    BY <1>7 DEF GraphsOK, Running
<1>9. \A d \in Contexts : Settled(d)
    BY <1>1, <1>3, <1>5, SameRecord DEF Settled
<1>10. KeepsResults
    BY <1>2, <1>5 DEF KeepsResults
<1>. QED BY <1>6, <1>7, <1>8, <1>9, <1>10 DEF NoneBegins, Running, Fresh

LEMMA CancelInvokerKeeps ==
    ASSUME IInv, NEW c \in Contexts, CancelInvoker(c)
    PROVE  IInv' /\ AllSettled
<1>1. /\ UNCHANGED <<born, live, owner, managed, slot, lost>>
      /\ ContextsOK /\ GraphsOK /\ NotBegun(c)
    BY DEF CancelInvoker, graphVars, IInv, CarriersOK
<1>2. PICK v \in {"closing", "postCancelled", "waitCancelled"} :
        /\ invoker' = [invoker EXCEPT ![c] = v]
        /\ v = "waitCancelled" <=> ~InvokerCarries(c)
    BY DEF CancelInvoker, Becomes, InvokerCarries
<1>3. invoker[c] \in {"created", "posting", "waiting"}
    BY DEF CancelInvoker
<1>4. ~Fresh(c)
    BY <1>1, <1>3 DEF NotBegun
<1>5. ContextsOK' /\ GraphsOK' /\ NoneBegins /\ KeepsResults
    <2>1. CASE ctx' = ctx
        BY <1>1, <2>1, CalmKeeps
    <2>2. CASE ctx' = [ctx EXCEPT ![c].completion =
                         IF @ = "pending" THEN "cancelled" ELSE @]
        BY <1>1, <1>4, <2>2, CompletionCancelled
    <2>. QED BY <2>1, <2>2 DEF CancelInvoker
<1>6. IInv'
    BY <1>1, <1>2, <1>3, <1>5, InvokerMoves DEF Invoker, InvokerCarries
<1>. QED BY <1>5, <1>6 DEF NoneBegins, AllSettled

(* A cancelled caller ends its attempt. *)
LEMMA InvokerCancelledKeeps ==
    ASSUME IInv, NEW c \in Contexts, InvokerCancelled(c)
    PROVE  IInv' /\ AllSettled
<1>1. /\ UNCHANGED <<born, live, owner, slot, lost>>
      /\ invoker[c] \in {"closing", "postCancelled", "waitCancelled"}
      /\ invoker' = [invoker EXCEPT ![c] = "cancelled"]
      /\ ContextsOK /\ GraphsOK /\ ctx[c] \in Context /\ Sound(ctx[c])
    BY DEF InvokerCancelled, graphVars, IInv, Becomes, ContextsOK
<1>2. ContextsOK' /\ GraphsOK' /\ NoneBegins /\ KeepsResults /\ ~Running(c)'
    <2>1. CASE ~Running(c)
        <3>1. UNCHANGED <<born, live, owner, managed, ctx>>
            BY <1>1, <2>1 DEF InvokerCancelled
        <3>2. ~Running(c)'
            BY <2>1, <3>1 DEF Running
        <3>. QED BY <1>1, <3>1, <3>2, CalmKeeps
    <2>2. CASE Running(c)
        <3>1. PICK y \in {Abort(ctx[c]), Cancel(ctx[c])} : End(c, y)
            BY <2>2 DEF InvokerCancelled
        <3>2. ctx[c].status \in {"pending", "running"}
            BY <2>2 DEF Running
        <3>3. y \in Context /\ Sound(y) /\ y.status \in Terminal
            BY <1>1, <3>1, <3>2, EndedSound
        <3>. QED BY <1>1, <3>1, <3>2, <3>3, EndKeeps
    <2>. QED BY <2>1, <2>2
<1>3. IInv'
    BY <1>1, <1>2, InvokerMoves DEF Invoker, InvokerCarries
<1>. QED BY <1>2, <1>3 DEF NoneBegins, AllSettled

-----------------------------------------------------------------------------
(* Dispatches.                                                              *)

(* An event that is somewhere belongs to an attempt. *)
LEMMA EventOf ==
    ASSUME IInv, NEW s \in Slots, slot[s].at # "free"
    PROVE  /\ slot \in [Slots -> SlotState] /\ slot[s] \in SlotState
           /\ slot[s].c \in Contexts
           /\ ctx[slot[s].c] \in Context /\ Sound(ctx[slot[s].c])
           /\ Running(slot[s].c) => /\ GraphOf[slot[s].c] = owner
                                    /\ owner \in live
                                    /\ slot[s].c \in managed
           /\ Running(slot[s].c) /\ slot[s].at # "queued" =>
                                    slot[s].by = GraphOf[slot[s].c]
           /\ ContextsOK /\ GraphsOK /\ lost \subseteq Contexts
<1>. DEFINE d == slot[s].c
<1>1. slot \in [Slots -> SlotState] /\ d \in Contexts /\ lost \subseteq Contexts
    BY DEF IInv, CarriersOK, SlotsOK
<1>2. Served(d) /\ ctx[d] \in Context /\ Sound(ctx[d])
    BY <1>1 DEF IInv, CarriersOK, ContextsOK
<1>3. Running(d) => GraphOf[d] = owner /\ owner \in live /\ d \in managed
    BY <1>1 DEF IInv, GraphsOK
<1>. QED BY <1>1, <1>2, <1>3 DEF Served, IInv

(* The dispatch of an event moves on. *)
LEMMA MovesKeeps ==
    ASSUME IInv, ContextsOK', GraphsOK', NoneBegins, KeepsResults,
           UNCHANGED <<invoker, lost>>,
           NEW s \in Slots, NEW d \in Contexts, slot[s].c = d,
           slot[s].at \in {"upstream", "node", "posting", "after"},
           NEW a \in {"node", "posting", "after", "unwinding"}, Moves(s, a),
           a \in {"node", "posting"} => slot[s].at # "after",
           Running(d)' /\ a = "after" => slot[s].at = "after"
    PROVE  IInv'
<1>. DEFINE z == [slot[s] EXCEPT !.at = a]
<1>1. /\ slot \in [Slots -> SlotState] /\ slot[s] \in SlotState
      /\ Running(d) => slot[s].by = GraphOf[d]
      /\ lost \subseteq Contexts
    BY EventOf
<1>2. z \in SlotState /\ z.at = a /\ z.c = d /\ z.by = slot[s].by
    BY <1>1 DEF SlotState
<1>3. slot' = [slot EXCEPT ![s] = z]
    BY DEF Moves
<1>. HIDE DEF z
<1>4. Running(d)' => Running(d)
    BY DEF NoneBegins
<1>5. lost \subseteq lost' /\ lost' \subseteq Contexts /\ invoker' = invoker
    BY <1>1
<1>6. Running(d)' =>
        /\ z.at \notin {"free", "queued"} => z.by = GraphOf[d]
        /\ Carries(s, d) \/ slot[s].at = "unwinding" =>
             \/ z.at \in {"queued", "upstream", "node", "posting", "unwinding"}
             \/ d \in lost'
        /\ slot[s].at = "unwinding" => z.at = "unwinding"
    BY <1>1, <1>2, <1>4 DEF Carries
<1>7. z.at \in {"queued", "upstream", "node", "posting"} => Carries(s, d)
    BY <1>2 DEF Carries
<1>8. z.c = IF z.at = "free" THEN None ELSE d
    BY <1>2
<1>. QED BY <1>2, <1>3, <1>5, <1>6, <1>7, <1>8, DispatchMoves

(* An event leaves its slot without leaving a running attempt behind, or    *)
(* with a note that it is lost.                                             *)
LEMMA FreedKeeps ==
    ASSUME IInv, ContextsOK', GraphsOK', NoneBegins, KeepsResults,
           invoker' = invoker, lost \subseteq lost', lost' \subseteq Contexts,
           NEW s \in Slots, NEW d \in Contexts, slot[s].c = d,
           slot' = [slot EXCEPT ![s] = Free],
           Running(d)' => slot[s].at = "after" \/ (Carries(s, d) /\ d \in lost')
    PROVE  IInv'
<1>1. Free \in SlotState /\ Free.at = "free" /\ Free.c = None
    BY DEF Free, SlotState
<1>2. Running(d)' =>
        /\ Free.at \notin {"free", "queued"} => Free.by = GraphOf[d]
        /\ Carries(s, d) \/ slot[s].at = "unwinding" =>
             \/ Free.at \in {"queued", "upstream", "node", "posting", "unwinding"}
             \/ d \in lost'
        /\ slot[s].at = "unwinding" => Free.at = "unwinding"
    BY <1>1 DEF Carries
<1>3. Free.at \in {"queued", "upstream", "node", "posting"} => Carries(s, d)
    BY <1>1
<1>4. Free.c = IF Free.at = "free" THEN None ELSE d
    BY <1>1
<1>. QED BY <1>1, <1>2, <1>3, <1>4, DispatchMoves

(* The chain of handlers is captured with the handler of the owner, which   *)
(* is the graph of every running attempt.                                   *)
LEMMA DequeueKeeps ==
    ASSUME IInv, NEW s \in Slots, NEW d \in Contexts, slot[s].c = d, Dequeue(s)
    PROVE  IInv' /\ AllSettled
<1>. DEFINE z == [slot[s] EXCEPT !.at = "upstream", !.by = owner]
<1>1. /\ UNCHANGED <<born, live, owner, managed, ctx, invoker, lost>>
      /\ slot[s].at = "queued"
      /\ ContextsOK /\ GraphsOK /\ slot[s] \in SlotState
      /\ Running(d) => GraphOf[d] = owner /\ owner \in live
      /\ lost \subseteq Contexts
    BY EventOf DEF Dequeue, graphVars
<1>2. ContextsOK' /\ GraphsOK' /\ NoneBegins /\ KeepsResults
    BY <1>1, CalmKeeps
<1>3. /\ Running(d)' => GraphOf[d] = owner /\ owner \in live
      /\ invoker' = invoker /\ lost' = lost /\ lost \subseteq Contexts
    BY <1>1 DEF Running
<1>4. CASE owner = None
    <2>1. slot' = [slot EXCEPT ![s] = Free]
        BY <1>4 DEF Dequeue
    <2>2. ~Running(d)'
        BY <1>3, <1>4, GraphAssumption DEF IInv, GraphsOK
    <2>3. IInv'
        BY <1>2, <1>3, <2>1, <2>2, FreedKeeps
    <2>. QED BY <1>2, <2>3 DEF NoneBegins, AllSettled
<1>5. CASE owner # None
    <2>1. slot' = [slot EXCEPT ![s] = z]
        BY <1>5 DEF Dequeue
    <2>2. owner \in Graphs
        BY <1>1, <1>5 DEF GraphsOK
    <2>3. z \in SlotState /\ z.at = "upstream" /\ z.c = d /\ z.by = owner
        BY <1>1, <2>2 DEF SlotState
    <2>. HIDE DEF z
    <2>4. Carries(s, d)
        BY <1>1 DEF Carries
    <2>5. Running(d)' =>
            /\ z.at \notin {"free", "queued"} => z.by = GraphOf[d]
            /\ Carries(s, d) \/ slot[s].at = "unwinding" =>
                 \/ z.at \in {"queued", "upstream", "node", "posting", "unwinding"}
                 \/ d \in lost'
            /\ slot[s].at = "unwinding" => z.at = "unwinding"
        BY <1>1, <1>3, <2>3
    <2>6. z.c = IF z.at = "free" THEN None ELSE d
        BY <2>3
    <2>7. lost \subseteq lost' /\ lost' \subseteq Contexts
        BY <1>3
    <2>8. IInv'
        BY <1>2, <1>3, <2>1, <2>3, <2>4, <2>5, <2>6, <2>7, DispatchMoves
    <2>. QED BY <1>2, <2>8 DEF NoneBegins, AllSettled
<1>. QED BY <1>4, <1>5

LEMMA EventDroppedKeeps ==
    ASSUME IInv, NEW s \in Slots, NEW d \in Contexts, slot[s].c = d, EventDropped(s)
    PROVE  IInv' /\ AllSettled
<1>1. /\ UNCHANGED <<born, live, owner, managed, ctx>> /\ invoker' = invoker
      /\ slot[s].at \in {"queued", "upstream"}
      /\ slot' = [slot EXCEPT ![s] = Free]
      /\ lost' = IF Running(d) THEN lost \cup {d} ELSE lost
      /\ ContextsOK /\ GraphsOK /\ lost \subseteq Contexts
    BY EventOf DEF EventDropped, C
<1>2. ContextsOK' /\ GraphsOK' /\ NoneBegins /\ KeepsResults
    BY <1>1, CalmKeeps
<1>3. /\ lost \subseteq lost' /\ lost' \subseteq Contexts
      /\ Running(d)' => Carries(s, d) /\ d \in lost'
    BY <1>1 DEF Running, Carries
<1>4. IInv'
    BY <1>1, <1>2, <1>3, FreedKeeps
<1>. QED BY <1>2, <1>4 DEF NoneBegins, AllSettled

(* Every way to end a dispatch early ends its attempt. *)
LEMMA DispatchStops ==
    ASSUME IInv, NEW s \in Slots, NEW d \in Contexts, slot[s].c = d,
           UpstreamEnds(s) \/ DispatchFails(s) \/ DispatchCancelled(s)
    PROVE  IInv' /\ AllSettled
<1>1. /\ UNCHANGED <<born, live, owner, lost>> /\ invoker' = invoker /\ lost' = lost
      /\ slot[s].at \in {"upstream", "node", "posting", "unwinding"}
      /\ ContextsOK /\ GraphsOK /\ lost \subseteq Contexts
      /\ Running(d) => slot[s].by = GraphOf[d]
    BY EventOf DEF UpstreamEnds, DispatchFails, DispatchCancelled, graphVars
<1>2. PICK y \in {Fail(ctx[d]), Abort(ctx[d]), Cancel(ctx[d])} :
        EndIfActive(slot[s].by, d, y)
    BY DEF UpstreamEnds, DispatchFails, DispatchCancelled, C, By
<1>3. /\ ContextsOK' /\ GraphsOK' /\ NoneBegins /\ KeepsResults
      /\ slot[s].by = GraphOf[d] => ~Running(d)'
    BY <1>1, <1>2, EndIfActiveKeeps
<1>4. ~Running(d)'
    BY <1>1, <1>3 DEF NoneBegins
<1>5. IInv'
    <2>1. CASE DispatchCancelled(s)
        <3>1. slot' = [slot EXCEPT ![s] = Free] /\ lost \subseteq lost'
              /\ lost' \subseteq Contexts
            BY <1>1, <2>1 DEF DispatchCancelled
        <3>. QED BY <1>1, <1>3, <1>4, <3>1, FreedKeeps
    <2>2. CASE UpstreamEnds(s) \/ DispatchFails(s)
        <3>1. Moves(s, "after") /\ slot[s].at \in {"upstream", "node", "posting"}
            BY <2>2 DEF UpstreamEnds, DispatchFails
        <3>. QED BY <1>1, <1>3, <1>4, <3>1, MovesKeeps
    <2>. QED BY <2>1, <2>2
<1>. QED BY <1>3, <1>5 DEF NoneBegins, AllSettled

(* A checkpoint is taken of a running attempt, whose state is whole. *)
LEMMA DispatchNodeKeeps ==
    ASSUME IInv, NEW s \in Slots, NEW d \in Contexts, slot[s].c = d, DispatchNode(s)
    PROVE  IInv' /\ AllSettled
<1>. DEFINE x == ctx[d]
            taken == [state |-> x.state, steps |-> x.steps, target |-> x.target]
            longer == Append(x.history, taken)
            y == [x EXCEPT !.history = longer]
<1>1. /\ UNCHANGED <<born, live, owner, invoker, lost>>
      /\ slot[s].at = "upstream" /\ x \in Context /\ Sound(x)
      /\ ContextsOK /\ GraphsOK /\ lost \subseteq Contexts
      /\ Running(d) => slot[s].by = GraphOf[d]
    BY EventOf DEF DispatchNode, graphVars
<1>2. CASE Active(slot[s].by, d) /\ x.target = "node"
    <2>1. Running(d) /\ x.status = "running" /\ Whole(x) /\ WholeHistory(x)
        BY <1>1, <1>2 DEF Active, Running, Sound
    <2>2. taken \in Checkpoint /\ Whole(taken)
        BY <1>1, <2>1 DEF Context, Checkpoint, Whole
    <2>3. Moves(s, "node") /\ (Update(d, y) \/ Update(d, x))
        BY <1>2 DEF DispatchNode, C, By
    <2>. HIDE DEF taken
    <2>4. /\ y \in Context /\ y.status = x.status /\ y.completion = x.completion
          /\ y.state = x.state /\ y.steps = x.steps /\ y.result = x.result
          /\ y.history = longer
        <3>1. x.history \in Seq(Checkpoint)
            BY <1>1 DEF Context
        <3>2. longer \in Seq(Checkpoint)
            BY <2>2, <3>1
        <3>. HIDE DEF longer
        <3>. QED BY <1>1, <3>2 DEF Context
    <2>. HIDE DEF y
    <2>5. WholeHistory(y)
        <3>1. x.history \in Seq(Checkpoint) /\ Len(x.history) \in Nat
            BY <1>1 DEF Context
        <3>2. /\ DOMAIN y.history = 1..Len(x.history) + 1
              /\ y.history[Len(x.history) + 1] = taken
              /\ \A i \in 1..Len(x.history) : y.history[i] = x.history[i]
            <4>1. y.history = Append(x.history, taken) /\ taken \in Checkpoint
                BY <2>2, <2>4
            <4>. QED BY <3>1, <4>1, AppendProperties
        <3>. QED BY SMTT(30), <2>1, <2>2, <3>1, <3>2 DEF WholeHistory
    <2>6. Sound(y)
        <3>1. x.completion # "result"
            BY <1>1, <2>1 DEF Sound
        <3>. QED BY <2>1, <2>4, <2>5, <3>1 DEF Sound, Whole
    <2>7. ContextsOK' /\ GraphsOK' /\ NoneBegins /\ KeepsResults
        <3>1. UNCHANGED <<born, live, owner>>
            BY <1>1
        <3>2. CASE Update(d, y)
            BY <1>1, <2>1, <2>4, <2>6, <3>1, <3>2, UpdateKeeps
               DEF Running, Fresh, Terminal
        <3>3. CASE Update(d, x)
            BY <1>1, <2>1, <3>1, <3>3, UpdateKeeps DEF Running, Fresh, Terminal
        <3>. QED BY <2>3, <3>2, <3>3
    <2>8. IInv'
        BY <1>1, <2>3, <2>7, MovesKeeps
    <2>. QED BY <2>7, <2>8 DEF NoneBegins, AllSettled
<1>3. CASE ~(Active(slot[s].by, d) /\ x.target = "node")
    <2>1. Moves(s, "after") /\ EndIfActive(slot[s].by, d, Finish(ctx[d]))
        BY <1>3 DEF DispatchNode, C, By
    <2>2. /\ ContextsOK' /\ GraphsOK' /\ NoneBegins /\ KeepsResults
          /\ slot[s].by = GraphOf[d] => ~Running(d)'
        BY <1>1, <2>1, EndIfActiveKeeps
    <2>3. ~Running(d)'
        BY <1>1, <2>2 DEF NoneBegins
    <2>4. IInv'
        BY <1>1, <2>1, <2>2, <2>3, MovesKeeps
    <2>. QED BY <2>2, <2>4 DEF NoneBegins, AllSettled
<1>. QED BY <1>2, <1>3

LEMMA BatchAdds ==
    ASSUME NEW n \in Nat
    PROVE  Batch * (n + 1) = Batch * n + Batch
BY GraphAssumption

(* A result is committed as a whole batch of an attempt that still runs; a  *)
(* batch that fails half way ends its attempt.                              *)
LEMMA NodeReturnsKeeps ==
    ASSUME IInv, NEW s \in Slots, NEW d \in Contexts, slot[s].c = d, NodeReturns(s)
    PROVE  IInv' /\ AllSettled
<1>. DEFINE x == ctx[d]
            done == [x EXCEPT !.state = @ + Batch, !.steps = @ + 1]
            half(n) == [x EXCEPT !.state = @ + n]
<1>1. /\ UNCHANGED <<born, live, owner, invoker, lost>>
      /\ slot[s].at = "node" /\ x \in Context /\ Sound(x)
      /\ ContextsOK /\ GraphsOK /\ Batch \in Nat
    BY EventOf, GraphAssumption DEF NodeReturns, graphVars
<1>0. /\ done \in Context /\ done.history = x.history
      /\ done.completion = x.completion /\ done.status = x.status
      /\ done.state = x.state + Batch /\ done.steps = x.steps + 1
    <2>1. x.state + Batch \in Nat /\ x.steps + 1 \in Nat
        BY <1>1 DEF Context
    <2>2. done.history = x.history
        BY <1>1 DEF Context
    <2>3. done.completion = x.completion
        BY <1>1 DEF Context
    <2>4. done.status = x.status
        BY <1>1 DEF Context
    <2>5. done.state = x.state + Batch
        BY <1>1 DEF Context
    <2>6. done.steps = x.steps + 1
        BY <1>1 DEF Context
    <2>7. done \in Context
        BY <1>1, <2>1 DEF Context
    <2>. QED BY <2>2, <2>3, <2>4, <2>5, <2>6, <2>7
<1>2. CASE ~Running(d)
    <2>1. Moves(s, "after") /\ UNCHANGED <<ctx, managed>>
        BY <1>2 DEF NodeReturns, C
    <2>2. ContextsOK' /\ GraphsOK' /\ NoneBegins /\ KeepsResults
        BY <1>1, <2>1, CalmKeeps
    <2>3. ~Running(d)'
        BY <1>2, <2>2 DEF NoneBegins
    <2>4. IInv'
        BY <1>1, <2>1, <2>2, <2>3, MovesKeeps
    <2>. QED BY <2>2, <2>4 DEF NoneBegins, AllSettled
<1>3. ASSUME Running(d), NEW goto \in Targets,
             Update(d, [done EXCEPT !.target = goto]), Moves(s, "posting")
      PROVE  IInv' /\ AllSettled
    <2>. DEFINE y == [done EXCEPT !.target = goto]
    <2>1. x.status = "running" /\ Whole(x) /\ x.steps \in Nat /\ x.state \in Nat
          /\ x.completion # "result"
        BY <1>1, <1>3 DEF Running, Sound, Context
    <2>2. /\ y \in Context /\ y.status = "running" /\ y.completion = x.completion
          /\ y.state = x.state + Batch /\ y.steps = x.steps + 1
          /\ y.history = x.history
        <3>. HIDE DEF done
        <3>. QED BY <1>0, <2>1 DEF Context, Targets
    <2>3. Update(d, y)
        BY <1>3
    <2>. HIDE DEF y
    <2>4. Whole(y)
        BY <2>1, <2>2, BatchAdds DEF Whole
    <2>5. Sound(y)
        BY <1>1, <2>1, <2>2, <2>4 DEF Sound, WholeHistory
    <2>6. UNCHANGED <<born, live, owner>>
        BY <1>1
    <2>7. ContextsOK' /\ GraphsOK' /\ NoneBegins /\ KeepsResults
        BY <1>1, <2>1, <2>2, <2>3, <2>5, <2>6, UpdateKeeps
           DEF Running, Fresh, Terminal
    <2>8. IInv'
        BY <1>1, <1>3, <2>7, MovesKeeps
    <2>. QED BY <2>7, <2>8 DEF NoneBegins, AllSettled
<1>4. ASSUME Running(d), NEW w \in Context, WholeHistory(w),
             w.completion = x.completion, End(d, Fail(w)), Moves(s, "after")
      PROVE  IInv' /\ AllSettled
    <2>1. x.status \in {"pending", "running"} /\ x.completion # "result"
        BY <1>1, <1>4 DEF Running, Sound
    <2>2. Fail(w) \in Context /\ Sound(Fail(w)) /\ Fail(w).status \in Terminal
        BY <1>4, <2>1, FailedSound
    <2>3. UNCHANGED <<born, live, owner>>
        BY <1>1
    <2>4. /\ ContextsOK' /\ GraphsOK' /\ NoneBegins /\ KeepsResults
          /\ ~Running(d)'
        BY <1>1, <1>4, <2>1, <2>2, <2>3, EndKeeps
    <2>5. IInv'
        BY <1>1, <1>4, <2>4, MovesKeeps
    <2>. QED BY <2>4, <2>5 DEF NoneBegins, AllSettled
<1>5. /\ WholeHistory(done)
      /\ \A n \in 0..(Batch - 1) :
           half(n) \in Context /\ WholeHistory(half(n))
             /\ half(n).completion = x.completion
    <2>1. x.state \in Nat /\ WholeHistory(x)
        BY <1>1 DEF Context, Sound
    <2>2. ASSUME NEW n \in 0..(Batch - 1)
          PROVE  half(n) \in Context /\ half(n).history = x.history
                   /\ half(n).completion = x.completion
        <3>1. x.state + n \in Nat
            BY <1>1, <2>1, <2>2
        <3>2. half(n) \in Context
            BY <1>1, <3>1 DEF Context
        <3>3. half(n).history = x.history
            BY <1>1 DEF Context
        <3>4. half(n).completion = x.completion
            BY <1>1 DEF Context
        <3>. QED BY <3>2, <3>3, <3>4
    <2>. HIDE DEF done, half
    <2>. QED BY <1>0, <2>1, <2>2 DEF WholeHistory
<1>6. CASE Running(d)
    <2>1. \/ \E goto \in Targets :
               \/ Update(d, [done EXCEPT !.target = goto]) /\ Moves(s, "posting")
               \/ End(d, Fail(done)) /\ Moves(s, "after")
          \/ \E n \in 0..(Batch - 1) : End(d, Fail(half(n))) /\ Moves(s, "after")
        BY <1>6 DEF NodeReturns, C
    <2>. HIDE DEF half
    <2>2. CASE End(d, Fail(done)) /\ Moves(s, "after")
        BY <1>0, <1>4, <1>5, <1>6, <2>2
    <2>3. CASE \E n \in 0..(Batch - 1) : End(d, Fail(half(n))) /\ Moves(s, "after")
        BY <1>4, <1>5, <1>6, <2>3
    <2>. QED BY <1>3, <1>6, <2>1, <2>2, <2>3
<1>. QED BY <1>2, <1>6

LEMMA DispatchEndsKeeps ==
    ASSUME IInv, NEW s \in Slots, NEW d \in Contexts, slot[s].c = d,
           EndDispatch(s) \/ CancelDispatch(s)
    PROVE  IInv' /\ AllSettled
<1>1. /\ UNCHANGED <<born, live, owner, managed, ctx>> /\ invoker' = invoker
      /\ lost' = lost /\ slot[s].at \in {"upstream", "node", "posting", "after"}
      /\ ContextsOK /\ GraphsOK /\ lost \subseteq Contexts
    BY EventOf DEF EndDispatch, CancelDispatch, graphVars
<1>2. ContextsOK' /\ GraphsOK' /\ NoneBegins /\ KeepsResults
    BY <1>1, CalmKeeps
<1>3. IInv'
    <2>1. CASE EndDispatch(s)
        <3>1. slot' = [slot EXCEPT ![s] = Free] /\ slot[s].at = "after"
              /\ lost \subseteq lost' /\ lost' \subseteq Contexts
            BY <1>1, <2>1 DEF EndDispatch
        <3>. QED BY <1>1, <1>2, <3>1, FreedKeeps
    <2>2. CASE CancelDispatch(s)
        <3>1. Moves(s, "unwinding")
            BY <2>2 DEF CancelDispatch
        <3>. QED BY <1>1, <1>2, <3>1, MovesKeeps
    <2>. QED BY <2>1, <2>2
<1>. QED BY <1>2, <1>3 DEF NoneBegins, AllSettled

(* The next event replaces the dispatch that posts it. *)
LEMMA PutNextKeeps ==
    ASSUME IInv, NEW s \in Slots, NEW c \in Contexts, slot[s].c = c, PutNext(s)
    PROVE  IInv' /\ AllSettled
<1>. DEFINE z == [slot[s] EXCEPT !.at = "after"]
<1>1. /\ UNCHANGED <<born, live, owner, managed, ctx>>
      /\ invoker' = invoker /\ lost' = lost
      /\ slot[s].at = "posting" /\ slot \in [Slots -> SlotState]
      /\ slot[s] \in SlotState /\ ContextsOK /\ GraphsOK
    BY EventOf DEF PutNext, graphVars
<1>2. ContextsOK' /\ GraphsOK' /\ NoneBegins /\ KeepsResults
    BY <1>1, CalmKeeps
<1>3. PICK t \in Slots :
        /\ slot[t] = Free
        /\ slot' = [slot EXCEPT ![s].at = "after", ![t] = Queued(c)]
    BY DEF PutNext, C
<1>4. /\ slot[t].at = "free" /\ slot[t].c = None /\ t # s
      /\ Queued(c) \in SlotState /\ Queued(c).at = "queued" /\ Queued(c).c = c
      /\ c # None
    BY <1>1, <1>3, QueuedShape, GraphAssumption DEF Free
<1>5. z \in SlotState /\ z.at = "after" /\ z.c = c /\ z.by = slot[s].by
    BY <1>1 DEF SlotState
<1>6. /\ slot' \in [Slots -> SlotState]
      /\ slot'[s] = z /\ slot'[t] = Queued(c)
      /\ \A r \in Slots \ {s, t} : slot'[r] = slot[r]
    BY <1>1, <1>3, <1>4, <1>5
<1>. HIDE DEF z
<1>7. ASSUME NEW d \in Contexts
      PROVE  (NotBegun(d) /\ Served(d) /\ Single(d) /\ Carried(d))'
    <2>1. /\ NotBegun(d) /\ Served(d) /\ Single(d) /\ Carried(d)
          /\ ctx'[d] = ctx[d] /\ lost' = lost /\ invoker' = invoker
        BY <1>1 DEF IInv, CarriersOK
    <2>2. CASE d = c
        <3>1. Carries(s, d)
            BY <1>1, <2>2 DEF Carries
        <3>2. NotBegun(d)'
            BY <2>1, <2>2 DEF NotBegun, Fresh
        <3>3. Served(d)'
            BY <1>1, <1>4, <1>5, <1>6, <2>1, <2>2 DEF Served, Running
        <3>4. Running(d)' => ~InvokerCarries(d)' /\ \A r \in Slots : Carries(r, d) => r = s
            BY <2>1, <3>1 DEF Single, InvokerCarries, Running
        <3>5. Running(d)' => \A r \in Slots : Carries(r, d)' => r = t
            BY <1>5, <1>6, <3>4 DEF Carries
        <3>6. Single(d)'
            BY <3>4, <3>5 DEF Single
        <3>7. Carried(d)'
            BY <1>4, <1>6, <2>2 DEF Carried, Carries
        <3>. QED BY <3>2, <3>3, <3>6, <3>7
    <2>3. CASE d # c
        <3>1. \A r \in Slots : (slot'[r].c = d <=> slot[r].c = d)
                                 /\ (slot[r].c = d => slot'[r] = slot[r])
            BY <1>4, <1>5, <1>6, <2>3, GraphAssumption
        <3>. QED
            BY <2>1, <3>1
               DEF NotBegun, Served, Single, Carried, Fresh, Running, Carries,
                   InvokerCarries, CancellationUnderWay
    <2>. QED BY <2>2, <2>3
<1>8. SlotsOK'
    <2>1. \A r \in Slots : IF slot[r].at = "free" THEN slot[r].c = None
                                                  ELSE slot[r].c \in Contexts
        BY DEF IInv, CarriersOK, SlotsOK
    <2>2. ASSUME NEW r \in Slots
          PROVE  IF slot'[r].at = "free" THEN slot'[r].c = None
                                         ELSE slot'[r].c \in Contexts
        BY <1>4, <1>5, <1>6, <2>1
    <2>. QED BY <1>6, <2>2 DEF SlotsOK
<1>9. CarriersOK'
    BY <1>1, <1>7, <1>8 DEF CarriersOK, IInv
<1>10. CallersOK'
    BY <1>1, <1>2 DEF CallersOK, IInv, KeepsResults
<1>. QED BY <1>2, <1>9, <1>10 DEF IInv, NoneBegins, AllSettled

-----------------------------------------------------------------------------
(* The invariant.                                                           *)

LEMMA InitHolds == Init => IInv
<1>. SUFFICES ASSUME Init PROVE IInv
    OBVIOUS
<1>1. << >> \in Seq(Checkpoint) /\ Batch * 0 = 0
    BY GraphAssumption
<1>2. Absent \in Context
    BY <1>1 DEF Absent, Context, Status, Targets
<1>3. /\ Absent.status = "absent" /\ Absent.completion = "none"
      /\ Absent.state = 0 /\ Absent.steps = 0 /\ Absent.history = << >>
    BY DEF Absent
<1>4. Sound(Absent)
    BY <1>1, <1>3 DEF Sound, Whole, WholeHistory
<1>5. \A c \in Contexts : ctx[c] = Absent /\ invoker[c] = "idle"
    BY DEF Init
<1>6. ContextsOK
    BY <1>2, <1>4, <1>5 DEF Init, ContextsOK
<1>7. GraphsOK
    BY <1>3, <1>5 DEF Init, GraphsOK, Running
<1>8. Free \in SlotState /\ Free.at = "free" /\ Free.c = None
    BY DEF Free, SlotState
<1>9. SlotsOK
    BY <1>8 DEF Init, SlotsOK
<1>10. \A s \in Slots : slot[s].c = None
    BY <1>8 DEF Init
<1>11. ASSUME NEW c \in Contexts
       PROVE  NotBegun(c) /\ Served(c) /\ Single(c) /\ Carried(c)
    BY <1>3, <1>5, <1>10, GraphAssumption
       DEF NotBegun, Served, Single, Carried, Running
<1>12. CarriersOK
    BY <1>9, <1>11 DEF Init, CarriersOK, Invoker
<1>13. CallersOK
    BY <1>5 DEF CallersOK
<1>. QED BY <1>6, <1>7, <1>12, <1>13 DEF IInv

LEMMA StepKeeps ==
    ASSUME IInv, [Next]_vars
    PROVE  IInv' /\ AllSettled
<1>1. CASE UNCHANGED vars
    <2>1. UNCHANGED <<born, live, owner, managed, ctx>>
          /\ UNCHANGED <<invoker, slot, lost>>
        BY <1>1 DEF vars
    <2>2. ContextsOK' /\ GraphsOK' /\ NoneBegins /\ KeepsResults
        BY <2>1, CalmKeeps DEF IInv
    <2>. QED BY <2>1, <2>2, AttemptMoves
<1>2. ASSUME NEW s \in Slots,
             \/ Dequeue(s) \/ EventDropped(s) \/ UpstreamEnds(s) \/ DispatchNode(s)
             \/ NodeReturns(s) \/ DispatchFails(s) \/ PutNext(s) \/ EndDispatch(s)
             \/ CancelDispatch(s) \/ DispatchCancelled(s)
      PROVE  IInv' /\ AllSettled
    <2>1. slot[s].at # "free"
        BY <1>2 DEF Dequeue, EventDropped, UpstreamEnds, DispatchNode, NodeReturns,
                    DispatchFails, PutNext, EndDispatch, CancelDispatch,
                    DispatchCancelled
    <2>2. PICK d \in Contexts : slot[s].c = d
        BY <2>1, EventOf
    <2>. QED
        BY <1>2, <2>2, DequeueKeeps, EventDroppedKeeps, DispatchStops,
           DispatchNodeKeeps, NodeReturnsKeeps, PutNextKeeps, DispatchEndsKeeps
<1>3. ASSUME NEW c \in Contexts,
             InvokerStep(c) \/ InvokerPostFails(c) \/ CancelInvoker(c)
      PROVE  IInv' /\ AllSettled
    BY <1>3, InvokeStartsKeeps, InvokerPutsKeeps, InvokerResumesKeeps,
       InvokerCancelledKeeps, InvokerPostFailsKeeps, CancelInvokerKeeps
       DEF InvokerStep
<1>. QED
    BY <1>1, <1>2, <1>3, ReplacementKeeps, CreateKeeps, RestoreKeeps, AbortKeeps,
       BeginKeeps DEF Next

THEOREM InvocationInvariant == Spec => []IInv
BY InitHolds, StepKeeps, PTL DEF Spec

(* The variables keep their types, and the owner of the namespace is live. *)
THEOREM InvocationTypes == Spec => []TypeOK
<1>1. ASSUME IInv PROVE TypeOK
    BY <1>1 DEF IInv, TypeOK, ContextsOK, GraphsOK, CarriersOK, SlotsOK
<1>. QED BY <1>1, InvocationInvariant, PTL

(* Replacing and decomposing graphs (node_graph.py: decompose) leaves no    *)
(* attempt running that its graph no longer manages.                        *)
THEOREM RunningIsManaged == Spec => []GraphsManageRunning
<1>1. ASSUME IInv PROVE GraphsManageRunning
    BY <1>1 DEF IInv, GraphsOK, GraphsManageRunning
<1>. QED BY <1>1, InvocationInvariant, PTL

(* Whatever is cancelled, aborted, dropped or replaced, a running attempt   *)
(* has one carrier, so no node of it runs twice and its caller is served.   *)
THEOREM RunningHasOneCarrier == Spec => []OneCarrier
<1>1. ASSUME IInv PROVE OneCarrier
    <2>. SUFFICES ASSUME NEW c \in Contexts, Running(c)
                  PROVE  /\ Cardinality(Carriers(c)) <= 1
                         /\ Carriers(c) # {} \/ CancellationUnderWay(c) \/ c \in lost
        BY DEF OneCarrier
    <2>1. Single(c) /\ Carried(c)
        BY <1>1 DEF IInv, CarriersOK
    <2>2. Carriers(c) = {s \in Slots : Carries(s, c)}
                          \cup (IF InvokerCarries(c) THEN {c} ELSE {})
        BY DEF Carriers, Carries, InvokerCarries
    <2>3. Carriers(c) # {} \/ CancellationUnderWay(c) \/ c \in lost
        BY <2>1, <2>2 DEF Carried
    <2>4. Cardinality(Carriers(c)) <= 1
        <3>1. CASE Carriers(c) = {}
            <4>1. Cardinality({}) = 0
                BY FS_EmptySet
            <4>2. Cardinality(Carriers(c)) = 0
                BY <3>1, <4>1
            <4>. QED BY <4>2
        <3>2. CASE Carriers(c) # {}
            <4>1. PICK x \in Carriers(c) : TRUE
                BY <3>2
            <4>2. Carriers(c) = {x}
                BY <2>1, <2>2, <4>1 DEF Single
            <4>3. Cardinality({x}) = 1
                BY FS_Singleton
            <4>4. Cardinality(Carriers(c)) = 1
                BY <4>2, <4>3
            <4>. QED BY <4>4
        <3>. QED BY <3>1, <3>2
    <2>. QED BY <2>3, <2>4
<1>. QED BY <1>1, InvocationInvariant, PTL

(* Checkpoints hold whole batches, and every batch once. *)
THEOREM WholeCheckpoints == Spec => []CheckpointsAreWhole
<1>1. ASSUME IInv PROVE CheckpointsAreWhole
    BY <1>1 DEF IInv, ContextsOK, Sound, WholeHistory, Whole, CheckpointsAreWhole
<1>. QED BY <1>1, InvocationInvariant, PTL

(* A caller never gets half of a batch, nor a state that changed since. *)
THEOREM WholeResults == Spec => []CallersGetWholeStates
<1>1. ASSUME IInv PROVE CallersGetWholeStates
    BY <1>1 DEF IInv, ContextsOK, CallersOK, Sound, Whole, CallersGetWholeStates
<1>. QED BY <1>1, InvocationInvariant, PTL

(* A node batch that returns after its attempt has ended changes nothing.   *)
THEOREM LateResultsAreDropped == Spec => LateResultsNeverCommit
<1>1. AllSettled => \A c \in Contexts : ctx[c].status \in Terminal =>
        ctx'[c] = [ctx[c] EXCEPT !.completion = ctx'[c].completion]
    BY DEF AllSettled, Settled
<1>. QED
    BY <1>1, StepKeeps, InvocationInvariant, PTL DEF Spec, LateResultsNeverCommit

-----------------------------------------------------------------------------
(* Refinement of Attempts: records.                                         *)

LEMMA EndedAttempt ==
    ASSUME NEW x \in Context, NEW status, NEW how, NEW value
    PROVE  Attempt(Ended(x, status, how, value)) =
                Attempts!Ended(Attempt(x), status, how, value)
<1>. DEFINE y == Ended(x, status, how, value)
            a == Attempt(x)
<1>1. /\ y.status = status /\ y.steps = x.steps /\ y.history = x.history
      /\ y.completion = (IF x.completion = "pending" THEN how ELSE x.completion)
      /\ y.result = (IF x.completion = "pending" THEN value ELSE x.result)
    BY DEF Ended, Context
<1>2. Attempts!Ended(a, status, how, value) =
        [status |-> status, steps |-> a.steps, saved |-> a.saved,
         completion |-> IF a.completion = "pending" THEN how ELSE a.completion,
         result |-> IF a.completion = "pending" THEN value ELSE a.result]
    BY DEF Attempts!Ended
<1>3. /\ a.steps = x.steps /\ a.completion = x.completion /\ a.result = x.result
      /\ a.saved = StepsAt(x.history)
    BY DEF Attempt
<1>. HIDE DEF a, y
<1>4. Attempt(y) =
        [status |-> y.status, steps |-> y.steps,
         saved |-> StepsAt(x.history),
         completion |-> y.completion, result |-> y.result]
    BY <1>1 DEF Attempt
<1>. QED BY <1>1, <1>2, <1>3, <1>4 DEF a, y

(* The saved steps of an attempt are those of its checkpoints. *)
LEMMA StepsOf ==
    ASSUME NEW h \in Seq(Checkpoint)
    PROVE  /\ StepsAt(h) \in Seq(Nat) /\ Len(StepsAt(h)) = Len(h)
           /\ \A i \in 1..Len(h) : StepsAt(h)[i] = h[i].steps
<1>. DEFINE f == StepsAt(h)
<1>1. Len(h) \in Nat /\ DOMAIN h = 1..Len(h) /\ \A i \in DOMAIN h : h[i].steps \in Nat
    <2>1. \A i \in DOMAIN h : h[i] \in Checkpoint
        OBVIOUS
    <2>2. \A y \in Checkpoint : y.steps \in Nat
        BY DEF Checkpoint
    <2>. QED BY <2>1, <2>2
<1>2. f \in [1..Len(h) -> Nat] /\ \A i \in 1..Len(h) : f[i] = h[i].steps
    BY <1>1 DEF StepsAt
<1>. HIDE DEF f
<1>3. f \in Seq(Nat)
    BY <1>1, <1>2, SeqDef
<1>4. DOMAIN f = 1..Len(f) /\ DOMAIN f = 1..Len(h) /\ Len(f) \in Nat
    BY <1>2, <1>3
<1>5. Len(f) = Len(h)
    <2>1. 1..Len(f) = 1..Len(h)
        BY <1>4
    <2>2. Len(h) # 0 => Len(h) \in 1..Len(f)
        BY <1>1, <2>1
    <2>3. Len(f) # 0 => Len(f) \in 1..Len(h)
        BY <1>4, <2>1
    <2>4. Len(h) <= Len(f) /\ Len(f) <= Len(h)
        BY <1>1, <1>4, <2>2, <2>3
    <2>5. Len(h) \in Nat /\ Len(f) \in Nat
        BY <1>1, <1>4
    <2>. QED BY <2>4, <2>5
<1>. QED BY <1>2, <1>3, <1>5 DEF f

LEMMA SavedAttempt ==
    ASSUME NEW x \in Context, Whole(x), WholeHistory(x)
    PROVE  Saved(x) = Batch * Attempts!LastSaved(Attempt(x))
<1>1. x.history \in Seq(Checkpoint) /\ Attempt(x).steps = x.steps
      /\ Attempt(x).saved = StepsAt(x.history)
    BY DEF Context, Attempt
<1>2. CASE x.history = << >>
    <2>1. Attempt(x).saved = << >>
        BY <1>1, <1>2 DEF StepsAt
    <2>. QED BY <1>1, <1>2, <2>1 DEF Saved, Attempts!LastSaved, Whole
<1>3. CASE x.history # << >>
    <2>1. Len(x.history) \in DOMAIN x.history
        BY <1>1, <1>3
    <2>2. /\ Attempt(x).saved \in Seq(Nat) /\ Len(Attempt(x).saved) = Len(x.history)
          /\ \A i \in 1..Len(x.history) : Attempt(x).saved[i] = x.history[i].steps
        BY <1>1, StepsOf
    <2>3. Attempt(x).saved # << >>
          /\ Attempt(x).saved[Len(x.history)] = x.history[Len(x.history)].steps
        BY <1>1, <1>3, <2>1, <2>2
    <2>. QED
        BY <1>3, <2>1, <2>2, <2>3 DEF Saved, Attempts!LastSaved, WholeHistory, Whole
<1>. QED BY <1>2, <1>3

(* Every way out of a running attempt is one of the abstract ends. *)
LEMMA EndsAttempt ==
    ASSUME NEW x \in Context, Whole(x), WholeHistory(x)
    PROVE  /\ \A z \in {Finish(x), Fail(x), Abort(x), Cancel(x)} :
                Attempt(z) \in Attempts!Ends(Attempt(x))
           /\ Attempt(Abort(x)) = Attempts!Aborted(Attempt(x))
<1>1. Attempt(Abort(x)) = Attempts!Aborted(Attempt(x))
    BY EndedAttempt, SavedAttempt DEF Abort, Attempts!Aborted
<1>2. Attempt(Finish(x)) =
        Attempts!Ended(Attempt(x), "finished", "result", Batch * Attempt(x).steps)
    BY EndedAttempt DEF Finish, Attempt, Whole
<1>3. Attempt(Fail(x)) = Attempts!Ended(Attempt(x), "failed", "error", 0)
    BY EndedAttempt DEF Fail
<1>4. Attempt(Cancel(x)) = Attempts!Ended(Attempt(x), "aborted", "cancelled", 0)
    BY EndedAttempt DEF Cancel
<1>. QED BY <1>1, <1>2, <1>3, <1>4 DEF Attempts!Ends

(* A batch that fails half way leaves the attempt's steps alone; one that   *)
(* uses up the budget has counted.                                          *)
LEMMA FailsAttempt ==
    ASSUME NEW x \in Context, NEW n \in Nat
    PROVE  /\ Attempt(Fail([x EXCEPT !.state = @ + n])) \in Attempts!Ends(Attempt(x))
           /\ Attempt(Fail([x EXCEPT !.state = @ + n, !.steps = @ + 1]))
                \in Attempts!Ends(Attempt(x))
<1>. DEFINE half == [x EXCEPT !.state = @ + n]
            done == [x EXCEPT !.state = @ + n, !.steps = @ + 1]
<1>1. half \in Context /\ Attempt(half) = Attempt(x)
    BY DEF Context, Attempt
<1>2. done \in Context /\ Attempt(done) = [Attempt(x) EXCEPT !.steps = @ + 1]
    <2>1. x.state + n \in Nat /\ x.steps + 1 \in Nat
        BY DEF Context
    <2>2. /\ done \in Context /\ done.status = x.status /\ done.steps = x.steps + 1
          /\ done.history = x.history /\ done.completion = x.completion
          /\ done.result = x.result
        BY <2>1 DEF Context
    <2>. DEFINE sv == StepsAt(x.history)
    <2>3. /\ Attempt(done) = [status |-> x.status, steps |-> x.steps + 1, saved |-> sv,
                              completion |-> x.completion, result |-> x.result]
          /\ Attempt(x) = [status |-> x.status, steps |-> x.steps, saved |-> sv,
                           completion |-> x.completion, result |-> x.result]
        <3>. HIDE DEF done
        <3>. QED BY <2>2 DEF Attempt
    <2>. HIDE DEF done, sv
    <2>. QED BY <2>2, <2>3
<1>. HIDE DEF half, done
<1>3. Attempt(Fail(half)) = Attempts!Ended(Attempt(x), "failed", "error", 0)
    BY <1>1, EndedAttempt DEF Fail
<1>4. Attempt(Fail(done)) =
        Attempts!Ended([Attempt(x) EXCEPT !.steps = @ + 1], "failed", "error", 0)
    BY <1>2, EndedAttempt DEF Fail
<1>5. /\ Attempt(Fail(half)) \in Attempts!Ends(Attempt(x))
      /\ Attempt(Fail(done)) \in Attempts!Ends(Attempt(x))
    BY <1>3, <1>4 DEF Attempts!Ends
<1>. QED BY <1>5 DEF half, done

(* What is known of completions and callers, besides IInv. *)
Outcome(x, i) ==
    /\ x.completion = "pending" => x.status = "running"
    /\ x.status = "running" =>
         \/ x.completion = "pending"
         \/ x.completion = "cancelled" /\ i = "waitCancelled"
    /\ i \in {"returned", "raised", "cancelled"} => x.status \in Terminal

AnswersOK == \A c \in Contexts : Outcome(ctx[c], invoker[c])

LEMMA EndedOutcome ==
    ASSUME NEW x \in Context, NEW i
    PROVE  \A z \in {Finish(x), Fail(x), Abort(x), Cancel(x)} : Outcome(z, i)
BY DEF Finish, Fail, Abort, Cancel, Ended, Context, Outcome, Terminal

-----------------------------------------------------------------------------
(* Refinement of Attempts: steps.                                           *)

answers == [c \in Contexts |-> IF Over(c) THEN invoker[c] ELSE "none"]

Matches == AnswersOK' /\ Attempts!Next

LEMMA ContextShape ==
    ASSUME IInv, AnswersOK, NEW c \in Contexts
    PROVE  /\ ctx \in [Contexts -> Context] /\ invoker \in [Contexts -> Invoker]
           /\ ctx[c] \in Context /\ Sound(ctx[c]) /\ WholeHistory(ctx[c])
           /\ ctx[c].status # "failed" => Whole(ctx[c])
           /\ Outcome(ctx[c], invoker[c])
           /\ ctx[c].status \in Terminal \/ Running(c) \/ invoker[c] = "idle"
           /\ Running(c) => Active(GraphOf[c], c)
BY DEF IInv, ContextsOK, CarriersOK, NotBegun, Fresh, AnswersOK, Sound, GraphsOK, Active,
       Running, Context, Status, Terminal

LEMMA OneOutcome ==
    ASSUME AnswersOK, NEW c \in Contexts, Outcome(ctx'[c], invoker'[c]),
           \A d \in Contexts \ {c} : ctx'[d] = ctx[d] /\ invoker'[d] = invoker[d]
    PROVE  AnswersOK'
BY DEF AnswersOK

LEMMA BecomesAttempt ==
    ASSUME ctx \in [Contexts -> Context], NEW c \in Contexts, NEW y,
           ctx' = [ctx EXCEPT ![c] = y]
    PROVE  /\ Attempts!Becomes(c, Attempt(y))
           /\ ctx'[c] = y /\ \A d \in Contexts \ {c} : ctx'[d] = ctx[d]
<1>1. ctx'[c] = y /\ \A d \in Contexts \ {c} : ctx'[d] = ctx[d]
    OBVIOUS
<1>2. [d \in Contexts |-> Attempt(ctx'[d])] =
        [[d \in Contexts |-> Attempt(ctx[d])] EXCEPT ![c] = Attempt(y)]
    BY <1>1
<1>. QED BY <1>1, <1>2 DEF Attempts!Becomes

LEMMA AnswerMoves ==
    ASSUME invoker \in [Contexts -> Invoker], NEW c \in Contexts, NEW i, ~Over(c),
           invoker' = [invoker EXCEPT ![c] = i]
    PROVE  /\ i \in {"returned", "raised", "cancelled"} => Attempts!Answers(c, i)
           /\ i \notin {"returned", "raised", "cancelled"} => UNCHANGED answers
           /\ invoker'[c] = i /\ \A d \in Contexts \ {c} : invoker'[d] = invoker[d]
<1>1. invoker'[c] = i /\ \A d \in Contexts \ {c} : invoker'[d] = invoker[d]
    OBVIOUS
<1>2. \A d \in Contexts \ {c} : Over(d)' <=> Over(d)
    BY <1>1 DEF Over
<1>3. CASE i \in {"returned", "raised", "cancelled"}
    <2>1. answers' = [answers EXCEPT ![c] = i]
        BY <1>1, <1>2, <1>3 DEF answers, Over
    <2>2. answers[c] = "none"
        BY DEF answers
    <2>. QED BY <1>1, <1>3, <2>1, <2>2 DEF Attempts!Answers, answers
<1>4. CASE i \notin {"returned", "raised", "cancelled"}
    <2>1. answers' = answers
        BY <1>1, <1>2, <1>4 DEF answers, Over
    <2>. QED BY <1>1, <1>4, <2>1
<1>. QED BY <1>3, <1>4

LEMMA SameAnswers == invoker' = invoker => UNCHANGED answers
BY DEF answers, Over

(* Only what carries the attempts moves. *)
LEMMA CalmMatches ==
    ASSUME AnswersOK, ctx' = ctx, UNCHANGED answers,
           \A c \in Contexts : Outcome(ctx[c], invoker[c]) => Outcome(ctx[c], invoker'[c])
    PROVE  Matches
<1>1. AnswersOK'
    BY DEF AnswersOK
<1>2. [c \in Contexts |-> Attempt(ctx'[c])] = [c \in Contexts |-> Attempt(ctx[c])]
    OBVIOUS
<1>3. Attempts!Carried
    BY <1>2 DEF Attempts!Carried, answers
<1>. QED BY <1>1, <1>3 DEF Matches, Attempts!Next

LEMMA EndMatches ==
    ASSUME IInv, AnswersOK, NEW c \in Contexts, Running(c), NEW y,
           Attempt(y) \in Attempts!Ends(Attempt(ctx[c])), \A i : Outcome(y, i),
           ctx' = [ctx EXCEPT ![c] = y],
           \/ invoker' = invoker
           \/ \E i \in {"raised", "cancelled"} : invoker' = [invoker EXCEPT ![c] = i]
    PROVE  Matches
<1>1. /\ ctx \in [Contexts -> Context] /\ invoker \in [Contexts -> Invoker]
      /\ ctx[c].status = "running" /\ ~Over(c)
    BY ContextShape DEF Running, Outcome, Over, Terminal
<1>2. /\ Attempts!Becomes(c, Attempt(y))
      /\ ctx'[c] = y /\ \A d \in Contexts \ {c} : ctx'[d] = ctx[d]
    BY <1>1, BecomesAttempt
<1>3. Attempt(ctx[c]).status = "running"
    BY <1>1 DEF Attempt
<1>4. CASE invoker' = invoker
    <2>1. UNCHANGED answers
        BY <1>4, SameAnswers
    <2>2. Attempts!End(c)
        BY <1>2, <1>3, <2>1 DEF Attempts!End, answers
    <2>3. AnswersOK'
        BY <1>2, <1>4, OneOutcome
    <2>. QED BY <2>2, <2>3 DEF Matches, Attempts!Next
<1>5. ASSUME NEW i \in {"raised", "cancelled"}, invoker' = [invoker EXCEPT ![c] = i]
      PROVE  Matches
    <2>1. /\ Attempts!Answers(c, i)
          /\ \A d \in Contexts \ {c} : invoker'[d] = invoker[d]
        BY <1>1, <1>5, AnswerMoves
    <2>2. Attempts!End(c)
        BY <1>2, <1>3, <2>1 DEF Attempts!End
    <2>3. AnswersOK'
        BY <1>2, <2>1, OneOutcome
    <2>. QED BY <2>2, <2>3 DEF Matches, Attempts!Next
<1>. QED BY <1>4, <1>5

LEMMA QuietMatches ==
    ASSUME AnswersOK, ctx' = ctx, invoker' = invoker
    PROVE  Matches
BY CalmMatches, SameAnswers

LEMMA EndIfActiveMatches ==
    ASSUME IInv, AnswersOK, NEW c \in Contexts, NEW g,
           NEW y \in {Finish(ctx[c]), Fail(ctx[c]), Abort(ctx[c]), Cancel(ctx[c])},
           EndIfActive(g, c, y), invoker' = invoker
    PROVE  Matches
<1>1. CASE Active(g, c)
    <2>1. /\ Running(c) /\ ctx[c] \in Context /\ Whole(ctx[c]) /\ WholeHistory(ctx[c])
        BY <1>1, ContextShape DEF Active, Running
    <2>2. Attempt(y) \in Attempts!Ends(Attempt(ctx[c])) /\ \A i : Outcome(y, i)
        BY <2>1, EndsAttempt, EndedOutcome
    <2>3. ctx' = [ctx EXCEPT ![c] = y]
        BY <1>1 DEF EndIfActive, End
    <2>. QED BY <2>1, <2>2, <2>3, EndMatches
<1>2. CASE ~Active(g, c)
    BY <1>2, QuietMatches DEF EndIfActive
<1>. QED BY <1>1, <1>2

(* Several attempts may be aborted together. *)
LEMMA AbortMatches ==
    ASSUME IInv, AnswersOK, NEW S \in SUBSET Contexts,
           \A c \in S : ctx[c].status \in {"pending", "running"},
           ctx' = [c \in Contexts |-> IF c \in S THEN Abort(ctx[c]) ELSE ctx[c]],
           invoker' = invoker
    PROVE  Matches
<1>1. ASSUME NEW c \in S
      PROVE  /\ Attempt(Abort(ctx[c])) = Attempts!Aborted(Attempt(ctx[c]))
             /\ Attempt(ctx[c]).status \in {"pending", "running"}
             /\ Outcome(Abort(ctx[c]), invoker[c])
    <2>1. ctx[c] \in Context /\ Whole(ctx[c]) /\ WholeHistory(ctx[c])
        BY ContextShape
    <2>. QED BY <2>1, EndsAttempt, EndedOutcome DEF Attempt
<1>2. [c \in Contexts |-> Attempt(ctx'[c])] =
        [c \in Contexts |-> IF c \in S THEN Attempts!Aborted([d \in Contexts |-> Attempt(ctx[d])][c])
                                       ELSE [d \in Contexts |-> Attempt(ctx[d])][c]]
    BY <1>1
<1>3. UNCHANGED answers
    BY SameAnswers
<1>4. Attempts!Abort(S)
    BY <1>1, <1>2, <1>3 DEF Attempts!Abort, answers
<1>5. AnswersOK'
    BY <1>1 DEF AnswersOK
<1>. QED BY <1>4, <1>5 DEF Matches, Attempts!Next

LEMMA ReplacementMatches ==
    ASSUME IInv, AnswersOK, NEW g \in Graphs, Construct(g) \/ Decompose(g)
    PROVE  Matches
<1>1. PICK h : Retire(h) /\ invoker' = invoker
    BY DEF Construct, Decompose
<1>. DEFINE S == {c \in managed : GraphOf[c] = h}
<1>2. /\ S \in SUBSET Contexts
      /\ \A c \in S : ctx[c].status \in {"pending", "running"}
    BY DEF IInv, GraphsOK, Running
<1>3. ctx' = [c \in Contexts |-> IF c \in S THEN Abort(ctx[c]) ELSE ctx[c]]
    BY <1>1 DEF Retire
<1>. HIDE DEF S
<1>. QED BY <1>1, <1>2, <1>3, AbortMatches

LEMMA AbortContextMatches ==
    ASSUME IInv, AnswersOK, NEW c \in Contexts, AbortContext(c)
    PROVE  Matches
<1>1. /\ ctx \in [Contexts -> Context] /\ invoker' = invoker
      /\ ctx[c].status \in {"pending", "running"}
      /\ ctx' = [ctx EXCEPT ![c] = Abort(ctx[c])]
    BY ContextShape DEF AbortContext, End
<1>2. ctx' = [d \in Contexts |-> IF d \in {c} THEN Abort(ctx[d]) ELSE ctx[d]]
    BY <1>1
<1>. QED BY <1>1, <1>2, AbortMatches

-----------------------------------------------------------------------------
(* Refinement of Attempts: beginnings.                                      *)

LEMMA BornMatches ==
    ASSUME IInv, AnswersOK, NEW c \in Contexts, NEW y, invoker' = invoker,
           ctx' = [ctx EXCEPT ![c] = y], ctx[c].status = "absent",
           y.status = "pending", y.completion = "none"
    PROVE  /\ AnswersOK' /\ Attempts!Becomes(c, Attempt(y)) /\ UNCHANGED answers
           /\ Attempt(ctx[c]).status = "absent"
<1>1. ctx \in [Contexts -> Context] /\ ~Over(c)
    BY ContextShape DEF Outcome, Over, Terminal
<1>2. /\ Attempts!Becomes(c, Attempt(y))
      /\ ctx'[c] = y /\ \A d \in Contexts \ {c} : ctx'[d] = ctx[d]
    BY <1>1, BecomesAttempt
<1>3. Outcome(y, invoker[c])
    BY <1>1 DEF Outcome, Over
<1>4. AnswersOK'
    BY <1>2, <1>3, OneOutcome
<1>. QED BY <1>2, <1>4, SameAnswers DEF Attempt

LEMMA CreateMatches ==
    ASSUME IInv, AnswersOK, NEW c \in Contexts, CreateContext(c)
    PROVE  Matches
<1>1. PICK entry \in Targets :
        ctx' = [ctx EXCEPT ![c] = [Absent EXCEPT !.status = "pending", !.target = entry]]
    BY DEF CreateContext, Update
<1>. DEFINE y == [Absent EXCEPT !.status = "pending", !.target = entry]
<1>2. Attempt(y) = [Attempts!Absent EXCEPT !.status = "pending"]
    <2>1. /\ y.status = "pending" /\ y.completion = "none" /\ y.result = 0
          /\ y.steps = 0 /\ y.history = << >>
        BY DEF Absent
    <2>. HIDE DEF y
    <2>2. StepsAt(y.history) = << >>
        BY <2>1 DEF StepsAt
    <2>3. Attempt(y) = [status |-> "pending", steps |-> 0, saved |-> << >>,
                        completion |-> "none", result |-> 0]
        BY <2>1, <2>2 DEF Attempt
    <2>. QED BY <2>3 DEF Attempts!Absent
<1>3. y.status = "pending" /\ y.completion = "none"
    BY DEF Absent
<1>4. ctx' = [ctx EXCEPT ![c] = y] /\ ctx[c].status = "absent" /\ invoker' = invoker
    BY <1>1 DEF CreateContext
<1>. HIDE DEF y
<1>5. /\ AnswersOK' /\ Attempts!Becomes(c, Attempt(y)) /\ UNCHANGED answers
      /\ Attempt(ctx[c]).status = "absent"
    BY <1>3, <1>4, BornMatches
<1>6. Attempts!Create(c)
    BY <1>2, <1>5 DEF Attempts!Create, answers
<1>. QED BY <1>5, <1>6 DEF Matches, Attempts!Next

LEMMA BeginMatches ==
    ASSUME IInv, AnswersOK, NEW c \in Contexts, Begin(c)
    PROVE  Matches
<1>1. /\ ctx \in [Contexts -> Context] /\ invoker \in [Contexts -> Invoker]
      /\ ctx[c] \in Context /\ ctx[c].status = "pending" /\ ~Over(c)
    BY ContextShape DEF Begin, Outcome, Over, Terminal
<1>. DEFINE y == [ctx[c] EXCEPT !.status = "running", !.completion = "pending"]
<1>2. ctx' = [ctx EXCEPT ![c] = y]
    BY <1>1 DEF Begin
<1>3. PICK i \in {"posting", "created"} : invoker' = [invoker EXCEPT ![c] = i]
    BY DEF Begin
<1>4. /\ Attempts!Becomes(c, Attempt(y))
      /\ ctx'[c] = y /\ \A d \in Contexts \ {c} : ctx'[d] = ctx[d]
    BY <1>1, <1>2, BecomesAttempt
<1>5. /\ UNCHANGED answers /\ invoker'[c] = i
      /\ \A d \in Contexts \ {c} : invoker'[d] = invoker[d]
    BY <1>1, <1>3, AnswerMoves
<1>6. y.status = "running" /\ y.completion = "pending"
      /\ y.steps = ctx[c].steps /\ y.history = ctx[c].history /\ y.result = ctx[c].result
    BY <1>1 DEF Context
<1>. HIDE DEF y
<1>7. /\ Attempt(y) = [Attempt(ctx[c]) EXCEPT !.status = "running", !.completion = "pending"]
      /\ Attempt(ctx[c]).status = "pending"
    <2>. DEFINE sv == StepsAt(ctx[c].history)
                x == ctx[c]
    <2>1. /\ Attempt(y) = [status |-> "running", steps |-> x.steps, saved |-> sv,
                           completion |-> "pending", result |-> x.result]
          /\ Attempt(x) = [status |-> "pending", steps |-> x.steps, saved |-> sv,
                           completion |-> x.completion, result |-> x.result]
        BY <1>1, <1>6 DEF Attempt
    <2>. HIDE DEF sv, x
    <2>2. Attempt(x).status = "pending"
        BY <2>1
    <2>. DEFINE z == [Attempt(x) EXCEPT !.status = "running"]
    <2>3. z = [status |-> "running", steps |-> x.steps, saved |-> sv,
               completion |-> x.completion, result |-> x.result]
        BY <2>1
    <2>4. [z EXCEPT !.completion = "pending"] =
            [Attempt(x) EXCEPT !.status = "running", !.completion = "pending"]
        OBVIOUS
    <2>. HIDE DEF z
    <2>5. Attempt(y) = [z EXCEPT !.completion = "pending"]
        BY <2>1, <2>3
    <2>. QED BY <2>2, <2>4, <2>5 DEF x
<1>8. Outcome(y, i)
    BY <1>6 DEF Outcome
<1>9. AnswersOK'
    BY <1>4, <1>5, <1>8, OneOutcome
<1>10. Attempts!Begin(c)
    BY <1>4, <1>5, <1>7 DEF Attempts!Begin, answers
<1>. QED BY <1>9, <1>10 DEF Matches, Attempts!Next

LEMMA RestoreMatches ==
    ASSUME IInv, AnswersOK, NEW c \in Contexts, NEW src \in Contexts,
           RestoreContext(c, src)
    PROVE  Matches
<1>. DEFINE h == ctx[src].history
            fresh(i, past) == [Absent EXCEPT
                !.status = "pending", !.state = h[i].state, !.steps = h[i].steps,
                !.target = h[i].target, !.history = past]
<1>1. PICK i \in DOMAIN h : \E past \in {SubSeq(h, 1, i), <<h[i]>>} :
        ctx' = [ctx EXCEPT ![c] = fresh(i, past)]
    BY DEF RestoreContext, Update
<1>2. PICK past \in {SubSeq(h, 1, i), <<h[i]>>} :
        ctx' = [ctx EXCEPT ![c] = fresh(i, past)]
    BY <1>1
<1>. DEFINE y == fresh(i, past)
            x == Attempt(ctx[src])
            sv == StepsAt(past)
<1>3. /\ h \in Seq(Checkpoint) /\ i \in 1..Len(h) /\ Len(h) \in Nat
      /\ h[i] \in Checkpoint
    <2>1. h \in Seq(Checkpoint)
        BY ContextShape DEF Context
    <2>. QED BY <1>1, <2>1
<1>4. /\ y.status = "pending" /\ y.completion = "none" /\ y.result = 0
      /\ y.steps = h[i].steps /\ y.history = past
    BY DEF Absent
<1>5. /\ x.saved = StepsAt(h) /\ x.saved \in Seq(Nat) /\ Len(x.saved) = Len(h)
      /\ \A j \in 1..Len(h) : x.saved[j] = h[j].steps
    BY <1>3, StepsOf DEF Attempt
<1>6. sv \in {SubSeq(x.saved, 1, i), <<x.saved[i]>>}
    <2>1. CASE past = <<h[i]>>
        <3>1. past \in Seq(Checkpoint) /\ Len(past) = 1 /\ past[1] = h[i]
            BY <1>3, <2>1
        <3>2. sv \in Seq(Nat) /\ Len(sv) = 1 /\ sv[1] = h[i].steps
            BY <3>1, StepsOf
        <3>3. x.saved[i] \in Nat /\ x.saved[i] = h[i].steps
            BY <1>3, <1>5
        <3>4. /\ <<x.saved[i]>> \in Seq(Nat) /\ Len(<<x.saved[i]>>) = 1
              /\ <<x.saved[i]>>[1] = x.saved[i]
            BY <3>3
        <3>. HIDE DEF sv, x
        <3>5. \A j \in 1..Len(sv) : sv[j] = <<x.saved[i]>>[j]
            BY <3>2, <3>3, <3>4
        <3>6. sv = <<x.saved[i]>>
            BY <3>2, <3>4, <3>5, SeqEqual
        <3>. QED BY <3>6
    <2>2. CASE past = SubSeq(h, 1, i)
        <3>1. /\ past \in Seq(Checkpoint) /\ Len(past) = i
              /\ \A j \in 1..i : past[j] = h[j]
            BY <1>3, <2>2
        <3>2. sv \in Seq(Nat) /\ Len(sv) = i /\ \A j \in 1..i : sv[j] = h[j].steps
            BY <3>1, StepsOf
        <3>. DEFINE w == SubSeq(x.saved, 1, i)
        <3>. HIDE DEF x, sv
        <3>3. w \in Seq(Nat) /\ Len(w) = i /\ \A j \in 1..i : w[j] = x.saved[j]
            BY <1>3, <1>5
        <3>. HIDE DEF w
        <3>. HIDE DEF h
        <3>4. ASSUME NEW j \in 1..Len(sv) PROVE sv[j] = w[j]
            <4>1. j \in 1..i /\ j \in 1..Len(h)
                BY <1>3, <3>2
            <4>. QED BY <1>5, <3>2, <3>3, <4>1
        <3>5. sv = w
            BY <3>2, <3>3, <3>4, SeqEqual
        <3>. QED BY <3>5 DEF w
    <2>. QED BY <1>2, <2>1, <2>2
<1>7. /\ i \in DOMAIN x.saved /\ x.saved[i] = y.steps
    BY <1>3, <1>4, <1>5
<1>8. ctx' = [ctx EXCEPT ![c] = y] /\ ctx[c].status = "absent" /\ invoker' = invoker
    BY <1>2 DEF RestoreContext
<1>. HIDE DEF y
<1>9. Attempt(y) = [Attempts!Absent EXCEPT !.status = "pending", !.steps = x.saved[i],
                                           !.saved = sv]
    <2>. DEFINE v == x.saved[i]
                p == [Attempts!Absent EXCEPT !.status = "pending"]
                q == [p EXCEPT !.steps = v]
    <2>1. Attempt(y) = [status |-> "pending", steps |-> v, saved |-> sv,
                        completion |-> "none", result |-> 0]
        <3>. HIDE DEF x
        <3>. QED BY <1>4, <1>7 DEF Attempt
    <2>. HIDE DEF v, sv
    <2>2. [q EXCEPT !.saved = sv] =
            [Attempts!Absent EXCEPT !.status = "pending", !.steps = v, !.saved = sv]
        OBVIOUS
    <2>3. p = [status |-> "pending", steps |-> 0, saved |-> << >>,
               completion |-> "none", result |-> 0]
        BY DEF Attempts!Absent
    <2>. HIDE DEF p
    <2>4. q = [status |-> "pending", steps |-> v, saved |-> << >>,
               completion |-> "none", result |-> 0]
        BY <2>3
    <2>. HIDE DEF q
    <2>5. Attempt(y) = [q EXCEPT !.saved = sv]
        BY <2>1, <2>4
    <2>. QED BY <2>2, <2>5 DEF v
<1>10. /\ AnswersOK' /\ Attempts!Becomes(c, Attempt(y)) /\ UNCHANGED answers
       /\ Attempt(ctx[c]).status = "absent"
    BY <1>4, <1>8, BornMatches
<1>. HIDE DEF sv
<1>11. Attempts!Restore(c, src)
    <2>1. [d \in Contexts |-> Attempt(ctx[d])][src] = x
          /\ [d \in Contexts |-> Attempt(ctx[d])][c] = Attempt(ctx[c])
        OBVIOUS
    <2>. HIDE DEF x
    <2>2. \E saved \in {SubSeq(x.saved, 1, i), <<x.saved[i]>>} :
            Attempts!Becomes(c, [Attempts!Absent EXCEPT
                !.status = "pending", !.steps = x.saved[i], !.saved = saved])
        BY <1>6, <1>9, <1>10, Zenon
    <2>. QED BY <1>7, <1>10, <2>1, <2>2, Zenon DEF Attempts!Restore, answers
<1>. QED BY <1>10, <1>11 DEF Matches, Attempts!Next

-----------------------------------------------------------------------------
(* Refinement of Attempts: the caller.                                      *)

(* A caller that is not done moves on without ending its attempt. *)
LEMMA CallerMoves ==
    ASSUME IInv, AnswersOK, NEW c \in Contexts, ~Over(c), invoker[c] # "waitCancelled",
           NEW i \in Invoker \ {"returned", "raised", "cancelled"},
           invoker' = [invoker EXCEPT ![c] = i], ctx' = ctx
    PROVE  Matches
<1>1. /\ UNCHANGED answers /\ invoker'[c] = i
      /\ \A d \in Contexts \ {c} : invoker'[d] = invoker[d]
    BY ContextShape, AnswerMoves
<1>2. \A d \in Contexts : Outcome(ctx[d], invoker[d]) => Outcome(ctx[d], invoker'[d])
    BY <1>1 DEF Outcome
<1>. QED BY <1>1, <1>2, CalmMatches

(* A caller is answered after the end of its attempt. *)
LEMMA CallerAnswered ==
    ASSUME IInv, AnswersOK, NEW c \in Contexts, ctx[c].status \in Terminal, ~Over(c),
           NEW i \in {"returned", "raised", "cancelled"},
           i = "returned" => ctx[c].completion = "result",
           invoker' = [invoker EXCEPT ![c] = i], ctx' = ctx
    PROVE  Matches
<1>1. /\ Attempts!Answers(c, i) /\ invoker'[c] = i
      /\ \A d \in Contexts \ {c} : invoker'[d] = invoker[d]
    BY ContextShape, AnswerMoves
<1>2. Outcome(ctx[c], invoker[c])
    BY ContextShape
<1>3. Outcome(ctx'[c], invoker'[c])
    BY <1>1, <1>2 DEF Outcome, Terminal
<1>4. AnswersOK'
    BY <1>1, <1>3, OneOutcome
<1>5. /\ Attempt(ctx[c]).status \in {"failed", "aborted", "finished"}
      /\ i = "returned" => Attempt(ctx[c]).completion = "result"
    BY DEF Attempt, Terminal
<1>6. Attempts!Answer(c)
    BY <1>1, <1>5 DEF Attempts!Answer
<1>. QED BY <1>4, <1>6 DEF Matches, Attempts!Next

LEMMA InvokerStepMatches ==
    ASSUME IInv, AnswersOK, NEW c \in Contexts,
           InvokerStep(c) \/ InvokerPostFails(c)
    PROVE  Matches
<1>1. /\ ctx[c] \in Context /\ Outcome(ctx[c], invoker[c])
      /\ Running(c) => Whole(ctx[c]) /\ WholeHistory(ctx[c]) /\ Active(GraphOf[c], c)
      /\ ~Running(c) /\ invoker[c] # "idle" => ctx[c].status \in Terminal
    BY ContextShape DEF Running
<1>2. CASE InvokeStarts(c) \/ InvokerPuts(c)
    <2>1. /\ invoker[c] \in {"created", "posting"} /\ ctx' = ctx
          /\ \E i \in {"posting", "waiting"} : invoker' = [invoker EXCEPT ![c] = i]
        BY <1>2 DEF InvokeStarts, InvokerPuts, Becomes
    <2>. QED BY <2>1, CallerMoves DEF Over, Invoker
<1>3. CASE InvokerResumes(c)
    <2>1. invoker[c] = "waiting" /\ ctx' = ctx /\ ctx[c].completion # "pending"
        BY <1>3 DEF InvokerResumes
    <2>2. ctx[c].status \in Terminal /\ ~Over(c)
        BY <1>1, <2>1 DEF Running, Outcome, Over
    <2>3. PICK i \in {"returned", "raised", "cancelled"} :
            /\ invoker' = [invoker EXCEPT ![c] = i]
            /\ i = "returned" => ctx[c].completion = "result"
        BY <1>3 DEF InvokerResumes, Becomes
    <2>. QED BY <2>1, <2>2, <2>3, CallerAnswered
<1>4. ASSUME NEW i \in {"raised", "cancelled"},
             NEW y \in {Fail(ctx[c]), Abort(ctx[c]), Cancel(ctx[c])},
             invoker[c] # "idle", ~Over(c), invoker' = [invoker EXCEPT ![c] = i],
             IF Running(c) THEN ctx' = [ctx EXCEPT ![c] = y] ELSE ctx' = ctx
      PROVE  Matches
    <2>1. CASE Running(c)
        <3>1. Attempt(y) \in Attempts!Ends(Attempt(ctx[c])) /\ \A v : Outcome(y, v)
            BY <1>1, <2>1, EndsAttempt, EndedOutcome
        <3>. QED BY <1>4, <2>1, <3>1, EndMatches
    <2>2. CASE ~Running(c)
        BY <1>1, <1>4, <2>2, CallerAnswered
    <2>. QED BY <2>1, <2>2
<1>5. CASE InvokerCancelled(c)
    <2>1. /\ invoker[c] \in {"closing", "postCancelled", "waitCancelled"}
          /\ invoker' = [invoker EXCEPT ![c] = "cancelled"]
        BY <1>5 DEF InvokerCancelled, Becomes
    <2>2. PICK y \in {Abort(ctx[c]), Cancel(ctx[c])} :
            IF Running(c) THEN ctx' = [ctx EXCEPT ![c] = y] ELSE ctx' = ctx
        BY <1>5 DEF InvokerCancelled, End
    <2>. QED BY <1>4, <2>1, <2>2 DEF Over
<1>6. CASE InvokerPostFails(c)
    <2>1. invoker[c] = "posting" /\ invoker' = [invoker EXCEPT ![c] = "raised"]
        BY <1>6 DEF InvokerPostFails, Becomes
    <2>2. Active(GraphOf[c], c) <=> Running(c)
        BY <1>1 DEF Active
    <2>3. IF Running(c) THEN ctx' = [ctx EXCEPT ![c] = Fail(ctx[c])] ELSE ctx' = ctx
        BY <1>6, <2>2 DEF InvokerPostFails, EndIfActive, End
    <2>. QED BY <1>4, <2>1, <2>3 DEF Over
<1>. QED BY <1>2, <1>3, <1>5, <1>6 DEF InvokerStep

(* A cancelled caller that awaits the completion gives it up. *)
LEMMA CancelInvokerMatches ==
    ASSUME IInv, AnswersOK, NEW c \in Contexts, CancelInvoker(c)
    PROVE  Matches
<1>1. /\ ctx \in [Contexts -> Context] /\ invoker \in [Contexts -> Invoker]
      /\ ctx[c] \in Context /\ Outcome(ctx[c], invoker[c])
    BY ContextShape
<1>. DEFINE y == [ctx[c] EXCEPT !.completion = "cancelled"]
<1>2. /\ invoker[c] \in {"created", "posting", "waiting"} /\ ~Over(c)
      /\ \E i \in {"closing", "postCancelled", "waitCancelled"} :
            invoker' = [invoker EXCEPT ![c] = i]
    BY DEF CancelInvoker, Becomes, Over
<1>3. CASE ctx' = ctx
    BY <1>2, <1>3, CallerMoves DEF Invoker
<1>4. CASE ctx' # ctx
    <2>1. /\ invoker' = [invoker EXCEPT ![c] = "waitCancelled"]
          /\ ctx' = [ctx EXCEPT ![c].completion = IF @ = "pending" THEN "cancelled" ELSE @]
        BY <1>4 DEF CancelInvoker, Becomes
    <2>2. ctx[c].completion = "pending"
        <3>1. SUFFICES ASSUME ctx[c].completion # "pending" PROVE FALSE
            OBVIOUS
        <3>2. ctx' = [ctx EXCEPT ![c] = [ctx[c] EXCEPT !.completion = ctx[c].completion]]
            BY <2>1, <3>1
        <3>3. [ctx[c] EXCEPT !.completion = ctx[c].completion] = ctx[c]
            BY <1>1 DEF Context
        <3>4. ctx' = ctx
            BY <1>1, <3>2, <3>3
        <3>. QED BY <1>4, <3>4
    <2>3. ctx' = [ctx EXCEPT ![c] = y]
        BY <2>1, <2>2
    <2>4. ctx[c].status = "running"
        BY <1>1, <2>2 DEF Outcome
    <2>5. /\ y.status = "running" /\ y.completion = "cancelled" /\ y.steps = ctx[c].steps
          /\ y.history = ctx[c].history /\ y.result = ctx[c].result
        BY <1>1, <2>4 DEF Context
    <2>. HIDE DEF y
    <2>6. /\ Attempt(y) = [Attempt(ctx[c]) EXCEPT !.completion = "cancelled"]
          /\ Attempt(ctx[c]).status = "running" /\ Attempt(ctx[c]).completion = "pending"
        <3>. DEFINE sv == StepsAt(ctx[c].history)
        <3>1. /\ Attempt(y) = [status |-> "running", steps |-> ctx[c].steps, saved |-> sv,
                               completion |-> "cancelled", result |-> ctx[c].result]
              /\ Attempt(ctx[c]) =
                    [status |-> "running", steps |-> ctx[c].steps, saved |-> sv,
                     completion |-> "pending", result |-> ctx[c].result]
            BY <2>2, <2>4, <2>5 DEF Attempt
        <3>. HIDE DEF sv
        <3>. QED BY <3>1
    <2>7. /\ Attempts!Becomes(c, Attempt(y))
          /\ ctx'[c] = y /\ \A d \in Contexts \ {c} : ctx'[d] = ctx[d]
        BY <1>1, <2>3, BecomesAttempt
    <2>8. /\ UNCHANGED answers /\ invoker'[c] = "waitCancelled"
          /\ \A d \in Contexts \ {c} : invoker'[d] = invoker[d]
        BY <1>1, <1>2, <2>1, AnswerMoves
    <2>9. AnswersOK'
        BY <2>5, <2>7, <2>8, OneOutcome DEF Outcome
    <2>10. Attempts!GiveUp(c)
        BY <2>6, <2>7, <2>8 DEF Attempts!GiveUp, answers
    <2>. QED BY <2>9, <2>10 DEF Matches, Attempts!Next
<1>. QED BY <1>3, <1>4

-----------------------------------------------------------------------------
(* Refinement of Attempts: dispatches.                                      *)

(* A running attempt takes a checkpoint, or commits. *)
LEMMA GrowthMatches ==
    ASSUME IInv, AnswersOK, NEW c \in Contexts, Running(c), NEW y \in Context,
           y.status = "running", y.completion = ctx[c].completion,
           ctx' = [ctx EXCEPT ![c] = y], invoker' = invoker,
           \/ Attempt(y) = [Attempt(ctx[c]) EXCEPT
                                !.saved = Append(@, Attempt(ctx[c]).steps)]
           \/ Attempt(y) = [Attempt(ctx[c]) EXCEPT !.steps = @ + 1]
    PROVE  Matches
<1>1. /\ ctx \in [Contexts -> Context] /\ Outcome(ctx[c], invoker[c])
      /\ ctx[c].status = "running" /\ UNCHANGED answers
    BY ContextShape, SameAnswers DEF Running
<1>2. /\ Attempts!Becomes(c, Attempt(y))
      /\ ctx'[c] = y /\ \A d \in Contexts \ {c} : ctx'[d] = ctx[d]
    BY <1>1, BecomesAttempt
<1>3. Outcome(ctx'[c], invoker'[c])
    BY <1>1, <1>2 DEF Outcome
<1>4. AnswersOK'
    BY <1>2, <1>3, OneOutcome
<1>5. Attempt(ctx[c]).status = "running"
    BY <1>1 DEF Attempt
<1>6. Attempts!Save(c) \/ Attempts!Commit(c)
    BY <1>1, <1>2, <1>5 DEF Attempts!Save, Attempts!Commit, answers
<1>. QED BY <1>4, <1>6 DEF Matches, Attempts!Next

LEMMA DispatchNodeMatches ==
    ASSUME IInv, AnswersOK, NEW s \in Slots, NEW d \in Contexts, slot[s].c = d,
           DispatchNode(s)
    PROVE  Matches
<1>. DEFINE x == ctx[d]
            taken == [state |-> x.state, steps |-> x.steps, target |-> x.target]
            longer == Append(x.history, taken)
            y == [x EXCEPT !.history = longer]
<1>1. x \in Context /\ ctx \in [Contexts -> Context] /\ invoker' = invoker
    BY ContextShape DEF DispatchNode
<1>2. CASE Active(slot[s].by, d) /\ x.target = "node" /\ Snapshots
    <2>1. x.status = "running" /\ Running(d) /\ ctx' = [ctx EXCEPT ![d] = y]
        BY <1>2 DEF DispatchNode, Update, C, By, Active, Running
    <2>2. x.history \in Seq(Checkpoint) /\ taken \in Checkpoint /\ x.steps \in Nat
        BY <1>1 DEF Context, Checkpoint
    <2>3. taken.steps = x.steps
        OBVIOUS
    <2>. HIDE DEF taken
    <2>4. /\ longer \in Seq(Checkpoint) /\ Len(longer) = Len(x.history) + 1
          /\ longer[Len(x.history) + 1] = taken
          /\ \A i \in 1..Len(x.history) : longer[i] = x.history[i]
        BY <2>2, AppendProperties
    <2>. HIDE DEF longer
    <2>5. /\ y \in Context /\ y.status = "running" /\ y.completion = x.completion
          /\ y.result = x.result /\ y.steps = x.steps /\ y.history = longer
        BY <1>1, <2>1, <2>4 DEF Context
    <2>. HIDE DEF y
    <2>. DEFINE sv == StepsAt(x.history)
                lv == StepsAt(longer)
                av == Append(sv, x.steps)
    <2>6. lv = av
        <3>1. /\ sv \in Seq(Nat) /\ Len(sv) = Len(x.history)
              /\ \A i \in 1..Len(x.history) : sv[i] = x.history[i].steps
            BY <2>2, StepsOf
        <3>2. /\ lv \in Seq(Nat) /\ Len(lv) = Len(x.history) + 1
              /\ \A i \in 1..Len(x.history) + 1 : lv[i] = longer[i].steps
            BY <2>4, StepsOf
        <3>. HIDE DEF sv, lv
        <3>3. /\ av \in Seq(Nat) /\ Len(av) = Len(sv) + 1
              /\ av[Len(sv) + 1] = x.steps
              /\ \A i \in 1..Len(sv) : av[i] = sv[i]
            BY <2>2, <3>1, AppendProperties
        <3>. HIDE DEF av
        <3>4. Len(x.history) \in Nat
            BY <2>2
        <3>5. ASSUME NEW i \in 1..Len(lv) PROVE lv[i] = av[i]
            <4>1. CASE i = Len(x.history) + 1
                BY <2>3, <2>4, <3>1, <3>2, <3>3, <4>1
            <4>2. CASE i # Len(x.history) + 1
                <5>1. i \in 1..Len(x.history) /\ i \in 1..Len(sv)
                      /\ i \in 1..Len(x.history) + 1
                    BY <3>1, <3>2, <3>4, <4>2
                <5>2. lv[i] = longer[i].steps /\ longer[i] = x.history[i]
                    BY <2>4, <3>2, <5>1
                <5>3. av[i] = sv[i] /\ sv[i] = x.history[i].steps
                    BY <3>1, <3>3, <5>1
                <5>. QED BY <5>2, <5>3
            <4>. QED BY <4>1, <4>2
        <3>. QED BY <3>1, <3>2, <3>3, <3>5, SeqEqual
    <2>7. Attempt(y) = [Attempt(x) EXCEPT !.saved = Append(@, Attempt(x).steps)]
        <3>1. /\ Attempt(y) = [status |-> "running", steps |-> x.steps, saved |-> lv,
                               completion |-> x.completion, result |-> x.result]
              /\ Attempt(x) = [status |-> "running", steps |-> x.steps, saved |-> sv,
                               completion |-> x.completion, result |-> x.result]
            BY <2>1, <2>5 DEF Attempt
        <3>2. /\ Attempt(x).steps = x.steps /\ Attempt(x).saved = sv
            BY <3>1
        <3>. HIDE DEF sv, lv
        <3>3. [Attempt(x) EXCEPT !.saved = av] =
                [status |-> "running", steps |-> x.steps, saved |-> av,
                 completion |-> x.completion, result |-> x.result]
            <4>. HIDE DEF av
            <4>. QED BY <3>1
        <3>4. [Attempt(x) EXCEPT !.saved = Append(@, Attempt(x).steps)]
                = [Attempt(x) EXCEPT !.saved = av]
            BY <3>2
        <3>. QED BY <2>6, <3>1, <3>3, <3>4
    <2>. QED BY <1>1, <2>1, <2>5, <2>7, GrowthMatches
<1>3. CASE Active(slot[s].by, d) /\ x.target = "node" /\ ~Snapshots
    <2>1. ctx' = [ctx EXCEPT ![d] = ctx[d]]
        BY <1>3 DEF DispatchNode, Update, C, By
    <2>. QED BY <1>1, <2>1, QuietMatches
<1>4. CASE ~(Active(slot[s].by, d) /\ x.target = "node")
    <2>1. EndIfActive(slot[s].by, d, Finish(ctx[d]))
        BY <1>4 DEF DispatchNode, C, By
    <2>. QED BY <1>1, <2>1, EndIfActiveMatches
<1>. QED BY <1>2, <1>3, <1>4

LEMMA NodeReturnsMatches ==
    ASSUME IInv, AnswersOK, NEW s \in Slots, NEW d \in Contexts, slot[s].c = d,
           NodeReturns(s)
    PROVE  Matches
<1>. DEFINE x == ctx[d]
            done == [x EXCEPT !.state = @ + Batch, !.steps = @ + 1]
            half(n) == [x EXCEPT !.state = @ + n]
<1>1. /\ x \in Context /\ ctx \in [Contexts -> Context] /\ invoker' = invoker
      /\ Batch \in Nat
    BY ContextShape, GraphAssumption DEF NodeReturns
<1>2. CASE ~Running(d)
    BY <1>1, <1>2, QuietMatches DEF NodeReturns, C
<1>3. ASSUME Running(d), NEW goto \in Targets,
             ctx' = [ctx EXCEPT ![d] = [done EXCEPT !.target = goto]]
      PROVE  Matches
    <2>. DEFINE y == [done EXCEPT !.target = goto]
    <2>1. ctx' = [ctx EXCEPT ![d] = y]
        BY <1>3
    <2>2. /\ done \in Context /\ done.status = "running"
          /\ done.completion = x.completion /\ done.result = x.result
          /\ done.steps = x.steps + 1 /\ done.history = x.history
        <3>1. x.state + Batch \in Nat /\ x.steps + 1 \in Nat /\ x.status = "running"
            BY <1>1, <1>3 DEF Context, Running
        <3>. QED BY <1>1, <3>1 DEF Context
    <2>. HIDE DEF done
    <2>3. /\ y \in Context /\ y.status = "running" /\ y.completion = x.completion
          /\ y.result = x.result /\ y.steps = x.steps + 1 /\ y.history = x.history
        BY <1>3, <2>2 DEF Context, Targets
    <2>. HIDE DEF y
    <2>4. Attempt(y) = [Attempt(x) EXCEPT !.steps = @ + 1]
        <3>. DEFINE sv == StepsAt(x.history)
        <3>1. /\ Attempt(y) = [status |-> "running", steps |-> x.steps + 1, saved |-> sv,
                               completion |-> x.completion, result |-> x.result]
              /\ Attempt(x) = [status |-> "running", steps |-> x.steps, saved |-> sv,
                               completion |-> x.completion, result |-> x.result]
            BY <1>3, <2>3 DEF Attempt, Running
        <3>. HIDE DEF sv
        <3>. QED BY <3>1
    <2>. QED BY <1>1, <1>3, <2>1, <2>3, <2>4, GrowthMatches
<1>4. ASSUME Running(d), NEW w, ctx' = [ctx EXCEPT ![d] = Fail(w)], w \in Context,
             Attempt(Fail(w)) \in Attempts!Ends(Attempt(x))
      PROVE  Matches
    <2>1. \A i : Outcome(Fail(w), i)
        BY <1>4, EndedOutcome
    <2>. QED BY <1>1, <1>4, <2>1, EndMatches
<1>5. done \in Context /\ Attempt(Fail(done)) \in Attempts!Ends(Attempt(x))
    <2>1. x.state + Batch \in Nat /\ x.steps + 1 \in Nat
        BY <1>1 DEF Context
    <2>. QED BY <1>1, <2>1, FailsAttempt DEF Context
<1>6. ASSUME NEW n \in 0..(Batch - 1)
      PROVE  half(n) \in Context /\ Attempt(Fail(half(n))) \in Attempts!Ends(Attempt(x))
    <2>1. n \in Nat /\ x.state + n \in Nat
        BY <1>1 DEF Context
    <2>. QED BY <1>1, <2>1, FailsAttempt DEF Context
<1>7. CASE Running(d)
    <2>1. \/ \E goto \in Targets : ctx' = [ctx EXCEPT ![d] = [done EXCEPT !.target = goto]]
          \/ ctx' = [ctx EXCEPT ![d] = Fail(done)]
          \/ \E n \in 0..(Batch - 1) : ctx' = [ctx EXCEPT ![d] = Fail(half(n))]
        BY <1>7 DEF NodeReturns, C, Update, End
    <2>. HIDE DEF done, half
    <2>. QED BY <1>3, <1>4, <1>5, <1>6, <1>7, <2>1
<1>. QED BY <1>2, <1>7

LEMMA DispatchMatches ==
    ASSUME IInv, AnswersOK, NEW s \in Slots,
           \/ Dequeue(s) \/ EventDropped(s) \/ UpstreamEnds(s) \/ DispatchNode(s)
           \/ NodeReturns(s) \/ DispatchFails(s) \/ PutNext(s) \/ EndDispatch(s)
           \/ CancelDispatch(s) \/ DispatchCancelled(s)
    PROVE  Matches
<1>1. slot[s].at # "free"
    BY DEF Dequeue, EventDropped, UpstreamEnds, DispatchNode, NodeReturns, DispatchFails,
           PutNext, EndDispatch, CancelDispatch, DispatchCancelled
<1>2. PICK d \in Contexts : slot[s].c = d
    BY <1>1, EventOf
<1>3. CASE Dequeue(s) \/ EventDropped(s) \/ PutNext(s) \/ EndDispatch(s) \/ CancelDispatch(s)
    <2>1. ctx' = ctx /\ invoker' = invoker
        BY <1>3 DEF Dequeue, EventDropped, PutNext, EndDispatch, CancelDispatch
    <2>. QED BY <2>1, QuietMatches
<1>4. CASE UpstreamEnds(s) \/ DispatchFails(s) \/ DispatchCancelled(s)
    <2>1. PICK y \in {Fail(ctx[d]), Abort(ctx[d]), Cancel(ctx[d])} :
            EndIfActive(slot[s].by, d, y) /\ invoker' = invoker
        BY <1>2, <1>4 DEF UpstreamEnds, DispatchFails, DispatchCancelled, C, By
    <2>. QED BY <2>1, EndIfActiveMatches
<1>. QED BY <1>2, <1>3, <1>4, DispatchNodeMatches, NodeReturnsMatches

-----------------------------------------------------------------------------
(* Refinement of Attempts: the behaviour.                                   *)

LEMMA InitMatches == Init => AnswersOK /\ Attempts!Init
<1>. SUFFICES ASSUME Init PROVE AnswersOK /\ Attempts!Init
    OBVIOUS
<1>1. \A c \in Contexts : ctx[c] = Absent /\ invoker[c] = "idle"
    BY DEF Init
<1>2. /\ Absent.status = "absent" /\ Absent.completion = "none" /\ Absent.result = 0
      /\ Absent.steps = 0 /\ Absent.history = << >>
    BY DEF Absent
<1>3. AnswersOK
    BY <1>1, <1>2 DEF AnswersOK, Outcome
<1>4. Attempt(Absent) = Attempts!Absent
    <2>1. StepsAt(Absent.history) = << >>
        BY <1>2 DEF StepsAt
    <2>. QED BY <1>2, <2>1 DEF Attempt, Attempts!Absent
<1>5. [c \in Contexts |-> Attempt(ctx[c])] = [c \in Contexts |-> Attempts!Absent]
    BY <1>1, <1>4
<1>6. answers = [c \in Contexts |-> "none"]
    BY <1>1 DEF answers, Over
<1>. QED BY <1>3, <1>5, <1>6 DEF Attempts!Init, answers

LEMMA StepMatches ==
    ASSUME IInv, AnswersOK, [Next]_vars
    PROVE  Matches
<1>1. CASE UNCHANGED vars
    BY <1>1, QuietMatches DEF vars
<1>2. CASE Next
    BY <1>2, ReplacementMatches, CreateMatches, RestoreMatches, AbortContextMatches,
       BeginMatches, InvokerStepMatches, CancelInvokerMatches, DispatchMatches DEF Next
<1>. QED BY <1>1, <1>2

(* Every execution of the graphs is, for a caller who sees attempts and      *)
(* answers only, an execution of Attempts (node_graph.py: _invoke, stream).  *)
THEOREM InvocationImplementsAttempts == Spec => AttemptSpec
<1>1. IInv /\ AnswersOK /\ [Next]_vars => AnswersOK' /\ Attempts!Next
    BY StepMatches DEF Matches
<1>. QED
    BY <1>1, InitMatches, InvocationInvariant, PTL DEF Spec, AttemptSpec, Attempts!Spec

=============================================================================
