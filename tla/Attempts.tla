------------------------------ MODULE Attempts ------------------------------
(***************************************************************************)
(* What a graph promises of its execution attempts, whatever carries them:  *)
(* an attempt begins once and ends once, in between it commits whole node   *)
(* batches one by one and saves checkpoints, and its caller is answered     *)
(* once, after the end; a value is the state of whole batches.              *)
(* GraphInvocation implements it with graphs, tasks and dispatch events.    *)
(***************************************************************************)
EXTENDS Naturals, Sequences

CONSTANTS
    Ids,        \* the attempts
    Batch       \* what one batch adds to the state

VARIABLES
    attempt,    \* per attempt: lifecycle, committed steps, checkpoints, completion
    answer      \* what its caller got

Absent == [status |-> "absent", steps |-> 0, saved |-> << >>,
           completion |-> "none", result |-> 0]

Init == attempt = [a \in Ids |-> Absent] /\ answer = [a \in Ids |-> "none"]

Becomes(a, x) == attempt' = [attempt EXCEPT ![a] = x]

Create(a) ==
    /\ attempt[a].status = "absent"
    /\ Becomes(a, [Absent EXCEPT !.status = "pending"])
    /\ UNCHANGED answer

\* A new attempt starts from a checkpoint of another one.
Restore(a, src) ==
    /\ attempt[a].status = "absent"
    /\ \E i \in DOMAIN attempt[src].saved :
        LET steps == attempt[src].saved[i]
        IN  \E saved \in {SubSeq(attempt[src].saved, 1, i), <<steps>>} :
                Becomes(a, [Absent EXCEPT !.status = "pending", !.steps = steps,
                                          !.saved = saved])
    /\ UNCHANGED answer

Begin(a) ==
    /\ attempt[a].status = "pending"
    /\ Becomes(a, [attempt[a] EXCEPT !.status = "running", !.completion = "pending"])
    /\ UNCHANGED answer

\* A batch starts behind a checkpoint, and commits.
Save(a) ==
    /\ attempt[a].status = "running"
    /\ Becomes(a, [attempt[a] EXCEPT !.saved = Append(@, attempt[a].steps)])
    /\ UNCHANGED answer

Commit(a) ==
    /\ attempt[a].status = "running"
    /\ Becomes(a, [attempt[a] EXCEPT !.steps = @ + 1])
    /\ UNCHANGED answer

\* The caller gives the completion up; the attempt learns of it later.
GiveUp(a) ==
    /\ attempt[a].status = "running" /\ attempt[a].completion = "pending"
    /\ Becomes(a, [attempt[a] EXCEPT !.completion = "cancelled"])
    /\ UNCHANGED answer

\* The first outcome is final.
Ended(x, status, how, value) ==
    [status |-> status, steps |-> x.steps, saved |-> x.saved,
     completion |-> IF x.completion = "pending" THEN how ELSE x.completion,
     result |-> IF x.completion = "pending" THEN value ELSE x.result]

LastSaved(x) == IF x.saved = << >> THEN x.steps ELSE x.saved[Len(x.saved)]

Aborted(x) == Ended(x, "aborted", "result", Batch * LastSaved(x))

\* A running attempt finishes with its state, fails (the last batch may have
\* used up the step budget), is aborted with its last checkpoint or cancelled.
Ends(x) ==
    {Ended(x, "finished", "result", Batch * x.steps),
     Ended(x, "failed", "error", 0),
     Ended([x EXCEPT !.steps = @ + 1], "failed", "error", 0),
     Aborted(x),
     Ended(x, "aborted", "cancelled", 0)}

Answers(a, how) == answer[a] = "none" /\ answer' = [answer EXCEPT ![a] = how]

\* The caller may be what ends the attempt.
End(a) ==
    /\ attempt[a].status = "running"
    /\ \E x \in Ends(attempt[a]) : Becomes(a, x)
    /\ UNCHANGED answer \/ \E how \in {"raised", "cancelled"} : Answers(a, how)

\* A retired graph aborts its attempts together; one may never have begun.
Abort(S) ==
    /\ \A a \in S : attempt[a].status \in {"pending", "running"}
    /\ attempt' = [a \in Ids |-> IF a \in S THEN Aborted(attempt[a]) ELSE attempt[a]]
    /\ UNCHANGED answer

\* The caller is answered once the attempt has ended, and gets a value only
\* from a completion that has one.
Answer(a) ==
    /\ attempt[a].status \in {"failed", "aborted", "finished"}
    /\ \/ attempt[a].completion = "result" /\ Answers(a, "returned")
       \/ \E how \in {"raised", "cancelled"} : Answers(a, how)
    /\ UNCHANGED attempt

\* What carries the attempts moves.
Carried == UNCHANGED <<attempt, answer>>

Next ==
    \/ Carried
    \/ \E a \in Ids :
        \/ Create(a) \/ (\E src \in Ids : Restore(a, src)) \/ Begin(a)
        \/ Save(a) \/ Commit(a) \/ GiveUp(a) \/ End(a) \/ Answer(a)
    \/ \E S \in SUBSET Ids : Abort(S)

Spec == Init /\ [][Next]_<<attempt, answer>>
=============================================================================
