---------------------------- MODULE EventDelivery ----------------------------
(***************************************************************************)
(* What the event pipe and the event loop promise together: an accepted     *)
(* event is handed to a dispatch task at most once and in the order of      *)
(* acceptance.  It leaves the inbox in no other way than by being dropped,  *)
(* visibly: when the queue is cleared, which spares an event already taken  *)
(* out of the queue, or when the oldest event cannot be dispatched.         *)
(***************************************************************************)
EXTENDS Naturals, Sequences

CONSTANT Events

VARIABLES
    inbox,      \* accepted and not yet handed over, oldest first
    handed,     \* handed to dispatch tasks, oldest first
    dropped     \* the events given up

Accept(e) ==
    /\ inbox' = Append(inbox, e)
    /\ UNCHANGED <<handed, dropped>>

HandOver ==
    /\ inbox # << >>
    /\ handed' = Append(handed, Head(inbox))
    /\ inbox' = Tail(inbox)
    /\ UNCHANGED dropped

Drop ==
    /\ inbox # << >>
    /\ dropped' = dropped \cup {Head(inbox)}
    /\ inbox' = Tail(inbox)
    /\ UNCHANGED handed

Clear ==
    /\ \E n \in {0, 1} :
        /\ n <= Len(inbox)
        /\ inbox' = SubSeq(inbox, 1, n)
        /\ dropped' = dropped \cup {inbox[i] : i \in n + 1..Len(inbox)}
    /\ UNCHANGED handed

Init == inbox = << >> /\ handed = << >> /\ dropped = {}
Next == (\E e \in Events : Accept(e)) \/ HandOver \/ Drop \/ Clear
Spec == Init /\ [][Next]_<<inbox, handed, dropped>>
=============================================================================
