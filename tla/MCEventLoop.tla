---------------------------- MODULE MCEventLoop ----------------------------
(* Instances of EventLoop for TLC: two external events whose handlers each  *)
(* publish a follow-up event.                                               *)
EXTENDS EventCore

CONSTANTS e1, e2, e3, e4

MCEvents == {e1, e2, e3, e4}
MCParent == [e \in MCEvents |->
    IF e = e3 THEN e1 ELSE IF e = e4 THEN e2 ELSE External]
MCUsers == MCEvents \cup Consumers
=============================================================================
