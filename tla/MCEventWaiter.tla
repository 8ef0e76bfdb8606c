---------------------------- MODULE MCEventWaiter ----------------------------
(* An instance of EventWaiter for TLC. *)
EXTENDS EventWaiter

CONSTANTS e1, e2

MCQueue == <<e1, e2>>
=============================================================================
