------------------------- MODULE MCHandlerRegistry -------------------------
(* Instances of HandlerRegistry for TLC. *)
EXTENDS HandlerRegistry, TLC

NameSymmetry == Permutations(Names) \cup Permutations(EventNames)
=============================================================================
