--------------------------- MODULE MCHandlerChain ---------------------------
(* Instances of HandlerChain for TLC. *)
EXTENDS HandlerChain, TLC

MCUsers == (Chains \X Branches) \cup {Consumer}

ChainSymmetry == Permutations(Chains)
=============================================================================
