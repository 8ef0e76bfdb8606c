------------------------- MODULE MCGraphInvocation -------------------------
(* Instances of GraphInvocation for TLC. *)
EXTENDS GraphInvocation, TLC

CONSTANTS g1, g2, c1, c2

\* Two attempts on one graph.
MCTogether == (c1 :> g1) @@ (c2 :> g1)

\* One attempt on its own.
MCAlone == c1 :> g1

Symmetry == Permutations(Slots) \cup Permutations(Contexts)
=============================================================================
