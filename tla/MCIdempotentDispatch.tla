------------------------ MODULE MCIdempotentDispatch ------------------------
(***************************************************************************)
(* Constants for model-checking IdempotentDispatch: a call that pumps the  *)
(* event loop and changes the project, and one that changes durable data   *)
(* and has a large result.                                                 *)
(***************************************************************************)
EXTENDS IdempotentDispatch, TLC

CONSTANTS k1, k2, k3

MCKeys == {k1, k2}
MCThreeKeys == {k1, k2, k3}
MCCalls == {"visual.review", "vector.edit"}
MCPumping == {"visual.review"}
MCDurable == {"vector.edit"}

Symmetry == Permutations({k1, k2, k3})
=============================================================================
