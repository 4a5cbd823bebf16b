------------------------- MODULE MCHciCommandQueue -------------------------
(* Constants for checking HciCommandQueue with TLC. *)
EXTENDS HciCommandQueue, TLC

CONSTANTS h1, h2
MCHandle == {h1, h2}
HandleSymmetry == Permutations(MCHandle)
=============================================================================
