----------------------------- MODULE MCAclFlow -----------------------------
(* Constants for checking AclFlow with TLC. *)
EXTENDS AclFlow, TLC

CONSTANTS h1, h2
MCHandle == {h1, h2}
HandleSymmetry == Permutations(MCHandle)
=============================================================================
