-------------------------- MODULE MCRuntimeSession ---------------------------
(* Finite instances of the runtime session. *)
EXTENDS RuntimeSession, TLC

KeySymmetry == Permutations(Keys)
=============================================================================
