----------------------------- MODULE MCForkExec -----------------------------
(* Model checking of ForkExec.  Root is a task of its own; the others and  *)
(* the address spaces are interchangeable.                                 *)
EXTENDS ForkExec, TLC
Symmetry == Permutations(MMs) \cup Permutations(Tasks \ {Root})
=============================================================================
