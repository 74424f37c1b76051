----------------------------- MODULE MCDenyPath -----------------------------
(* Model checking of DenyPath.  Pid numbers are interchangeable.           *)
EXTENDS DenyPath, TLC
Symmetry == Permutations(Pids)
=============================================================================
