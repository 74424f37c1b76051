----------------------------- MODULE MCFdState -----------------------------
(* An instance of FdState for TLC: two threads share a file, the third has *)
(* its own; the namespace numbers the two processes the other way round.   *)
EXTENDS FdState, TLC

CONSTANTS t1, t2, t3, f1, f2
FileOfDef == t1 :> f1 @@ t2 :> f1 @@ t3 :> f2
InNsDef == [n \in Procs |-> 3 - n]
Symmetry == Permutations({t1, t2})
=============================================================================
