-------------------------- MODULE MCBaselineCheck --------------------------
(* Model checking of BaselineCheck: a library of two to four pages, with   *)
(* the mapping of another file behind it at the offset that would continue *)
(* it, or with its own last page mapped at another address.                *)
EXTENDS BaselineCheck, TLC
CONSTANTS lib, other
V(s, e, o, f) == [start |-> s, end |-> e, offset |-> o, file |-> f, exec |-> TRUE]
MCLayouts == {{V(0, 3, 0, lib), V(3, 4, 3, other)}, {V(0, 2, 0, lib), V(2, 3, 3, lib)},
              {V(0, 4, 0, lib)}}
Symmetry == Permutations(Contents)
=============================================================================
