---------------------------- MODULE MCRegistry ----------------------------
(* Small instances of Registry for TLC.                                    *)
EXTENDS Registry, TLC

(* Callers are interchangeable, and so are addresses; slots are not (scans *)
(* go in slot order).                                                      *)
Symmetry == Permutations(Callers) \cup Permutations(MMs)
=============================================================================
