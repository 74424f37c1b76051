--------------------------- MODULE MCWatchTables ---------------------------
(* Model checking of WatchTables. *)
EXTENDS WatchTables, TLC
Symm == Permutations(Pids)
=============================================================================
