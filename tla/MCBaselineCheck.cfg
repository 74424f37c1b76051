SPECIFICATION BaselineSpec
CONSTANTS
  lib = lib
  other = other
  Files = {lib, other}
  Contents = {c, d}
  Layouts <- MCLayouts
  MaxAddr = 3
  AC_HASH_CAP = 3
  MaxChanges = 4
  MaxSaves = 2
SYMMETRY Symmetry
INVARIANTS SplitInvisible 
\* The bounds on changes and saves are used up.
CHECK_DEADLOCK FALSE
