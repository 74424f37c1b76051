SPECIFICATION Spec
CONSTANTS
  Tasks = {p, c, d}
  Root = p
  MMs = {m1, m2, m3}
  NoMM = NoMM
  Reqs = {r1}
  NoReq = NoReq
  MaxReqs = 2
  MaxExecs = 2
  Dels = TRUE
  Unloads = TRUE
SYMMETRY Symmetry
INVARIANTS  ReferencesBalance HandoffToOwner UnloadLeavesNothing
PROPERTIES SharersKeepEntry
\* The module may be removed and every task may exit.
CHECK_DEADLOCK FALSE
