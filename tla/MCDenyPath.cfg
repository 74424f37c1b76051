SPECIFICATION Spec
CONSTANTS
  Procs = {a, g}
  Game = {g}
  Ops = {"traceme", "ptrace", "vm"}
  Pids = {n1, n2}
  NoPid = NoPid
  AC_DENY_EV_BURST = 2
  AC_DENY_EV_WINDOW = 1
  PoolMin = 1
  KillPolicy = TRUE
  MaxTime = 2
  MaxCalls = 4
SYMMETRY Symmetry
INVARIANTS DenialsAccounted DeniedNeverRuns OnlyAttackersKilled
PROPERTIES DropsOnlyWhenFull
\* The calls are bounded.
CHECK_DEADLOCK FALSE
