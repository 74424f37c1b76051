SPECIFICATION Spec
CONSTANTS
  t1 = t1
  t2 = t2
  t3 = t3
  f1 = f1
  f2 = f2
  Threads = {t1, t2, t3}
  Files = {f1, f2}
  FileOf <- FileOfDef
  InNs <- InNsDef
  Procs = {1, 2}
  AC_MAX_VMAS = 1
  AC_MAX_MODS = 1
  MaxMaps = 2
  MaxBegins = 2
  NULL = NULL
SYMMETRY Symmetry
INVARIANTS NoStateLost SnapshotsWhole PinsBalance PagesOfOwnScan
CHECK_DEADLOCK FALSE
