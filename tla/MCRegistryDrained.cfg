SPECIFICATION Spec
CONSTANTS
  AC_PROT_MAX = 2
  MMs = {m1, m2}
  Callers = {c1, c2}
  Unloader = unloader
  NoMM = NoMM
  RESERVED = RESERVED
  RegisterErrors = FALSE
  Unloadable = TRUE
INVARIANT
  UnloadDrained
CHECK_DEADLOCK FALSE
