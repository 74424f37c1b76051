SPECIFICATION Spec
CONSTANTS
  AC_PROT_MAX = 2
  MMs = {m1, m2}
  Callers = {c1, c2, c3}
  Unloader = unloader
  NoMM = NoMM
  RESERVED = RESERVED
  RegisterErrors = TRUE
  Unloadable = TRUE
SYMMETRY Symmetry
INVARIANTS OneLivePerMm SlotExclusive NoStaleEntry NoLostDelete UnloadEmpties
PROPERTIES ExitOnlyOrganic AckedUntilError
CHECK_DEADLOCK FALSE
