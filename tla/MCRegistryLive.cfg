SPECIFICATION FairSpec
CONSTANTS
  AC_PROT_MAX = 2
  MMs = {m1, m2}
  Callers = {c1, c2}
  Unloader = unloader
  NoMM = NoMM
  RESERVED = RESERVED
  RegisterErrors = TRUE
  Unloadable = FALSE
PROPERTIES
  SlotsComeBack ExitCompletes
