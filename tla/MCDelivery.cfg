SPECIFICATION Spec
CONSTANTS
  AC_REPORT_TIMEOUT_SEC = 2
  REQ = 2
  MaxReports = 4
  AC_RESOLVE_MAX = 2
  AC_MAX_STALE_RESOLVERS = 2
  ReapTimeout = 1
  MaxRecs = 2
  MaxForks = 4
INVARIANTS SilentMeansStored  NothingLeftBehind 
PROPERTIES ReportReturns
\* All reports have been made.
CHECK_DEADLOCK FALSE
