SPECIFICATION FairSpec
CONSTANTS
  AC_RING_SIZE = 3
  AC_MAX_EVENTS = 2
  Readers = {r1, r2}
  Nobody = Nobody
  MaxEmits = 6
INVARIANTS NoSilentLoss GapsReported
PROPERTIES ImplementsEventLog EventsLeave
