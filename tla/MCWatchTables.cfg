SPECIFICATION WatchSpec
CONSTANTS
  Pids = {p1, p2, p3}
  Kinds = {"anon", "implicit", "preload", "vk"}
  AC_MAX_PROTS = 2
  MaxN = 1
  MaxReuse = 1
SYMMETRY Symm
INVARIANTS RoomForAll
PROPERTIES GrowthLogged 
