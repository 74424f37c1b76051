------------------------------ MODULE FdState ------------------------------
(***************************************************************************)
(* The snapshots kept per open file of /dev/anticheat.  SCAN_BEGIN and     *)
(* MODS_BEGIN allocate the ac_fd_state of the file on first use and        *)
(* replace its snapshot of a process's mappings or of the module list;     *)
(* the GET calls page through it; the END calls and the last close drop    *)
(* it.  Threads may share a file.  A mapping is one of four kinds; of a    *)
(* module snapshot only the number of entries filled in is kept.  The      *)
(* events derived from a snapshot are left out.  A critical section of a   *)
(* mutex is one step where it does not sleep on anything the other threads *)
(* can change.                                                             *)
(***************************************************************************)
EXTENDS Integers, Sequences, FiniteSets

CONSTANTS Threads, Files,
          FileOf,       \* FileOf[t]: the open file thread t uses
          Procs,        \* host pids of the processes that can be scanned
          InNs,         \* InNs[n]: the process a namespace knows as pid n
          AC_MAX_VMAS, AC_MAX_MODS,
          MaxMaps,      \* bound of the model on the mappings of a process
          MaxBegins,    \* and on the BEGIN calls
          NULL

Kinds == {"code", "data", "rwx", "anonx"}

ASSUME FdAssumption ==
  /\ FileOf \in [Threads -> Files] /\ InNs \in [Procs -> Procs]
  /\ {AC_MAX_VMAS, AC_MAX_MODS} \subseteq Nat \ {0} /\ MaxMaps \in Nat /\ MaxBegins \in Nat
  /\ IsFiniteSet(Threads)
  /\ NULL \notin Nat \cup Threads \cup Seq(Kinds)

RWX(v) == v = "rwx"
AnonExec(v) == v \in {"rwx", "anonx"}
Exec(v) == v # "data"
Alone(t) == \A u \in Threads : FileOf[u] = FileOf[t] => u = t
CountOf(s, P(_)) == Cardinality({i \in DOMAIN s : P(s[i])})

Ids == 1 .. Cardinality(Threads)

VARIABLES
  private,   \* private[f]: file->private_data
  st,        \* st[i]: an ac_fd_state; .owned while it is allocated
  thr,       \* thr[t]: the call thread t is in
  maps, alive, pins,   \* the processes: mappings, and mm references
  begins,    \* BEGIN calls so far
  begun      \* history: begun[t]: the snapshot of t's last SCAN_BEGIN, when t
             \* uses its file alone

vars == <<private, st, thr, maps, alive, pins, begins, begun>>

Fresh == [owned |-> FALSE, lock |-> NULL, vmas |-> NULL, pid |-> 0, n |-> 0,
          rwx |-> 0, exec |-> 0, anon |-> 0, truncated |-> FALSE,
          mods |-> NULL, n_mods |-> 0]
Idle == [at |-> "idle", op |-> "scan", id |-> 0, pid |-> 0, ref |-> FALSE, target |-> 0]

Init ==
  /\ private = [f \in Files |-> NULL]
  /\ st = [i \in Ids |-> Fresh]
  /\ thr = [t \in Threads |-> Idle]
  /\ maps \in [Procs -> {<<"code">>, <<"rwx">>}]
  /\ alive = Procs
  /\ pins = [p \in Procs |-> 0]
  /\ begins = 0
  /\ begun = [t \in Threads |-> <<>>]

procVars == <<maps, alive, pins>>

(* The processes map memory and exit; a pinned mm keeps its mappings.      *)
Map(p) ==
  /\ p \in alive /\ Len(maps[p]) < MaxMaps
  /\ \E k \in Kinds : maps' = [maps EXCEPT ![p] = Append(@, k)]
  /\ UNCHANGED <<private, st, thr, alive, pins, begins, begun>>
Exit(p) ==
  /\ p \in alive
  /\ alive' = alive \ {p}
  /\ maps' = IF pins[p] = 0 THEN [maps EXCEPT ![p] = <<>>] ELSE maps
  /\ UNCHANGED <<private, st, thr, pins, begins, begun>>

(* Both BEGIN calls start with ac_get_fd_state(), whose fast path takes no *)
(* lock.                                                                   *)
Called(t, op, p, ref) ==
  LET i == private[FileOf[t]] IN
  [at |-> IF i # NULL THEN "lock" ELSE "alloc", op |-> op,
   id |-> IF i # NULL THEN i ELSE 0, pid |-> p, ref |-> ref, target |-> 0]
ScanBegin(t) ==
  /\ thr[t].at = "idle" /\ begins < MaxBegins /\ begins' = begins + 1
  /\ \E p \in Procs, ref \in BOOLEAN : thr' = [thr EXCEPT ![t] = Called(t, "scan", p, ref)]
  /\ UNCHANGED <<private, st, procVars, begun>>
ModsBegin(t) ==
  /\ thr[t].at = "idle" /\ begins < MaxBegins /\ begins' = begins + 1
  /\ thr' = [thr EXCEPT ![t] = Called(t, "mods", 0, FALSE)]
  /\ UNCHANGED <<private, st, procVars, begun>>

(* The slow path under ac_fd_state_alloc_lock looks again.                 *)
LookAgainNot(f) == TRUE
LookAgain(f) == private[f] = NULL
StateShared(t) ==
  /\ thr[t].at = "alloc"
  /\ st' = [st EXCEPT ![1].owned = TRUE]
  /\ private' = [private EXCEPT ![FileOf[t]] = 1]
  /\ thr' = [thr EXCEPT ![t].at = "lock", ![t].id = 1]
  /\ UNCHANGED <<procVars, begins, begun>>
ac_get_fd_state(t) ==
  LET f == FileOf[t] IN
  /\ thr[t].at = "alloc"
  /\ IF LookAgain(f)
     THEN \/ \E i \in Ids :
               /\ ~st[i].owned /\ \A j \in Ids : j < i => st[j].owned
               /\ st' = [st EXCEPT ![i] = [Fresh EXCEPT !.owned = TRUE]]
               /\ private' = [private EXCEPT ![f] = i]
               /\ thr' = [thr EXCEPT ![t].at = "lock", ![t].id = i]
          \/ thr' = [thr EXCEPT ![t] = Idle] /\ UNCHANGED <<st, private>>
     ELSE /\ thr' = [thr EXCEPT ![t].at = "lock", ![t].id = private[f]]
          /\ UNCHANGED <<st, private>>
  /\ UNCHANGED <<procVars, begins, begun>>

(* ac_build_vma_snapshot(), first part: drop the old snapshot, find the    *)
(* task and pin its mm.  Of a dead process the task may still be found.    *)
Dropped(i) == [Fresh EXCEPT !.owned = TRUE, !.mods = st[i].mods, !.n_mods = st[i].n_mods]
Resolve(t) == IF thr[t].ref THEN InNs[thr[t].pid] ELSE thr[t].pid
BuildDrop(t) ==
  LET i == thr[t].id
      p == Resolve(t) IN
  /\ thr[t].at = "lock" /\ thr[t].op = "scan" /\ st[i].lock = NULL
  /\ IF p \in alive
     THEN /\ st' = [st EXCEPT ![i] = [Dropped(i) EXCEPT !.lock = t, !.pid = p]]
          /\ pins' = [pins EXCEPT ![p] = @ + 1]
          /\ thr' = [thr EXCEPT ![t].at = "walk", ![t].target = p]
     ELSE /\ \E q \in {0, p} : st' = [st EXCEPT ![i] = [Dropped(i) EXCEPT !.pid = q]]
          /\ thr' = [thr EXCEPT ![t] = Idle]
          /\ UNCHANGED pins
  /\ UNCHANGED <<private, maps, alive, begins, begun>>

Unpin(p) ==
  /\ pins' = [pins EXCEPT ![p] = @ - 1]
  /\ maps' = IF pins[p] = 1 /\ p \notin alive THEN [maps EXCEPT ![p] = <<>>] ELSE maps

(* The array cannot be allocated.                                          *)
NoMemKeepsPin(t) ==
  LET i == thr[t].id IN
  /\ thr[t].at = "walk"
  /\ st' = [st EXCEPT ![i].lock = NULL]
  /\ thr' = [thr EXCEPT ![t] = Idle]
  /\ UNCHANGED <<private, maps, pins, alive, begins, begun>>
BuildNoMem(t) ==
  LET i == thr[t].id IN
  /\ thr[t].at = "walk"
  /\ st' = [st EXCEPT ![i].lock = NULL]
  /\ Unpin(thr[t].target)
  /\ thr' = [thr EXCEPT ![t] = Idle]
  /\ UNCHANGED <<private, alive, begins, begun>>

(* Second part: the walk under the mmap lock of the target, stopped at     *)
(* AC_MAX_VMAS.                                                            *)
WalkLimit(s) == IF Len(s) < AC_MAX_VMAS THEN Len(s) ELSE AC_MAX_VMAS
BuildWalk(t) ==
  LET i == thr[t].id
      p == thr[t].target
      s == SubSeq(maps[p], 1, WalkLimit(maps[p])) IN
  /\ thr[t].at = "walk"
  /\ st' = [st EXCEPT ![i] = [@ EXCEPT !.vmas = s, !.n = Len(s), !.lock = NULL,
              !.rwx = CountOf(s, RWX), !.exec = CountOf(s, Exec),
              !.anon = CountOf(s, AnonExec),
              !.truncated = Len(maps[p]) > AC_MAX_VMAS]]
  /\ begun' = IF Alone(t) THEN [begun EXCEPT ![t] = s] ELSE begun
  /\ Unpin(p)
  /\ thr' = [thr EXCEPT ![t] = Idle]
  /\ UNCHANGED <<private, alive, begins>>

(* MODS_BEGIN under the lock of the state: ac_build_mod_snapshot() drops   *)
(* the old list, allocates and fills a new one in one pass over a list     *)
(* whose membership may change meanwhile, stopped at AC_MAX_MODS.          *)
BuildMods(t) ==
  LET i == thr[t].id IN
  /\ thr[t].at = "lock" /\ thr[t].op = "mods" /\ st[i].lock = NULL
  /\ \/ \E n \in 0 .. AC_MAX_MODS : st' = [st EXCEPT ![i].mods = n, ![i].n_mods = n]
     \/ st' = [st EXCEPT ![i].mods = NULL, ![i].n_mods = 0]
  /\ thr' = [thr EXCEPT ![t] = Idle]
  /\ UNCHANGED <<private, procVars, begins, begun>>

(* AC_IOCTL_SCAN_GET of index k under the lock of the state.               *)
InRange(i, k) == k < st[i].n
ScanGet(t, k) ==
  LET i == private[FileOf[t]] IN
  IF i = NULL THEN "EINVAL" ELSE IF ~InRange(i, k) THEN "EINVAL" ELSE st[i].vmas[k + 1]

(* AC_IOCTL_SCAN_END.                                                      *)
EndKeepsCount(t) ==
  LET i == private[FileOf[t]] IN
  /\ thr[t].at = "idle" /\ i # NULL
  /\ st[i].lock = NULL
  /\ st' = [st EXCEPT ![i].vmas = NULL]
  /\ UNCHANGED <<private, thr, procVars, begins, begun>>
ScanEnd(t) ==
  LET i == private[FileOf[t]] IN
  /\ thr[t].at = "idle" /\ i # NULL
  /\ st[i].lock = NULL
  /\ st' = [st EXCEPT ![i] = Dropped(i)]
  /\ UNCHANGED <<private, thr, procVars, begins, begun>>

(* AC_IOCTL_MODS_GET and AC_IOCTL_MODS_END.                                *)
ModsGetInRange(i, k) == k < st[i].n_mods
ModsEnd(t) ==
  LET i == private[FileOf[t]] IN
  /\ thr[t].at = "idle" /\ i # NULL
  /\ st[i].lock = NULL
  /\ st' = [st EXCEPT ![i].mods = NULL, ![i].n_mods = 0]
  /\ UNCHANGED <<private, thr, procVars, begins, begun>>

(* ac_release(): the last reference to the file; it is opened again.       *)
Release(f) ==
  /\ private[f] # NULL
  /\ \A t \in Threads : FileOf[t] = f => thr[t].at = "idle"
  /\ st' = [st EXCEPT ![private[f]] = Fresh]
  /\ private' = [private EXCEPT ![f] = NULL]
  /\ UNCHANGED <<thr, procVars, begins, begun>>

Next ==
  \/ \E p \in Procs : Map(p) \/ Exit(p)
  \/ \E t \in Threads :
       \/ ScanBegin(t) \/ ModsBegin(t) \/ ac_get_fd_state(t) \/ BuildDrop(t)
       \/ BuildNoMem(t) \/ BuildWalk(t) \/ BuildMods(t) \/ ScanEnd(t) \/ ModsEnd(t)
  \/ \E f \in Files : Release(f)

Spec == Init /\ [][Next]_vars
-----------------------------------------------------------------------------
(* Every ac_fd_state in use belongs to exactly one open file: two first    *)
(* calls on a shared file never leave one that nothing frees.              *)
NoStateLost ==
  \A i \in Ids : st[i].owned => Cardinality({f \in Files : private[f] = i}) = 1

(* Whenever the lock of a state is free its snapshots are whole: every     *)
(* index the GET calls accept is an entry of the array, also after a BEGIN *)
(* that failed half-way, and the summary SCAN_BEGIN reports is that of the *)
(* array.                                                                  *)
SnapshotsWhole ==
  \A i \in Ids : st[i].lock = NULL =>
    LET s == IF st[i].vmas = NULL THEN <<>> ELSE st[i].vmas IN
    /\ \A k \in 0 .. AC_MAX_VMAS : InRange(i, k) => k + 1 \in DOMAIN s
    /\ \A k \in 0 .. AC_MAX_MODS :
         ModsGetInRange(i, k) => st[i].mods # NULL /\ k < st[i].mods
    /\ st[i].rwx = CountOf(s, RWX) /\ st[i].exec = CountOf(s, Exec)
    /\ st[i].anon = CountOf(s, AnonExec)

(* On a file that one thread uses alone, SCAN_GET returns the entries of   *)
(* that thread's last SCAN_BEGIN, whatever others scan meanwhile.          *)
PagesOfOwnScan ==
  \A t \in Threads : Alone(t) /\ thr[t].at = "idle" =>
    \A k \in 0 .. AC_MAX_VMAS : ScanGet(t, k) \in {"EINVAL"} \cup
      {begun[t][j] : j \in DOMAIN begun[t] \cap {k + 1}}

(* References on an address space are given back on every path.            *)
PinsBalance ==
  \A p \in Procs : pins[p] = Cardinality({t \in Threads :
                                 thr[t].at = "walk" /\ thr[t].target = p})
=============================================================================
