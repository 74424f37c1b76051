--------------------------- MODULE BaselineCheck ---------------------------
(* The check of a process against the saved baselines, `scan --hash        *)
(* --check` and check_baselines_periodic(): its executable file-backed     *)
(* mappings are joined into runs, and each run is compared with the        *)
(* records that overlap it.  Addresses, offsets and sizes are in pages, a  *)
(* digest is the sequence of page contents it was computed from, and the   *)
(* reading of the snapshot and of the memory is one step.  The mappings    *)
(* are a set: their order is that of their addresses, and they are         *)
(* disjoint.  So are the records: their order in the file only decides     *)
(* which of several equally bad ones is named in a message.                *)
EXTENDS Integers, FiniteSetsExt

CONSTANTS
  Files,        \* inodes (one path each)
  Contents,     \* what a page may hold
  Layouts,      \* initial mappings: sets of Vma
  MaxAddr,      \* addresses are 0 .. MaxAddr
  AC_HASH_CAP,  \* longest range that is hashed on --save
  MaxChanges, MaxSaves  \* bounds on what happens to the process

Addrs == 0 .. MaxAddr
Vma == [start : Addrs, end : 1 .. MaxAddr + 1, offset : Nat, file : Files, exec : BOOLEAN]
Disjoint(V) == \A v, w \in V : v = w \/ v.end <= w.start \/ w.end <= v.start
ASSUME BaselineAssumption ==
  /\ MaxAddr \in Nat /\ AC_HASH_CAP \in Nat
  /\ \A L \in Layouts : Disjoint(L) /\ \A v \in L : v \in Vma /\ v.start < v.end

VARIABLES
  vmas,      \* the process's mappings
  mem,       \* Addrs -> Contents
  readable,  \* addresses pread() on /proc/<pid>/mem succeeds for
  recs,      \* the records of all baseline files
  legacy,    \* files whose baseline holds lines in the old format
  changes, saves
baselineVars == <<vmas, mem, readable, recs, legacy, changes, saves>>

BaselineInit ==
  /\ vmas \in Layouts /\ \E c \in Contents : mem = [a \in Addrs |-> c]
  /\ readable = Addrs /\ recs = {} /\ legacy \in {{}, Files}
  /\ changes = 0 /\ saves = 0

-----------------------------------------------------------------------------
(* hash_proc_mem(): fails if any part of the range cannot be read.         *)
HashFails(a, size) == ~ (a .. a + size - 1 \subseteq readable)
hash_proc_mem(a, size) == [k \in 1 .. size |-> mem[a + k - 1]]

(* --save: one record per executable mapping, in address order, each       *)
(* replacing the one of the same (inode, offset, size): of several         *)
(* mappings of one segment the last one's record stays.                    *)
SavedSize(v) == IF v.end - v.start > AC_HASH_CAP THEN AC_HASH_CAP ELSE v.end - v.start
RecordOf(v) == [inode |-> v.file, offset |-> v.offset, size |-> SavedSize(v),
                hex |-> hash_proc_mem(v.start, SavedSize(v))]
SameSegment(r, q) == r.inode = q.inode /\ r.offset = q.offset /\ r.size = q.size
Checked(V) == {v \in V : v.exec}
Hashable == {v \in Checked(vmas) : ~HashFails(v.start, SavedSize(v))}
Kept(v) == \A w \in Hashable : SameSegment(RecordOf(w), RecordOf(v)) => w.start <= v.start
Save ==
  /\ saves < MaxSaves /\ Hashable # {}
  /\ recs' = {r \in recs : \A v \in Hashable : ~SameSegment(r, RecordOf(v))}
             \cup {RecordOf(v) : v \in {w \in Hashable : Kept(w)}}
  /\ legacy' = legacy \ {v.file : v \in Hashable}
  /\ saves' = saves + 1
  /\ UNCHANGED <<vmas, mem, readable, changes>>

-----------------------------------------------------------------------------
(* Does v extend the run that u belongs to?  Then it is the next mapping.  *)
ContinuesNever(u, v) == FALSE
Continues(u, v) ==
  v.file = u.file /\ v.start = u.end /\ v.offset = u.offset + (u.end - u.start)

(* The mappings that start a run, and the last mapping of the run that     *)
(* starts with v: the first one from v on that none continues.             *)
RunStarts(V) == {v \in V : \A u \in V : ~Continues(u, v)}
Stops(V, v) == {w \in V : w.start >= v.start /\ \A u \in V : ~Continues(w, u)}
baseline_run_end(V, v) ==
  CHOOSE w \in Stops(V, v) : \A u \in Stops(V, v) : w.start <= u.start

(* A run: the addresses from start to end hold the range lo .. hi of file. *)
RunOf(V, v) ==
  LET w == baseline_run_end(V, v)
  IN [file |-> v.file, start |-> v.start, end |-> w.end,
      lo |-> v.offset, hi |-> w.offset + (w.end - w.start)]
Runs(V) == {RunOf(V, v) : v \in RunStarts(V)}

-----------------------------------------------------------------------------
(* The verdicts, the worst last.                                           *)
AC_BL_UNBASELINED == 0
AC_BL_LEGACY == 1
AC_BL_OK == 2
AC_BL_HASH_FAILED == 3
AC_BL_PARTIAL == 4
AC_BL_MISMATCH == 5

Overlaps(r, run) ==
  /\ r.inode = run.file /\ r.size # 0
  /\ ~ (r.offset + r.size <= run.lo \/ r.offset >= run.hi)
Fits(r, run) == Overlaps(r, run) /\ r.offset >= run.lo /\ r.offset + r.size <= run.hi
Partly(r, run) == Overlaps(r, run) /\ ~Fits(r, run)

RecordVerdict(r, run) ==
  LET at == run.start + (r.offset - run.lo)
  IN IF HashFails(at, r.size) THEN AC_BL_HASH_FAILED
     ELSE IF hash_proc_mem(at, r.size) # r.hex THEN AC_BL_MISMATCH
     ELSE AC_BL_OK

(* The position l moves past a record it stands in, until it reaches hi or *)
(* stands in none.  Whichever record is taken first, it stops at the same  *)
(* position below hi, or reaches hi.                                       *)
StandsIn(l, r) == r.offset <= l /\ r.offset + r.size > l
AdvanceLo(fits, hi) ==
  LET f[l \in Nat] ==
        IF l >= hi \/ \A r \in fits : ~StandsIn(l, r) THEN l
        ELSE LET r == CHOOSE r \in fits : StandsIn(l, r) IN f[r.offset + r.size]
  IN f

(* A record that overlaps the run in part is excused where records that    *)
(* fit the run cover the whole overlap.                                    *)
OverlapLo(r, run) == IF r.offset > run.lo THEN r.offset ELSE run.lo
OverlapHi(r, run) == IF r.offset + r.size < run.hi THEN r.offset + r.size ELSE run.hi
ExcusedByAnyFit(r, run, fits) == \E q \in fits : q.offset <= r.offset
Excused(r, run, fits) ==
  AdvanceLo(fits, OverlapHi(r, run))[OverlapLo(r, run)] >= OverlapHi(r, run)

baseline_check_run(run) ==
  LET fits == {r \in recs : Fits(r, run)}
      worst == Max({AC_BL_UNBASELINED} \cup {RecordVerdict(r, run) : r \in fits})
  IN IF worst < AC_BL_PARTIAL /\ \E r \in recs : Partly(r, run) /\ ~Excused(r, run, fits)
     THEN AC_BL_PARTIAL
     ELSE IF worst = AC_BL_UNBASELINED /\ run.file \in legacy THEN AC_BL_LEGACY
     ELSE worst

(* What is logged of a run.  A snapshot V that ended early may have cut    *)
(* the last one.                                                           *)
Level(run, V, complete) ==
  LET verdict == baseline_check_run(run)
  IN CASE verdict = AC_BL_PARTIAL ->
            IF ~complete /\ \A v \in V : v.end <= run.end THEN "warning" ELSE "crit"
       [] verdict = AC_BL_MISMATCH -> "crit"
       [] verdict \in {AC_BL_LEGACY, AC_BL_HASH_FAILED} -> "warning"
       [] OTHER -> "none"

(* The snapshot of the mappings below address c, and what is logged of it. *)
Snapshot(c) == Checked({v \in vmas : v.start < c})
check_baselines(c) ==
  [run \in Runs(Snapshot(c)) |->
     Level(run, Snapshot(c), \A v \in vmas : v.start < c)]

-----------------------------------------------------------------------------
(* What happens to the process.  A split is madvise() or mprotect() on     *)
(* part of a mapping; the pieces stay where they are.                      *)
Touch == changes < MaxChanges /\ changes' = changes + 1

Split(v, at) ==
  /\ Touch
  /\ v.start < at /\ at < v.end
  /\ vmas' = (vmas \ {v})
             \cup {[v EXCEPT !.end = at],
                   [v EXCEPT !.start = at, !.offset = v.offset + (at - v.start)]}
  /\ UNCHANGED <<mem, readable, recs, legacy, saves>>

Patch(a) ==
  /\ Touch
  /\ \E c \in Contents \ {mem[a]} : mem' = [mem EXCEPT ![a] = c]
  /\ UNCHANGED <<vmas, readable, recs, legacy, saves>>

Unmap(v) ==
  /\ Touch
  /\ vmas' = vmas \ {v}
  /\ UNCHANGED <<mem, readable, recs, legacy, saves>>

NoExec(v) ==
  /\ Touch /\ v.exec
  /\ vmas' = (vmas \ {v}) \cup {[v EXCEPT !.exec = FALSE]}
  /\ UNCHANGED <<mem, readable, recs, legacy, saves>>

HidePage(a) ==
  /\ Touch /\ a \in readable
  /\ readable' = readable \ {a}
  /\ UNCHANGED <<vmas, mem, recs, legacy, saves>>

(* The library is rebuilt in place and mapped anew, longer or shorter.     *)
Rebuild ==
  /\ Touch
  /\ vmas' \in Layouts /\ readable' = Addrs
  /\ \E c \in Contents : mem' = [a \in Addrs |-> c]
  /\ UNCHANGED <<recs, legacy, saves>>

BaselineNext ==
  \/ Save \/ Rebuild
  \/ \E v \in vmas : Unmap(v) \/ NoExec(v) \/ \E at \in Addrs : Split(v, at)
  \/ \E v \in vmas : \E a \in v.start .. v.end - 1 : Patch(a) \/ HidePage(a)
BaselineSpec == BaselineInit /\ [][BaselineNext]_baselineVars

-----------------------------------------------------------------------------
Verdicts(V) == [run \in Runs(V) |-> baseline_check_run(run)]
PageOf(v, a) == [v EXCEPT !.start = a, !.end = a + 1, !.offset = v.offset + (a - v.start)]
Pages(V) == UNION {{PageOf(v, a) : a \in v.start .. v.end - 1} : v \in V}

(* The runs and the verdicts on them depend on what is mapped where and    *)
(* never on where the kernel draws the boundaries between mappings:        *)
(* splitting every mapping into pages changes nothing.                     *)
SplitInvisible == Verdicts(Checked(vmas)) = Verdicts(Pages(Checked(vmas)))

(* Whenever nothing is logged of a run, every page of it that some record  *)
(* covers holds what a record lying within the run vouches for: a patched  *)
(* page never goes quiet because its neighbours were split off or          *)
(* unmapped, or because the snapshot of the mappings ended early.          *)
CoversPage(r, v, a) ==
  r.inode = v.file /\ StandsIn(v.offset + (a - v.start), r)
VouchesFor(r, v, a) ==
  CoversPage(r, v, a) /\ r.hex[v.offset + (a - v.start) - r.offset + 1] = mem[a]
QuietVouched ==
  \A c \in 0 .. MaxAddr + 1 : \A run \in Runs(Snapshot(c)) :
    check_baselines(c)[run] = "none" =>
      \A v \in Snapshot(c) : \A a \in v.start .. v.end - 1 :
        run.start <= a /\ a < run.end /\ (\E r \in recs : CoversPage(r, v, a)) =>
          \E r \in recs : Fits(r, run) /\ VouchesFor(r, v, a)
=============================================================================
