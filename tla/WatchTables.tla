---------------------------- MODULE WatchTables ----------------------------
(* The per-pid tables of the daemon's periodic process checks: what each   *)
(* check remembers of a process, in AC_MAX_PROTS slots, from one cycle to  *)
(* the next.                                                               *)
(*   anon      g_anon_baseline            growth of executable mappings    *)
(*   implicit  g_implicit_layer_baseline  growth of unrecognised layers    *)
(*   preload   g_preload_warned           LD_PRELOAD set at exec           *)
(*   vk        g_vklayer_warned           Vulkan layer variables at exec   *)
(* The tables share no state, so a behaviour follows one of them.          *)
EXTENDS Integers, FiniteSets

CONSTANTS
  Kinds,         \* the checks followed
  Pids,
  AC_MAX_PROTS,
  MaxN, MaxReuse \* bounds on what a check counts, and on reuses of pids

ASSUME WatchAssumption ==
  /\ Kinds \subseteq {"anon", "implicit", "preload", "vk"}
  /\ AC_MAX_PROTS \in Nat \ {0} /\ MaxN \in Nat

VARIABLES
  kind,
  prot,     \* pids in the kernel's registry
  proc,     \* Pids -> the process that has the pid: the count n, whether the
            \* variable is in its environ, whether it can be read (scanned)
  reuses,   \* pids that another process has got
  tbl,      \* slots of the table
  todo,     \* pids of the current cycle's list still to come
  last,     \* the count the last check saw, NoCount before the first (history)
  nwarn,    \* 1 if a line was logged: while the pid stays listed, for the variables,
            \* by its last check, for the counts (history)
  tracked   \* pids the current cycle has recorded (history)
watchVars == <<kind, prot, proc, reuses, tbl, todo, last, nwarn, tracked>>
world == <<prot, proc, reuses>>
hist == <<last, nwarn, tracked>>

NoCount == -1
Slots == 1 .. AC_MAX_PROTS
Free == [in_use |-> FALSE, pid |-> 0, count |-> 0]
Counting == kind \in {"anon", "implicit"}

WatchInit ==
  /\ kind \in Kinds /\ prot = {} /\ reuses = 0
  /\ proc \in [Pids -> [n : {0}, set : IF Counting THEN {FALSE} ELSE BOOLEAN, ok : {TRUE}]]
  /\ tbl = [s \in Slots |-> Free] /\ todo = {}
  /\ last = [p \in Pids |-> NoCount] /\ nwarn = [p \in Pids |-> 0] /\ tracked = {}

-----------------------------------------------------------------------------
(* The processes.                                                          *)
Protect(p) ==
  /\ p \notin prot /\ Cardinality(prot) < AC_MAX_PROTS
  /\ prot' = prot \cup {p}
  /\ UNCHANGED <<kind, proc, reuses, tbl, todo, hist>>
Unprotect(p) ==
  /\ p \in prot /\ prot' = prot \ {p}
  /\ UNCHANGED <<kind, proc, reuses, tbl, todo, hist>>

(* The process maps or unmaps, or a layer is installed or removed; it may  *)
(* become unreadable for a while; it executes another program.             *)
Change(p) ==
  /\ \/ \E n \in {proc[p].n - 1, proc[p].n + 1} \cap 0 .. MaxN :
          Counting /\ proc' = [proc EXCEPT ![p].n = n]
     \/ proc' = [proc EXCEPT ![p].ok = ~@]
     \/ ~Counting /\ proc' = [proc EXCEPT ![p].set = ~@]
  /\ UNCHANGED <<kind, prot, reuses, tbl, todo, hist>>

(* The process ends and another one gets its pid.                          *)
Reuse(p) ==
  /\ reuses < MaxReuse /\ reuses' = reuses + 1
  /\ \E n \in 0 .. MaxN, b \in IF Counting THEN {FALSE} ELSE BOOLEAN :
       proc' = [proc EXCEPT ![p] = [n |-> n, set |-> b, ok |-> TRUE]]
  /\ prot' = prot \ {p} /\ last' = [last EXCEPT ![p] = NoCount]
  /\ UNCHANGED <<kind, tbl, todo, nwarn, tracked>>

-----------------------------------------------------------------------------
SlotOf(p) == {s \in Slots : tbl[s].in_use /\ tbl[s].pid = p}
FreeSlots == {s \in Slots : ~tbl[s].in_use}
FirstFree == CHOOSE s \in FreeSlots : \A r \in FreeSlots : s <= r

ForgetNothing(pids) == tbl
(* Slots of pids no longer listed are freed, in each table alike.          *)
Forget(pids) ==
  [s \in Slots |-> IF tbl[s].in_use /\ tbl[s].pid \notin pids
                   THEN [tbl[s] EXCEPT !.in_use = FALSE] ELSE tbl[s]]
anon_baseline_forget_stale(pids) == Forget(pids)
implicit_layer_baseline_forget_stale(pids) == Forget(pids)
preload_warned_forget_stale(pids) == Forget(pids)
vklayer_warned_forget_stale(pids) == Forget(pids)

(* A cycle begins.  (When the ioctl fails nothing happens.)                *)
BeginCycle ==
  /\ todo = {} /\ todo' = prot
  /\ tbl' = CASE kind = "anon" -> anon_baseline_forget_stale(prot)
              [] kind = "implicit" -> implicit_layer_baseline_forget_stale(prot)
              [] kind = "preload" -> preload_warned_forget_stale(prot)
              [] kind = "vk" -> vklayer_warned_forget_stale(prot)
  /\ last' = [p \in Pids |-> IF p \in prot THEN last[p] ELSE NoCount]
  /\ nwarn' = [p \in Pids |-> IF p \in prot /\ ~Counting THEN nwarn[p] ELSE 0]
  /\ tracked' = {}
  /\ UNCHANGED <<kind, world>>

Entry(p, c) == [in_use |-> TRUE, pid |-> p, count |-> c]
Insert(p, c) ==
  IF FreeSlots = {} THEN tbl ELSE [tbl EXCEPT ![FirstFree] = Entry(p, c)]
Warn(p) == nwarn' = [nwarn EXCEPT ![p] = 1]

UpdateKept(s, c) == tbl
Update(s, c) == [tbl EXCEPT ![s].count = c]
(* The first count is the baseline; later ones are compared with the last. *)
anon_baseline_check(p, c) ==
  /\ IF SlotOf(p) = {}
     THEN tbl' = Insert(p, c) /\ nwarn' = [nwarn EXCEPT ![p] = 0]
     ELSE \E s \in SlotOf(p) :
            /\ tbl' = Update(s, c)
            /\ nwarn' = [nwarn EXCEPT ![p] = IF c > tbl[s].count THEN 1 ELSE 0]
  /\ last' = [last EXCEPT ![p] = c] /\ tracked' = tracked \cup {p}

Skip == UNCHANGED <<tbl, hist>>
scan_protected(p) == IF proc[p].ok THEN anon_baseline_check(p, proc[p].n) ELSE Skip

(* A home directory that cannot be resolved hides the layers in it.  The   *)
(* code repeats the steps of anon_baseline_check().                        *)
check_implicit_layers(p) ==
  \E c \in IF proc[p].ok THEN {proc[p].n} ELSE 0 .. proc[p].n : anon_baseline_check(p, c)

Mark(p) == tbl' = Insert(p, 0) /\ tracked' = tracked \cup {p} /\ UNCHANGED last
preload_already_warned(p) == SlotOf(p) # {}
preload_mark_warned(p) == Mark(p)
vklayer_already_warned(p) == SlotOf(p) # {}
vklayer_mark_warned(p) == Mark(p)

check_ld_preload_eager(p) ==
  IF preload_already_warned(p) \/ ~proc[p].ok THEN Skip
  ELSE preload_mark_warned(p) /\ IF proc[p].set THEN Warn(p) ELSE UNCHANGED nwarn
check_ld_preload(p) ==
  IF preload_already_warned(p) \/ ~proc[p].ok \/ ~proc[p].set THEN Skip
  ELSE Warn(p) /\ preload_mark_warned(p)

check_vk_layers(p) ==
  IF vklayer_already_warned(p) \/ ~proc[p].ok THEN Skip
  ELSE vklayer_mark_warned(p) /\ IF proc[p].set THEN Warn(p) ELSE UNCHANGED nwarn

CheckItem(p) ==
  /\ p \in todo /\ todo' = todo \ {p}
  /\ CASE kind = "anon" -> scan_protected(p)
       [] kind = "implicit" -> check_implicit_layers(p)
       [] kind = "preload" -> check_ld_preload(p)
       [] kind = "vk" -> check_vk_layers(p)
  /\ UNCHANGED <<kind, world>>

WatchNext ==
  \/ BeginCycle
  \/ \E p \in Pids : Protect(p) \/ Unprotect(p) \/ Change(p) \/ Reuse(p) \/ CheckItem(p)
WatchSpec == WatchInit /\ [][WatchNext]_watchVars

-----------------------------------------------------------------------------
(* The tables are as large as the registry, so that a process whose turn   *)
(* came has its slot, and only one: no check goes blind after processes    *)
(* came and went.                                                          *)
RoomForAll == \A p \in tracked : Cardinality(SlotOf(p)) = 1

(* Of a process that stays listed, every growth between two checks is      *)
(* logged, also growth after a decrease.                                   *)
GrowthStep == \A p \in Pids : last[p] # NoCount /\ last'[p] > last[p] => nwarn'[p] = 1
GrowthLogged == [][GrowthStep]_watchVars

(* A process whose environ holds LD_PRELOAD, and can be read, has been     *)
(* logged once its turn has come, though it executed the program that      *)
(* brought the variable after earlier checks.  (check_vk_layers() looks    *)
(* once at each pid and does not promise this.)                            *)
NoticeStep ==
  \A p \in todo \ todo' : kind = "preload" /\ proc[p].set /\ proc[p].ok => nwarn'[p] > 0
VariableNoticed == [][NoticeStep]_watchVars
=============================================================================
