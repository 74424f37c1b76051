---------------------------- MODULE SyscallCheck ----------------------------
(***************************************************************************)
(* The syscall table check: ac_check_syscalls() of the kernel module under *)
(* ac_syscall_check_lock, called by the daemon's periodic check and by the *)
(* `anticheat syscalls` command; its rising-edge events in the lossy event *)
(* ring; and the daemon's level-triggered backstop sys_level_check().      *)
(*                                                                         *)
(* A table entry is Boot (the handler the slot had when the module was     *)
(* loaded), Other (another handler in core text), Out (an address outside  *)
(* core text) or Null.  A SHA-256 of the table is the table itself.  The   *)
(* lock is held over both halves of a slot's turn: the read of the live    *)
(* entry and what is done with it.  The table changes between any two     *)
(* steps, and a read may fail.                                             *)
(***************************************************************************)
EXTENDS Integers, Sequences, FiniteSets

CONSTANTS NSlots,      \* __NR_syscalls
          Callers,     \* threads that call AC_IOCTL_CHECK_SYSCALLS
          Daemon,      \* the monitor loop
          Nobody,      \* ac_syscall_check_lock is free
          RingSize,    \* AC_RING_SIZE
          Batch,       \* AC_MAX_EVENTS
          Floods,      \* whether other events are emitted
          MaxFails, MaxTampers \* bounds of the model on failing reads and on
                       \* writes to the table

ASSUME SyscallAssumption ==
  /\ NSlots \in Nat \ {0} /\ RingSize \in Nat \ {0} /\ Batch \in Nat \ {0}
  /\ MaxFails \in Nat /\ MaxTampers \in Nat /\ Floods \in BOOLEAN
  /\ Daemon \in Callers /\ Nobody \notin Callers

Slots == 1 .. NSlots
Entries == {"Boot", "Other", "Out", "Null"}
Kinds == {"hook", "redirect"}

VARIABLES
  table,         \* the live sys_call_table
  baseline, captured,             \* ac_syscall_baseline, ac_baseline_captured
  hookedBits, redirectBits,       \* ac_hooked_bitmap, ac_redirect_bitmap
  lock,          \* holder of ac_syscall_check_lock
  call,          \* call[c]: the locals and the ac_syscall_check of a caller
  ring,          \* the event ring: <<kind, slot>> or <<"noise", 0>>
  level,         \* g_hook_level and g_redirect_level
  sumReported,   \* checksum_only_reported
  drained,       \* the loop has read the ring since its last check
  fails,         \* reads that failed
  noticed,       \* history: a CRIT line since the daemon's check was last ok
  touched,       \* the number of writes to the table
  last           \* history: last[s]: entry s as last read, "none" once its hook
                 \* event was emitted and it was not seen clean since

kernelVars == <<baseline, captured, hookedBits, redirectBits>>
daemonVars == <<level, sumReported, drained, noticed>>
vars == <<table, kernelVars, lock, call, ring, daemonVars, fails, touched, last>>

NoCall == [at |-> "idle", i |-> 0, e |-> "Null", ok |-> FALSE, have |-> FALSE,
           hooked |-> 0, redirected |-> 0, hash |-> <<>>, base |-> <<>>,
           quiet |-> TRUE]

(* ac_capture_syscall_baseline(): a slot whose read failed is stored as 0  *)
(* and left uncaptured.                                                    *)
Init ==
  /\ table = [s \in Slots |-> "Boot"]
  /\ captured \in SUBSET Slots
  /\ baseline = [s \in Slots |-> IF s \in captured THEN table[s] ELSE "Null"]
  /\ hookedBits = {} /\ redirectBits = {}
  /\ lock = Nobody
  /\ call = [c \in Callers |-> NoCall]
  /\ ring = <<>>
  /\ level = [k \in Kinds |-> [accounted |-> 0, prev_excess |-> 0]]
  /\ sumReported = FALSE
  /\ drained = FALSE
  /\ fails = 0
  /\ noticed = FALSE /\ touched = 0
  /\ last = [s \in Slots |-> "Boot"]

(* ac_entry_bad_snapshot(): 0 is below ac_stext.                           *)
EntryBad(e) == e \in {"Out", "Null"}

(* ac_emit(): the oldest event is overwritten when the ring is full.       *)
Push(r, ev) == Append(IF Len(r) >= RingSize THEN Tail(r) ELSE r, ev)

(* The entry of one slot changes; other events fill the ring; another      *)
(* reader (`anticheat events`) takes what the ring holds.                  *)
Tamper ==
  /\ touched < MaxTampers
  /\ \E s \in Slots, e \in Entries :
       table[s] # e /\ table' = [table EXCEPT ![s] = e]
  /\ touched' = touched + 1
  /\ call' = [c \in Callers |-> [call[c] EXCEPT !.quiet = FALSE]]
  /\ UNCHANGED <<kernelVars, lock, ring, daemonVars, fails, last>>
Noise ==
  /\ Floods
  /\ ring' = Push(ring, <<"noise", 0>>)
  /\ UNCHANGED <<table, kernelVars, lock, call, daemonVars, fails, touched, last>>
OtherReader ==
  /\ Callers # {Daemon} /\ ring # <<>>
  /\ ring' = <<>>
  /\ UNCHANGED <<table, kernelVars, lock, call, daemonVars, fails, touched, last>>

(* AC_IOCTL_CHECK_SYSCALLS.  The monitor loop reads the ring between two   *)
(* of its checks.                                                          *)
LockNotTaken == TRUE
LockFree == lock = Nobody
StartCheck(c) ==
  /\ call[c].at = "idle"
  /\ c = Daemon => drained
  /\ LockFree
  /\ lock' = c
  /\ call' = [call EXCEPT ![c] = [NoCall EXCEPT !.at = "read", !.i = 1]]
  /\ UNCHANGED <<table, kernelVars, ring, daemonVars, fails, touched, last>>

(* ac_kread() of slot i, and whether the slot has a baseline.  The entry   *)
(* of a failed read is the trusted one, or 0.                              *)
Trusted(s) == IF s \in captured THEN baseline[s] ELSE "Null"
ReadSlot(c, ok) ==
  LET s == call[c].i
      e == IF ok THEN table[s] ELSE Trusted(s) IN
  /\ call[c].at = "read"
  /\ ok \/ fails < MaxFails
  /\ fails' = IF ok THEN fails ELSE fails + 1
  /\ call' = [call EXCEPT ![c].at = "apply", ![c].e = e, ![c].ok = ok,
                          ![c].have = s \in captured,
                          ![c].hash = Append(@, e),
                          ![c].quiet = @ /\ ok]
  /\ UNCHANGED <<table, kernelVars, lock, ring, daemonVars, touched, last>>

Advance(c, rec) ==
  [call EXCEPT ![c] = [rec EXCEPT !.i = @ + 1,
                                  !.at = IF rec.i = NSlots THEN "done" ELSE "read"]]

(* A slot that could not be read: the bitmaps and the baseline keep.       *)
UnreadClearsBits(c) ==
  /\ call[c].at = "apply" /\ ~call[c].ok
  /\ call' = Advance(c, call[c])
  /\ hookedBits' = hookedBits \ {call[c].i}
  /\ redirectBits' = redirectBits \ {call[c].i}
  /\ UNCHANGED <<table, baseline, captured, lock, ring, daemonVars, fails, touched, last>>
Unread(c) ==
  /\ call[c].at = "apply" /\ ~call[c].ok
  /\ call' = Advance(c, call[c])
  /\ UNCHANGED <<table, kernelVars, lock, ring, daemonVars, fails, touched, last>>

(* A slot that was read: backfill or compare with the baseline, then the   *)
(* range check, whose `if (!e) continue` leaves the hooked bit as it is.   *)
HookedBitsAfter(s, e) ==
  IF e = "Null" THEN hookedBits
  ELSE IF EntryBad(e) THEN hookedBits \cup {s} ELSE hookedBits \ {s}
IsHook(e) == e # "Null" /\ EntryBad(e)
HookEvent(c) ==
  call[c].at = "apply" /\ call[c].ok /\ IsHook(call[c].e) /\ call[c].i \notin hookedBits
ApplySlot(c) ==
  LET s == call[c].i
      e == call[c].e
      redirect == call[c].have /\ e # baseline[s] /\ ~EntryBad(e)
      hook == IsHook(e)
      r1 == IF redirect /\ s \notin redirectBits THEN Push(ring, <<"redirect", s>>)
            ELSE ring IN
  /\ call[c].at = "apply" /\ call[c].ok
  /\ baseline' = IF call[c].have THEN baseline ELSE [baseline EXCEPT ![s] = e]
  /\ captured' = captured \cup {s}
  /\ redirectBits' = IF redirect THEN redirectBits \cup {s} ELSE redirectBits \ {s}
  /\ hookedBits' = HookedBitsAfter(s, e)
  /\ ring' = IF HookEvent(c) THEN Push(r1, <<"hook", s>>) ELSE r1
  /\ call' = Advance(c, [call[c] EXCEPT !.redirected = IF redirect THEN @ + 1 ELSE @,
                                        !.hooked = IF hook THEN @ + 1 ELSE @])
  /\ last' = [last EXCEPT ![s] = IF HookEvent(c) \/ (last[s] = "none" /\ e = "Out")
                                 THEN "none" ELSE e]
  /\ UNCHANGED <<table, lock, daemonVars, fails, touched>>

(* Unlock; baseline_sha256 was copied under the lock.  The call of the     *)
(* daemon goes on in check_syscalls_periodic().                            *)
Unlock(c) ==
  /\ call[c].at = "done"
  /\ lock' = Nobody
  /\ call' = [call EXCEPT ![c].at = "out", ![c].base = [s \in Slots |-> baseline[s]]]
  /\ UNCHANGED <<table, kernelVars, ring, daemonVars, fails, touched, last>>

MismatchIgnored(c) == FALSE
Mismatch(c) == call[c].hash # call[c].base
Ok(c) == call[c].hooked = 0 /\ call[c].redirected = 0 /\ ~Mismatch(c)

(* sys_level_check(): the new level, and whether to log.                   *)
ClampNever(lv, cur) == lv.accounted
Clamp(lv, cur) == IF lv.accounted > cur THEN cur ELSE lv.accounted
Excess(lv, cur) == cur - Clamp(lv, cur)
Lost(lv, cur) == Excess(lv, cur) > 0 /\ lv.prev_excess > 0
sys_level_check(lv, cur) ==
  IF Lost(lv, cur) THEN [accounted |-> cur, prev_excess |-> 0]
  ELSE [accounted |-> Clamp(lv, cur), prev_excess |-> Excess(lv, cur)]

Count(c, k) == IF k = "hook" THEN call[c].hooked ELSE call[c].redirected
SumOnly(c) == Mismatch(c) /\ call[c].hooked = 0 /\ call[c].redirected = 0

check_syscalls_periodic ==
  LET c == Daemon IN
  /\ call[c].at = "out"
  /\ level' = [k \in Kinds |-> sys_level_check(level[k], Count(c, k))]
  /\ sumReported' = SumOnly(c)
  /\ noticed' = IF Ok(c) THEN FALSE
                ELSE \/ noticed
                     \/ \E k \in Kinds : Lost(level[k], Count(c, k))
                     \/ SumOnly(c) /\ ~sumReported
  /\ drained' = FALSE
  /\ call' = [call EXCEPT ![c] = NoCall]
  /\ UNCHANGED <<table, kernelVars, lock, ring, fails, touched, last>>
CommandPrints(c) ==
  /\ c # Daemon /\ call[c].at = "out"
  /\ call' = [call EXCEPT ![c] = NoCall]
  /\ UNCHANGED <<table, kernelVars, lock, ring, daemonVars, fails, touched, last>>

(* The monitor loop reads the ring and logs every event.  A count above    *)
(* NSlots + 1 is clamped by the next check all the same.                   *)
MinOf(a, b) == IF a < b THEN a ELSE b
Taken == SubSeq(ring, 1, MinOf(Batch, Len(ring)))
Logged(k) == Cardinality({j \in DOMAIN Taken : Taken[j][1] = k})
DrainRing ==
  /\ call[Daemon].at = "idle"
  /\ drained' = TRUE
  /\ level' = [k \in Kinds |-> [level[k] EXCEPT !.accounted =
                                  MinOf(@ + Logged(k), NSlots + 1)]]
  /\ noticed' = (noticed \/ \E k \in Kinds : Logged(k) > 0)
  /\ ring' = SubSeq(ring, Len(Taken) + 1, Len(ring))
  /\ UNCHANGED <<table, kernelVars, lock, call, sumReported, fails, touched, last>>

Step(c) ==
  \/ ReadSlot(c, TRUE) \/ ReadSlot(c, FALSE) \/ Unread(c) \/ ApplySlot(c)
  \/ Unlock(c) \/ CommandPrints(c)

Next ==
  \/ Tamper \/ Noise \/ OtherReader
  \/ \E c \in Callers : StartCheck(c) \/ Step(c)
  \/ check_syscalls_periodic
  \/ DrainRing

Spec == Init /\ [][Next]_vars

(* A call goes on; the monitor loop keeps reading and checking; the lock   *)
(* is a mutex with a queue.                                                *)
FairSpec ==
  /\ Spec
  /\ \A c \in Callers : WF_vars(Step(c)) /\ SF_vars(StartCheck(c))
  /\ WF_vars(check_syscalls_periodic) /\ WF_vars(DrainRing)
-----------------------------------------------------------------------------
(* Two callers never disagree on what the trusted handler of a slot is:    *)
(* once a slot has a baseline, from boot or backfilled by a later check,   *)
(* no check replaces it.                                                   *)
BaselineStable ==
  [][\A s \in captured : s \in captured' /\ baseline'[s] = baseline[s]]_vars

(* A check during which every read succeeded and the table did not change  *)
(* is ok exactly when every slot holds its trusted handler and none points *)
(* outside core text: nothing falls between the three counters, a cleared  *)
(* slot included.                                                          *)
VerdictExact ==
  \A c \in Callers : call[c].at = "out" /\ call[c].quiet =>
    (Ok(c) <=> \A s \in Slots : table[s] = baseline[s] /\ table[s] # "Out")

(* A persistent hook is one event: a hook event for a slot is only emitted *)
(* when some check has read another entry in the slot since the last one,  *)
(* and never because a read failed in between.                             *)
OncePerEdge ==
  [][\A c \in Callers : ApplySlot(c) /\ HookEvent(c) => last[call[c].i] # "none"]_vars

(* An entry that stays tampered with does not go unnoticed, although its   *)
(* event may be overwritten or read by somebody else: the daemon logs a    *)
(* critical line, and has done so since its check last found the table in  *)
(* order.                                                                  *)
TamperNoticed ==
  \A s \in Slots : \A v \in {"Other", "Out", "Null"} :
    (table[s] = v /\ s \in captured /\ baseline[s] # v)
      ~> (noticed \/ table[s] # v)
=============================================================================
