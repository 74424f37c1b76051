----------------------------- MODULE ModuleLock -----------------------------
(***************************************************************************)
(* AC_IOCTL_LOCK and AC_IOCTL_UNLOCK: the pin on the kernel module that    *)
(* outlives the descriptor it was taken through, next to the reference     *)
(* every open descriptor holds (.owner of ac_fops) and the unloading these *)
(* references keep away.                                                   *)
(***************************************************************************)
EXTENDS Integers, FiniteSets

CONSTANTS Threads,      \* callers, each with a descriptor of its own
          AC_LOCK_MAX

(* What ProbeProofs assumes of the constants.                              *)
LockAssumption == IsFiniteSet(Threads) /\ AC_LOCK_MAX \in Nat

VARIABLES refs,            \* the module's reference count
          ac_lock_count,
          pc,              \* pc[t]: "closed", "idle" (open), or inside a call
          prev,            \* prev[t]: the local of LOCK
          loaded

vars == <<refs, ac_lock_count, pc, prev, loaded>>

Init ==
  /\ refs = 0
  /\ ac_lock_count = 0
  /\ pc = [t \in Threads |-> "closed"]
  /\ prev = [t \in Threads |-> 0]
  /\ loaded = TRUE

(* open(2) and close(2): the VFS takes and drops a module reference.       *)
Open(t) ==
  /\ loaded /\ pc[t] = "closed"
  /\ refs' = refs + 1
  /\ pc' = [pc EXCEPT ![t] = "idle"]
  /\ UNCHANGED <<ac_lock_count, prev, loaded>>
Close(t) ==
  /\ pc[t] = "idle"
  /\ refs' = refs - 1
  /\ pc' = [pc EXCEPT ![t] = "closed"]
  /\ UNCHANGED <<ac_lock_count, prev, loaded>>

(* LOCK: try_module_get() first, which succeeds as the descriptor keeps    *)
(* the module; then the atomic_read().                                     *)
TryModuleGet(t) ==
  /\ pc[t] = "idle" /\ loaded
  /\ refs' = refs + 1
  /\ pc' = [pc EXCEPT ![t] = "read"]
  /\ UNCHANGED <<ac_lock_count, prev, loaded>>
ReadCount(t) ==
  /\ pc[t] = "read"
  /\ prev' = [prev EXCEPT ![t] = ac_lock_count]
  /\ pc' = [pc EXCEPT ![t] = "loop"]
  /\ UNCHANGED <<refs, ac_lock_count, loaded>>

(* The loop: at the bound the reference is handed back; otherwise the      *)
(* cmpxchg raises the count, or loads the one it found.                    *)
AtMax(t) == prev[t] >= AC_LOCK_MAX
LockBusy(t) ==
  /\ pc[t] = "loop" /\ AtMax(t)
  /\ refs' = refs - 1
  /\ pc' = [pc EXCEPT ![t] = "idle"]
  /\ UNCHANGED <<ac_lock_count, prev, loaded>>
CmpxchgOk(t) ==
  /\ pc[t] = "loop" /\ ~AtMax(t)
  /\ ac_lock_count = prev[t]
  /\ ac_lock_count' = prev[t] + 1
  /\ pc' = [pc EXCEPT ![t] = "idle"]
  /\ UNCHANGED <<refs, prev, loaded>>
CmpxchgFails(t) ==
  /\ pc[t] = "loop" /\ ~AtMax(t)
  /\ ac_lock_count # prev[t]
  /\ prev' = [prev EXCEPT ![t] = ac_lock_count]
  /\ UNCHANGED <<refs, ac_lock_count, pc, loaded>>

(* UNLOCK: atomic_dec_if_positive(), then module_put() if it decremented.  *)
DecIfPositive == ac_lock_count > 0
Unlock(t) ==
  /\ pc[t] = "idle" /\ DecIfPositive
  /\ ac_lock_count' = ac_lock_count - 1
  /\ pc' = [pc EXCEPT ![t] = "put"]
  /\ UNCHANGED <<refs, prev, loaded>>
ModulePut(t) ==
  /\ pc[t] = "put"
  /\ refs' = refs - 1
  /\ pc' = [pc EXCEPT ![t] = "idle"]
  /\ UNCHANGED <<ac_lock_count, prev, loaded>>

(* delete_module(2) is refused while there are references.                 *)
Rmmod ==
  /\ loaded /\ refs = 0
  /\ loaded' = FALSE
  /\ UNCHANGED <<refs, ac_lock_count, pc, prev>>

Next ==
  \/ \E t \in Threads :
       \/ Open(t) \/ Close(t) \/ TryModuleGet(t) \/ ReadCount(t)
       \/ LockBusy(t) \/ CmpxchgOk(t) \/ CmpxchgFails(t)
       \/ Unlock(t) \/ ModulePut(t)
  \/ Rmmod

Spec == Init /\ [][Next]_vars
-----------------------------------------------------------------------------
States == {"closed", "idle", "read", "loop", "put"}
Descriptors == {t \in Threads : pc[t] # "closed"}
InFlight == {t \in Threads : pc[t] \in {"read", "loop", "put"}}

(* Types of the counters and of each thread's place in the handlers.       *)
TypeOK ==
  /\ refs \in Nat /\ ac_lock_count \in Nat
  /\ pc \in [Threads -> States] /\ prev \in [Threads -> Nat]
  /\ loaded \in BOOLEAN

(* Every module reference is accounted for: one per open descriptor, one   *)
(* per lock, and one per call of LOCK or UNLOCK that is between its two    *)
(* halves.  No interleaving of LOCKs and UNLOCKs leaks one or gives back   *)
(* one that was not taken.                                                 *)
RefsBalance ==
  refs = Cardinality(Descriptors) + ac_lock_count + Cardinality(InFlight)

(* Concurrent LOCKs do not push the count past AC_LOCK_MAX.                *)
LockBounded == ac_lock_count <= AC_LOCK_MAX

(* The module is not unloaded while it is locked, also after the locking   *)
(* process has closed its descriptor, nor while a call is inside it.       *)
LockPins == ac_lock_count > 0 \/ Descriptors # {} => loaded
=============================================================================
