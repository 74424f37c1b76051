------------------------------ MODULE Registry ------------------------------
(***************************************************************************)
(* The registry of protected address spaces of the kernel module           *)
(* (src/anticheat_module.c): a table of AC_PROT_MAX slots keyed by         *)
(* mm_struct pointer.  A slot is claimed and deleted by ioctl threads and  *)
(* by the deferred add/rekey worker (both are Callers here), is cleared by *)
(* the mmu_notifier release callback when the address space dies, is       *)
(* finished by a release worker embedded in the slot, and is cleared by    *)
(* the module's exit path.  Every critical section of ac_prot_lock is one  *)
(* step; mmu_notifier_register() and _unregister() run with the lock       *)
(* dropped and are steps of their own.                                     *)
(*                                                                         *)
(* pid, comm and jit_allowed are attributes of an entry that no property   *)
(* below tells apart; they are left out.  A call whose task or mm is gone  *)
(* (-ESRCH) changes nothing and is a stuttering step.                      *)
(***************************************************************************)
EXTENDS Integers, FiniteSets

CONSTANTS
  AC_PROT_MAX,     \* number of slots
  MMs,             \* addresses an mm_struct can have; one can be reused
  Callers,         \* threads inside ac_add_prot_mm() / ac_del_prot_mm()
  Unloader,        \* the thread running ac_exit()
  NoMM,            \* the NULL pointer
  RESERVED,        \* AC_PROT_RESERVED
  RegisterErrors,  \* may mmu_notifier_register() return an error?
  Unloadable       \* may the module be removed?

Slots == 1 .. AC_PROT_MAX

(* Who can be inside mmu_notifier_unregister(): a caller, the unloader, or *)
(* the release worker of slot s, which is named by its slot.               *)
Actors == Callers \cup Slots \cup {Unloader}

ASSUME MaxAssumption == AC_PROT_MAX \in Nat \ {0}
ASSUME NamesAssumption ==
  /\ NoMM \notin MMs /\ RESERVED \notin MMs /\ NoMM # RESERVED
  /\ Callers \cap Slots = {} /\ Unloader \notin Callers \cup Slots
ASSUME FlagsAssumption == RegisterErrors \in BOOLEAN /\ Unloadable \in BOOLEAN

VARIABLES
  (* struct ac_prot_entry, one field each; flags are sets of slots.        *)
  mm,             \* ac_prots[s].mm: NoMM, RESERVED or a member of MMs
  claiming,       \* ac_prots[s].claiming
  removing,       \* slots whose .removing is set
  cancel,         \* slots whose .cancel is set
  ac_prot_count,
  (* the kernel's side of the notifier embedded in a slot                  *)
  hashed,         \* slots whose notifier is on its mm's notifier list
  grab,           \* grab[s]: the mm whose mm_count the notifier of s holds
  life,           \* "live", "orphan" (task gone, mm pinned), "walk", "dead"
  walked,         \* notifiers the exit_mmap() walk of their mm has visited
  pend,           \* pend[m]: slot released by that walk, work not yet queued
  (* threads                                                               *)
  pc, opMm, opSlot,
  phase,          \* progress of ac_exit()
  next,           \* loop index of ac_clear_protected()
  flushing,       \* work items the current flush_workqueue() waits for
  (* history                                                               *)
  exitEv,         \* AC_EV_EXIT events emitted for the present life of an mm
  delSince,       \* slots whose mm was named by a delete since their claim
  acked           \* mms an add reported as protected, not deleted since

slotVars == <<mm, claiming, removing, cancel, ac_prot_count>>
kernVars == <<hashed, grab, life, walked, pend>>
opVars   == <<pc, opMm, opSlot>>
exitVars == <<phase, next, flushing>>
histVars == <<exitEv, delSince, acked>>
vars == <<slotVars, kernVars, opVars, exitVars, histVars>>

Init ==
  /\ mm = [s \in Slots |-> NoMM]
  /\ claiming = [s \in Slots |-> NoMM]
  /\ removing = {} /\ cancel = {} /\ ac_prot_count = 0
  /\ hashed = {} /\ grab = [s \in Slots |-> NoMM]
  /\ life = [m \in MMs |-> "live"]
  /\ walked = {} /\ pend = [m \in MMs |-> 0]
  /\ pc = [a \in Actors |-> "idle"]
  /\ opMm = [a \in Actors |-> NoMM]
  /\ opSlot = [a \in Actors |-> 0]
  /\ phase = "loaded" /\ next = 1 /\ flushing = {}
  /\ exitEv = [m \in MMs |-> 0] /\ delSince = {} /\ acked = {}

Go(a, l) == pc' = [pc EXCEPT ![a] = l]
Enter(a, l, m, s) ==
  /\ pc' = [pc EXCEPT ![a] = l]
  /\ opMm' = [opMm EXCEPT ![a] = m]
  /\ opSlot' = [opSlot EXCEPT ![a] = s]
Leave(a) == Enter(a, "idle", NoMM, 0)

Published(s) == mm[s] \in MMs

(* .removing is set in the critical section that decides to unregister.    *)
PinSlotForgotten(s) == UNCHANGED removing
PinSlot(s) == removing' = removing \cup {s}

(* What the dedupe scan of ac_add_prot_mm() accepts as "already covered".  *)
CoversNoClaims(s, m) == mm[s] = m /\ s \notin removing
CoversCancelled(s, m) ==
  \/ mm[s] = m /\ s \notin removing
  \/ mm[s] = RESERVED /\ claiming[s] = m
Covers(s, m) ==
  \/ mm[s] = m /\ s \notin removing
  \/ mm[s] = RESERVED /\ claiming[s] = m /\ s \notin cancel

FreeSlotRemoving(s) == mm[s] = NoMM
FreeSlot(s) == mm[s] = NoMM /\ s \notin removing

-----------------------------------------------------------------------------
(* A caller pins m with get_task_mm(), which succeeds only while the task  *)
(* still owns it: an ioctl at once, a deferred request when it is queued.  *)
(* A caller that is not idle holds that mm_users reference (mmput() is     *)
(* Leave), so exit_mmap(m) cannot start; the task itself may be gone.      *)
Pin(c, m) ==
  /\ pc[c] = "idle" /\ phase = "loaded" /\ life[m] = "live"
  /\ Enter(c, "pinned", m, 0)
  /\ UNCHANGED <<slotVars, kernVars, exitVars, histVars>>

(* ac_add_prot_mm(), the first critical section: already covered, no slot  *)
(* (-ENOSPC), or a claim on the first free slot.                           *)
AddDedupe(c) ==
  /\ pc[c] = "pinned"
  /\ \E s \in Slots : Covers(s, opMm[c])
  /\ acked' = acked \cup {opMm[c]}
  /\ Leave(c)
  /\ UNCHANGED <<slotVars, kernVars, exitVars, exitEv, delSince>>

AddFull(c) ==
  /\ pc[c] = "pinned"
  /\ \A s \in Slots : ~Covers(s, opMm[c]) /\ ~FreeSlot(s)
  /\ Leave(c)
  /\ UNCHANGED <<slotVars, kernVars, exitVars, histVars>>

AddClaim(c) ==
  /\ pc[c] = "pinned"
  /\ \A s \in Slots : ~Covers(s, opMm[c])
  /\ \E s \in Slots :
       /\ FreeSlot(s) /\ \A t \in Slots : t < s => ~FreeSlot(t)
       /\ mm' = [mm EXCEPT ![s] = RESERVED]
       /\ claiming' = [claiming EXCEPT ![s] = opMm[c]]
       /\ cancel' = cancel \ {s}
       /\ delSince' = delSince \ {s}
       /\ Enter(c, "register", opMm[c], s)
  /\ UNCHANGED <<removing, ac_prot_count, kernVars, exitVars, exitEv, acked>>

(* mmu_notifier_register(): takes an mm_count reference and puts the       *)
(* notifier on the list of the mm.                                         *)
Register(c) ==
  /\ pc[c] = "register"
  /\ hashed' = hashed \cup {opSlot[c]}
  /\ grab' = [grab EXCEPT ![opSlot[c]] = opMm[c]]
  /\ Go(c, "publish")
  /\ UNCHANGED <<slotVars, life, walked, pend, opMm, opSlot, exitVars, histVars>>

RegisterFail(c) ==
  /\ RegisterErrors
  /\ pc[c] = "register"
  /\ Go(c, "failed")
  /\ UNCHANGED <<slotVars, kernVars, opMm, opSlot, exitVars, histVars>>

(* The second critical section: the three ways out of the claim.           *)
AddFailedRetries(c) ==
  /\ pc[c] = "failed"
  /\ Go(c, "register")
  /\ UNCHANGED <<slotVars, kernVars, opMm, opSlot, exitVars, histVars>>
AddFailed(c) ==
  /\ pc[c] = "failed"
  /\ LET s == opSlot[c] IN
       /\ mm' = [mm EXCEPT ![s] = NoMM]
       /\ claiming' = [claiming EXCEPT ![s] = NoMM]
       /\ cancel' = cancel \ {s}
  /\ Leave(c)
  /\ UNCHANGED <<removing, ac_prot_count, kernVars, exitVars, histVars>>

AddCancelled(c) ==
  /\ pc[c] = "publish" /\ opSlot[c] \in cancel
  /\ LET s == opSlot[c] IN
       /\ mm' = [mm EXCEPT ![s] = NoMM]
       /\ claiming' = [claiming EXCEPT ![s] = NoMM]
       /\ cancel' = cancel \ {s}
       /\ PinSlot(s)
  /\ Go(c, "unreg")
  /\ UNCHANGED <<ac_prot_count, kernVars, opMm, opSlot, exitVars, histVars>>

AddPublish(c) ==
  /\ pc[c] = "publish" /\ opSlot[c] \notin cancel
  /\ LET s == opSlot[c] IN
       /\ mm' = [mm EXCEPT ![s] = opMm[c]]
       /\ claiming' = [claiming EXCEPT ![s] = NoMM]
  /\ ac_prot_count' = ac_prot_count + 1
  /\ acked' = acked \cup {opMm[c]}
  /\ Leave(c)
  /\ UNCHANGED <<removing, cancel, kernVars, exitVars, exitEv, delSince>>

-----------------------------------------------------------------------------
(* ac_del_prot_mm().                                                       *)
LiveEntry(s, m) == mm[s] = m /\ s \notin removing
ClaimsForFirst(m) ==
  {s \in Slots : /\ mm[s] = RESERVED /\ claiming[s] = m
                 /\ \A t \in Slots : t < s => ~(mm[t] = RESERVED /\ claiming[t] = m)}
ClaimsFor(m) == {s \in Slots : mm[s] = RESERVED /\ claiming[s] = m}
(* History: every slot that stands for m when the delete scans the table.  *)
SlotsOf(m) == {s \in Slots : mm[s] = m \/ (mm[s] = RESERVED /\ claiming[s] = m)}

DelFound(c) ==
  /\ pc[c] = "pinned"
  /\ \E s \in Slots :
       /\ LiveEntry(s, opMm[c])
       /\ \A t \in Slots : t < s => ~LiveEntry(t, opMm[c])
       /\ PinSlot(s)
       /\ Enter(c, "unreg", opMm[c], s)
  /\ delSince' = delSince \cup SlotsOf(opMm[c])
  /\ acked' = acked \ {opMm[c]}
  /\ UNCHANGED <<mm, claiming, cancel, ac_prot_count, kernVars, exitVars, exitEv>>

DelCancel(c) ==
  /\ pc[c] = "pinned"
  /\ \A s \in Slots : ~LiveEntry(s, opMm[c])
  /\ cancel' = cancel \cup ClaimsFor(opMm[c])
  /\ delSince' = delSince \cup SlotsOf(opMm[c])
  /\ acked' = acked \ {opMm[c]}
  /\ Leave(c)
  /\ UNCHANGED <<mm, claiming, removing, ac_prot_count, kernVars, exitVars, exitEv>>

-----------------------------------------------------------------------------
(* ac_mmu_release(), the critical section.  In both cases the slot leaves  *)
(* it with .removing set: by the caller already, or to pin it until the    *)
(* release worker is done.                                                 *)
ReleaseMatchOrganic(s, m) == mm[s] = m /\ s \notin removing
ReleaseMatch(s, m) == mm[s] = m
Organic(s, m) == ReleaseMatch(s, m) /\ s \notin removing
ReleaseLocked(s, m) ==
  IF ReleaseMatch(s, m)
  THEN /\ mm' = [mm EXCEPT ![s] = NoMM]
       /\ PinSlot(s)
       /\ ac_prot_count' = ac_prot_count - 1
  ELSE UNCHANGED <<mm, removing, ac_prot_count>>

(* mmu_notifier_unregister(), shared by ac_del_prot_mm(), the cancelled    *)
(* branch of ac_add_prot_mm(), ac_prot_release_worker() and                *)
(* ac_clear_protected(): a notifier still on the list gets its release     *)
(* callback and is taken off.  All four set .removing first, so the        *)
(* callback is never organic here (UnregisterPinned); its event is kept so *)
(* that an unregister without .removing would show as a false exit.        *)
WorkerMayRun(a) == a \in Slots => phase # "gone"

Unregister(a) ==
  /\ pc[a] = "unreg" /\ WorkerMayRun(a)
  /\ LET s == opSlot[a] m == opMm[a] IN
       IF s \in hashed
       THEN /\ ReleaseLocked(s, m)
            /\ hashed' = hashed \ {s}
            /\ walked' = walked \ {s}
            /\ exitEv' = [exitEv EXCEPT ![m] = @ + IF Organic(s, m) THEN 1 ELSE 0]
       ELSE UNCHANGED <<mm, removing, ac_prot_count, hashed, walked, exitEv>>
  /\ Go(a, "sync")
  /\ UNCHANGED <<claiming, cancel, grab, life, pend, opMm, opSlot, exitVars,
                 delSince, acked>>

(* ... then waits in synchronize_srcu() for an exit walk that may still be *)
(* using the notifier, and drops the mm_count reference.                   *)
SyncDrop(a) ==
  /\ pc[a] = "sync" /\ WorkerMayRun(a)
  /\ life[opMm[a]] # "walk"
  /\ grab' = [grab EXCEPT ![opSlot[a]] = NoMM]
  /\ Go(a, "clear")
  /\ UNCHANGED <<slotVars, hashed, life, walked, pend, opMm, opSlot, exitVars,
                 histVars>>

(* The last critical section of each of the four: the slot is reusable.    *)
ClearRemovingForgotten(a) ==
  /\ pc[a] = "clear" /\ WorkerMayRun(a)
  /\ Leave(a)
  /\ next' = IF a = Unloader THEN next + 1 ELSE next
  /\ flushing' = flushing \ {a}
  /\ UNCHANGED <<slotVars, kernVars, phase, histVars>>
ClearRemoving(a) ==
  /\ pc[a] = "clear" /\ WorkerMayRun(a)
  /\ removing' = removing \ {opSlot[a]}
  /\ Leave(a)
  /\ next' = IF a = Unloader THEN next + 1 ELSE next
  /\ flushing' = flushing \ {a}
  /\ UNCHANGED <<mm, claiming, cancel, ac_prot_count, kernVars, phase, histVars>>

-----------------------------------------------------------------------------
(* The life of an address space (kernel).                                  *)
TaskExit(m) ==
  /\ life[m] = "live"
  /\ life' = [life EXCEPT ![m] = "orphan"]
  /\ UNCHANGED <<slotVars, hashed, grab, walked, pend, opVars, exitVars, histVars>>

(* The last mmput(): mm_users is zero, exit_mmap() starts.                 *)
ExitBegin(m) ==
  /\ life[m] = "orphan"
  /\ \A c \in Callers : opMm[c] # m
  /\ life' = [life EXCEPT ![m] = "walk"]
  /\ UNCHANGED <<slotVars, hashed, grab, walked, pend, opVars, exitVars, histVars>>

ListOf(m) == {s \in hashed : grab[s] = m}

(* The walk invokes ac_mmu_release() on one notifier of the list.          *)
ExitRelease(m) ==
  /\ life[m] = "walk" /\ pend[m] = 0
  /\ \E s \in ListOf(m) \ walked :
       /\ walked' = walked \cup {s}
       /\ ReleaseLocked(s, m)
       /\ pend' = [pend EXCEPT ![m] = IF Organic(s, m) THEN s ELSE 0]
  /\ UNCHANGED <<claiming, cancel, hashed, grab, life, opVars, exitVars, histVars>>

(* The unlocked tail of ac_mmu_release() for an organic exit: the event,   *)
(* then release_mm (the worker's opMm) and queue_work().                   *)
QueueRelease(m) ==
  /\ pend[m] # 0
  /\ exitEv' = [exitEv EXCEPT ![m] = @ + 1]
  /\ Enter(pend[m], "unreg", m, pend[m])
  /\ pend' = [pend EXCEPT ![m] = 0]
  /\ UNCHANGED <<slotVars, hashed, grab, life, walked, exitVars, delSince, acked>>

ExitDone(m) ==
  /\ life[m] = "walk" /\ pend[m] = 0
  /\ ListOf(m) \subseteq walked
  /\ hashed' = hashed \ ListOf(m)
  /\ walked' = walked \ ListOf(m)
  /\ life' = [life EXCEPT ![m] = "dead"]
  /\ UNCHANGED <<slotVars, grab, pend, opVars, exitVars, histVars>>

(* The mm_struct is freed once mm_count is zero, and its address reused.   *)
Reborn(m) ==
  /\ life[m] = "dead"
  /\ \A s \in Slots : grab[s] # m
  /\ life' = [life EXCEPT ![m] = "live"]
  /\ exitEv' = [exitEv EXCEPT ![m] = 0]
  /\ acked' = acked \ {m}
  /\ UNCHANGED <<slotVars, hashed, grab, walked, pend, opVars, exitVars, delSince>>

-----------------------------------------------------------------------------
(* ac_exit(): nothing can pin an mm any more (the device and the probes    *)
(* are gone); flush the requests and release work in flight,               *)
(* ac_clear_protected(), flush, destroy.                                   *)
Busy == {s \in Slots : pc[s] # "idle"}

UnloadBegin ==
  /\ Unloadable /\ phase = "loaded"
  /\ phase' = "flush1" /\ flushing' = Busy
  /\ UNCHANGED <<slotVars, kernVars, opVars, next, histVars>>

FlushDoneEarly ==
  /\ flushing = {}
  /\ \/ phase = "flush1" /\ phase' = "clear"
     \/ phase = "flush2" /\ phase' = "gone"
  /\ UNCHANGED <<slotVars, kernVars, opVars, next, flushing, histVars>>
FlushDone ==
  /\ flushing = {}
  /\ \/ phase = "flush1" /\ phase' = "clear" /\ \A c \in Callers : pc[c] = "idle"
     \/ phase = "flush2" /\ phase' = "gone"
  /\ UNCHANGED <<slotVars, kernVars, opVars, next, flushing, histVars>>

ClearStep ==
  /\ phase = "clear" /\ pc[Unloader] = "idle" /\ next \in Slots
  /\ IF Published(next) /\ next \notin removing
     THEN /\ PinSlot(next)
          /\ Enter(Unloader, "unreg", mm[next], next)
          /\ next' = next
     ELSE /\ next' = next + 1
          /\ UNCHANGED <<removing, opVars>>
  /\ UNCHANGED <<mm, claiming, cancel, ac_prot_count, kernVars, phase, flushing,
                 histVars>>

ClearDone ==
  /\ phase = "clear" /\ pc[Unloader] = "idle" /\ next \notin Slots
  /\ phase' = "flush2" /\ flushing' = Busy
  /\ UNCHANGED <<slotVars, kernVars, opVars, next, histVars>>

-----------------------------------------------------------------------------
CallerStep(c) ==
  \/ \E m \in MMs : Pin(c, m)
  \/ AddDedupe(c) \/ AddFull(c) \/ AddClaim(c) \/ DelFound(c) \/ DelCancel(c)
  \/ Register(c) \/ RegisterFail(c)
  \/ AddFailed(c) \/ AddCancelled(c) \/ AddPublish(c)

UnregStep(a) == Unregister(a) \/ SyncDrop(a) \/ ClearRemoving(a)

KernelStep(m) ==
  \/ TaskExit(m) \/ ExitBegin(m) \/ ExitRelease(m) \/ QueueRelease(m)
  \/ ExitDone(m) \/ Reborn(m)

UnloadStep == UnloadBegin \/ FlushDone \/ ClearStep \/ ClearDone

Next ==
  \/ \E c \in Callers : CallerStep(c)
  \/ \E a \in Actors : UnregStep(a)
  \/ \E m \in MMs : KernelStep(m)
  \/ UnloadStep

Spec == Init /\ [][Next]_vars

(* The kernel runs every thread that can run, the workqueue every item     *)
(* queued on it, and a task's exit to its end.  Nothing makes a task exit, *)
(* an address be reused or the module be removed.                          *)
Fairness ==
  /\ \A c \in Callers : WF_vars(Register(c) \/ RegisterFail(c) \/ AddFailed(c)
                                  \/ AddCancelled(c) \/ AddPublish(c))
  /\ \A c \in Callers : WF_vars(AddDedupe(c) \/ AddFull(c) \/ AddClaim(c)
                                  \/ DelFound(c) \/ DelCancel(c))
  /\ \A a \in Actors : WF_vars(UnregStep(a))
  /\ \A m \in MMs : WF_vars(ExitBegin(m)) /\ WF_vars(ExitRelease(m) \/ QueueRelease(m))
                      /\ WF_vars(ExitDone(m))

FairSpec == Spec /\ Fairness

-----------------------------------------------------------------------------
(* Properties.                                                             *)

InFlight(a) == pc[a] \notin {"idle", "pinned"}

(* Every variable of the model has its type.                               *)
TypeOK ==
  /\ mm \in [Slots -> MMs \cup {NoMM, RESERVED}]
  /\ claiming \in [Slots -> MMs \cup {NoMM}]
  /\ removing \subseteq Slots /\ cancel \subseteq Slots
  /\ ac_prot_count \in Nat
  /\ hashed \subseteq Slots
  /\ grab \in [Slots -> MMs \cup {NoMM}]
  /\ life \in [MMs -> {"live", "orphan", "walk", "dead"}]
  /\ walked \subseteq Slots
  /\ pend \in [MMs -> Slots \cup {0}]
  /\ pc \in [Actors -> {"idle", "pinned", "register", "publish", "failed",
                         "unreg", "sync", "clear"}]
  /\ opMm \in [Actors -> MMs \cup {NoMM}]
  /\ opSlot \in [Actors -> Slots \cup {0}]
  /\ phase \in {"loaded", "flush1", "clear", "flush2", "gone"}
  /\ next \in Nat
  /\ flushing \subseteq Slots
  /\ exitEv \in [MMs -> Nat]
  /\ delSince \subseteq Slots
  /\ acked \subseteq MMs

Entries == {s \in Slots : Published(s)}

(* ac_prot_count, reported by AC_IOCTL_STATUS, is the number of entries in *)
(* the table, although it is incremented by the add and decremented by a   *)
(* callback that other threads cause.                                      *)
CountExact == ac_prot_count = Cardinality(Entries)

(* However adds, deletes, failures and exits interleave, an address space  *)
(* has at most one registration that is or is about to become permanent.   *)
OneLivePerMm ==
  \A m \in MMs : \A s, t \in Slots : Covers(s, m) /\ Covers(t, m) => s = t

(* A slot is worked on by one thread at a time: nobody registers, cancels  *)
(* or unregisters a notifier another thread is still unregistering.        *)
SlotExclusive ==
  /\ \A a, b \in Actors : InFlight(a) /\ InFlight(b) /\ opSlot[a] = opSlot[b] => a = b
  /\ \A m \in MMs : pend[m] # 0 => \A a \in Actors : InFlight(a) => opSlot[a] # pend[m]

(* mmu_notifier_unregister() is only entered with .removing set on a       *)
(* notifier registered for that very mm and not yet dropped (the kernel's  *)
(* BUG_ON on mm_count), and register() only on a notifier not in use.      *)
UnregisterPinned ==
  \A a \in Actors :
    /\ pc[a] \in {"unreg", "sync"} => grab[opSlot[a]] = opMm[a] /\ opSlot[a] \in removing
    /\ pc[a] = "register" => grab[opSlot[a]] = NoMM /\ opSlot[a] \notin hashed

(* Every mm_count reference a successful register() took is owned by an    *)
(* entry, by a thread that will drop it, or by a release about to be       *)
(* queued: none is leaked.                                                 *)
ReferencesOwned ==
  \A s \in Slots : grab[s] # NoMM =>
    \/ mm[s] = grab[s] /\ s \notin removing
    \/ \E a \in Actors : pc[a] \in {"publish", "unreg", "sync"} /\ opSlot[a] = s
    \/ \E m \in MMs : pend[m] = s

(* An entry never outlives its address space, so a new process that gets a *)
(* recycled mm_struct address is not taken for the old, protected one.     *)
NoStaleEntry ==
  \A s \in Slots : Published(s) =>
    /\ life[mm[s]] # "dead"
    /\ s \in hashed \ walked /\ grab[s] = mm[s]

(* A delete is not lost: after it scanned the table, no entry or claim     *)
(* that was made before the scan can stay or become permanent.             *)
NoLostDelete ==
  \A s \in delSince : \A m \in MMs : ~Covers(s, m)

(* The exit event is reported at most once for a life of an address space. *)
ExitOnce == \A m \in MMs : exitEv[m] <= 1

AckedCovered(m) ==
  m \in acked /\ life[m] \in {"live", "orphan"} => \E s \in Slots : Covers(s, m)

(* An add that returned 0 holds until a delete or the end of the task:     *)
(* while the module is loaded there is an entry, or a claim on its way.    *)
AckedProtected == phase = "loaded" => \A m \in MMs : AckedCovered(m)

(* The only step that can take away what an add reported is the one of     *)
(* another thread giving up its claim after mmu_notifier_register() failed *)
(* (without such errors AckedProtected follows by induction).              *)
AckedUntilError ==
  [][phase' = "loaded" =>
       \A m \in MMs : AckedCovered(m) =>
         AckedCovered(m)' \/ \E c \in Callers : opMm[c] = m /\ AddFailed(c)]_vars

(* ac_clear_protected() leaves no entry and no claim behind: everything    *)
(* that could still make one was flushed before it.                        *)
UnloadEmpties == phase \in {"flush2", "gone"} => \A s \in Slots : mm[s] = NoMM

(* Once ac_exit() has destroyed the workqueue, nothing of the registry is  *)
(* left to run: no release work is queued and no callback is about to      *)
(* queue one.                                                              *)
UnloadDrained ==
  phase = "gone" =>
    /\ \A s \in Slots : pc[s] = "idle"
    /\ \A m \in MMs : pend[m] = 0

(* AC_EV_EXIT is emitted only for an address space that is really exiting, *)
(* never for a delete, a cancelled claim or the module's removal.          *)
ExitOnlyOrganic ==
  [][\A m \in MMs : exitEv'[m] > exitEv[m] => life[m] = "walk"]_vars

(* A slot leaves .removing only with its notifier off the list and its     *)
(* reference dropped.                                                      *)
FreedSlotsClean ==
  [][\A s \in removing \ removing' : grab'[s] = NoMM /\ s \notin hashed' /\ mm'[s] = NoMM]_vars

(* A pinned slot becomes reusable again: the table is never used up by     *)
(* exits and deletes.                                                      *)
SlotsComeBack == \A s \in Slots : s \in removing ~> s \notin removing

(* A process can always exit: no thread keeps its mm pinned for ever, and  *)
(* the threads that wait for its exit walk do not hold up that walk.       *)
ExitCompletes == \A m \in MMs : life[m] = "orphan" ~> life[m] = "dead"
=============================================================================
