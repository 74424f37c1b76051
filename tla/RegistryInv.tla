----------------------------- MODULE RegistryInv -----------------------------
(***************************************************************************)
(* The inductive invariant of Registry; the initial states have it, and    *)
(* the critical sections of ac_add_prot_mm() and ac_del_prot_mm(), the     *)
(* unregister that every removal ends with and the start of an exit keep   *)
(* it.  RegistryProofs has the other steps and the theorems.               *)
(***************************************************************************)
EXTENDS Registry, FiniteSetTheorems, TLAPS

(* Where each kind of thread can be, and what it holds there.              *)
ActorInv ==
  /\ \A c \in Callers :
       /\ pc[c] # "idle" => opMm[c] \in MMs /\ life[opMm[c]] \in {"live", "orphan"}
       /\ InFlight(c) => opSlot[c] \in Slots
  /\ \A s \in Slots :
       /\ pc[s] \in {"idle", "unreg", "sync", "clear"}
       /\ pc[s] # "idle" => opSlot[s] = s /\ opMm[s] \in MMs
  /\ pc[Unloader] \in {"idle", "unreg", "sync", "clear"}
  /\ pc[Unloader] # "idle" => opMm[Unloader] \in MMs /\ opSlot[Unloader] \in Slots

(* The slot a thread works on is in the state its progress implies.        *)
Claimed(s, m) == mm[s] = RESERVED /\ claiming[s] = m /\ s \notin removing
Stage(a) ==
  LET s == opSlot[a] m == opMm[a] IN
    /\ pc[a] \in {"register", "failed"} =>
         Claimed(s, m) /\ grab[s] = NoMM /\ s \notin hashed
    /\ pc[a] = "publish" =>
         Claimed(s, m) /\ grab[s] = m /\ s \in hashed \ walked
    /\ pc[a] = "unreg" =>
         s \in removing /\ grab[s] = m /\ mm[s] \in {NoMM, m}
    /\ pc[a] = "sync" =>
         s \in removing /\ grab[s] = m /\ mm[s] = NoMM /\ s \notin hashed
    /\ pc[a] = "clear" =>
         s \in removing /\ grab[s] = NoMM /\ mm[s] = NoMM /\ s \notin hashed
StageInv == \A a \in Actors : Stage(a)

(* A release callback between its critical section and queue_work() owns   *)
(* its slot.                                                               *)
PendInv ==
  \A m \in MMs : pend[m] # 0 =>
    life[m] = "walk" /\ pend[m] \in removing /\ grab[pend[m]] = m /\ mm[pend[m]] = NoMM

(* A slot that is not free and not a settled entry has an owner.           *)
OwnerInv ==
  /\ \A s \in Slots : mm[s] = RESERVED =>
       \E c \in Callers : pc[c] \in {"register", "failed", "publish"} /\ opSlot[c] = s
  /\ \A s \in removing :
       \/ \E a \in Actors : pc[a] \in {"unreg", "sync", "clear"} /\ opSlot[a] = s
       \/ \E m \in MMs : pend[m] = s

(* The kernel's view of a slot's notifier agrees with the table.           *)
NotifierInv ==
  /\ \A s \in Slots : FreeSlot(s) => grab[s] = NoMM
  /\ \A s \in Slots : Published(s) => grab[s] = mm[s] /\ s \in hashed \ walked
  /\ walked \subseteq hashed
  /\ \A s \in hashed : grab[s] \in MMs /\ life[grab[s]] # "dead"

(* An exit was reported only for an mm that has no entry any more.         *)
ExitInv ==
  \A m \in MMs :
    /\ life[m] \in {"live", "orphan"} => exitEv[m] = 0
    /\ exitEv[m] <= 1
    /\ pend[m] # 0 => exitEv[m] = 0
    /\ exitEv[m] = 1 \/ pend[m] # 0 => \A s \in Slots : ~LiveEntry(s, m)

IInv == TypeOK /\ ActorInv /\ StageInv /\ SlotExclusive /\ PendInv /\ OwnerInv
        /\ NotifierInv /\ ExitInv /\ OneLivePerMm /\ NoLostDelete /\ CountExact

(* The bookkeeping of the actions; every leaf may look through it.         *)
USE NamesAssumption
    DEF slotVars, kernVars, opVars, exitVars, histVars, Enter, Leave, Go, Actors,
        InFlight, Claimed, PinSlot, Stage

(* The number of entries is that of a finite set; it follows the table one *)
(* entry at a time.                                                        *)
LEMMA EntriesFinite == IsFiniteSet(Entries)
<1>1. IsFiniteSet(Slots)
  BY MaxAssumption, FS_Interval DEF Slots
<1>. QED BY <1>1, FS_Subset, Zenon DEF Entries

(* No entry appears or disappears.                                         *)
LEMMA CountSame ==
  ASSUME CountExact, ac_prot_count' = ac_prot_count, Entries' = Entries
  PROVE  CountExact'
BY Zenon DEF CountExact

(* AddPublish makes one entry.                                             *)
LEMMA CountAdd ==
  ASSUME CountExact, NEW s \in Slots, s \notin Entries, Entries' = Entries \cup {s},
         ac_prot_count' = ac_prot_count + 1
  PROVE  CountExact'
BY EntriesFinite, FS_AddElement, Zenon DEF CountExact

(* ac_mmu_release() clears one entry.                                      *)
LEMMA CountRemove ==
  ASSUME CountExact, NEW s \in Entries, Entries' = Entries \ {s},
         ac_prot_count' = ac_prot_count - 1
  PROVE  CountExact'
BY EntriesFinite, FS_RemoveElement, Zenon DEF CountExact

(* An exact count is not negative.                                         *)
LEMMA CountNat == ASSUME CountExact' PROVE ac_prot_count' \in Nat
<1>1. IsFiniteSet(Slots)
  BY MaxAssumption, FS_Interval DEF Slots
<1>2. IsFiniteSet(Entries')
  BY <1>1, FS_Subset, Zenon DEF Entries
<1>. QED BY <1>2, FS_CardinalityType, Zenon DEF CountExact

(* An empty table has the invariant.                                       *)
LEMMA InitIInv == Init => IInv
<1>. SUFFICES ASSUME Init PROVE IInv
  OBVIOUS
<1>1. TypeOK /\ ActorInv /\ StageInv /\ SlotExclusive /\ PendInv /\ OwnerInv
  BY Zenon DEF Init, TypeOK, ActorInv, StageInv, SlotExclusive, PendInv, OwnerInv
<1>2. NotifierInv /\ ExitInv /\ OneLivePerMm /\ NoLostDelete
  BY DEF Init, NotifierInv, Published, ExitInv, OneLivePerMm, Covers,
         NoLostDelete
<1>3. CountExact
  <2>1. Entries = {}
    BY Zenon DEF Init, Entries, Published
  <2>. QED BY <2>1, FS_EmptySet, Zenon DEF Init, CountExact
<1>. QED BY <1>1, <1>2, <1>3, Zenon DEF IInv

-----------------------------------------------------------------------------
(* One lemma for each action; below it, one step for each part of the      *)
(* invariant that the action can disturb and one for the others.           *)

(* Only the progress of ac_exit() or the record of adds changes.           *)
LEMMA FrameIInv ==
  ASSUME IInv, TypeOK', UNCHANGED <<slotVars, kernVars, opVars, exitEv, delSince>>
  PROVE  IInv'
<1>. /\ TypeOK /\ ActorInv /\ StageInv /\ SlotExclusive /\ PendInv /\ OwnerInv
     /\ NotifierInv /\ ExitInv /\ OneLivePerMm /\ NoLostDelete /\ CountExact
  BY Zenon DEF IInv
<1>1. ActorInv' /\ StageInv' /\ SlotExclusive' /\ PendInv' /\ OwnerInv'
      /\ NotifierInv' /\ ExitInv' /\ OneLivePerMm' /\ NoLostDelete'
      /\ CountExact'
  BY DEF ActorInv, StageInv, SlotExclusive, PendInv, OwnerInv, NotifierInv,
         ExitInv, OneLivePerMm, NoLostDelete, CountExact, FreeSlot, Published,
         LiveEntry, Covers, Entries
<1>. QED BY <1>1, Zenon DEF IInv

(* A caller pins m.                                                        *)
LEMMA PinIInv ==
  ASSUME IInv, NEW c \in Callers, NEW m \in MMs, Pin(c, m)
  PROVE  IInv'
<1>. /\ TypeOK /\ ActorInv /\ StageInv /\ SlotExclusive /\ PendInv /\ OwnerInv
     /\ NotifierInv /\ ExitInv /\ OneLivePerMm /\ NoLostDelete /\ CountExact
  BY Zenon DEF IInv
<1>1. TypeOK' /\ ActorInv'
  BY DEF Pin, TypeOK, ActorInv
<1>2. StageInv'
  BY DEF Pin, StageInv
<1>3. SlotExclusive'
  BY DEF Pin, SlotExclusive
<1>4. OwnerInv'
  BY DEF Pin, OwnerInv
<1>5. PendInv' /\ NotifierInv' /\ ExitInv' /\ OneLivePerMm' /\ NoLostDelete'
      /\ CountExact'
  BY DEF Pin, PendInv, NotifierInv, ExitInv, OneLivePerMm, NoLostDelete,
         CountExact, FreeSlot, Published, LiveEntry, Covers, Entries
<1>. QED BY <1>1, <1>2, <1>3, <1>4, <1>5, Zenon DEF IInv

(* A call that changes nothing in the table returns.                       *)
LEMMA LeaveIInv ==
  ASSUME IInv, NEW c \in Callers, TypeOK', pc[c] = "pinned", Leave(c),
         UNCHANGED <<slotVars, kernVars, exitVars, exitEv, delSince>>
  PROVE  IInv'
<1>. /\ TypeOK /\ ActorInv /\ StageInv /\ SlotExclusive /\ PendInv /\ OwnerInv
     /\ NotifierInv /\ ExitInv /\ OneLivePerMm /\ NoLostDelete /\ CountExact
  BY Zenon DEF IInv
<1>1. ActorInv'
  BY SMTT(20) DEF TypeOK, ActorInv
<1>2. StageInv'
  BY Zenon DEF TypeOK, StageInv
<1>3. SlotExclusive'
  BY DEF TypeOK, ActorInv, StageInv, SlotExclusive
<1>4. OwnerInv'
  BY DEF TypeOK, OwnerInv
<1>5. PendInv' /\ NotifierInv' /\ ExitInv' /\ OneLivePerMm' /\ NoLostDelete'
      /\ CountExact'
  BY DEF PendInv, NotifierInv, ExitInv, OneLivePerMm,
         NoLostDelete, CountExact, FreeSlot, Published, LiveEntry, Covers,
         Entries
<1>. QED BY <1>1, <1>2, <1>3, <1>4, <1>5, Zenon DEF IInv

(* An add that finds the mm covered, or no free slot.                      *)
LEMMA AddLeavesIInv ==
  ASSUME IInv, NEW c \in Callers, AddDedupe(c) \/ AddFull(c)
  PROVE  IInv'
<1>. TypeOK /\ ActorInv
  BY Zenon DEF IInv
<1>1. CASE AddDedupe(c)
  <2>1. TypeOK'
    BY <1>1 DEF AddDedupe, TypeOK, ActorInv
  <2>2. /\ pc[c] = "pinned" /\ Leave(c)
        /\ UNCHANGED <<slotVars, kernVars, exitVars, exitEv, delSince>>
    BY <1>1, Zenon DEF AddDedupe
  <2>. QED BY <2>1, <2>2, LeaveIInv, Zenon
<1>2. CASE AddFull(c)
  <2>1. TypeOK'
    BY <1>2, Zenon DEF AddFull, TypeOK, ActorInv
  <2>2. /\ pc[c] = "pinned" /\ Leave(c)
        /\ UNCHANGED <<slotVars, kernVars, exitVars, exitEv, delSince>>
    BY <1>2, Zenon DEF AddFull
  <2>. QED BY <2>1, <2>2, LeaveIInv, Zenon
<1>. QED BY <1>1, <1>2, Zenon

(* An add that claims a slot: no other thread works on a free slot.        *)
LEMMA ClaimIInv ==
  ASSUME IInv, NEW c \in Callers, AddClaim(c)
  PROVE  IInv'
<1>. /\ TypeOK /\ ActorInv /\ StageInv /\ SlotExclusive /\ PendInv /\ OwnerInv
     /\ NotifierInv /\ ExitInv /\ OneLivePerMm /\ NoLostDelete /\ CountExact
  BY Zenon DEF IInv
<1>1. TypeOK' /\ ActorInv'
  BY SMTT(20) DEF AddClaim, TypeOK, ActorInv
<1>2. StageInv'
  BY SMTT(20) DEF AddClaim, FreeSlot, TypeOK, StageInv, NotifierInv
<1>3. SlotExclusive'
  BY DEF AddClaim, FreeSlot, TypeOK, StageInv, PendInv, SlotExclusive
<1>4. PendInv'
  BY DEF AddClaim, FreeSlot, PendInv
<1>5. OwnerInv'
  BY DEF AddClaim, TypeOK, OwnerInv
<1>6. NotifierInv'
  BY DEF AddClaim, FreeSlot, NotifierInv, Published
<1>7. ExitInv'
  BY DEF AddClaim, ExitInv, LiveEntry
<1>8. OneLivePerMm'
  BY DEF AddClaim, TypeOK, OneLivePerMm, Covers
<1>9. NoLostDelete'
  BY DEF AddClaim, NoLostDelete, Covers
<1>10. CountExact'
  <2>1. Entries' = Entries /\ ac_prot_count' = ac_prot_count
    BY DEF AddClaim, FreeSlot, Entries, Published
  <2>. QED BY <2>1, CountSame, Zenon
<1>. QED
  BY <1>1, <1>2, <1>3, <1>4, <1>5, <1>6, <1>7, <1>8, <1>9, <1>10, Zenon DEF IInv

(* The notifier of the claim goes on the list.                             *)
LEMMA RegisterIInv ==
  ASSUME IInv, NEW c \in Callers, Register(c)
  PROVE  IInv'
<1>. /\ TypeOK /\ ActorInv /\ StageInv /\ SlotExclusive /\ PendInv /\ OwnerInv
     /\ NotifierInv /\ ExitInv /\ OneLivePerMm /\ NoLostDelete /\ CountExact
  BY Zenon DEF IInv
<1>1. TypeOK' /\ ActorInv'
  BY SMTT(20) DEF Register, TypeOK, ActorInv
<1>2. StageInv'
  BY DEF Register, TypeOK, ActorInv, StageInv, SlotExclusive, NotifierInv
<1>3. SlotExclusive'
  BY DEF Register, SlotExclusive
<1>4. PendInv'
  BY DEF Register, StageInv, PendInv
<1>5. OwnerInv'
  BY DEF Register, OwnerInv
<1>6. NotifierInv'
  BY DEF Register, TypeOK, ActorInv, StageInv, NotifierInv, FreeSlot, Published
<1>7. ExitInv' /\ OneLivePerMm' /\ NoLostDelete' /\ CountExact'
  BY DEF Register, ExitInv, OneLivePerMm, NoLostDelete, CountExact, LiveEntry,
         Covers, Entries, Published
<1>. QED BY <1>1, <1>2, <1>3, <1>4, <1>5, <1>6, <1>7, Zenon DEF IInv

(* The registration fails.                                                 *)
LEMMA RegisterFailIInv ==
  ASSUME IInv, NEW c \in Callers, RegisterFail(c)
  PROVE  IInv'
<1>. /\ TypeOK /\ ActorInv /\ StageInv /\ SlotExclusive /\ PendInv /\ OwnerInv
     /\ NotifierInv /\ ExitInv /\ OneLivePerMm /\ NoLostDelete /\ CountExact
  BY Zenon DEF IInv
<1>1. TypeOK' /\ ActorInv'
  BY Zenon DEF RegisterFail, TypeOK, ActorInv
<1>2. StageInv'
  BY DEF RegisterFail, StageInv
<1>3. SlotExclusive'
  BY DEF RegisterFail, SlotExclusive
<1>4. OwnerInv'
  BY SMTT(20) DEF RegisterFail, OwnerInv
<1>5. PendInv' /\ NotifierInv' /\ ExitInv' /\ OneLivePerMm' /\ NoLostDelete'
      /\ CountExact'
  BY SMTT(20) DEF RegisterFail, PendInv, NotifierInv, ExitInv, OneLivePerMm,
         NoLostDelete, CountExact, FreeSlot, Published, LiveEntry, Covers,
         Entries
<1>. QED BY <1>1, <1>2, <1>3, <1>4, <1>5, Zenon DEF IInv

(* The claim is given up after the error.                                  *)
LEMMA FailedIInv ==
  ASSUME IInv, NEW c \in Callers, AddFailed(c)
  PROVE  IInv'
<1>. /\ TypeOK /\ ActorInv /\ StageInv /\ SlotExclusive /\ PendInv /\ OwnerInv
     /\ NotifierInv /\ ExitInv /\ OneLivePerMm /\ NoLostDelete /\ CountExact
  BY Zenon DEF IInv
<1>1. TypeOK' /\ ActorInv'
  BY SMTT(20) DEF AddFailed, TypeOK, ActorInv
<1>2. StageInv'
  BY SMTT(20) DEF AddFailed, TypeOK, StageInv, SlotExclusive
<1>3. SlotExclusive'
  BY Zenon DEF AddFailed, TypeOK, SlotExclusive
<1>4. PendInv'
  BY DEF AddFailed, PendInv
<1>5. OwnerInv'
  BY DEF AddFailed, TypeOK, OwnerInv
<1>6. NotifierInv'
  BY DEF AddFailed, StageInv, NotifierInv, FreeSlot, Published
<1>7. ExitInv'
  BY DEF AddFailed, ExitInv, LiveEntry
<1>8. OneLivePerMm'
  BY DEF AddFailed, TypeOK, OneLivePerMm, Covers
<1>9. NoLostDelete'
  BY DEF AddFailed, TypeOK, NoLostDelete, Covers
<1>10. CountExact'
  <2>1. Entries' = Entries /\ ac_prot_count' = ac_prot_count
    BY SMTT(20) DEF AddFailed, StageInv, Entries, Published
  <2>. QED BY <2>1, CountSame, Zenon
<1>. QED
  BY <1>1, <1>2, <1>3, <1>4, <1>5, <1>6, <1>7, <1>8, <1>9, <1>10, Zenon DEF IInv

(* The claim was cancelled: the slot stays pinned for the unregister.      *)
LEMMA CancelledIInv ==
  ASSUME IInv, NEW c \in Callers, AddCancelled(c)
  PROVE  IInv'
<1>. /\ TypeOK /\ ActorInv /\ StageInv /\ SlotExclusive /\ PendInv /\ OwnerInv
     /\ NotifierInv /\ ExitInv /\ OneLivePerMm /\ NoLostDelete /\ CountExact
  BY Zenon DEF IInv
<1>1. TypeOK' /\ ActorInv'
  BY SMTT(20) DEF AddCancelled, TypeOK, ActorInv
<1>2. StageInv'
  BY SMTT(20) DEF AddCancelled, TypeOK, StageInv, SlotExclusive
<1>3. SlotExclusive'
  BY DEF AddCancelled, SlotExclusive
<1>4. PendInv'
  BY DEF AddCancelled, PendInv
<1>5. OwnerInv'
  BY DEF AddCancelled, TypeOK, OwnerInv
<1>6. NotifierInv'
  BY DEF AddCancelled, NotifierInv, FreeSlot, Published
<1>7. ExitInv'
  BY DEF AddCancelled, ExitInv, LiveEntry
<1>8. OneLivePerMm'
  BY DEF AddCancelled, TypeOK, OneLivePerMm, Covers
<1>9. NoLostDelete'
  BY Zenon DEF AddCancelled, TypeOK, NoLostDelete, Covers
<1>10. CountExact'
  <2>1. Entries' = Entries /\ ac_prot_count' = ac_prot_count
    BY SMTT(20) DEF AddCancelled, StageInv, Entries, Published
  <2>. QED BY <2>1, CountSame, Zenon
<1>. QED
  BY <1>1, <1>2, <1>3, <1>4, <1>5, <1>6, <1>7, <1>8, <1>9, <1>10, Zenon DEF IInv

(* The claim becomes an entry.                                             *)
LEMMA PublishIInv ==
  ASSUME IInv, NEW c \in Callers, AddPublish(c)
  PROVE  IInv'
<1>. /\ TypeOK /\ ActorInv /\ StageInv /\ SlotExclusive /\ PendInv /\ OwnerInv
     /\ NotifierInv /\ ExitInv /\ OneLivePerMm /\ NoLostDelete /\ CountExact
  BY Zenon DEF IInv
<1>1. TypeOK' /\ ActorInv'
  BY SMTT(20) DEF AddPublish, TypeOK, ActorInv
<1>2. StageInv'
  BY DEF AddPublish, TypeOK, StageInv, SlotExclusive
<1>3. SlotExclusive'
  BY Zenon DEF AddPublish, TypeOK, SlotExclusive
<1>4. PendInv'
  <2>1. opSlot[c] \notin removing
    BY DEF AddPublish, StageInv
  <2>2. UNCHANGED <<pend, life, removing, grab>> /\ mm' = [mm EXCEPT ![opSlot[c]] = opMm[c]]
    BY Zenon DEF AddPublish
  <2>. QED BY <2>1, <2>2 DEF PendInv
<1>5. OwnerInv'
  BY DEF AddPublish, TypeOK, OwnerInv
<1>6. NotifierInv'
  BY DEF AddPublish, StageInv, NotifierInv, FreeSlot, Published
<1>7. ExitInv'
  BY DEF AddPublish, ActorInv, PendInv, ExitInv, LiveEntry
<1>8. OneLivePerMm'
  BY DEF AddPublish, StageInv, OneLivePerMm, Covers
<1>9. NoLostDelete'
  BY DEF AddPublish, StageInv, NoLostDelete, Covers
<1>10. CountExact'
  <2>1. /\ opSlot[c] \in Slots \ Entries
        /\ Entries' = Entries \cup {opSlot[c]} /\ ac_prot_count' = ac_prot_count + 1
    BY DEF AddPublish, TypeOK, ActorInv, StageInv, Entries, Published
  <2>. QED BY <2>1, CountAdd, Zenon
<1>. QED
  BY <1>1, <1>2, <1>3, <1>4, <1>5, <1>6, <1>7, <1>8, <1>9, <1>10, Zenon DEF IInv

-----------------------------------------------------------------------------
(* A thread's progress changes for that thread only.                       *)
LEMMA GoAt ==
  ASSUME TypeOK, NEW a \in Actors, NEW l, pc' = [pc EXCEPT ![a] = l]
  PROVE  pc'[a] = l /\ \A b \in Actors \ {a} : pc'[b] = pc[b]
<1>1. pc = [b \in Actors |-> pc[b]]
  BY Zenon DEF TypeOK
<1>. QED BY <1>1

(* The same when it takes up or gives up a slot.                           *)
LEMMA EnterAt ==
  ASSUME TypeOK, NEW a \in Actors, NEW l, NEW m, NEW s, Enter(a, l, m, s)
  PROVE  /\ pc'[a] = l /\ opMm'[a] = m /\ opSlot'[a] = s
         /\ \A b \in Actors \ {a} :
              pc'[b] = pc[b] /\ opMm'[b] = opMm[b] /\ opSlot'[b] = opSlot[b]
<1>1. /\ pc = [b \in Actors |-> pc[b]] /\ opMm = [b \in Actors |-> opMm[b]]
      /\ opSlot = [b \in Actors |-> opSlot[b]]
  BY Zenon DEF TypeOK
<1>. QED BY <1>1

(* A delete that finds the entry.                                          *)
LEMMA DelFoundIInv ==
  ASSUME IInv, NEW c \in Callers, DelFound(c)
  PROVE  IInv'
<1>. /\ TypeOK /\ ActorInv /\ StageInv /\ SlotExclusive /\ PendInv /\ OwnerInv
     /\ NotifierInv /\ ExitInv /\ OneLivePerMm /\ NoLostDelete /\ CountExact
  BY Zenon DEF IInv
<1>1. TypeOK' /\ ActorInv'
  BY SMTT(20) DEF DelFound, SlotsOf, TypeOK, ActorInv
<1>2. StageInv'
  <2>1. PICK s \in Slots : LiveEntry(s, opMm[c]) /\ PinSlot(s) /\ Enter(c, "unreg", opMm[c], s)
    BY Zenon DEF DelFound
  <2>2. mm[s] = opMm[c] /\ s \notin removing /\ opMm[c] \in MMs
    BY <2>1 DEF LiveEntry, DelFound, ActorInv
  <2>3. grab[s] = opMm[c]
    BY <2>2, Zenon DEF NotifierInv, Published
  <2>4. UNCHANGED <<mm, claiming, grab, hashed, walked>>
    BY Zenon DEF DelFound
  <2>5. /\ pc'[c] = "unreg" /\ opMm'[c] = opMm[c] /\ opSlot'[c] = s
        /\ \A b \in Actors \ {c} :
             pc'[b] = pc[b] /\ opMm'[b] = opMm[b] /\ opSlot'[b] = opSlot[b]
    BY <2>1, EnterAt, Zenon
  <2>6. removing' = removing \cup {s}
    BY SMTT(20), <2>1
  <2>. QED BY <2>2, <2>3, <2>4, <2>5, <2>6 DEF StageInv
<1>3. SlotExclusive'
  BY DEF DelFound, LiveEntry, TypeOK, StageInv, PendInv, SlotExclusive
<1>4. PendInv'
  BY Zenon DEF DelFound, PendInv
<1>5. OwnerInv'
  BY DEF DelFound, TypeOK, OwnerInv
<1>6. NotifierInv'
  BY Zenon DEF DelFound, NotifierInv, FreeSlot, Published
<1>7. ExitInv'
  BY Zenon DEF DelFound, LiveEntry, ExitInv
<1>8. OneLivePerMm'
  BY Zenon DEF DelFound, OneLivePerMm, Covers
<1>9. NoLostDelete'
  BY DEF DelFound, LiveEntry, SlotsOf, TypeOK, ActorInv, OneLivePerMm,
         NoLostDelete, Covers
<1>10. CountExact'
  BY Zenon DEF DelFound, CountExact, Entries, Published
<1>. QED
  BY <1>1, <1>2, <1>3, <1>4, <1>5, <1>6, <1>7, <1>8, <1>9, <1>10, Zenon DEF IInv

(* A delete that finds claims in flight, or nothing.                       *)
LEMMA DelCancelIInv ==
  ASSUME IInv, NEW c \in Callers, DelCancel(c)
  PROVE  IInv'
<1>. /\ TypeOK /\ ActorInv /\ StageInv /\ SlotExclusive /\ PendInv /\ OwnerInv
     /\ NotifierInv /\ ExitInv /\ OneLivePerMm /\ NoLostDelete /\ CountExact
  BY Zenon DEF IInv
<1>1. TypeOK' /\ ActorInv'
  BY Zenon DEF DelCancel, SlotsOf, ClaimsFor, TypeOK, ActorInv
<1>2. StageInv'
  BY DEF DelCancel, StageInv
<1>3. SlotExclusive'
  BY DEF DelCancel, SlotExclusive
<1>4. OwnerInv'
  BY DEF DelCancel, OwnerInv
<1>5. OneLivePerMm'
  BY Zenon DEF DelCancel, OneLivePerMm, Covers
<1>6. NoLostDelete'
  BY DEF DelCancel, SlotsOf, ClaimsFor, ActorInv, NoLostDelete, Covers,
         LiveEntry
<1>7. PendInv' /\ NotifierInv' /\ ExitInv' /\ CountExact'
  BY Zenon DEF DelCancel, PendInv, NotifierInv, ExitInv, CountExact, FreeSlot,
         Published, LiveEntry, Entries
<1>. QED BY <1>1, <1>2, <1>3, <1>4, <1>5, <1>6, <1>7, Zenon DEF IInv

(* A thread in flight works on a slot, for an mm.                          *)
LEMMA InFlightAt ==
  ASSUME ActorInv, NEW a \in Actors, InFlight(a)
  PROVE  opSlot[a] \in Slots /\ opMm[a] \in MMs
<1>. pc[a] # "idle"
  BY Zenon
<1>1. CASE a \in Callers
  BY <1>1, Zenon DEF ActorInv
<1>2. CASE a \in Slots
  BY <1>2, Zenon DEF ActorInv
<1>3. CASE a = Unloader
  BY <1>3, Zenon DEF ActorInv
<1>. QED BY <1>1, <1>2, <1>3, Zenon

(* An unregister, with the release callback if the notifier is listed.     *)
LEMMA UnregisterIInv ==
  ASSUME IInv, NEW a \in Actors, Unregister(a)
  PROVE  IInv'
<1>. /\ TypeOK /\ ActorInv /\ StageInv /\ SlotExclusive /\ PendInv /\ OwnerInv
     /\ NotifierInv /\ ExitInv /\ OneLivePerMm /\ NoLostDelete /\ CountExact
  BY Zenon DEF IInv
<1>s. /\ opSlot[a] \in removing /\ grab[opSlot[a]] = opMm[a] /\ mm[opSlot[a]] \in {NoMM, opMm[a]}
      /\ opSlot[a] \in Slots /\ opMm[a] \in MMs
  <2>1. pc[a] = "unreg" /\ InFlight(a)
    BY Zenon DEF Unregister
  <2>2. Stage(a)
    BY Zenon DEF StageInv
  <2>3. opSlot[a] \in Slots /\ opMm[a] \in MMs
    BY <2>1, InFlightAt, Zenon
  <2>. QED BY <2>1, <2>2, <2>3, Zenon
<1>u. /\ UNCHANGED <<claiming, cancel, grab, life, pend, opMm, opSlot, phase, next, flushing,
                      delSince, acked>>
      /\ pc[a] = "unreg" /\ pc' = [pc EXCEPT ![a] = "sync"]
  BY Zenon DEF Unregister
<1>p. pc'[a] = "sync" /\ \A b \in Actors \ {a} : pc'[b] = pc[b]
  BY <1>u, GoAt, Zenon
<1>e. /\ mm' = [mm EXCEPT ![opSlot[a]] = NoMM] /\ UNCHANGED <<removing, exitEv>>
      /\ hashed' = hashed \ {opSlot[a]} /\ walked' = walked \ {opSlot[a]}
  <2>1. CASE opSlot[a] \in hashed
    <3>1. /\ ReleaseLocked(opSlot[a], opMm[a])
          /\ hashed' = hashed \ {opSlot[a]} /\ walked' = walked \ {opSlot[a]}
          /\ exitEv' = [exitEv EXCEPT ![opMm[a]] =
                                  @ + IF Organic(opSlot[a], opMm[a]) THEN 1 ELSE 0]
      BY <2>1, Zenon DEF Unregister
    <3>2. ~Organic(opSlot[a], opMm[a])
      BY <1>s, Zenon DEF Organic
    <3>3. exitEv' = exitEv
      BY <1>s, <3>1, <3>2 DEF TypeOK
    <3>4. mm' = [mm EXCEPT ![opSlot[a]] = NoMM] /\ removing' = removing
      <4>1. CASE mm[opSlot[a]] = opMm[a]
        BY SMTT(20), <1>s, <3>1, <4>1 DEF ReleaseLocked, ReleaseMatch
      <4>2. CASE mm[opSlot[a]] # opMm[a]
        <5>1. mm[opSlot[a]] = NoMM /\ UNCHANGED <<mm, removing>>
          BY <1>s, <3>1, <4>2 DEF ReleaseLocked, ReleaseMatch
        <5>. QED BY <5>1 DEF TypeOK
      <4>. QED BY <4>1, <4>2, Zenon
    <3>. QED BY <3>1, <3>3, <3>4, Zenon
  <2>2. CASE opSlot[a] \notin hashed
    <3>1. mm[opSlot[a]] = NoMM /\ opSlot[a] \notin walked
      BY <1>s, <2>2 DEF NotifierInv, Published
    <3>2. UNCHANGED <<mm, removing, hashed, walked, exitEv>>
      BY <2>2, Zenon DEF Unregister
    <3>. QED BY <2>2, <3>1, <3>2 DEF TypeOK
  <2>. QED BY <2>1, <2>2, Zenon
<1>1. CountExact'
  <2>1. CASE opSlot[a] \in hashed /\ mm[opSlot[a]] = opMm[a]
    <3>1. /\ opSlot[a] \in Entries /\ Entries' = Entries \ {opSlot[a]}
          /\ ac_prot_count' = ac_prot_count - 1
      BY <2>1 DEF Unregister, ReleaseLocked, ReleaseMatch, TypeOK, ActorInv,
             Entries, Published
    <3>. QED BY <3>1, CountRemove, Zenon
  <2>2. CASE ~(opSlot[a] \in hashed /\ mm[opSlot[a]] = opMm[a])
    <3>1. Entries' = Entries /\ ac_prot_count' = ac_prot_count
      BY <2>2, Zenon DEF Unregister, ReleaseLocked, ReleaseMatch, Entries, Published
    <3>. QED BY <3>1, CountSame, Zenon
  <2>. QED BY <2>1, <2>2, Zenon
<1>m. /\ mm'[opSlot[a]] = NoMM /\ \A t \in Slots \ {opSlot[a]} : mm'[t] = mm[t]
  <2>1. mm = [t \in Slots |-> mm[t]]
    BY Zenon DEF TypeOK
  <2>. QED BY <2>1, <1>e, <1>s
<1>2. TypeOK'
  <2>1. ac_prot_count' \in Nat
    BY <1>1, CountNat, Zenon
  <2>2. /\ mm' \in [Slots -> MMs \cup {NoMM, RESERVED}]
        /\ pc' \in [Actors -> {"idle", "pinned", "register", "publish", "failed",
                                "unreg", "sync", "clear"}]
    BY Zenon, <1>u, <1>e DEF TypeOK
  <2>3. hashed' \subseteq Slots /\ walked' \subseteq Slots
    BY <1>e, Zenon DEF TypeOK
  <2>. QED BY <2>1, <2>2, <2>3, <1>u, <1>e, Zenon DEF TypeOK
<1>3. StageInv'
  <2>. SUFFICES ASSUME NEW b \in Actors PROVE Stage(b)'
    BY Zenon DEF StageInv
  <2>0. Stage(b) /\ UNCHANGED <<claiming, removing, grab, opMm, opSlot>>
    BY <1>u, <1>e, Zenon DEF StageInv
  <2>1. CASE b = a
    BY <2>0, <2>1, <1>s, <1>e, <1>p, <1>m, Zenon
  <2>2. CASE b # a
    <3>1. pc'[b] = pc[b]
      BY <2>2, <1>p, Zenon
    <3>2. InFlight(b) => opSlot[b] \in Slots /\ opSlot[b] # opSlot[a]
      BY <2>2, <1>u, Zenon DEF ActorInv, SlotExclusive
    <3>3. InFlight(b) => mm'[opSlot[b]] = mm[opSlot[b]]
      BY <3>2, <1>m, Zenon
    <3>. QED BY <2>0, <3>1, <3>2, <3>3, <1>e, Zenon
  <2>. QED BY <2>1, <2>2, Zenon
<1>4. SlotExclusive'
  BY <1>u, <1>p DEF SlotExclusive
<1>5. PendInv'
  <2>1. removing \subseteq Slots
    BY Zenon DEF TypeOK
  <2>. QED BY <2>1, <1>u, <1>e, <1>m, Zenon DEF PendInv
<1>6. OwnerInv'
  <2>1. ASSUME NEW t \in Slots, mm'[t] = RESERVED
        PROVE  \E c \in Callers : pc'[c] \in {"register", "failed", "publish"} /\ opSlot'[c] = t
    <3>1. mm[t] = RESERVED
      BY <2>1, <1>m
    <3>2. PICK c \in Callers : pc[c] \in {"register", "failed", "publish"} /\ opSlot[c] = t
      BY <3>1, Zenon DEF OwnerInv
    <3>. QED BY <3>2, <1>u, <1>p
  <2>2. ASSUME NEW t \in removing'
        PROVE  \/ \E b \in Actors : pc'[b] \in {"unreg", "sync", "clear"} /\ opSlot'[b] = t
               \/ \E m \in MMs : pend'[m] = t
    <3>1. CASE \E b \in Actors : pc[b] \in {"unreg", "sync", "clear"} /\ opSlot[b] = t
      BY <3>1, <1>u, <1>p
    <3>2. CASE \E m \in MMs : pend[m] = t
      BY <3>2, <1>u, Zenon
    <3>. QED BY <2>2, <3>1, <3>2, <1>e, Zenon DEF OwnerInv
  <2>. QED BY <2>1, <2>2, Zenon DEF OwnerInv
<1>11. ActorInv'
  BY SMTT(20), <1>u, <1>p DEF ActorInv
<1>7. NotifierInv'
  BY SMTT(20), <1>s, <1>u, <1>e DEF TypeOK, NotifierInv, FreeSlot, Published
<1>8. ExitInv'
  BY SMTT(20), <1>s, <1>u, <1>e DEF TypeOK, ExitInv, LiveEntry
<1>9. OneLivePerMm'
  BY SMTT(20), <1>u, <1>e, <1>m DEF OneLivePerMm, Covers
<1>10. NoLostDelete'
  BY <1>u, <1>e, <1>m DEF NoLostDelete, Covers
<1>. QED
  BY <1>1, <1>2, <1>3, <1>4, <1>5, <1>6, <1>7, <1>8, <1>9, <1>10, <1>11, Zenon DEF IInv

(* The reference on the mm is dropped.                                     *)
LEMMA SyncDropIInv ==
  ASSUME IInv, NEW a \in Actors, SyncDrop(a)
  PROVE  IInv'
<1>. /\ TypeOK /\ ActorInv /\ StageInv /\ SlotExclusive /\ PendInv /\ OwnerInv
     /\ NotifierInv /\ ExitInv /\ OneLivePerMm /\ NoLostDelete /\ CountExact
  BY Zenon DEF IInv
<1>1. TypeOK' /\ ActorInv'
  BY ZenonT(40) DEF SyncDrop, TypeOK, ActorInv
<1>2. StageInv'
  <2>1. /\ pc[a] = "sync" /\ pc' = [pc EXCEPT ![a] = "clear"]
        /\ grab' = [grab EXCEPT ![opSlot[a]] = NoMM]
        /\ UNCHANGED <<mm, claiming, removing, hashed, walked, opMm, opSlot>>
    BY Zenon DEF SyncDrop
  <2>2. /\ pc'[a] = "clear" /\ opSlot[a] \in Slots /\ Stage(a)
        /\ \A b \in Actors \ {a} : pc'[b] = pc[b]
    <3>1. InFlight(a)
      BY <2>1, Zenon
    <3>2. opSlot[a] \in Slots
      BY <3>1, InFlightAt, Zenon
    <3>3. Stage(a)
      BY Zenon DEF StageInv
    <3>4. pc'[a] = "clear" /\ \A b \in Actors \ {a} : pc'[b] = pc[b]
      BY <2>1, GoAt, Zenon
    <3>. QED BY <3>2, <3>3, <3>4, Zenon
  <2>3. /\ grab'[opSlot[a]] = NoMM
        /\ \A t \in Slots \ {opSlot[a]} : grab'[t] = grab[t]
    BY <2>1, <2>2, ZenonT(40) DEF TypeOK
  <2>4. Stage(a)'
    BY <2>1, <2>2, <2>3, ZenonT(40)
  <2>5. ASSUME NEW b \in Actors \ {a}, InFlight(b)
        PROVE  opSlot[b] \in Slots \ {opSlot[a]}
    <3>1. opSlot[b] \in Slots
      BY <2>5, InFlightAt, Zenon
    <3>. QED BY <2>1, <2>5, <3>1, Zenon DEF SlotExclusive
  <2>6. ASSUME NEW b \in Actors \ {a} PROVE Stage(b)'
    <3>1. Stage(b) /\ pc'[b] = pc[b]
      BY <2>2, Zenon DEF StageInv
    <3>. QED BY <2>1, <2>3, <2>5, <3>1, ZenonT(40)
  <2>. QED BY <2>4, <2>6, Zenon DEF StageInv
<1>3. SlotExclusive'
  <2>1. UNCHANGED <<pend, opSlot>> /\ pc[a] = "sync" /\ pc' = [pc EXCEPT ![a] = "clear"]
    BY Zenon DEF SyncDrop
  <2>. QED BY <2>1 DEF SlotExclusive
<1>4. PendInv'
  <2>1. /\ UNCHANGED <<life, pend, removing, mm>> /\ grab' = [grab EXCEPT ![opSlot[a]] = NoMM]
        /\ pc[a] = "sync" /\ life[opMm[a]] # "walk"
    BY Zenon DEF SyncDrop
  <2>2. grab[opSlot[a]] = opMm[a]
    BY <2>1, Zenon DEF StageInv
  <2>3. \A t \in Slots \ {opSlot[a]} : grab'[t] = grab[t]
    BY <2>1, Zenon DEF TypeOK
  <2>4. removing \subseteq Slots
    BY Zenon DEF TypeOK
  <2>5. ASSUME NEW n \in MMs, pend[n] # 0 PROVE grab'[pend[n]] = n
    <3>1. life[n] = "walk" /\ pend[n] \in Slots /\ grab[pend[n]] = n
      BY <2>4, <2>5, Zenon DEF PendInv
    <3>2. pend[n] # opSlot[a]
      BY <3>1, <2>1, <2>2, Zenon
    <3>. QED BY <3>1, <3>2, <2>3, Zenon
  <2>. QED BY <2>1, <2>5 DEF PendInv
<1>5. OwnerInv'
  BY SMTT(20) DEF SyncDrop, OwnerInv
<1>6. NotifierInv'
  BY DEF SyncDrop, StageInv, NotifierInv, FreeSlot, Published
<1>7. ExitInv' /\ OneLivePerMm' /\ NoLostDelete' /\ CountExact'
  BY ZenonT(40) DEF SyncDrop, ExitInv, OneLivePerMm, NoLostDelete, CountExact, LiveEntry,
         Covers, Entries, Published
<1>. QED BY <1>1, <1>2, <1>3, <1>4, <1>5, <1>6, <1>7, Zenon DEF IInv

(* The slot is given back.                                                 *)
LEMMA ClearIInv ==
  ASSUME IInv, NEW a \in Actors, ClearRemoving(a)
  PROVE  IInv'
<1>. /\ TypeOK /\ ActorInv /\ StageInv /\ SlotExclusive /\ PendInv /\ OwnerInv
     /\ NotifierInv /\ ExitInv /\ OneLivePerMm /\ NoLostDelete /\ CountExact
  BY Zenon DEF IInv
<1>1. TypeOK' /\ ActorInv'
  BY DEF ClearRemoving, TypeOK, ActorInv
<1>2. StageInv'
  BY ZenonT(40) DEF ClearRemoving, TypeOK, StageInv, SlotExclusive
<1>3. SlotExclusive'
  BY Zenon DEF ClearRemoving, TypeOK, SlotExclusive
<1>4. PendInv'
  <2>1. /\ UNCHANGED <<life, pend, grab, mm>> /\ removing' = removing \ {opSlot[a]}
        /\ pc[a] = "clear"
    BY Zenon DEF ClearRemoving
  <2>2. grab[opSlot[a]] = NoMM
    BY <2>1, Zenon DEF StageInv
  <2>. QED BY Zenon, <2>1, <2>2 DEF PendInv
<1>5. OwnerInv'
  <2>1. pc[a] = "clear" /\ removing' = removing \ {opSlot[a]} /\ UNCHANGED <<mm, pend>>
    BY Zenon DEF ClearRemoving
  <2>2. \A b \in Actors \ {a} : pc'[b] = pc[b] /\ opSlot'[b] = opSlot[b]
    BY Zenon DEF ClearRemoving, TypeOK
  <2>3. ASSUME NEW s \in Slots, mm'[s] = RESERVED
        PROVE  \E c \in Callers : pc'[c] \in {"register", "failed", "publish"} /\ opSlot'[c] = s
    <3>1. PICK c \in Callers : pc[c] \in {"register", "failed", "publish"} /\ opSlot[c] = s
      BY <2>1, <2>3, Zenon DEF OwnerInv
    <3>2. c # a /\ c \in Actors
      BY <2>1, <3>1, Zenon
    <3>. QED BY <2>2, <3>1, <3>2, Zenon
  <2>4. ASSUME NEW s \in removing'
        PROVE  \/ \E b \in Actors : pc'[b] \in {"unreg", "sync", "clear"} /\ opSlot'[b] = s
               \/ \E n \in MMs : pend'[n] = s
    <3>1. s \in removing /\ s # opSlot[a]
      BY <2>1, Zenon
    <3>2. ASSUME NEW b \in Actors, pc[b] \in {"unreg", "sync", "clear"}, opSlot[b] = s
          PROVE  pc'[b] \in {"unreg", "sync", "clear"} /\ opSlot'[b] = s
      <4>1. b # a
        BY <3>1, <3>2, Zenon
      <4>. QED BY <2>2, <3>2, <4>1, Zenon
    <3>3. \/ \E b \in Actors : pc[b] \in {"unreg", "sync", "clear"} /\ opSlot[b] = s
          \/ \E n \in MMs : pend[n] = s
      BY <3>1, Zenon DEF OwnerInv
    <3>. QED BY <2>1, <3>2, <3>3, Zenon
  <2>. QED BY <2>3, <2>4, Zenon DEF OwnerInv
<1>6. NotifierInv'
  BY ZenonT(40) DEF ClearRemoving, StageInv, NotifierInv, FreeSlot, Published
<1>7. ExitInv'
  BY DEF ClearRemoving, StageInv, ExitInv, LiveEntry
<1>8. OneLivePerMm'
  BY SMTT(20) DEF ClearRemoving, StageInv, OneLivePerMm, Covers
<1>9. NoLostDelete'
  BY DEF ClearRemoving, StageInv, NoLostDelete, Covers
<1>10. CountExact'
  BY Zenon DEF ClearRemoving, CountExact, Entries, Published
<1>. QED
  BY <1>1, <1>2, <1>3, <1>4, <1>5, <1>6, <1>7, <1>8, <1>9, <1>10, Zenon DEF IInv

(* The task of m exits.                                                    *)
LEMMA TaskExitIInv ==
  ASSUME IInv, NEW m \in MMs, TaskExit(m)
  PROVE  IInv'
<1>. /\ TypeOK /\ ActorInv /\ StageInv /\ SlotExclusive /\ PendInv /\ OwnerInv
     /\ NotifierInv /\ ExitInv /\ OneLivePerMm /\ NoLostDelete /\ CountExact
  BY Zenon DEF IInv
<1>1. TypeOK' /\ ActorInv'
  BY Zenon DEF TaskExit, TypeOK, ActorInv
<1>2. PendInv'
  BY DEF TaskExit, TypeOK, PendInv
<1>3. NotifierInv'
  BY Zenon DEF TaskExit, TypeOK, NotifierInv, FreeSlot, Published
<1>4. ExitInv'
  BY Zenon DEF TaskExit, TypeOK, ExitInv, LiveEntry
<1>0. UNCHANGED <<mm, claiming, removing, cancel, ac_prot_count, hashed, grab, walked, pend,
                  pc, opMm, opSlot, delSince>>
  BY Zenon DEF TaskExit
<1>5. StageInv' /\ SlotExclusive'
  BY Zenon, <1>0 DEF StageInv, SlotExclusive
<1>6. OwnerInv'
  BY Zenon, <1>0 DEF OwnerInv
<1>7. OneLivePerMm' /\ NoLostDelete' /\ CountExact'
  BY <1>0 DEF OneLivePerMm, NoLostDelete, CountExact, Covers, Entries, Published
<1>. QED BY <1>1, <1>2, <1>3, <1>4, <1>5, <1>6, <1>7, Zenon DEF IInv

(* The walk of the notifiers of m starts.                                  *)
LEMMA ExitBeginIInv ==
  ASSUME IInv, NEW m \in MMs, ExitBegin(m)
  PROVE  IInv'
<1>. /\ TypeOK /\ ActorInv /\ StageInv /\ SlotExclusive /\ PendInv /\ OwnerInv
     /\ NotifierInv /\ ExitInv /\ OneLivePerMm /\ NoLostDelete /\ CountExact
  BY Zenon DEF IInv
<1>1. TypeOK' /\ ActorInv'
  BY Zenon DEF ExitBegin, TypeOK, ActorInv
<1>2. PendInv'
  BY DEF ExitBegin, TypeOK, PendInv
<1>3. NotifierInv'
  BY Zenon DEF ExitBegin, TypeOK, NotifierInv, FreeSlot, Published
<1>4. ExitInv'
  BY Zenon DEF ExitBegin, TypeOK, ExitInv, LiveEntry
<1>0. UNCHANGED <<mm, claiming, removing, cancel, ac_prot_count, hashed, grab, walked, pend,
                  pc, opMm, opSlot, delSince>>
  BY ZenonT(40) DEF ExitBegin
<1>5. StageInv' /\ SlotExclusive'
  BY <1>0 DEF StageInv, SlotExclusive
<1>6. OwnerInv'
  BY Zenon, <1>0 DEF OwnerInv
<1>7. OneLivePerMm' /\ NoLostDelete' /\ CountExact'
  BY <1>0 DEF OneLivePerMm, NoLostDelete, CountExact, Covers, Entries, Published
<1>. QED BY <1>1, <1>2, <1>3, <1>4, <1>5, <1>6, <1>7, Zenon DEF IInv

=============================================================================
