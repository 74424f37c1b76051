--------------------------- MODULE RegistryProofs ---------------------------
(***************************************************************************)
(* Proofs about Registry for every number of slots, of address spaces and  *)
(* of callers, with and without registration errors and module removal.    *)
(***************************************************************************)
EXTENDS RegistryInv

(* The bookkeeping of the actions; every leaf may look through it.         *)
USE NamesAssumption
    DEF slotVars, kernVars, opVars, exitVars, histVars, Enter, Leave, Go, Actors,
        InFlight, Claimed, PinSlot, Stage

(* The walk calls ac_mmu_release().                                        *)
LEMMA ReleaseIInv ==
  ASSUME IInv, NEW m \in MMs, ExitRelease(m)
  PROVE  IInv'
<1>. /\ TypeOK /\ ActorInv /\ StageInv /\ SlotExclusive /\ PendInv /\ OwnerInv
     /\ NotifierInv /\ ExitInv /\ OneLivePerMm /\ NoLostDelete /\ CountExact
  BY Zenon DEF IInv
<1>1. CountExact'
  <2>. PICK s \in ListOf(m) \ walked : ReleaseLocked(s, m)
    BY Zenon DEF ExitRelease
  <2>1. CASE mm[s] = m
    <3>1. s \in Entries /\ Entries' = Entries \ {s} /\ ac_prot_count' = ac_prot_count - 1
      BY <2>1 DEF ListOf, ReleaseLocked, ReleaseMatch, TypeOK, Entries,
             Published
    <3>. QED BY <3>1, CountRemove, Zenon
  <2>2. CASE mm[s] # m
    <3>1. Entries' = Entries /\ ac_prot_count' = ac_prot_count
      BY <2>2, Zenon DEF ReleaseLocked, ReleaseMatch, Entries, Published
    <3>. QED BY <3>1, CountSame, Zenon
  <2>. QED BY <2>1, <2>2, Zenon
<1>r. PICK r \in ListOf(m) \ walked :
        /\ walked' = walked \cup {r} /\ ReleaseLocked(r, m)
        /\ pend' = [pend EXCEPT ![m] = IF Organic(r, m) THEN r ELSE 0]
  BY Zenon DEF ExitRelease
<1>f. /\ life[m] = "walk" /\ pend[m] = 0
      /\ UNCHANGED <<claiming, cancel, hashed, grab, life, pc, opMm, opSlot, phase, next,
                     flushing, exitEv, delSince, acked>>
  BY Zenon DEF ExitRelease
<1>g. r \in Slots /\ r \in hashed /\ r \notin walked /\ grab[r] = m
  BY <1>r, Zenon DEF ListOf, TypeOK
<1>h. \/ mm[r] = m /\ mm' = [mm EXCEPT ![r] = NoMM] /\ removing' = removing \cup {r}
      \/ mm[r] # m /\ mm' = mm /\ removing' = removing
  BY <1>r, Zenon DEF ReleaseLocked, ReleaseMatch
<1>m. /\ \A t \in Slots \ {r} : mm'[t] = mm[t] /\ (t \in removing' <=> t \in removing)
      /\ mm[r] = m => mm'[r] = NoMM /\ r \in removing'
      /\ mm[r] # m => mm'[r] = mm[r] /\ (r \in removing' <=> r \in removing)
  <2>1. mm = [t \in Slots |-> mm[t]]
    BY Zenon DEF TypeOK
  <2>. QED BY <2>1, <1>h, <1>g
<1>n. /\ \A n \in MMs \ {m} : pend'[n] = pend[n]
      /\ pend'[m] = IF mm[r] = m /\ r \notin removing THEN r ELSE 0
  <2>1. pend = [n \in MMs |-> pend[n]]
    BY Zenon DEF TypeOK
  <2>. QED BY <2>1, <1>r DEF Organic, ReleaseMatch
<1>z. 0 \notin Slots
  BY MaxAssumption DEF Slots
<1>2. TypeOK'
  <2>1. ac_prot_count' \in Nat
    BY <1>1, CountNat, Zenon
  <2>2. mm' \in [Slots -> MMs \cup {NoMM, RESERVED}] /\ removing' \subseteq Slots
    BY <1>g, <1>h DEF TypeOK
  <2>3. pend' \in [MMs -> Slots \cup {0}]
    BY <1>r, <1>g DEF TypeOK
  <2>4. walked' \subseteq Slots
    BY <1>r, <1>g, Zenon DEF TypeOK
  <2>. QED BY <2>1, <2>2, <2>3, <2>4, <1>f, Zenon DEF TypeOK
<1>a. \A c \in Actors : pc[c] = "publish" => opMm[c] # m
  BY <1>f DEF ActorInv
<1>3. StageInv'
  <2>0. ASSUME NEW c \in Actors, InFlight(c) PROVE opSlot[c] \in Slots
    BY <2>0, Zenon DEF ActorInv
  <2>1. \A c \in Actors : pc'[c] = pc[c] /\ opSlot'[c] = opSlot[c] /\ opMm'[c] = opMm[c]
    BY <1>f, Zenon
  <2>2. ASSUME NEW c \in Actors, pc[c] \in {"register", "failed", "publish"}
        PROVE  mm'[opSlot[c]] = RESERVED /\ opSlot[c] \notin removing'
    <3>1. opSlot[c] \in Slots /\ mm[opSlot[c]] = RESERVED /\ opSlot[c] \notin removing
      BY <2>0, <2>2, Zenon DEF StageInv
    <3>. QED BY <3>1, <1>m, Zenon
  <2>3. ASSUME NEW c \in Actors, pc[c] \in {"unreg", "sync", "clear"}
        PROVE  /\ opSlot[c] \in removing' /\ mm'[opSlot[c]] \in {NoMM, mm[opSlot[c]]}
    <3>1. opSlot[c] \in Slots /\ opSlot[c] \in removing
      BY <2>0, <2>3, Zenon DEF StageInv
    <3>. QED BY <3>1, <1>m, Zenon
  <2>4. ASSUME NEW c \in Actors, pc[c] = "publish" PROVE opSlot[c] \notin walked'
    <3>1. opSlot[c] \notin walked /\ opSlot[c] # r
      BY <1>a, <1>g, <2>4, Zenon DEF StageInv
    <3>. QED BY <1>r, <3>1, Zenon
  <2>. QED BY <2>1, <2>2, <2>3, <2>4, <1>f, ZenonT(40) DEF StageInv
<1>4. SlotExclusive'
  <2>1. ASSUME mm[r] = m, r \notin removing, NEW c \in Actors, InFlight(c) PROVE opSlot[c] # r
    <3>1. pc[c] \in {"register", "publish", "failed", "unreg", "sync", "clear"}
      BY <2>1 DEF TypeOK
    <3>. QED BY <3>1, <2>1, <1>a, <1>g DEF StageInv
  <2>. QED BY Zenon, <2>1, <1>f, <1>n DEF SlotExclusive
<1>5. PendInv'
  <2>1. removing \subseteq Slots
    BY Zenon DEF TypeOK
  <2>. QED BY <2>1, <1>f, <1>g, <1>m, <1>n DEF PendInv
<1>6. OwnerInv'
  <2>1. \A t \in Slots : mm'[t] = RESERVED => mm[t] = RESERVED
    BY <1>m
  <2>2. ASSUME NEW t \in removing' PROVE t \in removing \/ pend'[m] = t
    BY <2>2, <1>h, <1>n
  <2>3. \A n \in MMs : pend[n] \in Slots => pend'[n] = pend[n]
    BY <1>f, <1>n, <1>z
  <2>4. removing \subseteq Slots
    BY Zenon DEF TypeOK
  <2>5. ASSUME NEW t \in removing
        PROVE  \/ \E b \in Actors : pc'[b] \in {"unreg", "sync", "clear"} /\ opSlot'[b] = t
               \/ \E n \in MMs : pend'[n] = t
    <3>1. CASE \E b \in Actors : pc[b] \in {"unreg", "sync", "clear"} /\ opSlot[b] = t
      BY <3>1, <1>f, Zenon
    <3>2. CASE \E n \in MMs : pend[n] = t
      BY <3>2, <2>3, <2>4, <2>5, Zenon
    <3>. QED BY <3>1, <3>2, <2>5, Zenon DEF OwnerInv
  <2>6. ASSUME NEW t \in Slots, mm'[t] = RESERVED
        PROVE  \E c \in Callers : pc'[c] \in {"register", "failed", "publish"} /\ opSlot'[c] = t
    BY <2>1, <2>6, <1>f, Zenon DEF OwnerInv
  <2>. QED BY <2>2, <2>5, <2>6, Zenon DEF OwnerInv
<1>7. NotifierInv'
  BY DEF ExitRelease, ListOf, ReleaseLocked, ReleaseMatch, TypeOK, NotifierInv,
         FreeSlot, Published
<1>8. ExitInv'
  <2>. PICK s \in ListOf(m) \ walked :
         ReleaseLocked(s, m) /\ pend' = [pend EXCEPT ![m] = IF Organic(s, m) THEN s ELSE 0]
    BY Zenon DEF ExitRelease
  <2>0. s \in Slots /\ pend[m] = 0 /\ life[m] = "walk"
    BY Zenon DEF ExitRelease, ListOf, TypeOK
  <2>1. CASE Organic(s, m)
    <3>0. exitEv[m] # 1
      BY <2>0, <2>1, Zenon DEF Organic, ReleaseMatch, ExitInv, LiveEntry
    <3>1. exitEv[m] = 0
      <4>1. exitEv[m] \in Nat /\ exitEv[m] <= 1
        BY Zenon DEF TypeOK, ExitInv
      <4>. QED BY <3>0, <4>1
    <3>2. \A t \in Slots : ~LiveEntry(t, m)'
      BY <2>0, <2>1 DEF ReleaseLocked, ReleaseMatch, Organic, TypeOK, LiveEntry,
             OneLivePerMm, Covers
    <3>3. \A n \in MMs : \A t \in Slots : LiveEntry(t, n)' => LiveEntry(t, n)
      BY <2>0, Zenon DEF ReleaseLocked, TypeOK, LiveEntry
    <3>4. /\ UNCHANGED <<exitEv, life>> /\ pend'[m] = s
          /\ \A n \in MMs \ {m} : pend'[n] = pend[n]
      BY <2>1, Zenon DEF ExitRelease, TypeOK
    <3>5. ASSUME NEW n \in MMs
          PROVE  /\ life'[n] \in {"live", "orphan"} => exitEv'[n] = 0
                 /\ exitEv'[n] <= 1
                 /\ pend'[n] # 0 => exitEv'[n] = 0
                 /\ exitEv'[n] = 1 \/ pend'[n] # 0 => \A t \in Slots : ~LiveEntry(t, n)'
      <4>1. CASE n = m
        BY <3>1, <3>2, <3>4, <4>1, Zenon DEF ExitInv
      <4>2. CASE n # m
        BY <3>3, <3>4, <4>2, Zenon DEF ExitInv
      <4>. QED BY <4>1, <4>2, Zenon
    <3>. QED BY <3>5, Zenon DEF ExitInv
  <2>2. CASE ~Organic(s, m)
    <3>1. \A n \in MMs : \A t \in Slots : LiveEntry(t, n)' => LiveEntry(t, n)
      BY <2>0, Zenon DEF ReleaseLocked, TypeOK, LiveEntry
    <3>. QED BY <2>0, <2>2, <3>1 DEF ExitRelease, ExitInv
  <2>. QED BY <2>1, <2>2, Zenon
<1>9. OneLivePerMm'
  BY <1>f, <1>m DEF OneLivePerMm, Covers
<1>10. NoLostDelete'
  <2>1. delSince \subseteq Slots
    BY Zenon DEF TypeOK
  <2>. QED BY <2>1, <1>f, <1>m DEF NoLostDelete, Covers
<1>11. ActorInv'
  BY Zenon DEF ExitRelease, ActorInv
<1>. QED
  BY <1>1, <1>2, <1>3, <1>4, <1>5, <1>6, <1>7, <1>8, <1>9, <1>10, <1>11, Zenon DEF IInv

(* The organic release is reported and queued.                             *)
LEMMA QueueIInv ==
  ASSUME IInv, NEW m \in MMs, QueueRelease(m)
  PROVE  IInv'
<1>. /\ TypeOK /\ ActorInv /\ StageInv /\ SlotExclusive /\ PendInv /\ OwnerInv
     /\ NotifierInv /\ ExitInv /\ OneLivePerMm /\ NoLostDelete /\ CountExact
  BY Zenon DEF IInv
<1>0. /\ pend[m] \in Slots /\ pend[m] \in removing /\ grab[pend[m]] = m
      /\ mm[pend[m]] = NoMM /\ Enter(pend[m], "unreg", m, pend[m])
      /\ UNCHANGED <<mm, claiming, removing, grab, hashed, walked, life>>
  BY Zenon DEF QueueRelease, TypeOK, PendInv
<1>a. /\ pc'[pend[m]] = "unreg" /\ opMm'[pend[m]] = m /\ opSlot'[pend[m]] = pend[m]
      /\ \A b \in Actors \ {pend[m]} :
           pc'[b] = pc[b] /\ opMm'[b] = opMm[b] /\ opSlot'[b] = opSlot[b]
  BY <1>0, EnterAt, Zenon
<1>1. TypeOK' /\ ActorInv'
  <2>1. TypeOK'
    BY DEF QueueRelease, TypeOK
  <2>2. ActorInv'
    BY <1>0, <1>a DEF ActorInv
  <2>. QED BY <2>1, <2>2, Zenon
<1>2. StageInv'
  <2>. SUFFICES ASSUME NEW b \in Actors PROVE Stage(b)'
    BY Zenon DEF StageInv
  <2>0. Stage(b)
    BY Zenon DEF StageInv
  <2>1. CASE b = pend[m]
    BY SMTT(20), <2>1, <1>0, <1>a
  <2>2. CASE b # pend[m]
    <3>1. pc'[b] = pc[b] /\ opMm'[b] = opMm[b] /\ opSlot'[b] = opSlot[b]
      BY <2>2, <1>a
    <3>. QED BY <2>0, <3>1, <1>0
  <2>. QED BY <2>1, <2>2, Zenon
<1>3. SlotExclusive'
  BY DEF QueueRelease, TypeOK, PendInv, SlotExclusive
<1>4. PendInv'
  BY DEF QueueRelease, PendInv
<1>5. OwnerInv'
  BY DEF QueueRelease, TypeOK, ActorInv, OwnerInv
<1>6. ExitInv'
  BY DEF QueueRelease, TypeOK, PendInv, ExitInv, LiveEntry
<1>7. NotifierInv' /\ OneLivePerMm' /\ NoLostDelete' /\ CountExact'
  BY DEF QueueRelease, NotifierInv, OneLivePerMm, NoLostDelete, CountExact,
         FreeSlot, Published, Covers, Entries
<1>. QED BY <1>1, <1>2, <1>3, <1>4, <1>5, <1>6, <1>7, Zenon DEF IInv

(* The walk is over.                                                       *)
LEMMA ExitDoneIInv ==
  ASSUME IInv, NEW m \in MMs, ExitDone(m)
  PROVE  IInv'
<1>. /\ TypeOK /\ ActorInv /\ StageInv /\ SlotExclusive /\ PendInv /\ OwnerInv
     /\ NotifierInv /\ ExitInv /\ OneLivePerMm /\ NoLostDelete /\ CountExact
  BY Zenon DEF IInv
<1>1. TypeOK' /\ ActorInv'
  BY Zenon DEF ExitDone, TypeOK, ActorInv
<1>2. StageInv'
  BY Zenon DEF ExitDone, StageInv
<1>3. PendInv'
  BY DEF ExitDone, PendInv
<1>4. NotifierInv'
  BY DEF ExitDone, ListOf, NotifierInv, FreeSlot, Published
<1>5. ExitInv'
  BY DEF ExitDone, ExitInv, LiveEntry
<1>6. SlotExclusive' /\ OwnerInv' /\ OneLivePerMm' /\ NoLostDelete'
      /\ CountExact'
  BY DEF ExitDone, SlotExclusive, OwnerInv, OneLivePerMm, NoLostDelete,
         CountExact, Covers, Entries, Published
<1>. QED BY <1>1, <1>2, <1>3, <1>4, <1>5, <1>6, Zenon DEF IInv

(* The address of m is reused.                                             *)
LEMMA RebornIInv ==
  ASSUME IInv, NEW m \in MMs, Reborn(m)
  PROVE  IInv'
<1>. /\ TypeOK /\ ActorInv /\ StageInv /\ SlotExclusive /\ PendInv /\ OwnerInv
     /\ NotifierInv /\ ExitInv /\ OneLivePerMm /\ NoLostDelete /\ CountExact
  BY Zenon DEF IInv
<1>1. TypeOK' /\ ActorInv'
  BY Zenon DEF Reborn, TypeOK, ActorInv
<1>2. PendInv'
  BY DEF Reborn, PendInv
<1>3. NotifierInv'
  BY DEF Reborn, NotifierInv, FreeSlot, Published
<1>4. ExitInv'
  BY DEF Reborn, TypeOK, ExitInv, LiveEntry
<1>u. UNCHANGED <<slotVars, hashed, grab, walked, pend, opVars, delSince>>
  BY Zenon DEF Reborn
<1>5. StageInv' /\ SlotExclusive'
  BY <1>u, Zenon DEF StageInv, SlotExclusive
<1>6. OwnerInv'
  BY <1>u, Zenon DEF OwnerInv
<1>7. OneLivePerMm' /\ NoLostDelete' /\ CountExact'
  BY <1>u, Zenon DEF OneLivePerMm, NoLostDelete, CountExact, Covers, Entries, Published
<1>. QED BY <1>1, <1>2, <1>3, <1>4, <1>5, <1>6, <1>7, Zenon DEF IInv

(* ac_clear_protected() takes up an entry, as a delete that found it.      *)
LEMMA ClearEntryIInv ==
  ASSUME IInv, ClearStep, Published(next), next \notin removing
  PROVE  IInv'
<1>. /\ TypeOK /\ ActorInv /\ StageInv /\ SlotExclusive /\ PendInv /\ OwnerInv
     /\ NotifierInv /\ ExitInv /\ OneLivePerMm /\ NoLostDelete /\ CountExact
  BY Zenon DEF IInv
<1>0. /\ pc[Unloader] = "idle" /\ next \in Slots /\ mm[next] \in MMs /\ next \notin removing
      /\ removing' = removing \cup {next}
      /\ Enter(Unloader, "unreg", mm[next], next)
      /\ next' = next
      /\ UNCHANGED <<mm, claiming, cancel, ac_prot_count, kernVars, phase, flushing, histVars>>
  BY Zenon DEF ClearStep, Published
<1>a. /\ pc'[Unloader] = "unreg" /\ opMm'[Unloader] = mm[next] /\ opSlot'[Unloader] = next
      /\ \A b \in Actors \ {Unloader} :
           pc'[b] = pc[b] /\ opMm'[b] = opMm[b] /\ opSlot'[b] = opSlot[b]
  BY <1>0, EnterAt, Zenon
<1>1. TypeOK' /\ ActorInv'
  <2>1. TypeOK'
    BY <1>0, Zenon DEF TypeOK
  <2>2. ActorInv'
    <3>1. \A c \in Callers : UNCHANGED <<pc[c], opMm[c], opSlot[c]>>
      BY <1>a, Zenon
    <3>2. \A t \in Slots : UNCHANGED <<pc[t], opMm[t], opSlot[t]>>
      BY <1>a, Zenon
    <3>3. life' = life
      BY <1>0, Zenon
    <3>4. ASSUME NEW c \in Callers
          PROVE  /\ pc'[c] # "idle" => opMm'[c] \in MMs /\ life'[opMm'[c]] \in {"live", "orphan"}
                 /\ InFlight(c)' => opSlot'[c] \in Slots
      BY <3>1, <3>3, Zenon DEF ActorInv
    <3>5. ASSUME NEW t \in Slots
          PROVE  /\ pc'[t] \in {"idle", "unreg", "sync", "clear"}
                 /\ pc'[t] # "idle" => opSlot'[t] = t /\ opMm'[t] \in MMs
      BY <3>2, Zenon DEF ActorInv
    <3>6. opMm'[Unloader] \in MMs /\ opSlot'[Unloader] \in Slots /\ pc'[Unloader] = "unreg"
      BY <1>0, <1>a, Zenon
    <3>. QED BY <3>4, <3>5, <3>6, Zenon DEF ActorInv
  <2>. QED BY <2>1, <2>2, Zenon
<1>2. StageInv'
  <2>. SUFFICES ASSUME NEW b \in Actors PROVE Stage(b)'
    BY Zenon DEF StageInv
  <2>1. CASE b = Unloader
    <3>1. grab[next] = mm[next]
      BY <1>0, Zenon DEF NotifierInv, Published
    <3>. QED BY <2>1, <3>1, <1>0, <1>a
  <2>2. CASE b # Unloader
    <3>1. pc'[b] = pc[b] /\ opMm'[b] = opMm[b] /\ opSlot'[b] = opSlot[b]
      BY <2>2, <1>a, Zenon
    <3>2. mm[next] # RESERVED
      BY <1>0, Zenon
    <3>3. Stage(b)
      BY Zenon DEF StageInv
    <3>. QED BY <3>1, <3>2, <3>3, <1>0
  <2>. QED BY <2>1, <2>2, Zenon
<1>3. SlotExclusive'
  BY <1>0 DEF TypeOK, StageInv, PendInv, SlotExclusive
<1>4. PendInv'
  BY <1>0, Zenon DEF PendInv
<1>5. OwnerInv'
  BY <1>0, Zenon DEF TypeOK, OwnerInv
<1>6. NotifierInv'
  BY <1>0, Zenon DEF NotifierInv, FreeSlot, Published
<1>7. ExitInv'
  BY <1>0, Zenon DEF ExitInv, LiveEntry
<1>8. OneLivePerMm'
  BY <1>0, Zenon DEF OneLivePerMm, Covers
<1>9. NoLostDelete'
  BY <1>0, Zenon DEF NoLostDelete, Covers
<1>10. CountExact'
  BY <1>0, Zenon DEF CountExact, Entries, Published
<1>. QED
  BY <1>1, <1>2, <1>3, <1>4, <1>5, <1>6, <1>7, <1>8, <1>9, <1>10, Zenon DEF IInv

(* The rest of ac_exit(), and a step that changes nothing.                 *)
LEMMA ExitPathIInv ==
  ASSUME IInv,
         \/ UnloadBegin \/ FlushDone \/ ClearDone \/ UNCHANGED vars
         \/ ClearStep /\ ~(Published(next) /\ next \notin removing)
  PROVE  IInv'
<1>. TypeOK
  BY Zenon DEF IInv
<1>1. UNCHANGED <<slotVars, kernVars, opVars, exitEv, delSince>>
  BY Zenon DEF UnloadBegin, FlushDone, ClearDone, ClearStep, vars
<1>2. TypeOK'
  BY DEF UnloadBegin, FlushDone, ClearDone, ClearStep, vars, TypeOK, Busy
<1>. QED BY <1>1, <1>2, FrameIInv, Zenon

-----------------------------------------------------------------------------
(* An add or a delete emits no exit event and gives no slot back before    *)
(* its unregister is over.                                                 *)
LEMMA CallerFrame ==
  ASSUME NEW c \in Callers, CallerStep(c)
  PROVE  exitEv' = exitEv /\ removing \subseteq removing'
<1>1. ASSUME NEW m \in MMs, Pin(c, m) PROVE exitEv' = exitEv /\ removing' = removing
  BY <1>1, Zenon DEF Pin
<1>2. CASE AddDedupe(c) \/ AddFull(c)
  BY <1>2, Zenon DEF AddDedupe, AddFull
<1>3. CASE AddClaim(c)
  BY <1>3, Zenon DEF AddClaim
<1>4. CASE DelFound(c)
  BY <1>4, Zenon DEF DelFound
<1>5. CASE DelCancel(c)
  BY <1>5, Zenon DEF DelCancel
<1>6. CASE Register(c) \/ RegisterFail(c)
  BY <1>6, Zenon DEF Register, RegisterFail
<1>7. CASE AddFailed(c) \/ AddPublish(c)
  BY <1>7, Zenon DEF AddFailed, AddPublish
<1>8. CASE AddCancelled(c)
  BY <1>8, Zenon DEF AddCancelled
<1>. QED BY <1>1, <1>2, <1>3, <1>4, <1>5, <1>6, <1>7, <1>8, Zenon DEF CallerStep

(* The steps of ac_add_prot_mm() and ac_del_prot_mm().                     *)
LEMMA CallerIInv == ASSUME IInv, NEW c \in Callers, CallerStep(c) PROVE IInv'
BY PinIInv, AddLeavesIInv, ClaimIInv, RegisterIInv, RegisterFailIInv, FailedIInv,
   CancelledIInv, PublishIInv, DelFoundIInv, DelCancelIInv DEF CallerStep

(* The steps of an exiting address space.                                  *)
LEMMA KernelIInv == ASSUME IInv, NEW m \in MMs, KernelStep(m) PROVE IInv'
BY TaskExitIInv, ExitBeginIInv, ReleaseIInv, QueueIInv, ExitDoneIInv, RebornIInv
   DEF KernelStep

(* The steps of ac_exit().                                                 *)
LEMMA UnloadIInv == ASSUME IInv, UnloadStep PROVE IInv'
BY ClearEntryIInv, ExitPathIInv, Zenon DEF UnloadStep

(* Every step keeps the invariant.                                         *)
LEMMA NextIInv == IInv /\ [Next]_vars => IInv'
<1>. SUFFICES ASSUME IInv, [Next]_vars PROVE IInv'
  OBVIOUS
<1>1. CASE \E c \in Callers : CallerStep(c)
  BY <1>1, CallerIInv, Zenon
<1>2. CASE \E a \in Actors : UnregStep(a)
  BY <1>2, UnregisterIInv, SyncDropIInv, ClearIInv DEF UnregStep
<1>3. CASE \E m \in MMs : KernelStep(m)
  BY <1>3, KernelIInv, Zenon
<1>4. CASE UnloadStep
  BY <1>4, UnloadIInv, Zenon
<1>5. CASE UNCHANGED vars
  BY <1>5, ExitPathIInv, Zenon
<1>. QED BY <1>1, <1>2, <1>3, <1>4, <1>5 DEF Next

(* The inductive invariant holds in every state of the registry, however   *)
(* many threads add, delete, exit and remove the module.                   *)
THEOREM Invariance == Spec => []IInv
BY InitIInv, NextIInv, PTL DEF Spec

(* Every variable keeps its type.                                          *)
THEOREM TypeCorrect == Spec => []TypeOK
<1>1. IInv => TypeOK
  BY Zenon DEF IInv
<1>. QED BY <1>1, Invariance, PTL

(* ac_prot_count is always the number of entries in the table.             *)
THEOREM CountCorrect == Spec => []CountExact
<1>1. IInv => CountExact
  BY Zenon DEF IInv
<1>. QED BY <1>1, Invariance, PTL

(* No two live entries or claims stand for the same address space,         *)
(* however the critical sections of ac_add_prot_mm() interleave.           *)
THEOREM SingleRegistration == Spec => []OneLivePerMm
<1>1. IInv => OneLivePerMm
  BY Zenon DEF IInv
<1>. QED BY <1>1, Invariance, PTL

(* No two threads work on the notifier of the same slot.                   *)
THEOREM Exclusion == Spec => []SlotExclusive
<1>1. IInv => SlotExclusive
  BY Zenon DEF IInv
<1>. QED BY <1>1, Invariance, PTL

(* The kernel's preconditions hold at every call of                        *)
(* mmu_notifier_register() and mmu_notifier_unregister().                  *)
THEOREM KernelContract == Spec => []UnregisterPinned
<1>1. IInv => UnregisterPinned
  BY Zenon DEF IInv, StageInv, UnregisterPinned
<1>. QED BY <1>1, Invariance, PTL

(* A delete always wins over the adds that came before it.                 *)
THEOREM DeletesHold == Spec => []NoLostDelete
<1>1. IInv => NoLostDelete
  BY Zenon DEF IInv
<1>. QED BY <1>1, Invariance, PTL

(* No entry is left for an address space that is gone.                     *)
THEOREM EntriesFresh == Spec => []NoStaleEntry
<1>1. IInv => NoStaleEntry
  BY Zenon DEF IInv, NotifierInv, NoStaleEntry
<1>. QED BY <1>1, Invariance, PTL

(* No reference on an mm_struct is leaked.                                 *)
THEOREM NoLeak == Spec => []ReferencesOwned
<1>1. IInv => ReferencesOwned
  <2>. SUFFICES ASSUME IInv, NEW s \in Slots, grab[s] # NoMM
                PROVE \/ mm[s] = grab[s] /\ s \notin removing
                      \/ \E a \in Actors : pc[a] \in {"publish", "unreg", "sync"} /\ opSlot[a] = s
                      \/ \E m \in MMs : pend[m] = s
    BY Zenon DEF ReferencesOwned
  <2>1. CASE s \in removing
    BY <2>1 DEF IInv, OwnerInv, StageInv
  <2>2. CASE mm[s] = RESERVED
    BY <2>2 DEF IInv, OwnerInv, StageInv
  <2>3. CASE s \notin removing /\ mm[s] # RESERVED
    BY <2>3 DEF IInv, TypeOK, NotifierInv, FreeSlot, Published
  <2>. QED BY <2>1, <2>2, <2>3, Zenon
<1>. QED BY <1>1, Invariance, PTL

(* AC_EV_EXIT is emitted at most once for a life of an address space.      *)
THEOREM ExitReportedOnce == Spec => []ExitOnce
<1>1. IInv => ExitOnce
  BY Zenon DEF IInv, ExitInv, ExitOnce
<1>. QED BY <1>1, Invariance, PTL

(* It is emitted only by a real exit.                                      *)
THEOREM ExitReportedTruly == Spec => ExitOnlyOrganic
<1>1. ASSUME IInv, [Next]_vars, NEW m \in MMs, exitEv'[m] > exitEv[m]
      PROVE  life[m] = "walk"
  <2>. TypeOK /\ StageInv /\ PendInv
    BY <1>1, Zenon DEF IInv
  <2>1. exitEv[m] \in Nat /\ exitEv' # exitEv
    BY <1>1 DEF TypeOK
  <2>2. ASSUME NEW a \in Actors, Unregister(a) PROVE FALSE
    <3>1. ~Organic(opSlot[a], opMm[a])
      BY <1>1, <2>2, Zenon DEF Unregister, Organic, StageInv
    <3>2. \A n \in MMs : exitEv[n] \in Nat
      BY <1>1, Zenon DEF TypeOK
    <3>. QED BY <1>1, <2>2, <3>1, <3>2 DEF Unregister, TypeOK
  <2>3. ASSUME NEW n \in MMs, QueueRelease(n) PROVE life[m] = "walk"
    <3>1. CASE n = m
      BY <1>1, <2>3, <3>1, Zenon DEF QueueRelease, PendInv
    <3>2. CASE n # m
      <4>1. exitEv' = [exitEv EXCEPT ![n] = @ + 1] /\ exitEv = [k \in MMs |-> exitEv[k]]
        BY <2>3, Zenon DEF QueueRelease, TypeOK
      <4>2. exitEv'[m] = exitEv[m]
        BY <3>2, <4>1, Zenon
      <4>. QED BY <1>1, <2>1, <4>2
    <3>. QED BY <3>1, <3>2, Zenon
  <2>4. ASSUME NEW n \in MMs, Reborn(n) PROVE FALSE
    <3>1. exitEv' = [exitEv EXCEPT ![n] = 0] /\ exitEv = [k \in MMs |-> exitEv[k]]
      BY <2>4, Zenon DEF Reborn, TypeOK
    <3>2. exitEv'[m] = exitEv[m] \/ exitEv'[m] = 0
      BY <3>1, Zenon
    <3>. QED BY <1>1, <2>1, <3>2
  <2>5. exitEv' # exitEv
    BY <1>1, <2>1, Zenon
  <2>6. ASSUME NEW c \in Callers, CallerStep(c) PROVE exitEv' = exitEv
    BY <2>6, CallerFrame, Zenon
  <2>7. ASSUME NEW a \in Actors, UnregStep(a) PROVE FALSE
    BY <2>2, <2>5, <2>7, Zenon DEF UnregStep, SyncDrop, ClearRemoving
  <2>8. ASSUME NEW n \in MMs, KernelStep(n) PROVE life[m] = "walk"
    BY <2>3, <2>4, <2>5, <2>8, Zenon DEF KernelStep, TaskExit, ExitBegin, ExitRelease, ExitDone
  <2>9. ~UnloadStep /\ ~UNCHANGED vars
    BY <2>5, Zenon DEF UnloadStep, UnloadBegin, FlushDone, ClearStep, ClearDone, vars
  <2>. QED BY <1>1, <2>5, <2>6, <2>7, <2>8, <2>9, Zenon DEF Next
<1>2. IInv /\ [Next]_vars
        => [\A m \in MMs : exitEv'[m] > exitEv[m] => life[m] = "walk"]_vars
  BY <1>1, Zenon
<1>. QED BY <1>2, Invariance, PTL DEF Spec, ExitOnlyOrganic

(* A slot is given back only when its notifier is unlisted and its         *)
(* reference dropped.                                                      *)
THEOREM SlotsFreedClean == Spec => FreedSlotsClean
<1>1. ASSUME IInv, [Next]_vars, NEW s \in removing, s \notin removing'
      PROVE  grab'[s] = NoMM /\ s \notin hashed' /\ mm'[s] = NoMM
  <2>1. ASSUME NEW a \in Actors, ClearRemoving(a)
        PROVE  grab'[s] = NoMM /\ s \notin hashed' /\ mm'[s] = NoMM
    BY <1>1, <2>1, Zenon DEF IInv, ClearRemoving, StageInv
  <2>2. ASSUME NEW c \in Callers, CallerStep(c) PROVE FALSE
    BY <1>1, <2>2, CallerFrame, Zenon
  <2>3. ASSUME NEW a \in Actors, Unregister(a) \/ SyncDrop(a) PROVE FALSE
    BY <1>1, <2>3, Zenon DEF Unregister, ReleaseLocked, ReleaseMatch, SyncDrop
  <2>4. ASSUME NEW m \in MMs, KernelStep(m) PROVE FALSE
    BY <1>1, <2>4, Zenon DEF KernelStep, TaskExit, ExitBegin, ExitRelease, ReleaseLocked,
                      QueueRelease, ExitDone, Reborn
  <2>5. ~UnloadStep /\ ~UNCHANGED vars
    BY <1>1, Zenon DEF UnloadStep, UnloadBegin, FlushDone, ClearStep, ClearDone, vars
  <2>. QED BY <1>1, <2>1, <2>2, <2>3, <2>4, <2>5, Zenon DEF Next, UnregStep
<1>2. IInv /\ [Next]_vars
        => [\A s \in removing \ removing' :
              grab'[s] = NoMM /\ s \notin hashed' /\ mm'[s] = NoMM]_vars
  BY <1>1, Zenon
<1>. QED BY <1>2, Invariance, PTL DEF Spec, FreedSlotsClean

-----------------------------------------------------------------------------
(* How far ac_exit() is.  Once ac_clear_protected() runs no caller is in   *)
(* flight, the entries before its index are gone, and the release workers  *)
(* still running have no entry.                                            *)
Cleared == phase \in {"clear", "flush2", "gone"}
UnloadInv ==
  /\ next \in Nat \ {0}
  /\ ~Cleared => next = 1
  /\ Cleared => \A c \in Callers : pc[c] = "idle"
  /\ phase \in {"flush2", "gone"} => next \notin Slots
  /\ \A s \in Slots : pc[s] # "idle" => mm[s] = NoMM
  /\ pc[Unloader] # "idle" => phase = "clear" /\ next \in Slots /\ opSlot[Unloader] = next
  /\ Cleared => \A s \in Slots : s < next => mm[s] = NoMM

(* An add or a delete is made while the device is open or flushed.         *)
LEMMA CallerUnload ==
  ASSUME IInv, UnloadInv, NEW c \in Callers, CallerStep(c)
  PROVE  UnloadInv'
<1>1. ~Cleared /\ phase' = phase /\ next' = next
  <2>1. phase' = phase /\ next' = next
    BY Zenon DEF CallerStep, Pin, AddDedupe, AddFull, AddClaim, DelFound, DelCancel, Register,
                 RegisterFail, AddFailed, AddCancelled, AddPublish
  <2>2. phase = "loaded" \/ pc[c] # "idle"
    BY Zenon DEF CallerStep, Pin, AddDedupe, AddFull, AddClaim, DelFound, DelCancel, Register,
                 RegisterFail, AddFailed, AddCancelled, AddPublish
  <2>. QED BY <2>1, <2>2 DEF UnloadInv, Cleared
<1>2. \A a \in Actors \ {c} : pc'[a] = pc[a] /\ opSlot'[a] = opSlot[a]
  BY Zenon DEF CallerStep, Pin, AddDedupe, AddFull, AddClaim, DelFound, DelCancel, Register,
         RegisterFail, AddFailed, AddCancelled, AddPublish, IInv, TypeOK
<1>3. ASSUME NEW s \in Slots, pc[s] # "idle" PROVE mm'[s] = NoMM
  <2>0. mm[s] = NoMM /\ s \in removing /\ TypeOK /\ StageInv
    <3>1. TypeOK /\ ActorInv /\ StageInv
      BY Zenon DEF IInv
    <3>2. s \in Actors /\ pc[s] \in {"unreg", "sync", "clear"} /\ opSlot[s] = s
      BY <1>3, <3>1 DEF ActorInv
    <3>3. s \in removing
      BY <3>1, <3>2, Zenon DEF StageInv
    <3>. QED BY <1>3, <3>1, <3>3 DEF UnloadInv
  <2>1. CASE AddClaim(c)
    BY SMTT(20), <2>0, <2>1 DEF AddClaim, FreeSlot, TypeOK
  <2>2. CASE AddPublish(c)
    BY <2>0, <2>2 DEF AddPublish, StageInv, TypeOK
  <2>3. CASE AddFailed(c) \/ AddCancelled(c)
    BY <2>0, <2>3 DEF AddFailed, AddCancelled, TypeOK
  <2>4. CASE mm' = mm
    BY <2>0, <2>4
  <2>. QED BY <2>1, <2>2, <2>3, <2>4, Zenon DEF CallerStep, Pin, AddDedupe, AddFull, DelFound,
                DelCancel, Register, RegisterFail
<1>4. Unloader # c /\ \A s \in Slots : s # c
  OBVIOUS
<1>. QED BY <1>1, <1>2, <1>3, <1>4 DEF UnloadInv, Cleared

(* A step that at most clears entries, moves a release worker on or queues *)
(* one for a slot without an entry.                                        *)
LEMMA QuietUnload ==
  ASSUME UnloadInv, phase' = phase, next' = next,
         \A s \in Slots : mm'[s] \in {mm[s], NoMM},
         \A c \in Callers : pc[c] = "idle" => pc'[c] = "idle",
         \A s \in Slots : pc'[s] # "idle" => pc[s] # "idle" \/ mm[s] = NoMM,
         pc'[Unloader] # "idle" => pc[Unloader] # "idle" /\ opSlot'[Unloader] = opSlot[Unloader]
  PROVE  UnloadInv'
BY DEF UnloadInv, Cleared

(* The unregister; the last step of the unloader's moves its index on.     *)
LEMMA UnregUnload ==
  ASSUME IInv, UnloadInv, NEW a \in Actors, UnregStep(a)
  PROVE  UnloadInv'
<1>. /\ TypeOK /\ StageInv /\ ActorInv
  BY Zenon DEF IInv
<1>1. CASE Unregister(a) \/ SyncDrop(a)
  <2>1. phase' = phase /\ next' = next /\ opSlot' = opSlot
    BY <1>1, Zenon DEF Unregister, SyncDrop
  <2>2. \A s \in Slots : mm'[s] \in {mm[s], NoMM}
    BY ZenonT(40), <1>1 DEF Unregister, SyncDrop, ReleaseLocked, TypeOK
  <2>3. pc[a] # "idle" /\ \A b \in Actors : b # a => pc'[b] = pc[b]
    BY Zenon, <1>1 DEF Unregister, SyncDrop, TypeOK
  <2>. QED BY <2>1, <2>2, <2>3, QuietUnload
<1>2. CASE ClearRemoving(a) /\ a # Unloader
  <2>1. phase' = phase /\ next' = next /\ mm' = mm
    BY <1>2, Zenon DEF ClearRemoving
  <2>2. /\ pc[a] # "idle" /\ pc'[a] = "idle"
        /\ \A b \in Actors : b # a => pc'[b] = pc[b] /\ opSlot'[b] = opSlot[b]
    BY <1>2 DEF ClearRemoving, TypeOK
  <2>. QED BY Zenon, <1>2, <2>1, <2>2, QuietUnload
<1>3. CASE ClearRemoving(Unloader)
  <2>1. phase' = phase /\ next' = next + 1 /\ mm' = mm
    BY <1>3, Zenon DEF ClearRemoving
  <2>2. /\ phase = "clear" /\ next \in Slots /\ mm[next] = NoMM
    BY Zenon, <1>3 DEF ClearRemoving, StageInv, UnloadInv
  <2>3. pc'[Unloader] = "idle" /\ \A b \in Actors \ {Unloader} : pc'[b] = pc[b]
    BY <1>3 DEF ClearRemoving, TypeOK
  <2>4. \A s \in Slots : s < next + 1 => s < next \/ s = next
    BY <2>2 DEF Slots
  <2>. QED BY <2>1, <2>2, <2>3, <2>4 DEF UnloadInv, Cleared
<1>. QED BY <1>1, <1>2, <1>3, Zenon DEF UnregStep

(* An exiting address space.                                               *)
LEMMA KernelUnload ==
  ASSUME IInv, UnloadInv, NEW m \in MMs, KernelStep(m)
  PROVE  UnloadInv'
<1>. TypeOK /\ PendInv
  BY Zenon DEF IInv
<1>1. phase' = phase /\ next' = next
  BY Zenon DEF KernelStep, TaskExit, ExitBegin, ExitRelease, QueueRelease, ExitDone, Reborn
<1>2. \A s \in Slots : mm'[s] \in {mm[s], NoMM}
  <2>1. CASE ExitRelease(m)
    <3>1. PICK t \in Slots : ReleaseLocked(t, m)
      BY <2>1, Zenon DEF ExitRelease, ListOf, TypeOK
    <3>2. mm' = mm \/ mm' = [mm EXCEPT ![t] = NoMM]
      BY <3>1, Zenon DEF ReleaseLocked
    <3>. QED BY <3>2 DEF TypeOK
  <2>2. CASE ~ExitRelease(m)
    <3>1. mm' = mm
      BY <2>2, Zenon DEF KernelStep, TaskExit, ExitBegin, QueueRelease, ExitDone, Reborn
    <3>. QED BY <3>1, Zenon
  <2>. QED BY <2>1, <2>2, Zenon
<1>3. CASE QueueRelease(m)
  <2>1. pend[m] \in Slots /\ mm[pend[m]] = NoMM
    BY <1>3 DEF QueueRelease, TypeOK, PendInv
  <2>2. \A b \in Actors : b # pend[m] => pc'[b] = pc[b] /\ opSlot'[b] = opSlot[b]
    BY <1>3 DEF QueueRelease, TypeOK
  <2>3. \A b \in Callers \cup {Unloader} : b # pend[m]
    BY <2>1
  <2>. QED BY Zenon, <1>1, <1>2, <2>1, <2>2, <2>3, QuietUnload
<1>4. CASE ~QueueRelease(m)
  <2>1. pc' = pc /\ opSlot' = opSlot
    BY <1>4, Zenon DEF KernelStep, TaskExit, ExitBegin, ExitRelease, ExitDone, Reborn
  <2>. QED BY <1>1, <1>2, <2>1, QuietUnload
<1>. QED BY <1>3, <1>4

(* ac_exit() itself: ac_clear_protected() passes over a slot only when it  *)
(* has no entry and no claim.                                              *)
LEMMA StepUnload ==
  ASSUME IInv, UnloadInv, UnloadStep
  PROVE  UnloadInv'
<1>. /\ TypeOK /\ StageInv /\ ActorInv /\ PendInv /\ OwnerInv
  BY Zenon DEF IInv
<1>1. CASE UnloadBegin \/ FlushDone
  BY <1>1, MaxAssumption DEF UnloadBegin, FlushDone, UnloadInv, Cleared, Slots
<1>2. CASE ClearDone
  BY Zenon, <1>2 DEF ClearDone, UnloadInv, Cleared
<1>3. CASE ClearStep /\ Published(next) /\ next \notin removing
  <2>1. /\ phase = "clear" /\ phase' = phase /\ next' = next /\ mm' = mm /\ next \in Slots
        /\ opSlot'[Unloader] = next /\ \A b \in Actors \ {Unloader} : pc'[b] = pc[b]
    BY <1>3 DEF ClearStep, TypeOK
  <2>. QED BY <2>1 DEF UnloadInv, Cleared
<1>4. CASE ClearStep /\ ~(Published(next) /\ next \notin removing)
  <2>1. /\ phase = "clear" /\ phase' = phase /\ next' = next + 1 /\ mm' = mm /\ next \in Slots
        /\ pc' = pc /\ opSlot' = opSlot /\ pc[Unloader] = "idle"
    BY <1>4, Zenon DEF ClearStep
  <2>2. mm[next] # RESERVED
    BY <2>1 DEF OwnerInv, UnloadInv, Cleared
  <2>3. ASSUME next \in removing PROVE mm[next] = NoMM
    <3>1. CASE \E n \in MMs : pend[n] = next
      BY <2>1, <3>1 DEF PendInv, Slots
    <3>2. CASE \E a \in Actors : pc[a] \in {"unreg", "sync", "clear"} /\ opSlot[a] = next
      <4>1. PICK a \in Actors : pc[a] \in {"unreg", "sync", "clear"} /\ opSlot[a] = next
        BY <3>2
      <4>2. a \in Slots
        BY <2>1, <4>1 DEF UnloadInv, Cleared
      <4>. QED BY <4>1, <4>2 DEF UnloadInv, ActorInv
    <3>. QED BY <2>3, <3>1, <3>2 DEF OwnerInv
  <2>4. mm[next] = NoMM
    <3>1. mm[next] = NoMM \/ next \in removing
      BY <1>4, <2>1, <2>2, Zenon DEF Published, TypeOK
    <3>. QED BY <3>1, <2>3
  <2>5. \A s \in Slots : s < next + 1 => s < next \/ s = next
    BY <2>1 DEF Slots
  <2>. QED BY <2>1, <2>4, <2>5 DEF UnloadInv, Cleared
<1>. QED BY <1>1, <1>2, <1>3, <1>4, Zenon DEF UnloadStep

(* ac_clear_protected() empties the table: no entry and no claim is left   *)
(* when ac_exit() flushes for the last time.                               *)
THEOREM UnloadLeavesEmpty == Spec => []UnloadEmpties
<1>1. Init => UnloadInv
  BY DEF Init, UnloadInv, Cleared
<1>2. IInv /\ UnloadInv /\ [Next]_vars => UnloadInv'
  <2>1. ASSUME UnloadInv, UNCHANGED vars PROVE UnloadInv'
    BY <2>1 DEF UnloadInv, Cleared, vars
  <2>. QED BY <2>1, CallerUnload, UnregUnload, KernelUnload, StepUnload DEF Next
<1>3. UnloadInv => UnloadEmpties
  <2>. SUFFICES ASSUME UnloadInv, phase \in {"flush2", "gone"}, NEW s \in Slots
                PROVE  mm[s] = NoMM
    BY Zenon DEF UnloadEmpties
  <2>1. s < next
    BY MaxAssumption DEF UnloadInv, Slots
  <2>. QED BY Zenon, <2>1 DEF UnloadInv, Cleared
<1>. QED BY <1>1, <1>2, <1>3, Invariance, PTL DEF Spec

-----------------------------------------------------------------------------
(* What an add reported holds as long as the entries and claims for the mm *)
(* do, or the mm is given up.                                              *)
LEMMA CoverKept ==
  ASSUME NEW m \in MMs, AckedCovered(m),
         m \in acked' /\ life'[m] \in {"live", "orphan"} =>
           m \in acked /\ life[m] \in {"live", "orphan"} /\ \A s \in Slots : Covers(s, m) => Covers(s, m)'
  PROVE  AckedCovered(m)'
BY Zenon DEF AckedCovered

(* The adds and deletes: only an error gives up a claim that another add   *)
(* took for covered.                                                       *)
LEMMA CallerCovers ==
  ASSUME IInv, NEW c \in Callers, CallerStep(c), NEW m \in MMs, AckedCovered(m),
         ~(opMm[c] = m /\ AddFailed(c))
  PROVE  AckedCovered(m)'
<1>. TypeOK /\ StageInv /\ ActorInv
  BY Zenon DEF IInv
<1>1. ASSUME NEW n \in MMs, Pin(c, n) PROVE AckedCovered(m)'
  BY <1>1, Zenon DEF Pin, AckedCovered, Covers
<1>2. CASE AddFull(c) \/ Register(c) \/ RegisterFail(c)
  BY <1>2, Zenon DEF AddFull, Register, RegisterFail, AckedCovered, Covers
<1>3. CASE AddDedupe(c)
  BY <1>3, Zenon DEF AddDedupe, AckedCovered, Covers
<1>4. CASE AddClaim(c)
  <2>1. \A s \in Slots : Covers(s, m) => Covers(s, m)'
    <3>. SUFFICES ASSUME NEW s \in Slots, Covers(s, m) PROVE Covers(s, m)'
      BY Zenon
    <3>1. PICK t \in Slots : /\ FreeSlot(t) /\ mm' = [mm EXCEPT ![t] = RESERVED]
                             /\ claiming' = [claiming EXCEPT ![t] = opMm[c]]
                             /\ cancel' = cancel \ {t} /\ removing' = removing
      BY <1>4, Zenon DEF AddClaim
    <3>2. s # t
      BY <3>1, Zenon DEF FreeSlot, Covers
    <3>3. mm = [k \in Slots |-> mm[k]] /\ claiming = [k \in Slots |-> claiming[k]]
      BY Zenon DEF TypeOK
    <3>4. mm'[s] = mm[s] /\ claiming'[s] = claiming[s]
      BY <3>1, <3>2, <3>3, Zenon
    <3>. QED BY <3>1, <3>4, Zenon DEF Covers
  <2>. QED BY <1>4, <2>1, CoverKept, Zenon DEF AddClaim
<1>5. CASE AddFailed(c)
  <2>1. /\ claiming[opSlot[c]] = opMm[c] /\ mm[opSlot[c]] = RESERVED /\ opMm[c] # m
        /\ opSlot[c] \in Slots
    BY Zenon, <1>5 DEF AddFailed, StageInv, ActorInv
  <2>2. \A s \in Slots : Covers(s, m) => Covers(s, m)'
    BY Zenon, <1>5, <2>1 DEF AddFailed, Covers, TypeOK
  <2>. QED BY <1>5, <2>2, CoverKept, Zenon DEF AddFailed
<1>6. CASE AddCancelled(c)
  <2>1. mm[opSlot[c]] = RESERVED /\ opSlot[c] \in cancel /\ opSlot[c] \in Slots
    BY Zenon, <1>6 DEF AddCancelled, StageInv, ActorInv
  <2>2. \A s \in Slots : Covers(s, m) => Covers(s, m)'
    BY Zenon, <1>6, <2>1 DEF AddCancelled, Covers, TypeOK
  <2>. QED BY <1>6, <2>2, CoverKept, Zenon DEF AddCancelled
<1>7. CASE AddPublish(c)
  <2>1. /\ mm[opSlot[c]] = RESERVED /\ claiming[opSlot[c]] = opMm[c] /\ opSlot[c] \notin removing
        /\ opSlot[c] \in Slots
    BY Zenon, <1>7 DEF AddPublish, StageInv, ActorInv
  <2>2. CASE m = opMm[c]
    <3>1. PICK s \in Slots : s = opSlot[c]
      BY <2>1
    <3>2. mm' = [mm EXCEPT ![s] = opMm[c]] /\ removing' = removing
      BY <1>7, <3>1, Zenon DEF AddPublish
    <3>3. Covers(s, m)'
      BY SMTT(20), <2>1, <2>2, <3>1, <3>2 DEF Covers, TypeOK
    <3>. QED BY <3>3, Zenon DEF AckedCovered
  <2>3. CASE m # opMm[c]
    <3>1. \A s \in Slots : Covers(s, m) => Covers(s, m)'
      BY <1>7, <2>1, <2>3 DEF AddPublish, Covers, TypeOK
    <3>2. life' = life /\ acked' = acked \cup {opMm[c]}
      BY <1>7, Zenon DEF AddPublish
    <3>. QED BY Zenon, <2>3, <3>1, <3>2, CoverKept
  <2>. QED BY Zenon, <2>2, <2>3
<1>8. CASE DelFound(c)
  <2>1. acked' = acked \ {opMm[c]} /\ life' = life
    BY <1>8, Zenon DEF DelFound
  <2>2. CASE m = opMm[c]
    BY <2>1, <2>2, Zenon DEF AckedCovered
  <2>3. CASE m # opMm[c]
    <3>1. \A s \in Slots : Covers(s, m) => Covers(s, m)'
      BY <1>8, <2>3 DEF DelFound, LiveEntry, Covers
    <3>. QED BY <2>1, <3>1, CoverKept, Zenon
  <2>. QED BY <2>2, <2>3
<1>9. CASE DelCancel(c)
  <2>1. acked' = acked \ {opMm[c]} /\ life' = life
    BY <1>9, Zenon DEF DelCancel
  <2>2. CASE m = opMm[c]
    BY <2>1, <2>2, Zenon DEF AckedCovered
  <2>3. CASE m # opMm[c]
    <3>1. \A s \in Slots : Covers(s, m) => Covers(s, m)'
      BY Zenon, <1>9, <2>3 DEF DelCancel, ClaimsFor, Covers
    <3>. QED BY <2>1, <3>1, CoverKept, Zenon
  <2>. QED BY <2>2, <2>3
<1>. QED BY <1>1, <1>2, <1>3, <1>4, <1>5, <1>6, <1>7, <1>8, <1>9, Zenon DEF CallerStep

(* The unregister works on slots that cover nothing any more.              *)
LEMMA UnregCovers ==
  ASSUME IInv, NEW a \in Actors, UnregStep(a), NEW m \in MMs, AckedCovered(m)
  PROVE  AckedCovered(m)'
<1>. TypeOK /\ StageInv
  BY Zenon DEF IInv
<1>1. life' = life /\ acked' = acked
  BY Zenon DEF UnregStep, Unregister, SyncDrop, ClearRemoving
<1>2. CASE Unregister(a)
  <2>1. opSlot[a] \in removing /\ mm[opSlot[a]] \in {NoMM, opMm[a]} /\ RESERVED # opMm[a]
    <3>1. pc[a] = "unreg"
      BY <1>2, Zenon DEF Unregister
    <3>2. opMm[a] \in MMs \cup {NoMM}
      BY Zenon DEF TypeOK
    <3>. QED BY <3>1, <3>2, Zenon DEF StageInv
  <2>2. /\ \A s \in Slots : s # opSlot[a] => mm'[s] = mm[s]
        /\ removing' = removing /\ claiming' = claiming /\ cancel' = cancel
    <3>1. claiming' = claiming /\ cancel' = cancel
      BY <1>2, Zenon DEF Unregister
    <3>2. CASE ReleaseLocked(opSlot[a], opMm[a])
      <4>1. removing' \in {removing, removing \cup {opSlot[a]}}
        BY <3>2, Zenon DEF ReleaseLocked
      <4>2. removing \cup {opSlot[a]} = removing
        BY <2>1, Zenon
      <4>3. mm' \in {mm, [mm EXCEPT ![opSlot[a]] = NoMM]}
        BY <3>2, Zenon DEF ReleaseLocked
      <4>. QED BY Zenon, <3>1, <4>1, <4>2, <4>3 DEF TypeOK
    <3>3. CASE UNCHANGED <<mm, removing>>
      BY <3>1, <3>3, Zenon
    <3>. QED BY <1>2, <3>2, <3>3, Zenon DEF Unregister
  <2>3. \A s \in Slots : Covers(s, m) => Covers(s, m)'
    BY Zenon, <2>1, <2>2 DEF Covers
  <2>. QED BY <1>1, <2>3, CoverKept, Zenon
<1>3. CASE SyncDrop(a) \/ ClearRemoving(a)
  <2>1. mm' = mm /\ removing' \subseteq removing /\ claiming' = claiming /\ cancel' = cancel
    BY <1>3, Zenon DEF SyncDrop, ClearRemoving
  <2>2. \A s \in Slots : Covers(s, m) => Covers(s, m)'
    BY <2>1 DEF Covers
  <2>. QED BY <1>1, <2>2, CoverKept, Zenon
<1>. QED BY <1>2, <1>3, Zenon DEF UnregStep

(* An exit clears only entries of the mm that exits.                       *)
LEMMA KernelCovers ==
  ASSUME IInv, NEW n \in MMs, KernelStep(n), NEW m \in MMs, AckedCovered(m)
  PROVE  AckedCovered(m)'
<1>. TypeOK
  BY Zenon DEF IInv
<1>1. CASE ExitRelease(n)
  <2>1. life' = life /\ acked' = acked /\ life[n] = "walk"
    BY <1>1, Zenon DEF ExitRelease
  <2>2. CASE m = n
    BY <2>1, <2>2, Zenon DEF AckedCovered
  <2>3. CASE m # n
    <3>1. ASSUME NEW s \in Slots, Covers(s, m) PROVE Covers(s, m)'
      <4>1. PICK t \in Slots : ReleaseLocked(t, n) /\ UNCHANGED <<claiming, cancel>>
        BY <1>1, Zenon DEF ExitRelease, ListOf, TypeOK
      <4>2. CASE ~ReleaseMatch(t, n)
        BY <3>1, <4>1, <4>2, Zenon DEF ReleaseLocked, Covers
      <4>3. CASE ReleaseMatch(t, n)
        <5>1. /\ mm[t] = n /\ mm' = [mm EXCEPT ![t] = NoMM] /\ removing' = removing \cup {t}
          BY <4>1, <4>3, Zenon DEF ReleaseLocked, ReleaseMatch
        <5>2. s # t
          BY <2>3, <3>1, <5>1, Zenon DEF Covers
        <5>3. mm = [k \in Slots |-> mm[k]]
          BY Zenon DEF TypeOK
        <5>4. mm'[s] = mm[s]
          BY <5>1, <5>2, <5>3, Zenon
        <5>. QED BY <3>1, <4>1, <5>1, <5>2, <5>4, Zenon DEF Covers
      <4>. QED BY <4>2, <4>3, Zenon
    <3>. QED BY <2>1, <3>1, CoverKept, Zenon
  <2>. QED BY <2>2, <2>3
<1>2. CASE Reborn(n)
  <2>1. \A s \in Slots : Covers(s, m) => Covers(s, m)'
    BY <1>2, Zenon DEF Reborn, Covers
  <2>2. m \in acked' => m \in acked /\ m # n /\ life'[m] = life[m]
    BY <1>2 DEF Reborn, TypeOK
  <2>. QED BY <2>1, <2>2, CoverKept, Zenon
<1>3. CASE TaskExit(n) \/ ExitBegin(n) \/ QueueRelease(n) \/ ExitDone(n)
  <2>1. \A s \in Slots : Covers(s, m) => Covers(s, m)'
    BY <1>3, Zenon DEF TaskExit, ExitBegin, QueueRelease, ExitDone, Covers
  <2>2. acked' = acked /\ (life'[m] \in {"live", "orphan"} => life[m] \in {"live", "orphan"})
    BY Zenon, <1>3 DEF TaskExit, ExitBegin, QueueRelease, ExitDone, TypeOK
  <2>. QED BY <2>1, <2>2, CoverKept, Zenon
<1>. QED BY <1>1, <1>2, <1>3, Zenon DEF KernelStep

(* What one step may take away.                                            *)
LEMMA StepCovers ==
  ASSUME IInv, [Next]_vars, phase' = "loaded", NEW m \in MMs, AckedCovered(m),
         ~\E c \in Callers : opMm[c] = m /\ AddFailed(c)
  PROVE  AckedCovered(m)'
<1>1. CASE UnloadStep
  BY <1>1, Zenon DEF UnloadStep, UnloadBegin, FlushDone, ClearStep, ClearDone
<1>2. CASE UNCHANGED vars
  BY <1>2, Zenon DEF vars, AckedCovered, Covers
<1>. QED BY <1>1, <1>2, CallerCovers, UnregCovers, KernelCovers, Zenon DEF Next

(* An add that was reported done is undone by nothing but a delete, the    *)
(* end of the task, or the failed registration of the claim it relied on.  *)
THEOREM AckHolds == Spec => AckedUntilError
<1>1. IInv /\ [Next]_vars =>
        [phase' = "loaded" =>
           \A m \in MMs : AckedCovered(m) =>
             AckedCovered(m)' \/ \E c \in Callers : opMm[c] = m /\ AddFailed(c)]_vars
  BY StepCovers, Zenon
<1>. QED BY <1>1, Invariance, PTL DEF Spec, AckedUntilError

(* So where mmu_notifier_register() does not fail, every add that returned *)
(* 0 is covered for as long as the module is loaded.                       *)
THEOREM AckProtects == ~RegisterErrors => (Spec => []AckedProtected)
<1>. SUFFICES ASSUME ~RegisterErrors PROVE Spec => []AckedProtected
  OBVIOUS
<1>. DEFINE NoError == \A c \in Callers : pc[c] # "failed"
<1>1. Init => NoError /\ AckedProtected
  BY Zenon DEF Init, AckedProtected, AckedCovered
<1>2. IInv /\ NoError /\ [Next]_vars => NoError'
  <2>. SUFFICES ASSUME IInv, NoError, [Next]_vars, NEW c \in Callers PROVE pc'[c] # "failed"
    OBVIOUS
  <2>. TypeOK
    BY Zenon DEF IInv
  <2>1. ASSUME NEW d \in Callers, CallerStep(d) PROVE pc'[c] # "failed"
    BY ZenonT(30), <2>1 DEF CallerStep, Pin, AddDedupe, AddFull, AddClaim, DelFound, DelCancel, Register,
                RegisterFail, AddFailed, AddCancelled, AddPublish, TypeOK
  <2>2. ASSUME NEW a \in Actors, UnregStep(a) PROVE pc'[c] # "failed"
    BY Zenon, <2>2 DEF UnregStep, Unregister, SyncDrop, ClearRemoving, TypeOK
  <2>3. ASSUME NEW m \in MMs, KernelStep(m) PROVE pc'[c] # "failed"
    BY Zenon, <2>3 DEF KernelStep, TaskExit, ExitBegin, ExitRelease, QueueRelease, ExitDone, Reborn, TypeOK
  <2>4. CASE UnloadStep \/ UNCHANGED vars
    BY Zenon, <2>4 DEF UnloadStep, UnloadBegin, FlushDone, ClearStep, ClearDone, vars, TypeOK
  <2>. QED BY Zenon, <2>1, <2>2, <2>3, <2>4 DEF Next
<1>3. phase' = "loaded" /\ [Next]_vars => phase = "loaded"
  <2>. SUFFICES ASSUME phase' = "loaded", [Next]_vars PROVE phase = "loaded"
    OBVIOUS
  <2>1. ASSUME NEW d \in Callers, CallerStep(d) PROVE phase' = phase
    BY <2>1, Zenon DEF CallerStep, Pin, AddDedupe, AddFull, AddClaim, DelFound, DelCancel, Register,
                RegisterFail, AddFailed, AddCancelled, AddPublish
  <2>2. ASSUME NEW a \in Actors, UnregStep(a) PROVE phase' = phase
    BY <2>2, Zenon DEF UnregStep, Unregister, SyncDrop, ClearRemoving
  <2>3. ASSUME NEW m \in MMs, KernelStep(m) PROVE phase' = phase
    BY <2>3, Zenon DEF KernelStep, TaskExit, ExitBegin, ExitRelease, QueueRelease, ExitDone, Reborn
  <2>4. CASE UnloadStep \/ UNCHANGED vars
    BY <2>4, Zenon DEF UnloadStep, UnloadBegin, FlushDone, ClearStep, ClearDone, vars
  <2>. QED BY <2>1, <2>2, <2>3, <2>4 DEF Next
<1>4. IInv /\ NoError /\ AckedProtected /\ [Next]_vars => AckedProtected'
  <2>. SUFFICES ASSUME IInv, NoError, AckedProtected, [Next]_vars, phase' = "loaded", NEW m \in MMs
                PROVE  AckedCovered(m)'
    BY Zenon DEF AckedProtected
  <2>1. AckedCovered(m)
    BY <1>3, Zenon DEF AckedProtected
  <2>2. ~\E c \in Callers : opMm[c] = m /\ AddFailed(c)
    BY Zenon DEF AddFailed
  <2>. QED BY <2>1, <2>2, StepCovers, Zenon
<1>. QED BY <1>1, <1>2, <1>4, Invariance, PTL DEF Spec
=============================================================================
