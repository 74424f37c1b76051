-------------------------- MODULE IntegrityProofs --------------------------
(* The integrity checks: of the syscall table, for every size of the table *)
(* and of the ring and every number of callers; and of a process against   *)
(* the baselines, for any layout of its mappings, any records and any      *)
(* contents of its memory.                                                 *)
EXTENDS SyscallCheck, BaselineCheck, FiniteSetTheorems, SequenceTheorems,
        WellFoundedInduction, TLAPS

(* The locals of a call of ac_check_syscalls().                            *)
CallRec ==
  [at : {"idle", "read", "apply", "done", "out"}, i : Nat, e : Entries, ok : BOOLEAN,
   have : BOOLEAN, hooked : Nat, redirected : Nat, hash : Seq(Entries),
   base : [Slots -> Entries] \cup {<<>>}, quiet : BOOLEAN]

SysTypeOK ==
  /\ table \in [Slots -> Entries] /\ baseline \in [Slots -> Entries]
  /\ captured \subseteq Slots
  /\ call \in [Callers -> CallRec]
  /\ last \in [Slots -> Entries \cup {"none"}]

(* Who is inside the critical section, how far it is, and what it knows of *)
(* its slot.                                                               *)
Inside(r) == r.at \in {"read", "apply", "done"}
Turn(c, r, l, cap) ==
  /\ Inside(r) => l = c
  /\ r.at \in {"read", "apply"} => r.i \in Slots
  /\ r.at \in {"done", "out"} => r.i = NSlots + 1
  /\ r.at # "idle" => Len(r.hash) = IF r.at = "apply" THEN r.i ELSE r.i - 1
  /\ r.at = "apply" => r.have = (r.i \in cap)
TurnInv == \A c \in Callers : Turn(c, call[c], lock, captured)

(* What an undisturbed check has found in the slots it is done with.       *)
Past(r) == 1 .. r.i - 1
Exact(r, t, b, cap) ==
  /\ \A j \in 1 .. Len(r.hash) : r.hash[j] = t[j]
  /\ Past(r) \subseteq cap
  /\ r.hooked = 0 <=> \A j \in Past(r) : t[j] # "Out"
  /\ r.redirected = 0 <=> \A j \in Past(r) : t[j] = b[j] \/ EntryBad(t[j])
  /\ r.at = "apply" => r.ok /\ r.e = t[r.i]
  /\ r.at = "out" => r.base = b
Quiet(r) == r.quiet /\ r.at # "idle"
ExactInv == \A c \in Callers : Quiet(call[c]) => Exact(call[c], table, baseline, captured)

(* A slot whose hook was reported has its bit set.                         *)
EdgeInv == \A s \in Slots : last[s] = "none" => s \in hookedBits

SysInv == SysTypeOK /\ TurnInv /\ ExactInv /\ EdgeInv

(* A check in which another caller's step backfills a slot: what it found  *)
(* in the slots it is done with still stands, since those had a baseline.  *)
LEMMA ExactKept ==
  ASSUME SyscallAssumption, NEW r \in CallRec, NEW l, NEW d, NEW t \in [Slots -> Entries],
         NEW b \in [Slots -> Entries], NEW b2 \in [Slots -> Entries],
         NEW cap \in SUBSET Slots, NEW cap2 \in SUBSET Slots,
         cap \subseteq cap2, \A s \in cap : b2[s] = b[s],
         Turn(d, r, l, cap), Quiet(r), Exact(r, t, b, cap)
  PROVE  Exact(r, t, b2, cap2)
<1>1. Past(r) \subseteq cap /\ Past(r) \subseteq cap2
  BY Zenon DEF Exact
<1>2. \A j \in Past(r) : b2[j] = b[j]
  BY <1>1, Zenon
<1>3. ASSUME r.at = "out" PROVE b2 = b
  <2>1. r.i = NSlots + 1
    BY <1>3 DEF Turn
  <2>2. Past(r) = Slots
    BY <2>1, SyscallAssumption DEF Past, Slots
  <2> QED BY <2>2, <1>2
<1> QED BY <1>1, <1>2, <1>3, Zenon DEF Exact

(* One caller's record changes: the invariants of the others stand.        *)
LEMMA CallReplaced ==
  ASSUME SyscallAssumption, SysTypeOK, TurnInv, ExactInv, NEW c \in Callers,
         NEW r \in CallRec, call' = [call EXCEPT ![c] = r], table' = table,
         baseline' \in [Slots -> Entries], captured' \in SUBSET Slots,
         captured \subseteq captured', \A s \in captured : baseline'[s] = baseline[s],
         \A d \in Callers \ {c} : Inside(call[d]) => lock' = lock /\ captured' = captured,
         Turn(c, r, lock', captured'),
         Quiet(r) => Exact(r, table, baseline', captured')
  PROVE  call' \in [Callers -> CallRec] /\ TurnInv' /\ ExactInv'
<1>1. call' \in [Callers -> CallRec]
  BY DEF SysTypeOK
<1>2. call'[c] = r /\ \A d \in Callers \ {c} : call'[d] = call[d]
  BY DEF SysTypeOK
<1>3. ASSUME NEW d \in Callers PROVE Turn(d, call'[d], lock', captured')
  <2>1. CASE d = c
    BY <2>1, <1>2, Zenon
  <2>2. CASE d # c
    <3>1. call'[d] = call[d] /\ Turn(d, call[d], lock, captured)
      BY <2>2, <1>2, Zenon DEF TurnInv
    <3>2. Inside(call[d]) => lock' = lock /\ captured' = captured
      BY <2>2, Zenon
    <3> QED BY <3>1, <3>2, Zenon DEF Turn, Inside
  <2> QED BY <2>1, <2>2, Zenon
<1>4. ASSUME NEW d \in Callers, Quiet(call'[d])
      PROVE  Exact(call'[d], table, baseline', captured')
  <2>1. CASE d = c
    BY <2>1, <1>2, <1>4, Zenon
  <2>2. CASE d # c
    <3>1. call'[d] = call[d] /\ call[d] \in CallRec /\ Quiet(call[d])
      BY <2>2, <1>2, <1>4 DEF SysTypeOK
    <3>2. Turn(d, call[d], lock, captured) /\ Exact(call[d], table, baseline, captured)
      BY <3>1, Zenon DEF TurnInv, ExactInv
    <3>3. table \in [Slots -> Entries] /\ baseline \in [Slots -> Entries] /\ captured \in SUBSET Slots
      BY DEF SysTypeOK
    <3> QED BY <3>1, <3>2, <3>3, ExactKept
  <2> QED BY <2>1, <2>2, Zenon
<1> QED BY <1>1, <1>3, <1>4, Zenon DEF TurnInv, ExactInv

(* The record of a caller that is not in the ioctl.                        *)
LEMMA NoCallTyped == NoCall \in CallRec /\ NoCall.at = "idle"
<1>1. "Null" \in Entries /\ <<>> \in Seq(Entries) /\ <<>> \in [Slots -> Entries] \cup {<<>>}
  BY DEF Entries
<1> QED BY <1>1 DEF NoCall, CallRec

(* A caller that takes the free lock starts at the first slot.             *)
LEMMA StartKeeps ==
  ASSUME SyscallAssumption, SysInv, NEW c \in Callers, StartCheck(c) PROVE SysInv'
<1> DEFINE r == [NoCall EXCEPT !.at = "read", !.i = 1]
<1>1. /\ lock = Nobody /\ lock' = c /\ call' = [call EXCEPT ![c] = r]
      /\ table' = table /\ baseline' = baseline /\ captured' = captured
      /\ hookedBits' = hookedBits /\ last' = last
  BY DEF StartCheck, LockFree, kernelVars
<1>2. /\ r.at = "read" /\ r.i = 1 /\ r.hash = <<>> /\ r.hooked = 0 /\ r.redirected = 0
      /\ r \in CallRec
  <2>1. r \in CallRec
    BY Zenon, NoCallTyped DEF CallRec
  <2> QED BY <2>1 DEF NoCall
<1> HIDE DEF r
<1>3. Turn(c, r, lock', captured')
  BY <1>1, <1>2, SyscallAssumption DEF Turn, Slots
<1>4. Past(r) = {}
  BY <1>2 DEF Past
<1>5. Exact(r, table, baseline', captured')
  BY <1>2, <1>4 DEF Exact
<1>6. \A d \in Callers : ~Inside(call[d])
  BY <1>1, SyscallAssumption, Zenon DEF SysInv, TurnInv, Turn
<1>7. call' \in [Callers -> CallRec] /\ TurnInv' /\ ExactInv'
  <2>1. SysTypeOK /\ TurnInv /\ ExactInv
    BY Zenon DEF SysInv
  <2>2. baseline' \in [Slots -> Entries] /\ captured' \in SUBSET Slots
    BY <2>1, <1>1 DEF SysTypeOK
  <2> QED BY <1>1, <1>2, <1>3, <1>5, <1>6, <2>1, <2>2, CallReplaced, Zenon
<1> QED BY <1>1, <1>7 DEF SysInv, SysTypeOK, EdgeInv

(* A read of a slot, or one that failed: the slot's entry joins the hash.  *)
LEMMA ReadKeeps ==
  ASSUME SyscallAssumption, SysInv, NEW c \in Callers, NEW ok \in BOOLEAN, ReadSlot(c, ok)
  PROVE  SysInv'
<1> DEFINE s == call[c].i
           e == IF ok THEN table[s] ELSE Trusted(s)
           r == [call[c] EXCEPT !.at = "apply", !.e = e, !.ok = ok,
                                !.have = s \in captured, !.hash = Append(@, e),
                                !.quiet = @ /\ ok]
<1>1. /\ call[c].at = "read" /\ call' = [call EXCEPT ![c] = r]
      /\ table' = table /\ baseline' = baseline /\ captured' = captured
      /\ lock' = lock /\ hookedBits' = hookedBits /\ last' = last
  BY Zenon DEF ReadSlot, kernelVars, SysInv, SysTypeOK
<1>2. SysTypeOK /\ TurnInv /\ ExactInv
  BY Zenon DEF SysInv
<1>3. call[c] \in CallRec /\ s \in Slots /\ lock = c /\ Len(call[c].hash) = s - 1
  BY <1>1, <1>2 DEF SysTypeOK, TurnInv, Turn, Inside
<1>4. e \in Entries
  BY <1>2, <1>3 DEF SysTypeOK, Trusted, Entries
<1>5. call[c].hash \in Seq(Entries)
  BY <1>3 DEF CallRec
<1> HIDE DEF e
<1>6. r \in CallRec
  <2>1. (s \in captured) \in BOOLEAN /\ (call[c].quiet /\ ok) \in BOOLEAN
    OBVIOUS
  <2>2. Append(call[c].hash, e) \in Seq(Entries)
    BY <1>4, <1>5
  <2> QED BY Zenon, <1>3, <1>4, <2>1, <2>2 DEF CallRec
<1>7. /\ r.at = "apply" /\ r.i = s /\ r.e = e /\ r.ok = ok /\ r.have = (s \in captured)
      /\ r.hash = Append(call[c].hash, e) /\ r.quiet = (call[c].quiet /\ ok)
      /\ r.hooked = call[c].hooked /\ r.redirected = call[c].redirected
  BY Zenon, <1>3 DEF CallRec
<1> HIDE DEF r
<1>8. Len(r.hash) = s /\ r.hash[s] = e /\ \A j \in 1 .. s - 1 : r.hash[j] = call[c].hash[j]
  <2>1. s \in Nat
    BY <1>3, SyscallAssumption DEF Slots
  <2> HIDE DEF s
  <2> QED BY <2>1, <1>3, <1>4, <1>5, <1>7
<1>9. Turn(c, r, lock', captured')
  BY <1>1, <1>3, <1>7, <1>8 DEF Turn
<1>10. ASSUME Quiet(r) PROVE Exact(r, table, baseline', captured')
  <2>1. ok /\ call[c].quiet
    BY Zenon, <1>7, <1>10 DEF Quiet
  <2>2. Exact(call[c], table, baseline, captured)
    BY <2>1, <1>1, <1>2 DEF ExactInv, Quiet
  <2>3. e = table[s] /\ Past(r) = Past(call[c])
    BY <2>1, <1>7 DEF e, Past
  <2>4. \A j \in 1 .. Len(r.hash) : r.hash[j] = table[j]
    <3>1. \A j \in 1 .. s - 1 : r.hash[j] = table[j]
      BY <1>3, <1>8, <2>2 DEF Exact
    <3>2. s \in Nat
      BY <1>3, SyscallAssumption DEF Slots
    <3> HIDE DEF s
    <3> QED BY <3>1, <3>2, <1>8, <2>3
  <2> QED BY <2>1, <2>2, <2>3, <2>4, <1>1, <1>7 DEF Exact
<1>11. call' \in [Callers -> CallRec] /\ TurnInv' /\ ExactInv'
  <2>1. baseline' \in [Slots -> Entries] /\ captured' \in SUBSET Slots
    BY <1>1, <1>2 DEF SysTypeOK
  <2> QED BY <1>1, <1>2, <1>6, <1>9, <1>10, <2>1, CallReplaced, Zenon
<1> QED BY <1>1, <1>11 DEF SysInv, SysTypeOK, EdgeInv

(* The turn of a slot that was not read ends: the check is not quiet.      *)
LEMMA AdvanceTyped ==
  ASSUME SyscallAssumption, NEW rec \in CallRec, rec.i \in Slots, rec.at = "apply",
         Len(rec.hash) = rec.i
  PROVE  LET r == [rec EXCEPT !.i = @ + 1,
                              !.at = IF rec.i = NSlots THEN "done" ELSE "read"] IN
         /\ r \in CallRec /\ r.i = rec.i + 1 /\ Past(r) = 1 .. rec.i
         /\ r.at = (IF rec.i = NSlots THEN "done" ELSE "read")
         /\ r.hash = rec.hash /\ r.hooked = rec.hooked /\ r.redirected = rec.redirected
         /\ r.quiet = rec.quiet
         /\ \A c, cap : Turn(c, r, c, cap)
<1> DEFINE r == [rec EXCEPT !.i = @ + 1,
                            !.at = IF rec.i = NSlots THEN "done" ELSE "read"]
<1>1. rec.i \in Nat /\ NSlots \in Nat /\ rec.i + 1 \in Nat
  BY SyscallAssumption DEF Slots
<1>2. /\ r.i = rec.i + 1 /\ r.at = (IF rec.i = NSlots THEN "done" ELSE "read")
      /\ r.hash = rec.hash /\ r.hooked = rec.hooked /\ r.redirected = rec.redirected
      /\ r.quiet = rec.quiet
  BY DEF CallRec
<1>3. r \in CallRec
  BY Zenon, <1>1 DEF CallRec
<1> HIDE DEF r
<1>4. Past(r) = 1 .. rec.i
  BY <1>1, <1>2 DEF Past
<1>5. ASSUME NEW c, NEW cap PROVE Turn(c, r, c, cap)
  <2>1. rec.i # NSlots => rec.i + 1 \in Slots
    BY <1>1 DEF Slots
  <2> QED BY <1>1, <1>2, <2>1 DEF Turn
<1> QED BY <1>2, <1>3, <1>4, <1>5 DEF r

(* A slot whose read failed is passed over.                                *)
LEMMA UnreadKeeps ==
  ASSUME SyscallAssumption, SysInv, NEW c \in Callers, Unread(c) PROVE SysInv'
<1> DEFINE r == [call[c] EXCEPT !.i = @ + 1,
                                !.at = IF call[c].i = NSlots THEN "done" ELSE "read"]
<1>1. /\ call[c].at = "apply" /\ ~call[c].ok /\ call' = [call EXCEPT ![c] = r]
      /\ table' = table /\ baseline' = baseline /\ captured' = captured
      /\ lock' = lock /\ hookedBits' = hookedBits /\ last' = last
  BY DEF Unread, Advance, kernelVars
<1>2. SysTypeOK /\ TurnInv /\ ExactInv
  BY Zenon DEF SysInv
<1>3. call[c] \in CallRec /\ call[c].i \in Slots /\ lock = c /\ Len(call[c].hash) = call[c].i
  BY <1>1, <1>2 DEF SysTypeOK, TurnInv, Turn, Inside
<1>4. r \in CallRec /\ Turn(c, r, lock', captured') /\ r.quiet = call[c].quiet
  BY Zenon, <1>1, <1>3, AdvanceTyped
<1> HIDE DEF r
<1>5. ~Quiet(r)
  BY <1>1, <1>2, <1>4 DEF ExactInv, Exact, Quiet
<1>6. call' \in [Callers -> CallRec] /\ TurnInv' /\ ExactInv'
  <2>1. baseline' \in [Slots -> Entries] /\ captured' \in SUBSET Slots
    BY <1>1, <1>2 DEF SysTypeOK
  <2> QED BY <1>1, <1>2, <1>4, <1>5, <2>1, CallReplaced, Zenon
<1> QED BY <1>1, <1>6 DEF SysInv, SysTypeOK, EdgeInv

(* The baseline is copied, then the lock is released.                      *)
LEMMA UnlockKeeps ==
  ASSUME SyscallAssumption, SysInv, NEW c \in Callers, Unlock(c) PROVE SysInv'
<1> DEFINE r == [call[c] EXCEPT !.at = "out", !.base = [s \in Slots |-> baseline[s]]]
<1>1. /\ call[c].at = "done" /\ call' = [call EXCEPT ![c] = r]
      /\ table' = table /\ baseline' = baseline /\ captured' = captured
      /\ hookedBits' = hookedBits /\ last' = last
  BY Zenon DEF Unlock, kernelVars, SysInv, SysTypeOK
<1>2. SysTypeOK /\ TurnInv /\ ExactInv
  BY Zenon DEF SysInv
<1>3. call[c] \in CallRec /\ Turn(c, call[c], lock, captured) /\ lock = c
  BY <1>1, <1>2 DEF SysTypeOK, TurnInv, Turn, Inside
<1>4. [s \in Slots |-> baseline[s]] = baseline /\ baseline \in [Slots -> Entries]
  BY <1>2 DEF SysTypeOK
<1>5. r \in CallRec
  BY Zenon, <1>3, <1>4 DEF CallRec
<1>6. /\ r.at = "out" /\ r.base = baseline /\ r.i = call[c].i /\ r.hash = call[c].hash
      /\ r.hooked = call[c].hooked /\ r.redirected = call[c].redirected
      /\ r.quiet = call[c].quiet
  BY <1>3, <1>4 DEF CallRec
<1> HIDE DEF r
<1>7. Turn(c, r, lock', captured')
  BY Zenon, <1>1, <1>3, <1>6 DEF Turn, Inside
<1>8. ASSUME Quiet(r) PROVE Exact(r, table, baseline', captured')
  <2>1. Exact(call[c], table, baseline, captured)
    BY Zenon, <1>1, <1>2, <1>6, <1>8 DEF ExactInv, Quiet
  <2> QED BY <2>1, <1>1, <1>6 DEF Exact, Past
<1>9. \A d \in Callers \ {c} : ~Inside(call[d])
  BY <1>2, <1>3, Zenon DEF TurnInv, Turn
<1>10. call' \in [Callers -> CallRec] /\ TurnInv' /\ ExactInv'
  <2>1. baseline' \in [Slots -> Entries] /\ captured' \in SUBSET Slots
    BY Zenon, <1>1, <1>2 DEF SysTypeOK
  <2> QED BY <1>1, <1>2, <1>5, <1>7, <1>8, <1>9, <2>1, CallReplaced, Zenon
<1> QED BY <1>1, <1>10 DEF SysInv, SysTypeOK, EdgeInv

(* A slot that was read: its baseline, its bits, the counters.             *)
LEMMA ApplyKeeps ==
  ASSUME SyscallAssumption, SysInv, NEW c \in Callers, ApplySlot(c) PROVE SysInv'
<1> DEFINE s == call[c].i
           e == call[c].e
           redirect == call[c].have /\ e # baseline[s] /\ ~EntryBad(e)
           nr == IF redirect THEN call[c].redirected + 1 ELSE call[c].redirected
           nh == IF IsHook(e) THEN call[c].hooked + 1 ELSE call[c].hooked
           rec == [call[c] EXCEPT !.redirected = nr, !.hooked = nh]
           r == [rec EXCEPT !.i = @ + 1, !.at = IF rec.i = NSlots THEN "done" ELSE "read"]
<1>1. SysTypeOK /\ TurnInv /\ ExactInv /\ EdgeInv
  BY Zenon DEF SysInv
<1>2. call[c] \in CallRec /\ call[c].at = "apply" /\ call[c].ok
  BY <1>1 DEF ApplySlot, SysTypeOK
<1>3. /\ s \in Slots /\ e \in Entries /\ lock = c /\ Len(call[c].hash) = s
      /\ call[c].have = (s \in captured)
  BY <1>1, <1>2 DEF TurnInv, Turn, Inside, CallRec
<1>4. /\ baseline' = IF call[c].have THEN baseline ELSE [baseline EXCEPT ![s] = e]
      /\ captured' = captured \cup {s} /\ table' = table /\ lock' = lock
      /\ hookedBits' = HookedBitsAfter(s, e)
      /\ last' = [last EXCEPT ![s] = IF HookEvent(c) \/ (last[s] = "none" /\ e = "Out")
                                     THEN "none" ELSE e]
  BY Zenon DEF ApplySlot
<1>5. call' = [call EXCEPT ![c] = r]
  BY <1>2 DEF ApplySlot, Advance, CallRec
<1>6. nr \in Nat /\ nh \in Nat
  BY <1>2 DEF CallRec
<1>7. (nh = 0 <=> call[c].hooked = 0 /\ ~IsHook(e)) /\ (nr = 0 <=> call[c].redirected = 0 /\ ~redirect)
  BY <1>2 DEF CallRec
<1> HIDE DEF nr, nh
<1>8. /\ rec \in CallRec /\ rec.i = s /\ rec.at = "apply" /\ rec.hash = call[c].hash
      /\ rec.hooked = nh /\ rec.redirected = nr /\ rec.quiet = call[c].quiet
  BY Zenon, <1>2, <1>6 DEF CallRec
<1> HIDE DEF rec
<1>9. /\ r \in CallRec /\ Past(r) = 1 .. s /\ r.hash = call[c].hash /\ r.hooked = nh
      /\ r.redirected = nr /\ r.quiet = call[c].quiet /\ r.at \in {"read", "done"}
      /\ Turn(c, r, lock', captured')
  BY Zenon, <1>3, <1>4, <1>8, AdvanceTyped
<1> HIDE DEF r
<1>10. /\ baseline' \in [Slots -> Entries] /\ captured' \in SUBSET Slots
       /\ \A x \in Slots \ {s} : baseline'[x] = baseline[x]
       /\ s \in captured => baseline'[s] = baseline[s]
       /\ s \notin captured => baseline'[s] = e
  BY Zenon, <1>1, <1>3, <1>4 DEF SysTypeOK
<1>11. \A x \in captured : baseline'[x] = baseline[x]
  BY <1>1, <1>10 DEF SysTypeOK
<1>12. ASSUME Quiet(r) PROVE Exact(r, table, baseline', captured')
  <2>1. Exact(call[c], table, baseline, captured)
    BY Zenon, <1>1, <1>2, <1>9, <1>12 DEF ExactInv, Quiet
  <2>2. e = table[s] /\ Past(call[c]) = 1 .. s - 1 /\ 1 .. s - 1 \subseteq captured
    BY <2>1, <1>2 DEF Exact, Past
  <2>3. s \in Nat /\ 1 .. s = (1 .. s - 1) \cup {s}
    BY <1>3, SyscallAssumption DEF Slots
  <2>4. Past(r) \subseteq captured'
    BY <2>2, <2>3, <1>4, <1>9, Zenon
  <2>5. \A j \in 1 .. Len(r.hash) : r.hash[j] = table[j]
    BY <2>1, <1>9, Zenon DEF Exact
  <2>6. r.hooked = 0 <=> \A j \in Past(r) : table[j] # "Out"
    <3>1. call[c].hooked = 0 <=> \A j \in 1 .. s - 1 : table[j] # "Out"
      BY <2>1, <2>2, Zenon DEF Exact
    <3>2. IsHook(e) <=> table[s] = "Out"
      BY <2>2, <1>3 DEF IsHook, EntryBad, Entries
    <3> HIDE DEF s, e
    <3> QED BY <3>1, <3>2, <2>3, <1>7, <1>9, Zenon
  <2>7. r.redirected = 0 <=> \A j \in Past(r) : table[j] = baseline'[j] \/ EntryBad(table[j])
    <3>1. call[c].redirected = 0 <=> \A j \in 1 .. s - 1 : table[j] = baseline[j] \/ EntryBad(table[j])
      BY <2>1, <2>2, Zenon DEF Exact
    <3>2. \A j \in 1 .. s - 1 : baseline'[j] = baseline[j]
      BY <2>2, <1>11, Zenon
    <3>3. ~redirect <=> table[s] = baseline'[s] \/ EntryBad(table[s])
      BY <2>2, <1>3, <1>10, Zenon
    <3> HIDE DEF s, e, redirect
    <3> QED BY <3>1, <3>2, <3>3, <2>3, <1>7, <1>9, Zenon
  <2>8. r.at # "apply" /\ r.at # "out"
    BY <1>9
  <2> QED BY <2>4, <2>5, <2>6, <2>7, <2>8, Zenon DEF Exact
<1>13. \A d \in Callers \ {c} : ~Inside(call[d])
  BY <1>1, <1>3, Zenon DEF TurnInv, Turn
<1>14. call' \in [Callers -> CallRec] /\ TurnInv' /\ ExactInv'
  <2>1. captured \subseteq captured'
    BY <1>4, Zenon
  <2> QED BY <1>1, <1>4, <1>5, <1>9, <1>10, <1>11, <1>12, <1>13, <2>1, CallReplaced, Zenon
<1>15. EdgeInv' /\ last' \in [Slots -> Entries \cup {"none"}]
  <2>1. last \in [Slots -> Entries \cup {"none"}] /\ e # "none"
    BY <1>1, <1>3 DEF SysTypeOK, Entries
  <2>2. HookEvent(c) => e = "Out"
    BY <1>3 DEF HookEvent, IsHook, EntryBad, Entries
  <2>3. last'[s] = "none" => s \in hookedBits'
    BY Zenon, <2>1, <2>2, <1>3, <1>4 DEF HookedBitsAfter, EntryBad
  <2>4. ASSUME NEW x \in Slots \ {s}, last'[x] = "none" PROVE x \in hookedBits'
    <3>1. last[x] = "none" /\ x \in hookedBits
      BY Zenon, <2>1, <2>4, <1>1, <1>4 DEF EdgeInv
    <3> QED BY <3>1, <1>4 DEF HookedBitsAfter
  <2>5. last' \in [Slots -> Entries \cup {"none"}]
    BY <2>1, <1>3, <1>4
  <2> QED BY <2>3, <2>4, <2>5, Zenon DEF EdgeInv
<1> QED BY <1>1, <1>4, <1>10, <1>14, <1>15 DEF SysInv, SysTypeOK

(* A caller has used the result and is back in user space.                 *)
LEMMA ReturnKeeps ==
  ASSUME SyscallAssumption, SysInv, NEW c \in Callers, call' = [call EXCEPT ![c] = NoCall],
         UNCHANGED <<table, baseline, captured, lock, hookedBits, last>>
  PROVE  SysInv'
<1>1. SysTypeOK /\ TurnInv /\ ExactInv
  BY Zenon DEF SysInv
<1>2. NoCall \in CallRec /\ Turn(c, NoCall, lock', captured') /\ ~Quiet(NoCall)
  BY NoCallTyped DEF Turn, Inside, Quiet
<1>3. baseline' \in [Slots -> Entries] /\ captured' \in SUBSET Slots
  BY <1>1 DEF SysTypeOK
<1>4. call' \in [Callers -> CallRec] /\ TurnInv' /\ ExactInv'
  <2>1. table' = table /\ baseline' = baseline /\ captured' = captured /\ lock' = lock
    OBVIOUS
  <2> QED BY <1>1, <1>2, <1>3, <2>1, CallReplaced, Zenon
<1> QED BY <1>4 DEF SysInv, SysTypeOK, EdgeInv

(* A write to the table: no check under way is quiet any more.             *)
LEMMA TamperKeeps == ASSUME SysInv, Tamper PROVE SysInv'
<1>1. PICK x \in Slots, v \in Entries : table' = [table EXCEPT ![x] = v]
  BY Zenon DEF Tamper
<1>2. /\ call' = [c \in Callers |-> [call[c] EXCEPT !.quiet = FALSE]]
      /\ baseline' = baseline /\ captured' = captured /\ lock' = lock
      /\ hookedBits' = hookedBits /\ last' = last
  BY DEF Tamper, kernelVars
<1>3. table' \in [Slots -> Entries]
  BY <1>1 DEF SysInv, SysTypeOK
<1>4. ASSUME NEW c \in Callers
      PROVE  call'[c] \in CallRec /\ ~Quiet(call'[c]) /\ Turn(c, call'[c], lock, captured)
  <2> DEFINE r == [call[c] EXCEPT !.quiet = FALSE]
  <2>1. call[c] \in CallRec /\ Turn(c, call[c], lock, captured)
    BY DEF SysInv, SysTypeOK, TurnInv
  <2>2. /\ r \in CallRec /\ ~r.quiet /\ r.at = call[c].at /\ r.i = call[c].i
        /\ r.hash = call[c].hash /\ r.have = call[c].have /\ call'[c] = r
    BY Zenon, <2>1, <1>2 DEF CallRec
  <2> HIDE DEF r
  <2> QED BY <2>1, <2>2, Zenon DEF Turn, Inside, Quiet
<1>5. call' \in [Callers -> CallRec]
  BY <1>2, <1>4
<1> QED BY Zenon, <1>2, <1>3, <1>4, <1>5 DEF SysInv, SysTypeOK, TurnInv, ExactInv, EdgeInv

(* The invariant holds when the scan's state is zeroed.                    *)
LEMMA SysInitOK == ASSUME SyscallAssumption, Init PROVE SysInv
<1>1. \A c \in Callers : call[c] = NoCall
  BY DEF Init
<1>2. SysTypeOK
  BY <1>1, NoCallTyped DEF Init, SysTypeOK, Entries
<1>3. TurnInv /\ ExactInv
  BY <1>1, NoCallTyped DEF TurnInv, ExactInv, Turn, Inside, Quiet
<1>4. EdgeInv
  BY DEF Init, EdgeInv
<1> QED BY <1>2, <1>3, <1>4, Zenon DEF SysInv

(* Every step of a scan keeps the invariant.                               *)
LEMMA SysStep == ASSUME SyscallAssumption, SysInv, [Next]_vars PROVE SysInv'
<1>1. CASE Tamper
  BY <1>1, TamperKeeps, Zenon
<1>2. ASSUME UNCHANGED <<table, kernelVars, lock, call, last>> PROVE SysInv'
  <2>1. UNCHANGED <<table, baseline, captured, hookedBits, lock, call, last>>
    BY <1>2 DEF kernelVars
  <2> QED BY <2>1 DEF SysInv, SysTypeOK, TurnInv, ExactInv, EdgeInv
<1>3. CASE Noise \/ OtherReader \/ DrainRing
  BY <1>2, <1>3 DEF Noise, OtherReader, DrainRing
<1>4. ASSUME NEW c \in Callers, StartCheck(c) \/ Step(c) PROVE SysInv'
  <2>1. CASE StartCheck(c)
    BY <2>1, StartKeeps, SyscallAssumption, Zenon
  <2>2. CASE ReadSlot(c, TRUE) \/ ReadSlot(c, FALSE)
    BY <2>2, ReadKeeps, SyscallAssumption, Zenon
  <2>3. CASE Unread(c)
    BY <2>3, UnreadKeeps, SyscallAssumption, Zenon
  <2>4. CASE ApplySlot(c)
    BY <2>4, ApplyKeeps, SyscallAssumption, Zenon
  <2>5. CASE Unlock(c)
    BY <2>5, UnlockKeeps, SyscallAssumption, Zenon
  <2>6. CASE CommandPrints(c)
    BY Zenon, <2>6, ReturnKeeps, SyscallAssumption DEF CommandPrints, kernelVars
  <2> QED BY <1>4, <2>1, <2>2, <2>3, <2>4, <2>5, <2>6, Zenon DEF Step
<1>5. CASE check_syscalls_periodic
  BY Zenon, <1>5, ReturnKeeps, SyscallAssumption DEF check_syscalls_periodic, kernelVars
<1>6. CASE UNCHANGED vars
  BY <1>2, <1>6 DEF vars
<1> QED BY <1>1, <1>3, <1>4, <1>5, <1>6, Zenon DEF Next

(* The lock, the slot's turn and what a quiet check knows stay true.       *)
THEOREM SysInvariant == Spec => []SysInv
<1>1. Init => SysInv
  BY SysInitOK, SyscallAssumption
<1>2. SysInv /\ [Next]_vars => SysInv'
  BY SysStep, SyscallAssumption
<1> QED BY <1>1, <1>2, PTL DEF Spec

(* A quiet check's verdict is exact, whatever the size of the table and    *)
(* whatever other callers do while its result is being used.               *)
THEOREM SysVerdictExact == Spec => []VerdictExact
<1>1. ASSUME SysInv PROVE VerdictExact
  <2> SUFFICES ASSUME NEW c \in Callers, call[c].at = "out", call[c].quiet
               PROVE  Ok(c) <=> \A s \in Slots : table[s] = baseline[s] /\ table[s] # "Out"
    BY DEF VerdictExact
  <2> DEFINE r == call[c]
  <2>1. Turn(c, r, lock, captured) /\ Exact(r, table, baseline, captured)
    BY <1>1 DEF SysInv, TurnInv, ExactInv, Quiet
  <2>2. r \in CallRec /\ table \in [Slots -> Entries] /\ baseline \in [Slots -> Entries]
    BY <1>1 DEF SysInv, SysTypeOK
  <2>3. r.i = NSlots + 1 /\ Len(r.hash) = r.i - 1 /\ r.base = baseline
    BY <2>1 DEF Turn, Exact
  <2>4. NSlots \in Nat /\ Past(r) = Slots /\ 1 .. Len(r.hash) = Slots
    BY <2>3, SyscallAssumption DEF Past, Slots
  <2>5. r.hash \in Seq(Entries) /\ Len(r.hash) = NSlots
    BY <2>2, <2>3, <2>4 DEF CallRec
  <2>6. r.hash = table
    <3>1. \A j \in Slots : r.hash[j] = table[j]
      BY <2>1, <2>4, Zenon DEF Exact
    <3>2. r.hash \in [Slots -> Entries]
      BY <2>5, LenProperties DEF Slots
    <3> HIDE DEF r
    <3> QED BY <3>1, <3>2, <2>2
  <2>7. r.hooked = 0 <=> \A s \in Slots : table[s] # "Out"
    BY <2>1, <2>4, Zenon DEF Exact
  <2>8. r.redirected = 0 <=> \A s \in Slots : table[s] = baseline[s] \/ EntryBad(table[s])
    BY <2>1, <2>4, Zenon DEF Exact
  <2>9. table = baseline <=> \A s \in Slots : table[s] = baseline[s]
    BY <2>2
  <2> QED BY <2>3, <2>6, <2>7, <2>8, <2>9, Zenon DEF Ok, Mismatch
<1> QED BY <1>1, SysInvariant, PTL

(* No check replaces the baseline of a slot that has one.                  *)
THEOREM SysBaselineStable == Spec => BaselineStable
<1>1. ASSUME SysInv, [Next]_vars, NEW s \in captured
      PROVE  s \in captured' /\ baseline'[s] = baseline[s]
  <2>1. ASSUME NEW c \in Callers, ApplySlot(c) PROVE s \in captured' /\ baseline'[s] = baseline[s]
    <3>1. call[c].have = (call[c].i \in captured) /\ s \in Slots
      BY <1>1, <2>1 DEF SysInv, TurnInv, Turn, ApplySlot, SysTypeOK
    <3>2. /\ baseline' = IF call[c].have THEN baseline ELSE [baseline EXCEPT ![call[c].i] = call[c].e]
          /\ captured' = captured \cup {call[c].i}
      BY <2>1, Zenon DEF ApplySlot
    <3> QED BY Zenon, <1>1, <3>1, <3>2 DEF SysInv, SysTypeOK
  <2>2. CASE UNCHANGED <<baseline, captured>>
    BY <2>2
  <2>3. (\E c \in Callers : ApplySlot(c)) \/ UNCHANGED <<baseline, captured>>
    <3>1. ASSUME UNCHANGED kernelVars PROVE UNCHANGED <<baseline, captured>>
      BY <3>1 DEF kernelVars
    <3>2. CASE Tamper \/ Noise \/ OtherReader \/ check_syscalls_periodic \/ DrainRing
      BY Zenon, <3>1, <3>2 DEF Tamper, Noise, OtherReader, check_syscalls_periodic, DrainRing
    <3>3. ASSUME NEW c \in Callers, StartCheck(c) \/ Step(c), ~ApplySlot(c)
          PROVE  UNCHANGED <<baseline, captured>>
      <4>1. CASE StartCheck(c) \/ Unread(c) \/ Unlock(c) \/ CommandPrints(c)
        BY <3>1, <4>1 DEF StartCheck, Unread, Unlock, CommandPrints
      <4>2. CASE ReadSlot(c, TRUE) \/ ReadSlot(c, FALSE)
        BY Zenon, <3>1, <4>2 DEF ReadSlot
      <4> QED BY <3>3, <4>1, <4>2, Zenon DEF Step
    <3>4. CASE UNCHANGED vars
      BY <3>1, <3>4 DEF vars
    <3> QED BY <1>1, <3>2, <3>3, <3>4, Zenon DEF Next
  <2> QED BY <2>1, <2>2, <2>3, Zenon
<1>2. SysInv /\ [Next]_vars =>
        [\A s \in captured : s \in captured' /\ baseline'[s] = baseline[s]]_vars
  BY <1>1, Zenon
<1> QED BY <1>2, SysInvariant, PTL DEF Spec, BaselineStable

(* A hook event is a rising edge.                                          *)
THEOREM SysOncePerEdge == Spec => OncePerEdge
<1>1. SysInv => \A c \in Callers : ApplySlot(c) /\ HookEvent(c) => last[call[c].i] # "none"
  BY DEF SysInv, TurnInv, Turn, EdgeInv, HookEvent
<1>2. SysInv /\ [Next]_vars =>
        [\A c \in Callers : ApplySlot(c) /\ HookEvent(c) => last[call[c].i] # "none"]_vars
  BY <1>1, Zenon
<1> QED BY <1>2, SysInvariant, PTL DEF Spec, OncePerEdge

-----------------------------------------------------------------------------
(* A set of natural numbers that is not empty has a least element.         *)
LEMMA LeastExists ==
  ASSUME NEW S \in SUBSET Nat, S # {} PROVE \E i \in S : \A j \in S : i <= j
<1>1. PICK i \in S : \A j \in S : ~(<<j, i>> \in OpToRel(<, Nat))
  BY Zenon, NatLessThanWellFounded, WFMin
<1>2. \A j \in S : ~(j < i)
  BY Zenon, <1>1 DEF OpToRel
<1> QED BY <1>2

(* The search for a position that no record covers.  Stuck: it goes no     *)
(* further from l; Onward(l): where it goes otherwise.                     *)
Stuck(fits, hi, l) == l >= hi \/ \A r \in fits : ~StandsIn(l, r)
Onward(fits, l) == LET r == CHOOSE r \in fits : StandsIn(l, r) IN r.offset + r.size
Ranges(fits) == \A r \in fits : r.offset \in Nat /\ r.size \in Nat

(* It goes to the end of a record it stands in.                            *)
LEMMA OnwardIs ==
  ASSUME NEW fits, Ranges(fits), NEW hi \in Nat, NEW l \in Nat, ~Stuck(fits, hi, l)
  PROVE  \E r \in fits : StandsIn(l, r) /\ Onward(fits, l) = r.offset + r.size
                         /\ Onward(fits, l) \in Nat /\ l < Onward(fits, l)
<1>1. PICK q \in fits : StandsIn(l, q)
  BY DEF Stuck
<1> DEFINE r == CHOOSE r \in fits : StandsIn(l, r)
<1>2. r \in fits /\ StandsIn(l, r)
  BY <1>1, Zenon
<1>3. Onward(fits, l) = r.offset + r.size
  BY Zenon DEF Onward
<1> HIDE DEF r
<1>4. r.offset \in Nat /\ r.size \in Nat
  BY <1>2, Zenon DEF Ranges
<1>5. r.offset + r.size \in Nat /\ l < r.offset + r.size
  BY <1>2, <1>4 DEF StandsIn
<1> QED BY <1>2, <1>3, <1>5, Zenon

(* The positions reached from l, and those of them where the search ends.  *)
Closed(fits, hi, S) == \A k \in S : ~Stuck(fits, hi, k) => Onward(fits, k) \in S
Reached(fits, hi, l) ==
  {m \in Nat : \A S \in SUBSET Nat : l \in S /\ Closed(fits, hi, S) => m \in S}
Pick(S) == CHOOSE m : m \in S
Ends(fits, hi, l) == {m \in Reached(fits, hi, l) : Stuck(fits, hi, m)}

(* The search as a function: the recursive definition has a solution.      *)
LEMMA AdvanceAt ==
  ASSUME NEW fits, Ranges(fits), NEW hi \in Nat
  PROVE  \A l \in Nat : AdvanceLo(fits, hi)[l] = IF Stuck(fits, hi, l) THEN l
                                               ELSE AdvanceLo(fits, hi)[Onward(fits, l)]
<1> DEFINE F(f) == [l \in Nat |->
             IF l >= hi \/ \A r \in fits : ~StandsIn(l, r) THEN l
             ELSE LET r == CHOOSE r \in fits : StandsIn(l, r) IN f[r.offset + r.size]]
           E(f) == [l \in Nat |-> IF Stuck(fits, hi, l) THEN l ELSE f[Onward(fits, l)]]
           g == [l \in Nat |-> Pick(Ends(fits, hi, l))]
<1>1. \A f : F(f) = E(f)
  BY Zenon DEF Stuck, Onward
<1>2. AdvanceLo(fits, hi) = CHOOSE f : f = F(f)
  BY Zenon DEF AdvanceLo
<1>3. ASSUME NEW l \in Nat, Stuck(fits, hi, l) PROVE g[l] = l
  <2>1. Closed(fits, hi, {l})
    BY <1>3, Zenon DEF Closed
  <2>2. Reached(fits, hi, l) = {l}
    BY <2>1, Zenon DEF Reached
  <2>3. Ends(fits, hi, l) = {l}
    BY <2>2, <1>3, Zenon DEF Ends
  <2> QED BY <2>3, Zenon DEF Pick
<1>4. ASSUME NEW l \in Nat, ~Stuck(fits, hi, l) PROVE g[l] = g[Onward(fits, l)]
  <2>0. Onward(fits, l) \in Nat
    BY <1>4, OnwardIs, Zenon
  <2>1. ASSUME NEW m \in Ends(fits, hi, l) PROVE m \in Ends(fits, hi, Onward(fits, l))
    <3>1. ASSUME NEW S \in SUBSET Nat, Onward(fits, l) \in S, Closed(fits, hi, S) PROVE m \in S
      <4>1. S \cup {l} \in SUBSET Nat /\ l \in S \cup {l}
        OBVIOUS
      <4>2. Closed(fits, hi, S \cup {l})
        BY <3>1, Zenon DEF Closed
      <4>3. m \in S \cup {l}
        BY <4>1, <4>2, Zenon DEF Ends, Reached
      <4>4. m # l
        BY <1>4, Zenon DEF Ends
      <4> QED BY <4>3, <4>4, Zenon
    <3> QED BY <3>1, Zenon DEF Ends, Reached
  <2>2. ASSUME NEW m \in Ends(fits, hi, Onward(fits, l)) PROVE m \in Ends(fits, hi, l)
    <3>1. ASSUME NEW S \in SUBSET Nat, l \in S, Closed(fits, hi, S) PROVE m \in S
      <4>1. Onward(fits, l) \in S
        BY <3>1, <1>4, Zenon DEF Closed
      <4> QED BY <4>1, <3>1, Zenon DEF Ends, Reached
    <3> QED BY <3>1, Zenon DEF Ends, Reached
  <2>3. Ends(fits, hi, l) = Ends(fits, hi, Onward(fits, l))
    BY <2>1, <2>2, Zenon
  <2>4. g[l] = Pick(Ends(fits, hi, l)) /\ g[Onward(fits, l)] = Pick(Ends(fits, hi, Onward(fits, l)))
    BY <2>0
  <2> HIDE DEF g
  <2> QED BY <2>3, <2>4, Zenon
<1>5. g = E(g)
  <2>1. g = [l \in Nat |-> g[l]]
    BY Zenon
  <2> HIDE DEF g
  <2>2. \A l \in Nat : g[l] = IF Stuck(fits, hi, l) THEN l ELSE g[Onward(fits, l)]
    BY <1>3, <1>4, Zenon
  <2>3. [l \in Nat |-> g[l]] = E(g)
    BY <2>2, Zenon
  <2> QED BY <2>1, <2>3, Zenon
<1> HIDE DEF g
<1>6. \E f : f = F(f)
  <2>1. g = F(g)
    BY <1>1, <1>5, Zenon
  <2> HIDE DEF F
  <2> QED BY <2>1, Zenon
<1> HIDE DEF F
<1>7. AdvanceLo(fits, hi) = F(AdvanceLo(fits, hi))
  BY <1>2, <1>6, Zenon
<1>8. AdvanceLo(fits, hi) = E(AdvanceLo(fits, hi))
  BY <1>1, <1>7, Zenon
<1> QED BY <1>8, Zenon

AllCovered(fits, l, hi) == \A o \in l .. hi - 1 : \E r \in fits : StandsIn(o, r)

(* The loop of baseline_check_run() that looks for cover decides what it   *)
(* is there to decide: whichever record it takes next, it reaches hi from  *)
(* l exactly if records cover every page in between.                       *)
THEOREM AdvanceExact ==
  ASSUME NEW fits, Ranges(fits), NEW hi \in Nat, NEW l \in Nat
  PROVE  AdvanceLo(fits, hi)[l] >= hi <=> AllCovered(fits, l, hi)
<1> DEFINE A == AdvanceLo(fits, hi)
           P(k) == A[k] >= hi <=> AllCovered(fits, k, hi)
           Bad == {k \in Nat : ~P(k)}
           D == {d \in Nat : \E k \in Bad : k + d = hi}
<1>0. \A k \in Nat : A[k] = IF Stuck(fits, hi, k) THEN k ELSE A[Onward(fits, k)]
  BY AdvanceAt, Zenon
<1> HIDE DEF A
<1>1. ASSUME NEW k \in Nat, k >= hi PROVE P(k)
  <2>1. A[k] = k
    BY <1>0, <1>1, Zenon DEF Stuck
  <2> QED BY <2>1, <1>1 DEF AllCovered
<1>2. ASSUME NEW k \in Nat, k < hi, Stuck(fits, hi, k) PROVE P(k)
  <2>1. A[k] = k
    BY <1>0, <1>2, Zenon
  <2>2. k \in k .. hi - 1 /\ ~(k >= hi)
    BY <1>2
  <2>3. ~AllCovered(fits, k, hi)
    BY <1>2, <2>2, Zenon DEF AllCovered, Stuck
  <2> QED BY <2>1, <2>2, <2>3, Zenon
<1>3. ASSUME NEW k \in Nat, ~Stuck(fits, hi, k), P(Onward(fits, k)) PROVE P(k)
  <2>1. PICK r \in fits : StandsIn(k, r) /\ Onward(fits, k) = r.offset + r.size
                          /\ Onward(fits, k) \in Nat /\ k < Onward(fits, k)
    BY <1>3, OnwardIs, Zenon
  <2> DEFINE n == Onward(fits, k)
  <2>2. r.offset \in Nat /\ r.size \in Nat
    BY Zenon DEF Ranges
  <2>3. A[k] = A[n]
    BY <1>0, <1>3, Zenon
  <2>4. \A o \in k .. hi - 1 : o \in n .. hi - 1 \/ StandsIn(o, r)
    BY <2>1, <2>2 DEF StandsIn
  <2>5. \A o \in n .. hi - 1 : o \in k .. hi - 1
    BY <2>1
  <2> HIDE DEF n
  <2>6. AllCovered(fits, k, hi) <=> AllCovered(fits, n, hi)
    BY <2>4, <2>5, Zenon DEF AllCovered
  <2>7. A[n] >= hi <=> AllCovered(fits, n, hi)
    BY <1>3, Zenon DEF n
  <2> QED BY <2>3, <2>6, <2>7, Zenon
<1>4. Bad = {}
  <2> SUFFICES ASSUME Bad # {} PROVE FALSE
    BY Zenon
  <2>1. D # {} /\ D \in SUBSET Nat
    <3>1. PICK k \in Bad : TRUE
      BY Zenon
    <3>2. k \in Nat /\ ~(k >= hi)
      BY <1>1, <3>1, Zenon
    <3> HIDE DEF Bad
    <3>3. hi - k \in Nat /\ k + (hi - k) = hi
      BY <3>2
    <3> QED BY <3>1, <3>3, Zenon
  <2>2. PICK d \in D : \A e \in D : d <= e
    BY <2>1, LeastExists, Zenon
  <2>3. PICK k \in Bad : k + d = hi
    BY <2>2, Zenon
  <2>4. k \in Nat /\ ~P(k) /\ d \in Nat
    BY <2>3, Zenon
  <2>5. k < hi /\ ~Stuck(fits, hi, k)
    <3>1. ~(k >= hi)
      BY <2>4, <1>1, Zenon
    <3>2. k < hi
      BY <3>1, <2>4
    <3> QED BY <3>2, <2>4, <1>2, Zenon
  <2>6. Onward(fits, k) \in Nat /\ k < Onward(fits, k)
    BY <2>4, <2>5, OnwardIs, Zenon
  <2>7. ~P(Onward(fits, k))
    BY <2>4, <2>5, <1>3, Zenon
  <2>8. ~(Onward(fits, k) >= hi)
    BY <2>6, <2>7, <1>1, Zenon
  <2>9. hi - Onward(fits, k) \in Nat /\ Onward(fits, k) + (hi - Onward(fits, k)) = hi
        /\ ~(d <= hi - Onward(fits, k))
    BY <2>3, <2>4, <2>6, <2>8
  <2>10. Onward(fits, k) \in Bad
    BY <2>6, <2>7, Zenon
  <2>11. hi - Onward(fits, k) \in D
    BY <2>9, <2>10, Zenon
  <2> QED BY <2>2, <2>9, <2>11, Zenon
<1>5. P(l)
  BY <1>4, Zenon
<1> QED BY <1>5, Zenon DEF A

-----------------------------------------------------------------------------
(* Mappings as the kernel has them: not empty, and disjoint.               *)
WellFormed(V) == Disjoint(V) /\ \A v \in V : v \in Vma /\ v.start < v.end

(* The fields of a mapping.                                                *)
LEMMA VmaFields ==
  ASSUME NEW V, WellFormed(V), NEW v \in V
  PROVE  /\ v.start \in Nat /\ v.end \in Nat /\ v.offset \in Nat /\ v.file \in Files
         /\ v.exec \in BOOLEAN /\ v.start < v.end /\ v.start <= MaxAddr /\ v.end <= MaxAddr + 1
BY BaselineAssumption DEF WellFormed, Vma, Addrs

(* Of two mappings one lies below the other.                               *)
LEMMA VmaApart ==
  ASSUME NEW V, WellFormed(V), NEW v \in V, NEW w \in V
  PROVE  v = w \/ v.end <= w.start \/ w.end <= v.start
BY Zenon DEF WellFormed, Disjoint

(* So they do not start at one address.                                    *)
LEMMA VmaStart ==
  ASSUME NEW V, WellFormed(V), NEW v \in V, NEW w \in V, v.start = w.start
  PROVE  v = w
<1>1. /\ v.start \in Nat /\ v.end \in Nat /\ v.start < v.end
      /\ w.start \in Nat /\ w.end \in Nat /\ w.start < w.end
  BY VmaFields, Zenon
<1>2. ~(v.end <= w.start) /\ ~(w.end <= v.start)
  BY <1>1
<1> QED BY <1>2, VmaApart, Zenon

(* A run has a last mapping: the first from v on that none continues.      *)
LEMMA EndExists ==
  ASSUME NEW V, WellFormed(V), NEW v \in V
  PROVE  /\ baseline_run_end(V, v) \in Stops(V, v)
         /\ \A u \in Stops(V, v) : baseline_run_end(V, v).start <= u.start
<1> DEFINE G == {k \in Nat : \E w \in V : k + w.start = MaxAddr}
           H == {k \in Nat : \E w \in Stops(V, v) : w.start = k}
<1>0. \A w \in V : w.start \in Nat /\ w.end \in Nat /\ w.start < w.end /\ w.start <= MaxAddr
  BY VmaFields, Zenon
<1>1. PICK w \in V : \A u \in V : u.start <= w.start
  <2>1. MaxAddr - v.start \in Nat /\ (MaxAddr - v.start) + v.start = MaxAddr
    BY <1>0, BaselineAssumption
  <2>2. MaxAddr - v.start \in G
    BY <2>1, Zenon
  <2>3. PICK k \in G : \A j \in G : k <= j
    BY <2>2, LeastExists, Zenon
  <2>4. PICK w \in V : k + w.start = MaxAddr
    BY <2>3, Zenon
  <2>5. ASSUME NEW u \in V PROVE u.start <= w.start
    <3>1. u.start \in Nat /\ u.start <= MaxAddr /\ w.start \in Nat /\ k \in Nat
      BY <1>0, <2>3, Zenon
    <3>2. MaxAddr - u.start \in Nat /\ (MaxAddr - u.start) + u.start = MaxAddr
      BY <3>1, BaselineAssumption
    <3>3. k <= MaxAddr - u.start
      BY <3>2, <2>3, Zenon
    <3> QED BY <3>1, <3>3, <2>4, BaselineAssumption
  <2> QED BY <2>5, Zenon
<1>2. w \in Stops(V, v)
  <2>1. w.start >= v.start
    BY <1>0, <1>1
  <2>2. ASSUME NEW u \in V, Continues(w, u) PROVE FALSE
    <3>1. u.start = w.end
      BY <2>2, Zenon DEF Continues
    <3>2. u.start <= w.start /\ w.start < w.end /\ w.start \in Nat /\ w.end \in Nat
      BY <1>0, <1>1, Zenon
    <3> QED BY <3>1, <3>2
  <2> QED BY <2>1, <2>2, Zenon DEF Stops
<1>3. w.start \in H
  BY <1>0, <1>2, Zenon
<1>4. PICK k \in H : \A j \in H : k <= j
  BY <1>3, LeastExists, Zenon
<1>5. PICK e \in Stops(V, v) : e.start = k
  BY <1>4, Zenon
<1>6. \A u \in Stops(V, v) : e.start <= u.start
  <2> SUFFICES ASSUME NEW u \in Stops(V, v) PROVE e.start <= u.start
    BY Zenon
  <2>1. u.start \in Nat
    BY <1>0, Zenon DEF Stops
  <2>2. u.start \in H
    BY <2>1, Zenon
  <2> QED BY <1>4, <1>5, <2>2, Zenon
<1> QED BY <1>5, <1>6, Zenon DEF baseline_run_end

(* There is only one last mapping.                                         *)
LEMMA EndUnique ==
  ASSUME NEW V, WellFormed(V), NEW v \in V, NEW w \in Stops(V, v),
         \A u \in Stops(V, v) : w.start <= u.start
  PROVE  baseline_run_end(V, v) = w
<1> DEFINE e == baseline_run_end(V, v)
<1>1. e \in Stops(V, v) /\ \A u \in Stops(V, v) : e.start <= u.start
  BY EndExists, Zenon
<1> HIDE DEF e
<1>2. e \in V /\ w \in V
  BY <1>1, Zenon DEF Stops
<1>3. e.start <= w.start /\ w.start <= e.start
  BY <1>1, Zenon
<1>4. e.start \in Nat /\ w.start \in Nat
  BY <1>2, VmaFields, Zenon
<1>5. e.start = w.start
  BY <1>3, <1>4
<1>6. e = w
  BY <1>2, <1>5, VmaStart, Zenon
<1> QED BY <1>6, Zenon DEF e

-----------------------------------------------------------------------------
(* The pages of a mapping, each taken as a mapping of its own.             *)
LEMMA PageFields ==
  ASSUME NEW V, WellFormed(V), NEW v \in V, NEW a \in v.start .. v.end - 1
  PROVE  /\ PageOf(v, a) \in Vma
         /\ PageOf(v, a).start = a /\ PageOf(v, a).end = a + 1
         /\ PageOf(v, a).offset = v.offset + (a - v.start)
         /\ PageOf(v, a).file = v.file /\ PageOf(v, a).exec = v.exec
         /\ a \in Nat /\ PageOf(v, a) \in Pages(V)
<1>1. v \in Vma /\ v.start < v.end
  BY Zenon DEF WellFormed
<1>2. /\ v.start \in Nat /\ v.end \in Nat /\ v.offset \in Nat
      /\ v.end <= MaxAddr + 1
  BY VmaFields, Zenon
<1>3. /\ a \in Nat /\ a \in Addrs /\ a + 1 \in 1 .. MaxAddr + 1
      /\ v.offset + (a - v.start) \in Nat
  BY <1>2, BaselineAssumption DEF Addrs
<1>4. PageOf(v, a) \in Pages(V)
  <2>1. PageOf(v, a) \in {PageOf(v, b) : b \in v.start .. v.end - 1}
    OBVIOUS
  <2> QED BY <2>1 DEF Pages
<1>5. PageOf(v, a) \in Vma
  BY <1>1, <1>3, Zenon DEF Vma, PageOf
<1>6. /\ PageOf(v, a).start = a /\ PageOf(v, a).end = a + 1
      /\ PageOf(v, a).offset = v.offset + (a - v.start)
      /\ PageOf(v, a).file = v.file /\ PageOf(v, a).exec = v.exec
  BY <1>1 DEF Vma, PageOf
<1> QED BY <1>3, <1>4, <1>5, <1>6, Zenon

(* Every page is a page of a mapping.                                      *)
LEMMA PagesAre ==
  ASSUME NEW V, NEW p \in Pages(V)
  PROVE  \E v \in V : \E a \in v.start .. v.end - 1 : p = PageOf(v, a)
BY Zenon DEF Pages

(* An address lies in one mapping only.                                    *)
LEMMA SamePage ==
  ASSUME NEW V, WellFormed(V), NEW v \in V, NEW w \in V,
         NEW a \in v.start .. v.end - 1, a \in w.start .. w.end - 1
  PROVE  v = w
<1>1. /\ v.start \in Nat /\ v.end \in Nat /\ w.start \in Nat /\ w.end \in Nat
  BY VmaFields, Zenon
<1>2. ~(v.end <= w.start) /\ ~(w.end <= v.start)
  BY <1>1
<1> QED BY <1>2, VmaApart, Zenon

(* The pages of disjoint mappings are disjoint.                            *)
LEMMA PagesWellFormed ==
  ASSUME NEW V, WellFormed(V)
  PROVE  WellFormed(Pages(V))
<1>1. ASSUME NEW p \in Pages(V) PROVE p \in Vma /\ p.start < p.end
  <2>1. PICK v \in V : \E a \in v.start .. v.end - 1 : p = PageOf(v, a)
    BY PagesAre, Zenon
  <2>2. PICK a \in v.start .. v.end - 1 : p = PageOf(v, a)
    BY <2>1, Zenon
  <2>3. p \in Vma /\ p.start = a /\ p.end = a + 1 /\ a \in Nat
    BY <2>2, PageFields
  <2>4. p.start < p.end
    BY <2>3
  <2> QED BY <2>3, <2>4, Zenon
<1>2. ASSUME NEW p \in Pages(V), NEW q \in Pages(V)
      PROVE  p = q \/ p.end <= q.start \/ q.end <= p.start
  <2>1. PICK v \in V : \E a \in v.start .. v.end - 1 : p = PageOf(v, a)
    BY PagesAre, Zenon
  <2>2. PICK a \in v.start .. v.end - 1 : p = PageOf(v, a)
    BY <2>1, Zenon
  <2>3. PICK w \in V : \E b \in w.start .. w.end - 1 : q = PageOf(w, b)
    BY PagesAre, Zenon
  <2>4. PICK b \in w.start .. w.end - 1 : q = PageOf(w, b)
    BY <2>3, Zenon
  <2>5. p.start = a /\ p.end = a + 1 /\ a \in Nat
    BY <2>2, PageFields
  <2>6. q.start = b /\ q.end = b + 1 /\ b \in Nat
    BY <2>4, PageFields
  <2>7. CASE a = b
    <3>1. v = w
      BY <2>7, SamePage, Zenon
    <3> QED BY <3>1, <2>7, <2>2, <2>4, Zenon
  <2>8. CASE a # b
    BY <2>8, <2>5, <2>6
  <2> QED BY <2>7, <2>8, Zenon
<1> QED BY <1>1, <1>2, Zenon DEF WellFormed, Disjoint

(* A page continues the one before it in its mapping, and the first page   *)
(* of a mapping the last one of the mapping it continues.                  *)
LEMMA PageContinues ==
  ASSUME NEW V, WellFormed(V), NEW v \in V, NEW w \in V,
         NEW a \in v.start .. v.end - 1, NEW b \in w.start .. w.end - 1
  PROVE  Continues(PageOf(v, a), PageOf(w, b)) <=>
           \/ v = w /\ b = a + 1
           \/ a = v.end - 1 /\ b = w.start /\ Continues(v, w)
<1>1. /\ v.start \in Nat /\ v.end \in Nat /\ w.start \in Nat /\ w.end \in Nat
      /\ v.offset \in Nat /\ w.offset \in Nat /\ v.start < v.end /\ w.start < w.end
  BY VmaFields, Zenon
<1>2. /\ PageOf(v, a).end = a + 1 /\ PageOf(v, a).offset = v.offset + (a - v.start)
      /\ PageOf(v, a).file = v.file /\ PageOf(v, a).start = a /\ a \in Nat
  BY PageFields
<1>3. /\ PageOf(w, b).start = b /\ PageOf(w, b).offset = w.offset + (b - w.start)
      /\ PageOf(w, b).file = w.file /\ b \in Nat
  BY PageFields
<1>4. Continues(PageOf(v, a), PageOf(w, b)) <=>
        /\ w.file = v.file /\ b = a + 1
        /\ w.offset + (b - w.start) = v.offset + (a - v.start) + 1
  <2>1. (a + 1) - a = 1
    BY <1>2
  <2> QED BY <1>2, <1>3, <2>1 DEF Continues
<1>5. ASSUME Continues(PageOf(v, a), PageOf(w, b)), v # w
      PROVE  a = v.end - 1 /\ b = w.start /\ Continues(v, w)
  <2>1. v.end <= w.start \/ w.end <= v.start
    BY <1>5, VmaApart, Zenon
  <2>2. b = a + 1 /\ w.file = v.file
    BY <1>4, <1>5, Zenon
  <2>3. a = v.end - 1 /\ b = w.start /\ w.start = v.end
    BY <1>1, <2>1, <2>2
  <2>4. w.offset + (b - w.start) = v.offset + (a - v.start) + 1
    BY <1>4, <1>5, Zenon
  <2>5. w.offset = v.offset + (v.end - v.start)
    BY <1>1, <2>3, <2>4
  <2> QED BY <2>2, <2>3, <2>5, Zenon DEF Continues
<1>6. ASSUME v = w, b = a + 1 PROVE Continues(PageOf(v, a), PageOf(w, b))
  <2>1. v.offset + ((a + 1) - v.start) = v.offset + (a - v.start) + 1
    BY <1>1, <1>2
  <2> QED BY <1>4, <1>6, <2>1, Zenon
<1>7. ASSUME a = v.end - 1, b = w.start, Continues(v, w)
      PROVE  Continues(PageOf(v, a), PageOf(w, b))
  <2>1. w.file = v.file /\ w.start = v.end /\ w.offset = v.offset + (v.end - v.start)
    BY <1>7, Zenon DEF Continues
  <2>2. b = a + 1 /\ w.offset + (b - w.start) = v.offset + (a - v.start) + 1
    BY <1>1, <1>7, <2>1
  <2> QED BY <1>4, <2>1, <2>2, Zenon
<1> QED
  <2>1. CASE v = w
    <3>1. ~(a = v.end - 1 /\ b = w.start /\ Continues(v, w))
      BY <1>1, <2>1 DEF Continues
    <3>2. Continues(PageOf(v, a), PageOf(w, b)) => b = a + 1
      BY <1>4, Zenon
    <3> QED BY <2>1, <3>1, <3>2, <1>6, Zenon
  <2>2. CASE v # w
    BY <2>2, <1>5, <1>7, Zenon
  <2> QED BY <2>1, <2>2, Zenon

(* The first and the last page of a mapping.                               *)
LEMMA EndPages ==
  ASSUME NEW V, WellFormed(V), NEW v \in V
  PROVE  v.start \in v.start .. v.end - 1 /\ v.end - 1 \in v.start .. v.end - 1
<1>1. v.start \in Nat /\ v.end \in Nat /\ v.start < v.end
  BY VmaFields, Zenon
<1> QED BY <1>1

(* A page starts a run where it is the first of a mapping that does.       *)
LEMMA PageStarts ==
  ASSUME NEW V, WellFormed(V), NEW v \in V, NEW a \in v.start .. v.end - 1
  PROVE  PageOf(v, a) \in RunStarts(Pages(V)) <=> a = v.start /\ v \in RunStarts(V)
<1>0. v.start \in Nat /\ v.end \in Nat /\ a \in Nat
  <2>1. v.start \in Nat /\ v.end \in Nat
    BY VmaFields, Zenon
  <2> QED BY <2>1
<1>1. ASSUME PageOf(v, a) \in RunStarts(Pages(V)), a # v.start PROVE FALSE
  <2>1. a - 1 \in v.start .. v.end - 1 /\ a = (a - 1) + 1
    BY <1>0, <1>1
  <2>2. Continues(PageOf(v, a - 1), PageOf(v, a))
    <3> DEFINE c == a - 1
    <3>1. c \in v.start .. v.end - 1 /\ a = c + 1
      BY <2>1
    <3> HIDE DEF c
    <3>2. Continues(PageOf(v, c), PageOf(v, a))
      BY <3>1, PageContinues, Zenon
    <3> QED BY <3>2, Zenon DEF c
  <2>3. PageOf(v, a - 1) \in Pages(V)
    BY <2>1, PageFields
  <2> QED BY <1>1, <2>2, <2>3, Zenon DEF RunStarts
<1>2. ASSUME PageOf(v, a) \in RunStarts(Pages(V)), a = v.start, NEW u \in V, Continues(u, v)
      PROVE  FALSE
  <2>1. u.end - 1 \in u.start .. u.end - 1
    BY EndPages, Zenon
  <2>2. Continues(PageOf(u, u.end - 1), PageOf(v, a))
    BY <1>2, <2>1, PageContinues
  <2>3. PageOf(u, u.end - 1) \in Pages(V)
    BY <2>1, PageFields
  <2> QED BY <1>2, <2>2, <2>3, Zenon DEF RunStarts
<1>3. ASSUME a = v.start, v \in RunStarts(V), NEW p \in Pages(V), Continues(p, PageOf(v, a))
      PROVE  FALSE
  <2>1. PICK u \in V : \E b \in u.start .. u.end - 1 : p = PageOf(u, b)
    BY PagesAre, Zenon
  <2>2. PICK b \in u.start .. u.end - 1 : p = PageOf(u, b)
    BY <2>1, Zenon
  <2>3. Continues(PageOf(u, b), PageOf(v, a))
    BY <1>3, <2>2, Zenon
  <2>4. ~Continues(u, v)
    BY <1>3, Zenon DEF RunStarts
  <2>5. u = v /\ a = b + 1
    BY <2>3, <2>4, PageContinues, Zenon
  <2>6. b >= v.start /\ b \in Int
    BY <2>5, <1>0
  <2> QED BY <1>0, <1>3, <2>5, <2>6
<1>4. PageOf(v, a) \in Pages(V)
  BY PageFields
<1>5. ASSUME PageOf(v, a) \in RunStarts(Pages(V)) PROVE a = v.start /\ v \in RunStarts(V)
  BY <1>5, <1>1, <1>2, Zenon DEF RunStarts
<1>6. ASSUME a = v.start, v \in RunStarts(V) PROVE PageOf(v, a) \in RunStarts(Pages(V))
  BY <1>6, <1>3, <1>4, Zenon DEF RunStarts
<1> QED BY <1>5, <1>6, Zenon

(* A page is followed by none where it is the last of such a mapping.      *)
LEMMA PageStops ==
  ASSUME NEW V, WellFormed(V), NEW v \in V, NEW w \in V, NEW b \in w.start .. w.end - 1
  PROVE  PageOf(w, b) \in Stops(Pages(V), PageOf(v, v.start)) <=>
           b = w.end - 1 /\ w \in Stops(V, v)
<1>0. /\ w.start \in Nat /\ w.end \in Nat /\ b \in Nat /\ v.start \in Nat /\ v.end \in Nat
      /\ v.start < v.end /\ w.start < w.end
  <2>1. /\ w.start \in Nat /\ w.end \in Nat /\ v.start \in Nat /\ v.end \in Nat
        /\ v.start < v.end /\ w.start < w.end
    BY VmaFields, Zenon
  <2> QED BY <2>1
<1>1. PageOf(w, b) \in Pages(V) /\ PageOf(w, b).start = b
  BY PageFields
<1>2. v.start \in v.start .. v.end - 1
  BY EndPages, Zenon
<1>3. PageOf(v, v.start).start = v.start
  BY <1>2, PageFields
<1>4. ASSUME b # w.end - 1 PROVE \E p \in Pages(V) : Continues(PageOf(w, b), p)
  <2>1. b + 1 \in w.start .. w.end - 1
    BY <1>0, <1>4
  <2>2. Continues(PageOf(w, b), PageOf(w, b + 1))
    BY <2>1, PageContinues, Zenon
  <2>3. PageOf(w, b + 1) \in Pages(V)
    BY <2>1, PageFields
  <2> QED BY <2>2, <2>3, Zenon
<1>5. ASSUME b = w.end - 1, NEW u \in V, Continues(w, u)
      PROVE  \E p \in Pages(V) : Continues(PageOf(w, b), p)
  <2>1. u.start \in u.start .. u.end - 1
    BY EndPages, Zenon
  <2>2. Continues(PageOf(w, b), PageOf(u, u.start))
    BY SMTT(20), <1>5, <2>1, PageContinues
  <2>3. PageOf(u, u.start) \in Pages(V)
    BY <2>1, PageFields
  <2> QED BY <2>2, <2>3, Zenon
<1>6. ASSUME b = w.end - 1, NEW p \in Pages(V), Continues(PageOf(w, b), p)
      PROVE  \E u \in V : Continues(w, u)
  <2>1. PICK u \in V : \E a \in u.start .. u.end - 1 : p = PageOf(u, a)
    BY PagesAre, Zenon
  <2>2. PICK a \in u.start .. u.end - 1 : p = PageOf(u, a)
    BY <2>1, Zenon
  <2>3. Continues(PageOf(w, b), PageOf(u, a))
    BY <1>6, <2>2, Zenon
  <2>4. (w = u /\ a = b + 1) \/ Continues(w, u)
    BY <2>3, PageContinues, Zenon
  <2>5. ~(w = u /\ a = b + 1)
    BY <1>0, <1>6
  <2> QED BY <2>4, <2>5, Zenon
<1>7. ASSUME b = w.end - 1 PROVE b >= v.start <=> w.start >= v.start
  <2>1. v = w \/ v.end <= w.start \/ w.end <= v.start
    BY VmaApart, Zenon
  <2> QED BY <1>0, <1>7, <2>1
<1>8. PageOf(w, b) \in Stops(Pages(V), PageOf(v, v.start)) <=>
        b >= v.start /\ \A p \in Pages(V) : ~Continues(PageOf(w, b), p)
  BY <1>1, <1>3, Zenon DEF Stops
<1>9. w \in Stops(V, v) <=> w.start >= v.start /\ \A u \in V : ~Continues(w, u)
  BY Zenon DEF Stops
<1>10. CASE b # w.end - 1
  BY <1>10, <1>4, <1>8, Zenon
<1>11. CASE b = w.end - 1
  BY <1>11, <1>5, <1>6, <1>7, <1>8, <1>9, Zenon
<1> QED BY <1>10, <1>11, Zenon

(* So the run of a mapping is the run of its first page.                   *)
LEMMA PageRun ==
  ASSUME NEW V, WellFormed(V), NEW v \in V
  PROVE  RunOf(Pages(V), PageOf(v, v.start)) = RunOf(V, v)
<1> DEFINE f == PageOf(v, v.start)
           w == baseline_run_end(V, v)
           l == PageOf(w, w.end - 1)
<1>1. w \in Stops(V, v) /\ \A u \in Stops(V, v) : w.start <= u.start
  BY EndExists, Zenon
<1>2. w \in V
  BY <1>1, Zenon DEF Stops
<1>3. v.start \in v.start .. v.end - 1 /\ w.end - 1 \in w.start .. w.end - 1
  BY <1>2, EndPages, Zenon
<1>4. /\ f \in Pages(V) /\ f.start = v.start /\ f.file = v.file
      /\ f.offset = v.offset + (v.start - v.start)
  BY SMTT(20), <1>3, PageFields
<1>5. /\ l \in Pages(V) /\ l.start = w.end - 1 /\ l.end = w.end - 1 + 1
      /\ l.offset = w.offset + (w.end - 1 - w.start)
  BY <1>2, <1>3, PageFields
<1>6. /\ v.start \in Nat /\ v.offset \in Nat /\ w.start \in Nat /\ w.end \in Nat
      /\ w.offset \in Nat /\ w.start < w.end
  BY <1>2, VmaFields, Zenon
<1>7. l \in Stops(Pages(V), f)
  BY <1>1, <1>2, <1>3, PageStops, Zenon
<1>8. ASSUME NEW p \in Stops(Pages(V), f) PROVE l.start <= p.start
  <2>1. p \in Pages(V)
    BY Zenon DEF Stops
  <2>2. PICK u \in V : \E b \in u.start .. u.end - 1 : p = PageOf(u, b)
    BY <2>1, PagesAre, Zenon
  <2>3. PICK b \in u.start .. u.end - 1 : p = PageOf(u, b)
    BY <2>2, Zenon
  <2>4. PageOf(u, b) \in Stops(Pages(V), PageOf(v, v.start))
    BY <2>3, <1>8, Zenon
  <2>5. b = u.end - 1 /\ u \in Stops(V, v)
    BY <2>4, PageStops, Zenon
  <2>6. w.start <= u.start /\ (w = u \/ w.end <= u.start \/ u.end <= w.start)
    BY <2>5, <1>1, <1>2, VmaApart, Zenon
  <2>7. u.start \in Nat /\ u.end \in Nat /\ u.start < u.end
    BY VmaFields, Zenon
  <2>8. p.start = b
    BY <2>3, PageFields
  <2> QED BY <1>5, <1>6, <2>5, <2>6, <2>7, <2>8
<1>9. WellFormed(Pages(V))
  BY PagesWellFormed, Zenon
<1>10. baseline_run_end(Pages(V), f) = l
  <2> HIDE DEF f, l
  <2> QED BY <1>4, <1>7, <1>8, <1>9, EndUnique, Zenon
<1>11. l.end = w.end /\ l.offset + (l.end - l.start) = w.offset + (w.end - w.start)
       /\ f.offset = v.offset
  <2> HIDE DEF f, l, w
  <2> QED BY <1>4, <1>5, <1>6
<1> HIDE DEF f, l, w
<1>12. RunOf(Pages(V), f) = [file |-> f.file, start |-> f.start, end |-> l.end,
                             lo |-> f.offset, hi |-> l.offset + (l.end - l.start)]
  BY <1>10, Zenon DEF RunOf
<1>13. RunOf(V, v) = [file |-> v.file, start |-> v.start, end |-> w.end,
                      lo |-> v.offset, hi |-> w.offset + (w.end - w.start)]
  BY Zenon DEF RunOf, w
<1>14. RunOf(Pages(V), f) = RunOf(V, v)
  BY <1>4, <1>11, <1>12, <1>13, Zenon
<1> QED BY <1>14, Zenon DEF f

(* Cutting every mapping into pages leaves the runs as they are.           *)
LEMMA PageRuns ==
  ASSUME NEW V, WellFormed(V)
  PROVE  Runs(Pages(V)) = Runs(V)
<1>1. ASSUME NEW run \in Runs(V) PROVE run \in Runs(Pages(V))
  <2>1. PICK v \in RunStarts(V) : run = RunOf(V, v)
    BY Zenon DEF Runs
  <2>2. v \in V
    BY Zenon DEF RunStarts
  <2>3. v.start \in v.start .. v.end - 1
    BY <2>2, EndPages, Zenon
  <2>4. PageOf(v, v.start) \in RunStarts(Pages(V))
    BY <2>1, <2>2, <2>3, PageStarts, Zenon
  <2>5. run = RunOf(Pages(V), PageOf(v, v.start))
    BY <2>1, <2>2, PageRun, Zenon
  <2> QED BY <2>4, <2>5, Zenon DEF Runs
<1>2. ASSUME NEW run \in Runs(Pages(V)) PROVE run \in Runs(V)
  <2>1. PICK p \in RunStarts(Pages(V)) : run = RunOf(Pages(V), p)
    BY Zenon DEF Runs
  <2>2. p \in Pages(V)
    BY Zenon DEF RunStarts
  <2>3. PICK v \in V : \E a \in v.start .. v.end - 1 : p = PageOf(v, a)
    BY <2>2, PagesAre, Zenon
  <2>4. PICK a \in v.start .. v.end - 1 : p = PageOf(v, a)
    BY <2>3, Zenon
  <2>5. PageOf(v, a) \in RunStarts(Pages(V))
    BY <2>1, <2>4, Zenon
  <2>6. a = v.start /\ v \in RunStarts(V)
    BY <2>5, PageStarts, Zenon
  <2>7. run = RunOf(V, v)
    BY <2>1, <2>4, <2>6, PageRun, Zenon
  <2> QED BY <2>6, <2>7, Zenon DEF Runs
<1> QED BY <1>1, <1>2, Zenon

-----------------------------------------------------------------------------
(* The mappings of a run are mapped from one file, as one piece.           *)
LEMMA RunJoined ==
  ASSUME NEW V, WellFormed(V), NEW v \in V, NEW u \in V,
         v.start <= u.start, u.start <= baseline_run_end(V, v).start
  PROVE  u.file = v.file /\ u.offset = v.offset + (u.start - v.start)
<1> DEFINE w == baseline_run_end(V, v)
           Good(x) == x.file = v.file /\ x.offset = v.offset + (x.start - v.start)
           Bad == {k \in Nat : \E x \in V : x.start = k /\ v.start <= k /\ k <= w.start /\ ~Good(x)}
<1>1. w \in V /\ \A x \in Stops(V, v) : w.start <= x.start
  BY EndExists, Zenon DEF Stops
<1>2. \A x \in V : /\ x.start \in Nat /\ x.end \in Nat /\ x.offset \in Nat /\ x.start < x.end
  BY VmaFields, Zenon
<1> HIDE DEF w
<1>3. SUFFICES ASSUME ~Good(u) PROVE FALSE
  BY Zenon
<1>4. u.start \in Bad
  BY <1>2, <1>3, Zenon DEF w
<1>5. PICK k \in Bad : \A j \in Bad : k <= j
  BY <1>4, LeastExists, Zenon
<1>6. PICK x \in V : x.start = k /\ v.start <= k /\ k <= w.start /\ ~Good(x)
  BY <1>5, Zenon
<1>7. v.start < x.start
  <2>1. Good(v)
    BY <1>2
  <2>2. v # x
    BY <2>1, <1>6, Zenon
  <2>3. v.start # x.start
    BY <2>2, VmaStart, Zenon
  <2> QED BY <2>3, <1>2, <1>6
<1> DEFINE G == {j \in Nat : \E y \in V : v.start <= y.start /\ y.start < x.start /\ j + y.start = x.start}
<1>8. x.start - v.start \in G
  <2>1. /\ x.start - v.start \in Nat /\ (x.start - v.start) + v.start = x.start
        /\ v.start <= v.start
    BY <1>2, <1>7
  <2> QED BY <2>1, <1>7, Zenon
<1>9. PICK j \in G : \A i \in G : j <= i
  BY <1>8, LeastExists, Zenon
<1>10. PICK y \in V : v.start <= y.start /\ y.start < x.start /\ j + y.start = x.start
  BY <1>9, Zenon
<1>11. ASSUME NEW z \in V, y.start < z.start, z.start < x.start PROVE FALSE
  <2>1. x.start \in Nat /\ y.start \in Nat /\ z.start \in Nat /\ v.start \in Nat /\ j \in Nat
    BY <1>2, <1>9, Zenon
  <2>2. /\ x.start - z.start \in Nat /\ (x.start - z.start) + z.start = x.start
        /\ v.start <= z.start
    BY <2>1, <1>10, <1>11
  <2>3. x.start - z.start \in G
    BY <2>2, <1>11, Zenon
  <2>4. j <= x.start - z.start
    BY <2>3, <1>9, Zenon
  <2> QED BY <2>1, <2>4, <1>10, <1>11
<1>12. y \notin Stops(V, v)
  <2>1. ~(w.start <= y.start)
    BY <1>1, <1>2, <1>6, <1>10
  <2> QED BY <2>1, <1>1, Zenon
<1>13. y.start >= v.start
  BY <1>2, <1>10
<1>14. PICK z \in V : Continues(y, z)
  BY <1>12, <1>13, Zenon DEF Stops
<1>15. z.file = y.file /\ z.start = y.end /\ z.offset = y.offset + (y.end - y.start)
  BY <1>14, Zenon DEF Continues
<1>16. z.start = x.start
  <2>1. y = x \/ y.end <= x.start \/ x.end <= y.start
    BY VmaApart, Zenon
  <2>2. ~(z.start < x.start)
    <3>1. y.start < z.start
      BY <1>2, <1>15
    <3> QED BY <3>1, <1>11, Zenon
  <2> QED BY <1>2, <1>10, <1>15, <2>1, <2>2
<1>17. z = x
  BY <1>16, VmaStart, Zenon
<1>18. Good(y)
  <2>1. y.start \in Nat /\ ~(k <= y.start) /\ y.start <= w.start
    BY <1>1, <1>2, <1>6, <1>10
  <2>2. y.start \notin Bad
    BY <2>1, <1>5, Zenon
  <2> QED BY <2>1, <2>2, <1>10, Zenon
<1>19. Good(x)
  BY <1>2, <1>10, <1>15, <1>17, <1>18
<1> QED BY <1>6, <1>19, Zenon

(* What an address of a run holds is at the same distance into its file.   *)
LEMMA RunPage ==
  ASSUME NEW V, WellFormed(V), NEW v \in V, NEW run, run = RunOf(V, v),
         NEW u \in V, NEW a \in u.start .. u.end - 1, run.start <= a, a < run.end
  PROVE  /\ run.file = u.file /\ run.lo \in Nat /\ run.hi \in Nat /\ run.start \in Nat
         /\ u.offset + (a - u.start) = run.lo + (a - run.start)
         /\ run.lo + (a - run.start) < run.hi /\ a \in Nat
<1> DEFINE w == baseline_run_end(V, v)
<1>1. w \in V /\ w.start >= v.start
  BY EndExists, Zenon DEF Stops
<1>2. /\ v.start \in Nat /\ v.end \in Nat /\ v.offset \in Nat /\ v.start < v.end
      /\ w.start \in Nat /\ w.end \in Nat /\ w.offset \in Nat /\ w.start < w.end
      /\ u.start \in Nat /\ u.end \in Nat /\ u.offset \in Nat /\ u.start < u.end
  BY <1>1, VmaFields, Zenon
<1>3. /\ run.file = v.file /\ run.start = v.start /\ run.end = w.end /\ run.lo = v.offset
      /\ run.hi = w.offset + (w.end - w.start)
  BY DEF RunOf
<1>4. v = u \/ v.end <= u.start \/ u.end <= v.start
  BY VmaApart, Zenon
<1>5. w = u \/ w.end <= u.start \/ u.end <= w.start
  BY <1>1, VmaApart, Zenon
<1> HIDE DEF w
<1>6. a \in Nat /\ v.start <= u.start /\ u.start <= w.start /\ v.start <= w.start
  BY <1>1, <1>2, <1>3, <1>4, <1>5
<1>7. u.file = v.file /\ u.offset = v.offset + (u.start - v.start)
  BY <1>6, RunJoined, Zenon DEF w
<1>8. w.start <= w.start
  BY <1>2
<1>9. w.offset = v.offset + (w.start - v.start)
  BY <1>1, <1>6, <1>8, RunJoined, Zenon DEF w
<1>10. run.lo \in Nat /\ run.hi \in Nat /\ run.start \in Nat
  BY SMTT(20), <1>2, <1>3
<1>11. u.offset + (a - u.start) = run.lo + (a - run.start)
  BY SMTT(20), <1>2, <1>3, <1>6, <1>7
<1>12. run.lo + (a - run.start) < run.hi
  BY <1>2, <1>3, <1>6, <1>9
<1> QED BY <1>3, <1>6, <1>7, <1>10, <1>11, <1>12, Zenon

-----------------------------------------------------------------------------
(* The greatest verdict is the verdict on a record that fits, or none.     *)
LEMMA WorstIs ==
  ASSUME NEW S, S \subseteq 0 .. 5, S # {}
  PROVE  Max(S) \in S /\ \A x \in S : Max(S) >= x
<1> DEFINE D == {d \in Nat : \E x \in S : d + x = 5}
<1>1. PICK s \in S : TRUE
  BY Zenon
<1>2. \A x \in S : x \in Nat /\ 5 - x \in Nat /\ (5 - x) + x = 5
  <2> SUFFICES ASSUME NEW x \in S PROVE x \in Nat /\ 5 - x \in Nat /\ (5 - x) + x = 5
    BY Zenon
  <2>1. x \in 0 .. 5
    BY Zenon
  <2> QED BY <2>1
<1>3. 5 - s \in D
  BY <1>2, Zenon
<1>4. PICK d \in D : \A j \in D : d <= j
  BY <1>3, LeastExists, Zenon
<1>5. PICK m \in S : d + m = 5
  BY <1>4, Zenon
<1>6. ASSUME NEW x \in S PROVE m >= x
  <2>1. 5 - x \in D
    BY <1>2, Zenon
  <2>2. d <= 5 - x
    BY <2>1, <1>4, Zenon
  <2> QED BY <1>2, <1>4, <1>5, <2>2
<1> QED BY <1>5, <1>6, Zenon DEF Max

(* A run of which nothing is logged: every record that fits it has the     *)
(* digest of what is mapped, and every other that overlaps it is excused.  *)
LEMMA QuietRun ==
  ASSUME NEW run, NEW V, NEW complete \in BOOLEAN, Level(run, V, complete) = "none"
  PROVE  /\ \A r \in recs : Fits(r, run) =>
              hash_proc_mem(run.start + (r.offset - run.lo), r.size) = r.hex
         /\ \A r \in recs : Partly(r, run) => Excused(r, run, {q \in recs : Fits(q, run)})
<1> DEFINE fits == {r \in recs : Fits(r, run)}
           S == {AC_BL_UNBASELINED} \cup {RecordVerdict(r, run) : r \in fits}
           worst == Max(S)
           verdict == baseline_check_run(run)
           loose == \E r \in recs : Partly(r, run) /\ ~Excused(r, run, fits)
<1>1. verdict # AC_BL_PARTIAL /\ verdict # AC_BL_MISMATCH /\ verdict # AC_BL_LEGACY
      /\ verdict # AC_BL_HASH_FAILED
  BY DEF Level
<1>2. verdict = IF worst < AC_BL_PARTIAL /\ loose THEN AC_BL_PARTIAL
                ELSE IF worst = AC_BL_UNBASELINED /\ run.file \in legacy THEN AC_BL_LEGACY
                ELSE worst
  BY Zenon DEF baseline_check_run
<1>3. \A r \in recs : RecordVerdict(r, run) \in {AC_BL_OK, AC_BL_HASH_FAILED, AC_BL_MISMATCH}
  BY Zenon DEF RecordVerdict
<1>4. S \subseteq 0 .. 5 /\ S # {}
  BY <1>3 DEF AC_BL_OK, AC_BL_HASH_FAILED, AC_BL_MISMATCH, AC_BL_UNBASELINED
<1>5. worst \in S /\ \A x \in S : worst >= x
  BY <1>4, WorstIs, Zenon
<1> HIDE DEF verdict, worst
<1>6. worst \in 0 .. 5
  BY <1>4, <1>5, Zenon
<1>7. ~(worst < AC_BL_PARTIAL /\ loose)
  BY <1>1, <1>2, Zenon
<1>8. verdict = worst
  BY <1>1, <1>2, <1>7, Zenon
<1>9. worst <= 2 /\ ~loose
  BY <1>1, <1>6, <1>7, <1>8
    DEF AC_BL_OK, AC_BL_HASH_FAILED, AC_BL_MISMATCH, AC_BL_UNBASELINED, AC_BL_PARTIAL, AC_BL_LEGACY
<1>10. ASSUME NEW r \in recs, Fits(r, run)
       PROVE  hash_proc_mem(run.start + (r.offset - run.lo), r.size) = r.hex
  <2>1. RecordVerdict(r, run) \in S
    BY <1>10, Zenon
  <2>2. worst >= RecordVerdict(r, run)
    BY <2>1, <1>5, Zenon
  <2>3. RecordVerdict(r, run) # AC_BL_HASH_FAILED /\ RecordVerdict(r, run) # AC_BL_MISMATCH
    BY <2>2, <1>6, <1>9 DEF AC_BL_HASH_FAILED, AC_BL_MISMATCH
  <2> QED BY <2>3, Zenon DEF RecordVerdict
<1> QED BY <1>9, <1>10, Zenon

(* Such a record vouches for every page of the run that it covers.         *)
LEMMA FitVouches ==
  ASSUME NEW V, WellFormed(V), NEW v \in V, NEW run, run = RunOf(V, v),
         NEW u \in V, NEW a \in u.start .. u.end - 1, run.start <= a, a < run.end,
         Ranges(recs), NEW r \in recs, Fits(r, run), StandsIn(run.lo + (a - run.start), r),
         hash_proc_mem(run.start + (r.offset - run.lo), r.size) = r.hex
  PROVE  VouchesFor(r, u, a)
<1> DEFINE o == run.lo + (a - run.start)
           k == o - r.offset + 1
           at == run.start + (r.offset - run.lo)
<1>1. /\ run.file = u.file /\ run.lo \in Nat /\ run.start \in Nat /\ a \in Nat
      /\ u.offset + (a - u.start) = o
  BY RunPage
<1>2. r.offset \in Nat /\ r.size \in Nat /\ r.inode = run.file
  BY Zenon DEF Ranges, Fits, Overlaps
<1>3. r.offset <= o /\ r.offset + r.size > o
  BY Zenon DEF StandsIn
<1>4. k \in 1 .. r.size /\ at + k - 1 = a
  BY <1>1, <1>2, <1>3
<1> HIDE DEF k, at
<1>5. hash_proc_mem(at, r.size)[k] = mem[at + k - 1]
  BY <1>4, Zenon DEF hash_proc_mem
<1>6. r.hex[k] = mem[a]
  BY <1>4, <1>5, Zenon DEF at
<1>7. r.hex[u.offset + (a - u.start) - r.offset + 1] = mem[a]
  <2>0. u.offset \in Nat /\ u.start \in Nat
    BY VmaFields, Zenon
  <2>1. u.offset + (a - u.start) - r.offset + 1 = k
    BY <1>1, <1>2, <2>0 DEF k
  <2> QED BY <2>1, <1>6, Zenon
<1>8. CoversPage(r, u, a)
  BY <1>1, <1>2, Zenon DEF CoversPage
<1> QED BY <1>7, <1>8, Zenon DEF VouchesFor

-----------------------------------------------------------------------------
(* The mappings stay disjoint, and the records are ranges of their files.  *)
BaselineInv == WellFormed(vmas) /\ Ranges(recs)

(* Fewer mappings are well formed too.                                     *)
LEMMA FewerVmas ==
  ASSUME NEW V, WellFormed(V), NEW W, W \subseteq V
  PROVE  WellFormed(W)
BY Zenon DEF WellFormed, Disjoint

(* The layouts of a new process are.                                       *)
LEMMA LayoutVmas ==
  ASSUME NEW V \in Layouts
  PROVE  WellFormed(V)
BY BaselineAssumption, Zenon DEF WellFormed

(* A mapping may be replaced by parts of itself.                           *)
LEMMA PartVmas ==
  ASSUME NEW V, WellFormed(V), NEW v \in V, NEW P,
         \A p \in P : /\ p \in Vma /\ p.start < p.end
                      /\ v.start <= p.start /\ p.end <= v.end,
         Disjoint(P)
  PROVE  WellFormed((V \ {v}) \cup P)
<1> DEFINE W == (V \ {v}) \cup P
<1>1. ASSUME NEW w \in W PROVE w \in Vma /\ w.start < w.end
  BY <1>1, Zenon DEF WellFormed
<1>2. ASSUME NEW p \in P, NEW w \in V \ {v}
      PROVE  p.end <= w.start \/ w.end <= p.start
  <2>1. v.end <= w.start \/ w.end <= v.start
    BY VmaApart, Zenon
  <2>2. /\ v.start \in Nat /\ v.end \in Nat /\ w.start \in Nat /\ w.end \in Nat
    BY VmaFields, Zenon
  <2>3. p.start \in Nat /\ p.end \in Nat
    BY BaselineAssumption DEF Vma, Addrs
  <2> QED BY <2>1, <2>2, <2>3
<1>3. ASSUME NEW w \in W, NEW u \in W PROVE w = u \/ w.end <= u.start \/ u.end <= w.start
  <2>1. CASE w \in V \ {v} /\ u \in V \ {v}
    BY <2>1, VmaApart, Zenon
  <2>2. CASE w \in P /\ u \in P
    BY <2>2, Zenon DEF Disjoint
  <2>3. CASE w \in P /\ u \in V \ {v}
    BY <2>3, <1>2, Zenon
  <2>4. CASE w \in V \ {v} /\ u \in P
    BY <2>4, <1>2, Zenon
  <2> QED BY <1>3, <2>1, <2>2, <2>3, <2>4, Zenon
<1> QED BY <1>1, <1>3, Zenon DEF WellFormed, Disjoint

(* madvise() or mprotect() on a part of v.                                 *)
LEMMA SplitVmas ==
  ASSUME WellFormed(vmas), NEW v \in vmas, NEW at \in Addrs, Split(v, at)
  PROVE  WellFormed(vmas')
<1> DEFINE p == [v EXCEPT !.end = at]
           q == [v EXCEPT !.start = at, !.offset = v.offset + (at - v.start)]
<1>1. v \in Vma /\ v.start < at /\ at < v.end
  BY Zenon DEF WellFormed, Split
<1>2. v.start \in Nat /\ v.end \in Nat /\ v.offset \in Nat /\ v.end <= MaxAddr + 1
  BY VmaFields, Zenon
<1>3. at \in Nat /\ at \in 1 .. MaxAddr + 1 /\ v.offset + (at - v.start) \in Nat
      /\ v.start <= v.start /\ v.end <= v.end /\ at <= v.end /\ v.start <= at /\ at <= at
  BY <1>1, <1>2, BaselineAssumption DEF Addrs
<1>4. p \in Vma /\ p.start = v.start /\ p.end = at
  <2>1. p \in Vma
    BY <1>1, <1>3, Zenon DEF Vma
  <2>2. p.start = v.start /\ p.end = at
    BY <1>1 DEF Vma
  <2> QED BY <2>1, <2>2, Zenon
<1>5. q \in Vma /\ q.start = at /\ q.end = v.end
  <2>1. q \in Vma
    BY <1>1, <1>3, Zenon DEF Vma
  <2>2. q.start = at /\ q.end = v.end
    BY <1>1 DEF Vma
  <2> QED BY <2>1, <2>2, Zenon
<1>6. vmas' = (vmas \ {v}) \cup {p, q}
  BY Zenon DEF Split
<1> HIDE DEF p, q
<1>7. \A r \in {p, q} : /\ r \in Vma /\ r.start < r.end
                        /\ v.start <= r.start /\ r.end <= v.end
  BY <1>1, <1>3, <1>4, <1>5, Zenon
<1>8. Disjoint({p, q})
  BY <1>3, <1>4, <1>5, Zenon DEF Disjoint
<1>9. WellFormed((vmas \ {v}) \cup {p, q})
  BY <1>7, <1>8, PartVmas, Zenon
<1> QED BY <1>6, <1>9, Zenon

(* mprotect() takes the execute permission of v away.                      *)
LEMMA NoExecVmas ==
  ASSUME WellFormed(vmas), NEW v \in vmas, NoExec(v)
  PROVE  WellFormed(vmas')
<1> DEFINE p == [v EXCEPT !.exec = FALSE]
<1>1. v \in Vma /\ v.start < v.end
  BY Zenon DEF WellFormed
<1>2. v.start \in Nat /\ v.end \in Nat
  BY VmaFields, Zenon
<1>3. p \in Vma
  BY <1>1, Zenon DEF Vma
<1>4. p.start = v.start /\ p.end = v.end /\ v.start <= v.start /\ v.end <= v.end
  BY <1>1, <1>2 DEF Vma
<1>5. vmas' = (vmas \ {v}) \cup {p}
  BY Zenon DEF NoExec
<1> HIDE DEF p
<1>6. Disjoint({p})
  BY Zenon DEF Disjoint
<1>7. \A r \in {p} : /\ r \in Vma /\ r.start < r.end
                     /\ v.start <= r.start /\ r.end <= v.end
  BY <1>1, <1>3, <1>4, Zenon
<1>8. WellFormed((vmas \ {v}) \cup {p})
  BY <1>6, <1>7, PartVmas, Zenon
<1> QED BY <1>5, <1>8, Zenon

(* --save writes ranges.                                                   *)
LEMMA SaveRanges ==
  ASSUME BaselineInv, Save
  PROVE  Ranges(recs')
<1>1. ASSUME NEW v \in vmas PROVE RecordOf(v).offset \in Nat /\ RecordOf(v).size \in Nat
  <2>1. v.start \in Nat /\ v.end \in Nat /\ v.offset \in Nat /\ v.start < v.end
    BY <1>1, VmaFields, Zenon DEF BaselineInv
  <2>2. SavedSize(v) \in Nat
    BY <2>1, BaselineAssumption DEF SavedSize
  <2>3. RecordOf(v).offset = v.offset /\ RecordOf(v).size = SavedSize(v)
    BY Zenon DEF RecordOf
  <2> QED BY <2>1, <2>2, <2>3, Zenon
<1>2. ASSUME NEW r \in recs' PROVE r \in recs \/ \E v \in vmas : r = RecordOf(v)
  BY <1>2, Zenon DEF Save, Hashable, Checked
<1>3. Ranges(recs)
  BY Zenon DEF BaselineInv
<1> QED BY <1>1, <1>2, <1>3, Zenon DEF Ranges

(* Every step keeps the invariant.                                         *)
LEMMA BaselineStep == BaselineInv /\ [BaselineNext]_baselineVars => BaselineInv'
<1> SUFFICES ASSUME BaselineInv, [BaselineNext]_baselineVars PROVE BaselineInv'
  BY Zenon
<1>0. WellFormed(vmas) /\ Ranges(recs)
  BY Zenon DEF BaselineInv
<1>1. CASE Save
  <2>1. vmas' = vmas
    BY <1>1, Zenon DEF Save
  <2> QED BY <1>0, <1>1, <2>1, SaveRanges, Zenon DEF BaselineInv
<1>2. CASE Rebuild
  <2>1. vmas' \in Layouts /\ recs' = recs
    BY <1>2, Zenon DEF Rebuild
  <2>2. WellFormed(vmas')
    BY <2>1, LayoutVmas, Zenon
  <2> QED BY <1>0, <2>1, <2>2, Zenon DEF BaselineInv
<1>3. ASSUME NEW v \in vmas, Unmap(v) PROVE BaselineInv'
  <2>1. vmas' = vmas \ {v} /\ recs' = recs
    BY <1>3, Zenon DEF Unmap
  <2>2. WellFormed(vmas \ {v})
    BY <1>0, FewerVmas, Zenon
  <2> QED BY <1>0, <2>1, <2>2, Zenon DEF BaselineInv
<1>4. ASSUME NEW v \in vmas, NoExec(v) PROVE BaselineInv'
  <2>1. recs' = recs
    BY <1>4, Zenon DEF NoExec
  <2> QED BY <1>0, <1>4, <2>1, NoExecVmas, Zenon DEF BaselineInv
<1>5. ASSUME NEW v \in vmas, NEW at \in Addrs, Split(v, at) PROVE BaselineInv'
  <2>1. recs' = recs
    BY <1>5, Zenon DEF Split
  <2> QED BY <1>0, <1>5, <2>1, SplitVmas, Zenon DEF BaselineInv
<1>6. ASSUME NEW a, Patch(a) \/ HidePage(a) PROVE BaselineInv'
  <2>1. vmas' = vmas /\ recs' = recs
    BY <1>6, Zenon DEF Patch, HidePage
  <2> QED BY <1>0, <2>1, Zenon DEF BaselineInv
<1>7. CASE UNCHANGED baselineVars
  <2>1. vmas' = vmas /\ recs' = recs
    BY <1>7, Zenon DEF baselineVars
  <2> QED BY <1>0, <2>1, Zenon DEF BaselineInv
<1> QED BY <1>1, <1>2, <1>3, <1>4, <1>5, <1>6, <1>7, Zenon DEF BaselineNext

(* The invariant holds however the process changes between two checks.     *)
THEOREM BaselineInvariance == BaselineSpec => []BaselineInv
<1>1. BaselineInit => BaselineInv
  <2> SUFFICES ASSUME BaselineInit PROVE BaselineInv
    BY Zenon
  <2>1. vmas \in Layouts /\ recs = {}
    BY Zenon DEF BaselineInit
  <2>2. WellFormed(vmas)
    BY <2>1, LayoutVmas, Zenon
  <2> QED BY <2>1, <2>2, Zenon DEF BaselineInv, Ranges
<1> QED BY <1>1, BaselineStep, PTL DEF BaselineSpec

(* Where the kernel draws the boundaries between mappings never shows:     *)
(* baseline_run_end() joins the pieces to the same runs, on which          *)
(* baseline_check_run() gives the same verdicts.                           *)
THEOREM BoundariesInvisible == BaselineSpec => []SplitInvisible
<1>1. BaselineInv => SplitInvisible
  <2> SUFFICES ASSUME BaselineInv PROVE SplitInvisible
    BY Zenon
  <2> DEFINE V == Checked(vmas)
  <2>1. V \subseteq vmas
    BY Zenon DEF Checked
  <2>2. WellFormed(V)
    BY <2>1, FewerVmas, Zenon DEF BaselineInv
  <2>3. Runs(Pages(V)) = Runs(V)
    BY <2>2, PageRuns, Zenon
  <2> QED BY <2>3, Zenon DEF SplitInvisible, Verdicts
<1> QED BY <1>1, BaselineInvariance, PTL

(* No page that a record covers goes unverified in silence: if             *)
(* check_baselines() logs nothing of a run, each such page has the content *)
(* that a record within the run holds of it.                               *)
THEOREM SilenceVouched == BaselineSpec => []QuietVouched
<1>1. BaselineInv => QuietVouched
  <2> SUFFICES ASSUME BaselineInv, NEW c \in 0 .. MaxAddr + 1, NEW run \in Runs(Snapshot(c)),
                      check_baselines(c)[run] = "none",
                      NEW u \in Snapshot(c), NEW a \in u.start .. u.end - 1,
                      run.start <= a, a < run.end, NEW r \in recs, CoversPage(r, u, a)
               PROVE  \E q \in recs : Fits(q, run) /\ VouchesFor(q, u, a)
    BY Zenon DEF QuietVouched
  <2> DEFINE V == Snapshot(c)
             fits == {q \in recs : Fits(q, run)}
             o == run.lo + (a - run.start)
  <2>1. WellFormed(V) /\ Ranges(recs)
    <3>1. V \subseteq vmas
      BY Zenon DEF Snapshot, Checked
    <3> QED BY <3>1, FewerVmas, Zenon DEF BaselineInv
  <2>2. PICK v \in V : run = RunOf(V, v)
    BY Zenon DEF Runs, RunStarts
  <2>3. /\ run.file = u.file /\ run.lo \in Nat /\ run.hi \in Nat /\ run.start \in Nat
        /\ u.offset + (a - u.start) = o /\ o < run.hi /\ a \in Nat
    <3> HIDE DEF V
    <3>1. u \in V
      BY Zenon DEF V
    <3> QED BY <2>1, <2>2, <3>1, RunPage
  <2>4. Level(run, V, \A w \in vmas : w.start < c) = "none"
    BY Zenon DEF check_baselines
  <2>5. /\ \A q \in recs : Fits(q, run) =>
             hash_proc_mem(run.start + (q.offset - run.lo), q.size) = q.hex
        /\ \A q \in recs : Partly(q, run) => Excused(q, run, fits)
    <3> HIDE DEF V
    <3>1. (\A w \in vmas : w.start < c) \in BOOLEAN
      BY Zenon
    <3> QED BY <2>4, <3>1, QuietRun, Zenon
  <2>6. ASSUME NEW q \in recs, Fits(q, run), StandsIn(o, q) PROVE VouchesFor(q, u, a)
    <3> HIDE DEF V
    <3>1. u \in V
      BY Zenon DEF V
    <3> QED BY <2>1, <2>2, <2>5, <2>6, <3>1, FitVouches, Zenon
  <2>7. StandsIn(o, r) /\ r.inode = run.file
    <3> HIDE DEF o
    <3> QED BY <2>3, Zenon DEF CoversPage
  <2>8. /\ o \in Nat /\ run.lo <= o /\ r.offset \in Nat /\ r.size \in Nat
        /\ r.offset <= o /\ o < r.offset + r.size
    <3>1. r.offset \in Nat /\ r.size \in Nat /\ r.offset <= o /\ r.offset + r.size > o
      BY <2>1, <2>7, Zenon DEF Ranges, StandsIn
    <3> QED BY <2>3, <3>1
  <2>9. Overlaps(r, run)
    <3> HIDE DEF o
    <3> QED BY <2>3, <2>7, <2>8 DEF Overlaps
  <2>10. CASE Fits(r, run)
    BY <2>6, <2>7, <2>10, Zenon
  <2>11. CASE ~Fits(r, run)
    <3> HIDE DEF o, fits
    <3>1. Excused(r, run, fits)
      BY <2>5, <2>9, <2>11, Zenon DEF Partly
    <3>2. /\ OverlapLo(r, run) \in Nat /\ OverlapHi(r, run) \in Nat
          /\ o \in OverlapLo(r, run) .. OverlapHi(r, run) - 1
      BY <2>3, <2>8 DEF OverlapLo, OverlapHi
    <3>3. Ranges(fits)
      BY <2>1, Zenon DEF Ranges, fits
    <3>4. AllCovered(fits, OverlapLo(r, run), OverlapHi(r, run))
      BY <3>1, <3>2, <3>3, AdvanceExact, Zenon DEF Excused
    <3>5. PICK q \in fits : StandsIn(o, q)
      BY <3>2, <3>4, Zenon DEF AllCovered
    <3>6. q \in recs /\ Fits(q, run)
      BY Zenon DEF fits
    <3> QED BY <2>6, <3>5, <3>6, Zenon
  <2> QED BY <2>10, <2>11, Zenon
<1> QED BY <1>1, BaselineInvariance, PTL
=============================================================================
