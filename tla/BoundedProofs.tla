--------------------------- MODULE BoundedProofs ---------------------------
(***************************************************************************)
(* Two stores of bounded size: the event ring of the kernel module, for    *)
(* every ring size, batch size, set of readers and number of events; and   *)
(* the daemon's tables of watched processes, for any number of pids and of *)
(* slots.                                                                  *)
(***************************************************************************)
EXTENDS EventRing, WatchTables, FiniteSetTheorems, WellFoundedInduction, TLAPS

N == AC_RING_SIZE

(* Index arithmetic of the ring: less than one turn past an index wraps at *)
(* most once.                                                              *)
LEMMA Wrap ==
  \A t \in Index, k \in 0 .. N :
     /\ (t + k) % N = IF t + k < N THEN t + k ELSE t + k - N
     /\ (t + k) % N \in Index
<1>1. \A x \in 0 .. N - 1 : x % N = x
  BY SizeAssumption, SMTT(20) DEF N
<1>2. \A x \in N .. 2 * N - 1 : x % N = x - N
  BY SizeAssumption, SMTT(20) DEF N
<1>. QED BY <1>1, <1>2, SizeAssumption DEF N, Index

(* Two moves of an index are one move by their sum.                        *)
LEMMA Shift ==
  \A t \in Index, j, k \in 0 .. N :
     j + k <= N => (((t + j) % N) + k) % N = (t + (j + k)) % N
<1>. SUFFICES ASSUME NEW t \in Index, NEW j \in 0 .. N, NEW k \in 0 .. N, j + k <= N
              PROVE  (((t + j) % N) + k) % N = (t + (j + k)) % N
  OBVIOUS
<1>. DEFINE u == (t + j) % N
<1>1. N \in Nat /\ j + k \in 0 .. N
  BY SizeAssumption DEF N
<1>2. u = (IF t + j < N THEN t + j ELSE t + j - N) /\ u \in Index
  BY Wrap, Zenon
<1>3. (u + k) % N = IF u + k < N THEN u + k ELSE u + k - N
  BY <1>2, Wrap, Zenon
<1>4. (t + (j + k)) % N = IF t + (j + k) < N THEN t + (j + k) ELSE t + (j + k) - N
  BY <1>1, Wrap, Zenon
<1>. HIDE DEF u
<1>5. (u + k) % N = (t + (j + k)) % N
  BY <1>1, <1>2, <1>3, <1>4 DEF Index, N
<1>. QED BY <1>5, Zenon DEF u

(* Different offsets below the size reach different indexes.               *)
LEMMA Distinct ==
  \A t \in Index, j, k \in 0 .. N - 1 : j # k => (t + j) % N # (t + k) % N
<1>. SUFFICES ASSUME NEW t \in Index, NEW j \in 0 .. N - 1, NEW k \in 0 .. N - 1, j # k
              PROVE  (t + j) % N # (t + k) % N
  OBVIOUS
<1>1. N \in Nat /\ j \in 0 .. N /\ k \in 0 .. N
  BY SizeAssumption DEF N
<1>2. /\ (t + j) % N = IF t + j < N THEN t + j ELSE t + j - N
      /\ (t + k) % N = IF t + k < N THEN t + k ELSE t + k - N
  BY <1>1, Wrap, Zenon
<1>. QED BY <1>1, <1>2 DEF Index, N

(* A whole turn leads back to the index.                                   *)
LEMMA Turn == \A t \in Index : (t + 0) % N = t /\ (t + N) % N = t
<1>1. N \in Nat /\ N >= 1 /\ 0 \in 0 .. N /\ N \in 0 .. N
  BY SizeAssumption DEF N
<1>. SUFFICES ASSUME NEW t \in Index PROVE (t + 0) % N = t /\ (t + N) % N = t
  OBVIOUS
<1>2. (t + 0) % N = IF t + 0 < N THEN t + 0 ELSE t + 0 - N
  BY <1>1, Wrap, Zenon
<1>3. (t + N) % N = IF t + N < N THEN t + N ELSE t + N - N
  BY <1>1, Wrap, Zenon
<1>. QED BY <1>1, <1>2, <1>3 DEF Index, N

(* Whoever is between peek and the end of the call holds the lock.         *)
LockInv ==
  \A r \in Readers : pc[r] \in {"copy", "commit"} <=> ac_get_events_lock = r

(* A batch is the consecutive events that followed before[r] at the peek.  *)
BatchInv ==
  \A r \in Readers : pc[r] \in {"copy", "commit"} =>
    /\ Len(out[r]) <= AC_MAX_EVENTS
    /\ before[r] <= ac_ring_removed
    /\ CommitEnd(r) <= emitted
    /\ \A i \in 1 .. Len(out[r]) : out[r][i] = before[r] + i

(* What was delivered is out of the ring, except for the batch that is     *)
(* about to be committed, which is delivered as a whole.                   *)
DeliveredInv ==
  /\ ac_get_events_lock = Nobody => \A d \in delivered : d <= ac_ring_removed
  /\ \A r \in Readers : pc[r] = "copy" => \A d \in delivered : d <= before[r]
  /\ \A r \in Readers : pc[r] = "commit" =>
       /\ \A d \in delivered : d <= CommitEnd(r)
       /\ \A i \in 1 .. Len(out[r]) : before[r] + i \in delivered

(* Evicted events are distinct: each was the oldest of the ring once.      *)
EvictedInv ==
  /\ IsFiniteSet(evicted)
  /\ \A e \in evicted : e <= ac_ring_removed

IInv == TypeOK /\ RingContents /\ LockInv /\ BatchInv /\ DeliveredInv
        /\ NoSilentLoss /\ EvictedInv /\ DropsCounted

(* The empty ring has the invariant.                                       *)
LEMMA InitIInv == Init => IInv
<1>. SUFFICES ASSUME Init PROVE IInv
  OBVIOUS
<1>1. TypeOK
  BY SizeAssumption DEF Init, TypeOK, Index
<1>2. RingContents
  <2>1. 0 % AC_RING_SIZE = 0
    BY Wrap, SizeAssumption DEF N, Index
  <2>. QED BY <2>1, SizeAssumption DEF Init, RingContents
<1>3. LockInv
  BY NobodyAssumption, Zenon DEF Init, LockInv
<1>4. BatchInv /\ DeliveredInv /\ NoSilentLoss
  BY DEF Init, BatchInv, DeliveredInv, NoSilentLoss
<1>5. EvictedInv /\ DropsCounted
  BY FS_EmptySet, Zenon DEF Init, EvictedInv, DropsCounted
<1>. QED BY <1>1, <1>2, <1>3, <1>4, <1>5, Zenon DEF IInv

(* The arithmetic part of the invariant.                                  *)
Arith ==
  /\ N \in Nat /\ N >= 1 /\ AC_MAX_EVENTS \in Nat
  /\ ac_ring_head \in Index /\ ac_ring_tail \in Index
  /\ ac_ring_count \in 0 .. N
  /\ ac_ring_removed \in Nat /\ emitted \in Nat /\ ac_dropped \in Nat
  /\ ac_ring_removed + ac_ring_count = emitted
  /\ ac_ring_head = (ac_ring_tail + ac_ring_count) % N

Content ==
  \A k \in 0 .. ac_ring_count - 1 :
     ac_ring[(ac_ring_tail + k) % N] = ac_ring_removed + 1 + k

(* What the invariant says of the indexes and of the contents.             *)
LEMMA ArithInv == IInv => Arith /\ Content /\ ac_ring \in [Index -> Nat]
BY SizeAssumption DEF IInv, TypeOK, RingContents, Nth, N, Arith, Content

(* ac_emit() keeps the youngest events in the ring.                        *)
LEMMA EmitRing ==
  ASSUME Arith, Content, ac_ring \in [Index -> Nat], ac_emit
  PROVE  Arith' /\ Content' /\ (ac_ring \in [Index -> Nat])'
<1>. DEFINE t == ac_ring_tail
            c == ac_ring_count
<1>0. /\ emitted' = emitted + 1 /\ ac_ring_head' = (ac_ring_head + 1) % N
      /\ ac_ring' = [ac_ring EXCEPT ![ac_ring_head] = emitted + 1]
  BY Zenon DEF ac_emit, N
<1>1. ac_ring' \in [Index -> Nat]
  BY <1>0 DEF Arith
<1>2. CASE Full
  <2>1. /\ c = N /\ c' = N /\ ac_ring_removed' = ac_ring_removed + 1
        /\ t' = (t + 1) % N /\ ac_dropped' = ac_dropped + 1
    BY <1>2 DEF ac_emit, Full, Arith, N
  <2>2. ac_ring_head = t /\ t' \in Index /\ ac_ring_head' = t'
    BY <2>1, <1>0, Turn, Wrap DEF Arith
  <2>3. Arith'
    BY <1>0, <2>1, <2>2, Turn DEF Arith, N, Index
  <2>4. ASSUME NEW k \in 0 .. N - 1
        PROVE  ac_ring'[(t' + k) % N] = ac_ring_removed' + 1 + k
    <3>1. (t' + k) % N = (t + (1 + k)) % N /\ 1 + k \in 0 .. N
      BY <2>1, Shift DEF Arith
    <3>2. CASE k = N - 1
      <4>1. (t' + k) % N = ac_ring_head
        BY <3>1, <3>2, <2>2, Turn DEF Arith
      <4>. QED BY <4>1, <3>2, <1>0, <2>1 DEF Arith
    <3>3. CASE k < N - 1
      <4>1. 1 + k \in 0 .. N - 1 /\ 0 \in 0 .. N - 1 /\ 1 + k # 0
        BY <3>3 DEF Arith
      <4>2. (t + (1 + k)) % N # ac_ring_head /\ (t + (1 + k)) % N \in Index
        <5>1. t \in Index /\ ac_ring_head = (t + 0) % N
          BY <2>2, Turn, Zenon DEF Arith
        <5>2. (t + (1 + k)) % N # (t + 0) % N
          BY <5>1, <4>1, Distinct, Zenon
        <5>. QED BY <5>1, <5>2, <3>1, Wrap, Zenon
      <4>3. ac_ring[(t + (1 + k)) % N] = ac_ring_removed + 1 + (1 + k)
        BY <4>1, <2>1, Zenon DEF Content
      <4>4. ac_ring'[(t' + k) % N] = ac_ring_removed + 1 + (1 + k)
        BY <4>2, <4>3, <3>1, <1>0, Zenon
      <4>. QED BY <4>4, <2>1 DEF Arith
    <3>. QED BY <3>2, <3>3 DEF Arith
  <2>. QED BY <2>1, <2>3, <2>4, <1>1, Zenon DEF Content
<1>3. CASE ~Full
  <2>1. /\ c < N /\ c' = c + 1 /\ ac_ring_removed' = ac_ring_removed
        /\ t' = t /\ ac_dropped' = ac_dropped
    BY <1>3 DEF ac_emit, Full, Arith, N
  <2>2. ac_ring_head' = (t + (c + 1)) % N /\ ac_ring_head' \in Index
    <3>1. c + 1 \in 0 .. N /\ c \in 0 .. N /\ 1 \in 0 .. N /\ t \in Index
      BY <2>1 DEF Arith
    <3>2. (((t + c) % N) + 1) % N = (t + (c + 1)) % N /\ (t + (c + 1)) % N \in Index
      BY <3>1, Shift, Wrap
    <3>. QED BY <3>2, <1>0, Zenon DEF Arith
  <2>3. Arith'
    <3>1. ac_ring_count' \in 0 .. N /\ ac_ring_removed' + ac_ring_count' = emitted'
          /\ ac_ring_removed' \in Nat /\ emitted' \in Nat /\ ac_dropped' \in Nat
      BY <1>0, <2>1 DEF Arith
    <3>2. ac_ring_head' \in Index /\ ac_ring_tail' \in Index
          /\ ac_ring_head' = (ac_ring_tail' + ac_ring_count') % N
      BY <2>1, <2>2, Zenon DEF Arith
    <3>. QED BY <3>1, <3>2, Zenon DEF Arith, N, Index
  <2>4. ASSUME NEW k \in 0 .. c
        PROVE  ac_ring'[(t + k) % N] = ac_ring_removed + 1 + k
    <3>1. CASE k = c
      BY <3>1, <1>0 DEF Arith
    <3>2. CASE k < c
      <4>1. (t + k) % N # ac_ring_head /\ (t + k) % N \in Index
        <5>1. t \in Index /\ k \in 0 .. N - 1 /\ c \in 0 .. N - 1 /\ k \in 0 .. N /\ k # c
          BY <3>2, <2>1 DEF Arith
        <5>2. (t + k) % N # (t + c) % N /\ (t + k) % N \in Index
          BY <5>1, Distinct, Wrap, Zenon
        <5>. QED BY <5>2, Zenon DEF Arith
      <4>2. ac_ring[(t + k) % N] = ac_ring_removed + 1 + k
        <5>1. k \in 0 .. ac_ring_count - 1
          BY <3>2 DEF Arith
        <5>. QED BY <5>1, Zenon DEF Content
      <4>. QED BY <4>1, <4>2, <1>0, Zenon
    <3>. QED BY <3>1, <3>2 DEF Arith
  <2>5. Content'
    <3>1. 0 .. ac_ring_count' - 1 = 0 .. c
      BY <2>1 DEF Arith
    <3>. QED BY <3>1, <2>1, <2>4, Zenon DEF Content, N
  <2>. QED BY <2>3, <2>5, <1>1, Zenon
<1>. QED BY <1>2, <1>3, Zenon

(* Taking the j oldest events off the ring, as a flush and a commit do.    *)
LEMMA RemoveRing ==
  ASSUME Arith, Content, NEW j \in 0 .. ac_ring_count,
         ac_ring_tail' = (ac_ring_tail + j) % N,
         ac_ring_count' = ac_ring_count - j,
         ac_ring_removed' = ac_ring_removed + j,
         UNCHANGED <<ac_ring, ac_ring_head, ac_dropped, emitted>>
  PROVE  Arith' /\ Content'
<1>. DEFINE t == ac_ring_tail
            c == ac_ring_count
<1>1. /\ j \in 0 .. N /\ c - j \in 0 .. N /\ c \in 0 .. N /\ t \in Index
      /\ j + (c - j) = c /\ c <= N
  BY DEF Arith
<1>2. (((t + j) % N) + (c - j)) % N = (t + c) % N /\ (t + j) % N \in Index
  BY <1>1, Shift, Wrap
<1>3. Arith'
  <2>1. ac_ring_count' \in 0 .. N /\ ac_ring_removed' + ac_ring_count' = emitted'
        /\ ac_ring_removed' \in Nat /\ emitted' \in Nat /\ ac_dropped' \in Nat
    BY <1>1 DEF Arith
  <2>2. ac_ring_head' \in Index /\ ac_ring_tail' \in Index
        /\ ac_ring_head' = (ac_ring_tail' + ac_ring_count') % N
    BY <1>2, Zenon DEF Arith
  <2>. QED BY <2>1, <2>2, Zenon DEF Arith, N, Index
<1>4. ASSUME NEW k \in 0 .. ac_ring_count' - 1
      PROVE  ac_ring'[(ac_ring_tail' + k) % N] = ac_ring_removed' + 1 + k
  <2>1. k \in 0 .. N /\ j + k <= N /\ j + k \in 0 .. c - 1
    BY <1>1 DEF Arith
  <2>2. (((t + j) % N) + k) % N = (t + (j + k)) % N
    BY <1>1, <2>1, Shift, Zenon
  <2>3. ac_ring[(t + (j + k)) % N] = ac_ring_removed + 1 + (j + k)
    BY <2>1, Zenon DEF Content
  <2>. QED BY <2>2, <2>3, <2>1, <1>1 DEF Arith
<1>. QED BY <1>3, <1>4, Zenon DEF Content, N

(* A step that leaves the calls in progress and what was delivered alone,  *)
(* and takes events out of the ring only, keeps what the invariant says of *)
(* calls.                                                                  *)
LEMMA CallsKept ==
  ASSUME IInv, Arith, Arith', UNCHANGED <<callVars, delivered>>,
         ac_ring_removed' >= ac_ring_removed, emitted' >= emitted
  PROVE  LockInv' /\ BatchInv' /\ DeliveredInv'
<1>1. LockInv'
  BY Zenon DEF IInv, LockInv, callVars
<1>2. /\ \A r \in Readers : before[r] \in Nat /\ Len(out[r]) \in Nat
      /\ delivered \subseteq Nat
  BY DEF IInv, TypeOK
<1>3. BatchInv'
  <2>. SUFFICES ASSUME NEW r \in Readers, pc[r] \in {"copy", "commit"}
                PROVE  /\ Len(out[r]) <= AC_MAX_EVENTS
                       /\ before[r] <= ac_ring_removed'
                       /\ before[r] + Len(out[r]) <= emitted'
                       /\ \A i \in 1 .. Len(out[r]) : out[r][i] = before[r] + i
    BY Zenon DEF BatchInv, CommitEnd, callVars
  <2>1. /\ Len(out[r]) <= AC_MAX_EVENTS /\ before[r] <= ac_ring_removed
        /\ before[r] + Len(out[r]) <= emitted
        /\ \A i \in 1 .. Len(out[r]) : out[r][i] = before[r] + i
    BY Zenon DEF IInv, BatchInv, CommitEnd
  <2>2. /\ ac_ring_removed \in Nat /\ ac_ring_removed' \in Nat
        /\ emitted \in Nat /\ emitted' \in Nat
    BY Zenon DEF Arith
  <2>3. before[r] <= ac_ring_removed' /\ before[r] + Len(out[r]) <= emitted'
    BY <2>1, <2>2, <1>2
  <2>. QED BY <2>1, <2>3, Zenon
<1>4. DeliveredInv'
  BY <1>2 DEF IInv, DeliveredInv, CommitEnd, callVars, Arith
<1>. QED BY <1>1, <1>3, <1>4, Zenon

(* ac_emit() keeps what the invariant says of calls and of past events.    *)
LEMMA EmitRest ==
  ASSUME IInv, Arith, Arith', Content', ac_ring' \in [Index -> Nat],
         UNCHANGED <<callVars, delivered, flushed>>, emitted' = emitted + 1,
         ac_ring_removed' >= ac_ring_removed,
         EvictedInv', DropsCounted', NoSilentLoss', evicted' \subseteq Nat
  PROVE  IInv'
<1>1. RingContents' /\ ac_ring_count' \in 0 .. AC_RING_SIZE
  BY Zenon DEF Arith, Content, RingContents, Nth, N
<1>2. TypeOK'
  BY <1>1, Zenon DEF IInv, TypeOK, callVars, Arith, N, Index
<1>3. LockInv' /\ BatchInv' /\ DeliveredInv'
  <2>1. emitted' >= emitted
    BY DEF Arith
  <2>. QED BY <2>1, CallsKept, Zenon
<1>. QED BY <1>1, <1>2, <1>3, Zenon DEF IInv

(* ac_emit() keeps the invariant.                                          *)
LEMMA EmitIInv == IInv /\ ac_emit => IInv'
<1>. SUFFICES ASSUME IInv, ac_emit PROVE IInv'
  OBVIOUS
<1>1. Arith /\ Content /\ ac_ring \in [Index -> Nat]
  BY ArithInv, Zenon
<1>2. Arith' /\ Content' /\ ac_ring' \in [Index -> Nat]
  BY <1>1, EmitRing, Zenon
<1>3. UNCHANGED <<callVars, delivered, flushed>> /\ emitted' = emitted + 1
  BY Zenon DEF ac_emit
<1>4. CASE Full
  <2>1. ac_ring[ac_ring_tail] = ac_ring_removed + 1
    <3>1. (ac_ring_tail + 0) % N = ac_ring_tail
      BY <1>1, Turn, Zenon DEF Arith
    <3>2. 0 \in 0 .. ac_ring_count - 1
      BY <1>1, <1>4 DEF Arith, Full, N
    <3>3. ac_ring[(ac_ring_tail + 0) % N] = ac_ring_removed + 1 + 0
      BY <1>1, <3>2, Zenon DEF Content
    <3>. QED BY <3>1, <3>3, <1>1 DEF Arith
  <2>2. evicted' = evicted \cup {ac_ring_removed + 1}
        /\ ac_dropped' = ac_dropped + 1 /\ ac_ring_removed' = ac_ring_removed + 1
    BY <1>4, <2>1, Zenon DEF ac_emit
  <2>3. evicted \subseteq Nat /\ EvictedInv /\ DropsCounted /\ NoSilentLoss
    BY Zenon DEF IInv, TypeOK
  <2>4. ac_ring_removed + 1 \notin evicted
    BY <2>3, <1>1 DEF EvictedInv, Arith
  <2>5. IsFiniteSet(evicted') /\ Cardinality(evicted') = Cardinality(evicted) + 1
    BY <2>2, <2>3, <2>4, FS_AddElement, Zenon DEF EvictedInv
  <2>6. \A e \in evicted' : e \in Nat /\ e <= ac_ring_removed'
    BY <2>2, <2>3, <1>1 DEF EvictedInv, Arith
  <2>7. EvictedInv' /\ DropsCounted' /\ evicted' \subseteq Nat
    BY <2>2, <2>3, <2>5, <2>6, Zenon DEF EvictedInv, DropsCounted
  <2>8. NoSilentLoss'
    BY <2>2, <2>3, <1>3, <1>1 DEF NoSilentLoss, Arith
  <2>9. ac_ring_removed' >= ac_ring_removed
    BY <2>2, <1>1 DEF Arith
  <2>. QED BY <2>7, <2>8, <2>9, <1>2, <1>3, <1>1, EmitRest, Zenon
<1>5. CASE ~Full
  <2>1. UNCHANGED <<evicted, ac_dropped, ac_ring_removed>>
    BY <1>5, Zenon DEF ac_emit
  <2>2. evicted \subseteq Nat /\ EvictedInv /\ DropsCounted /\ NoSilentLoss
    BY Zenon DEF IInv, TypeOK
  <2>3. EvictedInv' /\ DropsCounted' /\ evicted' \subseteq Nat
    BY <2>1, <2>2, Zenon DEF EvictedInv, DropsCounted
  <2>4. NoSilentLoss'
    BY <2>1, <2>2, <1>3, <1>1 DEF NoSilentLoss, Arith
  <2>5. ac_ring_removed' >= ac_ring_removed
    BY <2>1, <1>1 DEF Arith
  <2>. QED BY <2>3, <2>4, <2>5, <1>2, <1>3, <1>1, EmitRest, Zenon
<1>. QED BY <1>4, <1>5, Zenon

(* AC_IOCTL_FLUSH_EVENTS empties the ring, also under a call in progress.  *)
LEMMA FlushIInv == IInv /\ ac_drain_events => IInv'
<1>. SUFFICES ASSUME IInv, ac_drain_events PROVE IInv'
  OBVIOUS
<1>1. Arith /\ Content /\ ac_ring \in [Index -> Nat]
  BY ArithInv, Zenon
<1>2. /\ ac_ring_tail' = (ac_ring_tail + ac_ring_count) % N
      /\ ac_ring_count' = ac_ring_count - ac_ring_count
      /\ ac_ring_removed' = ac_ring_removed + ac_ring_count
      /\ UNCHANGED <<ac_ring, ac_ring_head, ac_dropped, emitted>>
      /\ UNCHANGED <<callVars, delivered, evicted>>
      /\ ac_ring_count \in 0 .. ac_ring_count
  BY <1>1 DEF ac_drain_events, N, Arith
<1>3. Arith' /\ Content'
  BY <1>1, <1>2, RemoveRing, Zenon
<1>4. flushed' = flushed \cup {ac_ring_removed + 1 + k : k \in 0 .. ac_ring_count - 1}
  BY <1>1 DEF ac_drain_events, Content, Nth, N
<1>5. \A e \in Nat : e > ac_ring_removed /\ e <= emitted => e \in flushed'
  <2>. SUFFICES ASSUME NEW e \in Nat, e > ac_ring_removed, e <= emitted
                PROVE  e \in flushed'
    OBVIOUS
  <2>. DEFINE k == e - ac_ring_removed - 1
  <2>1. k \in 0 .. ac_ring_count - 1 /\ e = ac_ring_removed + 1 + k
    BY <1>1 DEF Arith
  <2>. QED BY <2>1, <1>4, Zenon
<1>6. flushed' \subseteq Nat
  <2>1. flushed \subseteq Nat /\ ac_ring_removed \in Nat /\ ac_ring_count \in Nat
    BY <1>1 DEF IInv, TypeOK, Arith
  <2>2. \A k \in 0 .. ac_ring_count - 1 : ac_ring_removed + 1 + k \in Nat
    BY <2>1
  <2>. QED BY <2>1, <2>2, <1>4, Zenon
<1>7. RingContents' /\ ac_ring_count' \in 0 .. AC_RING_SIZE
  BY <1>3, Zenon DEF Arith, Content, RingContents, Nth, N
<1>8. TypeOK'
  BY <1>2, <1>3, <1>6, <1>7, Zenon DEF IInv, TypeOK, callVars, Arith, N, Index
<1>9. LockInv' /\ BatchInv' /\ DeliveredInv'
  <2>1. ac_ring_removed' >= ac_ring_removed /\ emitted' >= emitted
    BY <1>1, <1>2 DEF Arith
  <2>. QED BY <2>1, <1>1, <1>2, <1>3, CallsKept, Zenon
<1>10. NoSilentLoss'
  <2>1. \A e \in 1 .. emitted : e \in Nat /\ e <= emitted
    BY <1>1 DEF Arith
  <2>2. NoSilentLoss /\ flushed \subseteq flushed'
    BY <1>4, Zenon DEF IInv
  <2>. QED BY <2>1, <2>2, <1>2, <1>5, Zenon DEF NoSilentLoss
<1>11. EvictedInv' /\ DropsCounted'
  <2>1. \A e \in evicted : e \in Nat /\ e <= ac_ring_removed
    BY Zenon DEF IInv, EvictedInv, TypeOK
  <2>2. \A e \in evicted : e <= ac_ring_removed'
    BY <2>1, <1>1, <1>2 DEF Arith
  <2>. QED BY <2>2, <1>2, Zenon DEF IInv, EvictedInv, DropsCounted
<1>. QED BY <1>7, <1>8, <1>9, <1>10, <1>11, Zenon DEF IInv

(* The peek takes consecutive events, all younger than those delivered.    *)
LEMMA PeekIInv == ASSUME IInv, NEW r \in Readers, ac_peek_events(r) PROVE IInv'
<1>1. Arith /\ Content /\ ac_ring \in [Index -> Nat]
  BY ArithInv, Zenon
<1>. DEFINE n == PeekCount
            ev == [i \in 1 .. n |-> Nth(i - 1)]
<1>2. n \in Nat /\ n <= ac_ring_count /\ n <= AC_MAX_EVENTS
  BY <1>1 DEF PeekCount, Arith
<1>3. \A i \in 1 .. n : Nth(i - 1) = ac_ring_removed + i
  <2>. SUFFICES ASSUME NEW i \in 1 .. n PROVE Nth(i - 1) = ac_ring_removed + i
    OBVIOUS
  <2>1. i - 1 \in 0 .. ac_ring_count - 1
    BY <1>1, <1>2 DEF Arith
  <2>2. Nth(i - 1) = ac_ring_removed + 1 + (i - 1)
    BY <2>1, <1>1, Zenon DEF Content, Nth, N
  <2>. QED BY <2>2, <1>1, <1>2 DEF Arith
<1>4. ev \in Seq(Nat) /\ Len(ev) = n /\ \A i \in 1 .. n : ev[i] = ac_ring_removed + i
  <2>1. ev \in [1 .. n -> Nat]
    BY <1>1, <1>2, <1>3 DEF Arith
  <2>. QED BY <2>1, <1>2, <1>3
<1>. HIDE DEF n, ev
<1>5. /\ pc[r] = "wait" /\ ac_get_events_lock = Nobody
      /\ ac_get_events_lock' = r
      /\ out' = [out EXCEPT ![r] = ev]
      /\ outDropped' = [outDropped EXCEPT ![r] = ac_dropped]
      /\ before' = [before EXCEPT ![r] = ac_ring_removed]
      /\ pc' = [pc EXCEPT ![r] = "copy"]
      /\ UNCHANGED ringVars /\ UNCHANGED histVars
  BY Zenon DEF ac_peek_events, LockFree, n, ev
<1>6. TypeOK'
  BY <1>1, <1>4, <1>5, Zenon DEF IInv, TypeOK, ringVars, histVars, Arith
<1>7. LockInv'
  BY <1>5, NobodyAssumption, Zenon DEF IInv, TypeOK, LockInv
<1>8. \A q \in Readers : pc'[q] \in {"copy", "commit"} => q = r
  BY <1>5, NobodyAssumption, Zenon DEF IInv, TypeOK, LockInv
<1>9. /\ pc'[r] = "copy" /\ out'[r] = ev /\ before'[r] = ac_ring_removed
      /\ ac_ring_removed' = ac_ring_removed /\ emitted' = emitted /\ delivered' = delivered
  BY <1>5, Zenon DEF IInv, TypeOK, ringVars, histVars
<1>10. BatchInv'
  BY SMTT(20), <1>1, <1>2, <1>4, <1>8, <1>9 DEF BatchInv, CommitEnd, Arith
<1>11. DeliveredInv'
  BY <1>5, <1>8, <1>9, NobodyAssumption, Zenon DEF IInv, DeliveredInv
<1>12. RingContents' /\ NoSilentLoss' /\ EvictedInv' /\ DropsCounted'
  BY <1>5, Zenon DEF IInv, ringVars, histVars, RingContents, Nth, NoSilentLoss, EvictedInv,
              DropsCounted
<1>. QED BY <1>6, <1>7, <1>10, <1>11, <1>12, Zenon DEF IInv

(* copy_to_user() succeeded: the batch is delivered, the lock still held.  *)
LEMMA CopyOkIInv == ASSUME IInv, NEW r \in Readers, CopyOk(r) PROVE IInv'
<1>1. /\ pc[r] = "copy" /\ pc' = [pc EXCEPT ![r] = "commit"]
      /\ delivered' = delivered \cup Events(r)
      /\ UNCHANGED <<ringVars, ac_get_events_lock, out, outDropped, before, emitted,
                     evicted, flushed>>
  BY Zenon DEF CopyOk
<1>2. out[r] \in Seq(Nat) /\ before[r] \in Nat /\ delivered \subseteq Nat
      /\ pc \in [Readers -> {"idle", "wait", "copy", "commit"}]
  BY Zenon DEF IInv, TypeOK
<1>3. Len(out[r]) \in Nat /\ DOMAIN out[r] = 1 .. Len(out[r])
  BY <1>2
<1>4. \A i \in 1 .. Len(out[r]) : out[r][i] = before[r] + i
  BY <1>1, Zenon DEF IInv, BatchInv
<1>5. Events(r) = {before[r] + i : i \in 1 .. Len(out[r])}
  BY <1>3, <1>4, Zenon DEF Events
<1>6. \A d \in delivered : d <= before[r]
  BY <1>1, Zenon DEF IInv, DeliveredInv
<1>7. delivered' \subseteq Nat
  <2>1. \A i \in 1 .. Len(out[r]) : before[r] + i \in Nat
    BY <1>2, <1>3
  <2>. QED BY <2>1, <1>1, <1>2, <1>5, Zenon
<1>8. TypeOK'
  BY <1>1, <1>7, Zenon DEF IInv, TypeOK, ringVars
<1>9. LockInv' /\ BatchInv'
  BY <1>1, <1>2, Zenon DEF IInv, LockInv, BatchInv, CommitEnd, ringVars
<1>10. \A q \in Readers : pc'[q] \in {"copy", "commit"} => q = r /\ pc'[q] = "commit"
  BY <1>1, <1>2, Zenon DEF IInv, LockInv
<1>11. DeliveredInv'
  <2>1. ac_get_events_lock' = r
    BY <1>1, Zenon DEF IInv, LockInv
  <2>2. \A d \in delivered' : d <= before[r] + Len(out[r])
    <3>1. \A d \in delivered : d \in Nat /\ d <= before[r]
      BY <1>2, <1>6, Zenon
    <3>2. \A i \in 1 .. Len(out[r]) : before[r] + i <= before[r] + Len(out[r])
      BY <1>2, <1>3
    <3>3. \A d \in delivered : d <= before[r] + Len(out[r])
      BY <3>1, <1>2, <1>3
    <3>. QED BY <3>2, <3>3, <1>1, <1>5, Zenon
  <2>3. \A i \in 1 .. Len(out[r]) : before[r] + i \in delivered'
    BY <1>1, <1>5, Zenon
  <2>. QED BY <2>1, <2>2, <2>3, <1>1, <1>10, NobodyAssumption, Zenon DEF DeliveredInv, CommitEnd
<1>12. RingContents' /\ NoSilentLoss' /\ EvictedInv' /\ DropsCounted'
  BY <1>1, Zenon DEF IInv, ringVars, RingContents, Nth, NoSilentLoss, EvictedInv, DropsCounted
<1>. QED BY <1>8, <1>9, <1>11, <1>12, Zenon DEF IInv

(* The end of a call: nobody is left between peek and commit.              *)
LEMMA EndCallFacts ==
  ASSUME IInv, NEW r \in Readers, pc[r] \in {"copy", "commit"}, EndCall(r)
  PROVE  /\ LockInv' /\ BatchInv'
         /\ \A q \in Readers : pc'[q] \notin {"copy", "commit"}
         /\ ac_get_events_lock' = Nobody
         /\ pc' \in [Readers -> {"idle", "wait", "copy", "commit"}]
         /\ out' \in [Readers -> Seq(Nat)]
         /\ outDropped' \in [Readers -> Nat] /\ before' \in [Readers -> Nat]
<1>1. \A q \in Readers : pc'[q] \notin {"copy", "commit"}
  BY Zenon DEF IInv, TypeOK, LockInv, EndCall
<1>2. <<>> \in Seq(Nat)
  OBVIOUS
<1>. QED BY <1>1, <1>2, NobodyAssumption, Zenon DEF IInv, TypeOK, LockInv, BatchInv, EndCall

(* A failed copy_to_user() keeps the invariant.                            *)
LEMMA CopyFaultIInv == ASSUME IInv, NEW r \in Readers, CopyFault(r) PROVE IInv'
<1>1. pc[r] = "copy" /\ EndCall(r) /\ UNCHANGED ringVars /\ UNCHANGED histVars
  BY Zenon DEF CopyFault
<1>2. /\ LockInv' /\ BatchInv'
      /\ \A q \in Readers : pc'[q] \notin {"copy", "commit"}
      /\ ac_get_events_lock' = Nobody
      /\ pc' \in [Readers -> {"idle", "wait", "copy", "commit"}]
      /\ out' \in [Readers -> Seq(Nat)]
      /\ outDropped' \in [Readers -> Nat] /\ before' \in [Readers -> Nat]
  BY <1>1, EndCallFacts, Zenon
<1>3. TypeOK'
  BY <1>1, <1>2, Zenon DEF IInv, TypeOK, ringVars, histVars
<1>4. \A d \in delivered : d <= ac_ring_removed
  <2>1. before[r] \in Nat /\ ac_ring_removed \in Nat /\ delivered \subseteq Nat
    BY Zenon DEF IInv, TypeOK
  <2>2. before[r] <= ac_ring_removed /\ \A d \in delivered : d <= before[r]
    BY <1>1, Zenon DEF IInv, BatchInv, DeliveredInv
  <2>. QED BY <2>1, <2>2
<1>5. DeliveredInv'
  BY <1>1, <1>2, <1>4, Zenon DEF DeliveredInv, ringVars, histVars
<1>6. RingContents' /\ NoSilentLoss' /\ EvictedInv' /\ DropsCounted'
  BY <1>1, Zenon DEF IInv, ringVars, histVars, RingContents, Nth, NoSilentLoss, EvictedInv,
              DropsCounted
<1>. QED BY <1>2, <1>3, <1>5, <1>6, Zenon DEF IInv

(* What the commit removes: up to the end of the batch, nothing if the     *)
(* batch is gone already; never more than the ring holds.                  *)
LEMMA CommitAmount ==
  ASSUME Arith, NEW n \in Nat, NEW b \in Nat, b <= ac_ring_removed, b + n <= emitted
  PROVE  /\ ToRemove(n, b) \in 0 .. ac_ring_count
         /\ ac_ring_removed + ToRemove(n, b) =
              IF b + n > ac_ring_removed THEN b + n ELSE ac_ring_removed
<1>1. /\ ac_ring_removed \in Nat /\ ac_ring_count \in Nat
      /\ ac_ring_removed + ac_ring_count = emitted
  BY DEF Arith
<1>. QED BY <1>1 DEF ToRemove

(* ac_commit_events() keeps the invariant.                                 *)
LEMMA CommitIInv == ASSUME IInv, NEW r \in Readers, ac_commit_events(r) PROVE IInv'
<1>. DEFINE n == Len(out[r])
            b == before[r]
            k == ToRemove(n, b)
<1>1. Arith /\ Content /\ ac_ring \in [Index -> Nat]
  BY ArithInv, Zenon
<1>2. /\ pc[r] = "commit" /\ EndCall(r)
      /\ ac_ring_tail' = (ac_ring_tail + k) % N
      /\ ac_ring_count' = ac_ring_count - k
      /\ ac_ring_removed' = ac_ring_removed + k
      /\ UNCHANGED <<ac_ring, ac_ring_head, ac_dropped, emitted>>
      /\ UNCHANGED histVars
  BY Zenon DEF ac_commit_events, N, histVars
<1>3. /\ n \in Nat /\ b \in Nat /\ b <= ac_ring_removed /\ b + n <= emitted
      /\ delivered \subseteq Nat /\ ac_ring_removed \in Nat
  <2>1. b <= ac_ring_removed /\ b + n <= emitted
    BY <1>2, Zenon DEF IInv, BatchInv, CommitEnd
  <2>2. out[r] \in Seq(Nat) /\ b \in Nat /\ delivered \subseteq Nat /\ ac_ring_removed \in Nat
    BY Zenon DEF IInv, TypeOK
  <2>3. n \in Nat
    BY <2>2, SMTT(20)
  <2>. QED BY <2>1, <2>2, <2>3, Zenon
<1>4. /\ k \in 0 .. ac_ring_count
      /\ ac_ring_removed + k = IF b + n > ac_ring_removed THEN b + n ELSE ac_ring_removed
  BY <1>1, <1>3, CommitAmount, Zenon
<1>5. Arith' /\ Content'
  BY <1>1, <1>2, <1>4, RemoveRing, Zenon
<1>6. /\ LockInv' /\ BatchInv'
      /\ \A q \in Readers : pc'[q] \notin {"copy", "commit"}
      /\ ac_get_events_lock' = Nobody
      /\ pc' \in [Readers -> {"idle", "wait", "copy", "commit"}]
      /\ out' \in [Readers -> Seq(Nat)]
      /\ outDropped' \in [Readers -> Nat] /\ before' \in [Readers -> Nat]
  BY <1>2, EndCallFacts, Zenon
<1>7. RingContents' /\ ac_ring_count' \in 0 .. AC_RING_SIZE
  BY <1>5, Zenon DEF Arith, Content, RingContents, Nth, N
<1>8. TypeOK'
  BY <1>2, <1>5, <1>6, <1>7, Zenon DEF IInv, TypeOK, histVars, Arith, N, Index
<1>9. /\ \A d \in delivered : d <= b + n
      /\ \A i \in 1 .. n : b + i \in delivered
  BY <1>2, Zenon DEF IInv, DeliveredInv, CommitEnd
<1>10. DeliveredInv'
  <2>1. \A d \in delivered : d <= ac_ring_removed'
    <3>. SUFFICES ASSUME NEW d \in delivered PROVE d <= ac_ring_removed'
      OBVIOUS
    <3>1. d \in Nat /\ d <= b + n
      BY <1>3, <1>9, Zenon
    <3>2. ac_ring_removed' = IF b + n > ac_ring_removed THEN b + n ELSE ac_ring_removed
      BY <1>2, <1>4, Zenon
    <3>. HIDE DEF n, b
    <3>. QED BY <3>1, <3>2, <1>3
  <2>. QED BY <2>1, <1>2, <1>6, Zenon DEF DeliveredInv, histVars
<1>11. NoSilentLoss'
  <2>. SUFFICES ASSUME NEW e \in 1 .. emitted, e <= ac_ring_removed', e > ac_ring_removed
                PROVE  e \in delivered
    BY <1>2, <1>3, <1>4 DEF IInv, NoSilentLoss, histVars
  <2>1. e - b \in 1 .. n /\ e = b + (e - b)
    BY SMTT(20), <1>2, <1>3, <1>4
  <2>. QED BY <2>1, <1>9, Zenon
<1>12. EvictedInv' /\ DropsCounted'
  <2>1. \A e \in evicted : e \in Nat /\ e <= ac_ring_removed
    BY Zenon DEF IInv, EvictedInv, TypeOK
  <2>2. \A e \in evicted : e <= ac_ring_removed'
    BY <2>1, <1>2, <1>3, <1>4
  <2>. QED BY <2>2, <1>2, Zenon DEF IInv, EvictedInv, DropsCounted, histVars
<1>. QED BY <1>6, <1>7, <1>8, <1>10, <1>11, <1>12, Zenon DEF IInv

(* Entering the call, and a signal during its wait, keep the invariant.    *)
LEMMA WaitIInv ==
  ASSUME IInv, NEW r \in Readers, GetEvents(r) \/ Interrupted(r) PROVE IInv'
<1>1. /\ pc[r] \in {"idle", "wait"}
      /\ \E l \in {"idle", "wait"} : pc' = [pc EXCEPT ![r] = l]
      /\ UNCHANGED <<ringVars, ac_get_events_lock, out, outDropped, before, histVars>>
  BY Zenon DEF GetEvents, Interrupted
<1>2. pc \in [Readers -> {"idle", "wait", "copy", "commit"}]
  BY Zenon DEF IInv, TypeOK
<1>3. \A q \in Readers : /\ pc'[q] = "copy" <=> pc[q] = "copy"
                         /\ pc'[q] = "commit" <=> pc[q] = "commit"
  BY <1>1, <1>2, Zenon
<1>4. TypeOK'
  BY <1>1, Zenon DEF IInv, TypeOK, ringVars, histVars
<1>5. LockInv' /\ BatchInv' /\ DeliveredInv'
  BY <1>1, <1>3, Zenon DEF IInv, LockInv, BatchInv, DeliveredInv, CommitEnd, ringVars, histVars
<1>6. RingContents' /\ NoSilentLoss' /\ EvictedInv' /\ DropsCounted'
  BY <1>1, Zenon DEF IInv, ringVars, histVars, RingContents, Nth, NoSilentLoss, EvictedInv,
              DropsCounted
<1>. QED BY <1>4, <1>5, <1>6, Zenon DEF IInv

(* Every step keeps the invariant.                                         *)
LEMMA NextIInv == IInv /\ [Next]_vars => IInv'
<1>. SUFFICES ASSUME IInv, [Next]_vars PROVE IInv'
  OBVIOUS
<1>1. CASE ac_emit
  BY <1>1, EmitIInv, Zenon
<1>2. CASE ac_drain_events
  BY <1>2, FlushIInv, Zenon
<1>3. ASSUME NEW r \in Readers, ReaderStep(r) PROVE IInv'
  BY <1>3, PeekIInv, CopyOkIInv, CopyFaultIInv, CommitIInv, WaitIInv, Zenon DEF ReaderStep
<1>4. CASE UNCHANGED vars
  <2>1. UNCHANGED ringVars /\ UNCHANGED callVars /\ UNCHANGED histVars
    BY <1>4, Zenon DEF vars
  <2>. QED BY <2>1, Zenon DEF IInv, TypeOK, RingContents, Nth, LockInv, BatchInv, DeliveredInv,
             CommitEnd, NoSilentLoss, EvictedInv, DropsCounted, ringVars, callVars, histVars
<1>. QED BY <1>1, <1>2, <1>3, <1>4, Zenon DEF Next

(* The inductive invariant holds in every reachable state.                 *)
THEOREM Invariance == Spec => []IInv
BY InitIInv, NextIInv, PTL DEF Spec

(* TypeOK is an invariant.                                                 *)
THEOREM TypeCorrect == Spec => []TypeOK
BY Invariance, PTL DEF IInv

(* The ring holds the youngest events in order, whatever its size.         *)
THEOREM RingCorrect == Spec => []RingContents
BY Invariance, PTL DEF IInv

(* A commit removes only what was delivered: no event disappears without   *)
(* being delivered, counted as dropped or flushed.                         *)
THEOREM NothingLost == Spec => [](NoSilentLoss /\ DropsCounted)
BY Invariance, PTL DEF IInv

(* Events are delivered once and in order, for any number of readers.      *)
THEOREM OrderedDelivery == Spec => []InOrderOnce
<1>1. IInv => InOrderOnce
  <2>. SUFFICES ASSUME IInv, NEW r \in Readers, pc[r] = "copy",
                       NEW e \in Events(r), NEW d \in delivered
                PROVE  e > d
    BY Zenon DEF InOrderOnce
  <2>1. out[r] \in Seq(Nat) /\ before[r] \in Nat /\ d \in Nat
    BY Zenon DEF IInv, TypeOK
  <2>2. DOMAIN out[r] = 1 .. Len(out[r]) /\ Len(out[r]) \in Nat
    BY <2>1
  <2>3. PICK i \in 1 .. Len(out[r]) : e = out[r][i]
    BY <2>2, Zenon DEF Events
  <2>4. e = before[r] + i /\ d <= before[r]
    BY <2>3, Zenon DEF IInv, BatchInv, DeliveredInv
  <2>. QED BY <2>1, <2>2, <2>4
<1>. QED BY <1>1, Invariance, PTL

(* The events before a batch of r that were neither delivered nor flushed. *)
Missing(r) == {e \in 1 .. before[r] : e \notin delivered \cup flushed}

(* They are finitely many.                                                 *)
LEMMA MissingFinite == ASSUME IInv, NEW r \in Readers PROVE IsFiniteSet(Missing(r))
<1>1. before[r] \in Nat
  BY Zenon DEF IInv, TypeOK
<1>2. IsFiniteSet(1 .. before[r])
  BY <1>1, FS_Interval
<1>. QED BY <1>2, FS_Subset, Zenon DEF Missing

(* At the peek each of them had been evicted.                              *)
LEMMA PeekGaps ==
  ASSUME IInv, NEW r \in Readers, ac_peek_events(r)
  PROVE  Cardinality(Missing(r)') <= outDropped'[r]
<1>1. before'[r] = ac_ring_removed /\ outDropped'[r] = ac_dropped /\ UNCHANGED histVars
  BY Zenon DEF ac_peek_events, IInv, TypeOK
<1>2. ac_ring_removed \in Nat /\ emitted \in Nat /\ ac_ring_removed <= emitted
  BY DEF IInv, TypeOK, RingContents
<1>3. Missing(r)' \subseteq evicted
  <2>. SUFFICES ASSUME NEW e \in 1 .. ac_ring_removed, e \notin delivered \cup flushed
                PROVE  e \in evicted
    BY <1>1, Zenon DEF Missing, histVars
  <2>1. e \in 1 .. emitted /\ ~(e > ac_ring_removed)
    BY <1>2
  <2>. QED BY <2>1, Zenon DEF IInv, NoSilentLoss
<1>4. /\ IsFiniteSet(evicted) /\ Cardinality(evicted) = ac_dropped
  BY Zenon DEF IInv, EvictedInv, DropsCounted
<1>5. Cardinality(Missing(r)') <= Cardinality(evicted)
  BY <1>3, <1>4, FS_Subset, Zenon
<1>. QED BY <1>1, <1>4, <1>5, Zenon

(* The dropped count handed out with a batch covers every event missing    *)
(* before it, for any number of readers and any size of the ring.          *)
THEOREM GapsCounted == Spec => []GapsReported
<1>1. Init => GapsReported
  BY Zenon DEF Init, GapsReported
<1>2. ASSUME IInv, GapsReported, [Next]_vars, NEW r \in Readers, pc'[r] = "copy"
      PROVE  Cardinality(Missing(r)') <= outDropped'[r]
  <2>1. CASE ac_peek_events(r)
    BY <1>2, <2>1, PeekGaps, Zenon
  <2>2. CASE ~ac_peek_events(r)
    <3>1. /\ pc[r] = "copy" /\ before'[r] = before[r] /\ outDropped'[r] = outDropped[r]
          /\ delivered \subseteq delivered' /\ flushed \subseteq flushed'
      <4>1. CASE ac_emit \/ ac_drain_events \/ UNCHANGED vars
        BY <1>2, <4>1, Zenon DEF ac_emit, ac_drain_events, vars, callVars, histVars
      <4>2. ASSUME NEW q \in Readers, ReaderStep(q), q = r PROVE FALSE
        BY <1>2, <2>2, <4>2, Zenon DEF IInv, TypeOK, ReaderStep, GetEvents, Interrupted, CopyOk,
              CopyFault, ac_commit_events, EndCall
      <4>3. ASSUME NEW q \in Readers, ReaderStep(q), q # r
            PROVE  /\ pc[r] = "copy" /\ before'[r] = before[r] /\ outDropped'[r] = outDropped[r]
                   /\ delivered \subseteq delivered' /\ flushed \subseteq flushed'
        BY <1>2, <4>3, Zenon DEF IInv, TypeOK, ReaderStep, GetEvents, Interrupted, ac_peek_events,
              CopyOk, CopyFault, ac_commit_events, EndCall, histVars
      <4>. QED BY <1>2, <4>1, <4>2, <4>3, Zenon DEF Next
    <3>2. Missing(r)' \subseteq Missing(r)
      BY <3>1, Zenon DEF Missing
    <3>3. Cardinality(Missing(r)') <= Cardinality(Missing(r))
      BY <1>2, <3>2, MissingFinite, FS_Subset, Zenon
    <3>4. Cardinality(Missing(r)) <= outDropped[r]
      BY <1>2, <3>1, Zenon DEF GapsReported, Missing
    <3>5. /\ Cardinality(Missing(r)) \in Nat /\ Cardinality(Missing(r)') \in Nat
          /\ outDropped[r] \in Nat
      <4>1. IsFiniteSet(Missing(r)')
        BY <1>2, <3>2, MissingFinite, FS_Subset, Zenon
      <4>. QED BY <1>2, <4>1, MissingFinite, FS_CardinalityType, Zenon DEF IInv, TypeOK
    <3>. QED BY <3>1, <3>3, <3>4, <3>5
  <2>. QED BY <2>1, <2>2, Zenon
<1>3. IInv /\ GapsReported /\ [Next]_vars => GapsReported'
  BY <1>2, Zenon DEF GapsReported, Missing
<1>. QED BY <1>1, <1>3, Invariance, PTL DEF Spec

-----------------------------------------------------------------------------
(* The ring implements EventLog.                                           *)

(* What the refinement needs of a state.                                   *)
LEMMA HolderFacts ==
  ASSUME IInv
  PROVE  /\ Arith
         /\ \A r \in Readers : pc[r] \in {"copy", "commit"} <=> Holder = r
         /\ Committing => /\ before[Holder] \in Nat /\ Len(out[Holder]) \in Nat
                          /\ CommitEnd(Holder) \in Nat /\ CommitEnd(Holder) <= emitted
         /\ Gone \in Nat /\ Gone >= ac_ring_removed /\ Gone <= emitted
         /\ ~Committing => Gone = ac_ring_removed
<1>1. Arith
  BY ArithInv, Zenon
<1>2. \A r \in Readers : pc[r] \in {"copy", "commit"} <=> Holder = r
  BY Zenon DEF IInv, LockInv, Holder
<1>3. Committing => /\ before[Holder] \in Nat /\ Len(out[Holder]) \in Nat
                    /\ CommitEnd(Holder) \in Nat /\ CommitEnd(Holder) <= emitted
  BY SMTT(20) DEF IInv, TypeOK, BatchInv, Committing, CommitEnd
<1>4. Gone \in Nat /\ Gone >= ac_ring_removed /\ Gone <= emitted
  <2>1. ac_ring_removed \in Nat /\ emitted \in Nat /\ ac_ring_removed <= emitted
    BY <1>1 DEF Arith
  <2>. QED BY <2>1, <1>3 DEF Gone
<1>5. ~Committing => Gone = ac_ring_removed
  BY Zenon DEF Gone
<1>. QED BY <1>1, <1>2, <1>3, <1>4, <1>5, Zenon

(* The empty ring is the empty queue.                                      *)
LEMMA RefineInit == Init => Log!LogInit
BY NobodyAssumption DEF Init, Log!LogInit, Gone, HeldEvents, Copying, Committing, Holder

(* ac_emit() is an emit of the queue, with or without a loss.              *)
LEMMA RefineEmit == IInv /\ IInv' /\ ac_emit => Log!LogEmit
<1>. SUFFICES ASSUME IInv, IInv', ac_emit PROVE Log!LogEmit
  OBVIOUS
<1>1. /\ emitted < MaxEmits /\ emitted' = emitted + 1
      /\ UNCHANGED callVars /\ delivered' = delivered
      /\ ac_ring_removed' = IF Full THEN ac_ring_removed + 1 ELSE ac_ring_removed
  BY Zenon DEF ac_emit
<1>2. HeldEvents' = HeldEvents /\ Committing' = Committing /\ Holder' = Holder
      /\ CommitEnd(Holder)' = CommitEnd(Holder)
  BY <1>1, Zenon DEF callVars, HeldEvents, Copying, Committing, Holder, CommitEnd, Events
<1>3. /\ ac_ring_removed \in Nat /\ ac_ring_count \in Nat /\ ac_ring_count <= AC_RING_SIZE
      /\ ac_ring_removed + ac_ring_count = emitted /\ emitted \in Nat
      /\ AC_RING_SIZE \in Nat
  BY HolderFacts DEF Arith, N
<1>4. Committing => CommitEnd(Holder) \in Nat /\ CommitEnd(Holder) <= emitted
  BY HolderFacts, Zenon
<1>5. Gone' = IF emitted + 1 - (Gone + 1) = AC_RING_SIZE THEN Gone + 1 ELSE Gone
  <2>1. Gone' = IF Committing /\ CommitEnd(Holder) > ac_ring_removed'
                THEN CommitEnd(Holder) ELSE ac_ring_removed'
    BY <1>2, Zenon DEF Gone
  <2>2. CASE Committing
    BY <2>1, <2>2, <1>1, <1>3, <1>4 DEF Gone, Full
  <2>3. CASE ~Committing
    BY <2>1, <2>3, <1>1, <1>3 DEF Gone, Full
  <2>. QED BY <2>2, <2>3, Zenon
<1>6. Gone \in Nat
  BY HolderFacts, Zenon
<1>7. Gone' + 1 = IF emitted + 1 - (Gone + 1) = AC_RING_SIZE THEN Gone + 1 + 1 ELSE Gone + 1
  BY <1>5, <1>6, Zenon
<1>. QED BY <1>1, <1>2, <1>7, Zenon DEF Log!LogEmit

(* AC_IOCTL_FLUSH_EVENTS is a flush of the queue.                          *)
LEMMA RefineFlush == IInv /\ IInv' /\ ac_drain_events => Log!LogFlush
<1>. SUFFICES ASSUME IInv, IInv', ac_drain_events PROVE Log!LogFlush
  OBVIOUS
<1>1. /\ ac_ring_removed' = ac_ring_removed + ac_ring_count
      /\ UNCHANGED callVars /\ delivered' = delivered /\ emitted' = emitted
  BY Zenon DEF ac_drain_events
<1>2. HeldEvents' = HeldEvents /\ Committing' = Committing /\ Holder' = Holder
      /\ CommitEnd(Holder)' = CommitEnd(Holder)
  BY <1>1, Zenon DEF callVars, HeldEvents, Copying, Committing, Holder, CommitEnd, Events
<1>3. ac_ring_removed' = emitted /\ emitted \in Nat
  BY <1>1, HolderFacts, Zenon DEF Arith
<1>4. Committing => CommitEnd(Holder) \in Nat /\ CommitEnd(Holder) <= emitted
  BY HolderFacts, Zenon
<1>5. Gone' = emitted
  BY <1>2, <1>3, <1>4 DEF Gone
<1>. QED BY <1>1, <1>2, <1>5, Zenon DEF Log!LogFlush

(* ac_peek_events() takes a batch from the front of the queue.             *)
LEMMA RefinePeek ==
  ASSUME IInv, IInv', NEW r \in Readers, ac_peek_events(r) PROVE Log!Take
<1>1. /\ Holder = Nobody /\ Holder' = r /\ pc'[r] = "copy"
      /\ UNCHANGED ringVars /\ UNCHANGED histVars
      /\ out'[r] = [i \in 1 .. PeekCount |-> Nth(i - 1)] /\ before'[r] = ac_ring_removed
  BY Zenon DEF ac_peek_events, LockFree, Holder, IInv, TypeOK
<1>2. ~Committing /\ ~Copying /\ ~Committing' /\ Copying'
  BY <1>1, NobodyAssumption, Zenon DEF Committing, Copying, Holder
<1>3. Gone = ac_ring_removed /\ Gone' = ac_ring_removed /\ HeldEvents = {}
  BY <1>1, <1>2, Zenon DEF Gone, HeldEvents, ringVars
<1>4. /\ ac_ring_removed \in Nat /\ ac_ring_count \in Nat /\ emitted \in Nat
      /\ ac_ring_removed + ac_ring_count = emitted /\ AC_MAX_EVENTS \in Nat
  BY HolderFacts DEF Arith
<1>5. PeekCount \in Nat
      /\ ac_ring_removed + PeekCount
         = Log!Least(emitted, ac_ring_removed + 1 + AC_MAX_EVENTS - 1)
  BY <1>4 DEF PeekCount, Log!Least
<1>6. out'[r] \in Seq(Nat) /\ DOMAIN out'[r] = 1 .. PeekCount /\ Len(out'[r]) = PeekCount
  <2>. DEFINE ev == [i \in 1 .. PeekCount |-> Nth(i - 1)]
  <2>1. out'[r] \in Seq(Nat)
    BY Zenon DEF IInv, TypeOK
  <2>2. DOMAIN ev = 1 .. PeekCount /\ ev \in Seq(Nat)
    BY <2>1, <1>1, Zenon
  <2>3. Len(ev) = PeekCount
    BY <2>2, <1>5
  <2>. QED BY <2>1, <2>2, <2>3, <1>1, Zenon
<1>7. \A i \in 1 .. PeekCount : out'[r][i] = ac_ring_removed + i
  BY <1>1, <1>6, Zenon DEF IInv, BatchInv
<1>8. HeldEvents' = {ac_ring_removed + i : i \in 1 .. PeekCount}
  <2>1. HeldEvents' = {out'[r][i] : i \in DOMAIN out'[r]}
    BY <1>1, <1>2, Zenon DEF HeldEvents, Events, Holder
  <2>. QED BY <2>1, <1>6, <1>7, Zenon
<1>9. HeldEvents' = ac_ring_removed + 1 .. ac_ring_removed + PeekCount
  <2>1. ASSUME NEW e \in ac_ring_removed + 1 .. ac_ring_removed + PeekCount
        PROVE  e \in HeldEvents'
    <3>1. e - ac_ring_removed \in 1 .. PeekCount
          /\ e = ac_ring_removed + (e - ac_ring_removed)
      BY <1>4, <1>5
    <3>. QED BY <3>1, <1>8, Zenon
  <2>2. \A i \in 1 .. PeekCount :
          ac_ring_removed + i \in ac_ring_removed + 1 .. ac_ring_removed + PeekCount
    BY <1>4, <1>5
  <2>. QED BY <2>1, <2>2, <1>8, Zenon
<1>10. HeldEvents' = Gone + 1 .. Log!Least(emitted, Gone + 1 + AC_MAX_EVENTS - 1)
  BY <1>3, <1>5, <1>9, Zenon
<1>11. Gone' + 1 = Gone + 1
  BY <1>3, Zenon
<1>. QED BY <1>1, <1>3, <1>10, <1>11, Zenon DEF Log!Take, histVars

(* A successful copy_to_user() delivers the batch.                         *)
LEMMA RefineCopyOk ==
  ASSUME IInv, IInv', NEW r \in Readers, CopyOk(r) PROVE Log!Deliver
<1>1. /\ pc[r] = "copy" /\ pc'[r] = "commit" /\ delivered' = delivered \cup Events(r)
      /\ UNCHANGED <<ringVars, ac_get_events_lock, out, outDropped, before, emitted,
                     evicted, flushed>>
  BY Zenon DEF CopyOk, IInv, TypeOK
<1>2. Holder = r /\ Holder' = r
  BY <1>1, HolderFacts, Zenon DEF Holder
<1>3. Copying /\ ~Committing /\ ~Copying' /\ Committing'
  BY <1>1, <1>2, Zenon DEF Copying, Committing
<1>4. HeldEvents = Events(r) /\ HeldEvents' = {} /\ Gone = ac_ring_removed
      /\ Gone' = IF CommitEnd(r) > ac_ring_removed THEN CommitEnd(r) ELSE ac_ring_removed
  BY <1>1, <1>2, <1>3, Zenon DEF HeldEvents, Gone, CommitEnd, ringVars
<1>5. /\ out[r] \in Seq(Nat) /\ Len(out[r]) \in Nat /\ DOMAIN out[r] = 1 .. Len(out[r])
      /\ before[r] \in Nat /\ before[r] <= ac_ring_removed /\ ac_ring_removed \in Nat
      /\ CommitEnd(r) \in Nat
  <2>1. out[r] \in Seq(Nat) /\ before[r] \in Nat /\ ac_ring_removed \in Nat
    BY Zenon DEF IInv, TypeOK
  <2>2. before[r] <= ac_ring_removed
    BY <1>1, Zenon DEF IInv, BatchInv
  <2>3. Len(out[r]) \in Nat /\ DOMAIN out[r] = 1 .. Len(out[r])
    BY <2>1
  <2>. QED BY <2>1, <2>2, <2>3 DEF CommitEnd
<1>6. \A i \in 1 .. Len(out[r]) : out[r][i] = before[r] + i
  BY <1>1, Zenon DEF IInv, BatchInv
<1>7. \A e \in Events(r) : e \in Nat /\ e <= CommitEnd(r)
  <2>. SUFFICES ASSUME NEW i \in 1 .. Len(out[r])
                PROVE  out[r][i] \in Nat /\ out[r][i] <= CommitEnd(r)
    BY <1>5, Zenon DEF Events
  <2>. QED BY SMTT(20), <1>5, <1>6 DEF CommitEnd
<1>8. CommitEnd(r) > ac_ring_removed => CommitEnd(r) \in Events(r)
  <2>. SUFFICES ASSUME CommitEnd(r) > ac_ring_removed PROVE CommitEnd(r) \in Events(r)
    OBVIOUS
  <2>1. Len(out[r]) \in 1 .. Len(out[r])
    BY <1>5 DEF CommitEnd
  <2>2. out[r][Len(out[r])] = CommitEnd(r)
    BY <2>1, <1>6, Zenon DEF CommitEnd
  <2>. QED BY <2>1, <2>2, <1>5, Zenon DEF Events
<1>9. Gone' + 1 \in {Gone + 1} \cup {e + 1 : e \in HeldEvents}
  BY <1>4, <1>8, Zenon
<1>10. Gone' + 1 >= Gone + 1 /\ \A e \in HeldEvents : Gone' + 1 > e
  BY <1>4, <1>5, <1>7
<1>. QED BY <1>1, <1>4, <1>9, <1>10, Zenon DEF Log!Deliver

(* Once the batch was copied out, the commit is invisible.                 *)
LEMMA RefineCommit ==
  ASSUME IInv, IInv', NEW r \in Readers, ac_commit_events(r)
  PROVE  UNCHANGED <<Gone, emitted, HeldEvents, delivered>>
<1>1. /\ pc[r] = "commit" /\ Holder' = Nobody
      /\ ac_ring_removed' = ac_ring_removed + ToRemove(Len(out[r]), before[r])
      /\ emitted' = emitted /\ delivered' = delivered
  BY Zenon DEF ac_commit_events, EndCall, Holder, histVars
<1>2. Holder = r
  BY <1>1, HolderFacts, Zenon
<1>3. Committing /\ ~Copying /\ ~Committing' /\ ~Copying'
  BY <1>1, <1>2, NobodyAssumption, Zenon DEF Committing, Copying
<1>4. /\ Len(out[r]) \in Nat /\ before[r] \in Nat
      /\ before[r] <= ac_ring_removed /\ before[r] + Len(out[r]) <= emitted
  BY <1>1 DEF IInv, TypeOK, BatchInv, CommitEnd
<1>5. Arith
  BY HolderFacts, Zenon
<1>6. ac_ring_removed' = IF before[r] + Len(out[r]) > ac_ring_removed
                         THEN before[r] + Len(out[r]) ELSE ac_ring_removed
  BY <1>1, <1>4, <1>5, CommitAmount, Zenon
<1>. QED BY <1>1, <1>2, <1>3, <1>6, Zenon DEF Gone, HeldEvents, CommitEnd

(* A failed copy_to_user() abandons the batch.                             *)
LEMMA RefineFault ==
  ASSUME IInv, IInv', NEW r \in Readers, CopyFault(r) PROVE Log!Abandon
<1>1. /\ pc[r] = "copy" /\ Holder' = Nobody
      /\ UNCHANGED ringVars /\ UNCHANGED histVars
  BY Zenon DEF CopyFault, EndCall, Holder
<1>2. Holder = r
  BY <1>1, HolderFacts, Zenon
<1>3. ~Committing /\ ~Committing' /\ ~Copying'
  BY <1>1, <1>2, NobodyAssumption, Zenon DEF Committing, Copying
<1>4. Gone' = Gone /\ HeldEvents' = {}
  BY <1>1, <1>3, Zenon DEF Gone, HeldEvents, ringVars
<1>. QED BY <1>1, <1>4, Zenon DEF Log!Abandon, histVars

(* The wait before the peek is invisible.                                  *)
LEMMA RefineWait ==
  ASSUME IInv, NEW r \in Readers, GetEvents(r) \/ Interrupted(r)
  PROVE  UNCHANGED <<Gone, emitted, HeldEvents, delivered>>
<1>1. /\ pc[r] \in {"idle", "wait"}
      /\ \E l \in {"idle", "wait"} : pc' = [pc EXCEPT ![r] = l]
      /\ UNCHANGED <<ringVars, ac_get_events_lock, out, outDropped, before, histVars>>
  BY Zenon DEF GetEvents, Interrupted
<1>2. Holder # r /\ Holder' = Holder
  BY <1>1, HolderFacts, Zenon DEF Holder
<1>3. Holder \in Readers => pc'[Holder] = pc[Holder]
  BY <1>1, <1>2, Zenon DEF IInv, TypeOK
<1>4. Copying' = Copying /\ Committing' = Committing
  BY <1>2, <1>3, Zenon DEF Copying, Committing
<1>. QED BY <1>1, <1>2, <1>4, Zenon DEF Gone, HeldEvents, CommitEnd, Events, ringVars, histVars

(* Every step of the ring is a step of the queue or invisible.             *)
LEMMA RefineNext ==
  IInv /\ IInv' /\ [Next]_vars => [Log!LogNext]_(Log!logVars)
<1>. SUFFICES ASSUME IInv, IInv', [Next]_vars
              PROVE  Log!LogNext \/ UNCHANGED <<Gone + 1, emitted, HeldEvents, delivered>>
  BY Zenon DEF Log!logVars
<1>1. CASE ac_emit
  BY <1>1, RefineEmit, Zenon DEF Log!LogNext
<1>2. CASE ac_drain_events
  BY <1>2, RefineFlush, Zenon DEF Log!LogNext
<1>3. ASSUME NEW r \in Readers, ReaderStep(r)
      PROVE  Log!LogNext \/ UNCHANGED <<Gone + 1, emitted, HeldEvents, delivered>>
  <2>1. CASE ac_peek_events(r)
    BY <2>1, RefinePeek, Zenon DEF Log!LogNext
  <2>2. CASE CopyOk(r)
    BY <2>2, RefineCopyOk, Zenon DEF Log!LogNext
  <2>3. CASE CopyFault(r)
    BY <2>3, RefineFault, Zenon DEF Log!LogNext
  <2>4. CASE ac_commit_events(r)
    BY <2>4, RefineCommit, Zenon
  <2>5. CASE GetEvents(r) \/ Interrupted(r)
    BY <2>5, RefineWait, Zenon
  <2>. QED BY <1>3, <2>1, <2>2, <2>3, <2>4, <2>5, Zenon DEF ReaderStep
<1>4. CASE UNCHANGED vars
  BY <1>4, Zenon DEF vars, ringVars, callVars, histVars, Gone, HeldEvents, Copying, Committing,
             Holder, CommitEnd, Events
<1>. QED BY <1>1, <1>2, <1>3, <1>4, Zenon DEF Next

(* The ring with its peek / copy / commit protocol implements the lossy    *)
(* first-in first-out queue of EventLog.                                   *)
THEOREM Refinement == Spec => ImplementsEventLog
BY RefineInit, RefineNext, Invariance, PTL DEF Spec, ImplementsEventLog, Log!LogSpec

-----------------------------------------------------------------------------
(* A set of natural numbers that is not empty has a least element.         *)
LEMMA LeastExists ==
  ASSUME NEW S \in SUBSET Nat, S # {} PROVE \E i \in S : \A j \in S : i <= j
<1>1. PICK i \in S : \A j \in S : ~(<<j, i>> \in OpToRel(<, Nat))
  BY Zenon, NatLessThanWellFounded, WFMin
<1>2. \A j \in S : ~(j < i)
  BY Zenon, <1>1 DEF OpToRel
<1> QED BY <1>2

(* The tables of the periodic checks.                                      *)
WSlot == [in_use : BOOLEAN, pid : Pids \cup {0}, count : Int]
WTypeOK ==
  /\ kind \in Kinds /\ prot \subseteq Pids /\ todo \subseteq Pids /\ tracked \subseteq Pids
  /\ proc \in [Pids -> [n : Nat, set : BOOLEAN, ok : BOOLEAN]]
  /\ tbl \in [Slots -> WSlot]
  /\ last \in [Pids -> Nat \cup {NoCount}] /\ nwarn \in [Pids -> {0, 1}]

(* A pid has one slot at most.                                             *)
SlotsInv ==
  /\ \A s \in Slots : tbl[s].in_use => tbl[s].pid \in Pids
  /\ \A r, s \in Slots : tbl[r].in_use /\ tbl[s].in_use /\ tbl[r].pid = tbl[s].pid => r = s

(* The pids with a slot and those still to come in this cycle fit the      *)
(* table together: all of them were listed when the cycle began.           *)
WithSlot == {p \in Pids : \E s \in Slots : tbl[s].in_use /\ tbl[s].pid = p}
RoomInv ==
  /\ IsFiniteSet(prot) /\ Cardinality(prot) <= AC_MAX_PROTS
  /\ IsFiniteSet(WithSlot \cup todo) /\ Cardinality(WithSlot \cup todo) <= AC_MAX_PROTS

(* What the checks have seen is what the slots hold.                       *)
LastInv ==
  \A p \in Pids : last[p] # NoCount =>
    \E s \in Slots : tbl[s].in_use /\ tbl[s].pid = p /\ tbl[s].count = last[p]
WarnInv == kind = "preload" => \A p \in WithSlot : nwarn[p] = 1
WatchInv == WTypeOK /\ SlotsInv /\ RoomInv /\ tracked \subseteq WithSlot /\ LastInv /\ WarnInv

(* A pid whose turn has come finds a free slot if it has none: otherwise   *)
(* AC_MAX_PROTS slots would belong to fewer pids.                          *)
LEMMA SlotLeft ==
  ASSUME WTypeOK, SlotsInv, RoomInv, NEW p \in todo, p \notin WithSlot
  PROVE  FirstFree \in Slots /\ ~tbl[FirstFree].in_use /\ FreeSlots # {}
<1> DEFINE B == WithSlot \cup todo
           f == [s \in Slots |-> tbl[s].pid]
<1>1. IsFiniteSet(B \ {p}) /\ Cardinality(B \ {p}) = Cardinality(B) - 1
  BY Zenon, FS_RemoveElement DEF RoomInv
<1>2. Cardinality(B \ {p}) < AC_MAX_PROTS
  BY WatchAssumption, <1>1, FS_CardinalityType DEF RoomInv
<1>3. IsFiniteSet(Slots) /\ Cardinality(Slots) = AC_MAX_PROTS
  BY WatchAssumption, FS_Interval DEF Slots
<1>4. FreeSlots # {}
  <2> SUFFICES ASSUME FreeSlots = {} PROVE FALSE
    OBVIOUS
  <2>1. \A s \in Slots : tbl[s].in_use
    BY DEF FreeSlots
  <2>2. \A s \in Slots : tbl[s].pid \in B \ {p}
    BY <2>1 DEF SlotsInv, WithSlot
  <2>3. f \in [Slots -> B \ {p}]
    BY <2>2
  <2>4. \E x, y \in Slots : x # y /\ f[x] = f[y]
    <3> HIDE DEF f, B
    <3> QED BY <1>1, <1>2, <1>3, <2>3, FS_PigeonHole
  <2> QED BY <2>1, <2>4 DEF SlotsInv
<1>5. FreeSlots \in SUBSET Nat
  BY WatchAssumption DEF FreeSlots, Slots
<1>6. \E i \in FreeSlots : \A j \in FreeSlots : i <= j
  BY <1>4, <1>5, LeastExists, Zenon
<1>7. FirstFree \in FreeSlots
  BY <1>6, Zenon DEF FirstFree
<1> QED BY <1>4, <1>7 DEF FreeSlots

(* Handling a pid makes no more pids need a slot.                          *)
LEMMA RoomAfter ==
  ASSUME RoomInv, NEW p \in todo, todo' = todo \ {p}, WithSlot' \subseteq WithSlot \cup {p}, prot' = prot
  PROVE  RoomInv'
<1> DEFINE B == WithSlot \cup todo
           C == WithSlot' \cup todo'
<1>1. C \in SUBSET B
  OBVIOUS
<1>2. IsFiniteSet(B) /\ Cardinality(B) <= AC_MAX_PROTS /\ IsFiniteSet(prot) /\ Cardinality(prot) <= AC_MAX_PROTS
  BY DEF RoomInv
<1>3. IsFiniteSet(C) /\ Cardinality(C) <= Cardinality(B) /\ Cardinality(C) \in Nat /\ Cardinality(B) \in Nat
  <2> HIDE DEF B, C
  <2> QED BY <1>1, <1>2, FS_Subset, FS_CardinalityType
<1>4. Cardinality(C) <= AC_MAX_PROTS
  <2> HIDE DEF B, C
  <2> QED BY WatchAssumption, <1>2, <1>3
<1> QED BY <1>2, <1>3, <1>4 DEF RoomInv

(* A slot with another count.                                              *)
LEMMA CountPut ==
  ASSUME NEW r \in WSlot, NEW c \in Int
  PROVE  LET e == [r EXCEPT !.count = c]
         IN  e \in WSlot /\ e.in_use = r.in_use /\ e.pid = r.pid /\ e.count = c
BY DEF WSlot

(* The table after an entry for p was put into the free slot f, or the     *)
(* count of its slot f replaced.                                           *)
LEMMA EntryPut ==
  ASSUME WTypeOK, SlotsInv, NEW p \in Pids, NEW f \in Slots, NEW c \in Int,
         \/ ~tbl[f].in_use /\ p \notin WithSlot /\ tbl' = [tbl EXCEPT ![f] = Entry(p, c)]
         \/ tbl[f].in_use /\ tbl[f].pid = p /\ tbl' = [tbl EXCEPT ![f].count = c]
  PROVE  /\ tbl' \in [Slots -> WSlot] /\ SlotsInv' /\ WithSlot' = WithSlot \cup {p}
         /\ tbl'[f].in_use /\ tbl'[f].pid = p /\ tbl'[f].count = c
         /\ \A q \in Pids, s \in Slots : q # p /\ tbl[s].in_use /\ tbl[s].pid = q => tbl'[s] = tbl[s]
<1>1. tbl \in [Slots -> WSlot]
  BY DEF WTypeOK
<1>2. PICK e \in WSlot : tbl' = [tbl EXCEPT ![f] = e] /\ e.in_use /\ e.pid = p /\ e.count = c
  <2>1. CASE ~tbl[f].in_use
    <3> DEFINE e == [in_use |-> TRUE, pid |-> p, count |-> c]
    <3>1. e \in WSlot /\ e.in_use /\ e.pid = p /\ e.count = c
      BY DEF WSlot
    <3>2. tbl' = [tbl EXCEPT ![f] = e]
      BY <2>1 DEF Entry
    <3> QED BY <3>1, <3>2, Zenon
  <2>2. CASE tbl[f].in_use
    <3> DEFINE e == [tbl[f] EXCEPT !.count = c]
    <3>1. e \in WSlot /\ e.in_use /\ e.pid = p /\ e.count = c
      BY <1>1, <2>2, CountPut
    <3>2. tbl' = [tbl EXCEPT ![f] = e]
      BY <1>1, <2>2
    <3> QED BY <3>1, <3>2, Zenon
  <2> QED BY <2>1, <2>2
<1>4. tbl[f].in_use => tbl[f].pid = p
  OBVIOUS
<1>5. ~tbl[f].in_use => p \notin WithSlot
  OBVIOUS
<1>6. tbl' \in [Slots -> WSlot] /\ tbl'[f] = e /\ \A s \in Slots \ {f} : tbl'[s] = tbl[s]
  BY <1>1, <1>2
<1>7. \A s \in Slots \ {f} : tbl[s].in_use => tbl[s].pid # p
  BY <1>4, <1>5 DEF SlotsInv, WithSlot
<1>8. SlotsInv'
  BY <1>2, <1>6, <1>7 DEF SlotsInv
<1>9. WithSlot' = WithSlot \cup {p}
  BY <1>2, <1>4, <1>6 DEF WithSlot
<1>10. \A q \in Pids, s \in Slots : q # p /\ tbl[s].in_use /\ tbl[s].pid = q => tbl'[s] = tbl[s]
  BY <1>4, <1>6
<1> QED BY Zenon, <1>2, <1>6, <1>8, <1>9, <1>10

(* The pids with a slot.                                                   *)
LEMMA SlotOfEmpty == ASSUME NEW p \in Pids PROVE SlotOf(p) = {} <=> p \notin WithSlot
BY DEF SlotOf, WithSlot

(* What the check of one pid does.                                         *)
LEMMA CheckEffect ==
  ASSUME WTypeOK, NEW p \in Pids, CheckItem(p)
  PROVE  /\ p \in todo /\ todo' = todo \ {p} /\ UNCHANGED <<kind, prot, proc>>
         /\ \/ UNCHANGED <<tbl, last, nwarn, tracked>>
               /\ (kind = "preload" /\ proc[p].set /\ proc[p].ok => p \in WithSlot)
            \/ kind # "preload" /\ \E c \in Nat : anon_baseline_check(p, c)
            \/ /\ p \notin WithSlot /\ Mark(p) /\ nwarn' \in {nwarn, [nwarn EXCEPT ![p] = 1]}
               /\ kind = "preload" => nwarn' = [nwarn EXCEPT ![p] = 1]
<1>1. /\ p \in todo /\ todo' = todo \ {p} /\ UNCHANGED <<kind, prot, proc>>
      /\ CASE kind = "anon" -> scan_protected(p)
           [] kind = "implicit" -> check_implicit_layers(p)
           [] kind = "preload" -> check_ld_preload(p)
           [] kind = "vk" -> check_vk_layers(p)
  BY Zenon DEF CheckItem, world
<1>2. proc[p].n \in Nat /\ kind \in {"anon", "implicit", "preload", "vk"}
  BY WatchAssumption DEF WTypeOK
<1>3. CASE kind = "anon"
  <2>1. scan_protected(p)
    BY <1>1, <1>3
  <2> QED BY <1>1, <1>2, <1>3, <2>1 DEF scan_protected, Skip, hist
<1>4. CASE kind = "implicit"
  <2>1. check_implicit_layers(p)
    BY <1>1, <1>4
  <2>2. \E c \in Nat : anon_baseline_check(p, c)
    BY <1>2, <2>1 DEF check_implicit_layers
  <2>3. kind # "preload"
    BY <1>4
  <2> QED BY Zenon, <1>1, <2>2, <2>3
<1>5. CASE kind = "preload"
  <2>1. check_ld_preload(p)
    BY <1>1, <1>5
  <2> QED BY <1>1, <2>1, SlotOfEmpty
          DEF check_ld_preload, preload_already_warned, preload_mark_warned, Skip, hist,
              Warn
<1>6. CASE kind = "vk"
  <2>1. check_vk_layers(p)
    BY SMTT(20), <1>1, <1>6
  <2> QED BY <1>1, <1>6, <2>1, SlotOfEmpty
          DEF check_vk_layers, vklayer_already_warned, vklayer_mark_warned, Skip, hist,
              Warn
<1> QED BY Zenon, <1>2, <1>3, <1>4, <1>5, <1>6

(* A check that counts.                                                    *)
LEMMA Counted ==
  ASSUME WatchInv, NEW p \in Pids, p \in todo, todo' = todo \ {p}, UNCHANGED <<kind, prot, proc>>,
         kind # "preload", NEW c \in Nat, anon_baseline_check(p, c)
  PROVE  /\ WatchInv'
         /\ \A q \in Pids : last[q] # NoCount /\ last'[q] > last[q] => nwarn'[q] = 1
<1>0. WTypeOK /\ SlotsInv /\ RoomInv /\ tracked \subseteq WithSlot /\ LastInv
  BY DEF WatchInv
<1>1. last' = [last EXCEPT ![p] = c] /\ tracked' = tracked \cup {p} /\ c \in Int
  BY DEF anon_baseline_check
<1>2. PICK f \in Slots, w \in {0, 1} :
        /\ nwarn' = [nwarn EXCEPT ![p] = w]
        /\ \/ ~tbl[f].in_use /\ p \notin WithSlot /\ tbl' = [tbl EXCEPT ![f] = Entry(p, c)]
           \/ /\ tbl[f].in_use /\ tbl[f].pid = p /\ tbl' = [tbl EXCEPT ![f].count = c]
              /\ c > tbl[f].count => w = 1
  <2>1. CASE p \notin WithSlot
    <3>1. tbl' = Insert(p, c) /\ nwarn' = [nwarn EXCEPT ![p] = 0]
      BY <2>1, SlotOfEmpty DEF anon_baseline_check
    <3>2. FirstFree \in Slots /\ ~tbl[FirstFree].in_use /\ FreeSlots # {}
      BY <1>0, <2>1, SlotLeft
    <3>3. tbl' = [tbl EXCEPT ![FirstFree] = Entry(p, c)]
      BY <3>1, <3>2, Zenon DEF Insert
    <3> QED BY Zenon, <2>1, <3>1, <3>2, <3>3
  <2>2. CASE p \in WithSlot
    <3>1. PICK s \in SlotOf(p) : /\ tbl' = Update(s, c)
                                    /\ nwarn' = [nwarn EXCEPT ![p] = IF c > tbl[s].count THEN 1 ELSE 0]
      BY <2>2, SlotOfEmpty DEF anon_baseline_check
    <3> QED BY Zenon, <3>1 DEF SlotOf, Update
  <2> QED BY <2>1, <2>2
<1>3. /\ tbl' \in [Slots -> WSlot] /\ SlotsInv' /\ WithSlot' = WithSlot \cup {p}
      /\ tbl'[f].in_use /\ tbl'[f].pid = p /\ tbl'[f].count = c
      /\ \A q \in Pids, s \in Slots : q # p /\ tbl[s].in_use /\ tbl[s].pid = q => tbl'[s] = tbl[s]
  BY SMTT(20), <1>0, <1>1, <1>2, EntryPut
<1>4. RoomInv'
  BY <1>0, <1>3, RoomAfter
<1>5. last \in [Pids -> Nat \cup {NoCount}] /\ last'[p] = c /\ \A q \in Pids \ {p} : last'[q] = last[q]
  BY SMTT(20), <1>0, <1>1 DEF WTypeOK
<1>6. LastInv'
  <2>1. ASSUME NEW q \in Pids, q # p, last'[q] # NoCount
        PROVE  \E s \in Slots : tbl'[s].in_use /\ tbl'[s].pid = q /\ tbl'[s].count = last'[q]
    BY <1>0, <1>3, <1>5, <2>1 DEF LastInv
  <2> QED BY SMTT(20), <1>3, <1>5, <2>1 DEF LastInv
<1>7. WTypeOK'
  BY SMTT(20), <1>0, <1>1, <1>2, <1>3 DEF WTypeOK
<1>8. tracked' \subseteq WithSlot' /\ WarnInv'
  BY <1>0, <1>1, <1>3 DEF WarnInv
<1>9. ASSUME NEW q \in Pids, last[q] # NoCount, last'[q] > last[q] PROVE nwarn'[q] = 1
  <2>1. q = p
    BY SMTT(20), <1>5, <1>9 DEF NoCount
  <2>2. PICK s \in Slots : tbl[s].in_use /\ tbl[s].pid = p /\ tbl[s].count = last[p]
    BY <1>0, <1>9, <2>1 DEF LastInv
  <2>3. tbl[f].in_use /\ tbl[f].pid = p /\ (c > tbl[f].count => w = 1)
    BY <1>2, <2>2 DEF WithSlot
  <2>4. tbl[f].count = last[p]
    BY <1>0, <2>2, <2>3 DEF SlotsInv
  <2>5. w = 1
    BY <1>5, <1>9, <2>1, <2>3, <2>4
  <2> QED BY Zenon, <1>0, <1>2, <2>1, <2>5 DEF WTypeOK
<1> QED BY <1>3, <1>4, <1>6, <1>7, <1>8, <1>9 DEF WatchInv

(* A check that remembers having looked.                                   *)
LEMMA Marked ==
  ASSUME WatchInv, NEW p \in Pids, p \in todo, todo' = todo \ {p}, UNCHANGED <<kind, prot, proc>>,
         p \notin WithSlot, Mark(p), nwarn' \in {nwarn, [nwarn EXCEPT ![p] = 1]},
         kind = "preload" => nwarn' = [nwarn EXCEPT ![p] = 1]
  PROVE  WatchInv' /\ last' = last
<1>0. WTypeOK /\ SlotsInv /\ RoomInv /\ tracked \subseteq WithSlot /\ LastInv /\ WarnInv
  BY DEF WatchInv
<1>1. tbl' = Insert(p, 0) /\ tracked' = tracked \cup {p} /\ last' = last
  BY DEF Mark
<1>2. PICK f \in Slots : ~tbl[f].in_use /\ tbl' = [tbl EXCEPT ![f] = Entry(p, 0)]
  <2>1. FirstFree \in Slots /\ ~tbl[FirstFree].in_use /\ FreeSlots # {}
    BY <1>0, SlotLeft
  <2> QED BY <1>1, <2>1, Zenon DEF Insert
<1>3. /\ tbl' \in [Slots -> WSlot] /\ SlotsInv' /\ WithSlot' = WithSlot \cup {p}
      /\ \A q \in Pids, s \in Slots : q # p /\ tbl[s].in_use /\ tbl[s].pid = q => tbl'[s] = tbl[s]
  <2>1. 0 \in Int
    OBVIOUS
  <2> QED BY Zenon, <1>0, <1>2, <2>1, EntryPut
<1>4. RoomInv'
  BY SMTT(20), <1>0, <1>3, RoomAfter
<1>5. LastInv'
  <2>1. last[p] = NoCount
    BY Zenon, <1>0 DEF LastInv, WithSlot
  <2> QED BY <1>0, <1>1, <1>3, <2>1 DEF LastInv
<1>6. WTypeOK'
  BY Zenon, <1>0, <1>1, <1>3 DEF WTypeOK
<1>7. WarnInv'
  <2> SUFFICES ASSUME kind = "preload", NEW q \in WithSlot' PROVE nwarn'[q] = 1
    BY DEF WarnInv
  <2>1. nwarn' = [nwarn EXCEPT ![p] = 1] /\ nwarn \in [Pids -> {0, 1}]
    BY Zenon, <1>0 DEF WTypeOK
  <2>2. q # p => q \in WithSlot /\ q \in Pids /\ nwarn[q] = 1
    BY <1>0, <1>3 DEF WarnInv, WithSlot
  <2> QED BY Zenon, <2>1, <2>2
<1>8. tracked' \subseteq WithSlot'
  BY Zenon, <1>0, <1>1, <1>3
<1> QED BY Zenon, <1>1, <1>3, <1>4, <1>5, <1>6, <1>7, <1>8 DEF WatchInv

(* A cycle begins: the table keeps the slots of the listed pids.           *)
LEMMA CycleBegins ==
  ASSUME WatchInv, BeginCycle
  PROVE  /\ WatchInv' /\ todo = {}
         /\ \A q \in Pids : last'[q] \in {last[q], NoCount}
<1>0. WTypeOK /\ SlotsInv /\ RoomInv /\ LastInv /\ WarnInv
  BY DEF WatchInv
<1>1. /\ todo = {} /\ todo' = prot /\ tracked' = {} /\ UNCHANGED <<kind, prot, proc>>
      /\ last' = [p \in Pids |-> IF p \in prot THEN last[p] ELSE NoCount]
      /\ nwarn' = [p \in Pids |-> IF p \in prot /\ ~Counting THEN nwarn[p] ELSE 0]
  BY DEF BeginCycle, world
<1>2. tbl' = Forget(prot)
  <2>1. kind \in {"anon", "implicit", "preload", "vk"}
    BY WatchAssumption, <1>0 DEF WTypeOK
  <2> QED BY <2>1 DEF BeginCycle, anon_baseline_forget_stale, implicit_layer_baseline_forget_stale,
                      preload_warned_forget_stale, vklayer_warned_forget_stale
<1>3. /\ tbl' \in [Slots -> WSlot]
      /\ \A s \in Slots : /\ tbl'[s].in_use <=> tbl[s].in_use /\ tbl[s].pid \in prot
                          /\ tbl'[s].in_use => tbl'[s] = tbl[s]
  <2>1. \A s \in Slots : tbl'[s] = IF tbl[s].in_use /\ tbl[s].pid \notin prot
                                      THEN [tbl[s] EXCEPT !.in_use = FALSE] ELSE tbl[s]
    BY <1>2 DEF Forget
  <2>2. \A r \in WSlot : [r EXCEPT !.in_use = FALSE] \in WSlot /\ [r EXCEPT !.in_use = FALSE].in_use = FALSE
    BY Zenon DEF WSlot
  <2>3. \A s \in Slots : tbl[s] \in WSlot
    BY <1>0 DEF WTypeOK
  <2>4. \A s \in Slots : /\ tbl'[s].in_use <=> tbl[s].in_use /\ tbl[s].pid \in prot
                         /\ tbl'[s].in_use => tbl'[s] = tbl[s]
                         /\ tbl'[s] \in WSlot
    <3> SUFFICES ASSUME NEW s \in Slots
                 PROVE  /\ tbl'[s].in_use <=> tbl[s].in_use /\ tbl[s].pid \in prot
                        /\ tbl'[s].in_use => tbl'[s] = tbl[s]
                        /\ tbl'[s] \in WSlot
      BY Zenon
    <3>1. CASE tbl[s].in_use /\ tbl[s].pid \notin prot
      <4>1. tbl'[s] = [tbl[s] EXCEPT !.in_use = FALSE]
        BY <2>1, <3>1, Zenon
      <4>2. tbl'[s] \in WSlot /\ tbl'[s].in_use = FALSE
        BY <4>1, <2>2, <2>3, Zenon
      <4> QED BY <4>2, <3>1, Zenon
    <3>2. CASE ~(tbl[s].in_use /\ tbl[s].pid \notin prot)
      <4>1. tbl'[s] = tbl[s]
        BY <2>1, <3>2, Zenon
      <4> QED BY <4>1, <3>2, <2>3, Zenon
    <3> QED BY <3>1, <3>2, Zenon
  <2>5. tbl' = [s \in Slots |-> tbl'[s]]
    BY <1>2, Zenon DEF Forget
  <2>6. tbl' \in [Slots -> WSlot]
    BY <2>4, <2>5, Zenon
  <2> QED BY <2>4, <2>6, Zenon
<1>4. SlotsInv'
  BY <1>0, <1>3, Zenon DEF SlotsInv
<1>5. WithSlot' = WithSlot \cap prot
  BY <1>3, Zenon DEF WithSlot
<1>6. RoomInv'
  <2>1. WithSlot' \cup todo' = prot /\ prot' = prot
    BY Zenon, <1>1, <1>5
  <2> QED BY <1>0, <2>1 DEF RoomInv
<1>7. LastInv'
  BY SMTT(20), <1>0, <1>1, <1>3 DEF LastInv
<1>8. WarnInv'
  <2> SUFFICES ASSUME kind = "preload", NEW q \in WithSlot' PROVE nwarn'[q] = 1
    BY <1>1 DEF WarnInv
  <2>1. q \in WithSlot /\ q \in prot /\ q \in Pids
    BY <1>5 DEF WithSlot
  <2>2. nwarn[q] = 1 /\ ~Counting
    BY <1>0, <2>1 DEF WarnInv, Counting
  <2> QED BY <1>1, <2>1, <2>2
<1>9. WTypeOK'
  BY <1>0, <1>1, <1>3 DEF WTypeOK, NoCount
<1> QED BY Zenon, <1>1, <1>4, <1>6, <1>7, <1>8, <1>9 DEF WatchInv

(* The processes themselves.                                               *)
LEMMA ProcessesStep ==
  ASSUME WatchInv, NEW p \in Pids,
         Protect(p) \/ Unprotect(p) \/ Change(p) \/ Reuse(p)
  PROVE  WatchInv' /\ todo' = todo /\ \A q \in Pids : last'[q] \in {last[q], NoCount}
<1>0. WTypeOK /\ SlotsInv /\ RoomInv /\ tracked \subseteq WithSlot /\ LastInv /\ WarnInv
  BY DEF WatchInv
<1>1. UNCHANGED <<kind, tbl, todo, nwarn, tracked>>
  BY Zenon DEF Protect, Unprotect, Change, Reuse, hist
<1>2. last' = last \/ last' = [last EXCEPT ![p] = NoCount]
  BY Zenon DEF Protect, Unprotect, Change, Reuse, hist
<1>3. proc' \in [Pids -> [n : Nat, set : BOOLEAN, ok : BOOLEAN]]
  <2>1. CASE Change(p)
    <3> DEFINE P == [n : Nat, set : BOOLEAN, ok : BOOLEAN]
    <3>1. \A r \in P, k \in Nat : /\ [r EXCEPT !.n = k] \in P /\ [r EXCEPT !.ok = ~r.ok] \in P
                                  /\ [r EXCEPT !.set = ~r.set] \in P
      BY Zenon
    <3>2. proc \in [Pids -> P]
      BY <1>0 DEF WTypeOK
    <3> HIDE DEF P
    <3>p. proc[p] \in P
      BY <3>2
    <3>3. \E r \in P : proc' = [proc EXCEPT ![p] = r]
      <4>1. CASE \E k \in 0 .. MaxN : proc' = [proc EXCEPT ![p].n = k]
        <5>1. PICK k \in 0 .. MaxN : proc' = [proc EXCEPT ![p].n = k]
          BY Zenon, <4>1
        <5>2. k \in Nat
          BY WatchAssumption
        <5>3. [proc[p] EXCEPT !.n = k] \in P
          BY Zenon, <3>1, <3>p, <5>2
        <5> QED BY Zenon, <5>1, <5>3
      <4>2. CASE proc' = [proc EXCEPT ![p].ok = ~proc[p].ok]
        <5>1. [proc[p] EXCEPT !.ok = ~proc[p].ok] \in P
          BY Zenon, <3>1, <3>p
        <5> QED BY Zenon, <4>2, <5>1
      <4>3. CASE proc' = [proc EXCEPT ![p].set = ~proc[p].set]
        <5>1. [proc[p] EXCEPT !.set = ~proc[p].set] \in P
          BY Zenon, <3>1, <3>p
        <5> QED BY Zenon, <4>3, <5>1
      <4> QED BY <2>1, <4>1, <4>2, <4>3 DEF Change
    <3>4. PICK r \in P : proc' = [proc EXCEPT ![p] = r]
      BY Zenon, <3>3
    <3>5. proc' \in [Pids -> P]
      BY <3>2, <3>4
    <3> QED BY <3>5 DEF P
  <2>2. CASE Reuse(p)
    <3>1. PICK k \in 0 .. MaxN, b \in BOOLEAN : proc' = [proc EXCEPT ![p] = [n |-> k, set |-> b, ok |-> TRUE]]
      BY Zenon, <2>2 DEF Reuse
    <3>2. [n |-> k, set |-> b, ok |-> TRUE] \in [n : Nat, set : BOOLEAN, ok : BOOLEAN]
      BY SMTT(20), WatchAssumption
    <3> QED BY <1>0, <3>1, <3>2 DEF WTypeOK
  <2>3. CASE Protect(p) \/ Unprotect(p)
    BY <1>0, <2>3 DEF WTypeOK, Protect, Unprotect
  <2> QED BY <2>1, <2>2, <2>3
<1>4. prot' \subseteq Pids /\ IsFiniteSet(prot') /\ Cardinality(prot') <= AC_MAX_PROTS
  <2>0. prot \subseteq Pids /\ IsFiniteSet(prot) /\ Cardinality(prot) <= AC_MAX_PROTS /\ Cardinality(prot) \in Nat
    BY <1>0, FS_CardinalityType DEF WTypeOK, RoomInv
  <2>1. CASE Protect(p)
    <3>1. p \notin prot /\ Cardinality(prot) < AC_MAX_PROTS /\ prot' = prot \cup {p}
      BY <2>1 DEF Protect
    <3>2. IsFiniteSet(prot \cup {p}) /\ Cardinality(prot \cup {p}) = Cardinality(prot) + 1
      BY <2>0, <3>1, FS_AddElement
    <3>3. Cardinality(prot) + 1 <= AC_MAX_PROTS
      BY SMTT(20), WatchAssumption, <2>0, <3>1
    <3> QED BY Zenon, <2>0, <3>1, <3>2, <3>3
  <2>2. CASE prot' = prot \/ prot' = prot \ {p}
    <3>1. CASE prot' = prot
      BY <2>0, <3>1, Zenon
    <3>2. CASE prot' = prot \ {p}
      <4>1. IsFiniteSet(prot \ {p}) /\ Cardinality(prot \ {p}) \in {Cardinality(prot), Cardinality(prot) - 1}
        BY <2>0, FS_RemoveElement, Zenon
      <4>2. Cardinality(prot \ {p}) <= AC_MAX_PROTS
        BY <2>0, <4>1, WatchAssumption, SMTT(20)
      <4> QED BY <2>0, <3>2, <4>1, <4>2, Zenon
    <3> QED BY <2>2, <3>1, <3>2, Zenon
  <2> QED BY Zenon, <2>1, <2>2 DEF Unprotect, Change, Reuse
<1>5. WithSlot' = WithSlot
  BY <1>1 DEF WithSlot
<1>6. SlotsInv' /\ RoomInv' /\ tracked' \subseteq WithSlot' /\ WarnInv'
  BY Zenon, <1>0, <1>1, <1>4, <1>5 DEF SlotsInv, RoomInv, WarnInv
<1>7. last' \in [Pids -> Nat \cup {NoCount}] /\ \A q \in Pids : last'[q] \in {last[q], NoCount}
  BY <1>0, <1>2 DEF WTypeOK
<1>8. LastInv'
  BY SMTT(20), <1>0, <1>1, <1>7 DEF LastInv
<1>9. WTypeOK'
  BY Zenon, <1>0, <1>1, <1>3, <1>4, <1>7 DEF WTypeOK
<1> QED BY <1>1, <1>6, <1>7, <1>8, <1>9 DEF WatchInv

(* Every step keeps the invariant.                                         *)
LEMMA WatchStep == ASSUME WatchInv, [WatchNext]_watchVars PROVE WatchInv'
<1>0. WTypeOK /\ SlotsInv /\ RoomInv /\ tracked \subseteq WithSlot /\ LastInv /\ WarnInv
  BY DEF WatchInv
<1>1. ASSUME NEW p \in Pids, CheckItem(p) PROVE WatchInv'
  <2>1. p \in todo /\ todo' = todo \ {p} /\ UNCHANGED <<kind, prot, proc>>
    BY <1>0, <1>1, CheckEffect
  <2>2. CASE UNCHANGED <<tbl, last, nwarn, tracked>>
    <3>1. WithSlot' = WithSlot
      BY <2>2 DEF WithSlot
    <3>2. RoomInv'
      BY <1>0, <2>1, <3>1, RoomAfter
    <3>3. SlotsInv' /\ tracked' \subseteq WithSlot' /\ LastInv' /\ WarnInv'
      <4>1. SlotsInv' /\ tracked' \subseteq WithSlot'
        BY <1>0, <2>2, <3>1, Zenon DEF SlotsInv
      <4>2. LastInv'
        BY <1>0, <2>2, Zenon DEF LastInv
      <4>3. WarnInv'
        BY <1>0, <2>1, <2>2, <3>1, Zenon DEF WarnInv
      <4> QED BY <4>1, <4>2, <4>3, Zenon
    <3>4. WTypeOK'
      BY <1>0, <2>1, <2>2 DEF WTypeOK
    <3> QED BY <3>2, <3>3, <3>4, Zenon DEF WatchInv
  <2>3. CASE kind # "preload" /\ \E c \in Nat : anon_baseline_check(p, c)
    BY <2>1, <2>3, Counted, Zenon
  <2>4. CASE /\ p \notin WithSlot /\ Mark(p) /\ nwarn' \in {nwarn, [nwarn EXCEPT ![p] = 1]}
             /\ kind = "preload" => nwarn' = [nwarn EXCEPT ![p] = 1]
    BY <2>1, <2>4, Marked, Zenon
  <2> QED BY <1>0, <1>1, <2>2, <2>3, <2>4, CheckEffect, Zenon
<1>2. CASE UNCHANGED watchVars
  <2>1. UNCHANGED <<kind, prot, proc, tbl, todo, last, nwarn, tracked>>
    BY <1>2 DEF watchVars
  <2>2. WithSlot' = WithSlot
    BY <2>1 DEF WithSlot
  <2>3. SlotsInv' /\ RoomInv' /\ tracked' \subseteq WithSlot' /\ LastInv' /\ WarnInv'
    BY ZenonT(30), <1>0, <2>1, <2>2 DEF SlotsInv, RoomInv, LastInv, WarnInv
  <2>4. WTypeOK'
    BY <1>0, <2>1 DEF WTypeOK
  <2> QED BY <2>3, <2>4, Zenon DEF WatchInv
<1> QED BY <1>1, <1>2, CycleBegins, ProcessesStep, Zenon DEF WatchNext

(* At the start nothing is listed and the table is empty.                  *)
LEMMA WatchInitInv == ASSUME WatchInit PROVE WatchInv
<1>1. /\ kind \in Kinds /\ prot = {} /\ todo = {} /\ tracked = {} /\ tbl = [s \in Slots |-> Free]
      /\ last = [p \in Pids |-> NoCount] /\ nwarn = [p \in Pids |-> 0]
      /\ proc \in [Pids -> [n : {0}, set : IF Counting THEN {FALSE} ELSE BOOLEAN, ok : {TRUE}]]
  BY Zenon DEF WatchInit
<1>2. \A s \in Slots : ~tbl[s].in_use
  BY <1>1 DEF Free
<1>3. WTypeOK
  <2>1. Free \in WSlot
    BY DEF Free, WSlot
  <2>2. tbl \in [Slots -> WSlot]
    BY <1>1, <2>1
  <2>3. proc \in [Pids -> [n : Nat, set : BOOLEAN, ok : BOOLEAN]]
    <3>1. PICK B \in SUBSET BOOLEAN : proc \in [Pids -> [n : {0}, set : B, ok : {TRUE}]]
      BY Zenon, <1>1
    <3>2. ASSUME NEW r \in [n : {0}, set : B, ok : {TRUE}] PROVE r \in [n : Nat, set : BOOLEAN, ok : BOOLEAN]
      <4>1. r = [n |-> r.n, set |-> r.set, ok |-> r.ok] /\ r.n = 0 /\ r.set \in B /\ r.ok = TRUE
        BY Zenon
      <4>2. r.n \in Nat
        BY <4>1
      <4>3. r.set \in BOOLEAN /\ r.ok \in BOOLEAN
        BY <4>1, Zenon
      <4> QED BY <4>1, <4>2, <4>3
    <3> QED BY <3>1, <3>2, Zenon
  <2> QED BY <1>1, <2>2, <2>3 DEF WTypeOK
<1>4. WithSlot = {}
  BY <1>2 DEF WithSlot
<1>5. RoomInv
  <2>1. WithSlot \cup todo = {}
    BY <1>1, <1>4
  <2> QED BY WatchAssumption, <1>1, <2>1, FS_EmptySet DEF RoomInv
<1>6. SlotsInv /\ LastInv /\ WarnInv
  BY <1>1, <1>2, <1>4 DEF SlotsInv, LastInv, WarnInv
<1> QED BY <1>1, <1>3, <1>5, <1>6 DEF WatchInv

(* The tables of the periodic checks are as large as the registry, so that *)
(* a process whose turn came has its slot, and only one, for any number of *)
(* processes and slots.                                                    *)
THEOREM WatchRoom == WatchSpec => []RoomForAll
<1>1. (WatchInit => WatchInv) /\ (WatchInv /\ [WatchNext]_watchVars => WatchInv')
  BY WatchInitInv, WatchStep
<1>2. WatchInv => RoomForAll
  <2> SUFFICES ASSUME WatchInv, NEW p \in tracked PROVE Cardinality(SlotOf(p)) = 1
    BY DEF RoomForAll
  <2>1. PICK s \in Slots : tbl[s].in_use /\ tbl[s].pid = p
    BY DEF WatchInv, WithSlot
  <2>2. SlotOf(p) = {s}
    BY <2>1 DEF WatchInv, SlotsInv, SlotOf
  <2>3. Cardinality({s}) = 1
    BY Zenon, FS_Singleton
  <2> QED BY <2>2, <2>3, Zenon
<1> QED BY <1>1, <1>2, PTL DEF WatchSpec

(* Of a process that stays listed, every growth between two checks is      *)
(* logged by scan_protected() and check_implicit_layers().                 *)
THEOREM WatchGrowth == WatchSpec => GrowthLogged
<1>1. (WatchInit => WatchInv) /\ (WatchInv /\ [WatchNext]_watchVars => WatchInv')
  BY WatchInitInv, WatchStep
<1>2. ASSUME WatchInv, [WatchNext]_watchVars, NEW q \in Pids, last[q] # NoCount, last'[q] > last[q]
      PROVE  nwarn'[q] = 1
  <2>0. WTypeOK
    BY <1>2 DEF WatchInv
  <2>1. last[q] \in Nat /\ ~(last'[q] \in {last[q], NoCount})
    BY SMTT(20), <1>2, <2>0 DEF WTypeOK, NoCount
  <2>2. ~(UNCHANGED watchVars) /\ ~BeginCycle
    BY <1>2, <2>1, CycleBegins DEF watchVars
  <2>3. \A p \in Pids : ~(Protect(p) \/ Unprotect(p) \/ Change(p) \/ Reuse(p))
    BY <1>2, <2>1, ProcessesStep, Zenon
  <2>4. PICK p \in Pids : CheckItem(p)
    BY <1>2, <2>2, <2>3, Zenon DEF WatchNext
  <2>5. last' # last
    BY <2>1
  <2>6. p \in todo /\ todo' = todo \ {p} /\ UNCHANGED <<kind, prot, proc>>
    BY <2>0, <2>4, CheckEffect, Zenon
  <2>7. ~Mark(p)
    BY <2>5, Zenon DEF Mark
  <2>8. kind # "preload" /\ \E c \in Nat : anon_baseline_check(p, c)
    BY <2>0, <2>4, <2>5, <2>7, CheckEffect, Zenon
  <2> QED BY <1>2, <2>6, <2>8, Counted, Zenon
<1>3. WatchInv /\ [WatchNext]_watchVars => [GrowthStep]_watchVars
  BY <1>2, Zenon DEF GrowthStep
<1> QED BY <1>1, <1>3, PTL DEF WatchSpec, GrowthLogged

(* A process whose environ holds LD_PRELOAD, and can be read, has been     *)
(* logged once check_ld_preload() has had its turn.                        *)
THEOREM WatchPreload == WatchSpec => VariableNoticed
<1>1. (WatchInit => WatchInv) /\ (WatchInv /\ [WatchNext]_watchVars => WatchInv')
  BY WatchInitInv, WatchStep
<1>2. ASSUME WatchInv, [WatchNext]_watchVars, NEW q \in todo \ todo', kind = "preload", proc[q].set, proc[q].ok
      PROVE  nwarn'[q] > 0
  <2>0. WTypeOK /\ WarnInv
    BY Zenon, <1>2 DEF WatchInv
  <2>2. ~(UNCHANGED watchVars) /\ ~BeginCycle
    BY <1>2, CycleBegins DEF watchVars
  <2>3. \A p \in Pids : ~(Protect(p) \/ Unprotect(p) \/ Change(p) \/ Reuse(p))
    BY <1>2, ProcessesStep
  <2>4. PICK p \in Pids : CheckItem(p)
    BY <1>2, <2>2, <2>3, Zenon DEF WatchNext
  <2>5. p = q
    BY <1>2, <2>0, <2>4, CheckEffect
  <2>6. \/ nwarn' = nwarn /\ p \in WithSlot
        \/ nwarn' = [nwarn EXCEPT ![p] = 1]
    BY <1>2, <2>0, <2>4, <2>5, CheckEffect, Zenon
  <2>7. nwarn'[p] = 1
    BY <1>2, <2>0, <2>6 DEF WarnInv, WTypeOK
  <2> QED BY <2>5, <2>7
<1>3. WatchInv /\ [WatchNext]_watchVars => [NoticeStep]_watchVars
  BY <1>2, Zenon DEF NoticeStep
<1> QED BY <1>1, <1>3, PTL DEF WatchSpec, VariableNoticed

=============================================================================
