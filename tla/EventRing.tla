----------------------------- MODULE EventRing -----------------------------
(***************************************************************************)
(* The event ring of the kernel module (src/anticheat_module.c): ac_emit() *)
(* from any context, the AC_IOCTL_GET_EVENTS handler with its              *)
(* peek / copy_to_user / commit protocol, and AC_IOCTL_FLUSH_EVENTS.       *)
(* A critical section of ac_ring_lock is one step.  An event is the number *)
(* of its emission: its content is copied and never looked at.  ac_dropped *)
(* and ac_ring_removed do not reach their widths (2^32, 2^64) within       *)
(* MaxEmits.                                                               *)
(***************************************************************************)
EXTENDS Integers, FiniteSets, Sequences

CONSTANTS AC_RING_SIZE, AC_MAX_EVENTS,
          Readers,   \* threads that call AC_IOCTL_GET_EVENTS
          Nobody,    \* ac_get_events_lock is free
          MaxEmits   \* bound of the model on the number of events

ASSUME SizeAssumption == AC_RING_SIZE \in Nat \ {0} /\ AC_MAX_EVENTS \in Nat
ASSUME BoundAssumption == MaxEmits \in Nat
ASSUME NobodyAssumption == Nobody \notin Readers

VARIABLES ac_ring, ac_ring_head, ac_ring_tail, ac_ring_count,
          ac_dropped, ac_ring_removed,
          ac_get_events_lock,
          pc,
          out,        \* out[r]: the events in the ac_event_list of r
          outDropped, \* its .dropped
          before,     \* removed_before of r
          emitted,    \* history: events emitted, numbered 1 .. emitted
          delivered,  \* history: events that reached user space
          evicted,    \* history: events overwritten by ac_emit()
          flushed     \* history: events discarded by a flush

ringVars == <<ac_ring, ac_ring_head, ac_ring_tail, ac_ring_count, ac_dropped,
              ac_ring_removed>>
callVars == <<ac_get_events_lock, pc, out, outDropped, before>>
histVars == <<emitted, delivered, evicted, flushed>>
vars == <<ringVars, callVars, histVars>>

Index == 0 .. AC_RING_SIZE - 1

Init ==
  /\ ac_ring = [i \in Index |-> 0]
  /\ ac_ring_head = 0 /\ ac_ring_tail = 0 /\ ac_ring_count = 0
  /\ ac_dropped = 0 /\ ac_ring_removed = 0
  /\ ac_get_events_lock = Nobody
  /\ pc = [r \in Readers |-> "idle"]
  /\ out = [r \in Readers |-> <<>>]
  /\ outDropped = [r \in Readers |-> 0]
  /\ before = [r \in Readers |-> 0]
  /\ emitted = 0 /\ delivered = {} /\ evicted = {} /\ flushed = {}

(* ac_emit(): when the ring is full its oldest event is overwritten and    *)
(* counted.                                                                *)
Full == ac_ring_count >= AC_RING_SIZE

ac_emit ==
  /\ emitted < MaxEmits
  /\ emitted' = emitted + 1
  /\ IF Full
     THEN /\ ac_ring_tail' = (ac_ring_tail + 1) % AC_RING_SIZE
          /\ ac_ring_count' = ac_ring_count
          /\ ac_dropped' = ac_dropped + 1
          /\ ac_ring_removed' = ac_ring_removed + 1
          /\ evicted' = evicted \cup {ac_ring[ac_ring_tail]}
     ELSE /\ ac_ring_count' = ac_ring_count + 1
          /\ UNCHANGED <<ac_ring_tail, ac_dropped, ac_ring_removed, evicted>>
  /\ ac_ring' = [ac_ring EXCEPT ![ac_ring_head] = emitted + 1]
  /\ ac_ring_head' = (ac_ring_head + 1) % AC_RING_SIZE
  /\ UNCHANGED <<callVars, delivered, flushed>>

(* The k-th oldest event of the ring, k = 0 for the oldest.                *)
Nth(k) == ac_ring[(ac_ring_tail + k) % AC_RING_SIZE]

(* ac_drain_events(NULL), all AC_IOCTL_FLUSH_EVENTS does; it does not take *)
(* ac_get_events_lock.                                                     *)
ac_drain_events ==
  /\ ac_ring_tail' = (ac_ring_tail + ac_ring_count) % AC_RING_SIZE
  /\ ac_ring_count' = 0
  /\ ac_ring_removed' = ac_ring_removed + ac_ring_count
  /\ flushed' = flushed \cup {Nth(k) : k \in 0 .. ac_ring_count - 1}
  /\ UNCHANGED <<ac_ring, ac_ring_head, ac_dropped, callVars, emitted, delivered,
                 evicted>>

(* AC_IOCTL_GET_EVENTS.  The wait outside the lock ends on an event, on a  *)
(* timeout or at once (block_ms = 0), so it ends in any state; a signal    *)
(* ends the call.                                                          *)
GetEvents(r) ==
  /\ pc[r] = "idle"
  /\ pc' = [pc EXCEPT ![r] = "wait"]
  /\ UNCHANGED <<ringVars, ac_get_events_lock, out, outDropped, before, histVars>>

Interrupted(r) ==
  /\ pc[r] = "wait"
  /\ pc' = [pc EXCEPT ![r] = "idle"]
  /\ UNCHANGED <<ringVars, ac_get_events_lock, out, outDropped, before, histVars>>

PeekCount == IF ac_ring_count < AC_MAX_EVENTS THEN ac_ring_count ELSE AC_MAX_EVENTS

LockFree == ac_get_events_lock = Nobody

ac_peek_events(r) ==
  /\ pc[r] = "wait"
  /\ LockFree
  /\ ac_get_events_lock' = r
  /\ out' = [out EXCEPT ![r] = [i \in 1 .. PeekCount |-> Nth(i - 1)]]
  /\ outDropped' = [outDropped EXCEPT ![r] = ac_dropped]
  /\ before' = [before EXCEPT ![r] = ac_ring_removed]
  /\ pc' = [pc EXCEPT ![r] = "copy"]
  /\ UNCHANGED <<ringVars, histVars>>

Events(r) == {out[r][i] : i \in DOMAIN out[r]}

(* mutex_unlock() and kfree(el).                                           *)
EndCall(r) ==
  /\ ac_get_events_lock' = Nobody
  /\ out' = [out EXCEPT ![r] = <<>>]
  /\ outDropped' = [outDropped EXCEPT ![r] = 0]
  /\ before' = [before EXCEPT ![r] = 0]
  /\ pc' = [pc EXCEPT ![r] = "idle"]

CopyOkUncommitted(r) ==
  /\ pc[r] = "copy"
  /\ delivered' = delivered \cup Events(r)
  /\ EndCall(r)
  /\ UNCHANGED <<ringVars, emitted, evicted, flushed>>
CopyOk(r) ==
  /\ pc[r] = "copy"
  /\ delivered' = delivered \cup Events(r)
  /\ pc' = [pc EXCEPT ![r] = "commit"]
  /\ UNCHANGED <<ringVars, ac_get_events_lock, out, outDropped, before, emitted,
                 evicted, flushed>>

CopyFaultCommits(r) ==
  /\ pc[r] = "copy"
  /\ pc' = [pc EXCEPT ![r] = "commit"]
  /\ UNCHANGED <<ringVars, ac_get_events_lock, out, outDropped, before, histVars>>
CopyFault(r) ==
  /\ pc[r] = "copy"
  /\ EndCall(r)
  /\ UNCHANGED <<ringVars, histVars>>

(* How many of the n events peeked when ac_ring_removed was b are still in *)
(* the ring to be removed.                                                 *)
ToRemoveAll(n, b) == IF n > ac_ring_count THEN ac_ring_count ELSE n
ToRemove(n, b) ==
  LET since == ac_ring_removed - b
      left  == IF since >= n THEN 0 ELSE n - since
  IN  IF left > ac_ring_count THEN ac_ring_count ELSE left

ac_commit_events(r) ==
  /\ pc[r] = "commit"
  /\ LET k == ToRemove(Len(out[r]), before[r]) IN
       /\ ac_ring_tail' = (ac_ring_tail + k) % AC_RING_SIZE
       /\ ac_ring_count' = ac_ring_count - k
       /\ ac_ring_removed' = ac_ring_removed + k
  /\ EndCall(r)
  /\ UNCHANGED <<ac_ring, ac_ring_head, ac_dropped, histVars>>

ReaderStep(r) ==
  \/ GetEvents(r) \/ Interrupted(r) \/ ac_peek_events(r)
  \/ CopyOk(r) \/ CopyFault(r) \/ ac_commit_events(r)

Next ==
  \/ ac_emit
  \/ ac_drain_events
  \/ \E r \in Readers : ReaderStep(r)

Spec == Init /\ [][Next]_vars

(* The daemon calls GET_EVENTS again and again with a buffer of its own,   *)
(* so its calls cannot fault or be interrupted for ever, and a mutex is    *)
(* handed to a waiter.                                                     *)
Fairness ==
  \A r \in Readers :
    /\ WF_vars(GetEvents(r)) /\ SF_vars(ac_peek_events(r))
    /\ SF_vars(CopyOk(r)) /\ WF_vars(ac_commit_events(r))

FairSpec == Spec /\ Fairness

-----------------------------------------------------------------------------
(* Properties.                                                             *)

(* Every variable has its type; the indexes stay inside ac_ring[] and the  *)
(* count never passes its size, whatever mix of emit, flush and commit.    *)
TypeOK ==
  /\ ac_ring \in [Index -> Nat]
  /\ ac_ring_head \in Index /\ ac_ring_tail \in Index
  /\ ac_ring_count \in 0 .. AC_RING_SIZE
  /\ ac_dropped \in Nat /\ ac_ring_removed \in Nat
  /\ ac_get_events_lock \in Readers \cup {Nobody}
  /\ pc \in [Readers -> {"idle", "wait", "copy", "commit"}]
  /\ out \in [Readers -> Seq(Nat)]
  /\ outDropped \in [Readers -> Nat]
  /\ before \in [Readers -> Nat]
  /\ emitted \in Nat
  /\ delivered \subseteq Nat /\ evicted \subseteq Nat /\ flushed \subseteq Nat

(* The ring holds exactly the youngest events, oldest at the tail, through *)
(* every mix of emits, evictions, flushes and commits.                     *)
RingContents ==
  /\ ac_ring_removed + ac_ring_count = emitted
  /\ ac_ring_head = (ac_ring_tail + ac_ring_count) % AC_RING_SIZE
  /\ \A k \in 0 .. ac_ring_count - 1 : Nth(k) = ac_ring_removed + 1 + k

(* A commit only removes events that were copied out: an event that is in  *)
(* the ring no more was delivered, evicted by ac_emit() or flushed.        *)
NoSilentLoss ==
  \A e \in 1 .. emitted :
    e > ac_ring_removed \/ e \in delivered \/ e \in evicted \/ e \in flushed

(* Every event overwritten by ac_emit() is counted in ac_dropped once.     *)
DropsCounted == ac_dropped = Cardinality(evicted)

(* No event is handed out twice and events are handed out in the order     *)
(* they were emitted, although a failed copy is repeated, readers overlap, *)
(* and events are evicted and flushed between a peek and its commit.       *)
InOrderOnce ==
  \A r \in Readers : pc[r] = "copy" => \A e \in Events(r), d \in delivered : e > d

(* The dropped count a reader is given accounts for every event missing    *)
(* before its batch.                                                       *)
GapsReported ==
  \A r \in Readers : pc[r] = "copy" =>
    Cardinality({e \in 1 .. before[r] : e \notin delivered \cup flushed}) <= outDropped[r]

(* An event in the ring does not stay there while readers read.            *)
EventsLeave ==
  \A e \in 1 .. MaxEmits :
    (e > ac_ring_removed /\ e <= emitted) ~> (e <= ac_ring_removed)

(* The queue of EventLog is the events past the last one delivered or      *)
(* removed; the batch being copied out is what is held.                    *)
Holder == ac_get_events_lock
Copying == Holder \in Readers /\ pc[Holder] = "copy"
Committing == Holder \in Readers /\ pc[Holder] = "commit"
CommitEnd(r) == before[r] + Len(out[r])
Gone == IF Committing /\ CommitEnd(Holder) > ac_ring_removed
        THEN CommitEnd(Holder) ELSE ac_ring_removed
HeldEvents == IF Copying THEN Events(Holder) ELSE {}

Log == INSTANCE EventLog WITH
         Capacity <- AC_RING_SIZE, Batch <- AC_MAX_EVENTS, MaxEmits <- MaxEmits,
         first <- Gone + 1, emitted <- emitted, held <- HeldEvents, log <- delivered

(* Every step of the ring is a step of EventLog or leaves it unchanged: to *)
(* its users the ring is a queue that loses only its oldest event.         *)
ImplementsEventLog == Log!LogSpec
=============================================================================
