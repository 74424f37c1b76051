------------------------------ MODULE EventLog ------------------------------
(***************************************************************************)
(* What the event ring promises its consumers: a first-in first-out queue  *)
(* of the events emitted, bounded, that loses only its oldest event and    *)
(* only when it is full of events nobody has received, and a reader that   *)
(* takes a batch from its front and either delivers the whole batch or     *)
(* leaves the queue as it was.  Events are numbered in the order emitted;  *)
(* the queue is first .. emitted.                                          *)
(***************************************************************************)
EXTENDS Integers

CONSTANTS Capacity,  \* undelivered events the queue can hold
          Batch,     \* most events a reader takes at once
          MaxEmits   \* bound of the model

VARIABLES first, emitted,
          held,      \* events a reader has taken and not yet delivered
          log        \* events delivered

logVars == <<first, emitted, held, log>>

Least(a, b) == IF a < b THEN a ELSE b

LogInit == first = 1 /\ emitted = 0 /\ held = {} /\ log = {}

LogEmit ==
  /\ emitted < MaxEmits
  /\ emitted' = emitted + 1
  /\ first' = IF emitted + 1 - first = Capacity THEN first + 1 ELSE first
  /\ UNCHANGED <<held, log>>

LogFlush == first' = emitted + 1 /\ UNCHANGED <<emitted, held, log>>

Take ==
  /\ held = {}
  /\ held' = first .. Least(emitted, first + Batch - 1)
  /\ UNCHANGED <<first, emitted, log>>

(* An event can be lost or flushed after it was taken: it is delivered     *)
(* all the same, and is not in the queue any more.                         *)
Deliver ==
  /\ log' = log \cup held
  /\ held' = {}
  /\ first' \in {first} \cup {e + 1 : e \in held}
  /\ first' >= first /\ \A e \in held : first' > e
  /\ UNCHANGED emitted

Abandon == held' = {} /\ UNCHANGED <<first, emitted, log>>

LogNext == LogEmit \/ LogFlush \/ Take \/ Deliver \/ Abandon

LogSpec == LogInit /\ [][LogNext]_logVars
=============================================================================
