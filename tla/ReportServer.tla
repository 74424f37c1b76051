---------------------------- MODULE ReportServer ----------------------------
(* The report server's connections: an accept loop that takes a slot of a  *)
(* semaphore for each connection, or rejects it with 503, handler threads  *)
(* with a watchdog on their connection, and the shutdown that joins them.  *)
(* Each connection is one call of the daemon's ac_report(), which makes    *)
(* one attempt.                                                            *)
EXTENDS Integers, FiniteSets

CONSTANTS
  Conns,
  max_connections,
  INTERVAL,      \* OVERLOAD_LOG_INTERVAL_SEC
  MaxTime        \* bound on the clock

(* What DaemonProofs assumes of the constants.                             *)
ConnsAssumption == IsFiniteSet(Conns) /\ max_connections \in Nat

VARIABLES
  st,            \* connection -> "new", "accepted", "starting", "running", "ended",
                 \* "rejected", "failed" (no thread), "closed"
  answer,        \* connection -> "none", "201", "503"
  slots,         \* _conn_semaphore
  stop,          \* "no", "signalled", "joining", "stopped"
  clock, last, suppressed  \* _overload_log_last, _overload_log_suppressed
vars == <<st, answer, slots, stop, clock, last, suppressed>>
logVars == <<last, suppressed>>

Init ==
  /\ st = [c \in Conns |-> "new"] /\ answer = [c \in Conns |-> "none"]
  /\ slots = max_connections /\ stop = "no" /\ clock \in {0, INTERVAL} /\ last = 0
  /\ suppressed = 0

To(c, s) == st' = [st EXCEPT ![c] = s]
(* The accept loop handles one connection at a time.                       *)
InLoop == {c \in Conns : st[c] \in {"accepted", "starting"}}

Accept(c) ==
  /\ stop \in {"no", "signalled"} /\ InLoop = {} /\ st[c] = "new" /\ To(c, "accepted")
  /\ UNCHANGED <<answer, slots, stop, clock, logVars>>

Free == slots > 0
Acquire(c) ==
  /\ st[c] = "accepted" /\ Free /\ slots' = slots - 1 /\ To(c, "starting")
  /\ UNCHANGED <<answer, stop, clock, logVars>>

_log_overload_rejection ==
  IF clock - last < INTERVAL
  THEN suppressed' = suppressed + 1 /\ UNCHANGED last
  ELSE last' = clock /\ suppressed' = 0
Reject(c) ==
  /\ st[c] = "accepted" /\ ~Free
  /\ _log_overload_rejection
  /\ \E a \in {"none", "503"} : answer' = [answer EXCEPT ![c] = a]   \* best effort
  /\ To(c, "rejected")
  /\ UNCHANGED <<slots, stop, clock>>

Start(c) ==
  /\ st[c] = "starting" /\ To(c, "running")
  /\ UNCHANGED <<answer, slots, stop, clock, logVars>>
(* Thread.start() raises: the slot is given back.                          *)
StartFails(c) ==
  /\ st[c] = "starting" /\ slots' = slots + 1 /\ To(c, "failed")
  /\ UNCHANGED <<answer, stop, clock, logVars>>

(* The handler stores the report and answers.                              *)
Handle(c) ==
  /\ st[c] = "running" /\ answer[c] = "none"
  /\ answer' = [answer EXCEPT ![c] = "201"] /\ To(c, "ended")
  /\ UNCHANGED <<slots, stop, clock, logVars>>
(* A client that trickles is cut off by the watchdog.                      *)
_deadline_exceeded(c) ==
  /\ st[c] = "running" /\ To(c, "ended")
  /\ UNCHANGED <<answer, slots, stop, clock, logVars>>
(* The end of process_request_thread(), however the handler ended.         *)
Release(c) ==
  /\ st[c] = "ended" /\ slots' = slots + 1 /\ To(c, "closed")
  /\ UNCHANGED <<answer, stop, clock, logVars>>

Sigterm ==
  /\ stop = "no" /\ stop' = "signalled"
  /\ UNCHANGED <<st, answer, slots, clock, logVars>>
(* serve_forever() notices between two connections.                        *)
LeaveLoop ==
  /\ stop = "signalled" /\ InLoop = {} /\ stop' = "joining"
  /\ UNCHANGED <<st, answer, slots, clock, logVars>>
(* server_close() joins every handler thread.                              *)
server_close ==
  /\ stop = "joining" /\ \A c \in Conns : st[c] \notin {"running", "ended"}
  /\ stop' = "stopped" /\ UNCHANGED <<st, answer, slots, clock, logVars>>

Tick ==
  /\ clock < MaxTime /\ clock' = clock + 1
  /\ UNCHANGED <<st, answer, slots, stop, logVars>>

Loop == LeaveLoop \/ \E c \in Conns : Accept(c) \/ Acquire(c) \/ Reject(c) \/ Start(c)
Next ==
  \/ Loop \/ Sigterm \/ server_close \/ Tick
  \/ \E c \in Conns : StartFails(c) \/ Handle(c) \/ _deadline_exceeded(c) \/ Release(c)
Spec == Init /\ [][Next]_vars
-----------------------------------------------------------------------------
Holding == {c \in Conns : st[c] \in {"starting", "running", "ended"}}
(* Every slot of the semaphore is free or held by a connection being       *)
(* handled: none leaks though threads fail to start or are cut off.        *)
SlotsConserved == slots + Cardinality(Holding) = max_connections

(* No more handlers than max_connections run at once.                      *)
ThreadsBounded == Cardinality({c \in Conns : st[c] \in {"running", "ended"}}) <= max_connections
=============================================================================
