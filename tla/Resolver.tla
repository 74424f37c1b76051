------------------------------ MODULE Resolver ------------------------------
(* ac_resolve_timeout(): a host name is resolved in a forked child, which  *)
(* sends the addresses through a pipe.  The daemon, which has one thread,  *)
(* waits until an absolute deadline, kills the child, waits a bounded time *)
(* for its end and otherwise leaves it in a table of AC_MAX_STALE_RESOLVERS*)
(* children to reap later: a child in uninterruptible sleep ignores        *)
(* SIGKILL.                                                                *)
EXTENDS Integers, Sequences, FiniteSets

CONSTANTS
  AC_MAX_STALE_RESOLVERS,
  Timeout, ReapTimeout,   \* timeout_sec, and the 2000 ms of waitpid_timeout(), in ticks
  max,                    \* addresses wanted
  MaxRecs, MaxForks       \* bounds on addresses sent by a child, and on children

VARIABLES
  rpc,       \* of the daemon: "idle", "poll", "polling", "kill", "reap", "nap", "abandon"
  t, until, \* ticks since the deadline was set; end of the current poll()
  rt,       \* ticks in waitpid_timeout()
  child,    \* the child of the current call; children are numbered as forked
  st,       \* child -> "none", "new", "resolving", "zombie", "reaped"
  wedged, killed,
  cfds,      \* child -> descriptors open in it
  pipe,     \* units in the pipe: an address is two of them
  rsent, buf, out,
  stale     \* g_stale_resolvers
vars == <<rpc, t, until, rt, child, st, wedged, killed, cfds, pipe, rsent, buf, out, stale>>
childVars == <<st, wedged, killed, cfds>>
pipeVars == <<pipe, rsent, buf, out>>
timeVars == <<t, until, rt>>

Forks == 1 .. MaxForks
Table == 1 .. AC_MAX_STALE_RESOLVERS
Std == {"stdin", "stdout", "stderr"}
(* Inherited descriptors, below and above the pipe's write end.            *)
Low == {"device"}
High == {"log", "socket"}

Init ==
  /\ rpc = "idle" /\ t = 0 /\ until = 0 /\ rt = 0 /\ child = 0
  /\ st = [c \in Forks |-> "none"] /\ wedged = {} /\ killed = {}
  /\ cfds = [c \in Forks |-> {}]
  /\ pipe = <<>> /\ rsent = 0 /\ buf = <<>> /\ out = <<>>
  /\ stale = [i \in Table |-> 0]

-----------------------------------------------------------------------------
(* The children.  close_range() below and above the pipe may fail; unless  *)
(* both succeed, /proc/self/fd or the sweep up to the limit closes the     *)
(* rest.                                                                   *)
AfterRanges(open, r1, r2) ==
  open \ ((IF r1 THEN Low ELSE {}) \cup (IF r2 THEN High ELSE {}))
ac_close_extra_fds(open, keep, r1, r2) ==
  IF r1 /\ r2 THEN AfterRanges(open, r1, r2)
  ELSE AfterRanges(open, r1, r2) \cap (Std \cup {keep})
ChildCloses(c) ==
  /\ st[c] = "new" /\ c \notin killed
  /\ \E r1, r2 \in BOOLEAN :
       cfds' = [cfds EXCEPT ![c] = ac_close_extra_fds(cfds[c], "pipe", r1, r2)]
  /\ st' = [st EXCEPT ![c] = "resolving"]
  /\ UNCHANGED <<rpc, timeVars, child, wedged, killed, pipeVars, stale>>

ChildSends(c) ==
  /\ st[c] = "resolving" /\ c \notin wedged \cup killed
  /\ c = child /\ rpc \in {"poll", "polling"} /\ rsent < MaxRecs
  /\ rsent' = rsent + 1 /\ pipe' = pipe \o <<<<rsent + 1, 1>>, <<rsent + 1, 2>>>>
  /\ UNCHANGED <<rpc, timeVars, child, childVars, buf, out, stale>>

(* It exits, or SIGKILL ends it.                                           *)
ChildEnds(c) ==
  /\ st[c] \in {"new", "resolving"} /\ c \notin wedged
  /\ st[c] = "resolving" \/ c \in killed
  /\ st' = [st EXCEPT ![c] = "zombie"] /\ cfds' = [cfds EXCEPT ![c] = {}]
  /\ UNCHANGED <<rpc, timeVars, child, wedged, killed, pipeVars, stale>>

Wedge(c) ==
  /\ st[c] = "resolving" /\ c \notin killed
  /\ wedged' = IF c \in wedged THEN wedged \ {c} ELSE wedged \cup {c}
  /\ UNCHANGED <<rpc, timeVars, child, st, killed, cfds, pipeVars, stale>>
Unwedge(c) ==
  /\ c \in wedged \cap killed /\ wedged' = wedged \ {c}
  /\ UNCHANGED <<rpc, timeVars, child, st, killed, cfds, pipeVars, stale>>

-----------------------------------------------------------------------------
(* Zombies of the table are reaped and their slots freed.                  *)
Swept == [i \in Table |-> IF stale[i] > 0 /\ st[stale[i]] = "zombie" THEN 0 ELSE stale[i]]
Reaped == [c \in Forks |-> IF st[c] = "zombie" /\ \E i \in Table : stale[i] = c
                           THEN "reaped" ELSE st[c]]
reap_stale_resolvers == stale' = Swept /\ st' = Reaped

SlotAssumed == TRUE
stale_resolver_slot_free == \E i \in Table : Swept[i] = 0

(* A call sweeps the table and forks if a slot is free afterwards;         *)
(* otherwise, or if pipe() or fork() fails, it is refused.                 *)
Fork ==
  /\ rpc = "idle" /\ child < MaxForks
  /\ stale_resolver_slot_free
  /\ child' = child + 1 /\ stale' = Swept
  /\ st' = [Reaped EXCEPT ![child + 1] = "new"]
  /\ cfds' = [cfds EXCEPT ![child + 1] = Std \cup Low \cup High \cup {"pipe"}]
  /\ rpc' = "poll" /\ t' = 0 /\ rt' = 0 /\ until' = 0
  /\ pipe' = <<>> /\ rsent' = 0 /\ buf' = <<>> /\ out' = <<>>
  /\ UNCHANGED <<wedged, killed>>
Refuse ==
  /\ rpc = "idle" /\ reap_stale_resolvers
  /\ UNCHANGED <<rpc, timeVars, child, wedged, killed, cfds, pipeVars>>

PollUntil == Timeout
Poll ==
  /\ rpc = "poll"
  /\ IF Len(out) >= max \/ t >= Timeout THEN rpc' = "kill" /\ UNCHANGED until
     ELSE rpc' = "polling" /\ until' = PollUntil
  /\ UNCHANGED <<t, rt, child, childVars, pipeVars, stale>>

Least(a, b) == IF a < b THEN a ELSE b
(* A record is complete when both its units have arrived.                  *)
Accept(piece) ==
  IF Len(buf \o piece) = 2 THEN out' = Append(out, buf \o piece) /\ buf' = <<>>
                           ELSE buf' = buf \o piece /\ UNCHANGED out
Read ==
  /\ rpc = "polling" /\ pipe # <<>>
  /\ \E k \in 1 .. Least(2 - Len(buf), Len(pipe)) :
       Accept(SubSeq(pipe, 1, k)) /\ pipe' = SubSeq(pipe, k + 1, Len(pipe))
  /\ rpc' = "poll"
  /\ UNCHANGED <<timeVars, child, childVars, rsent, stale>>

(* The child is done, or poll() timed out.                                 *)
StopReading ==
  /\ rpc = "polling" /\ ((pipe = <<>> /\ st[child] = "zombie") \/ t >= until)
  /\ rpc' = "kill"
  /\ UNCHANGED <<timeVars, child, childVars, pipeVars, stale>>
(* A signal interrupts poll().                                             *)
PollInterrupted ==
  /\ rpc = "polling" /\ pipe = <<>> /\ rpc' = "kill"
  /\ UNCHANGED <<timeVars, child, childVars, pipeVars, stale>>

Kill ==
  /\ rpc = "kill" /\ rpc' = "reap" /\ killed' = killed \cup {child}
  /\ UNCHANGED <<timeVars, child, st, wedged, cfds, pipeVars, stale>>

waitpid_blocking ==
  /\ rpc = "reap" /\ st[child] = "zombie"
  /\ st' = [st EXCEPT ![child] = "reaped"] /\ rpc' = "idle"
  /\ UNCHANGED <<timeVars, child, wedged, killed, cfds, pipeVars, stale>>
waitpid_timeout ==
  /\ rpc = "reap"
  /\ IF st[child] = "zombie"
     THEN st' = [st EXCEPT ![child] = "reaped"] /\ rpc' = "idle"
     ELSE rpc' = (IF rt >= ReapTimeout THEN "abandon" ELSE "nap") /\ UNCHANGED st
  /\ UNCHANGED <<timeVars, child, wedged, killed, cfds, pipeVars, stale>>

abandon_resolver_child ==
  /\ rpc = "abandon" /\ rpc' = "idle"
  /\ st' = Reaped
  /\ LET free == {i \in Table : Swept[i] = 0}
     IN  stale' = IF free = {} THEN Swept
                  ELSE [Swept EXCEPT ![CHOOSE i \in free : \A j \in free : i <= j] = child]
  /\ UNCHANGED <<timeVars, child, wedged, killed, cfds, pipeVars>>

(* Time passes while the daemon polls or sleeps.                           *)
Tick ==
  \/ /\ rpc = "polling" /\ t < until /\ t' = t + 1
     /\ UNCHANGED <<rpc, until, rt, child, childVars, pipeVars, stale>>
  \/ /\ rpc = "nap" /\ rt' = rt + 1 /\ rpc' = "reap"
     /\ UNCHANGED <<t, until, child, childVars, pipeVars, stale>>

Daemon == Poll \/ Read \/ StopReading \/ Kill \/ waitpid_timeout \/ abandon_resolver_child
Children ==
  \E c \in Forks : ChildCloses(c) \/ ChildSends(c) \/ ChildEnds(c) \/ Wedge(c) \/ Unwedge(c)

-----------------------------------------------------------------------------
Unreaped == {c \in Forks : st[c] \notin {"none", "reaped"}}
(* Between calls every child that has not been reaped is in the table, in  *)
(* one slot: none is left to become a zombie for good, however many        *)
(* resolves stall.                                                         *)
NoChildForgotten ==
  rpc = "idle" => \A c \in Unreaped : Cardinality({i \in Table : stale[i] = c}) = 1

(* A child that resolves, and may hang there, holds neither the device nor *)
(* any other descriptor of the daemon.                                     *)
ChildHoldsNothing == \A c \in Forks : st[c] = "resolving" => cfds[c] = Std \cup {"pipe"}
=============================================================================
