------------------------------ MODULE DenyPath ------------------------------
(***************************************************************************)
(* The probes that deny ptrace(2) and process_vm_readv/writev(2) on a      *)
(* protected process (src/anticheat_module.c): the decision, the rate      *)
(* limit of the denial events, the kill request that a worker serves       *)
(* later, and the rewriting of the caller's syscall frame.  One process,   *)
(* the game, is protected; every caller runs its handler on its own CPU.   *)
(*                                                                         *)
(* The frame is taken to be readable: an unreadable one is not a syscall   *)
(* frame and the wrapper behind the probe could not run either.            *)
(***************************************************************************)
EXTENDS Integers, FiniteSets

CONSTANTS
  Procs,             \* processes other than the game's main thread
  Game,              \* those of Procs that are threads of the game
  Ops,               \* syscalls made: "traceme", "ptrace" and "vm"
  Pids,              \* pid numbers, reused after an exit
  NoPid,
  AC_DENY_EV_BURST, AC_DENY_EV_WINDOW,
  PoolMin,           \* reserved elements of ac_kill_pool
  KillPolicy,        \* bit 0 of ac_policy
  MaxTime,           \* bound of the clock
  MaxCalls           \* bound: syscalls ever made

ASSUME DenyAssumption ==
  /\ Game \subseteq Procs /\ IsFiniteSet(Procs)
  /\ Ops \subseteq {"traceme", "ptrace", "vm"} /\ NoPid \notin Pids
  /\ {AC_DENY_EV_BURST, AC_DENY_EV_WINDOW, PoolMin, MaxTime, MaxCalls} \subseteq Nat
  /\ AC_DENY_EV_BURST > 1 /\ KillPolicy \in BOOLEAN

VARIABLES
  num,        \* pid number of a process, NoPid before it starts
  x,          \* the syscall a process is in
  prot,       \* is the game protected?
  jiffies,
  rl,         \* ac_deny_rl_ptrace and ac_deny_rl_vm
  kills,      \* queued struct ac_kill_req, counted by the process they hold
  reserve,    \* free elements of the pool's reserve
  ac_kill_dropped,
  calls,      \* syscalls made
  unlogged,   \* history: denials that no event has named yet
  killed,     \* history: processes hit by a SIGKILL
  attackers,  \* history: processes denied a call on the game, or any call
              \* that could not be neutralised
  touched     \* history: denied calls that took effect

vars == <<num, x, prot, jiffies, rl, kills, reserve, ac_kill_dropped, calls,
          unlogged, killed, attackers, touched>>
hist == <<unlogged, killed, attackers, touched>>

Limiters == {"ptrace", "vm"}
Idle == [pc |-> "user", op |-> "vm", kill |-> FALSE, seen |-> FALSE, ran |-> TRUE]
Empty == [start |-> 0, n |-> 0, suppressed |-> 0]

Init ==
  /\ num = [p \in Procs |-> NoPid]
  /\ x = [p \in Procs |-> Idle]
  /\ prot = TRUE /\ jiffies = 0
  /\ rl = [l \in Limiters |-> Empty]
  /\ kills = [p \in Procs |-> 0] /\ reserve = PoolMin /\ ac_kill_dropped = 0 /\ calls = 0
  /\ unlogged = [l \in Limiters |-> 0]
  /\ killed = {} /\ attackers = {} /\ touched = {}

Alive(p) == num[p] # NoPid /\ x[p].pc # "dead"
Step(p, from, r) == x[p].pc = from /\ Alive(p) /\ x' = [x EXCEPT ![p] = r]

(* A process starts under a free pid; each exits at most once.             *)
Start(p) ==
  /\ num[p] = NoPid
  /\ \E n \in Pids : /\ \A q \in Procs : Alive(q) => num[q] # n
                     /\ num' = [num EXCEPT ![p] = n]
  /\ UNCHANGED <<x, prot, jiffies, rl, kills, reserve, ac_kill_dropped, calls, hist>>
Exit(p) ==
  /\ Alive(p) /\ x[p].pc = "user"
  /\ x' = [x EXCEPT ![p].pc = "dead"]
  /\ UNCHANGED <<num, prot, jiffies, rl, kills, reserve, ac_kill_dropped, calls, hist>>

(* The head of ac_ptrace_pre(), for PTRACE_TRACEME and for a request on    *)
(* the game, and of ac_process_vm_pre().  A request on the caller's own    *)
(* thread group is left to the kernel.                                     *)
DeniesPtrace(p, op) ==
  prot /\ IF op = "traceme" THEN p \in Game ELSE p \notin Game
DeniesVm(p) == prot /\ p \notin Game
Denies(p, op) == IF op = "vm" THEN DeniesVm(p) ELSE DeniesPtrace(p, op)
Kills(op) == op # "traceme"
Limiter(op) == IF op = "vm" THEN "vm" ELSE "ptrace"

Enter(p, op) ==
  /\ calls < MaxCalls /\ calls' = calls + 1
  /\ Step(p, "user", [Idle EXCEPT !.op = op, !.seen = Denies(p, op),
       !.pc = IF Denies(p, op) THEN "log" ELSE "body"])
  /\ unlogged' = [unlogged EXCEPT ![Limiter(op)] = @ + IF Denies(p, op) THEN 1 ELSE 0]
  /\ attackers' = IF Denies(p, op) /\ op # "traceme" /\ p \notin Game
                  THEN attackers \cup {p} ELSE attackers
  /\ UNCHANGED <<num, prot, jiffies, rl, kills, reserve, ac_kill_dropped,
                 killed, touched>>

(* ac_deny_event_allowed(), and the summary and the event its callers      *)
(* emit.  The comparison of jiffies is strict.                             *)
RollsOver(r) == r.n = 0 \/ jiffies > r.start + AC_DENY_EV_WINDOW
Opened(r) == IF RollsOver(r) THEN [start |-> jiffies, n |-> 0, suppressed |-> 0] ELSE r
Allowed(r) == Opened(r).n < AC_DENY_EV_BURST
SummaryDropped(r) == 0
Summary(r) == IF RollsOver(r) THEN r.suppressed ELSE 0
Counted(r) ==
  IF Allowed(r) THEN [Opened(r) EXCEPT !.n = @ + 1]
                ELSE [Opened(r) EXCEPT !.suppressed = @ + 1]

ac_deny_event_allowed(p) ==
  LET l == Limiter(x[p].op) r == rl[l] IN
  /\ Step(p, "log", [x[p] EXCEPT !.pc = "kill"])
  /\ rl' = [rl EXCEPT ![l] = Counted(r)]
  /\ unlogged' = [unlogged EXCEPT ![l] =
       @ - IF Allowed(r) THEN 1 + Summary(r) ELSE 0]
  /\ UNCHANGED <<num, prot, jiffies, kills, reserve, ac_kill_dropped, calls,
                 killed, attackers, touched>>

(* ac_schedule_kill(): mempool_alloc() falls back to the reserve, and      *)
(* fails only when that is used up too.  The request holds the caller's    *)
(* struct pid, not its number.                                             *)
ac_schedule_kill(p) ==
  \/ /\ kills' = [kills EXCEPT ![p] = @ + 1]
     /\ \/ reserve' = reserve
        \/ reserve > 0 /\ reserve' = reserve - 1
     /\ UNCHANGED ac_kill_dropped
  \/ /\ reserve = 0 /\ ac_kill_dropped' = ac_kill_dropped + 1
     /\ UNCHANGED <<kills, reserve>>
NoKill == UNCHANGED <<kills, reserve, ac_kill_dropped>>

Punish(p) ==
  LET k == Kills(x[p].op) /\ KillPolicy IN
  /\ Step(p, "kill", [x[p] EXCEPT !.pc = "frame", !.kill = k])
  /\ IF k THEN ac_schedule_kill(p) ELSE NoKill
  /\ UNCHANGED <<num, prot, jiffies, rl, calls, unlogged, killed,
                 attackers, touched>>

(* The request or pid slot is overwritten; should that fail, the caller is *)
(* killed whatever the policy, and the wrapper is skipped.                 *)
OverwriteNoSkip(p) ==
  /\ \/ Step(p, "frame", [x[p] EXCEPT !.pc = "body", !.ran = FALSE]) /\ NoKill
     \/ /\ Step(p, "frame", [x[p] EXCEPT !.pc = "body"])
        /\ IF x[p].kill THEN NoKill ELSE ac_schedule_kill(p)
  /\ UNCHANGED <<num, prot, jiffies, rl, calls, unlogged, killed,
                 attackers, touched>>
Overwrite(p) ==
  /\ Step(p, "frame", [x[p] EXCEPT !.pc = "body", !.ran = FALSE])
  /\ \/ NoKill /\ UNCHANGED attackers
     \/ /\ IF x[p].kill THEN NoKill ELSE ac_schedule_kill(p)
        /\ attackers' = attackers \cup {p}
  /\ UNCHANGED <<num, prot, jiffies, rl, calls, unlogged, killed,
                 touched>>

NeutralisePtrace(p) == x[p].op # "vm" /\ Overwrite(p)
NeutraliseVm(p) == x[p].op = "vm" /\ Overwrite(p)

(* The syscall body; a pending SIGKILL is taken on the way back.           *)
Body(p) ==
  /\ Step(p, "body", IF p \in killed THEN [Idle EXCEPT !.pc = "dead"] ELSE Idle)
  /\ touched' = IF x[p].seen /\ x[p].ran THEN touched \cup {p} ELSE touched
  /\ UNCHANGED <<num, prot, jiffies, rl, kills, reserve, ac_kill_dropped, calls,
                 unlogged, killed, attackers>>

(* ac_kill_worker(): SIGKILL to the task of the struct pid, if it lives.   *)
TaskOfNumber(p) == {q \in Procs : num[q] = num[p] /\ Alive(q)}
TaskOf(p) == {q \in Procs : q = p /\ Alive(q)}
MempoolFreeForgotten(r) == r
MempoolFree(r) == IF r < PoolMin THEN r + 1 ELSE r
ac_kill_worker(p) ==
  /\ kills[p] > 0
  /\ kills' = [kills EXCEPT ![p] = @ - 1]
  /\ killed' = killed \cup TaskOf(p)
  /\ x' = [q \in Procs |-> IF q \in TaskOf(p) /\ x[q].pc = "user"
                           THEN [x[q] EXCEPT !.pc = "dead"] ELSE x[q]]
  /\ reserve' = MempoolFree(reserve)
  /\ UNCHANGED <<num, prot, jiffies, rl, ac_kill_dropped, calls, unlogged,
                 attackers, touched>>

Tick ==
  /\ jiffies < MaxTime /\ jiffies' = jiffies + 1
  /\ UNCHANGED <<num, x, prot, rl, kills, reserve, ac_kill_dropped, calls, hist>>
Unprotect ==
  /\ prot /\ prot' = FALSE
  /\ UNCHANGED <<num, x, jiffies, rl, kills, reserve, ac_kill_dropped, calls, hist>>

CallerStep(p) ==
  \/ Start(p) \/ Exit(p) \/ \E op \in Ops : Enter(p, op)
  \/ ac_deny_event_allowed(p) \/ Punish(p) \/ NeutralisePtrace(p)
  \/ NeutraliseVm(p) \/ Body(p)
Next ==
  Tick \/ Unprotect \/ \E p \in Procs : ac_kill_worker(p) \/ CallerStep(p)

Spec == Init /\ [][Next]_vars

-----------------------------------------------------------------------------
(* Denials whose handler has yet to ask the limiter.                       *)
InHandler(l) ==
  Cardinality({p \in Procs : x[p].pc = "log" /\ Limiter(x[p].op) = l})

(* Every denial is accounted for: it was logged by an event of its own or  *)
(* named in a summary, or else it is counted as suppressed.                *)
DenialsAccounted ==
  \A l \in Limiters : unlogged[l] = rl[l].suppressed + InHandler(l)

(* A denied call never takes effect, also when the frame cannot be         *)
(* rewritten and the kill is dropped or comes too late.                    *)
DeniedNeverRuns == touched = {}

(* A SIGKILL hits only processes that were denied a call on the game: not  *)
(* a thread of the game reaching its own memory, and not a process that    *)
(* took over the pid of a caller that has exited.                          *)
OnlyAttackersKilled == killed \subseteq attackers

(* The kill requests on their way.                                         *)
Queued == UNION {{p} \X (1 .. kills[p]) : p \in Procs}

(* A kill is dropped, and counted in the ac_kill_dropped that              *)
(* AC_IOCTL_STATUS reports, only while as many kills as the pool reserves  *)
(* are on their way: the reserve does not wear out.                        *)
DropsOnlyWhenFull ==
  [][ac_kill_dropped' # ac_kill_dropped => Cardinality(Queued) >= PoolMin]_vars
=============================================================================
