------------------------------ MODULE ForkExec ------------------------------
(***************************************************************************)
(* How protection follows fork() and execve() (src/anticheat_module.c).    *)
(* The probe handlers run in the tasks' own context and cannot register an *)
(* address space themselves: they queue requests that ac_prot_add_worker() *)
(* serves later.  A request of a fork stays on ac_pending_forks until its  *)
(* own registration is resolved, so that an exec that overtakes it can     *)
(* claim it and post the mm it ended up with.                              *)
(*                                                                         *)
(* The registry is the set of published mms; Registry models how an entry  *)
(* gets there.  An mm whose last mm_users reference is dropped is torn     *)
(* down and leaves the registry in the same step.  A task is a process:    *)
(* its pid here is its tgid.  jit_allowed and comm are left out.           *)
(***************************************************************************)
EXTENDS Integers, FiniteSets

CONSTANTS
  Tasks, Root,    \* processes; Root is the one protected by an ioctl
  MMs, NoMM,      \* mm_struct addresses; the NULL pointer
  Reqs, NoReq,    \* addresses a struct ac_prot_add_req can have; NULL
  MaxReqs,        \* bound: fork requests ever queued (ac_prot_req_seq)
  MaxExecs,       \* bound: execs ever begun
  Dels, Unloads   \* may a task be unprotected, the module be removed?

ASSUME NamesAssumption ==
  /\ Root \in Tasks /\ NoMM \notin MMs /\ MMs # {} /\ NoReq \notin Reqs
  /\ IsFiniteSet(Tasks) /\ IsFiniteSet(Reqs)
ASSUME BoundsAssumption ==
  MaxReqs \in Nat /\ MaxExecs \in Nat /\ Dels \in BOOLEAN /\ Unloads \in BOOLEAN

VARIABLES
  tmm,      \* current->mm of a task, NoMM when it does not exist
  x,        \* the probe instance of a task inside clone or exec
  pins,     \* ac_exec_pins[]: the pin recorded for a task's exec
  users,    \* mm_users
  prot,     \* mms for which ac_is_protected_mm() holds
  req,      \* the requests, by address
  ac_prot_req_seq,
  execs,    \* number of execs begun
  phase,    \* "loaded", "unprobed" (ac_unregister_kprobes done), "gone"
  due,      \* history: tasks that protection should follow
  told,     \* history: tasks reported to the daemon as NOT protected
  unseen    \* history: tasks with an exec whose entry handler found nothing

vars == <<tmm, x, pins, users, prot, req, ac_prot_req_seq, execs, phase, due,
          told, unseen>>
hist == <<due, told, unseen>>

(* struct ac_exec_entry_data of the instance; child is the pid a clone     *)
(* returns.                                                                *)
User == [pc |-> "user", child |-> Root, old |-> NoMM, race |-> FALSE,
         preq |-> NoReq, pid |-> 0]
Free == [pc |-> "free", mm |-> NoMM, old |-> NoMM, pid |-> Root, owner |-> Root,
         post |-> NoMM, ppid |-> Root, claimed |-> FALSE, done |-> FALSE,
         linked |-> FALSE, id |-> 0, ok |-> FALSE]

Init ==
  /\ \E m \in MMs :
       /\ tmm = [t \in Tasks |-> IF t = Root THEN m ELSE NoMM]
       /\ users = [n \in MMs |-> IF n = m THEN 1 ELSE 0]
       /\ prot = {m}
  /\ x = [t \in Tasks |-> IF t = Root THEN User ELSE [User EXCEPT !.pc = "unborn"]]
  /\ pins = [t \in Tasks |-> NoMM]
  /\ req = [r \in Reqs |-> Free] /\ ac_prot_req_seq = 0 /\ execs = 0
  /\ phase = "loaded" /\ due = {Root} /\ told = {} /\ unseen = {}

(* mmget() and mmput(); the last mmput() runs exit_mmap().                 *)
Ref(u, m, k) == IF m = NoMM THEN u ELSE [u EXCEPT ![m] = @ + k]
Settle(u, p) == users' = u /\ prot' = {m \in p : u[m] > 0}

At(t, l) == x[t].pc = l /\ phase = "loaded"
Runs(t)  == tmm[t] # NoMM /\ x[t].pc = "user"

-----------------------------------------------------------------------------
(* ac_schedule_prot_add_req(): takes over the references to m and o.  The  *)
(* caller reports a failed allocation.                                     *)
NewReq(m, o, t) ==
  [Free EXCEPT !.pc = "queued", !.mm = m, !.old = o, !.pid = t, !.owner = t,
               !.linked = (o = NoMM),
               !.id = IF o = NoMM THEN ac_prot_req_seq + 1 ELSE 0]
Schedule(u, m, o, t) ==
  \/ \E r \in Reqs :
       /\ req[r].pc = "free"
       /\ o = NoMM => ac_prot_req_seq < MaxReqs
       /\ req' = [req EXCEPT ![r] = NewReq(m, o, t)]
       /\ ac_prot_req_seq' = ac_prot_req_seq + IF o = NoMM THEN 1 ELSE 0
       /\ Settle(u, prot) /\ told' = told
  \/ /\ told' = told \cup {t}
     /\ Settle(Ref(Ref(u, m, -1), o, -1), prot)
     /\ UNCHANGED <<req, ac_prot_req_seq>>

(* kernel_clone(): the child runs before the parent's probe does.          *)
Fork(t, c) ==
  /\ Runs(t) /\ phase = "loaded"
  /\ x[c].pc = "unborn"
  /\ \E m \in {n \in MMs : users[n] = 0} \cup {tmm[t]} :
       /\ tmm' = [tmm EXCEPT ![c] = m]
       /\ users' = Ref(users, m, 1)
  /\ x' = [x EXCEPT ![t].pc = "clone", ![t].child = c, ![c] = User]
  /\ UNCHANGED <<pins, prot, req, ac_prot_req_seq, execs, phase, hist>>

(* ac_clone_ret().                                                         *)
ac_clone_ret(t) ==
  /\ At(t, "clone")
  /\ x' = [x EXCEPT ![t] = User]
  /\ LET c == x[t].child IN
       IF tmm[t] \in prot /\ tmm[c] # NoMM
       THEN /\ due' = due \cup {c}
            /\ IF tmm[c] = tmm[t]
               THEN UNCHANGED <<users, prot, req, ac_prot_req_seq, told>>
               ELSE Schedule(Ref(users, tmm[c], 1), tmm[c], NoMM, c)
       ELSE UNCHANGED <<due, users, prot, req, ac_prot_req_seq, told>>
  /\ UNCHANGED <<tmm, pins, execs, phase, unseen>>

-----------------------------------------------------------------------------
(* ac_exec_entry(): the registry is looked up first, under its own lock... *)
Claimable(r, t) ==
  /\ req[r].linked
  /\ \/ req[r].mm = tmm[t] /\ req[r].pid = t
     \/ req[r].claimed /\ req[r].post = tmm[t] /\ req[r].ppid = t
EntryPinUntracked(t) ==
  /\ Runs(t) /\ phase = "loaded" /\ execs < MaxExecs
  /\ execs' = execs + 1
  /\ IF tmm[t] \in prot
     THEN /\ x' = [x EXCEPT ![t].pc = "body", ![t].old = tmm[t]]
          /\ users' = Ref(users, tmm[t], 1)
     ELSE x' = [x EXCEPT ![t].pc = "scan"] /\ UNCHANGED users
  /\ UNCHANGED <<tmm, pins, prot, req, ac_prot_req_seq, phase, hist>>
EntryPin(t) ==
  /\ Runs(t) /\ phase = "loaded" /\ execs < MaxExecs
  /\ execs' = execs + 1
  /\ IF tmm[t] \in prot
     THEN /\ x' = [x EXCEPT ![t].pc = "body", ![t].old = tmm[t]]
          /\ pins' = [pins EXCEPT ![t] = tmm[t]]
          /\ users' = Ref(users, tmm[t], 1)
     ELSE x' = [x EXCEPT ![t].pc = "scan"] /\ UNCHANGED <<pins, users>>
  /\ UNCHANGED <<tmm, prot, req, ac_prot_req_seq, phase, hist>>

(* ... and the pending forks after it, under another lock.                 *)
EntryClaim(t) ==
  /\ At(t, "scan")
  /\ \/ \E r \in Reqs :
          /\ Claimable(r, t)
          /\ req' = [req EXCEPT ![r].claimed = TRUE]
          /\ x' = [x EXCEPT ![t].pc = "body", ![t].race = TRUE, ![t].preq = r,
                            ![t].pid = req[r].id]
     \/ /\ \A r \in Reqs : ~Claimable(r, t)
        /\ x' = [x EXCEPT ![t].pc = "body"] /\ UNCHANGED req
  /\ UNCHANGED <<tmm, pins, users, prot, ac_prot_req_seq, execs, phase, hist>>

(* The body of execve(): a new mm, or a failure, or the end of the task,   *)
(* of which the return probe may or may not be told.                       *)
ExecBody(t) ==
  /\ At(t, "body")
  /\ \/ /\ \E n \in MMs :
             /\ users[n] = 0
             /\ tmm' = [tmm EXCEPT ![t] = n]
             /\ Settle(Ref(Ref(users, n, 1), tmm[t], -1), prot)
        /\ x' = [x EXCEPT ![t].pc = "ret"]
        /\ unseen' = IF x[t].race \/ x[t].old # NoMM THEN unseen
                     ELSE unseen \cup {t}
     \/ /\ x' = [x EXCEPT ![t].pc = "ret"]
        /\ UNCHANGED <<tmm, users, prot, unseen>>
     \/ /\ tmm' = [tmm EXCEPT ![t] = NoMM]
        /\ Settle(Ref(users, tmm[t], -1), prot)
        /\ \/ x' = [x EXCEPT ![t].pc = "ret"]
           \/ x' = [x EXCEPT ![t] = User]
        /\ UNCHANGED unseen
  /\ UNCHANGED <<pins, req, ac_prot_req_seq, execs, phase, due, told>>

(* ac_exec_ret() for a claimed request.  Pointer and id name the request:  *)
(* the struct may have been freed and queued again.                        *)
HandoffTargetNoId(t) == {r \in Reqs : r = x[t].preq /\ req[r].linked}
HandoffTarget(t) ==
  {r \in Reqs : r = x[t].preq /\ req[r].linked /\ req[r].id = x[t].pid}
PostLeaksSuperseded(t) ==
  /\ At(t, "ret") /\ x[t].race
  /\ x' = [x EXCEPT ![t] = User]
  /\ \E r \in HandoffTarget(t) :
       /\ req' = [req EXCEPT ![r].post = tmm[t], ![r].ppid = t, ![r].done = TRUE]
       /\ users' = Ref(users, tmm[t], 1)
  /\ UNCHANGED <<tmm, pins, prot, ac_prot_req_seq, execs, phase, hist>>
Post(t) ==
  /\ At(t, "ret") /\ x[t].race
  /\ x' = [x EXCEPT ![t] = User]
  /\ \E r \in HandoffTarget(t) :
       IF tmm[t] # NoMM
       THEN /\ req' = [req EXCEPT ![r].post = tmm[t], ![r].ppid = t,
                                  ![r].done = TRUE]
            /\ Settle(Ref(Ref(users, tmm[t], 1), req[r].post, -1), prot)
       ELSE req' = [req EXCEPT ![r].done = TRUE] /\ UNCHANGED <<users, prot>>
  /\ UNCHANGED <<tmm, pins, ac_prot_req_seq, execs, phase, hist>>

(* The worker has resolved the request already: queue a fresh one.         *)
RequeueDropped(t) ==
  /\ At(t, "ret") /\ x[t].race /\ HandoffTarget(t) = {}
  /\ x' = [x EXCEPT ![t] = User]
  /\ UNCHANGED <<tmm, pins, users, prot, req, ac_prot_req_seq, execs, phase, hist>>
Requeue(t) ==
  /\ At(t, "ret") /\ x[t].race /\ HandoffTarget(t) = {}
  /\ x' = [x EXCEPT ![t] = User]
  /\ IF tmm[t] # NoMM THEN Schedule(Ref(users, tmm[t], 1), tmm[t], NoMM, t)
     ELSE UNCHANGED <<users, prot, req, ac_prot_req_seq, told>>
  /\ UNCHANGED <<tmm, pins, execs, phase, due, unseen>>

(* ac_exec_ret() for a pinned old mm: the pin goes to the rekey request.   *)
Rekey(t) ==
  /\ At(t, "ret") /\ ~x[t].race
  /\ x' = [x EXCEPT ![t] = User] /\ pins' = [pins EXCEPT ![t] = NoMM]
  /\ LET o == x[t].old IN
       IF o = NoMM \/ tmm[t] \in {o, NoMM}
       THEN Settle(Ref(users, o, -1), prot) /\ UNCHANGED <<req, ac_prot_req_seq, told>>
       ELSE Schedule(Ref(users, tmm[t], 1), tmm[t], o, t)
  /\ UNCHANGED <<tmm, execs, phase, due, unseen>>

-----------------------------------------------------------------------------
(* ac_prot_add_worker().                                                   *)
Worker(r, l, next) == req[r].pc = l /\ req' = [req EXCEPT ![r] = next]
rest == <<tmm, x, pins, ac_prot_req_seq, execs, phase, due, unseen>>

Start(r) ==
  /\ Worker(r, "queued", [req[r] EXCEPT !.pc =
       IF req[r].linked /\ req[r].claimed THEN "wait" ELSE "add"])
  /\ UNCHANGED <<users, prot, told, rest>>

(* The end of wait_for_completion_timeout(), by either cause.  An adopted  *)
(* handoff replaces the stale mm; without one the stale mm is registered   *)
(* and the loss reported.                                                  *)
TakeHandoff(r) ==
  LET p == req[r].post IN
  /\ Worker(r, "wait", [req[r] EXCEPT !.linked = FALSE, !.post = NoMM,
       !.mm = IF p = NoMM THEN @ ELSE p,
       !.pid = IF p = NoMM THEN @ ELSE req[r].ppid,
       !.pc = IF p = NoMM THEN "stale" ELSE "adopt"])
  /\ Settle(Ref(users, IF p = NoMM THEN NoMM ELSE req[r].mm, -1), prot)
  /\ UNCHANGED <<told, rest>>

(* ac_add_prot_mm() returns; it may fail.                                  *)
AddHandoff(r) ==
  /\ \/ /\ Worker(r, "adopt", Free)
        /\ \/ Settle(Ref(users, req[r].mm, -1), prot \cup {req[r].mm}) /\ told' = told
           \/ Settle(Ref(users, req[r].mm, -1), prot) /\ told' = told \cup {req[r].pid}
     \/ /\ Worker(r, "stale", Free)
        /\ \E p \in {prot, prot \cup {req[r].mm}} : Settle(Ref(users, req[r].mm, -1), p)
        /\ told' = told \cup {req[r].pid}
  /\ UNCHANGED rest

AddOwn(r) ==
  /\ \E good \in BOOLEAN :
       /\ Worker(r, "add", [req[r] EXCEPT !.ok = good,
            !.pc = IF req[r].old = NoMM THEN "unlink" ELSE "decide"])
       /\ prot' = IF good THEN prot \cup {req[r].mm} ELSE prot
  /\ UNCHANGED <<users, told, rest>>

(* Unlink and consume a handoff posted while ac_add_prot_mm() slept.       *)
Unlink(r) ==
  /\ Worker(r, "unlink", [req[r] EXCEPT !.linked = FALSE,
       !.post = IF @ = req[r].mm THEN NoMM ELSE @,
       !.pc = IF req[r].post \in {NoMM, req[r].mm} THEN "finish" ELSE "carry"])
  /\ Settle(Ref(users, IF req[r].post = req[r].mm THEN req[r].mm ELSE NoMM, -1), prot)
  /\ UNCHANGED <<told, rest>>

AddCarried(r) ==
  /\ Worker(r, "carry", [req[r] EXCEPT !.post = NoMM, !.pc = "finish"])
  /\ LET p == req[r].post IN
       \/ Settle(Ref(users, p, -1), prot \cup {p}) /\ told' = told
       \/ Settle(Ref(users, p, -1), prot) /\ told' = told \cup {req[r].ppid}
  /\ UNCHANGED rest

(* Rekey: is old_mm still in use?  Then drop its entry, or keep it.        *)
StillSharedNever(r) == FALSE
StillShared(r) == users[req[r].old] > 1
Decide(r) ==
  /\ Worker(r, "decide", [req[r] EXCEPT
       !.pc = IF req[r].ok /\ ~StillShared(r) THEN "drop" ELSE "finish"])
  /\ UNCHANGED <<users, prot, told, rest>>
DropOld(r) ==
  /\ Worker(r, "drop", [req[r] EXCEPT !.pc = "finish"])
  /\ prot' = prot \ {req[r].old}
  /\ UNCHANGED <<users, told, rest>>

Finish(r) ==
  /\ Worker(r, "finish", Free)
  /\ told' = IF req[r].ok THEN told ELSE told \cup {req[r].pid}
  /\ Settle(Ref(Ref(users, req[r].old, -1), req[r].mm, -1), prot)
  /\ UNCHANGED rest

-----------------------------------------------------------------------------
(* A task exits (its history is forgotten); AC_IOCTL_DEL_PROC for a task.  *)
Exit(t) ==
  /\ Runs(t)
  /\ tmm' = [tmm EXCEPT ![t] = NoMM]
  /\ Settle(Ref(users, tmm[t], -1), prot)
  /\ due' = due \ {t} /\ told' = told \ {t} /\ unseen' = unseen \ {t}
  /\ UNCHANGED <<x, pins, req, ac_prot_req_seq, execs, phase>>
Unprotect(t) ==
  /\ Dels /\ phase = "loaded" /\ tmm[t] \in prot
  /\ prot' = prot \ {tmm[t]}
  /\ due' = {c \in due : tmm[c] # tmm[t]}
  /\ UNCHANGED <<tmm, x, pins, users, req, ac_prot_req_seq, execs, phase, told, unseen>>

(* ac_exit(): ac_unregister_kprobes() waits for a running handler, drops   *)
(* the handlers that have not run and then the pins they would have        *)
(* dropped; flush_workqueue() waits for the requests.                      *)
PinsOn(m) == Cardinality({t \in Tasks : pins[t] = m})
ac_exec_pins_drop_all(u) == [m \in MMs |-> u[m] - PinsOn(m)]
Unprobe ==
  /\ Unloads /\ phase = "loaded" /\ \A t \in Tasks : x[t].pc # "scan"
  /\ phase' = "unprobed"
  /\ x' = [t \in Tasks |-> IF x[t].pc = "unborn" THEN x[t] ELSE User]
  /\ pins' = [t \in Tasks |-> NoMM]
  /\ Settle(ac_exec_pins_drop_all(users), prot)
  /\ UNCHANGED <<tmm, req, ac_prot_req_seq, execs, hist>>
Flushed ==
  /\ phase = "unprobed" /\ \A r \in Reqs : req[r].pc = "free"
  /\ phase' = "gone"
  /\ UNCHANGED <<tmm, x, pins, users, prot, req, ac_prot_req_seq, execs, hist>>

WorkerStep(r) ==
  \/ Start(r) \/ TakeHandoff(r) \/ AddHandoff(r) \/ AddOwn(r) \/ Unlink(r)
  \/ AddCarried(r) \/ Decide(r) \/ DropOld(r) \/ Finish(r)
TaskStep(t) ==
  \/ \E c \in Tasks : Fork(t, c)
  \/ ac_clone_ret(t) \/ EntryPin(t) \/ EntryClaim(t) \/ ExecBody(t) \/ Post(t)
  \/ Requeue(t) \/ Rekey(t) \/ Exit(t) \/ Unprotect(t)

Next ==
  \/ \E r \in Reqs : WorkerStep(r)
  \/ \E t \in Tasks : TaskStep(t)
  \/ Unprobe \/ Flushed

Spec == Init /\ [][Next]_vars

-----------------------------------------------------------------------------
(* What request r will still register.                                     *)
WillRegister(r, m) ==
  \/ req[r].pc \in {"queued", "wait", "add"}
     /\ m = IF req[r].claimed /\ req[r].post # NoMM /\ req[r].pc # "add"
            THEN req[r].post ELSE req[r].mm
  \/ req[r].pc \in {"add", "unlink", "carry"} /\ req[r].post = m
  \/ req[r].pc \in {"adopt", "stale"} /\ req[r].mm = m
WillTell(r, t) ==
  req[r].pc \in {"unlink", "carry", "decide", "finish"} /\ ~req[r].ok
  /\ t = req[r].pid

(* Protection is inherited: a process forked by a protected one runs in a  *)
(* registered address space, or a queued request will register it, or the  *)
(* daemon has been or is about to be told that it is not protected.  This  *)
(* covers execs before, during and after the registration, chained execs,  *)
(* timeouts, full tables and failed allocations.  Exempt are tasks with an *)
(* exec whose entry handler found neither entry nor request.               *)
ProtectionFollows ==
  phase = "loaded" =>
  \A t \in due \ (told \cup unseen) :
    Runs(t) => \/ tmm[t] \in prot
               \/ \E r \in Reqs : WillRegister(r, tmm[t]) \/ WillTell(r, t)

(* The references to m that the tasks and the module can account for.      *)
RefsOn(m) ==
  Cardinality({t \in Tasks : tmm[t] = m}) + PinsOn(m)
  + Cardinality({r \in Reqs : req[r].mm = m})
  + Cardinality({r \in Reqs : req[r].old = m})
  + Cardinality({r \in Reqs : req[r].post = m})

(* mm_users is exactly the tasks running in the mm and the references the  *)
(* module's requests and exec pins account for: on no path of the handlers *)
(* and the worker is a reference leaked or dropped twice.                  *)
ReferencesBalance == \A m \in MMs : users[m] = RefsOn(m)

(* Unloading while processes are inside execve() leaves no reference: once *)
(* the workqueue is flushed only running tasks hold an address space.      *)
UnloadLeavesNothing ==
  phase = "gone" =>
  \A m \in MMs : users[m] = Cardinality({t \in Tasks : tmm[t] = m})

(* An exec hands its image only to the request of its own process, also    *)
(* when the struct it claimed was freed and queued again for another one.  *)
HandoffToOwner == \A r \in Reqs : req[r].post # NoMM => req[r].ppid = req[r].owner

(* The entry of an address space is dropped by a rekey only when no task   *)
(* runs in it any more: a vfork() or clone(CLONE_VM) sharer keeps it.      *)
SharersKeepEntry ==
  [][\A r \in Reqs :
       req[r].pc = "drop" /\ req'[r].pc = "finish" =>
       \A t \in Tasks : tmm[t] # req[r].old]_vars

=============================================================================
