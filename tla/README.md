# A TLA+ verification of the anticheat kernel module, daemon and server

The repository holds a kernel module (`src/anticheat_module.c`), a daemon that
drives it through ioctls and reports what it sees (`src/anticheat_daemon.c`),
and a report server (`server/ac_server.py`).  This directory models the parts
whose correctness depends on the order in which threads, callbacks and calls
happen.  `PROJECT.json` maps every definition to the lines it models.

## The system and its parts

| Part | State | Operations | What makes it hard | Model |
|---|---|---|---|---|
| Registry of protected address spaces | `ac_prots[]`, `ac_prot_count` under `ac_prot_lock` | add, delete, release callback, release worker, clear on unload | the lock is dropped around the notifier calls; exits call back at any time; mm addresses are reused | `Registry` |
| Event ring | `ac_ring[]`, head, tail, count, `ac_dropped`, `ac_ring_removed` under `ac_ring_lock`; `ac_get_events_lock` | emit, peek, copy, commit, flush | eviction and flush between peek and commit; faults of the copy; several readers | `EventRing`, `EventLog` |
| Unloading | registry, exec pins, requests | `ac_exit` | exits and requests in flight while it drains | in `Registry` and `ForkExec` |
| Fork and exec tracking | `ac_pending_forks`, exec pins, add and rekey requests | probe handlers, `ac_prot_add_worker` | requests applied after the task exited or executed again | `ForkExec` |
| Denials and kills | limiter windows, pool of kill requests | ptrace and process_vm probes, kill worker | atomic context, pool at its limit, reused pids | `DenyPath` |
| Syscall table check | baseline, bitmaps, daemon's levels | `ac_check_syscalls`, `check_syscalls_periodic` | edge-triggered events over a lossy ring | `SyscallCheck` |
| Descriptor state | mapping and module snapshots | `SCAN_*`, `MODS_*`, release | pagination across calls, files shared by threads | `FdState` |
| Module lock | `ac_lock_count`, module references | `LOCK`, `UNLOCK`, open, close, `rmmod` | concurrent calls at the limit | `ModuleLock` |
| Daemon checks | per-pid tables | the four periodic process checks | pids that come, go and are reused; full tables | `WatchTables` |
| Baselines | records of a process | save and check | mappings that are split, patched or rebuilt | `BaselineCheck` |
| Report delivery | resolver children, socket | `ac_resolve_timeout`, `ac_report` | children that cannot be killed, short writes, a server that dies | `Report` and `Resolver`, composed in `Delivery` |
| Report server | connection slots | one thread per connection | slots on error paths, clients that never finish, shutdown | `ReportServer` |

The parts interact as follows.  The probe handlers and the ioctls add to and
delete from the registry; the registry and the handlers emit events; the daemon
reads the events, tracks levels that the events only signal by their edges, and
posts reports; the server stores them.

A module `X` that has runs is instantiated for TLC by `MCX`.  `ModuleLock` and
`ReportServer` have no run: what they promise is proved for every instance.
Every safety property that a run checks on a small instance is also proved for
every value of the constants: see Proofs.

## The runs

| Run | Instance | What it shows |
|---|---|---|
| `registry` | 3 threads, 2 slots, 2 addresses, failing registrations, unloading | one entry per process and one owner per slot, no stale entry, no lost delete, exit events only for exits; unloading empties the table; an acknowledged add is lost only to another thread's failed registration |
| `registry_live` | 2 threads, fair | pinned slots come back, an exit is never held up |
| `registry_drained` | violation | see below |
| `registry_acked_error` | violation | see below |
| `event_ring` | 2 readers, ring of 3, 6 events, fair | nothing lost silently, gaps reported; `EventLog` is implemented; events leave the ring |
| `fork_exec` | 3 tasks, 3 address spaces, 2 execs, 1 recycled request, unloading | protection follows a process or the daemon is told; no reference leaks; unloading leaves nothing behind |
| `deny_path` | an outsider and a thread of the game, 2 pid numbers, pool of 1 | no denied call runs, only denied callers are killed, every denial is accounted for |
| `syscall_check` | 2 table slots, the daemon and a command, ring of 1, fair | verdicts are exact, an edge gives one event, lasting tampering is noticed |
| `fd_state` | 3 threads, 2 files, one shared, 2 processes and the module list | no state or reference is leaked, the `GET` calls stay within the arrays, no one sees pages of another file's scan |
| `baseline_check` | 4 pages, 2 files, 4 changes, 2 saves | verdicts do not depend on mapping boundaries, silence means every baselined page is vouched for, also when the snapshot is cut |
| `watch_tables` | 3 pids, tables of 2, one reused pid | no process goes untracked, growth and variables are logged |
| `delivery` | 4 reports, 4 resolver children, room for 2 stale ones, fair | silence means stored, nothing is stored twice or left open, every report returns in bounded time |

## Registry

`Registry` has one step for each critical section of `ac_prot_lock`, and one for
each call made with the lock dropped.  `mm`, `claiming`, `removing` and `cancel`
are the fields of `struct ac_prot_entry` (the flags as sets of slots).  `hashed`,
`grab`, `life`, `walked` and `pend` are the kernel's half of the
`mmu_notifier`: which notifiers are listed, the `mm_count` reference each holds,
and the progress of `exit_mmap()`.

| Action | Code |
|---|---|
| `Pin` | `get_task_mm()` in the ioctl, or the pin of a deferred request |
| `AddDedupe`, `AddFull`, `AddClaim` | first critical section of `ac_add_prot_mm` |
| `Register`, `RegisterFail` | `mmu_notifier_register()` |
| `AddFailed`, `AddCancelled`, `AddPublish` | its second critical section |
| `DelFound`, `DelCancel` | critical section of `ac_del_prot_mm` |
| `Unregister`, `SyncDrop`, `ClearRemoving` | `mmu_notifier_unregister()` and the tail shared by the delete, the cancelled add, the release worker and `ac_clear_protected` |
| `ExitRelease`, `QueueRelease` | `ac_mmu_release` called by `exit_mmap()`: under the lock, and after it |
| `TaskExit`, `ExitBegin`, `ExitDone`, `Reborn` | the kernel: end of a task, walk of the notifiers, reuse of the address |
| `UnloadBegin`, `FlushDone`, `ClearStep`, `ClearDone` | `ac_exit` |

A caller that is not idle holds an `mm_users` reference, so `ExitBegin` waits for
it.  A release worker is the actor named by its slot, because the work item is
embedded in the slot.  `Unregister` takes the callback and the removal from the
list in one step: a concurrent walk that came between them would find
`mm[s] # m` and do nothing.  `SyncDrop` waits only for the walk of its own mm,
where `synchronize_srcu()` waits for all: the model allows more.

`exitEv`, `delSince` and `acked` are history variables.

### What is checked

* `OneLivePerMm`, `SlotExclusive`, `NoStaleEntry`, `NoLostDelete`: the table, the
  notifiers and the threads agree in every reachable state.
* `ExitOnlyOrganic`: an exit event is never caused by an unregister.
* `SlotsComeBack`, `ExitCompletes` (fair): a pinned slot is freed, and an exiting
  process is not held up.
* `UnloadEmpties`: after `ac_clear_protected` the table is empty.
* `AckedUntilError`: an mm whose add returned 0 stays covered by an entry or a
  claim until it is deleted, exits, or the module is removed, with one exception:
  the step in which the registration of the claim it relied on fails.

`TypeOK`, `CountExact`, `UnregisterPinned`, `ReferencesOwned`, `ExitOnce` and
`FreedSlotsClean` are proved for every instance (see Proofs) and are not repeated
in a run.

### Disagreements with the comments

Each is a run that TLC ends with a counterexample; `PROJECT.json` quotes the line.

* `registry_drained`: the comment above the second `flush_workqueue()` of
  `ac_exit` says that flush catches the release work of a process exiting at that
  moment.  It catches work that is queued.  A callback that has set `.removing`
  and dropped the lock, and has not yet called `queue_work()`, is skipped by
  `ac_clear_protected` and missed by both flushes.
* `registry_acked_error`: an add that finds another thread's claim for its mm
  returns 0, since "its registration will cover it once it lands".  If that
  registration fails, nothing covers it.  `AckedUntilError` shows that nothing
  else takes the cover away.

## Event ring

`EventRing` keeps the ring's variables under their names.  Events are numbered by
emission.  A reader goes idle, wait, copy, commit; `ac_get_events_lock` is held
from the peek to the end of the call; emits and flushes happen at any point.
`ac_dropped` (32 bits) and `ac_ring_removed` (64 bits) do not wrap within the bound.

`EventLog` states what the ring promises: a bounded first-in first-out queue
that loses only its oldest event and only when full, from which a reader
delivers a whole batch or none of it.  `ImplementsEventLog` maps the queue's
front to the first event that is neither removed nor delivered: an event
leaves the queue when it is copied out, and the commit is a stuttering step.

Checked by TLC: `NoSilentLoss`, `GapsReported`, the refinement, and `EventsLeave`
under fairness.  All but the last are proved too, and so are `RingContents`,
`DropsCounted` and `InOrderOnce`.

## The other parts of the kernel module

* **`ForkExec`**: `Fork`/`ac_clone_ret` queue a request, `EntryPin`, `EntryClaim`,
  `ExecBody`, `Post`, `Requeue` and `Rekey` are the exec handlers, the steps from
  `Start` to `Finish` the worker; `Unprobe` and `Flushed` the unload.  The registry
  is its set of published address spaces.  `ProtectionFollows`: a descendant of a
  protected process is protected, will be, or was reported.  Exempt are execs whose
  entry handler found neither entry nor request: it reads the registry and the list
  of pending forks under two locks, and the worker can move a process from one to
  the other in between.  `ReferencesBalance`, `HandoffToOwner`, `SharersKeepEntry`,
  `UnloadLeavesNothing` say that pins and handoffs end where they belong.
* **`DenyPath`**: `Enter` decides, `ac_deny_event_allowed`, `Punish`, `Overwrite`
  and `Body` follow on the caller's CPU, `ac_kill_worker` later.  No denied call
  runs, only denied callers are killed even when pids are reused, and every denial
  is logged, summarised or counted.  A kill is dropped only while `PoolMin` others are
  queued (`DropsOnlyWhenFull`).
* **`SyscallCheck`**: one step per table slot, under `ac_syscall_check_lock`, and
  the daemon's level check.  `TamperNoticed` assumes that the table is written to
  a bounded number of times (`MaxTampers`): an entry that stays bad is logged
  though the ring overflows.
* **`FdState`**: the snapshots behind an open file: `SCAN_BEGIN`, `SCAN_GET`, `SCAN_END`,
  their `MODS_*` counterparts and the release.  Two threads on one file meet when
  its state is first allocated and at the lock of the state, which is held while a
  snapshot is built; the processes go on mapping memory and exiting meanwhile.
* **`ModuleLock`**: references taken by locks and descriptors, and `rmmod`.

## The daemon

* **`WatchTables`**: one module for the four per-pid tables, with the forgetting of
  stale pids at the start of a cycle.  `VariableNoticed` is stated for `LD_PRELOAD`
  only: for the layer variables the code remembers the pid whether or not it found
  one, so a variable that a later exec brings is not looked for.
* **`BaselineCheck`**: mappings are joined into runs and compared with records; a
  digest is the sequence of page contents it covers.  The mappings are a set, ordered
  by their addresses as in the code's array; so are the records, whose order in the
  file only decides which of them a message names.  Saving again after a rebuild adds a
  record and keeps the old one, as the code does.  The save of
  a mapping that fails, or that finds the file full, is not an action; the theorems hold
  for any set of records.
* **`Resolver`**: `ac_resolve_timeout` with the child it forks, the pipe, the
  deadline, the kill, the bounded wait and the table of stale children.
* **`Report`**: one `ac_report`, from the check of the scheme to the status line: the
  connection attempts, the writes in pieces, the deadline shared by all of it.  The
  warning for `https` URLs and its table of destinations are left out.
* **`Delivery`** runs the two together: a report calls the resolver, waits for its
  return and goes on with the addresses it returned and the time that is left;
  children of earlier reports end at any later time.  `SilentMeansStored`: if
  `ac_report` says nothing, the server has the report.  `ReportReturns`: it returns,
  whatever its child does.

## The server

**`ReportServer`**: the accept loop, a slot per connection, rejections with a
throttled log line, the watchdog and the shutdown.  `Accept` and `Start` stand for
`socketserver`.  What a handler does with a request is one step.  The 503 is best
effort.  If the last thread started before the shutdown failed to start,
`server_close()` of the library may raise while joining it; the process ends all
the same and this is not told apart.

## Bounds

* Registry: 2 slots, 2 addresses, 3 threads (2 with fairness).  Two slots are the
  fewest in which one mm can be found twice and scan order matters; three threads
  are an add in flight, a delete that cancels it, and a second add.  The number of
  exits and reuses is unbounded.
* Ring: size 3, batches of 2, 6 events, 2 readers: every index wraps twice, and
  a whole batch can be evicted between its peek and its commit.  `ac_dropped` (32
  bits) and `ac_ring_removed` (64 bits) do not wrap within `MaxEmits`.
* `ForkExec`: 3 tasks, 2 execs (`MaxExecs`) and 2 fork requests (`MaxReqs`) in one recycled
  piece of memory, so an exec chained to another supersedes its handoff and a late
  handoff meets the successor of its request.
* `DenyPath`: 4 calls (`MaxCalls`) over 2 ticks (`MaxTime`), a burst of 2 in a window
  of 1 and a pool of 1: each limit is exceeded and the window rolls over.  Two pid
  numbers for two processes let a number be reused while a kill is queued.
* `SyscallCheck`: one write to the table (`MaxTampers`) and one failing read
  (`MaxFails`); floods of other events are unbounded.
* `FdState`: arrays of 1 (`AC_MAX_VMAS`) for 2 mappings (`MaxMaps`) and of 1 module
  (`AC_MAX_MODS`), 2 begins (`MaxBegins`): enough for two threads to allocate at
  once, and for a second snapshot to fail on top of a first.
* `BaselineCheck`: 4 pages of which a record hashes 3 (`AC_HASH_CAP`): the cap falls
  inside a run.  4 changes (`MaxChanges`) are enough to split, patch and rebuild.
* `WatchTables`: 3 pids in tables of 2 (`AC_MAX_PROTS`), counts up to 1 (`MaxN`), one
  reuse (`MaxReuse`).
* `Delivery`: 4 reports, 2 addresses, a request sent in 2 pieces, a timeout of 2
  ticks, 2 stale children (`AC_MAX_STALE_RESOLVERS`) of 4 forked (`MaxForks`): the
  table of stale children fills and a later report finds it full.

Each limit of the code (ring, pool, table, cap) is small and is exceeded.  Threads,
addresses, pids or contents are symmetric where the cfg says so, never under
fairness.

## Fairness

`Registry`: threads inside the module are run, queued work is run, and a task
that began to exit goes on.  Nothing forces a task to exit, an address to be
reused, or the module to be removed.  `EventRing`: the daemon's loop calls
`GET_EVENTS` again and again, its buffer is valid, and signals do not interrupt
every call; a mutex is handed on to a waiter.  These are the strong-fairness
conjuncts.

Elsewhere fairness is weak and covers only code that is scheduled: the daemon's
loop and a caller inside the check (`SyscallCheck`, with strong fairness for the
taking of the mutex), and the daemon's thread together with the clock
(`Delivery`).  Failures, signals, children and remote servers are never made fair.
`ForkExec` states safety only.

## Proofs

Eight modules hold theorems; `PROJECT.json` lists the results.  A theorem about a run's
property names the same definition that the run checks, so TLC shows it on a small
instance and the proof for every number of threads, tasks, slots, callers and so on.
Each component has one inductive invariant.  None of the properties is inductive by
itself; the conjuncts below are what has to be added.  There is one lemma for each
action, with one step for each part of the invariant that the action can disturb.

| Module | Component | Invariant | From |
|---|---|---|---|
| `RegistryInv`, `RegistryProofs` | `Registry` | `IInv`, `UnloadInv` | `MaxAssumption`, `NamesAssumption`, `FlagsAssumption` |
| `BoundedProofs` | `EventRing`; `WatchTables` | `IInv`; `WatchInv` | `SizeAssumption`, `BoundAssumption`, `NobodyAssumption`; `WatchAssumption` |
| `ForkExecProofs` | `ForkExec` | `RefInv`, `FollowInv` | `NamesAssumption`, `BoundsAssumption` |
| `ProbeProofs` | `DenyPath`; `ModuleLock` | `DenyInv`, `PoolInv`; `LInv` | `DenyAssumption`; `LockAssumption` |
| `DeviceProofs` | `FdState` | `FdInv` | `FdAssumption` |
| `DaemonProofs` | `Delivery`; `ReportServer` | `DelInv`; `SrvInv` | `DeliveryAssumption`; `ConnsAssumption` |
| `IntegrityProofs` | `SyscallCheck`; `BaselineCheck` | `SysInv`; `BaselineInv` | `SyscallAssumption`; `BaselineAssumption` |

The assumptions say that sizes and bounds are natural numbers, that the sets of threads,
tasks or connections are finite where they are counted, and that names such as `NoMM`
are none of the things they stand apart from.  TLC evaluates them on each run.
`ProbeProofs` takes `ModuleLock` and `DaemonProofs` takes `ReportServer` with `INSTANCE`;
there the assumptions on its constants are hypotheses of the theorems.

**Registry.**  `IInv` adds `ActorInv` (which mm and slot each thread works on, and that
it pins that mm), `StageInv` (for each program point, the fields of the thread's slot),
`PendInv` and `OwnerInv` (a slot in `removing` or claimed has exactly one owner, a thread
or a callback about to queue the worker), `NotifierInv` (what is listed and referenced
is what the table says) and `ExitInv` (no exit event was emitted while an entry could
still cause one).  `CountExact` rests on three lemmas on the cardinality of the set of
entries.  `UnloadEmpties` needs `UnloadInv`: the slots that `ac_clear_protected` has
passed stay empty, since the probes and the device are gone and no add can start.
`AckedUntilError` is an action property: each step is shown to keep the cover of an
acknowledged mm, or to be the failing registration.  From it follows `AckProtects`: if
`mmu_notifier_register()` does not fail, an add that returned 0 is covered for good,
which is the comment that `registry_acked_error` refutes when it may fail.

**Event ring.**  `LockInv` and `BatchInv` relate `before` and `out` of the lock's holder
to the ring, `DeliveredInv` relates them to what was delivered, and `EvictedInv` says
that each event is evicted once, which makes the dropped count exact.  Index arithmetic
modulo the size is kept in a few lemmas.  `GapsReported` is inductive together with that.
`Refinement` shows that every step of the ring is a step of `EventLog` or a stutter.

**Fork and exec.**  `RefInv` says what a task in each handler and a request at each of
the worker's steps may hold (`PinInv`, `ReqInv`), that a claim names the task's own
request though request memory is reused (`ClaimInv`), and that a rekey about to drop an
entry has found nobody in that image (`DropInv`).  The references are counted as five
cardinalities, tasks, pins and three fields of the requests, and one lemma says what one
change of one holder does to such a count.  `ProtectionFollows` needs `FollowInv`:
a task that is due and not reported has its image registered, or a request that will
register or report it, or is inside an exec whose return handler will queue one
(`CoverInv`); a registration that succeeded is still there when the request is unlinked
(`OkInv`), which is where a handoff that arrived during it is consumed; only claimed
requests are posted to (`PostInv`); and until `ac_clone_ret()` has run for a child no
request names it (`BornInv`).  That the entries last comes from the references:
an image that a task runs in has users.

**Denials.**  `DenyInv` adds `FrameInv` (a denied call reaches the body only with its
frame rewritten) and `AttackInv` (calls in the handler, and queued kills, belong to
denied callers).  `PoolInv`: what is missing from the reserve of the pool is on its way,
which gives `DropsOnlyWhenFull`.  `LInv` is the type invariant of the module lock with
its balance of references.

**Syscall check.**  `TurnInv` says who holds the mutex and where it is in the table,
`ExactInv` what a check during which the table was not written to knows of the slots it
has passed, `EdgeInv` that a slot whose hook was reported has its bit set.

**Descriptors.**  `OwnerInv` (a state belongs to one file), `CallInv` (a thread past the
allocation works on the state of its file, and walks only with its lock), `WholeInv` and
`OwnInv` (what a snapshot holds, and whose it is).

**Delivery and server.**  `DelInv` joins the invariants of the two parts of a delivery:
`RepInv` (socket, bytes written against bytes stored, time spent against the waits
made), `ResInv` (clock, descriptors of the children, table of stale children) and
`LinkInv` (the resolver runs exactly while a report waits for it).  `SrvInv` is the
conservation of the slots.

**Watch tables.**  `WatchInv` says that a pid has at most one slot, that the pids with a
slot and those still to come in this cycle fit the table together, and that the slots
hold what the checks saw last.

**Baselines.**  The state invariant is small (`BaselineInv`: the mappings are disjoint
and not empty, the records are ranges); the work is in what the operators compute for
every set of mappings and of records.  `EndExists` and `EndUnique` say that a run has one
last mapping.  `PageContinues`, `PageStarts`, `PageStops` and `PageRun` carry the start
and the end of a run from mappings to their pages, so both have the same runs
(`PageRuns`) and `SplitInvisible` follows.  For `QuietVouched`, `RunJoined` shows that the
mappings of a run are one piece of one file, so that an address determines an offset;
`AdvanceExact`, that the loop over the records that fit reaches the end of an overlap
exactly if they cover all of it; and `QuietRun`, what silence says of each record.  A
covered page then lies in a record that fits and whose digest is that of the memory.
What is recursive (`AdvanceLo`) or a least choice (`baseline_run_end`) is handled with the
existence of a least counterexample (`LeastExists`), in place of an induction;
`AdvanceAt` first shows that the recursive definition has a solution.

### Only model-checked

* Liveness and everything under fairness: `SlotsComeBack`, `ExitCompletes`, `EventsLeave`,
  `TamperNoticed`, `ReportReturns`.  Fairness and `ENABLED` are out of the prover's reach.

Every other property of the passing runs has a theorem.

## Not modelled

* `ac_init` with the unwinding of its failures, the registration of the probes, and
  the poller of missed invocations (`ac_missed_check_worker`) with its wrapping
  counters.
* The daemon's start (double fork, descriptors) and the deadlines, waits and signals
  of its monitoring loop.
* The daemon's commands: one ioctl and a print each; the handlers are modelled.  The
  comparison of the kernel's module list with `/proc/modules`.
* The baseline file and its lock; reading `/proc/<pid>/environ` in pieces; the layer
  manifests.
* SHA-256: a pure function on bytes, at its real width out of TLC's reach.
* Text of events, register layouts of the ABIs, JSON extraction, allowlists, URL
  grammar and escaping: abstracted to the classes the checks on them tell apart.
* The server's rate limiter, notifier queue, report store and Unix socket: each is
  a component of its own that shares no state with what is modelled.  Its HTTP
  parsing and authentication handle one request at a time without shared state.
* Packaging, scripts and tests.
