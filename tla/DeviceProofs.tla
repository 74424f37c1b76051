---------------------------- MODULE DeviceProofs ----------------------------
(* The handlers of /dev/anticheat, for every number of threads, files,     *)
(* processes, table slots and callers: the snapshots kept per open file    *)
(* (FdState).                                                              *)
EXTENDS FdState, FiniteSetTheorems, SequenceTheorems, TLAPS

-----------------------------------------------------------------------------
(* FdState.                                                                *)
StateRec ==
  [owned : BOOLEAN, lock : Threads \cup {NULL}, vmas : Seq(Kinds) \cup {NULL},
   pid : Procs \cup {0}, n : Nat, rwx : Nat, exec : Nat, anon : Nat,
   truncated : BOOLEAN, mods : Nat \cup {NULL}, n_mods : Nat]
CallRec ==
  [at : {"idle", "alloc", "lock", "walk"}, op : {"scan", "mods"}, id : Ids \cup {0},
   pid : Procs \cup {0}, ref : BOOLEAN, target : Procs \cup {0}]

FdTypeOK ==
  /\ private \in [Files -> Ids \cup {NULL}]
  /\ st \in [Ids -> StateRec]
  /\ thr \in [Threads -> CallRec]
  /\ maps \in [Procs -> Seq(Kinds)]
  /\ alive \subseteq Procs
  /\ pins \in [Procs -> Int]
  /\ begun \in [Threads -> Seq(Kinds)]

(* A state belongs to one file.                                            *)
OwnerInv ==
  /\ \A f \in Files : private[f] # NULL => st[private[f]].owned
  /\ \A f, g \in Files : private[f] # NULL /\ private[f] = private[g] => f = g
  /\ \A i \in Ids : st[i].owned => \E f \in Files : private[f] = i

(* A thread past the allocation works on the state of its file, and walks  *)
(* a process only with the lock of that state.                             *)
CallInv ==
  \A t \in Threads :
    /\ thr[t].at \in {"lock", "walk"} => private[FileOf[t]] # NULL
                                         /\ thr[t].id = private[FileOf[t]]
    /\ thr[t].at = "walk" => st[thr[t].id].lock = t /\ thr[t].target \in Procs
    /\ thr[t].at \in {"alloc", "lock"} /\ thr[t].op = "scan" => thr[t].pid \in Procs

(* The snapshots of a state record are whole; a file that one thread uses  *)
(* alone holds what that thread saw last, or nothing.                      *)
NoVmas(r) == r.vmas = NULL /\ r.n = 0 /\ r.rwx = 0 /\ r.exec = 0 /\ r.anon = 0
AllVmas(r) ==
  /\ r.vmas \in Seq(Kinds) /\ r.n = Len(r.vmas)
  /\ r.rwx = CountOf(r.vmas, RWX) /\ r.exec = CountOf(r.vmas, Exec)
  /\ r.anon = CountOf(r.vmas, AnonExec)
WholeMods(r) == r.n_mods = IF r.mods = NULL THEN 0 ELSE r.mods
WholeInv ==
  \A i \in Ids : (NoVmas(st[i]) \/ AllVmas(st[i])) /\ WholeMods(st[i])
OwnInv ==
  \A t \in Threads : Alone(t) /\ private[FileOf[t]] # NULL =>
    st[private[FileOf[t]]].vmas \in {NULL, begun[t]}

Walking(p) == {t \in Threads : thr[t].at = "walk" /\ thr[t].target = p}

FdInv ==
  FdTypeOK /\ OwnerInv /\ CallInv /\ WholeInv /\ OwnInv /\ PinsBalance

-----------------------------------------------------------------------------
(* The number of mappings of a kind is a natural number, 0 in the empty    *)
(* snapshot.                                                               *)
LEMMA CountType ==
  ASSUME NEW s \in Seq(Kinds)
  PROVE  CountOf(s, RWX) \in Nat /\ CountOf(s, Exec) \in Nat /\ CountOf(s, AnonExec) \in Nat
<1>1. IsFiniteSet(DOMAIN s)
  BY FS_Interval
<1>2. /\ IsFiniteSet({i \in DOMAIN s : RWX(s[i])})
      /\ IsFiniteSet({i \in DOMAIN s : Exec(s[i])})
      /\ IsFiniteSet({i \in DOMAIN s : AnonExec(s[i])})
  BY <1>1, FS_Subset
<1> QED
  BY <1>2, FS_CardinalityType DEF CountOf

(* The initial state.                                                      *)
LEMMA FdInit == Init => FdInv
<1> SUFFICES ASSUME Init PROVE FdInv
  OBVIOUS
<1> USE FdAssumption DEF Init
<1>1. FdTypeOK
  <2>1. Fresh \in StateRec /\ Idle \in CallRec
    BY DEF StateRec, CallRec, Fresh, Idle
  <2>2. maps \in [Procs -> Seq(Kinds)]
    <3>1. <<"code">> \in Seq(Kinds) /\ <<"rwx">> \in Seq(Kinds)
      BY DEF Kinds
    <3> QED
      BY Zenon, <3>1
  <2>3. begun \in [Threads -> Seq(Kinds)]
    OBVIOUS
  <2> QED
    BY <2>1, <2>2, <2>3 DEF FdTypeOK
<1>2. OwnerInv /\ CallInv /\ OwnInv
  BY DEF OwnerInv, CallInv, OwnInv, Fresh, Idle
<1>3. WholeInv
  BY DEF WholeInv, NoVmas, WholeMods, Fresh
<1>4. PinsBalance
  <2> SUFFICES ASSUME NEW p \in Procs PROVE pins[p] = Cardinality(Walking(p))
    BY DEF PinsBalance, Walking
  <2>1. Walking(p) = {}
    BY DEF Walking, Idle
  <2> QED
    BY <2>1, FS_EmptySet
<1> QED
  BY <1>1, <1>2, <1>3, <1>4 DEF FdInv

(* A step that changes neither the states, nor the files, nor who walks.   *)
LEMMA FdWorld ==
  ASSUME FdInv,
         (\E p \in Procs : Map(p) \/ Exit(p)) \/ UNCHANGED vars
  PROVE  FdInv'
<1>1. UNCHANGED <<private, st, thr, pins, begun>>
  BY DEF Map, Exit, vars
<1>2. FdTypeOK'
  <2>1. maps' \in [Procs -> Seq(Kinds)]
    <3>1. CASE \E p \in Procs : Map(p)
      <4>1. PICK p \in Procs, k \in Kinds : maps' = [maps EXCEPT ![p] = Append(@, k)]
        BY Zenon, <3>1 DEF Map
      <4> QED
        BY <4>1 DEF FdInv, FdTypeOK
    <3>2. CASE \E p \in Procs : Exit(p)
      BY <3>2 DEF FdInv, FdTypeOK, Exit
    <3> QED
      BY <3>1, <3>2 DEF FdInv, FdTypeOK, vars
  <2>2. alive' \subseteq Procs
    BY DEF FdInv, FdTypeOK, Map, Exit, vars
  <2> QED
    BY <1>1, <2>1, <2>2 DEF FdInv, FdTypeOK
<1>3. (OwnerInv /\ CallInv /\ WholeInv /\ OwnInv /\ PinsBalance)'
  BY <1>1 DEF FdInv, OwnerInv, CallInv, WholeInv, OwnInv, PinsBalance, NoVmas, AllVmas,
     WholeMods
<1> QED
  BY <1>2, <1>3 DEF FdInv

(* A call that begins or that ends without walking: who walks is the same. *)
LEMMA FdBegin ==
  ASSUME FdInv, NEW t \in Threads, ScanBegin(t) \/ ModsBegin(t)
  PROVE  FdInv'
<1> USE FdAssumption DEF FdInv
<1>1. PICK r \in CallRec :
        /\ thr' = [thr EXCEPT ![t] = r] /\ thr[t].at = "idle"
        /\ r.at \in {"alloc", "lock"} /\ (r.op = "scan" => r.pid \in Procs)
        /\ r.at = "lock" => private[FileOf[t]] # NULL /\ r.id = private[FileOf[t]]
  <2>1. ASSUME NEW op \in {"scan", "mods"}, NEW p \in Procs \cup {0}, NEW ref \in BOOLEAN,
               op = "scan" => p \in Procs
        PROVE  LET r == Called(t, op, p, ref) IN
               /\ r \in CallRec
               /\ r.at \in {"alloc", "lock"} /\ (r.op = "scan" => r.pid \in Procs)
               /\ r.at = "lock" => private[FileOf[t]] # NULL /\ r.id = private[FileOf[t]]
    BY <2>1 DEF Called, CallRec, FdTypeOK
  <2>2. CASE ScanBegin(t)
    BY Zenon, <2>1, <2>2 DEF ScanBegin
  <2>3. CASE ModsBegin(t)
    BY Zenon, <2>1, <2>3 DEF ModsBegin
  <2> QED
    BY <2>2, <2>3
<1>2. UNCHANGED <<private, st, maps, alive, pins, begun>>
  BY Zenon DEF ScanBegin, ModsBegin, procVars
<1>3. FdTypeOK'
  BY <1>1, <1>2 DEF FdTypeOK
<1>4. CallInv'
  BY <1>1, <1>2 DEF CallInv, FdTypeOK
<1>5. \A p \in Procs : Walking(p)' = Walking(p)
  BY <1>1, <1>2 DEF Walking, FdTypeOK
<1>6. PinsBalance'
  BY <1>2, <1>5 DEF PinsBalance, Walking
<1>7. (OwnerInv /\ WholeInv /\ OwnInv)'
  BY <1>2 DEF OwnerInv, WholeInv, OwnInv, NoVmas, AllVmas, WholeMods
<1> QED
  BY <1>3, <1>4, <1>6, <1>7

(* The record of a call that has got its state.                            *)
LEMMA CallGotState ==
  ASSUME NEW c \in CallRec, NEW i \in Ids
  PROVE  LET r == [c EXCEPT !.at = "lock", !.id = i] IN
         r \in CallRec /\ r.at = "lock" /\ r.id = i /\ r.op = c.op /\ r.pid = c.pid
  BY Zenon DEF CallRec

(* ac_get_fd_state(): a fresh state becomes that of the thread's file; or  *)
(* the call goes on with the state another thread allocated meanwhile, or  *)
(* fails.                                                                  *)
LEMMA FdAlloc ==
  ASSUME FdInv, NEW t \in Threads, ac_get_fd_state(t)
  PROVE  FdInv'
<1> USE FdAssumption DEF FdInv
<1> DEFINE f == FileOf[t]
<1>0. f \in Files /\ thr[t].at = "alloc"
  BY DEF ac_get_fd_state
<1>1. UNCHANGED <<maps, alive, pins, begun>>
  BY DEF ac_get_fd_state, procVars
<1>2. ASSUME NEW r \in CallRec, thr' = [thr EXCEPT ![t] = r], r.at \in {"idle", "lock"}
      PROVE  thr' \in [Threads -> CallRec] /\ PinsBalance'
  <2>1. \A p \in Procs : Walking(p)' = Walking(p)
    BY <1>0, <1>2 DEF Walking, FdTypeOK
  <2> QED
    BY Zenon, <1>1, <1>2, <2>1 DEF PinsBalance, Walking, FdTypeOK
<1>3. CASE private[f] = NULL /\ \E i \in Ids :
             /\ ~st[i].owned
             /\ st' = [st EXCEPT ![i] = [Fresh EXCEPT !.owned = TRUE]]
             /\ private' = [private EXCEPT ![f] = i]
             /\ thr' = [thr EXCEPT ![t].at = "lock", ![t].id = i]
  <2>1. PICK i \in Ids :
             /\ ~st[i].owned
             /\ st' = [st EXCEPT ![i] = [Fresh EXCEPT !.owned = TRUE]]
             /\ private' = [private EXCEPT ![f] = i]
             /\ thr' = [thr EXCEPT ![t].at = "lock", ![t].id = i]
    BY Zenon, <1>3
  <2> DEFINE n == [Fresh EXCEPT !.owned = TRUE]
             r == [thr[t] EXCEPT !.at = "lock", !.id = i]
  <2>2. n \in StateRec /\ n.owned /\ NoVmas(n) /\ WholeMods(n)
    BY Zenon DEF Fresh, StateRec, NoVmas, WholeMods
  <2>3. /\ r \in CallRec /\ thr' = [thr EXCEPT ![t] = r] /\ r.at = "lock" /\ r.id = i
        /\ r.op = thr[t].op /\ r.pid = thr[t].pid
    <3>1. thr[t] \in CallRec /\ thr' = [thr EXCEPT ![t] = r]
      BY Zenon, <2>1 DEF FdTypeOK
    <3> QED
      BY Zenon, <3>1, CallGotState
  <2>4. FdTypeOK'
    BY <1>0, <1>1, <1>2, <2>1, <2>2, <2>3 DEF FdTypeOK
  <2>5. OwnerInv'
    <3>1. \A j \in Ids : st'[j].owned = (st[j].owned \/ j = i)
      BY Zenon, <2>1, <2>2 DEF FdTypeOK, StateRec
    <3>2. \A g \in Files : private'[g] = IF g = f THEN i ELSE private[g]
      BY <1>0, <2>1 DEF FdTypeOK
    <3>3. \A j \in Ids : j # NULL
      BY DEF Ids
    <3>4. \A g \in Files : private[g] # i
      BY <2>1, <3>3 DEF OwnerInv
    <3> QED
      BY <1>0, <1>3, <3>1, <3>2, <3>3, <3>4 DEF OwnerInv, FdTypeOK
  <2>6. CallInv'
    <3> SUFFICES ASSUME NEW u \in Threads
                 PROVE  /\ thr'[u].at \in {"lock", "walk"} => private'[FileOf[u]] # NULL
                                         /\ thr'[u].id = private'[FileOf[u]]
                        /\ thr'[u].at = "walk" => /\ st'[thr'[u].id].lock = u
                                                 /\ thr'[u].target \in Procs
                        /\ thr'[u].at \in {"alloc", "lock"} /\ thr'[u].op = "scan" =>
                             thr'[u].pid \in Procs
      BY DEF CallInv
    <3>1. FileOf[u] \in Files /\ i # NULL
      BY DEF Ids
    <3>2. CASE u = t
      <4>1. thr'[t] = r /\ private'[f] = i
        BY <1>0, <2>1, <2>3 DEF FdTypeOK
      <4> HIDE DEF r
      <4> QED
        BY <1>0, <2>3, <3>1, <3>2, <4>1 DEF CallInv
    <3>3. CASE u # t
      <4>1. thr'[u] = thr[u]
        BY <2>3, <3>3 DEF FdTypeOK
      <4>2. private[FileOf[u]] # NULL => private'[FileOf[u]] = private[FileOf[u]]
        BY <1>0, <1>3, <2>1, <3>1 DEF FdTypeOK
      <4>3. \A j \in Ids : st[j].owned => st'[j] = st[j]
        BY <2>1 DEF FdTypeOK
      <4>4. private[FileOf[u]] # NULL =>
              /\ private[FileOf[u]] \in Ids /\ st[private[FileOf[u]]].owned
              /\ st'[private[FileOf[u]]] = st[private[FileOf[u]]]
        BY <3>1, <4>3 DEF OwnerInv, FdTypeOK
      <4> QED
        BY <4>1, <4>2, <4>4 DEF CallInv
    <3> QED
      BY <3>2, <3>3
  <2>7. WholeInv'
    BY <2>1, <2>2 DEF WholeInv, NoVmas, AllVmas, WholeMods, FdTypeOK
  <2>8. OwnInv'
    BY <1>0, <1>1, <1>3, <2>1, <2>2 DEF OwnInv, OwnerInv, FdTypeOK, NoVmas
  <2> QED
    BY Zenon, <1>2, <2>3, <2>4, <2>5, <2>6, <2>7, <2>8
<1>4. CASE UNCHANGED <<private, st>> /\
             \/ thr' = [thr EXCEPT ![t] = Idle]
             \/ private[f] # NULL /\ thr' = [thr EXCEPT ![t].at = "lock", ![t].id = private[f]]
  <2>1. PICK r \in CallRec :
          /\ thr' = [thr EXCEPT ![t] = r] /\ r.at \in {"idle", "lock"}
          /\ r.at = "lock" => /\ private[f] # NULL /\ r.id = private[f]
                              /\ r.op = thr[t].op /\ r.pid = thr[t].pid
    <3>1. CASE thr' = [thr EXCEPT ![t] = Idle]
      <4>1. Idle \in CallRec /\ Idle.at = "idle"
        BY DEF Idle, CallRec
      <4> QED
        BY Zenon, <3>1, <4>1
    <3>2. CASE private[f] # NULL /\ thr' = [thr EXCEPT ![t].at = "lock", ![t].id = private[f]]
      <4> DEFINE r == [thr[t] EXCEPT !.at = "lock", !.id = private[f]]
      <4>1. private[f] \in Ids /\ thr[t] \in CallRec
        BY <1>0, <3>2 DEF FdTypeOK
      <4>2. thr' = [thr EXCEPT ![t] = r]
        BY Zenon, <3>2 DEF FdTypeOK
      <4>3. /\ r \in CallRec /\ r.at = "lock" /\ r.id = private[f]
            /\ r.op = thr[t].op /\ r.pid = thr[t].pid
        BY Zenon, <4>1, CallGotState
      <4> HIDE DEF r
      <4> QED
        BY Zenon, <3>2, <4>2, <4>3
    <3> QED
      BY <1>4, <3>1, <3>2
  <2>2. FdTypeOK' /\ PinsBalance'
    BY Zenon, <1>1, <1>2, <1>4, <2>1 DEF FdTypeOK
  <2>3. CallInv'
    <3>1. \A u \in Threads : thr'[u] = IF u = t THEN r ELSE thr[u]
      BY <2>1 DEF FdTypeOK
    <3> QED
      BY <1>0, <1>4, <2>1, <3>1 DEF CallInv
  <2>4. (OwnerInv /\ WholeInv /\ OwnInv)'
    BY <1>1, <1>4 DEF OwnerInv, WholeInv, OwnInv, NoVmas, AllVmas, WholeMods
  <2> QED
    BY <2>2, <2>3, <2>4
<1> QED
  BY <1>3, <1>4 DEF ac_get_fd_state, LookAgain

(* A critical section of a state's lock: thread t replaces the record of   *)
(* its file's state by a whole one and leaves, or goes on to walk with the *)
(* lock.                                                                   *)
LEMMA FdReplace ==
  ASSUME FdInv, NEW t \in Threads, NEW i \in Ids, NEW r \in StateRec, NEW c \in CallRec,
         i = private[FileOf[t]], st[i].lock \in {NULL, t},
         st' = [st EXCEPT ![i] = r], thr' = [thr EXCEPT ![t] = c], private' = private,
         maps' \in [Procs -> Seq(Kinds)], alive' \subseteq Procs, pins' \in [Procs -> Int],
         begun' \in [Threads -> Seq(Kinds)], \A u \in Threads \ {t} : begun'[u] = begun[u],
         r.owned, NoVmas(r) \/ AllVmas(r), WholeMods(r),
         Alone(t) => r.vmas \in {NULL, begun'[t]},
         c.at \in {"idle", "walk"},
         c.at = "walk" => c.id = i /\ r.lock = t /\ c.target \in Procs
  PROVE  (FdTypeOK /\ OwnerInv /\ CallInv /\ WholeInv /\ OwnInv)'
<1> USE DEF FdInv
<1>0. FileOf \in [Threads -> Files] /\ \A j \in Ids : j # NULL
  BY FdAssumption DEF Ids
<1>1. \A j \in Ids : st'[j] = IF j = i THEN r ELSE st[j]
  BY DEF FdTypeOK
<1>2. \A u \in Threads : thr'[u] = IF u = t THEN c ELSE thr[u]
  BY DEF FdTypeOK
<1>3. FdTypeOK'
  BY Zenon DEF FdTypeOK
<1>4. OwnerInv'
  <2>1. \A j \in Ids : st'[j].owned = st[j].owned
    <3>1. st[i].owned /\ st[i].owned \in BOOLEAN
      BY Zenon, <1>0 DEF OwnerInv, FdTypeOK, StateRec
    <3> QED
      BY Zenon, <1>1, <3>1 DEF StateRec
  <2>2. \A f \in Files : private[f] # NULL => private[f] \in Ids
    BY DEF FdTypeOK
  <2> QED
    BY <2>1, <2>2 DEF OwnerInv
<1>5. CallInv'
  <2> SUFFICES ASSUME NEW u \in Threads
               PROVE  /\ thr'[u].at \in {"lock", "walk"} => private[FileOf[u]] # NULL
                                       /\ thr'[u].id = private[FileOf[u]]
                      /\ thr'[u].at = "walk" => /\ st'[thr'[u].id].lock = u
                                               /\ thr'[u].target \in Procs
                      /\ thr'[u].at \in {"alloc", "lock"} /\ thr'[u].op = "scan" =>
                           thr'[u].pid \in Procs
    BY DEF CallInv
  <2>1. CASE u = t
    BY <1>0, <1>1, <1>2, <2>1
  <2>2. CASE u # t
    <3>1. thr'[u] = thr[u]
      BY <1>2, <2>2
    <3>2. thr[u].at = "walk" => st'[thr[u].id].lock = u
      <4> SUFFICES ASSUME thr[u].at = "walk" PROVE st'[thr[u].id].lock = u
        OBVIOUS
      <4>0. /\ private[FileOf[u]] # NULL /\ thr[u].id = private[FileOf[u]]
            /\ st[thr[u].id].lock = u
        BY DEF CallInv
      <4>1. thr[u].id \in Ids /\ st[thr[u].id].lock = u
        BY Zenon, <1>0, <4>0 DEF FdTypeOK
      <4>2. u # NULL
        BY FdAssumption
      <4> QED
        BY <1>1, <2>2, <4>1, <4>2
    <3> QED
      BY <3>1, <3>2 DEF CallInv
  <2> QED
    BY <2>1, <2>2
<1>6. WholeInv'
  BY <1>1 DEF WholeInv
<1>7. OwnInv'
  <2> SUFFICES ASSUME NEW u \in Threads, Alone(u), private[FileOf[u]] # NULL
               PROVE  st'[private[FileOf[u]]].vmas \in {NULL, begun'[u]}
    BY Zenon DEF OwnInv, Alone
  <2>1. CASE u = t
    BY <1>1, <2>1
  <2>2. CASE u # t
    <3>1. FileOf[u] # FileOf[t] /\ FileOf[u] \in Files /\ FileOf[t] \in Files
      BY <1>0, <2>2 DEF Alone
    <3>2. private[FileOf[u]] \in Ids \ {i}
      BY SMTT(20), <1>0, <3>1 DEF OwnerInv, FdTypeOK
    <3>3. st'[private[FileOf[u]]] = st[private[FileOf[u]]] /\ begun'[u] = begun[u]
      BY Zenon, <1>1, <2>2, <3>2
    <3>4. st[private[FileOf[u]]].vmas \in {NULL, begun[u]}
      BY DEF OwnInv
    <3> QED
      BY <3>3, <3>4
  <2> QED
    BY Zenon, <2>1, <2>2
<1> QED
  BY <1>3, <1>4, <1>5, <1>6, <1>7

(* A step after which the same threads walk leaves the references alone.   *)
LEMMA WalkersSame ==
  ASSUME FdTypeOK, PinsBalance, NEW t \in Threads, NEW c,
         thr' = [thr EXCEPT ![t] = c], thr[t].at # "walk", c.at # "walk", pins' = pins
  PROVE  PinsBalance'
<1>1. \A p \in Procs : Walking(p)' = Walking(p)
  BY DEF Walking, FdTypeOK
<1> QED
  BY <1>1 DEF PinsBalance, Walking

(* Finitely many threads walk a process.                                   *)
LEMMA WalkersFinite == \A p \in Procs : IsFiniteSet(Walking(p))
  BY FdAssumption, FS_Subset DEF Walking

(* A thread that begins to walk a process takes one reference.             *)
LEMMA WalkersMore ==
  ASSUME FdTypeOK, PinsBalance, NEW t \in Threads, NEW c, NEW p \in Procs,
         thr' = [thr EXCEPT ![t] = c], thr[t].at # "walk", c.at = "walk", c.target = p,
         pins' = [pins EXCEPT ![p] = @ + 1]
  PROVE  PinsBalance'
<1> SUFFICES ASSUME NEW q \in Procs PROVE pins'[q] = Cardinality(Walking(q)')
  BY DEF PinsBalance, Walking
<1>1. pins[q] = Cardinality(Walking(q)) /\ Cardinality(Walking(q)) \in Nat
  BY Zenon, WalkersFinite, FS_CardinalityType DEF PinsBalance, Walking
<1>2. CASE q = p
  <2>1. Walking(q)' = Walking(q) \cup {t} /\ t \notin Walking(q)
    BY <1>2 DEF Walking, FdTypeOK
  <2>2. Cardinality(Walking(q)') = Cardinality(Walking(q)) + 1
    BY Zenon, <2>1, WalkersFinite, FS_AddElement
  <2> QED
    BY <1>1, <1>2, <2>2 DEF FdTypeOK
<1>3. CASE q # p
  <2>1. Walking(q)' = Walking(q)
    BY <1>3 DEF Walking, FdTypeOK
  <2> QED
    BY <1>1, <1>3, <2>1 DEF FdTypeOK
<1> QED
  BY <1>2, <1>3

(* A thread that stops gives one back.                                     *)
LEMMA WalkersLess ==
  ASSUME FdTypeOK, PinsBalance, NEW t \in Threads, NEW c, NEW p \in Procs,
         thr' = [thr EXCEPT ![t] = c], thr[t].at = "walk", thr[t].target = p, c.at # "walk",
         pins' = [pins EXCEPT ![p] = @ - 1]
  PROVE  PinsBalance'
<1> SUFFICES ASSUME NEW q \in Procs PROVE pins'[q] = Cardinality(Walking(q)')
  BY DEF PinsBalance, Walking
<1>1. pins[q] = Cardinality(Walking(q)) /\ Cardinality(Walking(q)) \in Nat
  BY Zenon, WalkersFinite, FS_CardinalityType DEF PinsBalance, Walking
<1>2. CASE q = p
  <2>1. Walking(q)' = Walking(q) \ {t} /\ t \in Walking(q)
    BY <1>2 DEF Walking, FdTypeOK
  <2>2. Cardinality(Walking(q)') = Cardinality(Walking(q)) - 1
    BY Zenon, <2>1, WalkersFinite, FS_RemoveElement
  <2> QED
    BY <1>1, <1>2, <2>2 DEF FdTypeOK
<1>3. CASE q # p
  <2>1. Walking(q)' = Walking(q)
    BY <1>3 DEF Walking, FdTypeOK
  <2> QED
    BY <1>1, <1>3, <2>1 DEF FdTypeOK
<1> QED
  BY <1>2, <1>3

(* The state a thread in the lock or idle on its file works on.            *)
LEMMA FdMine ==
  ASSUME FdInv, NEW t \in Threads, private[FileOf[t]] # NULL
  PROVE  /\ private[FileOf[t]] \in Ids /\ st[private[FileOf[t]]] \in StateRec
         /\ st[private[FileOf[t]]].owned
  BY FdAssumption DEF FdInv, FdTypeOK, OwnerInv

(* Dropping the mappings of a snapshot leaves a whole record.              *)
LEMMA DroppedWhole ==
  ASSUME FdInv, NEW i \in Ids
  PROVE  /\ Dropped(i) \in StateRec /\ Dropped(i).owned /\ NoVmas(Dropped(i))
         /\ WholeMods(Dropped(i)) /\ Dropped(i).lock = NULL
<1>1. st[i].mods \in Nat \cup {NULL} /\ st[i].n_mods \in Nat /\ WholeMods(st[i])
  BY DEF FdInv, FdTypeOK, StateRec, WholeInv
<1>2. Fresh \in StateRec /\ NoVmas(Fresh) /\ Fresh.lock = NULL
  BY DEF Fresh, StateRec, NoVmas
<1>3. Dropped(i) \in StateRec /\ Dropped(i).owned /\ Dropped(i).lock = NULL
  BY Zenon, <1>1, <1>2 DEF StateRec, Dropped
<1>4. NoVmas(Dropped(i)) /\ WholeMods(Dropped(i))
  BY <1>1, <1>2 DEF StateRec, Dropped, NoVmas, WholeMods
<1> QED
  BY <1>3, <1>4

(* The first part of ac_build_vma_snapshot().                              *)
LEMMA FdDrop ==
  ASSUME FdInv, NEW t \in Threads, BuildDrop(t)
  PROVE  FdInv'
<1> USE DEF FdInv
<1> DEFINE i == thr[t].id
           p == Resolve(t)
<1>1. /\ thr[t].at = "lock" /\ thr[t].op = "scan" /\ st[i].lock = NULL
      /\ UNCHANGED <<private, maps, alive, begun>>
  BY DEF BuildDrop
<1>2. private[FileOf[t]] # NULL /\ i = private[FileOf[t]] /\ thr[t].pid \in Procs
  BY <1>1 DEF CallInv
<1>3. i \in Ids
  BY <1>2, FdMine
<1>4. p \in Procs
  BY <1>2, FdAssumption DEF Resolve
<1> DEFINE d == Dropped(i)
<1>5. d \in StateRec /\ d.owned /\ NoVmas(d) /\ WholeMods(d)
  BY <1>3, DroppedWhole
<1>6. begun' \in [Threads -> Seq(Kinds)] /\ maps' \in [Procs -> Seq(Kinds)] /\ alive' \subseteq Procs
  BY <1>1 DEF FdTypeOK
<1>7. CASE p \in alive
  <2> DEFINE r == [d EXCEPT !.lock = t, !.pid = p]
             c == [thr[t] EXCEPT !.at = "walk", !.target = p]
  <2>1. /\ st' = [st EXCEPT ![i] = r] /\ pins' = [pins EXCEPT ![p] = @ + 1]
        /\ thr' = [thr EXCEPT ![t] = c]
    BY Zenon, <1>7 DEF BuildDrop, FdTypeOK
  <2>2. r \in StateRec /\ r.owned /\ NoVmas(r) /\ WholeMods(r) /\ r.lock = t
    <3> HIDE DEF d, p
    <3> QED
      BY Zenon, <1>4, <1>5 DEF StateRec, NoVmas, WholeMods
  <2>3. c \in CallRec /\ c.at = "walk" /\ c.target = p /\ c.id = i
    <3>1. thr[t] \in CallRec
      BY DEF FdTypeOK
    <3> HIDE DEF p
    <3> QED
      BY Zenon, <1>4, <3>1 DEF CallRec
  <2>4. pins' \in [Procs -> Int]
    BY <1>4, <2>1 DEF FdTypeOK
  <2>5. r.vmas = NULL
    BY <2>2 DEF NoVmas
  <2> HIDE DEF i, r, c, d, p
  <2>6. (FdTypeOK /\ OwnerInv /\ CallInv /\ WholeInv /\ OwnInv)'
    BY Zenon, <1>1, <1>2, <1>3, <1>4, <1>6, <2>1, <2>2, <2>3, <2>4, <2>5, FdReplace
  <2>7. PinsBalance'
    BY Zenon, <1>1, <1>4, <2>1, <2>3, WalkersMore
  <2> QED
    BY <2>6, <2>7
<1>8. CASE p \notin alive
  <2>1. PICK q \in {0, p} :
          /\ st' = [st EXCEPT ![i] = [d EXCEPT !.pid = q]]
          /\ thr' = [thr EXCEPT ![t] = Idle] /\ pins' = pins
    BY <1>8 DEF BuildDrop
  <2> DEFINE r == [d EXCEPT !.pid = q]
  <2>2. r \in StateRec /\ r.owned /\ NoVmas(r) /\ WholeMods(r)
    <3> HIDE DEF d, p
    <3> QED
      BY <1>4, <1>5 DEF StateRec, NoVmas, WholeMods
  <2>3. Idle \in CallRec /\ Idle.at = "idle"
    BY DEF CallRec, Idle
  <2>4. pins' \in [Procs -> Int]
    BY <2>1 DEF FdTypeOK
  <2>5. r.vmas = NULL
    BY <2>2 DEF NoVmas
  <2>8. st' = [st EXCEPT ![i] = r]
    BY <2>1
  <2> HIDE DEF i, r, d, p
  <2>6. (FdTypeOK /\ OwnerInv /\ CallInv /\ WholeInv /\ OwnInv)'
    BY Zenon, <1>1, <1>2, <1>3, <1>6, <2>1, <2>2, <2>3, <2>4, <2>5, <2>8, FdReplace
  <2>7. PinsBalance'
    BY Zenon, <1>1, <2>1, <2>3, WalkersSame
  <2> QED
    BY <2>6, <2>7
<1> QED
  BY <1>7, <1>8

(* Giving back the reference on the target of a walk.                      *)
LEMMA FdUnpin ==
  ASSUME FdInv, NEW t \in Threads, thr[t].at = "walk", Unpin(thr[t].target)
  PROVE  /\ thr[t].target \in Procs
         /\ pins' = [pins EXCEPT ![thr[t].target] = @ - 1]
         /\ pins' \in [Procs -> Int] /\ maps' \in [Procs -> Seq(Kinds)]
<1>1. thr[t].target \in Procs
  BY DEF FdInv, CallInv
<1>2. pins' = [pins EXCEPT ![thr[t].target] = @ - 1]
  BY DEF Unpin
<1>3. pins' \in [Procs -> Int]
  BY <1>1, <1>2 DEF FdInv, FdTypeOK
<1>4. <<>> \in Seq(Kinds)
  OBVIOUS
<1>5. maps' \in [Procs -> Seq(Kinds)]
  BY <1>1, <1>4 DEF FdInv, FdTypeOK, Unpin
<1> QED
  BY <1>1, <1>2, <1>3, <1>5

(* The first pages of a process's mappings.                                *)
LEMMA WalkedType ==
  ASSUME NEW m \in Seq(Kinds)
  PROVE  SubSeq(m, 1, WalkLimit(m)) \in Seq(Kinds)
<1>1. WalkLimit(m) \in Nat /\ WalkLimit(m) <= Len(m)
  BY FdAssumption DEF WalkLimit
<1>2. \A j \in 1 .. WalkLimit(m) : m[j] \in Kinds
  BY <1>1
<1> HIDE DEF WalkLimit
<1> QED
  BY <1>1, <1>2, SubSeqProperties

(* A record filled in with a new snapshot.                                 *)
LEMMA FilledType ==
  ASSUME NEW c \in StateRec, NEW s \in Seq(Kinds), NEW n \in Nat, NEW w \in Nat,
         NEW x \in Nat, NEW a \in Nat, NEW tr \in BOOLEAN
  PROVE  [c EXCEPT !.vmas = s, !.n = n, !.lock = NULL, !.rwx = w, !.exec = x, !.anon = a,
                   !.truncated = tr] \in StateRec
  BY Zenon DEF StateRec

(* The walk fails for want of memory, or fills the snapshot.               *)
LEMMA FdWalk ==
  ASSUME FdInv, NEW t \in Threads, BuildNoMem(t) \/ BuildWalk(t)
  PROVE  FdInv'
<1> USE DEF FdInv
<1> DEFINE i == thr[t].id
           p == thr[t].target
<1>1. /\ thr[t].at = "walk" /\ Unpin(p) /\ thr' = [thr EXCEPT ![t] = Idle]
      /\ UNCHANGED <<private, alive>>
  BY DEF BuildNoMem, BuildWalk
<1>2. private[FileOf[t]] # NULL /\ i = private[FileOf[t]] /\ st[i].lock = t
  BY <1>1 DEF CallInv
<1>3. i \in Ids /\ st[i] \in StateRec /\ st[i].owned
  BY <1>2, FdMine
<1>4. /\ p \in Procs /\ pins' = [pins EXCEPT ![p] = @ - 1]
      /\ pins' \in [Procs -> Int] /\ maps' \in [Procs -> Seq(Kinds)]
  BY <1>1, FdUnpin
<1>5. Idle \in CallRec /\ Idle.at = "idle"
  BY DEF CallRec, Idle
<1>6. PinsBalance'
  <2> HIDE DEF p
  <2>1. thr[t].target = p
    BY DEF p
  <2> QED
    BY Zenon, <1>1, <1>4, <1>5, <2>1, WalkersLess
<1>7. alive' \subseteq Procs
  BY Zenon, <1>1 DEF FdTypeOK
<1>8. (NoVmas(st[i]) \/ AllVmas(st[i])) /\ WholeMods(st[i])
  BY <1>3 DEF WholeInv
<1>9. ASSUME BuildNoMem(t) PROVE (FdTypeOK /\ OwnerInv /\ CallInv /\ WholeInv /\ OwnInv)'
  <2> DEFINE r == [st[i] EXCEPT !.lock = NULL]
  <2>1. st' = [st EXCEPT ![i] = r] /\ begun' = begun
    BY SMTT(20), <1>9, <1>3 DEF BuildNoMem, FdTypeOK
  <2>2. /\ r \in StateRec /\ r.owned /\ r.vmas = st[i].vmas
        /\ (NoVmas(r) \/ AllVmas(r)) /\ WholeMods(r)
    BY Zenon, <1>3, <1>8 DEF StateRec, NoVmas, AllVmas, WholeMods
  <2>3. Alone(t) => r.vmas \in {NULL, begun'[t]}
    BY <1>2, <2>1, <2>2 DEF OwnInv
  <2>4. begun' \in [Threads -> Seq(Kinds)]
    BY <2>1 DEF FdTypeOK
  <2> HIDE DEF r, i, p
  <2> QED
    BY Zenon, <1>1, <1>2, <1>3, <1>4, <1>5, <1>7, <2>1, <2>2, <2>3, <2>4, FdReplace
<1>10. ASSUME BuildWalk(t) PROVE (FdTypeOK /\ OwnerInv /\ CallInv /\ WholeInv /\ OwnInv)'
  <2> DEFINE s == SubSeq(maps[p], 1, WalkLimit(maps[p]))
             r == [st[i] EXCEPT !.vmas = s, !.n = Len(s), !.lock = NULL,
                     !.rwx = CountOf(s, RWX), !.exec = CountOf(s, Exec),
                     !.anon = CountOf(s, AnonExec),
                     !.truncated = Len(maps[p]) > AC_MAX_VMAS]
  <2>1. /\ st' = [st EXCEPT ![i] = r]
        /\ begun' = IF Alone(t) THEN [begun EXCEPT ![t] = s] ELSE begun
    BY <1>10, <1>3 DEF BuildWalk, FdTypeOK
  <2>2. s \in Seq(Kinds)
    BY <1>4, WalkedType DEF FdTypeOK
  <2>3. /\ Len(s) \in Nat /\ CountOf(s, RWX) \in Nat /\ CountOf(s, Exec) \in Nat
        /\ CountOf(s, AnonExec) \in Nat
    <3> HIDE DEF s
    <3> QED
      BY <2>2, CountType
  <2>4. (Len(maps[p]) > AC_MAX_VMAS) \in BOOLEAN
    OBVIOUS
  <2>5. /\ r \in StateRec /\ r.owned /\ r.vmas = s
        /\ AllVmas(r) /\ WholeMods(r)
    <3> HIDE DEF s, i, p
    <3>1. r \in StateRec
      BY Zenon, <1>3, <2>2, <2>3, <2>4, FilledType
    <3>2. r.owned /\ r.vmas = s /\ WholeMods(r)
      BY <1>3, <1>8 DEF StateRec, WholeMods
    <3>3. AllVmas(r)
      BY <1>3, <2>2 DEF StateRec, AllVmas
    <3> QED
      BY <3>1, <3>2, <3>3
  <2> HIDE DEF r, s, i, p
  <2>6. Alone(t) => r.vmas \in {NULL, begun'[t]}
    BY <2>1, <2>5 DEF FdTypeOK
  <2>7. begun' \in [Threads -> Seq(Kinds)] /\ \A u \in Threads \ {t} : begun'[u] = begun[u]
    BY <2>1, <2>2 DEF FdTypeOK
  <2> QED
    BY Zenon, <1>1, <1>2, <1>3, <1>4, <1>5, <1>7, <2>1, <2>5, <2>6, <2>7, FdReplace
<1> QED
  BY Zenon, <1>6, <1>9, <1>10

(* MODS_BEGIN under the lock, and the END calls.                           *)
LEMMA FdMods ==
  ASSUME FdInv, NEW t \in Threads, BuildMods(t) \/ ScanEnd(t) \/ ModsEnd(t)
  PROVE  FdInv'
<1> USE DEF FdInv
<1> DEFINE i == private[FileOf[t]]
<1>1. /\ thr[t].at \in {"lock", "idle"} /\ i # NULL /\ st[i].lock = NULL
      /\ UNCHANGED <<private, maps, alive, pins, begun>>
  BY Zenon DEF BuildMods, ScanEnd, ModsEnd, CallInv, procVars
<1>2. i \in Ids /\ st[i] \in StateRec /\ st[i].owned
  BY <1>1, FdMine
<1>3. PICK c \in CallRec : thr' = [thr EXCEPT ![t] = c] /\ c.at = "idle"
  <2>1. Idle \in CallRec /\ Idle.at = "idle"
    BY DEF CallRec, Idle
  <2>2. thr \in [Threads -> CallRec] /\ thr[t] \in CallRec /\ thr = [thr EXCEPT ![t] = thr[t]]
    BY DEF FdTypeOK
  <2>3. CASE BuildMods(t)
    BY Zenon, <2>1, <2>3 DEF BuildMods
  <2>4. CASE ScanEnd(t) \/ ModsEnd(t)
    BY <2>2, <2>4 DEF ScanEnd, ModsEnd
  <2> QED
    BY <2>3, <2>4
<1>4. (NoVmas(st[i]) \/ AllVmas(st[i])) /\ WholeMods(st[i])
  BY <1>2 DEF WholeInv
<1>5. ASSUME NEW m \in Nat
      PROVE  LET r == [st[i] EXCEPT !.mods = m, !.n_mods = m] IN
             /\ r \in StateRec /\ r.owned /\ r.vmas = st[i].vmas
             /\ (NoVmas(r) \/ AllVmas(r)) /\ WholeMods(r)
  <2>1. m # NULL
    BY FdAssumption
  <2> QED
    BY Zenon, <1>2, <1>4, <2>1 DEF StateRec, NoVmas, AllVmas, WholeMods
<1>6. LET r == [st[i] EXCEPT !.mods = NULL, !.n_mods = 0] IN
             /\ r \in StateRec /\ r.owned /\ r.vmas = st[i].vmas
             /\ (NoVmas(r) \/ AllVmas(r)) /\ WholeMods(r)
  BY Zenon, <1>2, <1>4 DEF StateRec, NoVmas, AllVmas, WholeMods
<1>7. PICK r \in StateRec :
        /\ st' = [st EXCEPT ![i] = r] /\ r.owned /\ r.vmas \in {NULL, st[i].vmas}
        /\ (NoVmas(r) \/ AllVmas(r)) /\ WholeMods(r)
  <2>1. CASE ScanEnd(t)
    <3>1. st' = [st EXCEPT ![i] = Dropped(i)]
      BY <2>1 DEF ScanEnd
    <3>2. /\ Dropped(i) \in StateRec /\ Dropped(i).owned /\ NoVmas(Dropped(i))
          /\ WholeMods(Dropped(i))
      BY Zenon, <1>2, DroppedWhole
    <3>3. Dropped(i).vmas = NULL
      BY <3>2 DEF NoVmas
    <3> HIDE DEF i
    <3> QED
      BY Zenon, <3>1, <3>2, <3>3
  <2>2. CASE \E m \in Nat : st' = [st EXCEPT ![i].mods = m, ![i].n_mods = m]
    <3>1. PICK m \in Nat : st' = [st EXCEPT ![i].mods = m, ![i].n_mods = m]
      BY Zenon, <2>2
    <3> DEFINE r == [st[i] EXCEPT !.mods = m, !.n_mods = m]
    <3>2. st' = [st EXCEPT ![i] = r]
      BY Zenon, <1>2, <3>1 DEF FdTypeOK
    <3>3. /\ r \in StateRec /\ r.owned /\ r.vmas = st[i].vmas
          /\ (NoVmas(r) \/ AllVmas(r)) /\ WholeMods(r)
      BY Zenon, <1>5
    <3> HIDE DEF i, r
    <3> QED
      BY Zenon, <3>2, <3>3
  <2>3. CASE st' = [st EXCEPT ![i].mods = NULL, ![i].n_mods = 0]
    <3> DEFINE r == [st[i] EXCEPT !.mods = NULL, !.n_mods = 0]
    <3>2. st' = [st EXCEPT ![i] = r]
      BY Zenon, <1>2, <2>3 DEF FdTypeOK
    <3>3. /\ r \in StateRec /\ r.owned /\ r.vmas = st[i].vmas
          /\ (NoVmas(r) \/ AllVmas(r)) /\ WholeMods(r)
      BY <1>6
    <3> HIDE DEF i, r
    <3> QED
      BY Zenon, <3>2, <3>3
  <2>4. CASE BuildMods(t)
    <3>1. thr[t].id = i
      BY Zenon, <2>4 DEF BuildMods, CallInv
    <3>2. \A m \in 0 .. AC_MAX_MODS : m \in Nat
      BY SMTT(20), FdAssumption
    <3> QED
      BY Zenon, <2>2, <2>3, <2>4, <3>1, <3>2 DEF BuildMods
  <2> QED
    BY <2>1, <2>3, <2>4 DEF ModsEnd
<1>8. Alone(t) => r.vmas \in {NULL, begun'[t]}
  BY <1>1, <1>7 DEF OwnInv
<1>9. /\ maps' \in [Procs -> Seq(Kinds)] /\ alive' \subseteq Procs
      /\ pins' \in [Procs -> Int] /\ begun' \in [Threads -> Seq(Kinds)]
  BY <1>1 DEF FdTypeOK
<1> HIDE DEF i
<1>10. i = private[FileOf[t]]
  BY DEF i
<1>11. (FdTypeOK /\ OwnerInv /\ CallInv /\ WholeInv /\ OwnInv)'
  BY Zenon, <1>1, <1>2, <1>3, <1>7, <1>8, <1>9, <1>10, FdReplace
<1>12. PinsBalance'
  BY Zenon, <1>1, <1>3, WalkersSame
<1> QED
  BY <1>11, <1>12

(* ac_release(): the file's state is freed with the file.                  *)
LEMMA FdRelease ==
  ASSUME FdInv, NEW f \in Files, Release(f)
  PROVE  FdInv'
<1> USE DEF FdInv
<1> DEFINE i == private[f]
<1>1. /\ i # NULL /\ \A t \in Threads : FileOf[t] = f => thr[t].at = "idle"
      /\ st' = [st EXCEPT ![i] = Fresh] /\ private' = [private EXCEPT ![f] = NULL]
      /\ UNCHANGED <<thr, maps, alive, pins, begun>>
  BY DEF Release, procVars
<1>2. Fresh \in StateRec /\ ~Fresh.owned /\ NoVmas(Fresh) /\ WholeMods(Fresh)
  BY Zenon DEF Fresh, StateRec, NoVmas, WholeMods
<1>3. /\ i \in Ids /\ FileOf \in [Threads -> Files]
      /\ \A j \in Ids : st'[j] = IF j = i THEN Fresh ELSE st[j]
      /\ \A g \in Files : private'[g] = IF g = f THEN NULL ELSE private[g]
      /\ \A g \in Files \ {f} : private[g] # i
      /\ \A g \in Files : private[g] # NULL => private[g] \in Ids
  BY <1>1, FdAssumption DEF FdTypeOK, OwnerInv
<1>4. FdTypeOK'
  BY <1>1, <1>2 DEF FdTypeOK
<1> HIDE DEF i
<1>5. OwnerInv'
  <2>1. \A g \in Files : private'[g] # NULL => st'[private'[g]].owned
    BY <1>3 DEF OwnerInv
  <2>2. \A g, h \in Files : private'[g] # NULL /\ private'[g] = private'[h] => g = h
    BY <1>3 DEF OwnerInv
  <2>3. ASSUME NEW j \in Ids, st'[j].owned PROVE \E g \in Files : private'[g] = j
    <3>1. j # i /\ st[j].owned
      BY Zenon, <1>2, <1>3, <2>3
    <3>2. PICK g \in Files : private[g] = j
      BY Zenon, <3>1 DEF OwnerInv
    <3> QED
      BY <1>3, <3>1, <3>2 DEF i
  <2> QED
    BY <2>1, <2>2, <2>3 DEF OwnerInv
<1>6. CallInv'
  <2> SUFFICES ASSUME NEW u \in Threads
               PROVE  /\ thr[u].at \in {"lock", "walk"} => private'[FileOf[u]] # NULL
                                       /\ thr[u].id = private'[FileOf[u]]
                      /\ thr[u].at = "walk" => /\ st'[thr[u].id].lock = u
                                               /\ thr[u].target \in Procs
                      /\ thr[u].at \in {"alloc", "lock"} /\ thr[u].op = "scan" =>
                           thr[u].pid \in Procs
    BY <1>1 DEF CallInv
  <2>1. CASE FileOf[u] = f
    BY Zenon, <1>1, <2>1
  <2>2. CASE FileOf[u] # f
    <3>1. private'[FileOf[u]] = private[FileOf[u]] /\ private[FileOf[u]] # i
      BY <1>3, <2>2
    <3>2. private[FileOf[u]] # NULL => st'[private[FileOf[u]]] = st[private[FileOf[u]]]
      BY <1>3, <3>1
    <3> QED
      BY <3>1, <3>2 DEF CallInv
  <2> QED
    BY Zenon, <2>1, <2>2
<1>7. WholeInv'
  BY <1>2, <1>3 DEF WholeInv
<1>8. OwnInv'
  <2> SUFFICES ASSUME NEW u \in Threads, Alone(u), private'[FileOf[u]] # NULL
               PROVE  st'[private'[FileOf[u]]].vmas \in {NULL, begun[u]}
    BY Zenon, <1>1 DEF OwnInv, Alone
  <2>1. private'[FileOf[u]] = private[FileOf[u]] /\ private[FileOf[u]] \in Ids \ {i}
    BY Zenon, <1>3
  <2>2. st'[private'[FileOf[u]]] = st[private[FileOf[u]]]
    BY Zenon, <1>3, <2>1
  <2> QED
    BY Zenon, <2>1, <2>2 DEF OwnInv
<1>9. PinsBalance'
  BY <1>1 DEF PinsBalance
<1> QED
  BY Zenon, <1>4, <1>5, <1>6, <1>7, <1>8, <1>9

(* The invariant is inductive.                                             *)
LEMMA FdInductive == Spec => []FdInv
<1>1. FdInv /\ [Next]_vars => FdInv'
  <2> SUFFICES ASSUME FdInv, [Next]_vars PROVE FdInv'
    OBVIOUS
  <2>1. CASE (\E p \in Procs : Map(p) \/ Exit(p)) \/ UNCHANGED vars
    BY <2>1, FdWorld
  <2>2. CASE \E t \in Threads :
               \/ ScanBegin(t) \/ ModsBegin(t) \/ ac_get_fd_state(t) \/ BuildDrop(t)
               \/ BuildNoMem(t) \/ BuildWalk(t) \/ BuildMods(t) \/ ScanEnd(t) \/ ModsEnd(t)
    BY Zenon, <2>2, FdBegin, FdAlloc, FdDrop, FdWalk, FdMods
  <2>3. CASE \E f \in Files : Release(f)
    BY <2>3, FdRelease
  <2> QED
    BY <2>1, <2>2, <2>3 DEF Next
<1> QED
  BY <1>1, FdInit, PTL DEF Spec

(* ac_get_fd_state() and ac_release() between them: every ac_fd_state in   *)
(* use is the private data of exactly one file, whatever the order of the  *)
(* first calls on a file that threads share.                               *)
THEOREM FdNoStateLost == Spec => []NoStateLost
<1>1. FdInv => NoStateLost
  <2> SUFFICES ASSUME FdInv, NEW i \in Ids, st[i].owned
               PROVE  Cardinality({f \in Files : private[f] = i}) = 1
    BY DEF NoStateLost
  <2>1. PICK g \in Files : private[g] = i
    BY DEF FdInv, OwnerInv
  <2>2. i # NULL
    BY FdAssumption DEF Ids
  <2>3. {f \in Files : private[f] = i} = {g}
    BY <2>1, <2>2 DEF FdInv, OwnerInv
  <2> QED
    BY <2>3, FS_Singleton
<1> QED
  BY <1>1, FdInductive, PTL

(* ac_build_vma_snapshot(): the reference taken on the target's mm is held *)
(* by the walks in progress and by nothing else, on every path out of it.  *)
THEOREM FdPinsBalance == Spec => []PinsBalance
<1>1. FdInv => PinsBalance
  BY Zenon DEF FdInv
<1> QED
  BY <1>1, FdInductive, PTL

(* Every index a GET call accepts is an entry of the snapshot, and the     *)
(* summary SCAN_BEGIN reports is that of the entries, at any table size.   *)
THEOREM FdSnapshotsWhole == Spec => []SnapshotsWhole
<1>1. FdInv => SnapshotsWhole
  <2> SUFFICES ASSUME FdInv, NEW i \in Ids
               PROVE  LET s == IF st[i].vmas = NULL THEN <<>> ELSE st[i].vmas IN
                      /\ \A k \in 0 .. AC_MAX_VMAS : InRange(i, k) => k + 1 \in DOMAIN s
                      /\ \A k \in 0 .. AC_MAX_MODS :
                           ModsGetInRange(i, k) => st[i].mods # NULL /\ k < st[i].mods
                      /\ st[i].rwx = CountOf(s, RWX) /\ st[i].exec = CountOf(s, Exec)
                      /\ st[i].anon = CountOf(s, AnonExec)
    BY DEF SnapshotsWhole
  <2>1. \A k \in 0 .. AC_MAX_MODS :
          ModsGetInRange(i, k) => st[i].mods # NULL /\ k < st[i].mods
    BY SMTT(20), FdAssumption DEF FdInv, FdTypeOK, StateRec, WholeInv, WholeMods, ModsGetInRange
  <2>2. CASE NoVmas(st[i])
    <3>1. st[i].vmas = NULL /\ \A k \in 0 .. AC_MAX_VMAS : ~InRange(i, k)
      BY <2>2, FdAssumption DEF NoVmas, InRange
    <3>2. CountOf(<<>>, RWX) = 0 /\ CountOf(<<>>, Exec) = 0 /\ CountOf(<<>>, AnonExec) = 0
      <4>1. /\ {j \in DOMAIN <<>> : RWX(<<>>[j])} = {} /\ {j \in DOMAIN <<>> : Exec(<<>>[j])} = {}
            /\ {j \in DOMAIN <<>> : AnonExec(<<>>[j])} = {}
        OBVIOUS
      <4> QED
        BY <4>1, FS_EmptySet DEF CountOf
    <3> QED
      BY Zenon, <2>1, <2>2, <3>1, <3>2 DEF NoVmas
  <2>3. CASE AllVmas(st[i])
    <3>1. st[i].vmas # NULL /\ st[i].vmas \in Seq(Kinds) /\ st[i].n = Len(st[i].vmas)
      BY <2>3, FdAssumption DEF AllVmas
    <3>2. \A k \in 0 .. AC_MAX_VMAS : InRange(i, k) => k + 1 \in DOMAIN st[i].vmas
      BY SMTT(20), <3>1, FdAssumption DEF InRange
    <3> QED
      BY Zenon, <2>1, <2>3, <3>1, <3>2 DEF AllVmas
  <2> QED
    BY Zenon, <2>2, <2>3 DEF FdInv, WholeInv
<1> QED
  BY <1>1, FdInductive, PTL

(* On a file that one thread uses alone, SCAN_GET pages through the        *)
(* snapshot of that thread's last SCAN_BEGIN.                              *)
THEOREM FdPagesOfOwnScan == Spec => []PagesOfOwnScan
<1>1. FdInv => PagesOfOwnScan
  <2> SUFFICES ASSUME FdInv, NEW t \in Threads, Alone(t), NEW k \in 0 .. AC_MAX_VMAS
               PROVE  ScanGet(t, k) \in {"EINVAL"} \cup
                        {begun[t][j] : j \in DOMAIN begun[t] \cap {k + 1}}
    BY Zenon DEF PagesOfOwnScan
  <2> DEFINE i == private[FileOf[t]]
  <2>1. CASE i = NULL \/ ~InRange(i, k)
    BY <2>1 DEF ScanGet
  <2>2. CASE i # NULL /\ InRange(i, k)
    <3>1. i \in Ids /\ st[i].vmas \in {NULL, begun[t]} /\ (NoVmas(st[i]) \/ AllVmas(st[i]))
      BY Zenon, <2>2, FdMine DEF FdInv, OwnInv, WholeInv
    <3>2. k \in Nat /\ k < st[i].n
      BY <2>2, FdAssumption DEF InRange
    <3>3. AllVmas(st[i])
      <4>1. st[i].n # 0
        BY <3>2, SMTT(20)
      <4> QED BY <3>1, <4>1, Zenon DEF NoVmas
    <3>4. st[i].vmas = begun[t] /\ begun[t] \in Seq(Kinds) /\ k < Len(begun[t])
      BY Zenon, <3>1, <3>2, <3>3, FdAssumption DEF AllVmas
    <3>5. k + 1 \in DOMAIN begun[t]
      BY <3>2, <3>4
    <3>6. ScanGet(t, k) = begun[t][k + 1]
      BY <2>2, <3>4 DEF ScanGet
    <3> QED
      BY Zenon, <3>5, <3>6
  <2> QED
    BY Zenon, <2>1, <2>2
<1> QED
  BY <1>1, FdInductive, PTL
=============================================================================
