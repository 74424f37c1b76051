--------------------------- MODULE ForkExecProofs ---------------------------
(* Fork and exec for every number of processes, of address spaces and of   *)
(* requests, with and without unprotecting and unloading.                  *)
EXTENDS ForkExec, FiniteSetTheorems, TLAPS

AnyMM == MMs \cup {NoMM}
ReqPcs == {"free", "queued", "wait", "adopt", "stale", "add", "unlink", "carry", "decide",
           "drop", "finish"}
TaskRec ==
  [pc : {"user", "unborn", "clone", "scan", "body", "ret"}, child : Tasks, old : AnyMM,
   race : BOOLEAN, preq : Reqs \cup {NoReq}, pid : Nat]
ReqRec ==
  [pc : ReqPcs, mm : AnyMM, old : AnyMM, pid : Tasks, owner : Tasks, post : AnyMM,
   ppid : Tasks, claimed : BOOLEAN, done : BOOLEAN, linked : BOOLEAN, id : Nat, ok : BOOLEAN]
ForkTypeOK ==
  /\ tmm \in [Tasks -> AnyMM] /\ pins \in [Tasks -> AnyMM] /\ users \in [MMs -> Int]
  /\ x \in [Tasks -> TaskRec] /\ req \in [Reqs -> ReqRec]
  /\ ac_prot_req_seq \in Nat /\ phase \in {"loaded", "unprobed", "gone"}

(* The pin of an exec, and what the instance of a task knows of it.        *)
PinRec(y, a, p, ph) ==
  /\ y.pc = "unborn" => a = NoMM /\ p = NoMM
  /\ y.pc \in {"clone", "scan", "body"} => a # NoMM
  /\ y.pc \in {"body", "ret"} => y.old = p
  /\ y.pc \in {"clone", "scan"} \/ (a # NoMM /\ y.pc = "user") \/ y.race => p = NoMM
  /\ y.pc \notin {"body", "ret"} => y.old = NoMM /\ ~y.race
  /\ ph # "loaded" => p = NoMM /\ y.pc \in {"user", "unborn"}
PinOf(t) == PinRec(x[t], tmm[t], pins[t], phase)
PinInv == \A t \in Tasks : PinOf(t)

(* What a request holds at each of the worker's steps.                     *)
ReqOf(q, n) ==
  /\ q.pc = "free" => q.mm = NoMM /\ q.old = NoMM /\ q.post = NoMM /\ ~q.linked
  /\ q.pc # "free" => q.mm # NoMM
  /\ q.linked => q.old = NoMM /\ q.pid = q.owner /\ q.pc \in {"queued", "wait", "add", "unlink"}
  /\ q.pc \in {"wait", "unlink"} => q.linked
  /\ q.pc \in {"adopt", "stale", "carry"} => q.old = NoMM
  /\ q.pc \in {"decide", "drop"} => q.old # NoMM
  /\ q.pc \in {"add", "queued"} => (q.old = NoMM <=> q.linked)
  /\ q.post # NoMM => q.linked \/ q.pc = "carry"
  /\ q.linked => q.id <= n
  /\ q.post # NoMM => q.ppid = q.owner
ReqInv == \A r \in Reqs : ReqOf(req[r], ac_prot_req_seq)
GoneInv == phase = "gone" => \A r \in Reqs : req[r].pc = "free"

(* A request a task has claimed and that has not been freed since is its   *)
(* own.                                                                    *)
ClaimOf(t) ==
  x[t].race => /\ x[t].pid <= ac_prot_req_seq
               /\ \A r \in HandoffTarget(t) : req[r].owner = t
ClaimInv == \A t \in Tasks : ClaimOf(t)

(* A rekey that is about to drop the old entry: nobody runs in it.         *)
DropInv == \A r \in Reqs : req[r].pc = "drop" => \A t \in Tasks : tmm[t] # req[r].old

RefInv ==
  /\ ForkTypeOK /\ PinInv /\ ReqInv /\ GoneInv /\ ClaimInv /\ DropInv
  /\ ReferencesBalance

-----------------------------------------------------------------------------
(* Counting references.                                                    *)
Is(a, m) == IF a = m THEN 1 ELSE 0
Holders(f, m) == {d \in DOMAIN f : f[d] = m}
Held(f, m) == Cardinality(Holders(f, m))

(* A set of holders is finite; it is empty when it counts none.            *)
LEMMA HeldNat ==
  ASSUME NEW D, IsFiniteSet(D), NEW R, NEW f \in [D -> R], NEW m
  PROVE  /\ IsFiniteSet(Holders(f, m)) /\ Held(f, m) \in Nat
         /\ Held(f, m) = 0 <=> \A d \in D : f[d] # m
<1>1. IsFiniteSet(Holders(f, m))
  BY FS_Subset DEF Holders
<1>2. Held(f, m) \in Nat /\ (Held(f, m) = 0 <=> Holders(f, m) = {})
  BY <1>1, FS_CardinalityType, FS_EmptySet DEF Held
<1>3. Holders(f, m) = {} <=> \A d \in D : f[d] # m
  BY DEF Holders
<1> QED BY <1>1, <1>2, <1>3, Zenon

(* One holder changes from one address space to another.                   *)
MovesAt(f, g, D, d) ==
  /\ f \in [D -> AnyMM] /\ g \in [D -> AnyMM]
  /\ d \in D /\ \A e \in D \ {d} : g[e] = f[e]

(* The count of an address space changes by what that holder gives it.     *)
LEMMA HeldMoves ==
  ASSUME NEW D, IsFiniteSet(D), NEW f, NEW g, NEW d, MovesAt(f, g, D, d), NEW m
  PROVE  Held(g, m) = Held(f, m) + Is(g[d], m) - Is(f[d], m)
<1>0. f \in [D -> AnyMM] /\ g \in [D -> AnyMM] /\ d \in D /\ \A e \in D \ {d} : g[e] = f[e]
  BY DEF MovesAt
<1>1. IsFiniteSet(Holders(f, m)) /\ Held(f, m) \in Nat
  BY <1>0, HeldNat
<1>2. CASE f[d] = m /\ g[d] = m
  <2>1. Holders(g, m) = Holders(f, m)
    BY <1>2, <1>0 DEF Holders
  <2> QED BY <2>1, <1>1, <1>2 DEF Held, Is
<1>3. CASE f[d] # m /\ g[d] # m
  <2>1. Holders(g, m) = Holders(f, m)
    BY <1>3, <1>0 DEF Holders
  <2> QED BY <2>1, <1>1, <1>3 DEF Held, Is
<1>4. CASE f[d] = m /\ g[d] # m
  <2>1. Holders(g, m) = Holders(f, m) \ {d} /\ d \in Holders(f, m)
    BY <1>4, <1>0 DEF Holders
  <2>2. Held(g, m) = Held(f, m) - 1
    BY Zenon, <2>1, <1>1, FS_RemoveElement DEF Held
  <2> QED BY <2>2, <1>1, <1>4 DEF Is
<1>5. CASE f[d] # m /\ g[d] = m
  <2>1. Holders(g, m) = Holders(f, m) \cup {d} /\ d \notin Holders(f, m)
    BY <1>5, <1>0 DEF Holders
  <2>2. Held(g, m) = Held(f, m) + 1
    BY Zenon, <2>1, <1>1, FS_AddElement DEF Held
  <2> QED BY <2>2, <1>1, <1>5 DEF Is
<1> QED BY <1>2, <1>3, <1>4, <1>5, Zenon

(* The three references of the requests.                                   *)
MmOf == [r \in Reqs |-> req[r].mm]
OldOf == [r \in Reqs |-> req[r].old]
PostOf == [r \in Reqs |-> req[r].post]
TaskRefs(m) == Held(tmm, m) + Held(pins, m)
ReqRefs(m) == Held(MmOf, m) + Held(OldOf, m) + Held(PostOf, m)

(* The three address spaces of the requests, each as a function.           *)
LEMMA FieldsTyped ==
  ASSUME ForkTypeOK
  PROVE  /\ MmOf \in [Reqs -> AnyMM] /\ OldOf \in [Reqs -> AnyMM] /\ PostOf \in [Reqs -> AnyMM]
BY DEF ForkTypeOK, ReqRec, MmOf, OldOf, PostOf

(* RefsOn() in these terms.                                                *)
LEMMA RefsSplit ==
  ASSUME ForkTypeOK, NEW m
  PROVE  /\ RefsOn(m) = TaskRefs(m) + ReqRefs(m)
         /\ TaskRefs(m) \in Nat /\ ReqRefs(m) \in Nat
<1>1. /\ {t \in Tasks : tmm[t] = m} = Holders(tmm, m)
      /\ {t \in Tasks : pins[t] = m} = Holders(pins, m)
  BY DEF ForkTypeOK, Holders
<1>2. /\ {r \in Reqs : req[r].mm = m} = Holders(MmOf, m)
      /\ {r \in Reqs : req[r].old = m} = Holders(OldOf, m)
      /\ {r \in Reqs : req[r].post = m} = Holders(PostOf, m)
  BY DEF Holders, MmOf, OldOf, PostOf
<1>3. Held(tmm, m) \in Nat /\ Held(pins, m) \in Nat
  BY Zenon, HeldNat, NamesAssumption DEF ForkTypeOK
<1>4. Held(MmOf, m) \in Nat /\ Held(OldOf, m) \in Nat /\ Held(PostOf, m) \in Nat
  BY Zenon, HeldNat, FieldsTyped, NamesAssumption
<1>5. RefsOn(m) = Held(tmm, m) + Held(pins, m) + Held(MmOf, m) + Held(OldOf, m) + Held(PostOf, m)
  BY <1>1, <1>2, Zenon DEF RefsOn, PinsOn, Held
<1> QED BY <1>3, <1>4, <1>5 DEF TaskRefs, ReqRefs

(* The same in the next state.                                             *)
LEMMA RefsSplitNext ==
  ForkTypeOK' => \A m : RefsOn(m)' = TaskRefs(m)' + ReqRefs(m)'
<1>1. ForkTypeOK => \A m : RefsOn(m) = TaskRefs(m) + ReqRefs(m)
  BY RefsSplit
<1>2. ForkTypeOK' => (\A m : RefsOn(m) = TaskRefs(m) + ReqRefs(m))'
  BY <1>1, PTL
<1> QED BY <1>2, Zenon

(* A step of one task.                                                     *)
LEMMA TaskMoves ==
  ASSUME ForkTypeOK, ForkTypeOK', NEW t \in Tasks, NEW m,
         \A u \in Tasks \ {t} : tmm'[u] = tmm[u] /\ pins'[u] = pins[u]
  PROVE  TaskRefs(m)' = TaskRefs(m) + Is(tmm'[t], m) - Is(tmm[t], m)
                                    + Is(pins'[t], m) - Is(pins[t], m)
<1>0. IsFiniteSet(Tasks)
  BY NamesAssumption
<1>1. /\ tmm \in [Tasks -> AnyMM] /\ tmm' \in [Tasks -> AnyMM]
      /\ pins \in [Tasks -> AnyMM] /\ pins' \in [Tasks -> AnyMM]
  BY DEF ForkTypeOK, AnyMM
<1>2. Held(tmm', m) = Held(tmm, m) + Is(tmm'[t], m) - Is(tmm[t], m)
  <2>1. MovesAt(tmm, tmm', Tasks, t)
    BY <1>1 DEF MovesAt
  <2> QED BY <1>0, <2>1, HeldMoves
<1>3. Held(pins', m) = Held(pins, m) + Is(pins'[t], m) - Is(pins[t], m)
  <2>1. MovesAt(pins, pins', Tasks, t)
    BY <1>1 DEF MovesAt
  <2> QED BY <1>0, <2>1, HeldMoves
<1>4. Held(tmm, m) \in Nat /\ Held(pins, m) \in Nat
  BY Zenon, <1>1, HeldNat, NamesAssumption
<1>5. TaskRefs(m)' = Held(tmm', m) + Held(pins', m)
  BY DEF TaskRefs, Held, Holders
<1> QED BY <1>2, <1>3, <1>4, <1>5 DEF TaskRefs, Is

(* A step of one request.                                                  *)
LEMMA ReqMoves ==
  ASSUME ForkTypeOK, ForkTypeOK', NEW r \in Reqs, NEW m, \A q \in Reqs \ {r} : req'[q] = req[q]
  PROVE  ReqRefs(m)' = ReqRefs(m) + Is(req'[r].mm, m) - Is(req[r].mm, m)
                                  + Is(req'[r].old, m) - Is(req[r].old, m)
                                  + Is(req'[r].post, m) - Is(req[r].post, m)
<1>0. IsFiniteSet(Reqs)
  BY NamesAssumption
<1>1. /\ MmOf \in [Reqs -> AnyMM] /\ OldOf \in [Reqs -> AnyMM] /\ PostOf \in [Reqs -> AnyMM]
      /\ MmOf' \in [Reqs -> AnyMM] /\ OldOf' \in [Reqs -> AnyMM] /\ PostOf' \in [Reqs -> AnyMM]
  BY FieldsTyped DEF ForkTypeOK, ReqRec, MmOf, OldOf, PostOf, AnyMM
<1>2. /\ MmOf[r] = req[r].mm /\ OldOf[r] = req[r].old /\ PostOf[r] = req[r].post
      /\ MmOf'[r] = req'[r].mm /\ OldOf'[r] = req'[r].old /\ PostOf'[r] = req'[r].post
  BY DEF MmOf, OldOf, PostOf
<1>3. \A q \in Reqs \ {r} : MmOf'[q] = MmOf[q] /\ OldOf'[q] = OldOf[q] /\ PostOf'[q] = PostOf[q]
  BY DEF MmOf, OldOf, PostOf
<1>4. Held(MmOf', m) = Held(MmOf, m) + Is(MmOf'[r], m) - Is(MmOf[r], m)
  <2>1. MovesAt(MmOf, MmOf', Reqs, r)
    BY <1>1, <1>3, Zenon DEF MovesAt
  <2> QED BY <1>0, <2>1, HeldMoves
<1>5. Held(OldOf', m) = Held(OldOf, m) + Is(OldOf'[r], m) - Is(OldOf[r], m)
  <2>1. MovesAt(OldOf, OldOf', Reqs, r)
    BY <1>1, <1>3, Zenon DEF MovesAt
  <2> QED BY <1>0, <2>1, HeldMoves
<1>6. Held(PostOf', m) = Held(PostOf, m) + Is(PostOf'[r], m) - Is(PostOf[r], m)
  <2>1. MovesAt(PostOf, PostOf', Reqs, r)
    BY <1>1, <1>3, Zenon DEF MovesAt
  <2> QED BY <1>0, <2>1, HeldMoves
<1>7. Held(MmOf, m) \in Nat /\ Held(OldOf, m) \in Nat /\ Held(PostOf, m) \in Nat
  BY Zenon, <1>1, HeldNat, NamesAssumption
<1>8. ReqRefs(m)' = Held(MmOf', m) + Held(OldOf', m) + Held(PostOf', m)
  BY Zenon DEF ReqRefs, Held, Holders
<1> QED BY <1>2, <1>4, <1>5, <1>6, <1>7, <1>8 DEF ReqRefs, Is

(* mmget() and mmput().                                                    *)
LEMMA RefAt ==
  ASSUME NEW u \in [MMs -> Int], NEW m \in AnyMM
  PROVE  /\ Ref(u, m, 1) \in [MMs -> Int] /\ Ref(u, m, -1) \in [MMs -> Int]
         /\ \A k \in MMs : /\ Ref(u, m, 1)[k] = u[k] + Is(m, k)
                           /\ Ref(u, m, -1)[k] = u[k] - Is(m, k)
BY NamesAssumption DEF Ref, Is, AnyMM

(* The balance after a step of one task that leaves the requests alone ... *)
LEMMA BalanceTask ==
  ASSUME ForkTypeOK, ForkTypeOK', ReferencesBalance, NEW t \in Tasks, req' = req,
         \A u \in Tasks \ {t} : tmm'[u] = tmm[u] /\ pins'[u] = pins[u],
         \A m \in MMs : users'[m] = users[m] + Is(tmm'[t], m) - Is(tmm[t], m)
                                              + Is(pins'[t], m) - Is(pins[t], m)
  PROVE  ReferencesBalance'
<1> SUFFICES ASSUME NEW m \in MMs PROVE users'[m] = RefsOn(m)'
  BY DEF ReferencesBalance
<1>1. RefsOn(m) = TaskRefs(m) + ReqRefs(m) /\ TaskRefs(m) \in Nat /\ ReqRefs(m) \in Nat
  BY RefsSplit
<1>2. RefsOn(m)' = TaskRefs(m)' + ReqRefs(m)'
  BY RefsSplitNext
<1>3. ReqRefs(m)' = ReqRefs(m)
  BY DEF ReqRefs, MmOf, OldOf, PostOf
<1>4. TaskRefs(m)' = TaskRefs(m) + Is(tmm'[t], m) - Is(tmm[t], m)
                                 + Is(pins'[t], m) - Is(pins[t], m)
  BY TaskMoves
<1>5. users[m] = RefsOn(m)
  BY DEF ReferencesBalance
<1> QED BY <1>1, <1>2, <1>3, <1>4, <1>5 DEF Is

(* ... and of one task and one request.                                    *)
LEMMA BalanceBoth ==
  ASSUME ForkTypeOK, ForkTypeOK', ReferencesBalance, NEW t \in Tasks, NEW r \in Reqs,
         \A u \in Tasks \ {t} : tmm'[u] = tmm[u] /\ pins'[u] = pins[u],
         \A q \in Reqs \ {r} : req'[q] = req[q],
         \A m \in MMs : users'[m] = users[m] + Is(tmm'[t], m) - Is(tmm[t], m)
                                    + Is(pins'[t], m) - Is(pins[t], m)
                                    + Is(req'[r].mm, m) - Is(req[r].mm, m)
                                    + Is(req'[r].old, m) - Is(req[r].old, m)
                                    + Is(req'[r].post, m) - Is(req[r].post, m)
  PROVE  ReferencesBalance'
<1> SUFFICES ASSUME NEW m \in MMs PROVE users'[m] = RefsOn(m)'
  BY DEF ReferencesBalance
<1>1. RefsOn(m) = TaskRefs(m) + ReqRefs(m) /\ TaskRefs(m) \in Nat /\ ReqRefs(m) \in Nat
  BY RefsSplit
<1>2. RefsOn(m)' = TaskRefs(m)' + ReqRefs(m)'
  BY RefsSplitNext
<1>3. ReqRefs(m)' = ReqRefs(m) + Is(req'[r].mm, m) - Is(req[r].mm, m)
                               + Is(req'[r].old, m) - Is(req[r].old, m)
                               + Is(req'[r].post, m) - Is(req[r].post, m)
  BY ReqMoves
<1>4. TaskRefs(m)' = TaskRefs(m) + Is(tmm'[t], m) - Is(tmm[t], m)
                                 + Is(pins'[t], m) - Is(pins[t], m)
  BY TaskMoves
<1>5. users[m] = RefsOn(m)
  BY DEF ReferencesBalance
<1> QED BY <1>1, <1>2, <1>3, <1>4, <1>5 DEF Is

(* An address space that a request refers to has users.                    *)
LEMMA OldHeld ==
  ASSUME ForkTypeOK, ReferencesBalance, NEW r \in Reqs, req[r].old \in MMs
  PROVE  users[req[r].old] >= 1
<1> DEFINE m == req[r].old
<1>1. users[m] = TaskRefs(m) + ReqRefs(m) /\ TaskRefs(m) \in Nat
  BY RefsSplit DEF ReferencesBalance
<1>2. Held(MmOf, m) \in Nat /\ Held(OldOf, m) \in Nat /\ Held(PostOf, m) \in Nat
  BY Zenon, HeldNat, FieldsTyped, NamesAssumption
<1>3. OldOf[r] = m
  BY DEF OldOf
<1>4. Held(OldOf, m) # 0
  BY Zenon, <1>3, HeldNat, FieldsTyped, NamesAssumption
<1> QED BY <1>1, <1>2, <1>4 DEF ReqRefs

-----------------------------------------------------------------------------
(* What a step may do to a request, and what that keeps.                   *)
ReqStepOK(r) ==
  \/ req'[r] = req[r]
  \/ /\ phase # "gone"
     /\ ReqOf(req'[r], ac_prot_req_seq')
     /\ req'[r].linked =>
          \/ req[r].linked /\ req'[r].id = req[r].id /\ req'[r].owner = req[r].owner
          \/ req'[r].id > ac_prot_req_seq
     /\ req'[r].pc = "drop" => \A u \in Tasks : tmm'[u] # req'[r].old
(* A task runs in an address space that is new, or that a task had.        *)
MmStepOK(u) == tmm'[u] = NoMM \/ users[tmm'[u]] = 0 \/ \E w \in Tasks : tmm'[u] = tmm[w]
SameTask(u) == x'[u] = x[u] /\ tmm'[u] = tmm[u] /\ pins'[u] = pins[u]

SameClaim(u) ==
  x'[u].race => x[u].race /\ x'[u].preq = x[u].preq /\ x'[u].pid = x[u].pid

(* A step that keeps the types, the pins, the requests and the balance,    *)
(* with the phase unchanged, keeps RefInv.                                 *)
LEMMA StepKeeps ==
  ASSUME RefInv, ForkTypeOK', ReferencesBalance', phase' = phase,
         ac_prot_req_seq' >= ac_prot_req_seq, NEW t \in Tasks, NEW c \in Tasks,
         \A u \in Tasks \ {t, c} : SameTask(u),
         PinOf(t)', PinOf(c)', MmStepOK(t), MmStepOK(c),
         \A u \in {t, c} : SameClaim(u) \/ ClaimOf(u)',
         \A r \in Reqs : ReqStepOK(r)
  PROVE  RefInv'
<1>0. /\ ForkTypeOK /\ PinInv /\ ReqInv /\ GoneInv /\ ClaimInv /\ DropInv /\ ReferencesBalance
  BY Zenon DEF RefInv
<1>1. PinInv'
  <2>1. ASSUME NEW u \in Tasks \ {t, c} PROVE PinOf(u)'
    BY <1>0, <2>1 DEF PinInv, PinOf, SameTask
  <2> QED BY <2>1, Zenon DEF PinInv
<1>2. ReqInv'
  <2>1. ASSUME NEW r \in Reqs PROVE ReqOf(req'[r], ac_prot_req_seq')
    <3>1. CASE req'[r] = req[r]
      <4>1. ReqOf(req[r], ac_prot_req_seq) /\ req[r] \in ReqRec
        BY <1>0 DEF ReqInv, ForkTypeOK
      <4>2. ac_prot_req_seq \in Nat /\ ac_prot_req_seq' \in Nat
        BY <1>0 DEF ForkTypeOK
      <4> QED BY <3>1, <4>1, <4>2 DEF ReqOf, ReqRec
    <3>2. CASE req'[r] # req[r]
      BY <3>2, Zenon DEF ReqStepOK
    <3> QED BY <3>1, <3>2, Zenon
  <2> QED BY <2>1, Zenon DEF ReqInv
<1>3. GoneInv'
  BY <1>0 DEF GoneInv, ReqStepOK
<1>4. ClaimInv'
  <2>1. ASSUME NEW u \in Tasks, x'[u].race, SameClaim(u)
        PROVE  /\ x'[u].pid <= ac_prot_req_seq'
               /\ \A r \in HandoffTarget(u)' : req'[r].owner = u
    <3>1. /\ x'[u].preq = x[u].preq /\ x'[u].pid = x[u].pid /\ x[u].race
          /\ x[u] \in TaskRec /\ x[u].pid <= ac_prot_req_seq
      BY <1>0, <2>1 DEF SameClaim, ForkTypeOK, ClaimInv, ClaimOf
    <3>2. x[u].pid \in Nat /\ ac_prot_req_seq \in Nat /\ ac_prot_req_seq' \in Nat
      BY <3>1, <1>0 DEF TaskRec, ForkTypeOK
    <3>3. ASSUME NEW r \in HandoffTarget(u)' PROVE req'[r].owner = u
      <4>1. r \in Reqs /\ r = x[u].preq /\ req'[r].linked /\ req'[r].id = x[u].pid
        BY <3>1, <3>3 DEF HandoffTarget
      <4>2. req[r].linked /\ req'[r].id = req[r].id /\ req'[r].owner = req[r].owner
        <5>1. req'[r].id <= ac_prot_req_seq
          BY <4>1, <3>1, Zenon
        <5>2. ~ (req'[r].id > ac_prot_req_seq)
          BY <5>1, <4>1, <3>2
        <5>3. ReqStepOK(r)
          BY <4>1, Zenon
        <5> QED BY <5>2, <5>3, <4>1, Zenon DEF ReqStepOK
      <4>3. r \in HandoffTarget(u)
        BY <4>1, <4>2 DEF HandoffTarget
      <4> QED BY <4>2, <4>3, <3>1, <2>1, <1>0, Zenon DEF ClaimInv, ClaimOf
    <3> QED BY <3>1, <3>2, <3>3
  <2>2. \A u \in Tasks : SameClaim(u) \/ ClaimOf(u)'
    BY Zenon DEF SameTask, SameClaim
  <2> QED BY <2>1, <2>2, Zenon DEF ClaimInv, ClaimOf
<1>5. DropInv'
  <2> SUFFICES ASSUME NEW r \in Reqs, req'[r].pc = "drop", NEW u \in Tasks
               PROVE  tmm'[u] # req'[r].old
    BY DEF DropInv
  <2>1. CASE req'[r] # req[r]
    BY <2>1, Zenon DEF ReqStepOK
  <2>2. CASE req'[r] = req[r]
    <3>1. req[r].old \in MMs
      BY <2>2, <1>0 DEF ReqInv, ReqOf, ForkTypeOK, ReqRec, AnyMM
    <3>2. users[req[r].old] >= 1 /\ req[r].old # NoMM
      BY <3>1, <1>0, OldHeld, NamesAssumption
    <3>3. users[req[r].old] # 0
      BY <3>1, <3>2, <1>0 DEF ForkTypeOK
    <3>4. \A w \in Tasks : tmm[w] # req[r].old
      BY <2>2, <1>0, Zenon DEF DropInv
    <3>5. MmStepOK(u)
      BY Zenon DEF SameTask, MmStepOK
    <3> QED BY <2>2, <3>2, <3>3, <3>4, <3>5, Zenon DEF MmStepOK
  <2> QED BY <2>1, <2>2, Zenon
<1> QED BY <1>1, <1>2, <1>3, <1>4, <1>5, Zenon DEF RefInv

(* A step of the worker on a request.                                      *)
LEMMA WorkerKeeps ==
  ASSUME RefInv, NEW r \in Reqs, NEW q \in ReqRec, req' = [req EXCEPT ![r] = q],
         req[r].pc # "free", UNCHANGED <<tmm, x, pins, ac_prot_req_seq, phase>>,
         users' \in [MMs -> Int],
         \A m \in MMs : users'[m] = users[m] + Is(q.mm, m) - Is(req[r].mm, m)
                                    + Is(q.old, m) - Is(req[r].old, m)
                                    + Is(q.post, m) - Is(req[r].post, m),
         ReqOf(q, ac_prot_req_seq),
         q.linked => req[r].linked /\ q.id = req[r].id /\ q.owner = req[r].owner,
         q.pc = "drop" => \A u \in Tasks : tmm[u] # q.old
  PROVE  RefInv'
<1>0. /\ ForkTypeOK /\ PinInv /\ GoneInv /\ ReferencesBalance /\ ac_prot_req_seq \in Nat
      /\ phase # "gone"
  BY Zenon DEF RefInv, ForkTypeOK, GoneInv
<1>1. ForkTypeOK'
  BY <1>0 DEF ForkTypeOK
<1>2. req'[r] = q /\ \A p \in Reqs \ {r} : req'[p] = req[p]
  BY Zenon, <1>0 DEF ForkTypeOK
<1>3. ReferencesBalance'
  <2>1. \A m \in MMs : users'[m] = users[m] + Is(tmm'[Root], m) - Is(tmm[Root], m)
                                    + Is(pins'[Root], m) - Is(pins[Root], m)
                                    + Is(req'[r].mm, m) - Is(req[r].mm, m)
                                    + Is(req'[r].old, m) - Is(req[r].old, m)
                                    + Is(req'[r].post, m) - Is(req[r].post, m)
    BY <1>0, <1>2 DEF Is, ForkTypeOK
  <2>2. Root \in Tasks
    BY NamesAssumption
  <2> QED BY Zenon, <2>1, <2>2, <1>0, <1>1, <1>2, BalanceBoth
<1>4. \A p \in Reqs : ReqStepOK(p)
  BY <1>0, <1>2, Zenon DEF ReqStepOK
<1>5. /\ Root \in Tasks /\ \A u \in Tasks : SameTask(u) /\ SameClaim(u) /\ MmStepOK(u)
  BY NamesAssumption DEF SameTask, SameClaim, MmStepOK
<1>6. PinOf(Root)'
  BY <1>0, <1>5 DEF PinInv, PinOf
<1>7. ac_prot_req_seq' >= ac_prot_req_seq /\ phase' = phase
  BY <1>0
<1> QED BY <1>1, <1>3, <1>4, <1>5, <1>6, <1>7, StepKeeps, Zenon

(* What a request may hold, field by field.                                *)
LEMMA ReqTyped ==
  ASSUME RefInv, NEW r \in Reqs
  PROVE  /\ req[r] \in ReqRec /\ ReqOf(req[r], ac_prot_req_seq)
         /\ users \in [MMs -> Int] /\ ac_prot_req_seq \in Nat
BY DEF RefInv, ForkTypeOK, ReqInv

(* A free request holds nothing.                                           *)
LEMMA FreeTyped == Free \in ReqRec /\ ReqOf(Free, ac_prot_req_seq)
<1>1. NoMM \in AnyMM /\ Root \in Tasks
  BY NamesAssumption DEF AnyMM
<1>2. Free \in ReqRec
  BY <1>1 DEF Free, ReqRec, ReqPcs
<1> QED BY <1>2 DEF ReqOf, Free

(* Steps of the worker that leave the references as they are.              *)
LEMMA StartKeeps == ASSUME RefInv, NEW r \in Reqs, Start(r) PROVE RefInv'
<1> DEFINE l == IF req[r].linked /\ req[r].claimed THEN "wait" ELSE "add"
           q == [req[r] EXCEPT !.pc = l]
<1>1. /\ req[r].pc = "queued" /\ req' = [req EXCEPT ![r] = q] /\ users' = users
      /\ UNCHANGED <<tmm, x, pins, ac_prot_req_seq, phase>>
  BY DEF Start, Worker, rest
<1>2. /\ req[r] \in ReqRec /\ ReqOf(req[r], ac_prot_req_seq)
      /\ users \in [MMs -> Int] /\ ac_prot_req_seq \in Nat
  BY ReqTyped
<1>3. l \in {"wait", "add"} /\ (l = "wait" => req[r].linked)
  OBVIOUS
<1> HIDE DEF l
<1>4. q \in ReqRec
  BY <1>2, <1>3 DEF ReqRec, ReqPcs
<1>5. /\ q.pc = l /\ q.mm = req[r].mm /\ q.old = req[r].old /\ q.post = req[r].post
      /\ q.pid = req[r].pid /\ q.owner = req[r].owner /\ q.ppid = req[r].ppid
      /\ q.linked = req[r].linked /\ q.id = req[r].id
  BY Zenon, <1>2 DEF ReqRec
<1> HIDE DEF q
<1>6. ReqOf(q, ac_prot_req_seq)
  BY <1>1, <1>2, <1>3, <1>5 DEF ReqOf
<1>7. \A m \in MMs : users'[m] = users[m] + Is(q.mm, m) - Is(req[r].mm, m)
                                    + Is(q.old, m) - Is(req[r].old, m)
                                    + Is(q.post, m) - Is(req[r].post, m)
  BY <1>1, <1>2, <1>5 DEF Is
<1> QED BY Zenon, <1>1, <1>2, <1>3, <1>4, <1>5, <1>6, <1>7, WorkerKeeps

(* The worker enters its own address space: no reference moves.            *)
LEMMA AddOwnKeeps == ASSUME RefInv, NEW r \in Reqs, AddOwn(r) PROVE RefInv'
<1>0. PICK good \in BOOLEAN :
        Worker(r, "add", [req[r] EXCEPT !.ok = good,
                            !.pc = IF req[r].old = NoMM THEN "unlink" ELSE "decide"])
  BY Zenon DEF AddOwn
<1> DEFINE l == IF req[r].old = NoMM THEN "unlink" ELSE "decide"
           q == [req[r] EXCEPT !.ok = good, !.pc = l]
<1>1. /\ req[r].pc = "add" /\ req' = [req EXCEPT ![r] = q] /\ users' = users
      /\ UNCHANGED <<tmm, x, pins, ac_prot_req_seq, phase>>
  BY Zenon, <1>0 DEF AddOwn, Worker, rest
<1>2. /\ req[r] \in ReqRec /\ ReqOf(req[r], ac_prot_req_seq)
      /\ users \in [MMs -> Int] /\ ac_prot_req_seq \in Nat
  BY ReqTyped
<1>3. /\ l \in {"unlink", "decide"} /\ (l = "unlink" <=> req[r].linked)
      /\ (l = "decide" => req[r].old # NoMM)
  BY <1>1, <1>2 DEF ReqOf
<1> HIDE DEF l
<1>4. q \in ReqRec
  BY Zenon, <1>2, <1>3 DEF ReqRec, ReqPcs
<1>5. /\ q.pc = l /\ q.mm = req[r].mm /\ q.old = req[r].old /\ q.post = req[r].post
      /\ q.pid = req[r].pid /\ q.owner = req[r].owner /\ q.ppid = req[r].ppid
      /\ q.linked = req[r].linked /\ q.id = req[r].id
  BY <1>2 DEF ReqRec
<1> HIDE DEF q
<1>6. ReqOf(q, ac_prot_req_seq)
  BY <1>1, <1>2, <1>3, <1>5 DEF ReqOf
<1>7. \A m \in MMs : users'[m] = users[m] + Is(q.mm, m) - Is(req[r].mm, m)
                                    + Is(q.old, m) - Is(req[r].old, m)
                                    + Is(q.post, m) - Is(req[r].post, m)
  BY <1>1, <1>2, <1>5 DEF Is
<1> QED BY Zenon, <1>1, <1>2, <1>3, <1>4, <1>5, <1>6, <1>7, WorkerKeeps

(* The rekey's decision: one user is the request itself.                   *)
LEMMA LastUser ==
  ASSUME ForkTypeOK, ReferencesBalance, NEW r \in Reqs, req[r].old \in MMs,
         ~StillShared(r), NEW t \in Tasks
  PROVE  tmm[t] # req[r].old
<1> DEFINE m == req[r].old
<1> SUFFICES ASSUME tmm[t] = m PROVE FALSE
  OBVIOUS
<1>1. users[m] = TaskRefs(m) + ReqRefs(m) /\ users[m] \in Int
  BY RefsSplit DEF ReferencesBalance, ForkTypeOK
<1>2. Held(MmOf, m) \in Nat /\ Held(OldOf, m) \in Nat /\ Held(PostOf, m) \in Nat
  BY Zenon, HeldNat, FieldsTyped, NamesAssumption
<1>3. OldOf[r] = m
  BY DEF OldOf
<1>4. Held(OldOf, m) # 0
  BY Zenon, <1>3, HeldNat, FieldsTyped, NamesAssumption
<1>5. tmm \in [Tasks -> AnyMM] /\ pins \in [Tasks -> AnyMM]
  BY DEF ForkTypeOK
<1>6. Held(tmm, m) \in Nat /\ Held(pins, m) \in Nat /\ Held(tmm, m) # 0
  BY Zenon, <1>5, HeldNat, NamesAssumption
<1>7. ~ (users[m] > 1)
  BY DEF StillShared
<1> QED BY <1>1, <1>2, <1>4, <1>6, <1>7 DEF ReqRefs, TaskRefs

(* The rekey's walk of the task list, and the drop of the old entry.       *)
LEMMA DecideKeeps == ASSUME RefInv, NEW r \in Reqs, Decide(r) \/ DropOld(r) PROVE RefInv'
<1>0. PICK l \in {"drop", "finish"} :
        /\ req' = [req EXCEPT ![r] = [req[r] EXCEPT !.pc = l]]
        /\ req[r].pc \in {"decide", "drop"}
        /\ l = "drop" => ~StillShared(r)
  BY DEF Decide, DropOld, Worker
<1> DEFINE q == [req[r] EXCEPT !.pc = l]
<1>1. /\ req' = [req EXCEPT ![r] = q] /\ users' = users
      /\ UNCHANGED <<tmm, x, pins, ac_prot_req_seq, phase>>
  BY <1>0 DEF Decide, DropOld, rest
<1>2. /\ req[r] \in ReqRec /\ ReqOf(req[r], ac_prot_req_seq)
      /\ users \in [MMs -> Int] /\ ac_prot_req_seq \in Nat
  BY ReqTyped
<1>3. req[r].old \in MMs /\ ~req[r].linked
  BY <1>0, <1>2 DEF ReqOf, ReqRec, AnyMM
<1>4. q \in ReqRec
  BY <1>2, <1>3 DEF ReqRec, ReqPcs
<1>5. /\ q.pc = l /\ q.mm = req[r].mm /\ q.old = req[r].old /\ q.post = req[r].post
      /\ q.pid = req[r].pid /\ q.owner = req[r].owner /\ q.ppid = req[r].ppid
      /\ q.linked = req[r].linked /\ q.id = req[r].id
  BY <1>2 DEF ReqRec
<1> HIDE DEF q
<1>6. ReqOf(q, ac_prot_req_seq)
  BY <1>0, <1>2, <1>3, <1>5, NamesAssumption DEF ReqOf
<1>7. \A m \in MMs : users'[m] = users[m] + Is(q.mm, m) - Is(req[r].mm, m)
                                    + Is(q.old, m) - Is(req[r].old, m)
                                    + Is(q.post, m) - Is(req[r].post, m)
  BY <1>1, <1>2, <1>5 DEF Is
<1>8. q.pc = "drop" => \A u \in Tasks : tmm[u] # q.old
  BY <1>0, <1>3, <1>5, LastUser DEF RefInv
<1> QED BY Zenon, <1>0, <1>1, <1>2, <1>3, <1>4, <1>5, <1>6, <1>7, <1>8, WorkerKeeps

(* A handoff replaces the mm the request was queued for.                   *)
LEMMA TakeKeeps == ASSUME RefInv, NEW r \in Reqs, TakeHandoff(r) PROVE RefInv'
<1> DEFINE p == req[r].post
           nm == IF p = NoMM THEN req[r].mm ELSE p
           np == IF p = NoMM THEN req[r].pid ELSE req[r].ppid
           l == IF p = NoMM THEN "stale" ELSE "adopt"
           dm == IF p = NoMM THEN NoMM ELSE req[r].mm
           q == [req[r] EXCEPT !.linked = FALSE, !.post = NoMM, !.mm = nm, !.pid = np, !.pc = l]
<1>1. /\ req[r].pc = "wait" /\ req' = [req EXCEPT ![r] = q] /\ users' = Ref(users, dm, -1)
      /\ UNCHANGED <<tmm, x, pins, ac_prot_req_seq, phase>>
  BY DEF TakeHandoff, Worker, Settle, rest
<1>2. /\ req[r] \in ReqRec /\ ReqOf(req[r], ac_prot_req_seq)
      /\ users \in [MMs -> Int] /\ ac_prot_req_seq \in Nat
  BY ReqTyped
<1>3. /\ req[r].linked /\ req[r].old = NoMM /\ req[r].mm # NoMM
      /\ req[r].mm \in AnyMM /\ p \in AnyMM /\ NoMM \in AnyMM
  BY <1>1, <1>2 DEF ReqOf, ReqRec, AnyMM
<1>4. nm \in AnyMM /\ nm # NoMM /\ np \in Tasks /\ l \in {"stale", "adopt"} /\ dm \in AnyMM
  BY <1>2, <1>3 DEF ReqRec
<1>5. \A m \in MMs : Is(nm, m) - Is(req[r].mm, m) - Is(p, m) = 0 - Is(dm, m)
  BY <1>3, NamesAssumption DEF Is
<1> HIDE DEF nm, np, l, dm
<1>6. q \in ReqRec
  BY Zenon, <1>2, <1>3, <1>4 DEF ReqRec, ReqPcs
<1>7. /\ q.pc = l /\ q.mm = nm /\ q.old = req[r].old /\ q.post = NoMM /\ ~q.linked
  BY <1>2 DEF ReqRec
<1> HIDE DEF q
<1>8. ReqOf(q, ac_prot_req_seq)
  BY <1>3, <1>4, <1>7 DEF ReqOf
<1>9. users' \in [MMs -> Int] /\ \A m \in MMs : users'[m] = users[m] - Is(dm, m)
  BY <1>1, <1>2, <1>4, RefAt
<1>10. \A m \in MMs : users'[m] = users[m] + Is(q.mm, m) - Is(req[r].mm, m)
                                    + Is(q.old, m) - Is(req[r].old, m)
                                    + Is(q.post, m) - Is(req[r].post, m)
  BY <1>2, <1>5, <1>7, <1>9, NamesAssumption DEF Is
<1> QED BY Zenon, <1>1, <1>4, <1>6, <1>7, <1>8, <1>9, <1>10, WorkerKeeps

(* The worker is done with a request and drops what it holds.              *)
LEMMA FreeKeeps ==
  ASSUME RefInv, NEW r \in Reqs, req[r].pc # "free", req[r].post = NoMM,
         req' = [req EXCEPT ![r] = Free], UNCHANGED <<tmm, x, pins, ac_prot_req_seq, phase>>,
         users' = Ref(Ref(users, req[r].old, -1), req[r].mm, -1)
  PROVE  RefInv'
<1> DEFINE q == Free
<1>1. q \in ReqRec /\ ReqOf(q, ac_prot_req_seq)
  BY FreeTyped
<1>2. /\ req[r] \in ReqRec /\ ReqOf(req[r], ac_prot_req_seq)
      /\ users \in [MMs -> Int] /\ ac_prot_req_seq \in Nat
  BY ReqTyped
<1>3. req[r].old \in AnyMM /\ req[r].mm \in AnyMM
  BY <1>2 DEF ReqRec
<1>4. /\ Ref(users, req[r].old, -1) \in [MMs -> Int]
      /\ \A m \in MMs : Ref(users, req[r].old, -1)[m] = users[m] - Is(req[r].old, m)
  BY <1>2, <1>3, RefAt
<1>5. /\ users' \in [MMs -> Int]
      /\ \A m \in MMs : users'[m] = Ref(users, req[r].old, -1)[m] - Is(req[r].mm, m)
  BY <1>3, <1>4, RefAt
<1>6. q.mm = NoMM /\ q.old = NoMM /\ q.post = NoMM /\ ~q.linked /\ q.pc = "free"
  BY Zenon DEF Free
<1>7. \A m \in MMs : users'[m] = users[m] + Is(q.mm, m) - Is(req[r].mm, m)
                                    + Is(q.old, m) - Is(req[r].old, m)
                                    + Is(q.post, m) - Is(req[r].post, m)
  BY <1>2, <1>4, <1>5, <1>6, NamesAssumption DEF Is
<1> HIDE DEF q
<1>8. req' = [req EXCEPT ![r] = q]
  BY DEF q
<1> QED BY Zenon, <1>1, <1>5, <1>6, <1>7, <1>8, WorkerKeeps

(* The end of an item, and the entry of an image handed over.              *)
LEMMA FinishKeeps == ASSUME RefInv, NEW r \in Reqs, Finish(r) \/ AddHandoff(r) PROVE RefInv'
<1>1. CASE Finish(r)
  <2>1. /\ req[r].pc = "finish" /\ req' = [req EXCEPT ![r] = Free]
        /\ users' = Ref(Ref(users, req[r].old, -1), req[r].mm, -1)
        /\ UNCHANGED <<tmm, x, pins, ac_prot_req_seq, phase>>
    BY <1>1 DEF Finish, Worker, Settle, rest
  <2>2. req[r].post = NoMM
    BY <2>1, ReqTyped DEF ReqOf
  <2> QED BY Zenon, <2>1, <2>2, FreeKeeps
<1>2. CASE AddHandoff(r)
  <2>1. /\ req[r].pc \in {"adopt", "stale"} /\ req' = [req EXCEPT ![r] = Free]
        /\ users' = Ref(users, req[r].mm, -1)
        /\ UNCHANGED <<tmm, x, pins, ac_prot_req_seq, phase>>
    BY Zenon, <1>2 DEF AddHandoff, Worker, Settle, rest
  <2>2. req[r].post = NoMM /\ req[r].old = NoMM
    BY <2>1, ReqTyped DEF ReqOf
  <2>3. Ref(users, req[r].old, -1) = users
    BY <2>2 DEF Ref
  <2> QED BY Zenon, <2>1, <2>2, <2>3, FreeKeeps
<1> QED BY <1>1, <1>2

(* The request leaves the list; a handoff it did not need is dropped ...   *)
LEMMA UnlinkKeeps == ASSUME RefInv, NEW r \in Reqs, Unlink(r) PROVE RefInv'
<1> DEFINE p == req[r].post
           np == IF p = req[r].mm THEN NoMM ELSE p
           l == IF p \in {NoMM, req[r].mm} THEN "finish" ELSE "carry"
           dm == IF p = req[r].mm THEN req[r].mm ELSE NoMM
           q == [req[r] EXCEPT !.linked = FALSE, !.post = np, !.pc = l]
<1>1. /\ req[r].pc = "unlink" /\ req' = [req EXCEPT ![r] = q] /\ users' = Ref(users, dm, -1)
      /\ UNCHANGED <<tmm, x, pins, ac_prot_req_seq, phase>>
  BY ReqTyped DEF Unlink, Worker, Settle, rest, ReqRec
<1>2. /\ req[r] \in ReqRec /\ ReqOf(req[r], ac_prot_req_seq)
      /\ users \in [MMs -> Int] /\ ac_prot_req_seq \in Nat
  BY ReqTyped
<1>3. /\ req[r].linked /\ req[r].old = NoMM /\ req[r].mm # NoMM
      /\ req[r].mm \in AnyMM /\ p \in AnyMM /\ NoMM \in AnyMM
  BY <1>1, <1>2 DEF ReqOf, ReqRec, AnyMM
<1>4. /\ np \in AnyMM /\ l \in {"finish", "carry"} /\ dm \in AnyMM
      /\ np # NoMM => l = "carry" /\ np = p
  BY <1>3
<1>5. \A m \in MMs : Is(np, m) - Is(p, m) = 0 - Is(dm, m)
  BY <1>3, NamesAssumption DEF Is
<1> HIDE DEF np, l, dm
<1>6. q \in ReqRec
  BY Zenon, <1>2, <1>3, <1>4 DEF ReqRec, ReqPcs
<1>7. /\ q.pc = l /\ q.mm = req[r].mm /\ q.old = req[r].old /\ q.post = np /\ ~q.linked
      /\ q.ppid = req[r].ppid /\ q.owner = req[r].owner
  BY <1>2 DEF ReqRec
<1> HIDE DEF q
<1>8. ReqOf(q, ac_prot_req_seq)
  BY <1>2, <1>3, <1>4, <1>7 DEF ReqOf
<1>9. users' \in [MMs -> Int] /\ \A m \in MMs : users'[m] = users[m] - Is(dm, m)
  BY Zenon, <1>1, <1>2, <1>4, RefAt
<1>10. \A m \in MMs : users'[m] = users[m] + Is(q.mm, m) - Is(req[r].mm, m)
                                    + Is(q.old, m) - Is(req[r].old, m)
                                    + Is(q.post, m) - Is(req[r].post, m)
  BY <1>2, <1>5, <1>7, <1>9 DEF Is
<1> QED BY Zenon, <1>1, <1>4, <1>6, <1>7, <1>8, <1>9, <1>10, WorkerKeeps

(* ... and one it did is registered first.                                 *)
LEMMA CarryKeeps == ASSUME RefInv, NEW r \in Reqs, AddCarried(r) PROVE RefInv'
<1> DEFINE q == [req[r] EXCEPT !.post = NoMM, !.pc = "finish"]
<1>1. /\ req[r].pc = "carry" /\ req' = [req EXCEPT ![r] = q]
      /\ users' = Ref(users, req[r].post, -1)
      /\ UNCHANGED <<tmm, x, pins, ac_prot_req_seq, phase>>
  BY DEF AddCarried, Worker, Settle, rest
<1>2. /\ req[r] \in ReqRec /\ ReqOf(req[r], ac_prot_req_seq)
      /\ users \in [MMs -> Int] /\ ac_prot_req_seq \in Nat
  BY ReqTyped
<1>3. /\ ~req[r].linked /\ req[r].mm # NoMM /\ req[r].post \in AnyMM /\ NoMM \in AnyMM
  BY <1>1, <1>2 DEF ReqOf, ReqRec, AnyMM
<1>4. q \in ReqRec
  BY Zenon, <1>2, <1>3 DEF ReqRec, ReqPcs
<1>5. /\ q.pc = "finish" /\ q.mm = req[r].mm /\ q.old = req[r].old /\ q.post = NoMM
      /\ q.linked = req[r].linked
  BY <1>2 DEF ReqRec
<1> HIDE DEF q
<1>6. ReqOf(q, ac_prot_req_seq)
  BY <1>3, <1>5 DEF ReqOf
<1>7. users' \in [MMs -> Int] /\ \A m \in MMs : users'[m] = users[m] - Is(req[r].post, m)
  BY <1>1, <1>2, <1>3, RefAt
<1>8. \A m \in MMs : users'[m] = users[m] + Is(q.mm, m) - Is(req[r].mm, m)
                                    + Is(q.old, m) - Is(req[r].old, m)
                                    + Is(q.post, m) - Is(req[r].post, m)
  BY <1>2, <1>5, <1>7, NamesAssumption DEF Is
<1> QED BY Zenon, <1>1, <1>3, <1>4, <1>5, <1>6, <1>7, <1>8, WorkerKeeps

-----------------------------------------------------------------------------
(* A task in user space is inside no handler and has no pin.               *)
LEMMA UserTyped ==
  /\ User \in TaskRec /\ User.pc = "user" /\ ~User.race /\ User.old = NoMM
  /\ \A a, ph : PinRec(User, a, NoMM, ph)
<1>1. NoMM \in AnyMM /\ Root \in Tasks
  BY NamesAssumption DEF AnyMM
<1>2. User \in TaskRec
  BY <1>1 DEF User, TaskRec
<1> QED BY <1>2 DEF User, PinRec

(* The fields of a task.                                                   *)
LEMMA TaskTyped ==
  ASSUME RefInv, NEW t \in Tasks
  PROVE  /\ x[t] \in TaskRec /\ tmm[t] \in AnyMM /\ pins[t] \in AnyMM
         /\ PinRec(x[t], tmm[t], pins[t], phase)
         /\ users \in [MMs -> Int] /\ ac_prot_req_seq \in Nat
BY Zenon DEF RefInv, ForkTypeOK, PinInv, PinOf

(* A step of one task that leaves the requests alone.                      *)
LEMMA TaskKeeps ==
  ASSUME RefInv, NEW t \in Tasks, NEW y \in TaskRec, NEW a \in AnyMM, NEW p \in AnyMM,
         x' = [x EXCEPT ![t] = y], tmm' = [tmm EXCEPT ![t] = a], pins' = [pins EXCEPT ![t] = p],
         UNCHANGED <<req, ac_prot_req_seq, phase>>, users' \in [MMs -> Int],
         \A m \in MMs : users'[m] = users[m] + Is(a, m) - Is(tmm[t], m) + Is(p, m) - Is(pins[t], m),
         PinRec(y, a, p, phase),
         y.race => x[t].race /\ y.preq = x[t].preq /\ y.pid = x[t].pid,
         a \in {NoMM, tmm[t]} \/ users[a] = 0
  PROVE  RefInv'
<1>0. ForkTypeOK /\ ReferencesBalance /\ ac_prot_req_seq \in Nat
  BY Zenon DEF RefInv, ForkTypeOK
<1>1. ForkTypeOK'
  BY <1>0 DEF ForkTypeOK
<1>2. /\ x'[t] = y /\ tmm'[t] = a /\ pins'[t] = p
      /\ \A u \in Tasks \ {t} : x'[u] = x[u] /\ tmm'[u] = tmm[u] /\ pins'[u] = pins[u]
  BY Zenon, <1>0 DEF ForkTypeOK
<1>3. ReferencesBalance'
  <2>1. \A m \in MMs : users'[m] = users[m] + Is(tmm'[t], m) - Is(tmm[t], m)
                                              + Is(pins'[t], m) - Is(pins[t], m)
    BY <1>2
  <2>2. \A u \in Tasks \ {t} : tmm'[u] = tmm[u] /\ pins'[u] = pins[u]
    BY <1>2, Zenon
  <2> QED BY Zenon, <2>1, <2>2, <1>0, <1>1, BalanceTask
<1>4. \A u \in Tasks \ {t, t} : SameTask(u)
  BY <1>2, Zenon DEF SameTask
<1>5. PinOf(t)'
  BY <1>2 DEF PinOf
<1>6. SameClaim(t) /\ MmStepOK(t)
  BY <1>2 DEF SameClaim, MmStepOK
<1>7. \A r \in Reqs : ReqStepOK(r)
  BY DEF ReqStepOK
<1>8. ac_prot_req_seq' >= ac_prot_req_seq /\ phase' = phase
  BY <1>0
<1>9. \A u \in {t, t} : SameClaim(u) \/ ClaimOf(u)'
  BY <1>6, Zenon
<1> QED BY <1>1, <1>3, <1>4, <1>5, <1>6, <1>7, <1>8, <1>9, StepKeeps

(* A handler that returns and has queued a request, or could not: the pin  *)
(* of an exec goes to the request.                                         *)
LEMMA ScheduleKeeps ==
  ASSUME RefInv, NEW t \in Tasks, NEW c \in Tasks, NEW m \in MMs, phase = "loaded",
         x' = [x EXCEPT ![t] = User], pins' = [pins EXCEPT ![t] = NoMM],
         UNCHANGED <<tmm, phase>>, Schedule(Ref(users, m, 1), m, pins[t], c)
  PROVE  RefInv'
<1> DEFINE o == pins[t]
<1>0. /\ ForkTypeOK /\ ReferencesBalance /\ ac_prot_req_seq \in Nat /\ users \in [MMs -> Int]
      /\ o \in AnyMM /\ m \in AnyMM /\ NoMM \in AnyMM /\ m # NoMM
  BY NamesAssumption DEF RefInv, ForkTypeOK, AnyMM
<1>1. /\ Ref(users, m, 1) \in [MMs -> Int]
      /\ \A k \in MMs : Ref(users, m, 1)[k] = users[k] + Is(m, k)
  BY <1>0, RefAt
<1>2. CASE UNCHANGED <<req, ac_prot_req_seq>>
           /\ users' = Ref(Ref(Ref(users, m, 1), m, -1), o, -1)
  <2>1. /\ Ref(Ref(users, m, 1), m, -1) \in [MMs -> Int]
        /\ \A k \in MMs : Ref(Ref(users, m, 1), m, -1)[k] = Ref(users, m, 1)[k] - Is(m, k)
    BY <1>0, <1>1, RefAt
  <2>2. /\ users' \in [MMs -> Int]
        /\ \A k \in MMs : users'[k] = Ref(Ref(users, m, 1), m, -1)[k] - Is(o, k)
    BY <1>0, <1>2, <2>1, RefAt
  <2>3. \A k \in MMs : users'[k] = users[k] + Is(tmm[t], k) - Is(tmm[t], k)
                                    + Is(NoMM, k) - Is(pins[t], k)
    BY <1>0, <1>1, <2>1, <2>2, NamesAssumption DEF Is
  <2>4. tmm' = [tmm EXCEPT ![t] = tmm[t]] /\ tmm[t] \in AnyMM
    BY <1>0 DEF ForkTypeOK
  <2> QED BY ZenonT(40), <1>0, <1>2, <2>2, <2>3, <2>4, UserTyped, TaskKeeps
<1>3. ASSUME NEW r \in Reqs, req[r].pc = "free", req' = [req EXCEPT ![r] = NewReq(m, o, c)],
             ac_prot_req_seq' = ac_prot_req_seq + (IF o = NoMM THEN 1 ELSE 0),
             users' = Ref(users, m, 1)
      PROVE  RefInv'
  <2> DEFINE q == NewReq(m, o, c)
             l == (o = NoMM)
             n == IF o = NoMM THEN ac_prot_req_seq + 1 ELSE 0
  <2>1. n \in Nat /\ l \in BOOLEAN /\ ac_prot_req_seq' \in Nat /\ ac_prot_req_seq' >= ac_prot_req_seq
    BY <1>0, <1>3
  <2>2. l => n <= ac_prot_req_seq' /\ n > ac_prot_req_seq
    BY <1>0, <1>3
  <2>3. q = [Free EXCEPT !.pc = "queued", !.mm = m, !.old = o, !.pid = c, !.owner = c,
                         !.linked = l, !.id = n]
    BY Zenon DEF NewReq
  <2>4. l <=> o = NoMM
    OBVIOUS
  <2> HIDE DEF q, l, n
  <2>5. q \in ReqRec
    BY Zenon, <2>1, <2>3, <1>0, FreeTyped DEF ReqRec, ReqPcs
  <2>6. /\ q.pc = "queued" /\ q.mm = m /\ q.old = o /\ q.pid = c /\ q.owner = c /\ q.linked = l
        /\ q.id = n /\ q.post = NoMM
    BY Zenon, <2>3 DEF Free
  <2>7. ReqOf(q, ac_prot_req_seq')
    BY <1>0, <2>2, <2>4, <2>6 DEF ReqOf
  <2>8. req' = [req EXCEPT ![r] = q]
    BY <1>3 DEF q
  <2>9. req'[r] = q /\ \A k \in Reqs \ {r} : req'[k] = req[k]
    BY <1>0, <2>8 DEF ForkTypeOK
  <2>10. /\ x'[t] = User /\ pins'[t] = NoMM
         /\ \A u \in Tasks \ {t} : x'[u] = x[u] /\ tmm'[u] = tmm[u] /\ pins'[u] = pins[u]
    BY <1>0 DEF ForkTypeOK
  <2>11. ForkTypeOK'
    BY SMTT(20), <1>0, <1>1, <1>3, <2>1, <2>5, <2>8, UserTyped DEF ForkTypeOK
  <2>12. ReferencesBalance'
    <3>1. req[r].mm = NoMM /\ req[r].old = NoMM /\ req[r].post = NoMM
      BY Zenon, <1>3, ReqTyped DEF ReqOf
    <3>2. \A k \in MMs : users'[k] = users[k] + Is(tmm'[t], k) - Is(tmm[t], k)
                                    + Is(pins'[t], k) - Is(pins[t], k)
                                    + Is(req'[r].mm, k) - Is(req[r].mm, k)
                                    + Is(req'[r].old, k) - Is(req[r].old, k)
                                    + Is(req'[r].post, k) - Is(req[r].post, k)
      BY SMTT(20), <1>0, <1>1, <1>3, <2>6, <2>9, <2>10, <3>1, NamesAssumption DEF Is
    <3>3. \A u \in Tasks \ {t} : tmm'[u] = tmm[u] /\ pins'[u] = pins[u]
      BY <2>10, Zenon
    <3> QED BY SMTT(20), <3>2, <3>3, <2>9, <2>11, <1>0, BalanceBoth
  <2>13. \A k \in Reqs : ReqStepOK(k)
    <3>1. ReqStepOK(r)
      BY ZenonT(40), <2>2, <2>6, <2>7, <2>9 DEF ReqStepOK
    <3> QED BY <3>1, <2>9, ZenonT(40) DEF ReqStepOK
  <2>14. /\ SameClaim(t) /\ MmStepOK(t) /\ PinOf(t)'
    BY <2>10, UserTyped DEF SameClaim, MmStepOK, PinOf
  <2>15. \A u \in Tasks \ {t, t} : SameTask(u)
    BY <2>10, Zenon DEF SameTask
  <2>16. \A u \in {t, t} : SameClaim(u) \/ ClaimOf(u)'
    BY <2>14, Zenon
  <2> QED BY Zenon, <2>1, <2>11, <2>12, <2>13, <2>14, <2>15, <2>16, StepKeeps
<1> QED BY <1>2, <1>3, Zenon DEF Schedule, Settle

(* fork() and clone(): the child's address space has one user more.        *)
LEMMA ForkKeeps == ASSUME RefInv, NEW t \in Tasks, NEW c \in Tasks, Fork(t, c) PROVE RefInv'
<1>0. /\ ForkTypeOK /\ PinInv /\ ReferencesBalance /\ ac_prot_req_seq \in Nat
      /\ users \in [MMs -> Int]
  BY Zenon DEF RefInv, ForkTypeOK
<1>1. PICK m \in MMs : /\ users[m] = 0 \/ m = tmm[t]
                       /\ tmm' = [tmm EXCEPT ![c] = m] /\ users' = Ref(users, m, 1)
  BY Zenon, <1>0 DEF Fork, Runs, ForkTypeOK, AnyMM
<1>2. /\ tmm[t] # NoMM /\ x[t].pc = "user" /\ x[c].pc = "unborn" /\ phase = "loaded" /\ t # c
      /\ x' = [x EXCEPT ![t].pc = "clone", ![t].child = c, ![c] = User]
      /\ UNCHANGED <<pins, req, ac_prot_req_seq, phase>>
  BY DEF Fork, Runs
<1> DEFINE y == [x[t] EXCEPT !.pc = "clone", !.child = c]
<1>3. /\ x'[t] = y /\ x'[c] = User /\ \A u \in Tasks \ {t, c} : x'[u] = x[u]
      /\ x' \in [Tasks -> TaskRec] /\ y.pc = "clone" /\ y.race = x[t].race /\ y.old = x[t].old
      /\ y.preq = x[t].preq /\ y.pid = x[t].pid
  <2>1. x \in [Tasks -> TaskRec] /\ User \in TaskRec /\ x[t] \in TaskRec
    BY <1>0, UserTyped DEF ForkTypeOK
  <2>2. y \in TaskRec
    BY Zenon, <2>1 DEF TaskRec
  <2>3. x' = [[x EXCEPT ![t] = y] EXCEPT ![c] = User]
    BY Zenon, <1>2, <2>1
  <2>4. /\ y.pc = "clone" /\ y.race = x[t].race /\ y.old = x[t].old
        /\ y.preq = x[t].preq /\ y.pid = x[t].pid
    BY <2>1 DEF TaskRec
  <2> HIDE DEF y
  <2> QED BY <1>2, <2>1, <2>2, <2>3, <2>4
<1> HIDE DEF y
<1>4. /\ m \in AnyMM /\ m # NoMM /\ tmm[c] = NoMM /\ pins[c] = NoMM /\ pins[t] = NoMM
      /\ x[t].old = NoMM /\ ~x[t].race
  BY <1>0, <1>2, NamesAssumption DEF PinInv, PinOf, PinRec, AnyMM
<1>5. users' \in [MMs -> Int] /\ \A k \in MMs : users'[k] = users[k] + Is(m, k)
  BY <1>0, <1>1, <1>4, RefAt
<1>6. tmm'[c] = m /\ \A u \in Tasks \ {c} : tmm'[u] = tmm[u]
  BY <1>0, <1>1 DEF ForkTypeOK
<1>7. ForkTypeOK'
  BY Zenon, <1>0, <1>1, <1>2, <1>3, <1>4, <1>5 DEF ForkTypeOK
<1>8. ReferencesBalance'
  <2>1. \A k \in MMs : users'[k] = users[k] + Is(tmm'[c], k) - Is(tmm[c], k)
                                              + Is(pins'[c], k) - Is(pins[c], k)
    BY <1>0, <1>2, <1>4, <1>5, <1>6, NamesAssumption DEF Is
  <2>2. \A u \in Tasks \ {c} : tmm'[u] = tmm[u] /\ pins'[u] = pins[u]
    BY <1>2, <1>6, Zenon
  <2>3. req' = req
    BY <1>2
  <2> QED BY <2>1, <2>2, <2>3, <1>0, <1>7, BalanceTask
<1>9. PinOf(t)' /\ PinOf(c)'
  BY SMTT(20), <1>2, <1>3, <1>4, <1>6, UserTyped DEF PinOf, PinRec
<1>10. SameClaim(t) /\ SameClaim(c)
  BY <1>3, <1>4, UserTyped DEF SameClaim
<1>11. MmStepOK(t) /\ MmStepOK(c)
  BY <1>1, <1>2, <1>6, Zenon DEF MmStepOK
<1>12. \A u \in Tasks \ {t, c} : SameTask(u)
  BY <1>2, <1>3, <1>6, Zenon DEF SameTask
<1>13. \A r \in Reqs : ReqStepOK(r)
  BY <1>2 DEF ReqStepOK
<1>14. ac_prot_req_seq' >= ac_prot_req_seq /\ phase' = phase
  BY <1>0, <1>2
<1>15. \A u \in {t, c} : SameClaim(u) \/ ClaimOf(u)'
  BY <1>10, Zenon
<1> QED BY Zenon, <1>7, <1>8, <1>9, <1>11, <1>12, <1>13, <1>14, <1>15, StepKeeps

(* A handler that returns to user space and leaves the requests alone.     *)
LEMMA ReturnKeeps ==
  ASSUME RefInv, NEW t \in Tasks, x' = [x EXCEPT ![t] = User],
         pins' = [pins EXCEPT ![t] = NoMM], UNCHANGED <<tmm, req, ac_prot_req_seq, phase>>,
         users' = Ref(users, pins[t], -1)
  PROVE  RefInv'
<1>1. /\ tmm[t] \in AnyMM /\ pins[t] \in AnyMM /\ NoMM \in AnyMM /\ users \in [MMs -> Int]
      /\ tmm' = [tmm EXCEPT ![t] = tmm[t]]
  BY DEF RefInv, ForkTypeOK, AnyMM
<1>2. users' \in [MMs -> Int] /\ \A m \in MMs : users'[m] = users[m] - Is(pins[t], m)
  BY <1>1, RefAt
<1>3. \A m \in MMs : users'[m] = users[m] + Is(tmm[t], m) - Is(tmm[t], m)
                                  + Is(NoMM, m) - Is(pins[t], m)
  BY <1>1, <1>2, NamesAssumption DEF Is
<1> QED BY Zenon, <1>1, <1>2, <1>3, UserTyped, TaskKeeps

(* ac_clone_ret(): a child may get a request with a reference of its own.  *)
LEMMA CloneRetKeeps == ASSUME RefInv, NEW t \in Tasks, ac_clone_ret(t) PROVE RefInv'
<1>1. /\ x[t].pc = "clone" /\ phase = "loaded" /\ x' = [x EXCEPT ![t] = User]
      /\ UNCHANGED <<tmm, pins, phase>>
  BY Zenon DEF ac_clone_ret, At
<1>2. pins[t] = NoMM /\ x[t] \in TaskRec
  BY <1>1, TaskTyped DEF PinRec
<1>3. pins' = [pins EXCEPT ![t] = NoMM]
  BY <1>1, <1>2 DEF RefInv, ForkTypeOK
<1>4. CASE UNCHANGED <<users, req, ac_prot_req_seq>>
  <2>1. users' = Ref(users, pins[t], -1)
    BY <1>2, <1>4 DEF Ref
  <2> QED BY Zenon, <1>1, <1>3, <1>4, <2>1, ReturnKeeps
<1>5. CASE ~UNCHANGED <<users, req, ac_prot_req_seq>>
  <2> DEFINE c == x[t].child
  <2>1. c \in Tasks
    BY Zenon, <1>2 DEF TaskRec
  <2>2. tmm[c] # NoMM /\ Schedule(Ref(users, tmm[c], 1), tmm[c], NoMM, c)
    BY SMTT(20), <1>5 DEF ac_clone_ret
  <2>3. tmm[c] \in MMs
    BY <2>1, <2>2, TaskTyped DEF AnyMM
  <2> QED BY Zenon, <1>1, <1>2, <1>3, <2>1, <2>2, <2>3, ScheduleKeeps
<1> QED BY <1>4, <1>5, Zenon

(* The exec returned and its claim failed: a new add request.              *)
LEMMA RequeueKeeps == ASSUME RefInv, NEW t \in Tasks, Requeue(t) PROVE RefInv'
<1>1. /\ x[t].pc = "ret" /\ x[t].race /\ phase = "loaded" /\ x' = [x EXCEPT ![t] = User]
      /\ UNCHANGED <<tmm, pins, phase>>
  BY DEF Requeue, At
<1>2. pins[t] = NoMM
  BY <1>1, TaskTyped DEF PinRec
<1>3. pins' = [pins EXCEPT ![t] = NoMM]
  BY <1>1, <1>2 DEF RefInv, ForkTypeOK
<1>4. CASE tmm[t] = NoMM
  <2>1. users' = Ref(users, pins[t], -1) /\ UNCHANGED <<req, ac_prot_req_seq>>
    BY <1>2, <1>4 DEF Ref, Requeue
  <2> QED BY Zenon, <1>1, <1>3, <2>1, ReturnKeeps
<1>5. CASE tmm[t] # NoMM
  <2>1. tmm[t] \in MMs
    BY <1>5, TaskTyped DEF AnyMM
  <2>2. Schedule(Ref(users, tmm[t], 1), tmm[t], NoMM, t)
    BY <1>5 DEF Requeue
  <2> QED BY Zenon, <1>1, <1>2, <1>3, <2>1, <2>2, ScheduleKeeps
<1> QED BY <1>4, <1>5, Zenon

(* The exec returned with a new address space: the pin moves to a rekey.   *)
LEMMA RekeyKeeps == ASSUME RefInv, NEW t \in Tasks, Rekey(t) PROVE RefInv'
<1>1. /\ x[t].pc = "ret" /\ phase = "loaded" /\ x' = [x EXCEPT ![t] = User]
      /\ pins' = [pins EXCEPT ![t] = NoMM] /\ UNCHANGED <<tmm, phase>>
  BY DEF Rekey, At
<1>2. x[t].old = pins[t]
  BY <1>1, TaskTyped DEF PinRec
<1>3. CASE pins[t] = NoMM \/ tmm[t] \in {pins[t], NoMM}
  <2>1. users' = Ref(users, pins[t], -1) /\ UNCHANGED <<req, ac_prot_req_seq>>
    BY <1>2, <1>3 DEF Rekey, Settle
  <2> QED BY Zenon, <1>1, <2>1, ReturnKeeps
<1>4. CASE ~ (pins[t] = NoMM \/ tmm[t] \in {pins[t], NoMM})
  <2>1. tmm[t] \in MMs
    BY SMTT(20), <1>4, TaskTyped DEF AnyMM
  <2>2. Schedule(Ref(users, tmm[t], 1), tmm[t], pins[t], t)
    BY Zenon, <1>2, <1>4 DEF Rekey
  <2> QED BY Zenon, <1>1, <2>1, <2>2, ScheduleKeeps
<1> QED BY <1>3, <1>4, Zenon

(* The entry handler pins a registered mm, or looks for a request next.    *)
LEMMA EntryPinKeeps == ASSUME RefInv, NEW t \in Tasks, EntryPin(t) PROVE RefInv'
<1>1. /\ x[t] \in TaskRec /\ tmm[t] \in AnyMM /\ pins[t] \in AnyMM
      /\ PinRec(x[t], tmm[t], pins[t], phase) /\ users \in [MMs -> Int]
      /\ tmm = [tmm EXCEPT ![t] = tmm[t]] /\ pins = [pins EXCEPT ![t] = pins[t]]
  BY TaskTyped DEF RefInv, ForkTypeOK
<1>2. /\ tmm[t] # NoMM /\ x[t].pc = "user" /\ phase = "loaded"
      /\ UNCHANGED <<tmm, req, ac_prot_req_seq, phase>>
  BY DEF EntryPin, Runs
<1>3. pins[t] = NoMM /\ x[t].old = NoMM /\ ~x[t].race
  BY <1>1, <1>2 DEF PinRec
<1>4. CASE tmm[t] \in prot
  <2> DEFINE y == [x[t] EXCEPT !.pc = "body", !.old = tmm[t]]
  <2>1. /\ x' = [x EXCEPT ![t] = y] /\ pins' = [pins EXCEPT ![t] = tmm[t]]
        /\ users' = Ref(users, tmm[t], 1)
    BY Zenon, <1>4 DEF EntryPin, RefInv, ForkTypeOK
  <2>2. y \in TaskRec /\ y.pc = "body" /\ y.old = tmm[t] /\ y.race = x[t].race
    BY Zenon, <1>1 DEF TaskRec
  <2> HIDE DEF y
  <2>3. users' \in [MMs -> Int] /\ \A m \in MMs : users'[m] = users[m] + Is(tmm[t], m)
    BY <1>1, <2>1, RefAt
  <2>4. \A m \in MMs : users'[m] = users[m] + Is(tmm[t], m) - Is(tmm[t], m)
                                    + Is(tmm[t], m) - Is(pins[t], m)
    BY SMTT(20), <1>1, <1>3, <2>3, NamesAssumption DEF Is
  <2>5. PinRec(y, tmm[t], tmm[t], phase)
    BY <1>2, <1>3, <2>2 DEF PinRec
  <2>6. tmm' = [tmm EXCEPT ![t] = tmm[t]] /\ ~y.race
    BY <1>1, <1>2, <1>3, <2>2
  <2> QED BY ZenonT(40), <1>1, <1>2, <2>1, <2>2, <2>3, <2>4, <2>5, <2>6, TaskKeeps
<1>5. CASE tmm[t] \notin prot
  <2> DEFINE y == [x[t] EXCEPT !.pc = "scan"]
  <2>1. x' = [x EXCEPT ![t] = y] /\ pins' = pins /\ users' = users
    BY <1>5 DEF EntryPin, RefInv, ForkTypeOK
  <2>2. y \in TaskRec /\ y.pc = "scan" /\ y.old = x[t].old /\ y.race = x[t].race
    BY <1>1 DEF TaskRec
  <2> HIDE DEF y
  <2>3. \A m \in MMs : users'[m] = users[m] + Is(tmm[t], m) - Is(tmm[t], m)
                                    + Is(pins[t], m) - Is(pins[t], m)
    BY SMTT(20), <1>1, <2>1 DEF Is
  <2>4. PinRec(y, tmm[t], pins[t], phase)
    BY <1>2, <1>3, <2>2 DEF PinRec
  <2>5. tmm' = [tmm EXCEPT ![t] = tmm[t]] /\ pins' = [pins EXCEPT ![t] = pins[t]] /\ ~y.race
    BY <1>1, <1>2, <1>3, <2>1, <2>2
  <2>6. users' \in [MMs -> Int]
    BY <1>1, <2>1
  <2>7. /\ tmm[t] \in AnyMM /\ pins[t] \in AnyMM /\ UNCHANGED <<req, ac_prot_req_seq, phase>>
        /\ y.race => x[t].race /\ y.preq = x[t].preq /\ y.pid = x[t].pid
        /\ tmm[t] \in {NoMM, tmm[t]} \/ users[tmm[t]] = 0
    BY Zenon, <1>1, <1>2, <2>5
  <2>8. y \in TaskRec
    BY Zenon, <2>2
  <2> QED BY Zenon, <2>1, <2>8, <2>3, <2>4, <2>5, <2>6, <2>7, TaskKeeps
<1> QED BY <1>4, <1>5, Zenon

(* The body of execve(), and an exit.                                      *)
LEMMA BodyKeeps ==
  ASSUME RefInv, NEW t \in Tasks, tmm[t] # NoMM, NEW y \in TaskRec, NEW a \in AnyMM,
         x' = [x EXCEPT ![t] = y], tmm' = [tmm EXCEPT ![t] = a],
         UNCHANGED <<pins, req, ac_prot_req_seq, phase>>,
         a = NoMM \/ users[a] = 0, users' = Ref(Ref(users, a, 1), tmm[t], -1),
         PinRec(y, a, pins[t], phase),
         y.race => x[t].race /\ y.preq = x[t].preq /\ y.pid = x[t].pid
  PROVE  RefInv'
<1>1. /\ tmm[t] \in AnyMM /\ pins[t] \in AnyMM /\ users \in [MMs -> Int]
      /\ pins' = [pins EXCEPT ![t] = pins[t]]
  BY TaskTyped DEF RefInv, ForkTypeOK
<1>2. /\ Ref(users, a, 1) \in [MMs -> Int]
      /\ \A m \in MMs : Ref(users, a, 1)[m] = users[m] + Is(a, m)
  BY <1>1, RefAt
<1>3. /\ users' \in [MMs -> Int]
      /\ \A m \in MMs : users'[m] = Ref(users, a, 1)[m] - Is(tmm[t], m)
  BY <1>1, <1>2, RefAt
<1>4. \A m \in MMs : users'[m] = users[m] + Is(a, m) - Is(tmm[t], m)
                                  + Is(pins[t], m) - Is(pins[t], m)
  BY <1>1, <1>2, <1>3 DEF Is
<1> QED BY ZenonT(40), <1>1, <1>3, <1>4, TaskKeeps

(* execve() itself: a new address space, or a failure.                     *)
LEMMA ExecBodyKeeps == ASSUME RefInv, NEW t \in Tasks, ExecBody(t) PROVE RefInv'
<1> DEFINE y == [x[t] EXCEPT !.pc = "ret"]
<1>1. /\ x[t].pc = "body" /\ phase = "loaded" /\ UNCHANGED <<pins, req, ac_prot_req_seq, phase>>
  BY DEF ExecBody, At
<1>2. /\ x[t] \in TaskRec /\ tmm[t] \in AnyMM /\ pins[t] \in AnyMM
      /\ PinRec(x[t], tmm[t], pins[t], phase) /\ users \in [MMs -> Int]
  BY TaskTyped
<1>3. /\ y \in TaskRec /\ y.pc = "ret" /\ y.old = x[t].old /\ y.race = x[t].race
      /\ y.preq = x[t].preq /\ y.pid = x[t].pid
  BY <1>2 DEF TaskRec
<1>4. tmm[t] # NoMM /\ \A a : PinRec(y, a, pins[t], phase)
  BY Zenon, <1>1, <1>2, <1>3 DEF PinRec
<1>5. \A a : a = NoMM => PinRec(User, a, pins[t], phase)
  BY <1>1, UserTyped DEF PinRec
<1>6. NoMM \in AnyMM /\ Ref(users, NoMM, 1) = users
  BY DEF AnyMM, Ref
<1>7. ASSUME NEW n \in MMs, users[n] = 0, tmm' = [tmm EXCEPT ![t] = n],
             users' = Ref(Ref(users, n, 1), tmm[t], -1), x' = [x EXCEPT ![t].pc = "ret"]
      PROVE  RefInv'
  <2>1. x' = [x EXCEPT ![t] = y] /\ n \in AnyMM
    BY <1>7 DEF RefInv, ForkTypeOK, AnyMM
  <2> HIDE DEF y
  <2> QED BY Zenon, <1>1, <1>3, <1>4, <1>7, <2>1, BodyKeeps
<1>8. CASE x' = [x EXCEPT ![t].pc = "ret"] /\ UNCHANGED <<tmm, users>>
  <2>1. /\ x' = [x EXCEPT ![t] = y] /\ tmm' = [tmm EXCEPT ![t] = tmm[t]]
        /\ pins' = [pins EXCEPT ![t] = pins[t]]
    BY <1>1, <1>8 DEF RefInv, ForkTypeOK
  <2>2. users' \in [MMs -> Int]
        /\ \A m \in MMs : users'[m] = users[m] + Is(tmm[t], m) - Is(tmm[t], m)
                                      + Is(pins[t], m) - Is(pins[t], m)
    BY <1>2, <1>8 DEF Is
  <2> HIDE DEF y
  <2>3. /\ PinRec(y, tmm[t], pins[t], phase) /\ UNCHANGED <<req, ac_prot_req_seq, phase>>
        /\ y.race => x[t].race /\ y.preq = x[t].preq /\ y.pid = x[t].pid
        /\ tmm[t] \in {NoMM, tmm[t]} \/ users[tmm[t]] = 0
    BY Zenon, <1>1, <1>3, <1>4
  <2>4. y \in TaskRec /\ tmm[t] \in AnyMM /\ pins[t] \in AnyMM
    BY Zenon, <1>2, <1>3
  <2> QED BY Zenon, <2>1, <2>2, <2>3, <2>4, TaskKeeps
<1>9. CASE /\ tmm' = [tmm EXCEPT ![t] = NoMM] /\ users' = Ref(users, tmm[t], -1)
           /\ x' = [x EXCEPT ![t].pc = "ret"]
  <2>1. x' = [x EXCEPT ![t] = y]
    BY <1>9 DEF RefInv, ForkTypeOK
  <2> HIDE DEF y
  <2> QED BY Zenon, <1>1, <1>3, <1>4, <1>6, <1>9, <2>1, BodyKeeps
<1>10. CASE /\ tmm' = [tmm EXCEPT ![t] = NoMM] /\ users' = Ref(users, tmm[t], -1)
            /\ x' = [x EXCEPT ![t] = User]
  BY Zenon, <1>1, <1>4, <1>5, <1>6, <1>10, UserTyped, BodyKeeps
<1> QED BY <1>7, <1>8, <1>9, <1>10, Zenon DEF ExecBody, Settle

(* A task exits and drops its address space.                               *)
LEMMA ExitKeeps == ASSUME RefInv, NEW t \in Tasks, Exit(t) PROVE RefInv'
<1>1. /\ tmm[t] # NoMM /\ x[t].pc = "user" /\ tmm' = [tmm EXCEPT ![t] = NoMM]
      /\ users' = Ref(users, tmm[t], -1) /\ UNCHANGED <<x, pins, req, ac_prot_req_seq, phase>>
  BY Zenon DEF Exit, Runs, Settle
<1>2. /\ x[t] \in TaskRec /\ PinRec(x[t], tmm[t], pins[t], phase)
      /\ x' = [x EXCEPT ![t] = x[t]]
  BY <1>1, TaskTyped DEF RefInv, ForkTypeOK
<1>3. PinRec(x[t], NoMM, pins[t], phase)
  BY Zenon, <1>1, <1>2 DEF PinRec
<1>4. NoMM \in AnyMM /\ Ref(users, NoMM, 1) = users
  BY DEF AnyMM, Ref
<1> QED BY Zenon, <1>1, <1>2, <1>3, <1>4, BodyKeeps

(* A step that moves only the reference of a request's .post keeps the     *)
(* balance.                                                                *)
LEMMA PostBalance ==
  ASSUME NEW t \in Tasks, NEW r \in Reqs, tmm'[t] = tmm[t], pins'[t] = pins[t],
         users \in [MMs -> Int], req'[r].mm = req[r].mm, req'[r].old = req[r].old,
         \A m \in MMs : users'[m] = users[m] + Is(req'[r].post, m) - Is(req[r].post, m)
  PROVE  \A m \in MMs : users'[m] = users[m] + Is(tmm'[t], m) - Is(tmm[t], m)
                                    + Is(pins'[t], m) - Is(pins[t], m)
                                    + Is(req'[r].mm, m) - Is(req[r].mm, m)
                                    + Is(req'[r].old, m) - Is(req[r].old, m)
                                    + Is(req'[r].post, m) - Is(req[r].post, m)
<1> TAKE m \in MMs
<1>1. users[m] \in Int /\ users'[m] = users[m] + Is(req'[r].post, m) - Is(req[r].post, m)
  BY Zenon
<1>2. /\ Is(tmm'[t], m) = Is(tmm[t], m) /\ Is(pins'[t], m) = Is(pins[t], m)
      /\ Is(req'[r].mm, m) = Is(req[r].mm, m) /\ Is(req'[r].old, m) = Is(req[r].old, m)
  BY Zenon
<1>3. \A z : Is(z, m) \in Int
  BY DEF Is
<1>4. \A k \in Int, i \in Int : k + i - i = k
  OBVIOUS
<1>5. users[m] + Is(tmm'[t], m) - Is(tmm[t], m) = users[m]
  BY <1>1, <1>2, <1>3, <1>4, Zenon
<1>6. users[m] + Is(pins'[t], m) - Is(pins[t], m) = users[m]
  BY <1>1, <1>2, <1>3, <1>4, Zenon
<1>7. users[m] + Is(req'[r].mm, m) - Is(req[r].mm, m) = users[m]
  BY <1>1, <1>2, <1>3, <1>4, Zenon
<1>8. users[m] + Is(req'[r].old, m) - Is(req[r].old, m) = users[m]
  BY <1>1, <1>2, <1>3, <1>4, ZenonT(40)
<1> QED BY <1>1, <1>5, <1>6, <1>7, <1>8, ZenonT(40)

(* A handler's step on its task and on one pending request.                *)
LEMMA BothKeep ==
  ASSUME RefInv, NEW t \in Tasks, NEW r \in Reqs, NEW y \in TaskRec, NEW q \in ReqRec,
         phase = "loaded", x' = [x EXCEPT ![t] = y], req' = [req EXCEPT ![r] = q],
         UNCHANGED <<tmm, pins, ac_prot_req_seq, phase>>, users' \in [MMs -> Int],
         \A m \in MMs : users'[m] = users[m] + Is(q.post, m) - Is(req[r].post, m),
         q.mm = req[r].mm, q.old = req[r].old, PinRec(y, tmm[t], pins[t], phase),
         ReqOf(q, ac_prot_req_seq),
         req[r].linked, q.linked, q.id = req[r].id, q.owner = req[r].owner,
         ~y.race \/ (y.preq = r /\ y.pid = req[r].id /\ req[r].owner = t)
  PROVE  RefInv'
<1>0. /\ ForkTypeOK /\ ReferencesBalance /\ ac_prot_req_seq \in Nat /\ ReqInv
  BY Zenon DEF RefInv, ForkTypeOK
<1>1. ForkTypeOK'
  BY Zenon, <1>0 DEF ForkTypeOK
<1>2. /\ x'[t] = y /\ \A u \in Tasks \ {t} : x'[u] = x[u]
      /\ req'[r] = q /\ \A k \in Reqs \ {r} : req'[k] = req[k]
  BY Zenon, <1>0 DEF ForkTypeOK
<1>3. ReferencesBalance'
  <2>1. \A m \in MMs : users'[m] = users[m] + Is(tmm'[t], m) - Is(tmm[t], m)
                                    + Is(pins'[t], m) - Is(pins[t], m)
                                    + Is(req'[r].mm, m) - Is(req[r].mm, m)
                                    + Is(req'[r].old, m) - Is(req[r].old, m)
                                    + Is(req'[r].post, m) - Is(req[r].post, m)
    <3>1. /\ users \in [MMs -> Int] /\ tmm'[t] = tmm[t] /\ pins'[t] = pins[t]
          /\ req'[r].mm = req[r].mm /\ req'[r].old = req[r].old
          /\ \A m \in MMs : users'[m] = users[m] + Is(req'[r].post, m) - Is(req[r].post, m)
      BY <1>0, <1>2, Zenon DEF ForkTypeOK
    <3> QED BY <3>1, PostBalance, Zenon
  <2>2. \A k \in Reqs \ {r} : req'[k] = req[k]
    BY <1>2, Zenon
  <2> QED BY Zenon, <2>1, <2>2, <1>0, <1>1, BalanceBoth
<1>4. \A k \in Reqs : ReqStepOK(k)
  <2>1. ReqStepOK(r)
    BY Zenon, <1>0, <1>2 DEF ReqStepOK, ReqOf
  <2> QED BY <2>1, <1>2, ZenonT(30) DEF ReqStepOK
<1>5. ClaimOf(t)'
  <2>1. ASSUME y.race PROVE y.pid <= ac_prot_req_seq /\ \A k \in HandoffTarget(t)' : req'[k].owner = t
    <3>1. y.preq = r /\ y.pid = req[r].id /\ req[r].owner = t /\ req[r].id <= ac_prot_req_seq
      BY Zenon, <2>1, <1>0 DEF ReqInv, ReqOf
    <3>2. \A k \in HandoffTarget(t)' : k = r
      BY Zenon, <3>1, <1>2 DEF HandoffTarget
    <3> QED BY Zenon, <3>1, <3>2, <1>2
  <2> QED BY Zenon, <2>1, <1>2 DEF ClaimOf
<1>6. PinOf(t)' /\ MmStepOK(t)
  BY Zenon, <1>2 DEF PinOf, MmStepOK
<1>7. \A u \in Tasks \ {t, t} : SameTask(u)
  BY Zenon, <1>2 DEF SameTask
<1>8. \A u \in {t, t} : SameClaim(u) \/ ClaimOf(u)'
  BY <1>5, Zenon
<1>9. ac_prot_req_seq' >= ac_prot_req_seq /\ phase' = phase
  BY <1>0
<1> QED BY Zenon, <1>1, <1>3, <1>4, <1>6, <1>7, <1>8, <1>9, StepKeeps

(* The entry handler claims the request pending for its process.           *)
LEMMA ClaimKeeps == ASSUME RefInv, NEW t \in Tasks, EntryClaim(t) PROVE RefInv'
<1>1. /\ x[t] \in TaskRec /\ tmm[t] \in AnyMM /\ pins[t] \in AnyMM
      /\ PinRec(x[t], tmm[t], pins[t], phase) /\ users \in [MMs -> Int]
      /\ tmm = [tmm EXCEPT ![t] = tmm[t]] /\ pins = [pins EXCEPT ![t] = pins[t]]
      /\ ac_prot_req_seq \in Nat
  BY TaskTyped DEF RefInv, ForkTypeOK
<1>2. /\ x[t].pc = "scan" /\ phase = "loaded"
      /\ UNCHANGED <<tmm, pins, users, ac_prot_req_seq, phase>>
  BY Zenon DEF EntryClaim, At
<1>3. tmm[t] # NoMM /\ pins[t] = NoMM /\ x[t].old = NoMM /\ ~x[t].race
  BY <1>1, <1>2 DEF PinRec
<1>4. ASSUME NEW r \in Reqs, Claimable(r, t), req' = [req EXCEPT ![r].claimed = TRUE],
             x' = [x EXCEPT ![t].pc = "body", ![t].race = TRUE, ![t].preq = r, ![t].pid = req[r].id]
      PROVE  RefInv'
  <2> DEFINE y == [x[t] EXCEPT !.pc = "body", !.race = TRUE, !.preq = r, !.pid = req[r].id]
             q == [req[r] EXCEPT !.claimed = TRUE]
  <2>1. x' = [x EXCEPT ![t] = y] /\ req' = [req EXCEPT ![r] = q]
    BY Zenon, <1>4 DEF RefInv, ForkTypeOK
  <2>2. req[r] \in ReqRec /\ ReqOf(req[r], ac_prot_req_seq) /\ req[r].linked
    BY <1>4, ReqTyped DEF Claimable
  <2>3. req[r].owner = t
    BY <1>3, <1>4, <2>2 DEF Claimable, ReqOf
  <2>4. /\ q \in ReqRec /\ q.pc = req[r].pc /\ q.mm = req[r].mm /\ q.old = req[r].old
        /\ q.post = req[r].post /\ q.pid = req[r].pid /\ q.owner = req[r].owner
        /\ q.ppid = req[r].ppid /\ q.linked = req[r].linked /\ q.id = req[r].id
    BY Zenon, <2>2 DEF ReqRec
  <2>5. y \in TaskRec /\ y.pc = "body" /\ y.old = x[t].old /\ y.preq = r /\ y.pid = req[r].id
    BY Zenon, <1>1, <2>2 DEF TaskRec, ReqRec
  <2> HIDE DEF y, q
  <2>6. ReqOf(q, ac_prot_req_seq)
    BY <2>2, <2>4 DEF ReqOf
  <2>7. PinRec(y, tmm[t], pins[t], phase)
    BY Zenon, <1>2, <1>3, <2>5 DEF PinRec
  <2>8. users' \in [MMs -> Int]
        /\ \A m \in MMs : users'[m] = users[m] + Is(q.post, m) - Is(req[r].post, m)
    BY <1>1, <1>2, <2>4 DEF Is
  <2> QED BY Zenon, <1>2, <2>1, <2>2, <2>3, <2>4, <2>5, <2>6, <2>7, <2>8, BothKeep
<1>5. CASE x' = [x EXCEPT ![t].pc = "body"] /\ UNCHANGED req
  <2> DEFINE y == [x[t] EXCEPT !.pc = "body"]
  <2>1. x' = [x EXCEPT ![t] = y]
    BY <1>5 DEF RefInv, ForkTypeOK
  <2>2. y \in TaskRec /\ y.pc = "body" /\ y.old = x[t].old /\ y.race = x[t].race
    BY <1>1 DEF TaskRec
  <2> HIDE DEF y
  <2>3. PinRec(y, tmm[t], pins[t], phase)
    BY <1>2, <1>3, <2>2 DEF PinRec
  <2>4. users' \in [MMs -> Int]
        /\ \A m \in MMs : users'[m] = users[m] + Is(tmm[t], m) - Is(tmm[t], m)
                                      + Is(pins[t], m) - Is(pins[t], m)
    BY <1>1, <1>2 DEF Is
  <2>5. /\ tmm' = [tmm EXCEPT ![t] = tmm[t]] /\ pins' = [pins EXCEPT ![t] = pins[t]] /\ ~y.race
        /\ UNCHANGED <<req, ac_prot_req_seq, phase>>
    BY <1>1, <1>2, <1>3, <1>5, <2>2
  <2> QED BY ZenonT(40), <1>1, <2>1, <2>2, <2>3, <2>4, <2>5, TaskKeeps
<1> QED BY <1>4, <1>5, Zenon DEF EntryClaim

(* The return handler posts the image to the claimed request.              *)
LEMMA PostKeeps == ASSUME RefInv, NEW t \in Tasks, Post(t) PROVE RefInv'
<1>1. /\ x[t].pc = "ret" /\ x[t].race /\ phase = "loaded" /\ x' = [x EXCEPT ![t] = User]
      /\ UNCHANGED <<tmm, pins, ac_prot_req_seq, phase>>
  BY Zenon DEF Post, At
<1>2. /\ tmm[t] \in AnyMM /\ pins[t] = NoMM /\ users \in [MMs -> Int] /\ ClaimInv
      /\ ac_prot_req_seq \in Nat
  BY <1>1, TaskTyped DEF PinRec, RefInv
<1>3. PICK r \in HandoffTarget(t) :
        IF tmm[t] # NoMM
        THEN /\ req' = [req EXCEPT ![r].post = tmm[t], ![r].ppid = t, ![r].done = TRUE]
             /\ users' = Ref(Ref(users, tmm[t], 1), req[r].post, -1)
        ELSE req' = [req EXCEPT ![r].done = TRUE] /\ UNCHANGED users
  BY Zenon DEF Post, Settle
<1>4. r \in Reqs /\ req[r].linked /\ req[r].owner = t
  BY Zenon, <1>1, <1>2, <1>3 DEF HandoffTarget, ClaimInv, ClaimOf
<1>5. req[r] \in ReqRec /\ ReqOf(req[r], ac_prot_req_seq) /\ req[r].post \in AnyMM
  BY Zenon, <1>4, ReqTyped DEF ReqRec
<1>u. User \in TaskRec /\ ~User.race /\ PinRec(User, tmm[t], pins[t], phase)
  BY <1>2, UserTyped
<1>6. CASE tmm[t] # NoMM
  <2> DEFINE q == [req[r] EXCEPT !.post = tmm[t], !.ppid = t, !.done = TRUE]
  <2>1. req' = [req EXCEPT ![r] = q]
    BY Zenon, <1>3, <1>4, <1>6 DEF RefInv, ForkTypeOK
  <2>2. /\ q \in ReqRec /\ q.pc = req[r].pc /\ q.mm = req[r].mm /\ q.old = req[r].old
        /\ q.post = tmm[t] /\ q.pid = req[r].pid /\ q.owner = req[r].owner
        /\ q.ppid = t /\ q.linked = req[r].linked /\ q.id = req[r].id
    BY Zenon, <1>2, <1>5 DEF ReqRec
  <2> HIDE DEF q
  <2>3. ReqOf(q, ac_prot_req_seq)
    BY ZenonT(40), <1>4, <1>5, <2>2 DEF ReqOf
  <2>4. /\ Ref(users, tmm[t], 1) \in [MMs -> Int]
        /\ \A m \in MMs : Ref(users, tmm[t], 1)[m] = users[m] + Is(tmm[t], m)
    BY <1>2, RefAt
  <2>5. /\ users' \in [MMs -> Int]
        /\ \A m \in MMs : users'[m] = Ref(users, tmm[t], 1)[m] - Is(req[r].post, m)
    BY SMTT(20), <1>3, <1>5, <1>6, <2>4, RefAt
  <2>6. \A m \in MMs : users'[m] = users[m] + Is(q.post, m) - Is(req[r].post, m)
    BY <1>2, <2>2, <2>4, <2>5 DEF Is
  <2> QED BY Zenon, <1>1, <1>2, <1>4, <2>1, <2>2, <2>3, <2>5, <2>6, <1>u, BothKeep
<1>7. CASE tmm[t] = NoMM
  <2> DEFINE q == [req[r] EXCEPT !.done = TRUE]
  <2>1. req' = [req EXCEPT ![r] = q] /\ users' = users
    BY <1>3, <1>4, <1>7 DEF RefInv, ForkTypeOK
  <2>2. /\ q \in ReqRec /\ q.pc = req[r].pc /\ q.mm = req[r].mm /\ q.old = req[r].old
        /\ q.post = req[r].post /\ q.pid = req[r].pid /\ q.owner = req[r].owner
        /\ q.ppid = req[r].ppid /\ q.linked = req[r].linked /\ q.id = req[r].id
    BY Zenon, <1>5 DEF ReqRec
  <2> HIDE DEF q
  <2>3. ReqOf(q, ac_prot_req_seq)
    BY Zenon, <1>5, <2>2 DEF ReqOf
  <2>4. /\ users' \in [MMs -> Int]
        /\ \A m \in MMs : users'[m] = users[m] + Is(q.post, m) - Is(req[r].post, m)
    BY <1>2, <2>1, <2>2 DEF Is
  <2> QED BY Zenon, <1>1, <1>2, <1>4, <2>1, <2>2, <2>3, <2>4, <1>u, BothKeep
<1> QED BY <1>6, <1>7, Zenon

-----------------------------------------------------------------------------
(* ac_exit() drops the pins of the execs whose return it will not see.     *)
LEMMA UnprobeKeeps == ASSUME RefInv, Unprobe PROVE RefInv'
<1>0. /\ ForkTypeOK /\ PinInv /\ ReqInv /\ GoneInv /\ ClaimInv /\ DropInv /\ ReferencesBalance
  BY ZenonT(40) DEF RefInv
<1>1. /\ phase = "loaded" /\ phase' = "unprobed" /\ pins' = [t \in Tasks |-> NoMM]
      /\ x' = [t \in Tasks |-> IF x[t].pc = "unborn" THEN x[t] ELSE User]
      /\ users' = [m \in MMs |-> users[m] - PinsOn(m)]
      /\ UNCHANGED <<tmm, req, ac_prot_req_seq>>
  BY DEF Unprobe, Settle, ac_exec_pins_drop_all
<1>2. \A t \in Tasks : x'[t] \in TaskRec /\ (x'[t] = User \/ (x'[t] = x[t] /\ x[t].pc = "unborn"))
  BY <1>0, <1>1, UserTyped DEF ForkTypeOK
<1>3. \A m \in MMs : PinsOn(m) = Held(pins, m) /\ PinsOn(m) \in Nat
  <2> SUFFICES ASSUME NEW m \in MMs PROVE PinsOn(m) = Held(pins, m) /\ PinsOn(m) \in Nat
    OBVIOUS
  <2>1. pins \in [Tasks -> AnyMM]
    BY <1>0 DEF ForkTypeOK
  <2>2. {t \in Tasks : pins[t] = m} = Holders(pins, m)
    BY <2>1 DEF Holders
  <2>3. Held(pins, m) \in Nat
    BY <2>1, HeldNat, NamesAssumption
  <2> QED BY <2>2, <2>3 DEF PinsOn, Held
<1>4. ForkTypeOK'
  <2>1. users' \in [MMs -> Int]
    BY SMTT(20), <1>0, <1>1, <1>3 DEF ForkTypeOK
  <2>2. pins' \in [Tasks -> AnyMM]
    BY <1>1 DEF AnyMM
  <2>3. x' \in [Tasks -> TaskRec]
    BY Zenon, <1>1, <1>2
  <2> QED BY <1>0, <1>1, <2>1, <2>2, <2>3 DEF ForkTypeOK
<1>5. ReferencesBalance'
  <2> SUFFICES ASSUME NEW m \in MMs PROVE users'[m] = RefsOn(m)'
    BY DEF ReferencesBalance
  <2>1. users[m] = TaskRefs(m) + ReqRefs(m) /\ ReqRefs(m) \in Nat
    BY <1>0, RefsSplit DEF ReferencesBalance
  <2>2. RefsOn(m)' = TaskRefs(m)' + ReqRefs(m)'
    BY Zenon, <1>4, RefsSplitNext
  <2>3. ReqRefs(m)' = ReqRefs(m)
    BY <1>1 DEF ReqRefs, MmOf, OldOf, PostOf
  <2>4. Held(pins', m) = 0
    <3>1. pins' \in [Tasks -> AnyMM] /\ \A t \in Tasks : pins'[t] # m
      BY <1>1, NamesAssumption DEF AnyMM
    <3>2. IsFiniteSet(Tasks)
      BY Zenon, NamesAssumption
    <3> QED BY Zenon, <3>1, <3>2, HeldNat
  <2>5. TaskRefs(m)' = Held(tmm, m) + Held(pins', m)
    BY <1>1 DEF TaskRefs, Held, Holders
  <2>6. Held(tmm, m) \in Nat
    BY Zenon, <1>0, HeldNat, NamesAssumption DEF ForkTypeOK
  <2>7. users'[m] = users[m] - Held(pins, m) /\ Held(pins, m) \in Nat
    BY <1>1, <1>3
  <2> QED BY SMTT(20), <2>1, <2>2, <2>3, <2>4, <2>5, <2>6, <2>7 DEF TaskRefs
<1>6. PinInv'
  <2> SUFFICES ASSUME NEW t \in Tasks PROVE PinRec(x'[t], tmm'[t], pins'[t], phase')
    BY DEF PinInv, PinOf
  <2>1. pins'[t] = NoMM
    BY Zenon, <1>1
  <2>2. CASE x'[t] = User
    BY SMTT(20), <2>1, <2>2, UserTyped
  <2>3. CASE x'[t] = x[t] /\ x[t].pc = "unborn"
    <3>1. PinRec(x[t], tmm[t], pins[t], phase)
      BY Zenon, <1>0 DEF PinInv, PinOf
    <3> QED BY Zenon, <1>1, <2>1, <2>3, <3>1 DEF PinRec
  <2> QED BY <1>2, <2>2, <2>3, Zenon
<1>7. ClaimInv'
  <2> SUFFICES ASSUME NEW t \in Tasks PROVE ~x'[t].race
    BY DEF ClaimInv, ClaimOf
  <2>1. x[t].pc = "unborn" => ~x[t].race
    BY Zenon, <1>0 DEF PinInv, PinOf, PinRec
  <2> QED BY <1>2, <2>1, UserTyped
<1>8. ReqInv' /\ GoneInv' /\ DropInv'
  BY <1>0, <1>1 DEF ReqInv, GoneInv, DropInv
<1> QED BY <1>4, <1>5, <1>6, <1>7, <1>8, Zenon DEF RefInv

(* Steps that change nothing these invariants are about.                   *)
LEMMA QuietKeeps ==
  ASSUME RefInv, UNCHANGED <<tmm, x, pins, users, req, ac_prot_req_seq>>,
         phase' = phase \/ (phase = "unprobed" /\ phase' = "gone" /\ \A r \in Reqs : req[r].pc = "free")
  PROVE  RefInv'
<1>0. /\ ForkTypeOK /\ PinInv /\ ReqInv /\ GoneInv /\ ClaimInv /\ DropInv /\ ReferencesBalance
  BY Zenon DEF RefInv
<1>1. ForkTypeOK' /\ ReqInv' /\ DropInv'
  BY Zenon, <1>0 DEF ForkTypeOK, ReqInv, DropInv
<1>2. PinInv'
  BY <1>0 DEF PinInv, PinOf, PinRec
<1>3. GoneInv'
  BY Zenon, <1>0 DEF GoneInv
<1>4. ClaimInv'
  BY <1>0 DEF ClaimInv, ClaimOf, HandoffTarget
<1>5. ReferencesBalance'
  BY <1>0 DEF ReferencesBalance, RefsOn, PinsOn
<1> QED BY <1>1, <1>2, <1>3, <1>4, <1>5, Zenon DEF RefInv

(* RefInv holds when the module is loaded.                                 *)
LEMMA RefInvInit == Init => RefInv
<1> SUFFICES ASSUME Init PROVE RefInv
  OBVIOUS
<1>1. PICK m \in MMs : /\ tmm = [t \in Tasks |-> IF t = Root THEN m ELSE NoMM]
                       /\ users = [n \in MMs |-> IF n = m THEN 1 ELSE 0]
  BY Zenon DEF Init
<1>2. /\ x = [t \in Tasks |-> IF t = Root THEN User ELSE [User EXCEPT !.pc = "unborn"]]
      /\ pins = [t \in Tasks |-> NoMM] /\ req = [r \in Reqs |-> Free]
      /\ ac_prot_req_seq = 0 /\ phase = "loaded"
  BY DEF Init
<1> DEFINE y == [User EXCEPT !.pc = "unborn"]
<1>3. y \in TaskRec /\ y.pc = "unborn" /\ ~y.race /\ y.old = NoMM
  BY UserTyped DEF TaskRec
<1>4. \A t \in Tasks : x[t] = (IF t = Root THEN User ELSE y)
  BY <1>2
<1> HIDE DEF y
<1>5. ForkTypeOK
  <2>1. \A t \in Tasks : x[t] \in TaskRec
    BY <1>3, <1>4, UserTyped
  <2> QED BY SMTT(20), <1>1, <1>2, <2>1, FreeTyped DEF ForkTypeOK, AnyMM
<1>6. PinInv
  BY <1>1, <1>2, <1>3, <1>4, UserTyped, NamesAssumption DEF PinInv, PinOf, PinRec
<1>7. ReqInv /\ GoneInv /\ DropInv
  BY Zenon, <1>2, FreeTyped DEF ReqInv, GoneInv, DropInv, Free
<1>8. ClaimInv
  BY Zenon, <1>3, <1>4, UserTyped DEF ClaimInv, ClaimOf
<1>9. ReferencesBalance
  <2> SUFFICES ASSUME NEW k \in MMs PROVE users[k] = RefsOn(k)
    BY DEF ReferencesBalance
  <2>1. /\ {t \in Tasks : pins[t] = k} = {} /\ {r \in Reqs : req[r].mm = k} = {}
        /\ {r \in Reqs : req[r].old = k} = {} /\ {r \in Reqs : req[r].post = k} = {}
    BY <1>2, NamesAssumption DEF Free
  <2>2. {t \in Tasks : tmm[t] = k} = IF k = m THEN {Root} ELSE {}
    BY <1>1, NamesAssumption
  <2>3. Cardinality({}) = 0 /\ Cardinality({Root}) = 1
    BY Zenon, FS_EmptySet, FS_Singleton
  <2>4. /\ PinsOn(k) = 0 /\ Cardinality({r \in Reqs : req[r].mm = k}) = 0
        /\ Cardinality({r \in Reqs : req[r].old = k}) = 0
        /\ Cardinality({r \in Reqs : req[r].post = k}) = 0
    BY <2>1, <2>3, Zenon DEF PinsOn
  <2>5. Cardinality({t \in Tasks : tmm[t] = k}) = IF k = m THEN 1 ELSE 0
    <3>1. CASE k = m
      <4>1. {t \in Tasks : tmm[t] = k} = {Root}
        BY <2>2, <3>1
      <4> QED BY <2>3, <3>1, <4>1, Zenon
    <3>2. CASE k # m
      <4>1. {t \in Tasks : tmm[t] = k} = {}
        BY <2>2, <3>2
      <4> QED BY <2>3, <3>2, <4>1, Zenon
    <3> QED BY <3>1, <3>2
  <2>6. users[k] = IF k = m THEN 1 ELSE 0
    BY <1>1
  <2> QED BY <2>4, <2>5, <2>6 DEF RefsOn
<1> QED BY <1>5, <1>6, <1>7, <1>8, <1>9, Zenon DEF RefInv

(* Every step keeps RefInv.                                                *)
LEMMA RefInvStep == ASSUME RefInv, [Next]_vars PROVE RefInv'
<1>1. ASSUME NEW r \in Reqs, WorkerStep(r) PROVE RefInv'
  BY <1>1, StartKeeps, TakeKeeps, FinishKeeps, AddOwnKeeps, UnlinkKeeps, CarryKeeps,
     DecideKeeps, Zenon DEF WorkerStep
<1>2. ASSUME NEW t \in Tasks, TaskStep(t) PROVE RefInv'
  <2>1. CASE Unprotect(t)
    <3>1. phase' = phase /\ UNCHANGED <<tmm, x, pins, users, req, ac_prot_req_seq>>
      BY <2>1 DEF Unprotect
    <3> QED BY <3>1, QuietKeeps
  <2> QED BY <1>2, <2>1, ForkKeeps, CloneRetKeeps, EntryPinKeeps, ClaimKeeps, ExecBodyKeeps,
             PostKeeps, RequeueKeeps, RekeyKeeps, ExitKeeps, Zenon DEF TaskStep
<1>3. CASE Unprobe
  BY <1>3, UnprobeKeeps, Zenon
<1>4. CASE Flushed
  <2>1. /\ phase = "unprobed" /\ phase' = "gone" /\ \A r \in Reqs : req[r].pc = "free"
        /\ UNCHANGED <<tmm, x, pins, users, req, ac_prot_req_seq>>
    BY <1>4 DEF Flushed
  <2> QED BY <2>1, QuietKeeps
<1>5. CASE UNCHANGED vars
  <2>1. phase' = phase /\ UNCHANGED <<tmm, x, pins, users, req, ac_prot_req_seq>>
    BY <1>5 DEF vars
  <2> QED BY <2>1, QuietKeeps
<1> QED BY <1>1, <1>2, <1>3, <1>4, <1>5, Zenon DEF Next

(* The pins, the requests and the counts of references stay consistent.    *)
THEOREM ForkInvariant == Spec => []RefInv
<1>1. RefInv /\ [Next]_vars => RefInv'
  BY RefInvStep
<1> QED BY <1>1, RefInvInit, PTL DEF Spec

(* No path of the handlers and the worker leaks a reference or drops one   *)
(* twice.                                                                  *)
THEOREM ForkReferences == Spec => []ReferencesBalance
<1>1. RefInv => ReferencesBalance
  BY SMTT(20) DEF RefInv
<1> QED BY <1>1, ForkInvariant, PTL

(* An exec's image goes to the request of its own process.                 *)
THEOREM ForkHandoff == Spec => []HandoffToOwner
<1>1. RefInv => HandoffToOwner
  BY DEF RefInv, ReqInv, ReqOf, HandoffToOwner
<1> QED BY <1>1, ForkInvariant, PTL

(* Once the workqueue is flushed only running tasks hold address spaces.   *)
THEOREM ForkUnload == Spec => []UnloadLeavesNothing
<1>1. ASSUME RefInv PROVE UnloadLeavesNothing
  <2> SUFFICES ASSUME phase = "gone", NEW m \in MMs
               PROVE  users[m] = Cardinality({t \in Tasks : tmm[t] = m})
    BY Zenon DEF UnloadLeavesNothing
  <2>1. \A r \in Reqs : req[r].mm = NoMM /\ req[r].old = NoMM /\ req[r].post = NoMM
    BY SMTT(20), <1>1 DEF RefInv, GoneInv, ReqInv, ReqOf
  <2>2. \A t \in Tasks : pins[t] = NoMM
    BY <1>1 DEF RefInv, PinInv, PinOf, PinRec
  <2>3. /\ {t \in Tasks : pins[t] = m} = {} /\ {r \in Reqs : req[r].mm = m} = {}
        /\ {r \in Reqs : req[r].old = m} = {} /\ {r \in Reqs : req[r].post = m} = {}
    BY <2>1, <2>2, NamesAssumption
  <2>4. Cardinality({}) = 0
    BY Zenon, FS_EmptySet
  <2>5. Cardinality({t \in Tasks : tmm[t] = m}) \in Nat
    BY NamesAssumption, FS_Subset, FS_CardinalityType
  <2>6. /\ PinsOn(m) = 0 /\ Cardinality({r \in Reqs : req[r].mm = m}) = 0
        /\ Cardinality({r \in Reqs : req[r].old = m}) = 0
        /\ Cardinality({r \in Reqs : req[r].post = m}) = 0
    BY <2>3, <2>4, Zenon DEF PinsOn
  <2>7. users[m] = RefsOn(m)
    BY <1>1 DEF RefInv, ReferencesBalance
  <2> QED BY SMTT(20), <2>5, <2>6, <2>7 DEF RefsOn
<1> QED BY <1>1, ForkInvariant, PTL

(* A rekey drops the entry of an address space only when no task runs in   *)
(* it.                                                                     *)
THEOREM ForkSharers == Spec => SharersKeepEntry
<1>1. RefInv => \A r \in Reqs : req[r].pc = "drop" /\ req'[r].pc = "finish" =>
                   \A t \in Tasks : tmm[t] # req[r].old
  BY DEF RefInv, DropInv
<1>2. RefInv /\ [Next]_vars =>
        [\A r \in Reqs : req[r].pc = "drop" /\ req'[r].pc = "finish" =>
           \A t \in Tasks : tmm[t] # req[r].old]_vars
  BY <1>1, Zenon
<1> QED BY <1>2, ForkInvariant, PTL DEF Spec, SharersKeepEntry

-----------------------------------------------------------------------------
(* Protection follows fork and exec.                                       *)

(* How a request, seen as a record, accounts for task u running in m: it   *)
(* will register m for u, or tell the daemon that u is not protected.      *)
CoverRec(q, u, m) ==
  \/ q.pc \in {"queued", "wait"} /\ q.post = NoMM /\ q.mm = m /\ q.pid = u
  \/ q.pc = "add" /\ q.mm = m /\ q.pid = u
  \/ q.pc \in {"queued", "wait", "add", "unlink", "carry"} /\ q.post = m /\ q.ppid = u
  \/ q.pc \in {"adopt", "stale"} /\ q.mm = m /\ q.pid = u
  \/ q.pc \in {"unlink", "carry", "decide", "finish"} /\ ~q.ok /\ q.pid = u
Covered(u) == tmm[u] \in prot \/ \E r \in Reqs : CoverRec(req[r], u, tmm[u])

(* The return handler of the exec that u is in will account for u.         *)
Handled(u) == x[u].race \/ (x[u].pc = "ret" /\ x[u].old \notin {NoMM, tmm[u]})
CoverOf(u) ==
  u \in due /\ u \notin told /\ u \notin unseen =>
  tmm[u] = NoMM \/ Handled(u) \/ Covered(u)
CoverInv == \A u \in Tasks : CoverOf(u)

(* A registration that succeeded lasts until the request is unlinked, for  *)
(* a process that still runs in that image.                                *)
OkOf(r) ==
  req[r].pc = "unlink" /\ req[r].ok /\ req[r].owner \in due
  /\ req[r].mm = tmm[req[r].owner] => req[r].mm \in prot
OkInv == \A r \in Reqs : OkOf(r)

(* Only a claimed request is posted to.                                    *)
PostOK(q) == q.linked /\ q.post # NoMM => q.claimed
TargetOf(u) == x[u].race => \A r \in HandoffTarget(u) : req[r].claimed
PostInv == (\A r \in Reqs : PostOK(req[r])) /\ \A u \in Tasks : TargetOf(u)

(* Until ac_clone_ret() has run for a child, no fork request names it.     *)
Fresh(c) ==
  c \notin due /\ ~x[c].race /\ \A r \in Reqs : req[r].linked => req[r].owner # c
BornInv ==
  /\ \A u \in Tasks : x[u].pc = "unborn" => Fresh(u)
  /\ \A u \in Tasks : x[u].pc = "clone" => Fresh(x[u].child) /\ x[x[u].child].pc # "unborn"
  /\ \A u, w \in Tasks :
       x[u].pc = "clone" /\ x[w].pc = "clone" /\ x[u].child = x[w].child => u = w

FollowOK == due \subseteq Tasks /\ CoverInv /\ OkInv /\ PostInv /\ BornInv
FollowInv == phase = "loaded" => FollowOK

(* An address space that a task runs in, or that a request refers to, has  *)
(* users.                                                                  *)
HeldInv ==
  /\ \A u \in Tasks : tmm[u] # NoMM => tmm[u] \in MMs /\ users[tmm[u]] > 0
  /\ \A u \in Tasks : pins[u] # NoMM => pins[u] \in MMs /\ users[pins[u]] > 0
  /\ \A r \in Reqs : req[r].mm # NoMM => req[r].mm \in MMs /\ users[req[r].mm] > 0

(* The balance of the references implies it.                               *)
LEMMA StillHeld == RefInv => HeldInv
<1> SUFFICES ASSUME RefInv PROVE HeldInv
  OBVIOUS
<1>0. ForkTypeOK /\ ReferencesBalance
  BY Zenon DEF RefInv
<1>1. ASSUME NEW m \in MMs
      PROVE  /\ users[m] = Held(tmm, m) + Held(pins, m) + Held(MmOf, m) + Held(OldOf, m) + Held(PostOf, m)
             /\ Held(tmm, m) \in Nat /\ Held(pins, m) \in Nat /\ Held(MmOf, m) \in Nat
             /\ Held(OldOf, m) \in Nat /\ Held(PostOf, m) \in Nat
  <2>1. users[m] = TaskRefs(m) + ReqRefs(m)
    BY <1>0, RefsSplit DEF ReferencesBalance
  <2>2. Held(tmm, m) \in Nat /\ Held(pins, m) \in Nat
    BY Zenon, <1>0, HeldNat, NamesAssumption DEF ForkTypeOK
  <2>3. Held(MmOf, m) \in Nat /\ Held(OldOf, m) \in Nat /\ Held(PostOf, m) \in Nat
    BY Zenon, <1>0, HeldNat, FieldsTyped, NamesAssumption
  <2> QED BY <2>1, <2>2, <2>3 DEF TaskRefs, ReqRefs
<1>2. ASSUME NEW u \in Tasks, NEW m \in MMs, tmm[u] = m PROVE users[m] > 0
  <2>1. tmm \in [Tasks -> AnyMM] /\ IsFiniteSet(Tasks)
    BY <1>0, NamesAssumption DEF ForkTypeOK
  <2>2. Held(tmm, m) = 0 <=> \A d \in Tasks : tmm[d] # m
    BY Zenon, <2>1, HeldNat
  <2>3. Held(tmm, m) # 0
    BY Zenon, <2>2, <1>2
  <2> QED BY SMTT(20), <1>1, <2>3
<1>3. ASSUME NEW r \in Reqs, NEW m \in MMs, req[r].mm = m PROVE users[m] > 0
  <2>1. MmOf \in [Reqs -> AnyMM] /\ IsFiniteSet(Reqs) /\ MmOf[r] = m
    BY <1>0, <1>3, FieldsTyped, NamesAssumption DEF MmOf
  <2>2. Held(MmOf, m) = 0 <=> \A d \in Reqs : MmOf[d] # m
    BY Zenon, <2>1, HeldNat
  <2>3. Held(MmOf, m) # 0
    BY Zenon, <2>1, <2>2
  <2> QED BY <1>1, <2>3
<1>4. \A u \in Tasks : tmm[u] # NoMM => tmm[u] \in MMs
  BY <1>0 DEF ForkTypeOK, AnyMM
<1>5. \A r \in Reqs : req[r].mm # NoMM => req[r].mm \in MMs
  BY <1>0 DEF ForkTypeOK, AnyMM, ReqRec
<1>6. ASSUME NEW u \in Tasks, NEW m \in MMs, pins[u] = m PROVE users[m] > 0
  <2>1. pins \in [Tasks -> AnyMM] /\ IsFiniteSet(Tasks)
    BY Zenon, <1>0, NamesAssumption DEF ForkTypeOK
  <2>2. Held(pins, m) = 0 <=> \A d \in Tasks : pins[d] # m
    BY Zenon, <2>1, HeldNat
  <2>3. Held(pins, m) # 0
    BY Zenon, <2>2, <1>6
  <2> QED BY <1>1, <2>3
<1>7. \A u \in Tasks : pins[u] # NoMM => pins[u] \in MMs
  BY <1>0 DEF ForkTypeOK, AnyMM
<1> QED BY Zenon, <1>2, <1>3, <1>4, <1>5, <1>6, <1>7 DEF HeldInv

(* The entries of the address spaces that tasks run in stay.               *)
ProtKept == \A u \in Tasks : u \in due' /\ tmm'[u] # NoMM /\ tmm'[u] \in prot => tmm'[u] \in prot'

(* The teardown of an mm without users drops no such entry,                *)
LEMMA SettleKeeps ==
  ASSUME RefInv', NEW p, prot \subseteq p, prot' = {m \in p : users'[m] > 0}
  PROVE  ProtKept
<1>1. HeldInv'
  BY StillHeld, PTL
<1> QED BY <1>1 DEF HeldInv, ProtKept

(* nor one that is just being added.                                       *)
LEMMA SettleAdds ==
  ASSUME RefInv', NEW p, prot' = {m \in p : users'[m] > 0}, NEW u \in Tasks,
         tmm'[u] # NoMM, tmm'[u] \in p
  PROVE  tmm'[u] \in prot'
<1>1. HeldInv'
  BY StillHeld, PTL
<1> QED BY <1>1 DEF HeldInv

(* A task that the step leaves in its image stays accounted for.           *)
LEMMA CoverSame ==
  ASSUME CoverInv, ProtKept, NEW u \in Tasks, tmm'[u] = tmm[u], u \in due' => u \in due,
         u \in due' /\ u \in told => u \in told', u \in due' /\ u \in unseen => u \in unseen',
         Handled(u) => Handled(u)',
         \A r \in Reqs : CoverRec(req[r], u, tmm[u]) /\ tmm[u] # NoMM /\ u \in due' =>
           CoverRec(req'[r], u, tmm[u]) \/ tmm[u] \in prot' \/ u \in told'
  PROVE  CoverOf(u)'
<1>1. CoverOf(u)
  BY DEF CoverInv
<1> QED BY Zenon, <1>1 DEF CoverOf, Covered, ProtKept

(* The same for a request that the step leaves alone.                      *)
LEMMA OkSame ==
  ASSUME OkInv, ProtKept, NEW r \in Reqs, req[r].owner \in Tasks,
         req'[r].pc = "unlink" /\ req'[r].ok =>
           /\ req[r].pc = "unlink" /\ req[r].ok /\ req'[r].owner = req[r].owner
           /\ req'[r].mm = req[r].mm /\ req[r].mm # NoMM,
         req[r].pc = "unlink" /\ req[r].owner \in due' => req[r].owner \in due,
         req[r].mm # NoMM /\ req[r].mm = tmm'[req[r].owner] => req[r].mm = tmm[req[r].owner]
  PROVE  OkOf(r)'
<1>1. OkOf(r)
  BY DEF OkInv
<1> QED BY Zenon, <1>1 DEF OkOf, ProtKept

(* Claims and posts.                                                       *)
PostStep(r) ==
  \/ req'[r] = req[r]
  \/ /\ PostOK(req'[r])
     /\ req'[r].linked =>
          \/ req[r].linked /\ req'[r].id = req[r].id /\ (req[r].claimed => req'[r].claimed)
          \/ req'[r].id > ac_prot_req_seq

(* Requests and tasks that step this way keep PostInv.                     *)
LEMMA PostKept ==
  ASSUME RefInv, PostInv, \A r \in Reqs : PostStep(r),
         \A u \in Tasks : SameClaim(u) \/ TargetOf(u)'
  PROVE  PostInv'
<1>1. \A r \in Reqs : PostOK(req'[r])
  BY Zenon DEF PostInv, PostStep
<1>2. ASSUME NEW u \in Tasks, SameClaim(u) PROVE TargetOf(u)'
  <2> SUFFICES ASSUME x'[u].race, NEW r \in HandoffTarget(u)' PROVE req'[r].claimed
    BY Zenon DEF TargetOf
  <2>1. /\ x[u].race /\ r \in Reqs /\ r = x[u].preq /\ req'[r].linked /\ req'[r].id = x[u].pid
    BY <1>2 DEF HandoffTarget, SameClaim
  <2>2. x[u].pid <= ac_prot_req_seq
    BY ZenonT(40), <2>1 DEF RefInv, ClaimInv, ClaimOf
  <2>3. x[u].pid \in Nat /\ ac_prot_req_seq \in Nat
    BY Zenon, TaskTyped DEF TaskRec
  <2>4. ~ (req'[r].id > ac_prot_req_seq)
    BY <2>1, <2>2, <2>3
  <2>5. req'[r] = req[r] \/ (req[r].linked /\ req'[r].id = req[r].id /\ (req[r].claimed => req'[r].claimed))
    BY ZenonT(40), <2>1, <2>4 DEF PostStep
  <2>6. r \in HandoffTarget(u)
    BY Zenon, <2>1, <2>5 DEF HandoffTarget
  <2>7. req[r].claimed
    BY Zenon, <2>1, <2>6 DEF PostInv, TargetOf
  <2> QED BY Zenon, <2>5, <2>7
<1> QED BY Zenon, <1>1, <1>2 DEF PostInv

(* Children that ac_clone_ret() has not seen yet.                          *)
Awaited(c) == x[c].pc = "unborn" \/ \E u \in Tasks : x[u].pc = "clone" /\ x[u].child = c

(* They stay out of the requests until it does.                            *)
LEMMA BornKept ==
  ASSUME BornInv,
         \A u \in Tasks : x'[u].pc = "clone" => x[u].pc = "clone" /\ x'[u].child = x[u].child,
         \A u \in Tasks : x'[u].pc = "unborn" <=> x[u].pc = "unborn",
         \A u \in Tasks : x[u].child \in Tasks,
         \A c \in Tasks : Awaited(c)' /\ Fresh(c) => Fresh(c)'
  PROVE  BornInv'
<1>1. ASSUME NEW u \in Tasks, x'[u].pc = "unborn" PROVE Fresh(u)'
  BY Zenon, <1>1 DEF BornInv, Awaited
<1>2. ASSUME NEW u \in Tasks, x'[u].pc = "clone", NEW c \in Tasks, x'[u].child = c
      PROVE  Fresh(c)' /\ x'[c].pc # "unborn"
  <2>1. x[u].pc = "clone" /\ x[u].child = c
    BY Zenon, <1>2
  <2>2. Fresh(c) /\ x[c].pc # "unborn"
    BY Zenon, <2>1 DEF BornInv
  <2>3. Awaited(c)'
    BY Zenon, <1>2 DEF Awaited
  <2> QED BY Zenon, <2>2, <2>3
<1>3. \A u, w \in Tasks :
        x'[u].pc = "clone" /\ x'[w].pc = "clone" /\ x'[u].child = x'[w].child => u = w
  <2> SUFFICES ASSUME NEW u \in Tasks, NEW w \in Tasks, x'[u].pc = "clone", x'[w].pc = "clone",
                      x'[u].child = x'[w].child
               PROVE  u = w
    BY Zenon
  <2>1. x[u].pc = "clone" /\ x[w].pc = "clone" /\ x[u].child = x[w].child
    BY Zenon
  <2> QED BY Zenon, <2>1 DEF BornInv
<1>4. ASSUME NEW u \in Tasks, x'[u].pc = "clone"
      PROVE  Fresh(x[u].child)' /\ x'[x'[u].child].pc # "unborn"
  <2>1. x'[u].child \in Tasks
    BY Zenon, <1>4
  <2> QED BY Zenon, <1>2, <1>4, <2>1
<1> QED BY Zenon, <1>1, <1>3, <1>4 DEF BornInv

(* A step of the worker on request r.                                      *)
LEMMA FollowWorker ==
  ASSUME RefInv, FollowInv, ProtKept, NEW r \in Reqs, NEW q, req' = [req EXCEPT ![r] = q],
         UNCHANGED <<tmm, x, due, unseen, phase, ac_prot_req_seq>>, told \subseteq told',
         q.linked => /\ req[r].linked /\ q.id = req[r].id /\ q.owner = req[r].owner
                     /\ q.claimed = req[r].claimed /\ q.post = req[r].post,
         q.pc = "unlink" /\ q.ok => q.mm \in prot',
         \A u \in Tasks : CoverRec(req[r], u, tmm[u]) /\ tmm[u] # NoMM /\ u \in due =>
           CoverRec(q, u, tmm[u]) \/ tmm[u] \in prot' \/ u \in told'
  PROVE  FollowInv'
<1> SUFFICES ASSUME phase = "loaded" PROVE FollowOK'
  BY Zenon DEF FollowInv
<1>0. due \subseteq Tasks /\ CoverInv /\ OkInv /\ PostInv /\ BornInv
  BY Zenon DEF FollowInv, FollowOK
<1>1. req'[r] = q /\ \A p \in Reqs \ {r} : req'[p] = req[p]
  BY Zenon DEF RefInv, ForkTypeOK
<1>2. ASSUME NEW u \in Tasks PROVE CoverOf(u)'
  <2>1. Handled(u) => Handled(u)'
    BY Zenon DEF Handled
  <2>2. \A p \in Reqs : CoverRec(req[p], u, tmm[u]) /\ tmm[u] # NoMM /\ u \in due' =>
          CoverRec(req'[p], u, tmm[u]) \/ tmm[u] \in prot' \/ u \in told'
    BY Zenon, <1>1
  <2>3. tmm'[u] = tmm[u] /\ (u \in due' => u \in due) /\ (u \in told => u \in told')
        /\ (u \in unseen => u \in unseen')
    BY Zenon
  <2> QED BY Zenon, <1>0, <2>1, <2>2, <2>3, CoverSame
<1>3. ASSUME NEW p \in Reqs PROVE OkOf(p)'
  <2>1. CASE p = r
    BY Zenon, <1>1, <2>1 DEF OkOf
  <2>2. CASE p # r
    <3>1. req'[p] = req[p] /\ req[p].owner \in Tasks
      BY SMTT(20), <1>1, <2>2, ReqTyped DEF ReqRec
    <3>2. req[p].pc = "unlink" => req[p].mm # NoMM
      BY Zenon, ReqTyped DEF ReqOf
    <3>3. /\ req[p].owner \in due' => req[p].owner \in due
          /\ req[p].mm = tmm'[req[p].owner] => req[p].mm = tmm[req[p].owner]
      BY Zenon
    <3> QED BY ZenonT(30), <1>0, <3>1, <3>2, <3>3, OkSame
  <2> QED BY Zenon, <2>1, <2>2
<1>4. PostInv'
  <2>1. ASSUME NEW p \in Reqs PROVE PostStep(p)
    <3>1. CASE p = r
      <4>1. PostOK(req[r])
        BY Zenon, <1>0 DEF PostInv
      <4>2. PostOK(q)
        BY Zenon, <4>1 DEF PostOK
      <4> QED BY Zenon, <3>1, <4>2, <1>1 DEF PostStep
    <3>2. CASE p # r
      BY Zenon, <3>2, <1>1 DEF PostStep
    <3> QED BY Zenon, <3>1, <3>2
  <2>2. \A u \in Tasks : SameClaim(u)
    BY Zenon DEF SameClaim
  <2> QED BY Zenon, <1>0, <2>1, <2>2, PostKept
<1>5. BornInv'
  <2>1. \A u \in Tasks : x[u].child \in Tasks
    BY TaskTyped DEF TaskRec
  <2>2. ASSUME NEW c \in Tasks, Fresh(c) PROVE Fresh(c)'
    <3>1. ASSUME NEW p \in Reqs, req'[p].linked PROVE req'[p].owner # c
      <4>1. CASE p = r
        <5>1. q.linked /\ req'[p].owner = q.owner
          BY <1>1, <3>1, <4>1
        <5>2. req[r].linked /\ q.owner = req[r].owner
          BY Zenon, <5>1
        <5> QED BY Zenon, <2>2, <5>1, <5>2 DEF Fresh
      <4>2. CASE p # r
        BY ZenonT(30), <1>1, <2>2, <3>1, <4>2 DEF Fresh
      <4> QED BY Zenon, <4>1, <4>2
    <3> QED BY Zenon, <2>2, <3>1 DEF Fresh
  <2>3. \A u \in Tasks : x'[u] = x[u]
    BY Zenon
  <2> QED BY ZenonT(30), <1>0, <2>1, <2>2, <2>3, BornKept
<1> QED BY Zenon, <1>0, <1>2, <1>3, <1>4, <1>5 DEF FollowOK, CoverInv, OkInv

(* The worker starts on a request.                                         *)
LEMMA StartFollows == ASSUME RefInv, FollowInv, NEW r \in Reqs, Start(r) PROVE FollowInv'
<1> DEFINE l == IF req[r].linked /\ req[r].claimed THEN "wait" ELSE "add"
           q == [req[r] EXCEPT !.pc = l]
<1>1. /\ req[r].pc = "queued" /\ req' = [req EXCEPT ![r] = q] /\ prot' = prot /\ told' = told
      /\ UNCHANGED <<tmm, x, due, unseen, phase, ac_prot_req_seq>>
  BY Zenon DEF Start, Worker, rest
<1>2. l \in {"wait", "add"}
  OBVIOUS
<1> HIDE DEF l
<1>3. /\ q.pc = l /\ q.mm = req[r].mm /\ q.post = req[r].post /\ q.pid = req[r].pid
      /\ q.ppid = req[r].ppid /\ q.linked = req[r].linked /\ q.id = req[r].id
      /\ q.owner = req[r].owner /\ q.claimed = req[r].claimed
  BY SMTT(20), ReqTyped DEF ReqRec
<1> HIDE DEF q
<1>4. \A u \in Tasks : CoverRec(req[r], u, tmm[u]) => CoverRec(q, u, tmm[u])
  BY Zenon, <1>1, <1>2, <1>3 DEF CoverRec
<1>5. ProtKept /\ q.pc # "unlink" /\ told \subseteq told'
  BY <1>1, <1>2, <1>3 DEF ProtKept
<1> QED BY Zenon, <1>1, <1>3, <1>4, <1>5, FollowWorker

(* The worker has entered the request's own address space, or could not.   *)
LEMMA AddOwnFollows == ASSUME RefInv, FollowInv, NEW r \in Reqs, AddOwn(r) PROVE FollowInv'
<1>0. PICK good \in BOOLEAN :
        /\ Worker(r, "add", [req[r] EXCEPT !.ok = good,
                               !.pc = IF req[r].old = NoMM THEN "unlink" ELSE "decide"])
        /\ prot' = IF good THEN prot \cup {req[r].mm} ELSE prot
  BY Zenon DEF AddOwn
<1> DEFINE l == IF req[r].old = NoMM THEN "unlink" ELSE "decide"
           q == [req[r] EXCEPT !.ok = good, !.pc = l]
<1>1. /\ req[r].pc = "add" /\ req' = [req EXCEPT ![r] = q] /\ told' = told
      /\ UNCHANGED <<tmm, x, due, unseen, phase, ac_prot_req_seq>>
  BY Zenon, <1>0 DEF AddOwn, Worker, rest
<1>2. l \in {"unlink", "decide"} /\ (l = "decide" => req[r].post = NoMM)
  BY <1>1, ReqTyped DEF ReqOf
<1> HIDE DEF l
<1>3. /\ q.pc = l /\ q.mm = req[r].mm /\ q.post = req[r].post /\ q.pid = req[r].pid
      /\ q.ppid = req[r].ppid /\ q.linked = req[r].linked /\ q.id = req[r].id
      /\ q.owner = req[r].owner /\ q.claimed = req[r].claimed /\ q.ok = good
  BY ReqTyped DEF ReqRec
<1> HIDE DEF q
<1>4. prot \subseteq prot' /\ (good => req[r].mm \in prot')
  BY <1>0
<1>5. \A u \in Tasks : CoverRec(req[r], u, tmm[u]) /\ tmm[u] # NoMM =>
        CoverRec(q, u, tmm[u]) \/ tmm[u] \in prot'
  BY Zenon, <1>1, <1>2, <1>3, <1>4 DEF CoverRec
<1>6. ProtKept /\ told \subseteq told' /\ (q.ok => q.mm \in prot')
  BY <1>1, <1>3, <1>4 DEF ProtKept
<1> QED BY Zenon, <1>1, <1>3, <1>5, <1>6, FollowWorker

(* Decide() and DropOld(): the entry dropped is one no task runs in.       *)
LEMMA DecideFollows ==
  ASSUME RefInv, FollowInv, NEW r \in Reqs, Decide(r) \/ DropOld(r)
  PROVE  FollowInv'
<1>1. PICK l \in {"drop", "finish"} :
        /\ req' = [req EXCEPT ![r] = [req[r] EXCEPT !.pc = l]]
        /\ req[r].pc \in {"decide", "drop"}
        /\ l = "drop" => req[r].ok
  BY DEF Decide, DropOld, Worker
<1>2. /\ told' = told /\ UNCHANGED <<tmm, x, due, unseen, phase, ac_prot_req_seq>>
      /\ \/ prot' = prot
         \/ req[r].pc = "drop" /\ prot' = prot \ {req[r].old}
  BY Zenon DEF Decide, DropOld, Worker, rest
<1> DEFINE q == [req[r] EXCEPT !.pc = l]
<1>3. /\ q.pc = l /\ q.linked = req[r].linked /\ q.id = req[r].id /\ q.pid = req[r].pid
      /\ q.owner = req[r].owner /\ q.claimed = req[r].claimed /\ q.post = req[r].post
      /\ q.ok = req[r].ok
  BY ReqTyped DEF ReqRec
<1>4. req' = [req EXCEPT ![r] = q]
  BY <1>1
<1> HIDE DEF q
<1>5. \A u \in Tasks : CoverRec(req[r], u, tmm[u]) => CoverRec(q, u, tmm[u])
  BY SMTT(20), <1>1, <1>3 DEF CoverRec
<1>6. ProtKept
  <2>1. req[r].pc = "drop" => \A u \in Tasks : tmm[u] # req[r].old
    BY Zenon DEF RefInv, DropInv
  <2> QED BY <1>2, <2>1 DEF ProtKept
<1>7. q.pc # "unlink" /\ told \subseteq told'
  BY SMTT(20), <1>1, <1>2, <1>3
<1>8. UNCHANGED <<tmm, x, due, unseen, phase, ac_prot_req_seq>>
  BY <1>2
<1> QED BY Zenon, <1>3, <1>4, <1>5, <1>6, <1>7, <1>8, FollowWorker

(* The end of the wait: the posted image takes the place of the stale one. *)
LEMMA TakeFollows ==
  ASSUME RefInv, RefInv', FollowInv, NEW r \in Reqs, TakeHandoff(r)
  PROVE  FollowInv'
<1> DEFINE p == req[r].post
           q == [req[r] EXCEPT !.linked = FALSE, !.post = NoMM,
                   !.mm = IF p = NoMM THEN @ ELSE p,
                   !.pid = IF p = NoMM THEN @ ELSE req[r].ppid,
                   !.pc = IF p = NoMM THEN "stale" ELSE "adopt"]
<1>1. /\ req[r].pc = "wait" /\ req' = [req EXCEPT ![r] = q] /\ told' = told
      /\ UNCHANGED <<tmm, x, due, unseen, phase, ac_prot_req_seq>>
  BY Zenon DEF TakeHandoff, Worker, rest
<1>2. ProtKept
  <2>1. prot' = {m \in prot : users'[m] > 0}
    BY DEF TakeHandoff, Settle
  <2> QED BY <2>1, SettleKeeps
<1>3. /\ ~q.linked /\ q.post = NoMM
      /\ p = NoMM => q.pc = "stale" /\ q.mm = req[r].mm /\ q.pid = req[r].pid
      /\ p # NoMM => q.pc = "adopt" /\ q.mm = p /\ q.pid = req[r].ppid
  BY SMTT(20), ReqTyped DEF ReqRec
<1> HIDE DEF q
<1>4. \A u \in Tasks : CoverRec(req[r], u, tmm[u]) /\ tmm[u] # NoMM => CoverRec(q, u, tmm[u])
  BY SMTT(20), <1>1, <1>3 DEF CoverRec
<1>5. q.pc # "unlink" /\ told \subseteq told'
  BY <1>1, <1>3
<1> QED BY Zenon, <1>1, <1>2, <1>3, <1>4, <1>5, FollowWorker

(* A request that is given back.                                           *)
LEMMA FreeFollows ==
  ASSUME RefInv, RefInv', FollowInv, NEW r \in Reqs, req' = [req EXCEPT ![r] = Free],
         UNCHANGED rest, NEW p, prot \subseteq p, prot' = {m \in p : users'[m] > 0},
         told \subseteq told',
         \A u \in Tasks : CoverRec(req[r], u, tmm[u]) /\ tmm[u] # NoMM => tmm[u] \in p \/ u \in told'
  PROVE  FollowInv'
<1>1. UNCHANGED <<tmm, x, due, unseen, phase, ac_prot_req_seq>>
  BY SMTT(20) DEF rest
<1>2. ~Free.linked /\ Free.pc # "unlink"
  BY DEF Free
<1>3. ProtKept
  BY SettleKeeps
<1>4. \A u \in Tasks : tmm[u] # NoMM /\ tmm[u] \in p => tmm[u] \in prot'
  BY Zenon, <1>1, SettleAdds
<1> QED BY ZenonT(40), <1>1, <1>2, <1>3, <1>4, FollowWorker

(* An adopted or a stale image is entered, or the loss reported.           *)
LEMMA AddHandoffFollows ==
  ASSUME RefInv, RefInv', FollowInv, NEW r \in Reqs, AddHandoff(r)
  PROVE  FollowInv'
<1>1. UNCHANGED rest /\ req[r].pc \in {"adopt", "stale"} /\ req' = [req EXCEPT ![r] = Free]
  BY Zenon DEF AddHandoff, Worker
<1>2. PICK p \in {prot, prot \cup {req[r].mm}} :
        /\ prot' = {m \in p : users'[m] > 0}
        /\ \/ told' = told /\ p = prot \cup {req[r].mm}
           \/ told' = told \cup {req[r].pid}
  BY Zenon DEF AddHandoff, Settle
<1>3. prot \subseteq p /\ told \subseteq told'
  BY <1>2
<1>4. \A u \in Tasks : CoverRec(req[r], u, tmm[u]) /\ tmm[u] # NoMM => tmm[u] \in p \/ u \in told'
  BY Zenon, <1>1, <1>2 DEF CoverRec
<1>5. prot' = {m \in p : users'[m] > 0}
  BY <1>2
<1> QED BY Zenon, <1>1, <1>3, <1>4, <1>5, FreeFollows

(* A request that failed tells the daemon before it is given back.         *)
LEMMA FinishFollows ==
  ASSUME RefInv, RefInv', FollowInv, NEW r \in Reqs, Finish(r)
  PROVE  FollowInv'
<1>1. /\ UNCHANGED rest /\ req[r].pc = "finish" /\ req' = [req EXCEPT ![r] = Free]
      /\ prot' = {m \in prot : users'[m] > 0}
      /\ told' = IF req[r].ok THEN told ELSE told \cup {req[r].pid}
  BY DEF Finish, Worker, Settle
<1>2. told \subseteq told' /\ prot \subseteq prot
  BY SMTT(20), <1>1
<1>3. \A u \in Tasks : CoverRec(req[r], u, tmm[u]) => u \in told'
  BY <1>1 DEF CoverRec
<1> QED BY ZenonT(40), <1>1, <1>2, <1>3, FreeFollows

(* The request is unlinked; an image posted meanwhile is carried over,     *)
(* unless it is the one the request has registered.                        *)
LEMMA UnlinkFollows ==
  ASSUME RefInv, RefInv', FollowInv, NEW r \in Reqs, Unlink(r)
  PROVE  FollowInv'
<1> DEFINE q == [req[r] EXCEPT !.linked = FALSE,
                   !.post = IF @ = req[r].mm THEN NoMM ELSE @,
                   !.pc = IF req[r].post \in {NoMM, req[r].mm} THEN "finish" ELSE "carry"]
<1>1. /\ req[r].pc = "unlink" /\ req' = [req EXCEPT ![r] = q] /\ told' = told
      /\ UNCHANGED <<tmm, x, due, unseen, phase, ac_prot_req_seq>>
  BY Zenon DEF Unlink, Worker, rest
<1>2. ProtKept
  <2>1. prot' = {m \in prot : users'[m] > 0}
    BY DEF Unlink, Settle
  <2> QED BY <2>1, SettleKeeps
<1>3. /\ ~q.linked /\ q.ok = req[r].ok /\ q.pid = req[r].pid /\ q.ppid = req[r].ppid
      /\ req[r].post \in {NoMM, req[r].mm} => q.pc = "finish"
      /\ req[r].post \notin {NoMM, req[r].mm} => q.pc = "carry" /\ q.post = req[r].post
  BY SMTT(20), ReqTyped DEF ReqRec
<1> HIDE DEF q
<1>4. req[r].pid = req[r].owner /\ (req[r].post # NoMM => req[r].ppid = req[r].owner)
  BY Zenon, <1>1, ReqTyped DEF ReqOf
<1>5. CASE phase = "loaded"
  <2>1. ASSUME NEW u \in Tasks, CoverRec(req[r], u, tmm[u]), tmm[u] # NoMM, u \in due
        PROVE  CoverRec(q, u, tmm[u]) \/ tmm[u] \in prot'
    <3>1. CASE ~req[r].ok /\ req[r].pid = u
      BY <3>1, <1>3 DEF CoverRec
    <3>2. CASE req[r].post = tmm[u] /\ req[r].ppid = u /\ req[r].ok
      <4>1. CASE req[r].post = req[r].mm
        <5>1. OkOf(r)
          BY Zenon, <1>5 DEF FollowInv, FollowOK, OkInv
        <5>2. tmm[u] \in prot
          BY ZenonT(30), <1>1, <1>4, <2>1, <3>2, <4>1, <5>1 DEF OkOf
        <5> QED BY Zenon, <1>1, <1>2, <2>1, <5>2 DEF ProtKept
      <4>2. CASE req[r].post # req[r].mm
        BY <1>3, <2>1, <3>2, <4>2 DEF CoverRec
      <4> QED BY Zenon, <4>1, <4>2
    <3>3. (~req[r].ok /\ req[r].pid = u) \/ (req[r].post = tmm[u] /\ req[r].ppid = u)
      BY Zenon, <1>1, <2>1 DEF CoverRec
    <3>4. req[r].post = tmm[u] /\ req[r].ppid = u => req[r].pid = u
      BY Zenon, <1>4, <2>1
    <3> QED BY ZenonT(40), <3>1, <3>2, <3>3, <3>4
  <2>2. q.pc # "unlink" /\ told \subseteq told'
    BY Zenon, <1>1, <1>3
  <2> QED BY Zenon, <1>1, <1>2, <1>3, <2>1, <2>2, FollowWorker
<1>6. CASE phase # "loaded"
  BY Zenon, <1>1, <1>6 DEF FollowInv
<1> QED BY Zenon, <1>5, <1>6

(* The image carried over is entered, or the loss reported.                *)
LEMMA CarryFollows ==
  ASSUME RefInv, RefInv', FollowInv, NEW r \in Reqs, AddCarried(r)
  PROVE  FollowInv'
<1> DEFINE q == [req[r] EXCEPT !.post = NoMM, !.pc = "finish"]
<1>1. /\ req[r].pc = "carry" /\ req' = [req EXCEPT ![r] = q]
      /\ UNCHANGED <<tmm, x, due, unseen, phase, ac_prot_req_seq>>
  BY Zenon DEF AddCarried, Worker, rest
<1>2. PICK p \in {prot, prot \cup {req[r].post}} :
        /\ prot' = {m \in p : users'[m] > 0}
        /\ \/ told' = told /\ p = prot \cup {req[r].post}
           \/ told' = told \cup {req[r].ppid}
  BY Zenon DEF AddCarried, Settle
<1>3. q.linked = req[r].linked /\ q.pc = "finish" /\ q.ok = req[r].ok /\ q.pid = req[r].pid
  BY SMTT(20), ReqTyped DEF ReqRec
<1> HIDE DEF q
<1>4. ~req[r].linked
  BY Zenon, <1>1, ReqTyped DEF ReqOf
<1>5. prot \subseteq p /\ told \subseteq told'
  BY <1>2
<1>6. ProtKept
  BY <1>2, <1>5, SettleKeeps
<1>7. \A u \in Tasks : tmm[u] # NoMM /\ tmm[u] \in p => tmm[u] \in prot'
  BY Zenon, <1>1, <1>2, SettleAdds
<1>8. \A u \in Tasks : CoverRec(req[r], u, tmm[u]) /\ tmm[u] # NoMM =>
        CoverRec(q, u, tmm[u]) \/ tmm[u] \in p \/ u \in told'
  BY Zenon, <1>1, <1>2, <1>3 DEF CoverRec
<1>9. ~q.linked /\ q.pc # "unlink"
  BY <1>3, <1>4
<1> QED BY Zenon, <1>1, <1>5, <1>6, <1>7, <1>8, <1>9, FollowWorker

-----------------------------------------------------------------------------
(* A step of one task that leaves the requests alone.                      *)
LEMMA FollowTask ==
  ASSUME RefInv, FollowOK, ProtKept, NEW t \in Tasks, UNCHANGED req,
         \A u \in Tasks \ {t} : x'[u] = x[u] /\ tmm'[u] = tmm[u],
         due' \subseteq due, \A u \in due' : u \in told => u \in told',
         \A u \in due' : u \in unseen => u \in unseen',
         SameClaim(t), x'[t].pc # "clone", x'[t].pc = "unborn" <=> x[t].pc = "unborn",
         CoverOf(t)',
         \A r \in Reqs : req[r].mm # NoMM /\ req[r].mm = tmm'[t] => req[r].mm = tmm[t]
  PROVE  FollowOK'
<1>0. due \subseteq Tasks /\ CoverInv /\ OkInv /\ PostInv /\ BornInv
  BY Zenon DEF FollowOK
<1>1. ASSUME NEW u \in Tasks PROVE CoverOf(u)'
  <2>1. CASE u = t
    BY Zenon, <2>1
  <2>2. CASE u # t
    <3>1. x'[u] = x[u] /\ tmm'[u] = tmm[u]
      BY Zenon, <2>2
    <3>2. Handled(u) => Handled(u)'
      BY Zenon, <3>1 DEF Handled
    <3>3. /\ u \in due' => u \in due
          /\ u \in due' /\ u \in told => u \in told'
          /\ u \in due' /\ u \in unseen => u \in unseen'
      BY Zenon
    <3> QED BY Zenon, <1>0, <3>1, <3>2, <3>3, CoverSame
  <2> QED BY Zenon, <2>1, <2>2
<1>2. ASSUME NEW r \in Reqs PROVE OkOf(r)'
  <2>1. req'[r] = req[r] /\ req[r].owner \in Tasks
    BY Zenon, ReqTyped DEF ReqRec
  <2>2. req[r].pc = "unlink" => req[r].mm # NoMM
    BY Zenon, ReqTyped DEF ReqOf
  <2>3. /\ req[r].owner \in due' => req[r].owner \in due
        /\ req[r].mm # NoMM /\ req[r].mm = tmm'[req[r].owner] => req[r].mm = tmm[req[r].owner]
    BY Zenon, <2>1
  <2> QED BY Zenon, <1>0, <2>1, <2>2, <2>3, OkSame
<1>3. PostInv'
  <2>1. \A r \in Reqs : PostStep(r)
    BY Zenon DEF PostStep
  <2>2. \A u \in Tasks : SameClaim(u)
    BY Zenon DEF SameClaim
  <2> QED BY Zenon, <1>0, <2>1, <2>2, PostKept
<1>4. BornInv'
  <2>1. \A u \in Tasks : x[u].child \in Tasks
    BY Zenon, TaskTyped DEF TaskRec
  <2>2. ASSUME NEW c \in Tasks, Fresh(c) PROVE Fresh(c)'
    <3>1. x'[c].race => x[c].race
      BY Zenon DEF SameClaim
    <3> QED BY Zenon, <2>2, <3>1 DEF Fresh
  <2>3. \A u \in Tasks : x'[u].pc = "clone" => x[u].pc = "clone" /\ x'[u].child = x[u].child
    BY Zenon
  <2>4. \A u \in Tasks : x'[u].pc = "unborn" <=> x[u].pc = "unborn"
    BY Zenon
  <2> QED BY Zenon, <1>0, <2>1, <2>2, <2>3, <2>4, BornKept
<1> QED BY Zenon, <1>0, <1>1, <1>2, <1>3, <1>4 DEF FollowOK, CoverInv, OkInv

(* A task that is not inside an exec is not left to a return handler.      *)
LEMMA NotHandled ==
  ASSUME RefInv, NEW t \in Tasks, x[t].pc \notin {"body", "ret"}
  PROVE  ~Handled(t) /\ ~x[t].race
BY TaskTyped DEF PinRec, Handled

(* The entry handler looks the address space up.                           *)
LEMMA EntryPinFollows == ASSUME RefInv, FollowOK, NEW t \in Tasks, EntryPin(t) PROVE FollowOK'
<1>1. /\ x[t].pc = "user" /\ UNCHANGED <<tmm, prot, req, due, told, unseen>>
      /\ \/ x' = [x EXCEPT ![t].pc = "body", ![t].old = tmm[t]]
         \/ x' = [x EXCEPT ![t].pc = "scan"]
  BY DEF EntryPin, Runs, hist
<1>2. /\ x'[t].pc \in {"body", "scan"} /\ x'[t].race = x[t].race
      /\ \A u \in Tasks \ {t} : x'[u] = x[u]
  <2>1. x \in [Tasks -> TaskRec]
    BY DEF RefInv, ForkTypeOK
  <2>2. x[t] \in TaskRec
    BY <2>1
  <2> QED BY SMTT(20), <1>1, <2>1, <2>2 DEF TaskRec
<1>3. ~Handled(t) /\ ~x[t].race
  BY Zenon, <1>1, NotHandled
<1>4. ProtKept /\ SameClaim(t)
  BY Zenon, <1>1, <1>2, <1>3 DEF ProtKept, SameClaim
<1>5. CoverOf(t)'
  BY Zenon, <1>1, <1>3, <1>4, CoverSame DEF FollowOK
<1>6. x'[t].pc # "clone" /\ (x'[t].pc = "unborn" <=> x[t].pc = "unborn")
  BY <1>1, <1>2
<1>7. /\ \A u \in Tasks \ {t} : x'[u] = x[u] /\ tmm'[u] = tmm[u]
      /\ due' \subseteq due
      /\ \A u \in due' : u \in told => u \in told'
      /\ \A u \in due' : u \in unseen => u \in unseen'
      /\ \A r \in Reqs : req[r].mm # NoMM /\ req[r].mm = tmm'[t] => req[r].mm = tmm[t]
  BY Zenon, <1>1, <1>2
<1>8. UNCHANGED req
  BY <1>1
<1> QED BY Zenon, <1>4, <1>5, <1>6, <1>7, <1>8, FollowTask

(* A task exits: its history goes with it.                                 *)
LEMMA ExitFollows == ASSUME RefInv, RefInv', FollowOK, NEW t \in Tasks, Exit(t) PROVE FollowOK'
<1>1. /\ x[t].pc = "user" /\ tmm' = [tmm EXCEPT ![t] = NoMM] /\ UNCHANGED <<x, req>>
      /\ due' = due \ {t} /\ told' = told \ {t} /\ unseen' = unseen \ {t}
      /\ prot' = {m \in prot : users'[m] > 0}
  BY Zenon DEF Exit, Runs, Settle
<1>2. tmm'[t] = NoMM /\ \A u \in Tasks \ {t} : x'[u] = x[u] /\ tmm'[u] = tmm[u]
  BY Zenon, <1>1 DEF RefInv, ForkTypeOK
<1>3. ProtKept
  BY Zenon, <1>1, SettleKeeps
<1>4. SameClaim(t) /\ UNCHANGED req
  BY Zenon, <1>1 DEF SameClaim
<1>5. CoverOf(t)'
  BY Zenon, <1>2 DEF CoverOf
<1>6. x'[t].pc # "clone" /\ (x'[t].pc = "unborn" <=> x[t].pc = "unborn")
  BY Zenon, <1>1
<1>7. /\ due' \subseteq due
      /\ \A u \in due' : u \in told => u \in told'
      /\ \A u \in due' : u \in unseen => u \in unseen'
  BY <1>1
<1>8. \A r \in Reqs : req[r].mm # NoMM /\ req[r].mm = tmm'[t] => req[r].mm = tmm[t]
  BY <1>2
<1> QED BY Zenon, <1>2, <1>3, <1>4, <1>5, <1>6, <1>7, <1>8, FollowTask

(* AC_IOCTL_DEL_PROC: nobody in that image is to be protected any more.    *)
LEMMA UnprotectFollows == ASSUME RefInv, FollowOK, NEW t \in Tasks, Unprotect(t) PROVE FollowOK'
<1>1. /\ prot' = prot \ {tmm[t]} /\ due' = {c \in due : tmm[c] # tmm[t]}
      /\ UNCHANGED <<tmm, x, req, told, unseen>>
  BY Zenon DEF Unprotect
<1>2. ProtKept
  BY <1>1 DEF ProtKept
<1>3. t \notin due'
  BY <1>1
<1>4. CoverOf(t)'
  BY Zenon, <1>3 DEF CoverOf
<1>5. ASSUME NEW u \in Tasks PROVE CoverOf(u)'
  <2>1. u \in due' => u \in due
    BY Zenon, <1>1
  <2>2. Handled(u) => Handled(u)'
    BY <1>1 DEF Handled
  <2> QED BY Zenon, <1>1, <1>2, <2>1, <2>2, CoverSame DEF FollowOK
<1>6. ASSUME NEW r \in Reqs PROVE OkOf(r)'
  <2>1. req[r].owner \in Tasks /\ (req[r].pc = "unlink" => req[r].mm # NoMM)
    BY Zenon, ReqTyped DEF ReqRec, ReqOf
  <2>2. req[r].owner \in due' => req[r].owner \in due
    BY <1>1
  <2> QED BY Zenon, <1>1, <1>2, <2>1, <2>2, OkSame DEF FollowOK
<1>7. PostInv'
  BY Zenon, <1>1 DEF FollowOK, PostInv, PostOK, TargetOf, HandoffTarget
<1>8. BornInv'
  <2>1. \A c \in Tasks : Fresh(c) => Fresh(c)'
    BY SMTT(20), <1>1 DEF Fresh
  <2>2. \A u \in Tasks : x[u].child \in Tasks
    BY TaskTyped DEF TaskRec
  <2> QED BY Zenon, <1>1, <2>1, <2>2, BornKept DEF FollowOK
<1>9. due' \subseteq Tasks
  BY <1>1 DEF FollowOK
<1> QED BY Zenon, <1>5, <1>6, <1>7, <1>8, <1>9 DEF FollowOK, CoverInv, OkInv

(* The body of execve(): the return handler accounts for the new image, or *)
(* the entry handler had seen neither entry nor request.                   *)
LEMMA ExecBodyFollows ==
  ASSUME RefInv, RefInv', FollowOK, NEW t \in Tasks, ExecBody(t) PROVE FollowOK'
<1>1. x[t].pc = "body" /\ phase = "loaded" /\ UNCHANGED <<req, due, told>>
  BY Zenon DEF ExecBody, At
<1>2. /\ x \in [Tasks -> TaskRec] /\ x[t] \in TaskRec /\ tmm \in [Tasks -> AnyMM]
      /\ x[t].old = pins[t] /\ HeldInv
  BY Zenon, <1>1, TaskTyped, StillHeld DEF RefInv, ForkTypeOK, PinRec
<1>3. ASSUME NEW n \in MMs, users[n] = 0, tmm' = [tmm EXCEPT ![t] = n],
             prot' = {m \in prot : users'[m] > 0}, x' = [x EXCEPT ![t].pc = "ret"],
             unseen' = IF x[t].race \/ x[t].old # NoMM THEN unseen ELSE unseen \cup {t}
      PROVE  FollowOK'
  <2>1. /\ x'[t].pc = "ret" /\ x'[t].race = x[t].race /\ x'[t].old = x[t].old
        /\ x'[t].preq = x[t].preq /\ x'[t].pid = x[t].pid /\ \A u \in Tasks \ {t} : x'[u] = x[u]
    BY <1>2, <1>3 DEF TaskRec
  <2>2. tmm'[t] = n /\ \A u \in Tasks \ {t} : tmm'[u] = tmm[u]
    BY <1>2, <1>3
  <2>3. pins[t] # n /\ \A r \in Reqs : req[r].mm # n
    BY <1>2, <1>3, NamesAssumption DEF HeldInv
  <2>4. ProtKept
    BY <1>3, SettleKeeps
  <2>5. CASE x[t].race \/ x[t].old # NoMM
    <3>1. Handled(t)'
      BY Zenon, <1>2, <2>1, <2>2, <2>3, <2>5 DEF Handled
    <3>2. unseen' = unseen /\ CoverOf(t)'
      BY <1>3, <2>5, <3>1 DEF CoverOf
    <3> QED BY Zenon, <1>1, <2>1, <2>2, <2>3, <2>4, <3>2, FollowTask DEF SameClaim
  <2>6. CASE ~(x[t].race \/ x[t].old # NoMM)
    <3>1. unseen' = unseen \cup {t}
      BY <1>3, <2>6
    <3>2. t \in unseen' /\ \A u \in unseen : u \in unseen'
      BY <3>1
    <3>3. CoverOf(t)'
      BY Zenon, <3>2 DEF CoverOf
    <3> QED BY Zenon, <1>1, <2>1, <2>2, <2>3, <2>4, <3>2, <3>3, FollowTask DEF SameClaim
  <2> QED BY Zenon, <2>5, <2>6
<1>4. CASE x' = [x EXCEPT ![t].pc = "ret"] /\ UNCHANGED <<tmm, prot, unseen>>
  <2>1. /\ x'[t].pc = "ret" /\ x'[t].race = x[t].race /\ x'[t].old = x[t].old
        /\ x'[t].preq = x[t].preq /\ x'[t].pid = x[t].pid /\ \A u \in Tasks \ {t} : x'[u] = x[u]
    BY <1>2, <1>4 DEF TaskRec
  <2>2. ProtKept /\ UNCHANGED <<tmm, unseen>>
    BY <1>4 DEF ProtKept
  <2>3. Handled(t) => Handled(t)'
    BY Zenon, <1>1, <2>1 DEF Handled
  <2>4. CoverOf(t)'
    BY Zenon, <1>1, <2>2, <2>3, CoverSame DEF FollowOK
  <2>5. SameClaim(t) /\ x'[t].pc # "clone" /\ (x'[t].pc = "unborn" <=> x[t].pc = "unborn")
    BY Zenon, <1>1, <2>1 DEF SameClaim
  <2> QED BY Zenon, <1>1, <2>1, <2>2, <2>4, <2>5, FollowTask
<1>5. CASE /\ tmm' = [tmm EXCEPT ![t] = NoMM] /\ prot' = {m \in prot : users'[m] > 0}
           /\ x' = [x EXCEPT ![t].pc = "ret"] \/ x' = [x EXCEPT ![t] = User]
           /\ UNCHANGED unseen
  <2>1. /\ x'[t].pc \in {"ret", "user"} /\ SameClaim(t) /\ \A u \in Tasks \ {t} : x'[u] = x[u]
    BY SMTT(20), <1>2, <1>5, UserTyped DEF TaskRec, SameClaim
  <2>2. tmm'[t] = NoMM /\ \A u \in Tasks \ {t} : tmm'[u] = tmm[u]
    BY <1>2, <1>5
  <2>3. ProtKept
    BY <1>5, SettleKeeps
  <2>4. CoverOf(t)'
    BY Zenon, <2>2 DEF CoverOf
  <2>5. x'[t].pc # "clone" /\ (x'[t].pc = "unborn" <=> x[t].pc = "unborn")
    BY <1>1, <2>1
  <2> QED BY Zenon, <1>1, <1>5, <2>1, <2>2, <2>3, <2>4, <2>5, FollowTask
<1> QED BY Zenon, <1>3, <1>4, <1>5 DEF ExecBody, Settle

(* A step of task t on itself and on one request of its own, in an exec.   *)
LEMMA FollowBoth ==
  ASSUME RefInv, FollowOK, ProtKept, NEW t \in Tasks, NEW r \in Reqs, NEW y, NEW q,
         x' = [x EXCEPT ![t] = y], req' = [req EXCEPT ![r] = q],
         UNCHANGED <<tmm, due, told, unseen>>,
         req[r].linked, req[r].owner = t,
         q.pc = req[r].pc, q.mm = req[r].mm, q.owner = t, q.ok = req[r].ok,
         q.linked, q.id = req[r].id, q.claimed,
         x[t].pc \notin {"unborn", "clone"}, y.pc \notin {"unborn", "clone"},
         CoverOf(t)', TargetOf(t)',
         \A u \in Tasks \ {t} : CoverRec(req[r], u, tmm[u]) /\ tmm[u] # NoMM =>
                                CoverRec(q, u, tmm[u])
  PROVE  FollowOK'
<1>0. due \subseteq Tasks /\ CoverInv /\ OkInv /\ PostInv /\ BornInv
  BY Zenon DEF FollowOK
<1>1. /\ x'[t] = y /\ \A u \in Tasks \ {t} : x'[u] = x[u]
      /\ req'[r] = q /\ \A p \in Reqs \ {r} : req'[p] = req[p]
  BY Zenon DEF RefInv, ForkTypeOK
<1>2. ASSUME NEW u \in Tasks PROVE CoverOf(u)'
  <2>1. CASE u = t
    BY Zenon, <2>1
  <2>2. CASE u # t
    <3>1. x'[u] = x[u] /\ tmm' = tmm
      BY Zenon, <1>1, <2>2
    <3>2. Handled(u) => Handled(u)'
      BY Zenon, <3>1 DEF Handled
    <3>3. CoverRec(req[r], u, tmm[u]) /\ tmm[u] # NoMM => CoverRec(req'[r], u, tmm[u])
      BY Zenon, <1>1, <2>2
    <3>4. \A p \in Reqs : CoverRec(req[p], u, tmm[u]) /\ tmm[u] # NoMM => CoverRec(req'[p], u, tmm[u])
      BY Zenon, <1>1, <3>3
    <3> QED BY Zenon, <1>0, <3>1, <3>2, <3>4, CoverSame
  <2> QED BY Zenon, <2>1, <2>2
<1>3. ASSUME NEW p \in Reqs PROVE OkOf(p)'
  <2>1. req[p].owner \in Tasks /\ (req[p].pc = "unlink" => req[p].mm # NoMM)
    BY Zenon, ReqTyped DEF ReqRec, ReqOf
  <2>2. /\ req'[p].pc = req[p].pc /\ req'[p].ok = req[p].ok /\ req'[p].mm = req[p].mm
        /\ req'[p].owner = req[p].owner
    BY Zenon, <1>1
  <2> QED BY Zenon, <1>0, <2>1, <2>2, OkSame
<1>4. PostInv'
  <2>1. PostStep(r)
    BY Zenon, <1>1 DEF PostStep, PostOK
  <2>2. \A p \in Reqs : PostStep(p)
    BY Zenon, <1>1, <2>1 DEF PostStep
  <2>3. \A u \in Tasks : SameClaim(u) \/ TargetOf(u)'
    BY Zenon, <1>1 DEF SameClaim
  <2> QED BY Zenon, <1>0, <2>2, <2>3, PostKept
<1>5. BornInv'
  <2>1. \A u \in Tasks : x[u].child \in Tasks
    BY Zenon, TaskTyped DEF TaskRec
  <2>2. ASSUME NEW c \in Tasks, Fresh(c) PROVE Fresh(c)'
    <3>1. c # t
      BY Zenon, <2>2 DEF Fresh
    <3>2. ASSUME NEW p \in Reqs, req'[p].linked PROVE req'[p].owner # c
      <4>1. CASE p = r
        <5>1. req'[p].owner = t
          BY Zenon, <1>1, <4>1
        <5> QED BY Zenon, <3>1, <5>1
      <4>2. CASE p # r
        <5>1. req'[p] = req[p]
          BY Zenon, <1>1, <4>2
        <5> QED BY Zenon, <2>2, <3>2, <5>1 DEF Fresh
      <4> QED BY Zenon, <4>1, <4>2
    <3>3. x'[c] = x[c]
      BY Zenon, <1>1, <3>1
    <3> QED BY Zenon, <2>2, <3>2, <3>3 DEF Fresh
  <2>3. \A u \in Tasks : x'[u].pc = "clone" => x[u].pc = "clone" /\ x'[u].child = x[u].child
    BY Zenon, <1>1
  <2>4. \A u \in Tasks : x'[u].pc = "unborn" <=> x[u].pc = "unborn"
    BY Zenon, <1>1
  <2> QED BY Zenon, <1>0, <2>1, <2>2, <2>3, <2>4, BornKept
<1> QED BY Zenon, <1>0, <1>2, <1>3, <1>4, <1>5 DEF FollowOK, CoverInv, OkInv

(* The entry handler claims a request, or finds none.                      *)
LEMMA ClaimFollows == ASSUME RefInv, FollowOK, NEW t \in Tasks, EntryClaim(t) PROVE FollowOK'
<1>1. x[t].pc = "scan" /\ UNCHANGED <<tmm, prot, due, told, unseen>>
  BY Zenon DEF EntryClaim, At, hist
<1>2. /\ x \in [Tasks -> TaskRec] /\ x[t] \in TaskRec /\ req \in [Reqs -> ReqRec]
      /\ PinRec(x[t], tmm[t], pins[t], phase)
  BY Zenon, TaskTyped DEF RefInv, ForkTypeOK
<1>3. ~Handled(t) /\ ~x[t].race /\ tmm[t] # NoMM
  BY Zenon, <1>1, <1>2, NotHandled DEF PinRec
<1>4. ProtKept
  BY <1>1 DEF ProtKept
<1>5. ASSUME NEW r \in Reqs, Claimable(r, t), req' = [req EXCEPT ![r].claimed = TRUE],
             x' = [x EXCEPT ![t].pc = "body", ![t].race = TRUE, ![t].preq = r, ![t].pid = req[r].id]
      PROVE  FollowOK'
  <2> DEFINE y == [x[t] EXCEPT !.pc = "body", !.race = TRUE, !.preq = r, !.pid = req[r].id]
             q == [req[r] EXCEPT !.claimed = TRUE]
  <2>1. x' = [x EXCEPT ![t] = y] /\ req' = [req EXCEPT ![r] = q]
    BY Zenon, <1>2, <1>5
  <2>2. req[r] \in ReqRec /\ ReqOf(req[r], ac_prot_req_seq) /\ req[r].linked
    BY <1>5, ReqTyped DEF Claimable
  <2>3. req[r].owner = t
    BY <1>3, <1>5, <2>2 DEF Claimable, ReqOf
  <2>4. /\ q.pc = req[r].pc /\ q.mm = req[r].mm /\ q.claimed = TRUE /\ q.ok = req[r].ok
        /\ q.post = req[r].post /\ q.pid = req[r].pid /\ q.owner = req[r].owner
        /\ q.ppid = req[r].ppid /\ q.linked = req[r].linked /\ q.id = req[r].id
    BY Zenon, <2>2 DEF ReqRec
  <2>5. y.pc = "body" /\ y.race = TRUE /\ y.preq = r
    BY Zenon, <1>2 DEF TaskRec
  <2> HIDE DEF y, q
  <2>6. x'[t] = y /\ req'[r] = q
    BY Zenon, <1>2, <2>1
  <2>7. CoverOf(t)'
    BY ZenonT(40), <2>5, <2>6 DEF CoverOf, Handled
  <2>8. TargetOf(t)'
    BY Zenon, <2>4, <2>5, <2>6 DEF TargetOf, HandoffTarget
  <2>9. \A u \in Tasks \ {t} : CoverRec(req[r], u, tmm[u]) => CoverRec(q, u, tmm[u])
    BY Zenon, <2>4 DEF CoverRec
  <2>10. x[t].pc \notin {"unborn", "clone"} /\ y.pc \notin {"unborn", "clone"} /\ q.linked /\ q.claimed
    BY Zenon, <1>1, <2>2, <2>4, <2>5
  <2> QED BY Zenon, <1>1, <1>4, <2>1, <2>2, <2>3, <2>4, <2>7, <2>8, <2>9, <2>10, FollowBoth
<1>6. CASE x' = [x EXCEPT ![t].pc = "body"] /\ UNCHANGED req
  <2>1. /\ x'[t].pc = "body" /\ x'[t].race = x[t].race /\ \A u \in Tasks \ {t} : x'[u] = x[u]
    BY SMTT(20), <1>2, <1>6 DEF TaskRec
  <2>2. SameClaim(t) /\ x'[t].pc # "clone" /\ (x'[t].pc = "unborn" <=> x[t].pc = "unborn")
    BY <1>1, <1>3, <2>1 DEF SameClaim
  <2>3. CoverOf(t)'
    BY Zenon, <1>1, <1>3, <1>4, <1>6, CoverSame DEF FollowOK
  <2> QED BY Zenon, <1>1, <1>4, <1>6, <2>1, <2>2, <2>3, FollowTask
<1> QED BY Zenon, <1>5, <1>6 DEF EntryClaim

(* The return handler posts the image to the claimed request.              *)
LEMMA PostFollows == ASSUME RefInv, RefInv', FollowOK, NEW t \in Tasks, Post(t) PROVE FollowOK'
<1>1. /\ x[t].pc = "ret" /\ x[t].race /\ x' = [x EXCEPT ![t] = User]
      /\ UNCHANGED <<tmm, due, told, unseen>>
  BY DEF Post, At, hist
<1>2. PICK r \in HandoffTarget(t) :
        IF tmm[t] # NoMM
        THEN /\ req' = [req EXCEPT ![r].post = tmm[t], ![r].ppid = t, ![r].done = TRUE]
             /\ prot' = {m \in prot : users'[m] > 0}
        ELSE req' = [req EXCEPT ![r].done = TRUE] /\ UNCHANGED prot
  BY Zenon DEF Post, Settle
<1>3. r \in Reqs /\ req[r].linked /\ req[r].owner = t
  BY <1>1, <1>2 DEF HandoffTarget, RefInv, ClaimInv, ClaimOf
<1>4. req[r].claimed
  BY Zenon, <1>1, <1>2 DEF FollowOK, PostInv, TargetOf
<1>5. /\ req \in [Reqs -> ReqRec] /\ req[r] \in ReqRec /\ ReqOf(req[r], ac_prot_req_seq)
      /\ x \in [Tasks -> TaskRec]
  BY Zenon, <1>3, ReqTyped DEF RefInv, ForkTypeOK
<1>6. /\ x'[t] = User /\ x[t].pc \notin {"unborn", "clone"} /\ User.pc \notin {"unborn", "clone"}
      /\ ~User.race
  BY Zenon, <1>1, <1>5, UserTyped
<1>7. TargetOf(t)'
  BY <1>6 DEF TargetOf
<1>8. req[r].pid = t /\ req[r].pc \in {"queued", "wait", "add", "unlink"}
      /\ (req[r].post # NoMM => req[r].ppid = t)
  BY Zenon, <1>3, <1>5 DEF ReqOf
<1>9. ProtKept
  BY <1>2, SettleKeeps DEF ProtKept
<1>10. ASSUME NEW u \in Tasks \ {t}, CoverRec(req[r], u, tmm[u])
       PROVE  req[r].post = NoMM /\ tmm[u] = NoMM
  BY Zenon, <1>8, <1>10 DEF CoverRec
<1>11. CASE tmm[t] # NoMM
  <2> DEFINE q == [req[r] EXCEPT !.post = tmm[t], !.ppid = t, !.done = TRUE]
  <2>1. req' = [req EXCEPT ![r] = q]
    BY Zenon, <1>2, <1>3, <1>5, <1>11
  <2>2. /\ q.pc = req[r].pc /\ q.mm = req[r].mm /\ q.claimed = req[r].claimed /\ q.ok = req[r].ok
        /\ q.post = tmm[t] /\ q.owner = req[r].owner /\ q.ppid = t
        /\ q.linked = req[r].linked /\ q.id = req[r].id
    BY Zenon, <1>5 DEF ReqRec
  <2> HIDE DEF q
  <2>3. req'[r] = q
    BY Zenon, <1>3, <1>5, <2>1
  <2>4. CoverRec(req'[r], t, tmm[t])
    BY Zenon, <1>8, <2>2, <2>3 DEF CoverRec
  <2>5. CoverOf(t)'
    BY Zenon, <1>1, <1>3, <2>4 DEF CoverOf, Covered
  <2>6. \A u \in Tasks \ {t} : ~(CoverRec(req[r], u, tmm[u]) /\ tmm[u] # NoMM)
    BY Zenon, <1>10
  <2> QED BY Zenon, <1>1, <1>3, <1>4, <1>6, <1>7, <1>9, <2>1, <2>2, <2>5, <2>6, FollowBoth
<1>12. CASE tmm[t] = NoMM
  <2> DEFINE q == [req[r] EXCEPT !.done = TRUE]
  <2>1. req' = [req EXCEPT ![r] = q]
    BY Zenon, <1>2, <1>3, <1>5, <1>12
  <2>2. /\ q.pc = req[r].pc /\ q.mm = req[r].mm /\ q.claimed = req[r].claimed /\ q.ok = req[r].ok
        /\ q.post = req[r].post /\ q.owner = req[r].owner /\ q.ppid = req[r].ppid
        /\ q.pid = req[r].pid /\ q.linked = req[r].linked /\ q.id = req[r].id
    BY Zenon, <1>5 DEF ReqRec
  <2> HIDE DEF q
  <2>3. CoverOf(t)'
    BY Zenon, <1>1, <1>12 DEF CoverOf
  <2>4. \A u \in Tasks \ {t} : CoverRec(req[r], u, tmm[u]) => CoverRec(q, u, tmm[u])
    BY Zenon, <2>2 DEF CoverRec
  <2> QED BY Zenon, <1>1, <1>3, <1>4, <1>6, <1>7, <1>9, <2>1, <2>2, <2>3, <2>4, FollowBoth
<1> QED BY Zenon, <1>11, <1>12

(* The id of a new request is larger than all before.                      *)
LEMMA NextId == ASSUME RefInv PROVE ac_prot_req_seq + 1 > ac_prot_req_seq
<1>1. ac_prot_req_seq \in Nat
  BY Zenon DEF RefInv, ForkTypeOK
<1> QED BY <1>1

(* A handler returns, with a new request for process c or without one, and *)
(* c may have become due.                                                  *)
LEMMA FollowQueue ==
  ASSUME RefInv, FollowOK, ProtKept, NEW t \in Tasks, NEW c \in Tasks,
         x' = [x EXCEPT ![t] = User], UNCHANGED <<tmm, unseen>>,
         due' = due \/ due' = due \cup {c}, told \subseteq told',
         \/ UNCHANGED req
         \/ \E r \in Reqs, o \in AnyMM :
              /\ req[r].pc = "free" /\ req' = [req EXCEPT ![r] = NewReq(tmm[c], o, c)]
              /\ o = NoMM => ~Awaited(c)',
         due' # due => ~Awaited(c)' /\ \A r \in Reqs : req[r].linked => req[r].owner # c,
         x[t].pc # "unborn", CoverOf(c)', t = c \/ ~Handled(t)
  PROVE  FollowOK'
<1>0. due \subseteq Tasks /\ CoverInv /\ OkInv /\ PostInv /\ BornInv
  BY Zenon DEF FollowOK
<1>1. x'[t] = User /\ (\A u \in Tasks \ {t} : x'[u] = x[u]) /\ User.pc = "user" /\ ~User.race
  BY Zenon, UserTyped DEF RefInv, ForkTypeOK
<1>2. ASSUME NEW p \in Reqs
      PROVE  \/ req'[p] = req[p]
             \/ /\ req[p].pc = "free" /\ req'[p].pc = "queued" /\ req'[p].post = NoMM
                /\ req'[p].linked => /\ req'[p].owner = c /\ ~Awaited(c)'
                                     /\ req'[p].id > ac_prot_req_seq
  <2>1. CASE UNCHANGED req
    BY Zenon, <2>1
  <2>2. ASSUME NEW r \in Reqs, NEW o \in AnyMM, req[r].pc = "free", o = NoMM => ~Awaited(c)',
               req' = [req EXCEPT ![r] = NewReq(tmm[c], o, c)]
        PROVE  \/ req'[p] = req[p]
               \/ /\ req[p].pc = "free" /\ req'[p].pc = "queued" /\ req'[p].post = NoMM
                  /\ req'[p].linked => /\ req'[p].owner = c /\ ~Awaited(c)'
                                       /\ req'[p].id > ac_prot_req_seq
    <3> DEFINE q == NewReq(tmm[c], o, c)
    <3>1. /\ q.pc = "queued" /\ q.post = NoMM /\ q.owner = c /\ q.linked = (o = NoMM)
          /\ q.id = IF o = NoMM THEN ac_prot_req_seq + 1 ELSE 0
      BY Zenon DEF NewReq, Free
    <3> HIDE DEF q
    <3>2. ac_prot_req_seq + 1 > ac_prot_req_seq
      BY Zenon, NextId
    <3>3. req'[p] = IF p = r THEN q ELSE req[p]
      BY Zenon, <2>2 DEF RefInv, ForkTypeOK, q
    <3> QED BY ZenonT(40), <2>2, <3>1, <3>2, <3>3
  <2> QED BY Zenon, <2>1, <2>2
<1>3. ASSUME NEW u \in Tasks PROVE CoverOf(u)'
  <2>1. CASE u = c
    BY Zenon, <2>1
  <2>2. CASE u # c
    <3>1. Handled(u) => Handled(u)'
      BY Zenon, <1>1, <2>2 DEF Handled
    <3>2. \A p \in Reqs : CoverRec(req[p], u, tmm[u]) => CoverRec(req'[p], u, tmm[u])
      <4> SUFFICES ASSUME NEW p \in Reqs, CoverRec(req[p], u, tmm[u])
                   PROVE  CoverRec(req'[p], u, tmm[u])
        BY Zenon
      <4>1. req[p].pc # "free"
        BY Zenon DEF CoverRec
      <4>2. req'[p] = req[p]
        BY ZenonT(40), <1>2, <4>1
      <4> QED BY Zenon, <4>2
    <3>3. (u \in due' => u \in due) /\ (u \in told => u \in told')
      BY <2>2
    <3> QED BY Zenon, <1>0, <3>1, <3>2, <3>3, CoverSame
  <2> QED BY Zenon, <2>1, <2>2
<1>4. ASSUME NEW r \in Reqs PROVE OkOf(r)'
  <2>1. /\ req[r].owner \in Tasks /\ (req[r].pc = "unlink" => req[r].mm # NoMM)
        /\ req[r].pc = "unlink" => req[r].linked
    BY Zenon, ReqTyped DEF ReqRec, ReqOf
  <2>2. req'[r].pc = "unlink" => req'[r] = req[r]
    BY ZenonT(40), <1>2
  <2>3. req[r].pc = "unlink" /\ req[r].owner \in due' => req[r].owner \in due
    BY Zenon, <2>1
  <2> QED BY Zenon, <1>0, <2>1, <2>2, <2>3, OkSame
<1>5. PostInv'
  <2>1. \A r \in Reqs : PostStep(r)
    BY Zenon, <1>2 DEF PostStep, PostOK
  <2>2. \A u \in Tasks : SameClaim(u)
    BY Zenon, <1>1 DEF SameClaim
  <2> QED BY Zenon, <1>0, <2>1, <2>2, PostKept
<1>6. BornInv'
  <2>1. \A u \in Tasks : x[u].child \in Tasks
    BY Zenon, TaskTyped DEF TaskRec
  <2>2. ASSUME NEW d \in Tasks, Fresh(d), Awaited(d)' PROVE Fresh(d)'
    <3>1. x'[d].race => x[d].race
      BY Zenon, <1>1
    <3>2. d \notin due'
      <4>1. CASE due' = due
        BY Zenon, <2>2, <4>1 DEF Fresh
      <4>2. CASE due' # due
        <5>1. d # c
          BY Zenon, <2>2, <4>2
        <5> QED BY Zenon, <2>2, <4>2, <5>1 DEF Fresh
      <4> QED BY Zenon, <4>1, <4>2
    <3>3. ASSUME NEW p \in Reqs, req'[p].linked PROVE req'[p].owner # d
      <4>1. CASE req'[p] = req[p]
        BY Zenon, <2>2, <3>3, <4>1 DEF Fresh
      <4>2. CASE req'[p] # req[p]
        <5>1. req'[p].owner = c /\ ~Awaited(c)'
          BY Zenon, <1>2, <3>3, <4>2
        <5> QED BY Zenon, <2>2, <5>1
      <4> QED BY Zenon, <4>1, <4>2
    <3> QED BY Zenon, <2>2, <3>1, <3>2, <3>3 DEF Fresh
  <2>3. \A u \in Tasks : x'[u].pc = "clone" => x[u].pc = "clone" /\ x'[u].child = x[u].child
    BY Zenon, <1>1
  <2>4. \A u \in Tasks : x'[u].pc = "unborn" <=> x[u].pc = "unborn"
    BY Zenon, <1>1
  <2> QED BY Zenon, <1>0, <2>1, <2>2, <2>3, <2>4, BornKept
<1>7. due' \subseteq Tasks
  BY <1>0
<1> QED BY Zenon, <1>3, <1>4, <1>5, <1>6, <1>7 DEF FollowOK, CoverInv, OkInv

(* What ac_schedule_prot_add_req() leaves: a request that accounts for the *)
(* process, or a report.                                                   *)
LEMMA ScheduleCovers ==
  ASSUME RefInv, RefInv', NEW c \in Tasks, tmm' = tmm, NEW v, NEW o,
         Schedule(v, tmm[c], o, c)
  PROVE  /\ ProtKept /\ told \subseteq told' /\ CoverOf(c)'
         /\ \/ UNCHANGED req
            \/ \E r \in Reqs : req[r].pc = "free" /\ req' = [req EXCEPT ![r] = NewReq(tmm[c], o, c)]
<1>1. prot' = {m \in prot : users'[m] > 0}
  BY Zenon DEF Schedule, Settle
<1>2. ProtKept
  BY <1>1, SettleKeeps
<1>3. ASSUME NEW r \in Reqs, req[r].pc = "free", req' = [req EXCEPT ![r] = NewReq(tmm[c], o, c)]
      PROVE  CoverOf(c)'
  <2>1. req'[r] = NewReq(tmm[c], o, c)
    BY <1>3 DEF RefInv, ForkTypeOK
  <2>2. CoverRec(NewReq(tmm[c], o, c), c, tmm[c])
    BY DEF CoverRec, NewReq, Free
  <2> QED BY Zenon, <2>1, <2>2 DEF CoverOf, Covered
<1>4. CASE told' = told \cup {c} /\ UNCHANGED req
  BY <1>4, <1>2 DEF CoverOf
<1>5. ASSUME NEW r \in Reqs, req[r].pc = "free", req' = [req EXCEPT ![r] = NewReq(tmm[c], o, c)],
             told' = told
      PROVE  told \subseteq told' /\ CoverOf(c)'
  BY Zenon, <1>3, <1>5
<1> QED BY Zenon, <1>2, <1>4, <1>5 DEF Schedule

(* ac_clone_ret(): the child of a protected process becomes due, in the    *)
(* image of its parent or with a request or a report of its own.           *)
LEMMA CloneRetFollows ==
  ASSUME RefInv, RefInv', FollowOK, NEW t \in Tasks, ac_clone_ret(t) PROVE FollowOK'
<1> DEFINE c == x[t].child
<1>1. x[t].pc = "clone" /\ x' = [x EXCEPT ![t] = User] /\ UNCHANGED <<tmm, unseen>>
  BY Zenon DEF ac_clone_ret, At
<1>2. c \in Tasks /\ ~Handled(t) /\ x[t].pc # "unborn"
  BY Zenon, <1>1, TaskTyped, NotHandled DEF TaskRec
<1>3. Fresh(c) /\ x[c].pc # "unborn" /\ \A u \in Tasks : x[u].pc = "clone" /\ x[u].child = c => u = t
  BY Zenon, <1>1 DEF FollowOK, BornInv
<1>4. x'[t].pc = "user" /\ \A u \in Tasks \ {t} : x'[u] = x[u]
  BY <1>1, UserTyped DEF RefInv, ForkTypeOK
<1>5. ASSUME NEW d \in Tasks, d = c PROVE ~Awaited(d)' /\ Fresh(d)
  <2>1. x'[d].pc # "unborn"
    BY Zenon, <1>3, <1>4, <1>5
  <2>2. ASSUME NEW u \in Tasks, x'[u].pc = "clone", x'[u].child = d PROVE FALSE
    BY Zenon, <1>3, <1>4, <1>5, <2>2
  <2> QED BY Zenon, <1>3, <1>5, <2>1, <2>2 DEF Awaited
<1>6. CASE tmm[t] \in prot /\ tmm[c] # NoMM /\ tmm[c] = tmm[t]
  <2>1. due' = due \cup {c} /\ UNCHANGED <<prot, req, told>>
    BY Zenon, <1>6 DEF ac_clone_ret
  <2>2. PICK d \in Tasks : d = c
    BY <1>2
  <2> HIDE DEF c
  <2>3. CoverOf(d)'
    BY Zenon, <1>1, <1>6, <2>1, <2>2 DEF CoverOf, Covered
  <2>4. ProtKept /\ told \subseteq told'
    BY <1>1, <2>1 DEF ProtKept
  <2>5. ~Awaited(d)' /\ \A r \in Reqs : req[r].linked => req[r].owner # d
    BY Zenon, <1>5, <2>2 DEF Fresh
  <2> QED BY Zenon, <1>1, <1>2, <2>1, <2>2, <2>3, <2>4, <2>5, FollowQueue
<1>7. CASE tmm[t] \in prot /\ tmm[c] # NoMM /\ tmm[c] # tmm[t]
  <2>1. due' = due \cup {c} /\ Schedule(Ref(users, tmm[c], 1), tmm[c], NoMM, c)
    BY Zenon, <1>7 DEF ac_clone_ret
  <2>2. PICK d \in Tasks : d = c
    BY <1>2
  <2>3. Schedule(Ref(users, tmm[d], 1), tmm[d], NoMM, d) /\ due' = due \cup {d}
    BY Zenon, <2>1, <2>2
  <2> HIDE DEF c
  <2>4. /\ ProtKept /\ told \subseteq told' /\ CoverOf(d)'
        /\ \/ UNCHANGED req
           \/ \E r \in Reqs : req[r].pc = "free" /\ req' = [req EXCEPT ![r] = NewReq(tmm[d], NoMM, d)]
    BY Zenon, <1>1, <2>3, ScheduleCovers
  <2>5. ~Awaited(d)' /\ (\A r \in Reqs : req[r].linked => req[r].owner # d) /\ NoMM \in AnyMM
    BY Zenon, <1>5, <2>2 DEF Fresh, AnyMM
  <2> QED BY Zenon, <1>1, <1>2, <2>3, <2>4, <2>5, FollowQueue
<1>8. CASE ~(tmm[t] \in prot /\ tmm[c] # NoMM)
  <2>1. UNCHANGED <<due, prot, req, told>>
    BY Zenon, <1>8 DEF ac_clone_ret
  <2>2. PICK d \in Tasks : d = c
    BY <1>2
  <2> HIDE DEF c
  <2>3. d \notin due'
    BY Zenon, <1>5, <2>1, <2>2 DEF Fresh
  <2>4. CoverOf(d)' /\ ProtKept /\ told \subseteq told'
    BY Zenon, <1>1, <2>1, <2>3 DEF ProtKept, CoverOf
  <2> QED BY Zenon, <1>1, <1>2, <2>1, <2>4, FollowQueue
<1> QED BY Zenon, <1>6, <1>7, <1>8

(* The claim was resolved without the exec: a request for the image.       *)
LEMMA RequeueFollows ==
  ASSUME RefInv, RefInv', FollowOK, NEW t \in Tasks, Requeue(t) PROVE FollowOK'
<1>1. /\ x[t].pc = "ret" /\ x[t].race /\ x' = [x EXCEPT ![t] = User]
      /\ UNCHANGED <<tmm, unseen, due>>
  BY Zenon DEF Requeue, At
<1>2. x[t].pc # "unborn" /\ NoMM \in AnyMM
  BY Zenon, <1>1 DEF AnyMM
<1>3. x'[t].pc = "user" /\ \A u \in Tasks \ {t} : x'[u] = x[u]
  BY <1>1, UserTyped DEF RefInv, ForkTypeOK
<1>4. ~Awaited(t)'
  <2>1. x'[t].pc # "unborn" /\ x'[t].pc # "clone"
    BY <1>3
  <2>2. ASSUME NEW u \in Tasks, x'[u].pc = "clone", x'[u].child = t PROVE FALSE
    <3>1. x[u].pc = "clone" /\ x[u].child = t
      BY Zenon, <1>3, <2>1, <2>2
    <3>2. Fresh(t)
      BY Zenon, <3>1 DEF FollowOK, BornInv
    <3> QED BY Zenon, <1>1, <3>2 DEF Fresh
  <2> QED BY Zenon, <2>1, <2>2 DEF Awaited
<1>5. CASE tmm[t] = NoMM
  <2>1. UNCHANGED <<prot, req, told>>
    BY Zenon, <1>5 DEF Requeue
  <2>2. CoverOf(t)' /\ ProtKept /\ told \subseteq told'
    BY <1>1, <1>5, <2>1 DEF ProtKept, CoverOf
  <2> QED BY Zenon, <1>1, <1>2, <2>1, <2>2, FollowQueue
<1>6. CASE tmm[t] # NoMM
  <2>1. Schedule(Ref(users, tmm[t], 1), tmm[t], NoMM, t)
    BY Zenon, <1>6 DEF Requeue
  <2>2. /\ ProtKept /\ told \subseteq told' /\ CoverOf(t)'
        /\ \/ UNCHANGED req
           \/ \E r \in Reqs : req[r].pc = "free" /\ req' = [req EXCEPT ![r] = NewReq(tmm[t], NoMM, t)]
    BY Zenon, <1>1, <2>1, ScheduleCovers
  <2> QED BY Zenon, <1>1, <1>2, <1>4, <2>2, FollowQueue
<1> QED BY Zenon, <1>5, <1>6

(* An exec that replaced a registered image: a rekey request.              *)
LEMMA RekeyFollows ==
  ASSUME RefInv, RefInv', FollowOK, NEW t \in Tasks, Rekey(t) PROVE FollowOK'
<1>1. /\ x[t].pc = "ret" /\ ~x[t].race /\ x' = [x EXCEPT ![t] = User]
      /\ UNCHANGED <<tmm, unseen, due>>
  BY Zenon DEF Rekey, At
<1>2. x[t].pc # "unborn" /\ x[t].old \in AnyMM
  BY Zenon, <1>1, TaskTyped DEF TaskRec
<1>3. CASE x[t].old = NoMM \/ tmm[t] \in {x[t].old, NoMM}
  <2>1. UNCHANGED <<req, told>> /\ prot' = {m \in prot : users'[m] > 0}
    BY Zenon, <1>3 DEF Rekey, Settle
  <2>2. ProtKept /\ told \subseteq told'
    BY <2>1, SettleKeeps
  <2>3. CASE tmm[t] = NoMM
    <3>1. CoverOf(t)'
      BY Zenon, <1>1, <2>3 DEF CoverOf
    <3> QED BY Zenon, <1>1, <1>2, <2>1, <2>2, <3>1, FollowQueue
  <2>4. CASE tmm[t] # NoMM
    <3>1. ~Handled(t)
      BY <1>1, <1>3, <2>4 DEF Handled
    <3>2. CoverOf(t)'
      BY Zenon, <1>1, <2>1, <2>2, <3>1, CoverSame DEF FollowOK
    <3> QED BY Zenon, <1>1, <1>2, <2>1, <2>2, <3>2, FollowQueue
  <2> QED BY Zenon, <2>3, <2>4
<1>4. CASE ~(x[t].old = NoMM \/ tmm[t] \in {x[t].old, NoMM})
  <2>1. Schedule(Ref(users, tmm[t], 1), tmm[t], x[t].old, t) /\ x[t].old # NoMM
    BY Zenon, <1>4 DEF Rekey
  <2>2. /\ ProtKept /\ told \subseteq told' /\ CoverOf(t)'
        /\ \/ UNCHANGED req
           \/ \E r \in Reqs : /\ req[r].pc = "free"
                              /\ req' = [req EXCEPT ![r] = NewReq(tmm[t], x[t].old, t)]
    BY Zenon, <1>1, <2>1, ScheduleCovers
  <2> QED BY Zenon, <1>1, <1>2, <2>1, <2>2, FollowQueue
<1> QED BY Zenon, <1>3, <1>4

(* fork(): the child is not due before ac_clone_ret() has looked at it.    *)
LEMMA ForkFollows ==
  ASSUME RefInv, FollowOK, NEW t \in Tasks, NEW c \in Tasks, Fork(t, c) PROVE FollowOK'
<1>0. due \subseteq Tasks /\ CoverInv /\ OkInv /\ PostInv /\ BornInv
  BY Zenon DEF FollowOK
<1>1. /\ x[t].pc = "user" /\ x[c].pc = "unborn" /\ t # c
      /\ x' = [x EXCEPT ![t].pc = "clone", ![t].child = c, ![c] = User]
      /\ UNCHANGED <<prot, req, due, told, unseen>>
  BY DEF Fork, Runs, hist
<1>2. \A u \in Tasks \ {c} : tmm'[u] = tmm[u]
  BY DEF Fork, RefInv, ForkTypeOK
<1>3. /\ x'[t].pc = "clone" /\ x'[t].child = c /\ x'[t].race = x[t].race
      /\ x'[c] = User /\ \A u \in Tasks \ {t, c} : x'[u] = x[u]
  <2>1. x \in [Tasks -> TaskRec] /\ x[t] \in TaskRec
    BY DEF RefInv, ForkTypeOK
  <2> QED BY Zenon, <1>1, <2>1 DEF TaskRec
<1>4. User.pc = "user" /\ ~User.race /\ ~Handled(t) /\ ~x[t].race
  BY <1>1, UserTyped, NotHandled
<1>5. Fresh(c)
  BY Zenon, <1>0, <1>1 DEF BornInv
<1>6. c \notin due /\ \A r \in Reqs : req[r].linked => req[r].owner # c
  BY Zenon, <1>5 DEF Fresh
<1>7. ProtKept
  BY Zenon, <1>1 DEF ProtKept
<1>8. ASSUME NEW u \in Tasks PROVE CoverOf(u)'
  <2>1. CASE u = c
    BY Zenon, <1>1, <1>6, <2>1 DEF CoverOf
  <2>2. CASE u # c
    <3>1. tmm'[u] = tmm[u]
      BY Zenon, <1>2, <2>2
    <3>2. Handled(u) => Handled(u)'
      BY Zenon, <1>3, <1>4, <2>2, <3>1 DEF Handled
    <3> QED BY Zenon, <1>0, <1>1, <1>7, <3>1, <3>2, CoverSame
  <2> QED BY Zenon, <2>1, <2>2
<1>9. ASSUME NEW r \in Reqs PROVE OkOf(r)'
  <2>1. /\ req[r].owner \in Tasks /\ (req[r].pc = "unlink" => req[r].mm # NoMM)
    BY Zenon, ReqTyped DEF ReqRec, ReqOf
  <2>2. CASE req[r].owner = c
    BY Zenon, <1>1, <1>6, <2>2 DEF OkOf
  <2>3. CASE req[r].owner # c
    <3>1. tmm'[req[r].owner] = tmm[req[r].owner]
      BY Zenon, <1>2, <2>1, <2>3
    <3> QED BY Zenon, <1>0, <1>1, <1>7, <2>1, <3>1, OkSame
  <2> QED BY Zenon, <2>2, <2>3
<1>10. PostInv'
  <2>1. \A r \in Reqs : PostStep(r)
    BY Zenon, <1>1 DEF PostStep
  <2>2. \A u \in Tasks : SameClaim(u)
    BY Zenon, <1>3, <1>4 DEF SameClaim
  <2> QED BY Zenon, <1>0, <2>1, <2>2, PostKept
<1>11. BornInv'
  <2>1. ASSUME NEW d \in Tasks, Fresh(d) PROVE Fresh(d)'
    <3>1. ~x'[d].race
      BY Zenon, <1>3, <1>4, <2>1 DEF Fresh
    <3> QED BY Zenon, <1>1, <2>1, <3>1 DEF Fresh
  <2>2. ASSUME NEW u \in Tasks, x'[u].pc = "unborn" PROVE Fresh(u)'
    <3>1. x'[c].pc = "user"
      BY Zenon, <1>3, <1>4
    <3>2. u # t /\ u # c
      BY Zenon, <1>3, <2>2, <3>1
    <3>3. x[u].pc = "unborn"
      BY Zenon, <1>3, <2>2, <3>2
    <3> QED BY Zenon, <1>0, <2>1, <3>3 DEF BornInv
  <2>3. ASSUME NEW u \in Tasks, u # t, x'[u].pc = "clone"
        PROVE  x[u].pc = "clone" /\ x'[u] = x[u]
    <3>1. x'[c].pc = "user"
      BY Zenon, <1>3, <1>4
    <3>2. u # c
      BY <2>3, <3>1
    <3> QED BY Zenon, <1>3, <2>3, <3>2
  <2>4. ASSUME NEW u \in Tasks, u # t, x'[u].pc = "clone", NEW d \in Tasks, x'[u].child = d
        PROVE  Fresh(d) /\ d # c /\ x[d].pc # "unborn"
    <3>1. Fresh(d) /\ x[d].pc # "unborn"
      BY Zenon, <1>0, <2>3, <2>4 DEF BornInv
    <3> QED BY Zenon, <1>1, <3>1
  <2>5. \A u \in Tasks : x'[u].pc = "clone" => x'[u].child \in Tasks
    <3>1. \A u \in Tasks : x[u].child \in Tasks
      BY TaskTyped DEF TaskRec
    <3> QED BY ZenonT(40), <1>3, <2>3, <3>1
  <2>6. ASSUME NEW d \in Tasks, x[d].pc # "unborn" PROVE x'[d].pc # "unborn"
    <3>1. CASE d = t
      BY <1>3, <3>1
    <3>2. CASE d # t
      BY Zenon, <1>1, <1>3, <2>6, <3>2
    <3> QED BY Zenon, <3>1, <3>2
  <2>7. ASSUME NEW u \in Tasks, x'[u].pc = "clone", NEW d \in Tasks, x'[u].child = d
        PROVE  Fresh(d)' /\ x'[d].pc # "unborn"
    <3>1. CASE u = t
      <4>1. d = c /\ x'[c].pc # "unborn"
        BY Zenon, <1>3, <1>4, <2>7, <3>1
      <4> QED BY Zenon, <1>5, <2>1, <4>1
    <3>2. CASE u # t
      BY Zenon, <2>1, <2>4, <2>6, <2>7, <3>2
    <3> QED BY Zenon, <3>1, <3>2
  <2>8. ASSUME NEW u \in Tasks, NEW w \in Tasks, x'[u].pc = "clone", x'[w].pc = "clone",
               x'[u].child = x'[w].child
        PROVE  u = w
    <3>1. CASE u # t /\ w # t
      BY Zenon, <1>0, <2>3, <2>8, <3>1 DEF BornInv
    <3>2. CASE u = t /\ w # t
      BY Zenon, <1>3, <2>4, <2>8, <3>2
    <3>3. CASE u # t /\ w = t
      BY Zenon, <1>3, <2>4, <2>8, <3>3
    <3> QED BY Zenon, <3>1, <3>2, <3>3
  <2> QED BY Zenon, <2>2, <2>5, <2>7, <2>8 DEF BornInv
<1> QED BY Zenon, <1>0, <1>1, <1>8, <1>9, <1>10, <1>11 DEF FollowOK, CoverInv, OkInv

(* The root process runs in the image that the ioctl registered.           *)
LEMMA FollowInit == Init => FollowInv
<1> SUFFICES ASSUME Init PROVE FollowOK
  BY DEF FollowInv
<1>1. PICK m \in MMs : tmm = [t \in Tasks |-> IF t = Root THEN m ELSE NoMM] /\ prot = {m}
  BY Zenon DEF Init
<1>2. /\ x = [t \in Tasks |-> IF t = Root THEN User ELSE [User EXCEPT !.pc = "unborn"]]
      /\ req = [r \in Reqs |-> Free] /\ due = {Root}
  BY Zenon DEF Init
<1>3. \A u \in Tasks : ~x[u].race /\ x[u].pc \in {"user", "unborn"} /\ (x[u].pc = "unborn" => u # Root)
  BY <1>2 DEF User
<1>4. \A r \in Reqs : ~req[r].linked /\ req[r].pc = "free"
  BY <1>2 DEF Free
<1>5. CoverInv
  <2>1. \A u \in Tasks : u \in due => tmm[u] \in prot
    BY Zenon, <1>1, <1>2
  <2> QED BY Zenon, <2>1 DEF CoverInv, CoverOf, Covered
<1>6. OkInv
  BY <1>4 DEF OkInv, OkOf
<1>7. PostInv
  BY Zenon, <1>3, <1>4 DEF PostInv, PostOK, TargetOf
<1>8. BornInv
  <2>1. \A u \in Tasks : x[u].pc # "clone"
    BY <1>3
  <2>2. \A u \in Tasks : x[u].pc = "unborn" => u \notin due
    BY <1>2, <1>3
  <2> QED BY Zenon, <1>3, <1>4, <2>1, <2>2 DEF BornInv, Fresh
<1>9. due \subseteq Tasks
  BY <1>2, NamesAssumption
<1> QED BY Zenon, <1>5, <1>6, <1>7, <1>8, <1>9 DEF FollowOK

(* Every step keeps FollowInv.                                             *)
LEMMA FollowStep == ASSUME RefInv, RefInv', FollowInv, [Next]_vars PROVE FollowInv'
<1>1. ASSUME NEW r \in Reqs, WorkerStep(r) PROVE FollowInv'
  BY Zenon, <1>1, StartFollows, TakeFollows, AddHandoffFollows, AddOwnFollows, UnlinkFollows,
     CarryFollows, DecideFollows, FinishFollows DEF WorkerStep
<1>2. ASSUME NEW t \in Tasks, TaskStep(t) PROVE FollowInv'
  <2>1. phase' = phase
    BY Zenon, <1>2 DEF TaskStep, Fork, ac_clone_ret, EntryPin, EntryClaim, ExecBody, Post, Requeue,
                       Rekey, Exit, Unprotect
  <2>2. CASE FollowOK
    BY Zenon, <1>2, <2>2, ForkFollows, CloneRetFollows, EntryPinFollows, ClaimFollows,
       ExecBodyFollows, PostFollows, RequeueFollows, RekeyFollows, ExitFollows, UnprotectFollows
       DEF TaskStep, FollowInv
  <2> QED BY Zenon, <2>1, <2>2 DEF FollowInv
<1>3. CASE Unprobe \/ Flushed
  BY <1>3 DEF Unprobe, Flushed, FollowInv
<1>4. CASE UNCHANGED vars
  <2>1. UNCHANGED <<tmm, x, prot, req, phase, due, told, unseen>>
    BY <1>4 DEF vars
  <2>2. CoverInv => CoverInv'
    BY Zenon, <2>1 DEF CoverInv, CoverOf, Covered, Handled
  <2>3. OkInv => OkInv'
    BY Zenon, <2>1 DEF OkInv, OkOf
  <2>4. PostInv => PostInv'
    BY Zenon, <2>1 DEF PostInv, PostOK, TargetOf, HandoffTarget
  <2>5. BornInv => BornInv'
    BY Zenon, <2>1 DEF BornInv, Fresh
  <2> QED BY Zenon, <2>1, <2>2, <2>3, <2>4, <2>5 DEF FollowInv, FollowOK
<1> QED BY Zenon, <1>1, <1>2, <1>3, <1>4 DEF Next

(* A request that accounts for a running task registers its image or tells *)
(* the daemon.                                                             *)
LEMMA CoverMeans ==
  ASSUME RefInv, PostInv, NEW r \in Reqs, NEW t, NEW m, m # NoMM, CoverRec(req[r], t, m)
  PROVE  WillRegister(r, m) \/ WillTell(r, t)
<1>1. ReqOf(req[r], ac_prot_req_seq) /\ PostOK(req[r])
  BY Zenon, ReqTyped DEF PostInv
<1>2. CASE req[r].pc \in {"queued", "wait"} /\ req[r].post = NoMM /\ req[r].mm = m
  BY SMTT(20), <1>2 DEF WillRegister
<1>3. CASE req[r].pc = "add" /\ req[r].mm = m
  BY <1>3 DEF WillRegister
<1>4. CASE req[r].pc \in {"queued", "wait", "add", "unlink", "carry"} /\ req[r].post = m
  BY Zenon, <1>1, <1>4 DEF WillRegister, ReqOf, PostOK
<1>5. CASE req[r].pc \in {"adopt", "stale"} /\ req[r].mm = m
  BY Zenon, <1>5 DEF WillRegister
<1>6. CASE req[r].pc \in {"unlink", "carry", "decide", "finish"} /\ ~req[r].ok /\ req[r].pid = t
  BY <1>6 DEF WillTell
<1> QED BY Zenon, <1>2, <1>3, <1>4, <1>5, <1>6 DEF CoverRec

(* Protection follows every fork and every exec that its handlers saw: a   *)
(* running task that should be protected is registered, is about to be, or *)
(* the daemon knows that it is not.                                        *)
THEOREM ForkProtection == Spec => []ProtectionFollows
<1>1. RefInv /\ RefInv' /\ FollowInv /\ [Next]_vars => FollowInv'
  BY FollowStep
<1>2. RefInv /\ FollowInv => ProtectionFollows
  <2> SUFFICES ASSUME RefInv, FollowOK, NEW t \in due \ (told \cup unseen), Runs(t)
               PROVE  \/ tmm[t] \in prot
                      \/ \E r \in Reqs : WillRegister(r, tmm[t]) \/ WillTell(r, t)
    BY Zenon DEF ProtectionFollows, FollowInv
  <2>1. t \in Tasks /\ t \in due /\ t \notin told /\ t \notin unseen
    BY DEF FollowOK
  <2>2. tmm[t] # NoMM /\ x[t].pc = "user"
    BY DEF Runs
  <2>3. ~Handled(t)
    BY <2>1, <2>2, NotHandled
  <2>4. Covered(t)
    BY Zenon, <2>1, <2>2, <2>3 DEF FollowOK, CoverInv, CoverOf
  <2>5. PostInv
    BY Zenon DEF FollowOK
  <2> QED BY Zenon, <2>2, <2>4, <2>5, CoverMeans DEF Covered
<1> QED BY <1>1, <1>2, FollowInit, ForkInvariant, PTL DEF Spec

=============================================================================
