---------------------------- MODULE ProbeProofs ----------------------------
(* The probes that deny ptrace(2) and process_vm_*(2) on the game, for     *)
(* every number of callers, size of the burst, window and kill pool.       *)
EXTENDS DenyPath, FiniteSetTheorems, TLAPS

(* The syscall of a caller, and one rate limiter.                          *)
CallRec == [pc : {"user", "log", "kill", "frame", "body", "dead"},
            op : {"traceme", "ptrace", "vm"}, kill : BOOLEAN, seen : BOOLEAN, ran : BOOLEAN]
LimitRec == [start : Nat, n : Nat, suppressed : Nat]

DenyTypeOK ==
  /\ x \in [Procs -> CallRec]
  /\ jiffies \in Nat
  /\ rl \in [Limiters -> LimitRec]
  /\ kills \in [Procs -> Nat]
  /\ unlogged \in [Limiters -> Int]

(* A denied call reaches the body of the syscall only with its frame       *)
(* rewritten or the wrapper skipped.                                       *)
FrameInv == \A p \in Procs : x[p].pc = "body" /\ x[p].seen => ~x[p].ran

(* A call on its way through the handler that may be punished was one on   *)
(* the game, and so was every one a kill is queued for.                    *)
AttackInv ==
  /\ \A p \in Procs : x[p].pc \in {"log", "kill", "frame"} /\ x[p].op # "traceme" => p \in attackers
  /\ \A p \in Procs : kills[p] > 0 => p \in attackers

DenyInv ==
  /\ DenyTypeOK /\ FrameInv /\ AttackInv
  /\ DenialsAccounted /\ DeniedNeverRuns /\ OnlyAttackersKilled

Handling(l) == {p \in Procs : x[p].pc = "log" /\ Limiter(x[p].op) = l}

(* The handlers counted by InHandler are finitely many.                    *)
LEMMA HandlingFinite ==
  \A l \in Limiters : /\ IsFiniteSet(Handling(l)) /\ Cardinality(Handling(l)) \in Nat
                      /\ InHandler(l) = Cardinality(Handling(l))
<1> SUFFICES ASSUME NEW l \in Limiters
             PROVE  /\ IsFiniteSet(Handling(l)) /\ Cardinality(Handling(l)) \in Nat
                    /\ InHandler(l) = Cardinality(Handling(l))
  OBVIOUS
<1>1. IsFiniteSet(Handling(l))
  BY DenyAssumption, FS_Subset DEF Handling
<1> QED
  BY <1>1, FS_CardinalityType, Zenon DEF Handling, InHandler

(* A step after which the same calls are before the limiter.               *)
LEMMA HandlingSame ==
  ASSUME DenialsAccounted, rl' = rl, unlogged' = unlogged,
         \A p \in Procs : (x'[p].pc = "log" <=> x[p].pc = "log")
                          /\ (x[p].pc = "log" => x'[p].op = x[p].op)
  PROVE  DenialsAccounted'
<1>1. \A l \in Limiters : InHandler(l)' = InHandler(l)
  <2> SUFFICES ASSUME NEW l \in Limiters
               PROVE  {p \in Procs : x'[p].pc = "log" /\ Limiter(x'[p].op) = l}
                      = {p \in Procs : x[p].pc = "log" /\ Limiter(x[p].op) = l}
    BY Zenon DEF InHandler, Limiter
  <2> QED
    BY Zenon DEF Limiter
<1> QED
  BY <1>1, Zenon DEF DenialsAccounted

(* A caller that is denied joins those before the limiter, one that has    *)
(* asked it leaves them.                                                   *)
LEMMA HandlingJoin ==
  ASSUME DenyTypeOK, NEW p \in Procs, NEW r \in CallRec, x' = [x EXCEPT ![p] = r],
         x[p].pc # "log", r.pc = "log"
  PROVE  \A l \in Limiters : InHandler(l)' = InHandler(l) + IF l = Limiter(r.op) THEN 1 ELSE 0
<1> SUFFICES ASSUME NEW l \in Limiters
             PROVE  InHandler(l)' = InHandler(l) + IF l = Limiter(r.op) THEN 1 ELSE 0
  OBVIOUS
<1> DEFINE H == {q \in Procs : x'[q].pc = "log" /\ Limiter(x'[q].op) = l}
<1>0. InHandler(l)' = Cardinality(H)
  BY Zenon DEF InHandler, Limiter
<1>1. \A q \in Procs : x'[q] = IF q = p THEN r ELSE x[q]
  BY DEF DenyTypeOK
<1>2. CASE l = Limiter(r.op)
  <2>1. H = Handling(l) \cup {p} /\ p \notin Handling(l)
    BY <1>1, <1>2 DEF Handling
  <2>2. Cardinality(H) = Cardinality(Handling(l)) + 1
    BY Zenon, <2>1, HandlingFinite, FS_AddElement
  <2> QED
    BY <1>0, <1>2, <2>2, HandlingFinite
<1>3. CASE l # Limiter(r.op)
  <2>1. H = Handling(l)
    BY <1>1, <1>3 DEF Handling
  <2>2. InHandler(l)' = InHandler(l) /\ InHandler(l) \in Nat
    BY Zenon, <1>0, <2>1, HandlingFinite
  <2> QED
    BY <1>3, <2>2
<1> QED
  BY <1>2, <1>3

(* The same for a caller that has asked it.                                *)
LEMMA HandlingLeave ==
  ASSUME DenyTypeOK, NEW p \in Procs, NEW r \in CallRec, x' = [x EXCEPT ![p] = r],
         x[p].pc = "log", r.pc # "log"
  PROVE  \A l \in Limiters : InHandler(l)' = InHandler(l) - IF l = Limiter(x[p].op) THEN 1 ELSE 0
<1> SUFFICES ASSUME NEW l \in Limiters
             PROVE  InHandler(l)' = InHandler(l) - IF l = Limiter(x[p].op) THEN 1 ELSE 0
  OBVIOUS
<1> DEFINE H == {q \in Procs : x'[q].pc = "log" /\ Limiter(x'[q].op) = l}
<1>0. InHandler(l)' = Cardinality(H)
  BY Zenon DEF InHandler, Limiter
<1>1. \A q \in Procs : x'[q] = IF q = p THEN r ELSE x[q]
  BY DEF DenyTypeOK
<1>2. CASE l = Limiter(x[p].op)
  <2>1. H = Handling(l) \ {p} /\ p \in Handling(l)
    BY <1>1, <1>2 DEF Handling
  <2>2. Cardinality(H) = Cardinality(Handling(l)) - 1
    BY Zenon, <2>1, HandlingFinite, FS_RemoveElement
  <2> QED
    BY <1>0, <1>2, <2>2, HandlingFinite
<1>3. CASE l # Limiter(x[p].op)
  <2>1. H = Handling(l)
    BY <1>1, <1>3 DEF Handling
  <2>2. InHandler(l)' = InHandler(l) /\ InHandler(l) \in Nat
    BY Zenon, <1>0, <2>1, HandlingFinite
  <2> QED
    BY <1>3, <2>2
<1> QED
  BY <1>2, <1>3

(* The initial state.                                                      *)
LEMMA DenyInit == Init => DenyInv
<1> SUFFICES ASSUME Init PROVE DenyInv
  OBVIOUS
<1>1. Idle \in CallRec /\ Idle.pc = "user" /\ Empty \in LimitRec /\ Empty.suppressed = 0
  BY DEF Idle, CallRec, Empty, LimitRec
<1>2. DenyTypeOK
  BY <1>1 DEF Init, DenyTypeOK
<1>3. FrameInv /\ AttackInv /\ DeniedNeverRuns /\ OnlyAttackersKilled
  BY <1>1 DEF Init, FrameInv, AttackInv, DeniedNeverRuns, OnlyAttackersKilled
<1>4. DenialsAccounted
  <2> SUFFICES ASSUME NEW l \in Limiters PROVE unlogged[l] = rl[l].suppressed + InHandler(l)
    BY DEF DenialsAccounted
  <2>1. Handling(l) = {}
    BY <1>1 DEF Init, Handling
  <2>2. InHandler(l) = 0
    BY <2>1, HandlingFinite, FS_EmptySet
  <2> QED
    BY <1>1, <2>2 DEF Init
<1> QED
  BY <1>2, <1>3, <1>4 DEF DenyInv

(* Processes come and go, the clock ticks, the game is unprotected.        *)
LEMMA DenyWorld ==
  ASSUME DenyInv,
         \/ Tick \/ Unprotect \/ UNCHANGED vars
         \/ \E p \in Procs : Start(p) \/ Exit(p)
  PROVE  DenyInv'
<1> USE DEF DenyInv
<1>1. UNCHANGED <<rl, kills, unlogged, killed, attackers, touched>> /\ jiffies' \in Nat
  BY DEF Tick, Unprotect, vars, Start, Exit, hist, DenyTypeOK
<1>2. /\ x' \in [Procs -> CallRec]
      /\ \A q \in Procs : x'[q] = x[q] \/ (x[q].pc = "user" /\ x'[q].pc = "dead")
  <2>0. x \in [Procs -> CallRec]
    BY DEF DenyTypeOK
  <2>1. CASE x' = x
    BY <2>0, <2>1, Zenon
  <2>2. ASSUME NEW p \in Procs, Exit(p)
        PROVE  /\ x' \in [Procs -> CallRec]
               /\ \A q \in Procs : x'[q] = x[q] \/ (x[q].pc = "user" /\ x'[q].pc = "dead")
    <3>1. x[p] \in CallRec /\ x[p].pc = "user" /\ x' = [x EXCEPT ![p] = [x[p] EXCEPT !.pc = "dead"]]
      BY <2>2 DEF Exit, DenyTypeOK
    <3>2. [x[p] EXCEPT !.pc = "dead"] \in CallRec /\ [x[p] EXCEPT !.pc = "dead"].pc = "dead"
      BY <3>1 DEF CallRec
    <3> HIDE DEF DenyInv
    <3> DEFINE r == [x[p] EXCEPT !.pc = "dead"]
    <3>3. r \in CallRec /\ r.pc = "dead" /\ x' = [x EXCEPT ![p] = r]
      BY <3>1, <3>2
    <3> HIDE DEF r
    <3> QED
      BY <2>0, <3>1, <3>3
  <2> QED
    BY <2>1, <2>2 DEF Tick, Unprotect, vars, Start
<1>3. DenyTypeOK' /\ FrameInv' /\ AttackInv' /\ DeniedNeverRuns' /\ OnlyAttackersKilled'
  BY <1>1, <1>2 DEF DenyTypeOK, FrameInv, AttackInv, DeniedNeverRuns, OnlyAttackersKilled
<1>4. DenialsAccounted'
  BY <1>1, <1>2, HandlingSame
<1> QED
  BY <1>3, <1>4

(* A caller enters its syscall.                                            *)
LEMMA DenyEnter ==
  ASSUME DenyInv, NEW p \in Procs, NEW op \in Ops, Enter(p, op)
  PROVE  DenyInv'
<1> USE DEF DenyInv
<1> DEFINE d == Denies(p, op)
           r == [Idle EXCEPT !.op = op, !.seen = d, !.pc = IF d THEN "log" ELSE "body"]
<1>0. d \in BOOLEAN /\ op \in {"traceme", "ptrace", "vm"}
  BY Zenon, DenyAssumption DEF Denies, DeniesVm, DeniesPtrace
<1>1. /\ x[p].pc = "user" /\ x' = [x EXCEPT ![p] = r]
      /\ UNCHANGED <<jiffies, rl, kills, killed, touched>>
      /\ unlogged' = [unlogged EXCEPT ![Limiter(op)] = @ + IF d THEN 1 ELSE 0]
      /\ attackers' = IF d /\ op # "traceme" /\ p \notin Game THEN attackers \cup {p} ELSE attackers
  BY DEF Enter, Step
<1>2. /\ r \in CallRec /\ r.op = op /\ r.seen = d
      /\ r.pc = IF d THEN "log" ELSE "body"
  BY Zenon, <1>0 DEF Idle, CallRec
<1>3. d /\ op # "traceme" => p \notin Game
  BY DEF Denies, DeniesVm, DeniesPtrace
<1> HIDE DEF d, r
<1>4. \A q \in Procs : x'[q] = IF q = p THEN r ELSE x[q]
  BY <1>1 DEF DenyTypeOK
<1>5. DenyTypeOK'
  BY <1>0, <1>1, <1>2 DEF DenyTypeOK, Limiter, Limiters
<1>6. FrameInv' /\ DeniedNeverRuns'
  BY <1>1, <1>2, <1>4 DEF FrameInv, DeniedNeverRuns
<1>7. AttackInv' /\ OnlyAttackersKilled'
  BY <1>1, <1>2, <1>3, <1>4 DEF AttackInv, OnlyAttackersKilled
<1>8. DenialsAccounted'
  <2>1. CASE ~d
    <3>1. unlogged' = unlogged
      BY <1>1, <2>1 DEF DenyTypeOK, Limiter, Limiters
    <3> QED
      BY <1>1, <1>2, <1>4, <2>1, <3>1, HandlingSame
  <2>2. CASE d
    <3>1. \A l \in Limiters : InHandler(l)' = InHandler(l) + IF l = Limiter(op) THEN 1 ELSE 0
      BY Zenon, <1>1, <1>2, <2>2, HandlingJoin
    <3>2. \A l \in Limiters : unlogged'[l] = unlogged[l] + IF l = Limiter(op) THEN 1 ELSE 0
      BY <1>1, <2>2 DEF DenyTypeOK
    <3>3. \A l \in Limiters : InHandler(l) \in Nat /\ rl[l].suppressed \in Nat
      BY HandlingFinite DEF DenyTypeOK, LimitRec
    <3> HIDE DEF DenyInv
    <3>4. \A l \in Limiters : unlogged[l] = rl[l].suppressed + InHandler(l)
      BY DEF DenyInv, DenialsAccounted
    <3> SUFFICES ASSUME NEW l \in Limiters
                 PROVE  unlogged'[l] = rl[l].suppressed + InHandler(l)'
      BY <1>1 DEF DenialsAccounted
    <3> QED
      BY <3>1, <3>2, <3>3, <3>4
  <2> QED
    BY <1>0, <2>1, <2>2
<1> QED
  BY <1>5, <1>6, <1>7, <1>8

(* The limiter moves a denial from those unlogged to an event, with those  *)
(* of its summary, or counts it.                                           *)
LEMMA LimiterCounts ==
  ASSUME NEW r \in LimitRec, jiffies \in Nat
  PROVE  /\ Counted(r) \in LimitRec
         /\ Counted(r).suppressed + (IF Allowed(r) THEN 1 + Summary(r) ELSE 0) = r.suppressed + 1
<1>1. Opened(r) \in LimitRec
  BY DEF Opened, LimitRec
<1>2. Opened(r).suppressed = IF RollsOver(r) THEN 0 ELSE r.suppressed
  BY DEF Opened, LimitRec
<1>3. RollsOver(r) => Allowed(r)
  BY DenyAssumption DEF Allowed, Opened
<1>4. Counted(r) \in LimitRec
  BY <1>1 DEF Counted, LimitRec
<1>5. Counted(r).suppressed = IF Allowed(r) THEN Opened(r).suppressed ELSE Opened(r).suppressed + 1
  BY <1>1 DEF Counted, LimitRec
<1>6. r.suppressed \in Nat
  BY DEF LimitRec
<1> QED
  BY <1>2, <1>3, <1>4, <1>5, <1>6 DEF Summary

(* The limiter is asked.                                                   *)
LEMMA DenyLog ==
  ASSUME DenyInv, NEW p \in Procs, ac_deny_event_allowed(p)
  PROVE  DenyInv'
<1> USE DEF DenyInv
<1> DEFINE l == Limiter(x[p].op)
           r == [x[p] EXCEPT !.pc = "kill"]
           k == IF Allowed(rl[l]) THEN 1 + Summary(rl[l]) ELSE 0
<1>1. /\ x[p].pc = "log" /\ x' = [x EXCEPT ![p] = r]
      /\ rl' = [rl EXCEPT ![l] = Counted(rl[l])]
      /\ unlogged' = [unlogged EXCEPT ![l] = @ - k]
      /\ UNCHANGED <<jiffies, kills, killed, attackers, touched>>
  BY DEF ac_deny_event_allowed, Step
<1>2. x[p] \in CallRec /\ l \in Limiters /\ rl[l] \in LimitRec
  BY DEF DenyTypeOK, Limiter, Limiters
<1>3. r \in CallRec /\ r.pc = "kill" /\ r.op = x[p].op
  BY <1>2 DEF CallRec
<1>4. /\ Counted(rl[l]) \in LimitRec /\ k \in Nat
      /\ Counted(rl[l]).suppressed + k = rl[l].suppressed + 1
  <2>1. jiffies \in Nat
    BY DEF DenyTypeOK
  <2>2. Summary(rl[l]) \in Nat
    BY <1>2 DEF Summary, LimitRec
  <2> QED
    BY <1>2, <2>1, <2>2, LimiterCounts
<1> HIDE DEF r, l, k
<1>5. \A q \in Procs : x'[q] = IF q = p THEN r ELSE x[q]
  BY <1>1 DEF DenyTypeOK
<1>6. DenyTypeOK'
  BY <1>1, <1>2, <1>3, <1>4 DEF DenyTypeOK
<1>7. FrameInv' /\ AttackInv' /\ DeniedNeverRuns' /\ OnlyAttackersKilled'
  BY <1>1, <1>3, <1>5 DEF FrameInv, AttackInv, DeniedNeverRuns, OnlyAttackersKilled
<1>8. DenialsAccounted'
  <2>1. \A m \in Limiters : InHandler(m)' = InHandler(m) - IF m = l THEN 1 ELSE 0
    BY Zenon, <1>1, <1>3, HandlingLeave DEF l
  <2>2. \A m \in Limiters : InHandler(m) \in Nat
    BY HandlingFinite
  <2>3. \A m \in Limiters : unlogged'[m] = unlogged[m] - IF m = l THEN k ELSE 0
    BY <1>1, <1>4 DEF DenyTypeOK
  <2>4. \A m \in Limiters : rl'[m] = IF m = l THEN Counted(rl[l]) ELSE rl[m]
    BY <1>1 DEF DenyTypeOK
  <2>5. \A m \in Limiters : rl[m].suppressed \in Nat /\ unlogged[m] = rl[m].suppressed + InHandler(m)
    BY DEF DenyTypeOK, LimitRec, DenialsAccounted
  <2>6. Counted(rl[l]).suppressed \in Nat
    BY <1>4 DEF LimitRec
  <2> HIDE DEF DenyInv
  <2> SUFFICES ASSUME NEW m \in Limiters
               PROVE  unlogged'[m] = rl'[m].suppressed + InHandler(m)'
    BY DEF DenialsAccounted
  <2>7. CASE m = l
    BY <1>4, <2>1, <2>2, <2>3, <2>4, <2>5, <2>6, <2>7
  <2>8. CASE m # l
    BY <2>1, <2>2, <2>3, <2>4, <2>5, <2>8
  <2> QED
    BY <2>7, <2>8
<1> QED
  BY <1>6, <1>7, <1>8

(* A kill is queued for the caller, or dropped, or none is asked for.      *)
LEMMA KillsAfter ==
  ASSUME DenyTypeOK, NEW p \in Procs, ac_schedule_kill(p) \/ NoKill
  PROVE  /\ kills' \in [Procs -> Nat]
         /\ \A q \in Procs : kills'[q] > 0 => kills[q] > 0 \/ q = p
  BY DEF DenyTypeOK, ac_schedule_kill, NoKill

(* The handler goes on from the limiter to the kill and to the frame.      *)
LEMMA DenyPunish ==
  ASSUME DenyInv, NEW p \in Procs, Punish(p)
  PROVE  DenyInv'
<1> USE DEF DenyInv
<1> DEFINE k == Kills(x[p].op) /\ KillPolicy
           r == [x[p] EXCEPT !.pc = "frame", !.kill = k]
<1>1. /\ x[p].pc = "kill" /\ x' = [x EXCEPT ![p] = r]
      /\ UNCHANGED <<jiffies, rl, unlogged, killed, attackers, touched>>
      /\ IF k THEN ac_schedule_kill(p) ELSE NoKill
  BY DEF Punish, Step
<1>2. k \in BOOLEAN /\ x[p] \in CallRec /\ (k => x[p].op # "traceme")
  BY DEF DenyTypeOK, Kills
<1>3. r \in CallRec /\ r.pc = "frame" /\ r.op = x[p].op
  BY Zenon, <1>2 DEF CallRec
<1> HIDE DEF r, k
<1>4. \A q \in Procs : x'[q] = IF q = p THEN r ELSE x[q]
  BY <1>1 DEF DenyTypeOK
<1>5. /\ kills' \in [Procs -> Nat]
      /\ \A q \in Procs : kills'[q] > 0 => kills[q] > 0 \/ q = p
    BY <1>1, KillsAfter
<1>6. \A q \in Procs : kills'[q] > 0 => q \in attackers
  <2>1. CASE k
    BY <1>1, <1>2, <1>5, <2>1 DEF AttackInv
  <2>2. CASE ~k
    BY <1>1, <2>2 DEF AttackInv, NoKill
  <2> QED
    BY <2>1, <2>2
<1>7. DenyTypeOK'
  BY Zenon, <1>1, <1>3, <1>5 DEF DenyTypeOK
<1>8. FrameInv' /\ AttackInv' /\ DeniedNeverRuns' /\ OnlyAttackersKilled'
  BY <1>1, <1>3, <1>4, <1>6 DEF FrameInv, AttackInv, DeniedNeverRuns, OnlyAttackersKilled
<1>9. DenialsAccounted'
  BY <1>1, <1>3, <1>4, HandlingSame
<1> QED
  BY <1>7, <1>8, <1>9

(* The frame is rewritten; where that fails the wrapper is skipped and the *)
(* caller killed.                                                          *)
LEMMA DenyFrame ==
  ASSUME DenyInv, NEW p \in Procs, Overwrite(p)
  PROVE  DenyInv'
<1> USE DEF DenyInv
<1> DEFINE r == [x[p] EXCEPT !.pc = "body", !.ran = FALSE]
<1>1. /\ x[p].pc = "frame" /\ x' = [x EXCEPT ![p] = r]
      /\ UNCHANGED <<jiffies, rl, unlogged, killed, touched>>
      /\ \/ NoKill /\ UNCHANGED attackers
         \/ (ac_schedule_kill(p) \/ NoKill) /\ attackers' = attackers \cup {p}
  BY DEF Overwrite, Step
<1>2. x[p] \in CallRec
  BY DEF DenyTypeOK
<1>3. r \in CallRec /\ r.pc = "body" /\ ~r.ran
  BY Zenon, <1>2 DEF CallRec
<1> HIDE DEF r
<1>4. \A q \in Procs : x'[q] = IF q = p THEN r ELSE x[q]
  BY <1>1 DEF DenyTypeOK
<1>5. /\ kills' \in [Procs -> Nat]
      /\ \A q \in Procs : kills'[q] > 0 => kills[q] > 0 \/ q = p
    BY <1>1, KillsAfter
<1>6. (\A q \in Procs : kills'[q] > 0 => q \in attackers') /\ attackers \subseteq attackers'
  <2>1. CASE NoKill /\ UNCHANGED attackers
    BY <2>1 DEF AttackInv, NoKill
  <2>2. CASE attackers' = attackers \cup {p}
    BY <1>5, <2>2 DEF AttackInv
  <2> QED
    BY <1>1, <2>1, <2>2
<1>7. DenyTypeOK'
  BY Zenon, <1>1, <1>3, <1>5 DEF DenyTypeOK
<1>8. FrameInv' /\ AttackInv' /\ DeniedNeverRuns' /\ OnlyAttackersKilled'
  BY <1>1, <1>3, <1>4, <1>6 DEF FrameInv, AttackInv, DeniedNeverRuns, OnlyAttackersKilled
<1>9. DenialsAccounted'
  BY <1>1, <1>3, <1>4, HandlingSame
<1> QED
  BY <1>7, <1>8, <1>9

(* The syscall body runs, and the caller goes back to user mode or dies.   *)
LEMMA DenyBody ==
  ASSUME DenyInv, NEW p \in Procs, Body(p)
  PROVE  DenyInv'
<1> USE DEF DenyInv
<1>1. PICK r \in CallRec :
        /\ x[p].pc = "body" /\ x' = [x EXCEPT ![p] = r] /\ r.pc \in {"user", "dead"}
  <2>1. /\ Idle \in CallRec /\ Idle.pc = "user"
        /\ [Idle EXCEPT !.pc = "dead"] \in CallRec /\ [Idle EXCEPT !.pc = "dead"].pc = "dead"
    BY Zenon DEF Idle, CallRec
  <2> QED
    BY Zenon, <2>1 DEF Body, Step
<1>2. /\ UNCHANGED <<jiffies, rl, kills, unlogged, killed, attackers>>
      /\ touched' = IF x[p].seen /\ x[p].ran THEN touched \cup {p} ELSE touched
  BY DEF Body
<1>3. touched' = touched
  BY <1>1, <1>2 DEF FrameInv
<1>4. \A q \in Procs : x'[q] = IF q = p THEN r ELSE x[q]
  BY <1>1 DEF DenyTypeOK
<1>5. DenyTypeOK'
  BY <1>1, <1>2 DEF DenyTypeOK
<1>6. FrameInv' /\ AttackInv' /\ DeniedNeverRuns' /\ OnlyAttackersKilled'
  BY <1>1, <1>2, <1>3, <1>4 DEF FrameInv, AttackInv, DeniedNeverRuns, OnlyAttackersKilled
<1>7. DenialsAccounted'
  BY <1>1, <1>2, <1>4, HandlingSame
<1> QED
  BY <1>5, <1>6, <1>7

(* The worker sends the signal to the task that was denied, or to nobody.  *)
LEMMA DenyKill ==
  ASSUME DenyInv, NEW p \in Procs, ac_kill_worker(p)
  PROVE  DenyInv'
<1> USE DEF DenyInv
<1>1. /\ kills[p] > 0 /\ kills' = [kills EXCEPT ![p] = @ - 1]
      /\ killed' = killed \cup TaskOf(p)
      /\ x' = [q \in Procs |-> IF q \in TaskOf(p) /\ x[q].pc = "user"
                               THEN [x[q] EXCEPT !.pc = "dead"] ELSE x[q]]
      /\ UNCHANGED <<jiffies, rl, unlogged, attackers, touched>>
  BY DEF ac_kill_worker
<1>2. \A c \in CallRec : [c EXCEPT !.pc = "dead"] \in CallRec /\ [c EXCEPT !.pc = "dead"].pc = "dead"
  BY DEF CallRec
<1>3. x \in [Procs -> CallRec]
  BY DEF DenyTypeOK
<1>4. /\ x' \in [Procs -> CallRec]
      /\ \A q \in Procs : x'[q] = x[q] \/ (x[q].pc = "user" /\ x'[q].pc = "dead")
  <2> HIDE DEF DenyInv
  <2> QED
    BY <1>1, <1>2, <1>3
<1>5. kills' \in [Procs -> Nat] /\ \A q \in Procs : kills'[q] > 0 => kills[q] > 0
  BY <1>1 DEF DenyTypeOK
<1>6. TaskOf(p) \subseteq {p} /\ p \in attackers
  BY <1>1 DEF TaskOf, AttackInv
<1>7. DenyTypeOK'
  BY <1>1, <1>4, <1>5 DEF DenyTypeOK
<1>8. FrameInv' /\ AttackInv' /\ DeniedNeverRuns' /\ OnlyAttackersKilled'
  BY <1>1, <1>4, <1>5, <1>6 DEF FrameInv, AttackInv, DeniedNeverRuns, OnlyAttackersKilled
<1>9. DenialsAccounted'
  BY <1>1, <1>4, HandlingSame
<1> QED
  BY <1>7, <1>8, <1>9

(* The invariant is inductive.                                             *)
LEMMA DenyInductive == Spec => []DenyInv
<1>1. DenyInv /\ [Next]_vars => DenyInv'
  BY DenyWorld, DenyEnter, DenyLog, DenyPunish, DenyFrame, DenyBody, DenyKill
     DEF Next, CallerStep, NeutralisePtrace, NeutraliseVm
<1> QED
  BY <1>1, DenyInit, PTL DEF Spec

(* ac_deny_event_allowed(): no denial disappears.  Each is an event of its *)
(* own, part of a summary, or still counted as suppressed, for any burst,  *)
(* any window and any number of callers between the probe and the limiter. *)
THEOREM DenyAccounted == Spec => []DenialsAccounted
<1>1. DenyInv => DenialsAccounted
  BY DEF DenyInv
<1> QED
  BY <1>1, DenyInductive, PTL

(* No denied syscall takes effect, whether or not its frame could be       *)
(* rewritten and whether or not a kill was queued.                         *)
THEOREM DenyEffective == Spec => []DeniedNeverRuns
<1>1. DenyInv => DeniedNeverRuns
  BY DEF DenyInv
<1> QED
  BY <1>1, DenyInductive, PTL

(* ac_kill_worker() kills nobody but processes that were denied a call,    *)
(* though pid numbers are reused between the request and the signal.       *)
THEOREM DenyKillsAttackers == Spec => []OnlyAttackersKilled
<1>1. DenyInv => OnlyAttackersKilled
  BY DEF DenyInv
<1> QED
  BY <1>1, DenyInductive, PTL

-----------------------------------------------------------------------------
(* The pool: what is missing from its reserve is on its way.               *)
PoolInv ==
  /\ reserve \in Nat /\ reserve <= PoolMin
  /\ IsFiniteSet(Queued) /\ reserve + Cardinality(Queued) >= PoolMin

(* One more request for p, and one less.                                   *)
LEMMA QueuedMore ==
  ASSUME DenyTypeOK, NEW p \in Procs, kills' = [kills EXCEPT ![p] = @ + 1]
  PROVE  <<p, kills[p] + 1>> \notin Queued /\ Queued' = Queued \cup {<<p, kills[p] + 1>>}
<1>1. kills \in [Procs -> Nat] /\ kills[p] \in Nat
  BY DEF DenyTypeOK
<1>2. \A q \in Procs : kills'[q] = IF q = p THEN kills[p] + 1 ELSE kills[q]
  BY <1>1
<1>3. 1 .. (kills[p] + 1) = (1 .. kills[p]) \cup {kills[p] + 1}
  BY <1>1
<1>4. \A k : k \in Queued <=> \E q \in Procs : k \in {q} \X (1 .. kills[q])
  BY Zenon DEF Queued
<1>5. \A k : k \in Queued' <=> \E q \in Procs : k \in {q} \X (1 .. kills'[q])
  BY Zenon DEF Queued
<1>6. \A q \in Procs \ {p} : {q} \X (1 .. kills'[q]) = {q} \X (1 .. kills[q])
  BY <1>2
<1>7. {p} \X (1 .. kills'[p]) = ({p} \X (1 .. kills[p])) \cup {<<p, kills[p] + 1>>}
  BY <1>2, <1>3
<1>8. <<p, kills[p] + 1>> \notin Queued
  BY <1>1, <1>4
<1>9. \A k : k \in Queued' <=> k \in Queued \/ k = <<p, kills[p] + 1>>
  BY Zenon, <1>4, <1>5, <1>6, <1>7
<1> QED
  BY <1>8, <1>9

(* The same for a request that has been served.                            *)
LEMMA QueuedLess ==
  ASSUME DenyTypeOK, NEW p \in Procs, kills[p] > 0, kills' = [kills EXCEPT ![p] = @ - 1]
  PROVE  <<p, kills[p]>> \in Queued /\ Queued' = Queued \ {<<p, kills[p]>>}
<1>1. kills \in [Procs -> Nat] /\ kills[p] \in Nat
  BY DEF DenyTypeOK
<1>2. \A q \in Procs : kills'[q] = IF q = p THEN kills[p] - 1 ELSE kills[q]
  BY <1>1
<1>3. 1 .. (kills[p] - 1) = (1 .. kills[p]) \ {kills[p]} /\ kills[p] \in 1 .. kills[p]
  BY <1>1
<1>4. \A k : k \in Queued <=> \E q \in Procs : k \in {q} \X (1 .. kills[q])
  BY Zenon DEF Queued
<1>5. \A k : k \in Queued' <=> \E q \in Procs : k \in {q} \X (1 .. kills'[q])
  BY Zenon DEF Queued
<1>6. \A q \in Procs \ {p} : {q} \X (1 .. kills'[q]) = {q} \X (1 .. kills[q])
  BY <1>2
<1>7. {p} \X (1 .. kills'[p]) = ({p} \X (1 .. kills[p])) \ {<<p, kills[p]>>}
  BY <1>2, <1>3
<1>8. \A q \in Procs \ {p} : <<p, kills[p]>> \notin {q} \X (1 .. kills[q])
  OBVIOUS
<1>9. <<p, kills[p]>> \in {p} \X (1 .. kills[p])
  BY <1>3
<1>10. \A k : k \in Queued' <=> k \in Queued /\ k # <<p, kills[p]>>
  BY Zenon, <1>4, <1>5, <1>6, <1>7, <1>8
<1> QED
  BY <1>4, <1>9, <1>10

(* mempool_alloc() takes from the reserve only for a request it queues.    *)
LEMMA PoolSchedule ==
  ASSUME DenyTypeOK, PoolInv, NEW p \in Procs, ac_schedule_kill(p)
  PROVE  PoolInv' /\ (ac_kill_dropped' # ac_kill_dropped => reserve = 0)
<1>0. PoolMin \in Nat /\ Cardinality(Queued) \in Nat
  BY DenyAssumption, FS_CardinalityType DEF PoolInv
<1>1. CASE /\ kills' = [kills EXCEPT ![p] = @ + 1]
           /\ reserve' = reserve \/ (reserve > 0 /\ reserve' = reserve - 1)
           /\ UNCHANGED ac_kill_dropped
  <2>1. <<p, kills[p] + 1>> \notin Queued /\ Queued' = Queued \cup {<<p, kills[p] + 1>>}
    BY Zenon, <1>1, QueuedMore
  <2>2. IsFiniteSet(Queued') /\ Cardinality(Queued') = Cardinality(Queued) + 1
    BY Zenon, <2>1, FS_AddElement DEF PoolInv
  <2>3. reserve' \in Nat /\ reserve' <= PoolMin /\ reserve' + Cardinality(Queued') >= PoolMin
    BY <1>0, <1>1, <2>2 DEF PoolInv
  <2> QED
    BY <1>1, <2>2, <2>3 DEF PoolInv
<1>2. CASE reserve = 0 /\ UNCHANGED <<kills, reserve>>
  BY Zenon, <1>2 DEF PoolInv, Queued
<1> QED
  BY Zenon, <1>1, <1>2 DEF ac_schedule_kill

(* mempool_free() refills the reserve first.                               *)
LEMMA PoolFree ==
  ASSUME DenyTypeOK, PoolInv, NEW p \in Procs, ac_kill_worker(p) PROVE PoolInv'
<1>0. PoolMin \in Nat /\ Cardinality(Queued) \in Nat
  BY DenyAssumption, FS_CardinalityType DEF PoolInv
<1>1. /\ kills[p] > 0 /\ kills' = [kills EXCEPT ![p] = @ - 1]
      /\ reserve' = IF reserve < PoolMin THEN reserve + 1 ELSE reserve
  BY Zenon DEF ac_kill_worker, MempoolFree
<1>2. <<p, kills[p]>> \in Queued /\ Queued' = Queued \ {<<p, kills[p]>>}
  BY Zenon, <1>1, QueuedLess
<1>3. IsFiniteSet(Queued') /\ Cardinality(Queued') = Cardinality(Queued) - 1
  BY Zenon, <1>2, FS_RemoveElement DEF PoolInv
<1>4. Cardinality(Queued') \in Nat
  BY <1>3, FS_CardinalityType
<1>5. reserve' \in Nat /\ reserve' <= PoolMin /\ reserve' + Cardinality(Queued') >= PoolMin
  BY <1>0, <1>1, <1>3, <1>4 DEF PoolInv
<1> QED
  BY <1>3, <1>5 DEF PoolInv

(* Every step keeps the pool, and drops a kill only when nothing is left.  *)
LEMMA PoolStep ==
  ASSUME DenyTypeOK, PoolInv, [Next]_vars
  PROVE  PoolInv' /\ (ac_kill_dropped' # ac_kill_dropped => reserve = 0)
<1>1. CASE UNCHANGED <<kills, reserve, ac_kill_dropped>>
  BY Zenon, <1>1 DEF PoolInv, Queued
<1>2. ASSUME NEW p \in Procs, ac_schedule_kill(p)
      PROVE  PoolInv' /\ (ac_kill_dropped' # ac_kill_dropped => reserve = 0)
  BY Zenon, <1>2, PoolSchedule
<1>3. ASSUME NEW p \in Procs, ac_kill_worker(p)
      PROVE  PoolInv' /\ UNCHANGED ac_kill_dropped
  BY Zenon, <1>3, PoolFree DEF ac_kill_worker
<1>4. ASSUME NEW p \in Procs, CallerStep(p)
      PROVE  UNCHANGED <<kills, reserve, ac_kill_dropped>> \/ ac_schedule_kill(p)
  BY Zenon, <1>4 DEF CallerStep, Start, Exit, Enter, ac_deny_event_allowed, Punish, NeutralisePtrace,
                     NeutraliseVm, Overwrite, Body, NoKill
<1>5. CASE Tick \/ Unprotect \/ UNCHANGED vars
  BY <1>1, <1>5, Zenon DEF Tick, Unprotect, vars
<1> QED
  BY Zenon, <1>1, <1>2, <1>3, <1>4, <1>5 DEF Next

(* ac_schedule_kill() drops a kill only while PoolMin or more of them are  *)
(* on their way: on no path does an element of the reserve get lost.       *)
THEOREM DenyDrops == Spec => DropsOnlyWhenFull
<1>1. Init => PoolInv
  <2> SUFFICES ASSUME Init PROVE PoolInv
    OBVIOUS
  <2>1. kills = [p \in Procs |-> 0] /\ reserve = PoolMin /\ PoolMin \in Nat
    BY DenyAssumption DEF Init
  <2>2. \A p \in Procs : {p} \X (1 .. kills[p]) = {}
    BY <2>1
  <2>3. Queued = {}
    BY Zenon, <2>2 DEF Queued
  <2> QED
    BY <2>1, <2>3, FS_EmptySet DEF PoolInv
<1>2. DenyInv => DenyTypeOK
  BY DEF DenyInv
<1>3. DenyTypeOK /\ PoolInv /\ [Next]_vars => PoolInv'
  BY PoolStep
<1>4. DenyTypeOK /\ PoolInv /\ [Next]_vars =>
        [ac_kill_dropped' # ac_kill_dropped => Cardinality(Queued) >= PoolMin]_vars
  <2> SUFFICES ASSUME DenyTypeOK, PoolInv, [Next]_vars, ac_kill_dropped' # ac_kill_dropped
               PROVE  Cardinality(Queued) >= PoolMin
    OBVIOUS
  <2>1. reserve = 0
    BY PoolStep
  <2> QED
    BY <2>1, FS_CardinalityType DEF PoolInv
<1> QED
  BY <1>1, <1>2, <1>3, <1>4, DenyInductive, PTL DEF Spec, DropsOnlyWhenFull

-----------------------------------------------------------------------------
(* The lock that keeps the module, and with it the probes, loaded: the     *)
(* invariants of ModuleLock for any finite set of callers and any ceiling. *)
CONSTANTS Threads, AC_LOCK_MAX
VARIABLES refs, ac_lock_count, pc, prev, loaded
Lock == INSTANCE ModuleLock

(* ModuleLock counts with the operators used here.                         *)
LEMMA LockCounts ==
  ASSUME NEW S
  PROVE  (Lock!IsFiniteSet(S) <=> IsFiniteSet(S)) /\ Lock!Cardinality(S) = Cardinality(S)
BY DEF Lock!IsFiniteSet, Lock!Cardinality, IsFiniteSet, Cardinality

(* What a step of one thread does to a set defined by its pc.              *)
Enters(S, T, t) == t \notin S /\ T = S \cup {t}
Leaves(S, T, t) == t \in S /\ T = S \ {t}

(* The sets whose sizes are counted are finite.                            *)
LEMMA SetsFinite ==
  ASSUME Lock!LockAssumption
  PROVE  /\ IsFiniteSet(Lock!Descriptors) /\ IsFiniteSet(Lock!InFlight)
         /\ Cardinality(Lock!Descriptors) \in Nat /\ Cardinality(Lock!InFlight) \in Nat
<1>1. Lock!Descriptors \subseteq Threads /\ Lock!InFlight \subseteq Threads
  BY DEF Lock!Descriptors, Lock!InFlight
<1>2. IsFiniteSet(Threads)
  BY LockCounts DEF Lock!LockAssumption
<1> QED
  BY <1>1, <1>2, FS_Subset, FS_CardinalityType

(* An element that enters a finite set adds one to its size ...            *)
LEMMA EntersCount ==
  ASSUME NEW S, NEW T, NEW t, IsFiniteSet(S), Enters(S, T, t)
  PROVE  Cardinality(T) = Cardinality(S) + 1
BY FS_AddElement DEF Enters

(* ... and one that leaves it removes one.                                 *)
LEMMA LeavesCount ==
  ASSUME NEW S, NEW T, NEW t, IsFiniteSet(S), Leaves(S, T, t)
  PROVE  Cardinality(T) = Cardinality(S) - 1
BY FS_RemoveElement DEF Leaves

Balanced == refs = Cardinality(Lock!Descriptors) + ac_lock_count + Cardinality(Lock!InFlight)

(* The inductive invariant: the module can only have been unloaded when    *)
(* nothing held it.                                                        *)
LInv == Lock!TypeOK /\ Balanced /\ Lock!LockBounded /\ Lock!LockPins

(* Nothing is open, locked or inside a call at first.                      *)
LEMMA InitLInv ==
  ASSUME Lock!LockAssumption, Lock!Init PROVE LInv
<1>1. Lock!Descriptors = {} /\ Lock!InFlight = {}
  BY DEF Lock!Init, Lock!Descriptors, Lock!InFlight
<1>2. Cardinality(Lock!Descriptors) = 0 /\ Cardinality(Lock!InFlight) = 0
  BY <1>1, FS_EmptySet
<1> QED
  BY <1>1, <1>2
  DEF Lock!LockAssumption, Lock!Init, LInv, Lock!TypeOK, Lock!States, Balanced, Lock!LockBounded, Lock!LockPins

(* A step of the thread t from pc a to pc b.                               *)
Moves(t, a, b) == pc[t] = a /\ pc' = [pc EXCEPT ![t] = b]

(* How such a step moves t between the two sets.                           *)
LEMMA MoveSets ==
  ASSUME Lock!TypeOK, NEW t \in Threads, NEW a \in Lock!States, NEW b \in Lock!States, Moves(t, a, b)
  PROVE  /\ a = "closed" /\ b # "closed" => Enters(Lock!Descriptors, Lock!Descriptors', t)
         /\ a # "closed" /\ b = "closed" => Leaves(Lock!Descriptors, Lock!Descriptors', t)
         /\ a # "closed" /\ b # "closed" => Lock!Descriptors' = Lock!Descriptors
         /\ a \in {"closed", "idle"} /\ b \in {"read", "loop", "put"}
              => Enters(Lock!InFlight, Lock!InFlight', t)
         /\ a \in {"read", "loop", "put"} /\ b \in {"closed", "idle"}
              => Leaves(Lock!InFlight, Lock!InFlight', t)
         /\ a \in {"read", "loop", "put"} /\ b \in {"read", "loop", "put"}
              => Lock!InFlight' = Lock!InFlight
         /\ a \in {"closed", "idle"} /\ b \in {"closed", "idle"} => Lock!InFlight' = Lock!InFlight
BY DEF Lock!TypeOK, Lock!States, Moves, Enters, Leaves, Lock!Descriptors, Lock!InFlight

(* Every step keeps the invariant.                                         *)
LEMMA StepLInv ==
  ASSUME Lock!LockAssumption, LInv, [Lock!Next]_(Lock!vars)
  PROVE  LInv'
<1> USE DEF LInv
<1> DEFINE D == Cardinality(Lock!Descriptors)
           F == Cardinality(Lock!InFlight)
<1>0. D \in Nat /\ F \in Nat /\ IsFiniteSet(Lock!Descriptors) /\ IsFiniteSet(Lock!InFlight)
  BY SetsFinite
<1>n. AC_LOCK_MAX \in Nat
  BY DEF Lock!LockAssumption
<1>1. ASSUME NEW t \in Threads, Lock!Open(t) PROVE LInv'
  <2>1. Moves(t, "closed", "idle")
    BY <1>1 DEF Lock!Open, Moves
  <2>2. Enters(Lock!Descriptors, Lock!Descriptors', t) /\ Lock!InFlight' = Lock!InFlight
    BY <2>1, MoveSets DEF Lock!States
  <2>3. Cardinality(Lock!Descriptors') = D + 1
    BY <1>0, <2>2, EntersCount
  <2> QED
    BY <1>0, <1>1, <2>2, <2>3 DEF Lock!Open, Lock!TypeOK, Lock!States, Balanced, Lock!LockBounded, Lock!LockPins
<1>2. ASSUME NEW t \in Threads, Lock!Close(t) PROVE LInv'
  <2>1. Moves(t, "idle", "closed")
    BY <1>2 DEF Lock!Close, Moves
  <2>2. Leaves(Lock!Descriptors, Lock!Descriptors', t) /\ Lock!InFlight' = Lock!InFlight
    BY <2>1, MoveSets DEF Lock!States
  <2>3. Cardinality(Lock!Descriptors') = D - 1 /\ Cardinality(Lock!Descriptors') \in Nat
    BY <1>0, <2>2, LeavesCount, FS_RemoveElement, FS_CardinalityType DEF Leaves
  <2>4. Lock!Descriptors # {} /\ Lock!Descriptors' \subseteq Lock!Descriptors
    BY <2>2 DEF Leaves
  <2> QED
    BY <1>0, <1>2, <2>2, <2>3, <2>4
    DEF Lock!Close, Lock!TypeOK, Lock!States, Balanced, Lock!LockBounded, Lock!LockPins
<1>3. ASSUME NEW t \in Threads, Lock!TryModuleGet(t) PROVE LInv'
  <2>1. Moves(t, "idle", "read")
    BY <1>3 DEF Lock!TryModuleGet, Moves
  <2>2. Enters(Lock!InFlight, Lock!InFlight', t) /\ Lock!Descriptors' = Lock!Descriptors
    BY <2>1, MoveSets DEF Lock!States
  <2>3. Cardinality(Lock!InFlight') = F + 1
    BY <1>0, <2>2, EntersCount
  <2> QED
    BY <1>0, <1>3, <2>2, <2>3
    DEF Lock!TryModuleGet, Lock!TypeOK, Lock!States, Balanced, Lock!LockBounded, Lock!LockPins
<1>4. ASSUME NEW t \in Threads, Lock!ReadCount(t) PROVE LInv'
  <2>1. Moves(t, "read", "loop")
    BY <1>4 DEF Lock!ReadCount, Moves
  <2>2. Lock!InFlight' = Lock!InFlight /\ Lock!Descriptors' = Lock!Descriptors
    BY <2>1, MoveSets DEF Lock!States
  <2> QED
    BY <1>0, <1>4, <2>2 DEF Lock!ReadCount, Lock!TypeOK, Lock!States, Balanced, Lock!LockBounded, Lock!LockPins
<1>5. ASSUME NEW t \in Threads, Lock!LockBusy(t) PROVE LInv'
  <2>1. Moves(t, "loop", "idle")
    BY <1>5 DEF Lock!LockBusy, Moves
  <2>2. Leaves(Lock!InFlight, Lock!InFlight', t) /\ Lock!Descriptors' = Lock!Descriptors
    BY <2>1, MoveSets DEF Lock!States
  <2>3. Cardinality(Lock!InFlight') = F - 1 /\ Cardinality(Lock!InFlight') \in Nat
    BY <1>0, <2>2, LeavesCount, FS_RemoveElement, FS_CardinalityType DEF Leaves
  <2> QED
    BY <1>0, <1>5, <2>2, <2>3 DEF Lock!LockBusy, Lock!TypeOK, Lock!States, Balanced, Lock!LockBounded, Lock!LockPins
<1>6. ASSUME NEW t \in Threads, Lock!CmpxchgOk(t) PROVE LInv'
  <2>1. Moves(t, "loop", "idle")
    BY <1>6 DEF Lock!CmpxchgOk, Moves
  <2>2. Leaves(Lock!InFlight, Lock!InFlight', t) /\ Lock!Descriptors' = Lock!Descriptors
    BY <2>1, MoveSets DEF Lock!States
  <2>3. Cardinality(Lock!InFlight') = F - 1 /\ Cardinality(Lock!InFlight') \in Nat
    BY <1>0, <2>2, LeavesCount, FS_RemoveElement, FS_CardinalityType DEF Leaves
  <2>4. t \in Lock!Descriptors
    BY <1>6 DEF Lock!CmpxchgOk, Lock!Descriptors
  <2> QED
    BY <1>0, <1>n, <1>6, <2>2, <2>3, <2>4
    DEF Lock!CmpxchgOk, Lock!AtMax, Lock!TypeOK, Lock!States, Balanced, Lock!LockBounded, Lock!LockPins
<1>7. ASSUME NEW t \in Threads, Lock!CmpxchgFails(t) PROVE LInv'
  <2>1. Lock!InFlight' = Lock!InFlight /\ Lock!Descriptors' = Lock!Descriptors
    BY <1>7 DEF Lock!CmpxchgFails, Lock!InFlight, Lock!Descriptors
  <2> QED
    BY <1>7, <2>1 DEF Lock!CmpxchgFails, Lock!TypeOK, Lock!States, Balanced, Lock!LockBounded, Lock!LockPins
<1>8. ASSUME NEW t \in Threads, Lock!Unlock(t) PROVE LInv'
  <2>1. Moves(t, "idle", "put")
    BY <1>8 DEF Lock!Unlock, Moves
  <2>2. Enters(Lock!InFlight, Lock!InFlight', t) /\ Lock!Descriptors' = Lock!Descriptors
    BY <2>1, MoveSets DEF Lock!States
  <2>3. Cardinality(Lock!InFlight') = F + 1
    BY <1>0, <2>2, EntersCount
  <2> QED
    BY <1>0, <1>n, <1>8, <2>2, <2>3
    DEF Lock!Unlock, Lock!DecIfPositive, Lock!TypeOK, Lock!States, Balanced, Lock!LockBounded, Lock!LockPins
<1>9. ASSUME NEW t \in Threads, Lock!ModulePut(t) PROVE LInv'
  <2>1. Moves(t, "put", "idle")
    BY <1>9 DEF Lock!ModulePut, Moves
  <2>2. Leaves(Lock!InFlight, Lock!InFlight', t) /\ Lock!Descriptors' = Lock!Descriptors
    BY <2>1, MoveSets DEF Lock!States
  <2>3. Cardinality(Lock!InFlight') = F - 1 /\ Cardinality(Lock!InFlight') \in Nat
    BY <1>0, <2>2, LeavesCount, FS_RemoveElement, FS_CardinalityType DEF Leaves
  <2> QED
    BY <1>0, <1>9, <2>2, <2>3 DEF Lock!ModulePut, Lock!TypeOK, Lock!States, Balanced, Lock!LockBounded, Lock!LockPins
<1>10. CASE Lock!Rmmod
  <2>1. Lock!InFlight' = Lock!InFlight /\ Lock!Descriptors' = Lock!Descriptors
    BY <1>10 DEF Lock!Rmmod, Lock!InFlight, Lock!Descriptors
  <2>2. D = 0 /\ ac_lock_count = 0
    BY <1>0, <1>10 DEF Lock!Rmmod, Lock!TypeOK, Balanced
  <2>3. Lock!Descriptors = {}
    BY <1>0, <2>2, FS_EmptySet
  <2>4. Lock!TypeOK' /\ Lock!LockBounded'
    BY Zenon, <1>10 DEF Lock!Rmmod, Lock!TypeOK, Lock!LockBounded
  <2>5. Balanced'
    BY <1>10, <2>1 DEF Lock!Rmmod, Balanced
  <2>6. Lock!LockPins'
    BY <1>10, <2>1, <2>2, <2>3 DEF Lock!Rmmod, Lock!LockPins
  <2> QED
    BY <2>4, <2>5, <2>6
<1>11. CASE UNCHANGED Lock!vars
  BY <1>11 DEF Lock!vars, Lock!TypeOK, Balanced, Lock!LockBounded, Lock!LockPins, Lock!InFlight, Lock!Descriptors
<1> QED
  BY <1>1, <1>2, <1>3, <1>4, <1>5, <1>6, <1>7, <1>8, <1>9, <1>10, <1>11 DEF Lock!Next

(* The inductive invariant holds throughout.                               *)
LEMMA LInvAlways == ASSUME Lock!LockAssumption PROVE Lock!Spec => []LInv
<1>1. Lock!Init => LInv
  BY InitLInv
<1>2. LInv /\ [Lock!Next]_(Lock!vars) => LInv'
  BY StepLInv
<1> QED
  BY <1>1, <1>2, PTL DEF Lock!Spec

(* No interleaving of AC_IOCTL_LOCK and AC_IOCTL_UNLOCK calls leaks a      *)
(* module reference or drops one twice.                                    *)
THEOREM RefsBalanceHolds == ASSUME Lock!LockAssumption PROVE Lock!Spec => []Lock!RefsBalance
<1>1. LInv => Lock!RefsBalance
  BY LockCounts DEF LInv, Balanced, Lock!RefsBalance
<1> QED
  BY <1>1, LInvAlways, PTL

(* The number of locks never exceeds AC_LOCK_MAX.                          *)
THEOREM LockBoundedHolds == ASSUME Lock!LockAssumption PROVE Lock!Spec => []Lock!LockBounded
<1>1. LInv => Lock!LockBounded
  BY DEF LInv
<1> QED
  BY <1>1, LInvAlways, PTL

(* A locked module, and one with an open descriptor, is never unloaded.    *)
THEOREM LockPinsHolds == ASSUME Lock!LockAssumption PROVE Lock!Spec => []Lock!LockPins
<1>1. LInv => Lock!LockPins
  BY DEF LInv
<1> QED
  BY <1>1, LInvAlways, PTL
=============================================================================
