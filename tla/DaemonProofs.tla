---------------------------- MODULE DaemonProofs ----------------------------
(* The daemon's reports for every timeout, request, table and number of    *)
(* children, and the slots of the server they are sent to.                 *)
EXTENDS Delivery, FiniteSetTheorems, WellFoundedInduction, TLAPS

(* A set of natural numbers that is not empty has a least element.         *)
LEMMA LeastExists ==
  ASSUME NEW S \in SUBSET Nat, S # {} PROVE \E i \in S : \A j \in S : i <= j
<1>1. PICK i \in S : \A j \in S : ~(<<j, i>> \in OpToRel(<, Nat))
  BY Zenon, NatLessThanWellFounded, WFMin
<1>2. \A j \in S : ~(j < i)
  BY Zenon, <1>1 DEF OpToRel
<1> QED BY <1>2

-----------------------------------------------------------------------------
(* One report: the socket, what the server has stored, and the time.       *)
RepTypeOK ==
  /\ pc \in {"idle", "resolve", "connect", "request", "read"}
  /\ naddrs \in Nat /\ ai \in Nat /\ fds \in Int /\ sent \in Nat /\ spent \in Nat
  /\ stored \in Nat

(* A socket is open exactly while a request is written or its response     *)
(* awaited.                                                                *)
SockInv == fds = IF pc \in {"request", "read"} THEN 1 ELSE 0

(* The server's side: nothing is stored before there is a connection, and  *)
(* what is stored is not stored again.                                     *)
StoreInv ==
  /\ conn = "open" => pc \in {"request", "read"}
  /\ pc \in {"resolve", "connect"} => stored = 0 /\ reply = "none" /\ sent = 0
  /\ conn = "open" /\ reply = "none" => stored = 0
  /\ reply = "2xx" => stored = 1
  /\ stored <= 1
  /\ outcome = "ok" => stored = 1 /\ pc = "idle"

(* What k waits take at most, and what a call has spent at each point.     *)
Cost(k) == AC_REPORT_TIMEOUT_SEC * k
TimeInv ==
  /\ pc = "resolve" => spent = 0 /\ ai = 0
  /\ pc = "connect" => ai <= naddrs /\ spent <= Cost(1 + ai) + ReapTimeout
  /\ pc = "request" => sent <= REQ /\ spent <= Cost(1 + naddrs + sent) + ReapTimeout
  /\ pc = "read" => spent <= Cost(1 + naddrs + REQ) + ReapTimeout
  /\ TimeBounded
RepInv == RepTypeOK /\ SockInv /\ StoreInv /\ TimeInv

(* Costs are natural numbers, add up and grow.                             *)
LEMMA CostFacts ==
  ASSUME NEW a \in Nat, NEW b \in Nat
  PROVE  /\ Cost(a) \in Nat /\ Cost(a + 1) = Cost(a) + AC_REPORT_TIMEOUT_SEC
         /\ a <= b => Cost(a) <= Cost(b)
BY DeliveryAssumption DEF Cost

(* The constants.                                                          *)
LEMMA Consts ==
  /\ AC_REPORT_TIMEOUT_SEC \in Nat /\ REQ \in Nat /\ ReapTimeout \in Nat /\ MaxForks \in Nat
  /\ AC_MAX_STALE_RESOLVERS \in Nat
BY DeliveryAssumption

(* The bound in terms of costs.                                            *)
LEMMA Bound == TimeBounded <=> spent <= Cost(2 + naddrs + REQ) + ReapTimeout
BY DEF TimeBounded, Cost

(* The socket and the server's side under a step of the report.            *)
LEMMA RepStore ==
  ASSUME RepTypeOK, SockInv, StoreInv, Begin \/ Attempt \/ Server
  PROVE  SockInv' /\ StoreInv'
<1>1. CASE Begin
  <2>1. /\ pc = "idle" /\ sent' = 0 /\ conn' = "none" /\ stored' = 0 /\ reply' = "none"
        /\ fds' = fds /\ outcome' \in {"skipped", "logged", "none"}
        /\ pc' \in {"idle", "connect", "resolve"}
    BY <1>1 DEF Begin
  <2> QED BY <2>1 DEF SockInv, StoreInv
<1>2. CASE Connected \/ ConnectFails \/ NoAddressLeft
  BY <1>2 DEF Connected, ConnectFails, NoAddressLeft, Failed, srvVars, RepTypeOK, SockInv, StoreInv
<1>3. CASE RequestTooLarge \/ Write \/ WriteFails \/ Written
  BY <1>3 DEF RequestTooLarge, Write, WriteFails, Written, Failed, srvVars, RepTypeOK, SockInv, StoreInv
<1>4. CASE ReadReply \/ ReadFails
  BY <1>4 DEF ReadReply, ReadFails, Failed, Accepts, srvVars, RepTypeOK, SockInv, StoreInv
<1>5. CASE Server
  BY <1>5 DEF Server, ServerHandles, ServerDies, RepTypeOK, SockInv, StoreInv
<1> QED BY <1>1, <1>2, <1>3, <1>4, <1>5, Zenon DEF Attempt
(* The types and the time under a step of the report.                      *)
LEMMA RepTime ==
  ASSUME RepTypeOK, SockInv, StoreInv, TimeInv, Begin \/ Attempt \/ Server
  PROVE  RepTypeOK' /\ TimeInv'
<1> DEFINE T == AC_REPORT_TIMEOUT_SEC
           D == 2 + naddrs + REQ
<1>0. /\ T \in Nat /\ REQ \in Nat /\ ReapTimeout \in Nat /\ naddrs \in Nat /\ ai \in Nat
      /\ sent \in Nat /\ spent \in Nat
  BY Consts DEF RepTypeOK
<1>1. CASE Begin
  <2>1. /\ ai' = 0 /\ sent' = 0 /\ spent' = 0 /\ stored' = 0 /\ fds' = fds /\ naddrs' \in {0, 1}
        /\ pc' \in {"idle", "connect", "resolve"}
    BY <1>1 DEF Begin
  <2>a. naddrs' \in Nat
    BY <2>1
  <2>b. \A k \in Nat : 2 + k + REQ \in Nat
    BY Consts
  <2>2. naddrs' \in Nat /\ 2 + naddrs' + REQ \in Nat
    BY <2>a, <2>b, Zenon
  <2>3. Cost(1) \in Nat /\ Cost(2 + naddrs' + REQ) \in Nat
    BY <2>2, CostFacts
  <2>4. RepTypeOK'
    BY <2>1, <2>2 DEF RepTypeOK
  <2>5. 1 + ai' = 1
    BY <2>1
  <2>6. TimeBounded' <=> spent' <= Cost(2 + naddrs' + REQ) + ReapTimeout
    BY DEF TimeBounded, Cost
  <2>7. /\ pc' = "resolve" => spent' = 0
        /\ pc' = "connect" => ai' <= naddrs' /\ spent' <= Cost(1 + ai') + ReapTimeout
        /\ ai' = 0 /\ pc' # "request" /\ pc' # "read" /\ TimeBounded'
    BY <1>0, <2>1, <2>2, <2>3, <2>5, <2>6
  <2> QED BY <2>4, <2>7 DEF TimeInv
<1>2. CASE Attempt \/ Server
  <2>1. naddrs' = naddrs
    BY Zenon, <1>2 DEF Attempt, Server, Connected, ConnectFails, NoAddressLeft, RequestTooLarge, Write,
       WriteFails, Written, ReadReply, ReadFails, ServerHandles, ServerDies
  <2>2. TimeBounded' <=> spent' <= Cost(D) + ReapTimeout
    BY <2>1 DEF TimeBounded, Cost
  <2>3. /\ Cost(1 + ai) \in Nat /\ Cost(1 + (ai + 1)) = Cost(1 + ai) + T
        /\ Cost(1 + naddrs + sent) \in Nat
        /\ Cost(1 + naddrs + (sent + 1)) = Cost(1 + naddrs + sent) + T
        /\ Cost(1 + naddrs + REQ) \in Nat /\ Cost(D) = Cost(1 + naddrs + REQ) + T
    <3>1. /\ 1 + ai \in Nat /\ 1 + (ai + 1) = (1 + ai) + 1
          /\ 1 + naddrs + sent \in Nat /\ 1 + naddrs + (sent + 1) = (1 + naddrs + sent) + 1
          /\ 1 + naddrs + REQ \in Nat /\ D = (1 + naddrs + REQ) + 1
      BY <1>0
    <3>2. \A a \in Nat : Cost(a) \in Nat /\ Cost(a + 1) = Cost(a) + T
      BY CostFacts, Zenon
    <3> QED BY <3>1, <3>2
  <2>4. /\ ai < naddrs => Cost(1 + (ai + 1)) <= Cost(1 + naddrs + sent)
        /\ sent <= REQ => Cost(1 + naddrs + sent) <= Cost(1 + naddrs + REQ)
        /\ ai <= naddrs => Cost(1 + ai) <= Cost(1 + naddrs + REQ)
    <3>1. \A a, b \in Nat : a <= b => Cost(a) <= Cost(b)
      BY CostFacts, Zenon
    <3> QED BY <1>0, <3>1
  <2> HIDE DEF D
  <2>5. CASE Connected \/ ConnectFails
    BY <1>0, <2>1, <2>2, <2>3, <2>4, <2>5
    DEF Connected, ConnectFails, Waits, srvVars, RepTypeOK, StoreInv, TimeInv
  <2>6. CASE NoAddressLeft \/ RequestTooLarge
    BY <1>0, <2>1, <2>2, <2>3, <2>4, <2>6
    DEF NoAddressLeft, RequestTooLarge, Failed, srvVars, RepTypeOK, TimeInv
  <2>7. CASE Write
    <3>1. PICK w \in 1 .. REQ - sent, d \in {0, T} :
            /\ sent' = sent + w /\ spent' = spent + d
      BY <2>7 DEF Write, Waits
    <3>2. /\ pc = "request" /\ pc' = pc /\ UNCHANGED <<ai, fds, stored>>
      BY <2>7 DEF Write
    <3>3. w \in Nat /\ sent + w \in Nat /\ sent + 1 <= sent + w /\ sent + w <= REQ /\ d \in Nat /\ d <= T
      BY <1>0, <3>1
    <3>4. Cost(1 + naddrs + (sent + 1)) <= Cost(1 + naddrs + sent')
      <4>1. \A a, b \in Nat : a <= b => Cost(a) <= Cost(b)
        BY CostFacts, Zenon
      <4> QED BY <1>0, <3>1, <3>3, <4>1
    <3>5. Cost(1 + naddrs + sent') <= Cost(1 + naddrs + REQ) /\ Cost(1 + naddrs + sent') \in Nat
      <4>1. \A a, b \in Nat : Cost(a) \in Nat /\ (a <= b => Cost(a) <= Cost(b))
        BY CostFacts, Zenon
      <4> QED BY <1>0, <3>1, <3>3, <4>1
    <3>6. spent <= Cost(1 + naddrs + sent) + ReapTimeout
      BY <3>2 DEF TimeInv
    <3>7. spent' <= Cost(1 + naddrs + sent') + ReapTimeout /\ spent' \in Nat
      BY <1>0, <2>3, <3>1, <3>3, <3>4, <3>5, <3>6
    <3>8. RepTypeOK'
      BY <1>0, <2>1, <3>1, <3>2, <3>3, <3>7 DEF RepTypeOK
    <3>9. spent' <= Cost(D) + ReapTimeout
      BY <1>0, <2>3, <3>5, <3>7
    <3> QED BY <1>0, <2>1, <2>2, <3>1, <3>2, <3>3, <3>7, <3>8, <3>9 DEF TimeInv
  <2>8. CASE WriteFails \/ Written
    BY <1>0, <2>1, <2>2, <2>3, <2>4, <2>8
    DEF WriteFails, Written, Failed, Waits, srvVars, RepTypeOK, TimeInv
  <2>9. CASE ReadReply \/ ReadFails
    BY <1>0, <2>1, <2>2, <2>3, <2>4, <2>9
    DEF ReadReply, ReadFails, Failed, Waits, srvVars, RepTypeOK, TimeInv
  <2>10. CASE Server
    <3>1. UNCHANGED <<pc, naddrs, ai, fds, sent, spent>> /\ stored' \in {stored, stored + 1}
      BY <2>10 DEF Server, ServerHandles, ServerDies
    <3>2. RepTypeOK'
      BY <3>1 DEF RepTypeOK
    <3> QED BY <3>1, <3>2 DEF TimeInv, TimeBounded
  <2> QED BY <1>2, <2>5, <2>6, <2>7, <2>8, <2>9, <2>10, Zenon DEF Attempt
<1> QED BY <1>1, <1>2

(* The resolver has returned after d ticks: d is at most its two waits.    *)
LEMMA RepResolved ==
  ASSUME RepInv, NEW k \in Nat, NEW d \in Nat, d <= AC_REPORT_TIMEOUT_SEC + ReapTimeout,
         Resolved(k, d)
  PROVE  RepInv'
<1>0. RepTypeOK /\ SockInv /\ StoreInv /\ TimeInv
  BY DEF RepInv
<1>1. /\ pc = "resolve" /\ spent' = spent + d /\ naddrs' = k /\ spent = 0
      /\ UNCHANGED <<ai, fds, sent, conn, got, stored, reply>>
      /\ IF k = 0 THEN outcome' = "logged" /\ pc' = "idle" ELSE pc' = "connect" /\ outcome' = outcome
  BY <1>0 DEF Resolved, Failed, srvVars, TimeInv
<1>2. RepTypeOK'
  BY <1>0, <1>1 DEF RepTypeOK
<1>3. SockInv' /\ StoreInv'
  BY <1>0, <1>1 DEF SockInv, StoreInv
<1>4. spent' = d /\ ai' = 0
  BY <1>0, <1>1 DEF TimeInv
<1>5. TimeBounded' <=> d <= Cost(2 + k + REQ) + ReapTimeout
  BY <1>1, <1>4 DEF TimeBounded, Cost
<1>6. Cost(1) = AC_REPORT_TIMEOUT_SEC /\ Cost(1) <= Cost(2 + k + REQ) /\ Cost(2 + k + REQ) \in Nat
  <2>1. 2 + k + REQ \in Nat /\ 1 <= 2 + k + REQ
    BY Consts
  <2>2. \A a, b \in Nat : Cost(a) \in Nat /\ (a <= b => Cost(a) <= Cost(b))
    BY CostFacts, Zenon
  <2>3. Cost(1) = AC_REPORT_TIMEOUT_SEC
    BY Consts DEF Cost
  <2> QED BY <2>1, <2>2, <2>3
<1>7. d <= Cost(1) + ReapTimeout /\ d <= Cost(2 + k + REQ) + ReapTimeout
  BY <1>6, Consts
<1>8. 1 + ai' = 1 /\ ai' <= naddrs'
  BY <1>1, <1>4
<1>9. TimeInv'
  BY <1>1, <1>4, <1>5, <1>7, <1>8 DEF TimeInv
<1> QED BY <1>2, <1>3, <1>9, Zenon DEF RepInv
-----------------------------------------------------------------------------
(* The resolver: its children, their table and its clock.                  *)
Alive == {"new", "resolving", "zombie"}
AllFds == Res!Std \cup Res!Low \cup Res!High \cup {"pipe"}
Unit == Nat \X Nat
ResTypeOK ==
  /\ rpc \in {"idle", "poll", "polling", "kill", "reap", "nap", "abandon"}
  /\ t \in Nat /\ until \in Nat /\ rt \in Nat /\ rsent \in Nat /\ child \in 0 .. MaxForks
  /\ st \in [Res!Forks -> Alive \cup {"none", "reaped"}]
  /\ stale \in [Res!Table -> 0 .. MaxForks]
  /\ cfds \in [Res!Forks -> SUBSET AllFds]
  /\ pipe \in Seq(Unit) /\ buf \in Seq(Unit) /\ out \in Seq(Seq(Unit))
  /\ rpc # "idle" => child # 0

(* Neither wait exceeds its limit.                                         *)
ClockInv ==
  /\ t <= AC_REPORT_TIMEOUT_SEC /\ until <= AC_REPORT_TIMEOUT_SEC /\ rt <= ReapTimeout
  /\ rpc = "nap" => rt < ReapTimeout

(* A child has everything of the daemon open, and then only the pipe.      *)
FdsInv ==
  \A c \in Res!Forks :
    /\ st[c] = "new" => cfds[c] = AllFds
    /\ st[c] = "resolving" => cfds[c] = Res!Std \cup {"pipe"}

(* The table tb for children in the states s, of which k have been forked  *)
(* and cur is still waited for (0: none): a slot is kept for that one.     *)
TableOK(tb, s, k, cur) ==
  /\ \A c \in Res!Forks : s[c] = "none" <=> c > k
  /\ \A i \in Res!Table : tb[i] > 0 => s[tb[i]] \in Alive /\ tb[i] # cur
  /\ \A i, j \in Res!Table : tb[i] > 0 /\ tb[i] = tb[j] => i = j
  /\ \A c \in Res!Forks : s[c] \in Alive => c = cur \/ \E i \in Res!Table : tb[i] = c
  /\ cur # 0 => cur = k /\ s[cur] \in Alive /\ \E i \in Res!Table : tb[i] = 0
Current == IF rpc = "idle" THEN 0 ELSE child
TableInv == TableOK(stale, st, child, Current)
ResInv == ResTypeOK /\ ClockInv /\ FdsInv /\ TableInv

(* The report waits for the resolver exactly while it is asked.            *)
LinkInv == (asked => pc = "resolve") /\ (~asked => rpc = "idle") /\ asked \in BOOLEAN
DelInv == RepInv /\ ResInv /\ LinkInv
(* Sweeping reaps the zombies of the table and frees their slots.          *)
LEMMA SweepTyped ==
  ASSUME ResTypeOK
  PROVE  /\ Res!Swept \in [Res!Table -> 0 .. MaxForks]
         /\ Res!Reaped \in [Res!Forks -> Alive \cup {"none", "reaped"}]
         /\ \A i \in Res!Table : stale[i] = 0 => Res!Swept[i] = 0
         /\ \A c \in Res!Forks : Res!Reaped[c] \in Alive => Res!Reaped[c] = st[c]
         /\ \A c \in Res!Forks : Res!Reaped[c] \in {"new", "resolving"} <=> st[c] \in {"new", "resolving"}
<1>0. 0 \in 0 .. MaxForks
  BY Consts
<1> QED BY <1>0 DEF ResTypeOK, Res!Swept, Res!Reaped, Alive

(* The sweep of the abandoned children keeps the table consistent.         *)
LEMMA SweepTable ==
  ASSUME ResTypeOK, NEW cur, TableOK(stale, st, child, cur)
  PROVE  TableOK(Res!Swept, Res!Reaped, child, cur)
<1> DEFINE S == Res!Swept
           R == Res!Reaped
<1>1. \A i \in Res!Table : S[i] > 0 =>
        S[i] = stale[i] /\ stale[i] \in Res!Forks /\ st[stale[i]] # "zombie"
  BY Consts DEF ResTypeOK, Res!Swept, Res!Forks
<1>2. \A c \in Res!Forks : R[c] = IF st[c] = "zombie" /\ (\E i \in Res!Table : stale[i] = c)
                               THEN "reaped" ELSE st[c]
  BY DEF Res!Reaped
<1>3. \A i \in Res!Table : S[i] = IF stale[i] > 0 /\ st[stale[i]] = "zombie" THEN 0 ELSE stale[i]
  BY DEF Res!Swept
<1>4. ResTypeOK /\ TableOK(stale, st, child, cur)
  OBVIOUS
<1> HIDE DEF S, R
<1>5. \A c \in Res!Forks : R[c] = "none" <=> c > child
  BY <1>2, <1>4 DEF TableOK
<1>6. \A i \in Res!Table : S[i] > 0 => R[S[i]] \in Alive /\ S[i] # cur
  BY <1>1, <1>2, <1>4 DEF TableOK, Alive
<1>7. \A i, j \in Res!Table : S[i] > 0 /\ S[i] = S[j] => i = j
  BY <1>1, <1>4 DEF TableOK
<1>8. \A c \in Res!Forks : R[c] \in Alive => c = cur \/ \E i \in Res!Table : S[i] = c
  <2> SUFFICES ASSUME NEW c \in Res!Forks, R[c] \in Alive, c # cur
               PROVE  \E i \in Res!Table : S[i] = c
    OBVIOUS
  <2>1. st[c] \in Alive /\ R[c] = st[c]
    BY <1>2 DEF Alive
  <2>2. PICK i \in Res!Table : stale[i] = c
    BY <2>1, <1>4 DEF TableOK
  <2>3. st[c] # "zombie"
    BY <1>2, <2>1, <2>2 DEF Alive
  <2> QED BY <1>3, <2>2, <2>3
<1>9. cur # 0 => cur = child /\ R[cur] \in Alive /\ \E i \in Res!Table : S[i] = 0
  <2> SUFFICES ASSUME cur # 0 PROVE cur = child /\ R[cur] \in Alive /\ \E i \in Res!Table : S[i] = 0
    OBVIOUS
  <2>1. cur = child /\ st[cur] \in Alive /\ \E i \in Res!Table : stale[i] = 0
    BY <1>4 DEF TableOK
  <2>2. cur \in Res!Forks
    BY <1>4, <2>1, Consts DEF ResTypeOK, Res!Forks
  <2>3. \A i \in Res!Table : stale[i] # cur
    BY <1>4, <2>2, Consts DEF TableOK, Res!Forks
  <2>4. R[cur] = st[cur]
    BY <1>2, <2>2, <2>3
  <2> QED BY <1>3, <2>1, <2>4
<1> QED BY <1>5, <1>6, <1>7, <1>8, <1>9, Zenon DEF TableOK, S, R

(* What the steps do to the table: a fork, the end of the wait for the     *)
(* child, its leaving to the table, and a child's own step.                *)
LEMMA TableFork ==
  ASSUME NEW tb \in [Res!Table -> 0 .. MaxForks], NEW s \in [Res!Forks -> Alive \cup {"none", "reaped"}],
         NEW k \in 0 .. MaxForks, k < MaxForks, TableOK(tb, s, k, 0), \E i \in Res!Table : tb[i] = 0
  PROVE  TableOK(tb, [s EXCEPT ![k + 1] = "new"], k + 1, k + 1)
<1>1. k + 1 \in Res!Forks /\ s[k + 1] = "none" /\ k + 1 # 0
  BY Consts DEF TableOK, Res!Forks
<1>2. \A i \in Res!Table : tb[i] # k + 1
  BY <1>1, Consts DEF TableOK, Alive
<1> DEFINE z == [s EXCEPT ![k + 1] = "new"]
<1>3. z[k + 1] = "new" /\ \A c \in Res!Forks \ {k + 1} : z[c] = s[c]
  BY <1>1
<1> HIDE DEF z
<1>4. \A c \in Res!Forks : z[c] = "none" <=> c > k + 1
  BY <1>1, <1>3, Consts DEF TableOK, Res!Forks
<1>5. \A i \in Res!Table : tb[i] > 0 => z[tb[i]] \in Alive /\ tb[i] # k + 1
  BY <1>2, <1>3, Consts DEF TableOK, Res!Forks
<1>6. \A c \in Res!Forks : z[c] \in Alive => c = k + 1 \/ \E i \in Res!Table : tb[i] = c
  BY <1>1, <1>3 DEF TableOK, Res!Forks
<1> QED BY <1>1, <1>3, <1>4, <1>5, <1>6 DEF TableOK, Alive, z

(* So does the reaping of the current child,                               *)
LEMMA TableReap ==
  ASSUME NEW tb \in [Res!Table -> 0 .. MaxForks], NEW s \in [Res!Forks -> Alive \cup {"none", "reaped"}],
         NEW k \in Res!Forks, TableOK(tb, s, k, k)
  PROVE  TableOK(tb, [s EXCEPT ![k] = "reaped"], k, 0)
<1> DEFINE z == [s EXCEPT ![k] = "reaped"]
<1>1. z[k] = "reaped" /\ \A c \in Res!Forks \ {k} : z[c] = s[c]
  OBVIOUS
<1>2. k # 0 /\ k \in Int /\ ~(k > k)
  BY Consts DEF Res!Forks
<1> HIDE DEF z
<1>3. \A i \in Res!Table : tb[i] > 0 => tb[i] \in Res!Forks
  BY Consts DEF Res!Forks
<1>4. \A c \in Res!Forks : z[c] = "none" <=> c > k
  BY <1>1, <1>2 DEF TableOK, Alive
<1>5. \A i \in Res!Table : tb[i] > 0 => z[tb[i]] \in Alive /\ tb[i] # 0
  BY <1>1, <1>3 DEF TableOK
<1>6. \A c \in Res!Forks : z[c] \in Alive => \E i \in Res!Table : tb[i] = c
  BY <1>1 DEF TableOK, Alive
<1> QED BY <1>4, <1>5, <1>6 DEF TableOK, z

(* its abandoning to a free entry of the table,                            *)
LEMMA TableAbandon ==
  ASSUME NEW tb \in [Res!Table -> 0 .. MaxForks], NEW s \in [Res!Forks -> Alive \cup {"none", "reaped"}],
         NEW k \in Res!Forks, TableOK(tb, s, k, k), NEW i \in Res!Table, tb[i] = 0
  PROVE  TableOK([tb EXCEPT ![i] = k], s, k, 0)
<1> DEFINE z == [tb EXCEPT ![i] = k]
<1>1. z[i] = k /\ \A j \in Res!Table \ {i} : z[j] = tb[j]
  OBVIOUS
<1>2. k \in Nat /\ k # 0
  BY Consts DEF Res!Forks
<1>3. s[k] \in Alive /\ \A j \in Res!Table : tb[j] > 0 => tb[j] # k
  BY <1>2 DEF TableOK
<1> HIDE DEF z
<1>4. \A j \in Res!Table : z[j] > 0 => s[z[j]] \in Alive /\ z[j] # 0
  BY <1>1, <1>2, <1>3 DEF TableOK
<1>5. \A h, j \in Res!Table : z[h] > 0 /\ z[h] = z[j] => h = j
  BY <1>1, <1>2, <1>3 DEF TableOK
<1>6. \A c \in Res!Forks : s[c] \in Alive => \E j \in Res!Table : z[j] = c
  <2> SUFFICES ASSUME NEW c \in Res!Forks, s[c] \in Alive, c # k PROVE \E j \in Res!Table : z[j] = c
    BY <1>1
  <2>1. PICK j \in Res!Table : tb[j] = c
    BY DEF TableOK
  <2>2. j # i
    BY <2>1, Consts DEF Res!Forks
  <2> QED BY <1>1, <2>1, <2>2
<1>7. \A c \in Res!Forks : s[c] = "none" <=> c > k
  BY DEF TableOK
<1> QED BY <1>4, <1>5, <1>6, <1>7 DEF TableOK, z

(* and every step of a child that is still alive.                          *)
LEMMA TableAlive ==
  ASSUME NEW tb \in [Res!Table -> 0 .. MaxForks], NEW s \in [Res!Forks -> Alive \cup {"none", "reaped"}],
         NEW k \in 0 .. MaxForks, NEW cur, TableOK(tb, s, k, cur), NEW c \in Res!Forks, s[c] \in Alive,
         NEW a \in Alive
  PROVE  TableOK(tb, [s EXCEPT ![c] = a], k, cur)
<1> DEFINE z == [s EXCEPT ![c] = a]
<1>1. z[c] = a /\ \A d \in Res!Forks \ {c} : z[d] = s[d]
  OBVIOUS
<1> HIDE DEF z
<1>2. \A i \in Res!Table : tb[i] > 0 => tb[i] \in Res!Forks
  BY Consts DEF Res!Forks
<1>3. \A d \in Res!Forks : z[d] \in Alive <=> s[d] \in Alive
  BY <1>1
<1>4. \A d \in Res!Forks : z[d] = "none" <=> s[d] = "none"
  BY <1>1 DEF Alive
<1>5. cur # 0 => cur \in Res!Forks
  <2>1. cur # 0 => cur = k
    BY DEF TableOK
  <2> QED BY <2>1, Consts DEF Res!Forks
<1>6. \A d \in Res!Forks : z[d] = "none" <=> d > k
  BY <1>4 DEF TableOK
<1>7. \A i \in Res!Table : tb[i] > 0 => z[tb[i]] \in Alive /\ tb[i] # cur
  BY <1>2, <1>3 DEF TableOK
<1>8. \A d \in Res!Forks : z[d] \in Alive => d = cur \/ \E i \in Res!Table : tb[i] = d
  BY <1>3, Zenon DEF TableOK
<1>9. cur # 0 => cur = k /\ z[cur] \in Alive /\ \E i \in Res!Table : tb[i] = 0
  BY <1>3, <1>5, Zenon DEF TableOK
<1>10. \A i, j \in Res!Table : tb[i] > 0 /\ tb[i] = tb[j] => i = j
  BY Zenon DEF TableOK
<1> QED BY <1>6, <1>7, <1>8, <1>9, <1>10, Zenon DEF TableOK, z
(* Steps that leave the children and their table alone.                    *)
LEMMA ResQuiet ==
  ASSUME ResInv, ResTypeOK', ClockInv', rpc = "idle" <=> rpc' = "idle",
         UNCHANGED <<child, st, cfds, stale>>
  PROVE  ResInv'
<1>1. FdsInv'
  BY DEF ResInv, FdsInv
<1>2. Current' = Current
  BY DEF Current
<1>3. TableInv'
  BY <1>2 DEF ResInv, TableInv, TableOK
<1> QED BY <1>1, <1>3, Zenon DEF ResInv

(* The daemon polls, reads, kills and sleeps.                              *)
LEMMA ResWaits ==
  ASSUME ResInv, Res!Poll \/ Res!Read \/ Res!StopReading \/ Res!PollInterrupted \/ Res!Kill \/ Res!Tick
  PROVE  ResInv' /\ rpc # "idle" /\ rpc' # "idle"
<1> USE Consts
<1>0. ResTypeOK /\ ClockInv
  BY DEF ResInv
<1>1. CASE Res!Poll
  <2>1. /\ rpc = "poll" /\ rpc' \in {"kill", "polling"} /\ until' \in {until, AC_REPORT_TIMEOUT_SEC}
        /\ UNCHANGED <<t, rt, child, st, cfds, pipe, rsent, buf, out, stale>>
    BY <1>1 DEF Res!Poll, Res!PollUntil, Res!childVars, Res!pipeVars
  <2>2. ResTypeOK' /\ ClockInv'
    BY <1>0, <2>1 DEF ResTypeOK, ClockInv
  <2> QED BY <2>1, <2>2, ResQuiet
<1>2. CASE Res!Read
  <2>1. /\ rpc = "polling" /\ rpc' = "poll" /\ pipe # <<>>
        /\ UNCHANGED <<t, until, rt, child, st, cfds, rsent, stale>>
    BY <1>2 DEF Res!Read, Res!childVars, Res!timeVars
  <2>2. PICK k \in 1 .. Res!Least(2 - Len(buf), Len(pipe)) :
          Res!Accept(SubSeq(pipe, 1, k)) /\ pipe' = SubSeq(pipe, k + 1, Len(pipe))
    BY <1>2 DEF Res!Read
  <2>3. pipe \in Seq(Unit) /\ buf \in Seq(Unit) /\ Len(pipe) \in Nat /\ Len(buf) \in Nat
    BY <1>0 DEF ResTypeOK
  <2>4. k \in 1 .. Len(pipe)
    BY <2>2, <2>3 DEF Res!Least
  <2>5. SubSeq(pipe, 1, k) \in Seq(Unit) /\ pipe' \in Seq(Unit)
    BY <2>2, <2>3, <2>4
  <2>6. buf \o SubSeq(pipe, 1, k) \in Seq(Unit)
    BY <2>3, <2>5
  <2>7. buf' \in Seq(Unit) /\ out' \in Seq(Seq(Unit))
    <3>1. out \in Seq(Seq(Unit))
      BY <1>0 DEF ResTypeOK
    <3> DEFINE b == buf \o SubSeq(pipe, 1, k)
    <3>2. IF Len(b) = 2 THEN out' = Append(out, b) /\ buf' = <<>> ELSE buf' = b /\ out' = out
      BY <2>2 DEF Res!Accept
    <3> HIDE DEF b
    <3>3. b \in Seq(Unit)
      BY <2>6 DEF b
    <3>4. Append(out, b) \in Seq(Seq(Unit)) /\ <<>> \in Seq(Unit)
      BY <3>1, <3>3
    <3> QED BY Zenon, <3>1, <3>2, <3>3, <3>4
  <2>8. ResTypeOK' /\ ClockInv'
    BY <1>0, <2>1, <2>5, <2>7 DEF ResTypeOK, ClockInv
  <2> QED BY <2>1, <2>8, ResQuiet
<1>3. CASE Res!StopReading \/ Res!PollInterrupted \/ Res!Kill
  <2>1. /\ rpc \in {"polling", "kill"} /\ rpc' \in {"kill", "reap"}
        /\ UNCHANGED <<t, until, rt, child, st, cfds, pipe, rsent, buf, out, stale>>
    BY <1>3 DEF Res!StopReading, Res!PollInterrupted, Res!Kill, Res!childVars, Res!pipeVars, Res!timeVars
  <2>2. ResTypeOK' /\ ClockInv'
    BY <1>0, <2>1 DEF ResTypeOK, ClockInv
  <2> QED BY <2>1, <2>2, ResQuiet
<1>4. CASE Res!Tick
  <2>1. /\ rpc \in {"polling", "nap"} /\ rpc' \in {"polling", "reap"}
        /\ \/ t < until /\ t' = t + 1 /\ rt' = rt
           \/ rpc = "nap" /\ rt' = rt + 1 /\ t' = t
        /\ UNCHANGED <<until, child, st, cfds, pipe, rsent, buf, out, stale>>
    BY <1>4 DEF Res!Tick, Res!childVars, Res!pipeVars
  <2>2. ResTypeOK' /\ ClockInv'
    BY <1>0, <2>1 DEF ResTypeOK, ClockInv
  <2> QED BY <2>1, <2>2, ResQuiet
<1> QED BY <1>1, <1>2, <1>3, <1>4, Zenon

(* A call: a sweep, and a fork if a slot is free.                          *)
LEMMA ResForks ==
  ASSUME ResInv, Res!Fork PROVE ResInv' /\ rpc' # "idle"
<1>0. ResTypeOK /\ ClockInv /\ FdsInv /\ TableInv
  BY DEF ResInv
<1>1. /\ rpc = "idle" /\ child < MaxForks /\ \E i \in Res!Table : Res!Swept[i] = 0
      /\ child' = child + 1 /\ stale' = Res!Swept /\ st' = [Res!Reaped EXCEPT ![child + 1] = "new"]
      /\ cfds' = [cfds EXCEPT ![child + 1] = AllFds] /\ rpc' = "poll"
      /\ t' = 0 /\ rt' = 0 /\ until' = 0 /\ pipe' = <<>> /\ rsent' = 0 /\ buf' = <<>> /\ out' = <<>>
  BY DEF Res!Fork, Res!stale_resolver_slot_free, AllFds
<1>2. TableOK(Res!Swept, Res!Reaped, child, 0)
  BY <1>0, <1>1, SweepTable DEF TableInv, Current
<1>3. TableOK(stale', st', child', Current')
  <2>1. TableOK(Res!Swept, [Res!Reaped EXCEPT ![child + 1] = "new"], child + 1, child + 1)
    BY Zenon, <1>0, <1>1, <1>2, SweepTyped, TableFork DEF ResTypeOK
  <2>2. Current' = child + 1
    BY <1>1 DEF Current
  <2> QED BY <1>1, <2>1, <2>2
<1>4. child \in Nat /\ child + 1 \in Res!Forks /\ child + 1 \in 0 .. MaxForks
  BY <1>0, <1>1, Consts DEF ResTypeOK, Res!Forks
<1>5. st' \in [Res!Forks -> Alive \cup {"none", "reaped"}] /\ cfds' \in [Res!Forks -> SUBSET AllFds]
  BY Zenon, <1>0, <1>1, SweepTyped DEF ResTypeOK, Alive
<1>6. ResTypeOK'
  BY <1>0, <1>1, <1>4, <1>5, SweepTyped DEF ResTypeOK
<1>7. ClockInv'
  BY <1>1, Consts DEF ClockInv
<1>8. FdsInv'
  <2>1. \A c \in Res!Forks \ {child + 1} : cfds'[c] = cfds[c] /\ st'[c] = Res!Reaped[c]
    BY <1>0, <1>1, <1>4, SweepTyped DEF ResTypeOK
  <2>2. st'[child + 1] = "new" /\ cfds'[child + 1] = AllFds
    BY <1>0, <1>1, <1>4, SweepTyped DEF ResTypeOK
  <2>3. \A c \in Res!Forks : Res!Reaped[c] \in Alive => Res!Reaped[c] = st[c]
    BY <1>0, SweepTyped
  <2> QED BY <1>0, <2>1, <2>2, <2>3 DEF FdsInv, Alive
<1> QED BY <1>1, <1>3, <1>6, <1>7, <1>8 DEF ResInv, TableInv

(* A refused call only sweeps.                                             *)
LEMMA ResRefuses ==
  ASSUME ResInv, Res!Refuse PROVE ResInv' /\ rpc' = "idle"
<1>0. ResTypeOK /\ ClockInv /\ FdsInv /\ TableInv
  BY DEF ResInv
<1>1. /\ rpc = "idle" /\ stale' = Res!Swept /\ st' = Res!Reaped
      /\ UNCHANGED <<rpc, t, until, rt, child, cfds, pipe, rsent, buf, out>>
  BY DEF Res!Refuse, Res!reap_stale_resolvers, Res!timeVars, Res!pipeVars
<1>2. TableInv'
  <2>1. TableOK(Res!Swept, Res!Reaped, child, Current)
    BY <1>0, SweepTable DEF TableInv
  <2>2. Current' = Current
    BY <1>1 DEF Current
  <2> QED BY <1>1, <2>1, <2>2 DEF TableInv
<1>3. ResTypeOK' /\ ClockInv'
  BY <1>0, <1>1, SweepTyped DEF ResTypeOK, ClockInv
<1>4. FdsInv'
  <2>1. \A c \in Res!Forks : Res!Reaped[c] \in Alive => Res!Reaped[c] = st[c]
    BY <1>0, SweepTyped
  <2> QED BY <1>0, <1>1, <2>1 DEF FdsInv, Alive
<1> QED BY <1>1, <1>2, <1>3, <1>4, Zenon DEF ResInv

(* The wait for the child's end: it is reaped, or the daemon sleeps or     *)
(* gives up.                                                               *)
LEMMA ResReaps ==
  ASSUME ResInv, Res!waitpid_timeout PROVE ResInv' /\ rpc # "idle"
<1>0. ResTypeOK /\ ClockInv /\ FdsInv /\ TableInv
  BY DEF ResInv
<1>1. /\ rpc = "reap" /\ UNCHANGED <<t, until, rt, child, cfds, pipe, rsent, buf, out, stale>>
      /\ IF st[child] = "zombie"
         THEN st' = [st EXCEPT ![child] = "reaped"] /\ rpc' = "idle"
         ELSE rpc' = (IF rt >= ReapTimeout THEN "abandon" ELSE "nap") /\ st' = st
  BY DEF Res!waitpid_timeout, Res!timeVars, Res!pipeVars
<1>2. CASE st[child] = "zombie"
  <2>1. TableOK(stale, st, child, child)
    BY <1>0, <1>1 DEF TableInv, Current
  <2>2. child \in Res!Forks
    <3>1. child # 0
      BY <1>0, <1>1 DEF ResTypeOK
    <3> QED BY <1>0, <3>1, Consts DEF ResTypeOK, Res!Forks
  <2>3. TableOK(stale, [st EXCEPT ![child] = "reaped"], child, 0)
    BY Zenon, <1>0, <2>1, <2>2, TableReap DEF ResTypeOK
  <2>4. Current' = 0
    BY <1>1, <1>2 DEF Current
  <2>5. TableInv'
    BY Zenon, <1>1, <1>2, <2>3, <2>4 DEF TableInv
  <2>6. ResTypeOK' /\ ClockInv'
    BY Zenon, <1>0, <1>1, <1>2 DEF ResTypeOK, ClockInv
  <2>7. FdsInv'
    BY <1>0, <1>1, <1>2 DEF FdsInv, ResTypeOK
  <2> QED BY <1>1, <2>5, <2>6, <2>7 DEF ResInv
<1>3. CASE st[child] # "zombie"
  <2>1. ResTypeOK' /\ ClockInv'
    BY <1>0, <1>1, <1>3, Consts DEF ResTypeOK, ClockInv
  <2>2. rpc' # "idle" /\ UNCHANGED <<child, st, cfds, stale>>
    BY <1>1, <1>3
  <2> QED BY <1>1, <2>1, <2>2, ResQuiet
<1> QED BY <1>2, <1>3

(* The child is left to the table, in the slot that was kept for it.       *)
LEMMA ResAbandons ==
  ASSUME ResInv, Res!abandon_resolver_child PROVE ResInv' /\ rpc # "idle"
<1> DEFINE free == {i \in Res!Table : Res!Swept[i] = 0}
           k == CHOOSE i \in free : \A j \in free : i <= j
<1>0. ResTypeOK /\ ClockInv /\ FdsInv /\ TableInv
  BY DEF ResInv
<1>1. /\ rpc = "abandon" /\ rpc' = "idle" /\ st' = Res!Reaped
      /\ stale' = IF free = {} THEN Res!Swept ELSE [Res!Swept EXCEPT ![k] = child]
      /\ UNCHANGED <<t, until, rt, child, cfds, pipe, rsent, buf, out>>
  BY DEF Res!abandon_resolver_child, Res!timeVars, Res!pipeVars
<1>2. TableOK(stale, st, child, child)
  BY <1>0, <1>1 DEF TableInv, Current
<1>3. TableOK(Res!Swept, Res!Reaped, child, child)
  BY <1>0, <1>2, SweepTable
<1>4. child \in Res!Forks
  <2>1. child # 0
    BY <1>0, <1>1 DEF ResTypeOK
  <2> QED BY <1>0, <2>1, Consts DEF ResTypeOK, Res!Forks
<1>5. free # {} /\ free \in SUBSET Nat
  <2>1. \E i \in Res!Table : Res!Swept[i] = 0
    BY <1>3, <1>4, Consts DEF TableOK, Res!Forks
  <2> QED BY <2>1, Consts DEF Res!Table
<1>6. k \in free
  <2>1. \E i \in free : \A j \in free : i <= j
    BY Zenon, <1>5, LeastExists
  <2> QED BY <2>1, Zenon
<1>7. k \in Res!Table /\ Res!Swept[k] = 0
  BY <1>6
<1> HIDE DEF free, k
<1>8. stale' = [Res!Swept EXCEPT ![k] = child]
  BY Zenon, <1>1, <1>5
<1>9. TableInv'
  <2>1. TableOK([Res!Swept EXCEPT ![k] = child], Res!Reaped, child, 0)
    BY Zenon, <1>0, <1>3, <1>4, <1>7, SweepTyped, TableAbandon
  <2>2. Current' = 0
    BY <1>1 DEF Current
  <2> QED BY Zenon, <1>1, <1>8, <2>1, <2>2 DEF TableInv
<1>10. ResTypeOK' /\ ClockInv'
  <2>1. stale' \in [Res!Table -> 0 .. MaxForks]
    BY <1>0, <1>7, <1>8, SweepTyped DEF ResTypeOK
  <2> QED BY <1>0, <1>1, <2>1, SweepTyped DEF ResTypeOK, ClockInv
<1>11. FdsInv'
  <2>1. \A c \in Res!Forks : Res!Reaped[c] \in Alive => Res!Reaped[c] = st[c]
    BY <1>0, SweepTyped
  <2> QED BY Zenon, <1>0, <1>1, <2>1 DEF FdsInv, Alive
<1> QED BY <1>1, <1>9, <1>10, <1>11 DEF ResInv

(* However close_range() fails, only the pipe stays open in the child.     *)
LEMMA ClosesAll ==
  ASSUME NEW r1 \in BOOLEAN, NEW r2 \in BOOLEAN
  PROVE  Res!ac_close_extra_fds(AllFds, "pipe", r1, r2) = Res!Std \cup {"pipe"}
BY DEF Res!ac_close_extra_fds, Res!AfterRanges, AllFds, Res!Std, Res!Low, Res!High

(* The children's own steps.                                               *)
LEMMA ResChildren ==
  ASSUME ResInv, Res!Children PROVE ResInv' /\ rpc' = rpc
<1>0. ResTypeOK /\ ClockInv /\ FdsInv /\ TableInv
  BY DEF ResInv
<1>1. PICK c \in Res!Forks : \/ Res!ChildCloses(c) \/ Res!ChildSends(c) \/ Res!ChildEnds(c)
                             \/ Res!Wedge(c) \/ Res!Unwedge(c)
  BY Zenon DEF Res!Children
<1>2. ASSUME NEW a \in Alive, st[c] \in Alive, st' = [st EXCEPT ![c] = a],
             NEW F \in SUBSET AllFds, cfds' = [cfds EXCEPT ![c] = F],
             a = "new" => F = AllFds, a = "resolving" => F = Res!Std \cup {"pipe"},
             UNCHANGED <<rpc, t, until, rt, child, pipe, rsent, buf, out, stale>>
      PROVE  ResInv' /\ rpc' = rpc
  <2>1. TableInv'
    <3>1. TableOK(stale, [st EXCEPT ![c] = a], child, Current)
      BY Zenon, <1>0, <1>2, TableAlive DEF TableInv, ResTypeOK
    <3>2. Current' = Current
      BY <1>2 DEF Current
    <3> QED BY <1>2, <3>1, <3>2 DEF TableInv
  <2>2. ResTypeOK' /\ ClockInv'
    BY <1>0, <1>2 DEF ResTypeOK, ClockInv
  <2>3. FdsInv'
    <3>1. st'[c] = a /\ cfds'[c] = F /\ \A d \in Res!Forks \ {c} : st'[d] = st[d] /\ cfds'[d] = cfds[d]
      BY <1>0, <1>2 DEF ResTypeOK
    <3> QED BY <1>0, <1>2, <3>1 DEF FdsInv
  <2> QED BY <1>2, <2>1, <2>2, <2>3, Zenon DEF ResInv
<1>3. CASE Res!ChildCloses(c)
  <2>1. PICK r1, r2 \in BOOLEAN :
          cfds' = [cfds EXCEPT ![c] = Res!ac_close_extra_fds(cfds[c], "pipe", r1, r2)]
    BY Zenon, <1>3 DEF Res!ChildCloses
  <2>2. /\ st[c] = "new" /\ st' = [st EXCEPT ![c] = "resolving"]
        /\ UNCHANGED <<rpc, t, until, rt, child, pipe, rsent, buf, out, stale>>
    BY <1>3 DEF Res!ChildCloses, Res!timeVars, Res!pipeVars
  <2>3. cfds' = [cfds EXCEPT ![c] = Res!Std \cup {"pipe"}]
    BY Zenon, <1>0, <2>1, <2>2, ClosesAll DEF FdsInv
  <2>4. Res!Std \cup {"pipe"} \in SUBSET AllFds /\ "resolving" \in Alive /\ st[c] \in Alive
    BY <2>2 DEF AllFds, Alive
  <2> QED BY Zenon, <1>2, <2>2, <2>3, <2>4
<1>4. CASE Res!ChildEnds(c)
  <2>1. /\ st[c] \in {"new", "resolving"} /\ st' = [st EXCEPT ![c] = "zombie"]
        /\ cfds' = [cfds EXCEPT ![c] = {}]
        /\ UNCHANGED <<rpc, t, until, rt, child, pipe, rsent, buf, out, stale>>
    BY <1>4 DEF Res!ChildEnds, Res!timeVars, Res!pipeVars
  <2>2. {} \in SUBSET AllFds /\ "zombie" \in Alive /\ st[c] \in Alive
    BY <2>1 DEF Alive
  <2> QED BY Zenon, <1>2, <2>1, <2>2
<1>5. CASE Res!ChildSends(c)
  <2>1. /\ rsent' = rsent + 1 /\ pipe' = pipe \o <<<<rsent + 1, 1>>, <<rsent + 1, 2>>>>
        /\ UNCHANGED <<rpc, t, until, rt, child, st, cfds, buf, out, stale>>
    BY <1>5 DEF Res!ChildSends, Res!timeVars, Res!childVars
  <2>2. pipe' \in Seq(Unit) /\ rsent' \in Nat
    <3>1. rsent \in Nat /\ pipe \in Seq(Unit)
      BY <1>0 DEF ResTypeOK
    <3>2. <<rsent + 1, 1>> \in Unit /\ <<rsent + 1, 2>> \in Unit
      BY <3>1 DEF Unit
    <3>3. <<<<rsent + 1, 1>>, <<rsent + 1, 2>>>> \in Seq(Unit)
      BY <3>2
    <3> QED BY <2>1, <3>1, <3>3
  <2>3. ResTypeOK' /\ ClockInv'
    BY <1>0, <2>1, <2>2 DEF ResTypeOK, ClockInv
  <2> QED BY <2>1, <2>3, ResQuiet
<1>6. CASE Res!Wedge(c) \/ Res!Unwedge(c)
  <2>1. UNCHANGED <<rpc, t, until, rt, child, st, cfds, pipe, rsent, buf, out, stale>>
    BY <1>6 DEF Res!Wedge, Res!Unwedge, Res!timeVars, Res!pipeVars
  <2>2. ResTypeOK' /\ ClockInv'
    BY <1>0, <2>1 DEF ResTypeOK, ClockInv
  <2> QED BY <2>1, <2>2, ResQuiet
<1> QED BY <1>1, <1>3, <1>4, <1>5, <1>6, Zenon

-----------------------------------------------------------------------------
(* The report and the resolver together.                                   *)
LEMMA DelInit == Start => DelInv
<1> SUFFICES ASSUME Start PROVE DelInv
  OBVIOUS
<1>1. Init /\ asked = FALSE /\ Res!Init
  BY DEF Start
<1>2. RepInv
  <2>1. TimeBounded <=> 0 <= Cost(2 + 0 + REQ) + ReapTimeout
    BY <1>1 DEF Init, TimeBounded, Cost
  <2>2. Cost(2 + 0 + REQ) \in Nat
    BY CostFacts, Consts
  <2>3. TimeInv
    BY <1>1, <2>1, <2>2, Consts DEF Init, TimeInv
  <2> QED BY <1>1, <2>3 DEF Init, RepInv, RepTypeOK, SockInv, StoreInv
<1>3. ResInv
  <2>1. /\ rpc = "idle" /\ t = 0 /\ until = 0 /\ rt = 0 /\ child = 0
        /\ st = [c \in Res!Forks |-> "none"] /\ cfds = [c \in Res!Forks |-> {}]
        /\ pipe = <<>> /\ rsent = 0 /\ buf = <<>> /\ out = <<>> /\ stale = [i \in Res!Table |-> 0]
    BY <1>1 DEF Res!Init
  <2>2. ResTypeOK
    BY <2>1, Consts DEF ResTypeOK
  <2>3. ClockInv /\ FdsInv
    BY <2>1, Consts DEF ClockInv, FdsInv
  <2>4. Current = 0
    BY <2>1 DEF Current
  <2>5. TableInv
    BY <2>1, <2>4, Consts DEF TableInv, TableOK, Alive, Res!Forks
  <2> QED BY <2>2, <2>3, <2>5 DEF ResInv
<1>4. LinkInv
  BY Zenon, <1>1 DEF LinkInv, Res!Init
<1> QED BY <1>2, <1>3, <1>4 DEF DelInv

(* Nothing of either part changes.                                         *)
LEMMA RepSame == ASSUME RepInv, UNCHANGED vars PROVE RepInv'
<1>1. UNCHANGED <<pc, naddrs, ai, fds, sent, outcome, conn, got, stored, reply, spent>>
  BY DEF vars
<1>2. RepTypeOK' /\ SockInv' /\ StoreInv'
  BY <1>1 DEF RepInv, RepTypeOK, SockInv, StoreInv
<1>3. TimeInv'
  BY <1>1 DEF RepInv, TimeInv, TimeBounded
<1> QED BY <1>2, <1>3, Zenon DEF RepInv

(* The same for the resolver.                                              *)
LEMMA ResSame == ASSUME ResInv, UNCHANGED resVars PROVE ResInv'
<1>1. UNCHANGED <<rpc, t, until, rt, child, st, cfds, pipe, rsent, buf, out, stale>>
  BY DEF resVars
<1>2. ResTypeOK' /\ ClockInv'
  BY <1>1 DEF ResInv, ResTypeOK, ClockInv
<1> QED BY <1>1, <1>2, ResQuiet

(* A step of the report itself.                                            *)
LEMMA DelReport == ASSUME DelInv, ReportStep PROVE DelInv'
<1>0. RepInv /\ ResInv /\ LinkInv
  BY DEF DelInv
<1>1. (Begin \/ Attempt \/ Server) /\ asked' = asked /\ UNCHANGED resVars
  BY DEF ReportStep
<1>2. RepInv'
  BY <1>0, <1>1, RepStore, RepTime, Zenon DEF RepInv
<1>3. ResInv'
  BY <1>0, <1>1, ResSame, Zenon
<1>4. rpc' = rpc
  BY <1>1, Zenon DEF resVars
<1>5. pc = "resolve" => pc' = "resolve"
  <2>1. Begin \/ Attempt => pc # "resolve"
    BY DEF Begin, Attempt, Connected, ConnectFails, NoAddressLeft, RequestTooLarge, Write, WriteFails,
           Written, ReadReply, ReadFails
  <2>2. Server => pc' = pc
    BY Zenon DEF Server, ServerHandles, ServerDies
  <2> QED BY <1>1, <2>1, <2>2, Zenon
<1> QED BY <1>0, <1>1, <1>2, <1>3, <1>4, <1>5, Zenon DEF DelInv, LinkInv

(* ac_report() calls ac_resolve_timeout().                                 *)
LEMMA DelCall == ASSUME DelInv, CallResolver PROVE DelInv'
<1>0. RepInv /\ ResInv /\ LinkInv
  BY DEF DelInv
<1>1. pc = "resolve" /\ ~asked
  BY DEF CallResolver
<1>2. CASE Res!Fork /\ asked' = TRUE /\ UNCHANGED vars
  <2>1. RepInv' /\ ResInv'
    BY <1>0, <1>2, RepSame, ResForks, Zenon
  <2>2. LinkInv'
    BY <1>1, <1>2 DEF LinkInv, vars
  <2> QED BY <2>1, <2>2, Zenon DEF DelInv
<1>3. CASE Res!Refuse /\ Resolved(0, 0) /\ asked' = asked
  <2>0. 0 \in Nat /\ 0 <= AC_REPORT_TIMEOUT_SEC + ReapTimeout
    BY Consts
  <2>1. RepInv'
    BY <1>0, <1>3, <2>0, RepResolved
  <2>2. ResInv' /\ rpc' = "idle"
    BY <1>0, <1>3, ResRefuses, Zenon
  <2>3. LinkInv'
    BY <1>0, <1>1, <1>3, <2>2 DEF LinkInv
  <2> QED BY <2>1, <2>2, <2>3, Zenon DEF DelInv
<1> QED BY <1>2, <1>3, Zenon DEF CallResolver

(* The daemon inside ac_resolve_timeout().                                 *)
LEMMA DelResolving == ASSUME DelInv, Resolving PROVE DelInv'
<1>0. RepInv /\ ResInv /\ LinkInv
  BY DEF DelInv
<1>1. asked /\ (Res!Daemon \/ Res!PollInterrupted \/ Res!Tick) /\ UNCHANGED vars /\ asked' = asked
  BY Zenon DEF Resolving
<1>2. ResInv'
  BY <1>0, <1>1, ResWaits, ResReaps, ResAbandons, Zenon DEF Res!Daemon
<1>3. RepInv' /\ pc' = pc
  BY <1>0, <1>1, RepSame, Zenon DEF vars
<1> QED BY <1>0, <1>1, <1>2, <1>3, Zenon DEF DelInv, LinkInv

(* It returns to ac_report() with the addresses it got.                    *)
LEMMA DelReturns == ASSUME DelInv, ResolverReturns PROVE DelInv'
<1>0. RepInv /\ ResInv /\ LinkInv /\ ResTypeOK /\ ClockInv
  BY DEF DelInv, ResInv
<1>1. /\ rpc = "idle" /\ asked' = FALSE /\ Resolved(Len(out), t + rt)
      /\ t' = 0 /\ until' = 0 /\ rt' = 0 /\ pipe' = <<>> /\ rsent' = 0 /\ buf' = <<>> /\ out' = <<>>
      /\ UNCHANGED <<rpc, child, st, cfds, stale>>
  BY DEF ResolverReturns
<1>2. Len(out) \in Nat /\ t + rt \in Nat /\ t + rt <= AC_REPORT_TIMEOUT_SEC + ReapTimeout
  BY <1>0, Consts DEF ResTypeOK, ClockInv
<1>3. RepInv'
  BY <1>0, <1>1, <1>2, RepResolved, Zenon
<1>4. ResTypeOK' /\ ClockInv'
  BY <1>0, <1>1, Consts DEF ResTypeOK, ClockInv
<1>5. ResInv'
  BY <1>0, <1>1, <1>4, ResQuiet
<1>6. LinkInv'
  BY Zenon, <1>1 DEF LinkInv
<1> QED BY <1>3, <1>5, <1>6, Zenon DEF DelInv

(* Every step keeps the invariant.                                         *)
LEMMA DelStep == DelInv /\ [Next]_allVars => DelInv'
<1> SUFFICES ASSUME DelInv, [Next]_allVars PROVE DelInv'
  OBVIOUS
<1>0. RepInv /\ ResInv /\ LinkInv
  BY DEF DelInv
<1>1. CASE Children
  <2>1. ResInv' /\ rpc' = rpc
    BY <1>0, <1>1, ResChildren, Zenon DEF Children
  <2>2. RepInv' /\ pc' = pc /\ asked' = asked
    BY <1>0, <1>1, RepSame, Zenon DEF Children, vars
  <2> QED BY <1>0, <2>1, <2>2, Zenon DEF DelInv, LinkInv
<1>2. CASE UNCHANGED allVars
  <2>1. UNCHANGED vars /\ asked' = asked /\ UNCHANGED resVars
    BY <1>2, Zenon DEF allVars
  <2>2. pc' = pc /\ rpc' = rpc
    BY <2>1, Zenon DEF vars, resVars
  <2> QED BY <1>0, <2>1, <2>2, RepSame, ResSame, Zenon DEF DelInv, LinkInv
<1> QED BY <1>1, <1>2, DelReport, DelCall, DelResolving, DelReturns, Zenon DEF Next

(* The report's and the resolver's state while reports are sent: the       *)
(* invariant the next four theorems rest on.                               *)
THEOREM DelInvariant == Spec => []DelInv
BY DelInit, DelStep, PTL DEF Spec

(* A report that is not logged as failed has been stored by the server, in *)
(* ac_report() and for every number of addresses, pieces and calls.        *)
THEOREM SilentReportsStored == Spec => []SilentMeansStored
<1>1. DelInv => SilentMeansStored
  BY DEF DelInv, RepInv, StoreInv, SilentMeansStored
<1> QED BY <1>1, DelInvariant, PTL

(* One call of ac_report() stores at most one report.                      *)
THEOREM ReportsStoredOnce == Spec => []StoredOnce
<1>1. DelInv => StoredOnce
  BY DEF DelInv, RepInv, StoreInv, StoredOnce
<1> QED BY <1>1, DelInvariant, PTL

(* A call of ac_report() ends within the timeouts of its waits.            *)
THEOREM ReportTimeBounded == Spec => []TimeBounded
<1>1. DelInv => TimeBounded
  BY DEF DelInv, RepInv, TimeInv
<1> QED BY <1>1, DelInvariant, PTL

(* No socket stays open between attempts, an abandoned child of            *)
(* ac_resolve_timeout() is in one slot of the table until it is reaped,    *)
(* and it holds no descriptor of the daemon.                               *)
THEOREM ReportsLeaveNothing == Spec => []NothingLeftBehind
<1>1. DelInv => NoSocketLeak
  BY DEF DelInv, RepInv, RepTypeOK, SockInv, NoSocketLeak
<1>2. DelInv => Res!ChildHoldsNothing
  BY DEF DelInv, ResInv, FdsInv, Res!ChildHoldsNothing
<1>3. DelInv => Res!NoChildForgotten
  <2> SUFFICES ASSUME DelInv, rpc = "idle", NEW c \in Res!Forks, st[c] \notin {"none", "reaped"}
               PROVE  Res!Cardinality({i \in Res!Table : stale[i] = c}) = 1
    BY Zenon DEF Res!NoChildForgotten, Res!Unreaped
  <2>0. ResTypeOK /\ TableOK(stale, st, child, 0)
    BY DEF DelInv, ResInv, TableInv, Current
  <2>1. st[c] \in Alive /\ c # 0 /\ c > 0
    BY <2>0, Consts DEF ResTypeOK, Res!Forks
  <2>2. PICK i \in Res!Table : stale[i] = c
    BY <2>0, <2>1 DEF TableOK
  <2>3. {j \in Res!Table : stale[j] = c} = {i}
    BY <2>0, <2>1, <2>2 DEF TableOK
  <2>4. Cardinality({i}) = 1
    BY Zenon, FS_Singleton
  <2>5. Res!Cardinality({i}) = Cardinality({i})
    BY DEF Res!Cardinality, Cardinality, Res!IsFiniteSet, IsFiniteSet
  <2> QED BY <2>3, <2>4, <2>5, Zenon
<1> QED BY <1>1, <1>2, <1>3, DelInvariant, PTL DEF NothingLeftBehind

-----------------------------------------------------------------------------
(* The server a report is sent to (ReportServer), for any number of        *)
(* connections and any limit.                                              *)
CONSTANTS Conns, max_connections, INTERVAL, MaxTime
VARIABLES cst, answer, slots, stop, clock, _overload_log_last, suppressed
Srv == INSTANCE ReportServer WITH st <- cst, last <- _overload_log_last

SrvStates == {"new", "accepted", "starting", "running", "ended", "rejected", "failed", "closed"}
SrvInv == cst \in [Conns -> SrvStates] /\ slots \in Nat /\ slots + Cardinality(Srv!Holding) = max_connections

(* The instance counts as FiniteSets does.                                 *)
LEMMA SrvCounts ==
  ASSUME NEW S PROVE (Srv!IsFiniteSet(S) <=> IsFiniteSet(S)) /\ Srv!Cardinality(S) = Cardinality(S)
BY DEF Srv!Cardinality, Srv!IsFiniteSet, Cardinality, IsFiniteSet

(* A connection that takes a slot adds one to those held, one that gives   *)
(* it back removes one.                                                    *)
LEMMA HoldingCounts ==
  ASSUME Srv!ConnsAssumption, NEW c \in Conns
  PROVE  /\ IsFiniteSet(Srv!Holding) /\ Cardinality(Srv!Holding) \in Nat /\ max_connections \in Nat
         /\ c \notin Srv!Holding => Cardinality(Srv!Holding \cup {c}) = Cardinality(Srv!Holding) + 1
         /\ c \in Srv!Holding => Cardinality(Srv!Holding \ {c}) = Cardinality(Srv!Holding) - 1
<1>1. IsFiniteSet(Conns) /\ max_connections \in Nat
  BY SrvCounts DEF Srv!ConnsAssumption
<1>2. IsFiniteSet(Srv!Holding)
  BY <1>1, FS_Subset DEF Srv!Holding
<1> QED BY <1>1, <1>2, FS_CardinalityType, FS_AddElement, FS_RemoveElement

(* Every step keeps the slots balanced.                                    *)
LEMMA SrvStep == ASSUME Srv!ConnsAssumption, SrvInv, [Srv!Next]_(Srv!vars) PROVE SrvInv'
<1>0. cst \in [Conns -> SrvStates] /\ slots \in Nat /\ slots + Cardinality(Srv!Holding) = max_connections
  BY DEF SrvInv
<1>1. ASSUME NEW c \in Conns, Srv!Acquire(c) PROVE SrvInv'
  <2>1. cst[c] = "accepted" /\ slots > 0 /\ slots' = slots - 1 /\ cst' = [cst EXCEPT ![c] = "starting"]
    BY <1>1 DEF Srv!Acquire, Srv!Free, Srv!To
  <2>2. Srv!Holding' = Srv!Holding \cup {c} /\ c \notin Srv!Holding /\ cst' \in [Conns -> SrvStates]
    BY <1>0, <2>1 DEF Srv!Holding, SrvStates
  <2> QED BY <1>0, <2>1, <2>2, HoldingCounts DEF SrvInv
<1>2. ASSUME NEW c \in Conns, Srv!StartFails(c) \/ Srv!Release(c) PROVE SrvInv'
  <2>1. PICK z \in {"failed", "closed"} :
          cst[c] \in {"starting", "ended"} /\ slots' = slots + 1 /\ cst' = [cst EXCEPT ![c] = z]
    BY <1>2 DEF Srv!StartFails, Srv!Release, Srv!To
  <2>2. Srv!Holding' = Srv!Holding \ {c} /\ c \in Srv!Holding /\ cst' \in [Conns -> SrvStates]
    BY <1>0, <2>1 DEF Srv!Holding, SrvStates
  <2> QED BY <1>0, <2>1, <2>2, HoldingCounts DEF SrvInv
<1>3. ASSUME NEW c \in Conns,
             \/ Srv!Accept(c) \/ Srv!Reject(c) \/ Srv!Start(c) \/ Srv!Handle(c)
             \/ Srv!_deadline_exceeded(c)
      PROVE  SrvInv'
  <2>1. PICK z \in SrvStates :
          /\ slots' = slots /\ cst' = [cst EXCEPT ![c] = z]
          /\ \/ cst[c] \in {"new", "accepted"} /\ z \in {"accepted", "rejected"}
             \/ cst[c] \in {"starting", "running"} /\ z \in {"running", "ended"}
    BY <1>3 DEF Srv!Accept, Srv!Reject, Srv!Start, Srv!Handle, Srv!_deadline_exceeded, Srv!To, SrvStates
  <2>2. Srv!Holding' = Srv!Holding /\ cst' \in [Conns -> SrvStates]
    BY <1>0, <2>1 DEF Srv!Holding
  <2> QED BY <1>0, <2>1, <2>2 DEF SrvInv
<1>4. CASE Srv!LeaveLoop \/ Srv!Sigterm \/ Srv!server_close \/ Srv!Tick \/ UNCHANGED Srv!vars
  <2>1. cst' = cst /\ slots' = slots
    BY <1>4 DEF Srv!LeaveLoop, Srv!Sigterm, Srv!server_close, Srv!Tick, Srv!vars
  <2> QED BY <1>0, <2>1 DEF SrvInv, Srv!Holding
<1> QED BY <1>1, <1>2, <1>3, <1>4, Zenon DEF Srv!Next, Srv!Loop

(* Initially every slot is free.                                           *)
LEMMA SrvInit == ASSUME Srv!ConnsAssumption, Srv!Init PROVE SrvInv
<1>1. cst = [c \in Conns |-> "new"] /\ slots = max_connections /\ max_connections \in Nat
  BY DEF Srv!Init, Srv!ConnsAssumption
<1>2. Srv!Holding = {}
  BY <1>1 DEF Srv!Holding
<1>3. Cardinality(Srv!Holding) = 0
  BY <1>2, FS_EmptySet
<1> QED BY <1>1, <1>3 DEF SrvInv, SrvStates

(* No slot of _conn_semaphore leaks, however threads fail to start or      *)
(* handlers end.                                                           *)
THEOREM SlotsHeld == ASSUME Srv!ConnsAssumption PROVE Srv!Spec => []Srv!SlotsConserved
<1>1. (Srv!Init => SrvInv) /\ (SrvInv /\ [Srv!Next]_(Srv!vars) => SrvInv')
  BY SrvInit, SrvStep
<1>2. SrvInv => Srv!SlotsConserved
  BY SrvCounts DEF SrvInv, Srv!SlotsConserved
<1> QED BY <1>1, <1>2, PTL DEF Srv!Spec

(* No more than max_connections handlers run at once.                      *)
THEOREM ThreadsHeld == ASSUME Srv!ConnsAssumption PROVE Srv!Spec => []Srv!ThreadsBounded
<1>1. (Srv!Init => SrvInv) /\ (SrvInv /\ [Srv!Next]_(Srv!vars) => SrvInv')
  BY SrvInit, SrvStep
<1>2. SrvInv => Srv!ThreadsBounded
  <2> SUFFICES ASSUME SrvInv PROVE Srv!ThreadsBounded
    OBVIOUS
  <2> DEFINE R == {c \in Conns : cst[c] \in {"running", "ended"}}
  <2>1. R \in SUBSET Srv!Holding
    BY DEF Srv!Holding
  <2>2. IsFiniteSet(Srv!Holding)
    <3>1. IsFiniteSet(Conns)
      BY SrvCounts DEF Srv!ConnsAssumption
    <3> QED BY <3>1, FS_Subset DEF Srv!Holding
  <2>3. Cardinality(R) <= Cardinality(Srv!Holding) /\ Cardinality(R) \in Nat /\ Cardinality(Srv!Holding) \in Nat
    <3>1. IsFiniteSet(R) /\ Cardinality(R) <= Cardinality(Srv!Holding)
      BY <2>1, <2>2, FS_Subset
    <3> QED BY <2>2, <3>1, FS_CardinalityType
  <2>4. Cardinality(R) <= max_connections
    BY <2>3 DEF Srv!ConnsAssumption, SrvInv
  <2> QED BY <2>4, SrvCounts DEF Srv!ThreadsBounded
<1> QED BY <1>1, <1>2, PTL DEF Srv!Spec
=============================================================================
