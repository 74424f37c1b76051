------------------------------ MODULE Delivery ------------------------------
(* ac_report() with the resolver it calls: what a series of reports leaves *)
(* behind when names stop resolving, servers die and children hang.  The   *)
(* daemon has one thread, so a call of ac_resolve_timeout() runs between   *)
(* two steps of the report; the children it left behind run at any time.   *)
EXTENDS Report, Sequences

CONSTANTS
  AC_RESOLVE_MAX, AC_MAX_STALE_RESOLVERS,
  ReapTimeout,        \* the 2000 ms of waitpid_timeout(), in ticks
  MaxRecs, MaxForks   \* bounds on addresses sent by a child, and on children

ASSUME DeliveryAssumption ==
  {AC_REPORT_TIMEOUT_SEC, REQ, MaxReports, AC_RESOLVE_MAX, AC_MAX_STALE_RESOLVERS, ReapTimeout,
   MaxRecs, MaxForks} \subseteq Nat

VARIABLES
  asked,   \* is ac_report() inside ac_resolve_timeout()?
  rpc, t, until, rt, child, st, wedged, killed, cfds, pipe, rsent, buf, out, stale

Res == INSTANCE Resolver WITH
         Timeout <- AC_REPORT_TIMEOUT_SEC, max <- AC_RESOLVE_MAX
resVars == <<rpc, t, until, rt, child, st, wedged, killed, cfds, pipe, rsent, buf, out, stale>>
allVars == <<vars, asked, resVars>>

Start == Init /\ asked = FALSE /\ Res!Init

-----------------------------------------------------------------------------
ReportStep == (Begin \/ Attempt \/ Server) /\ UNCHANGED <<asked, resVars>>

CallResolver ==
  /\ pc = "resolve" /\ ~asked
  /\ \/ Res!Fork /\ asked' = TRUE /\ UNCHANGED vars
     \/ Res!Refuse /\ Resolved(0, 0) /\ UNCHANGED asked
Resolving ==
  /\ asked /\ (Res!Daemon \/ Res!PollInterrupted \/ Res!Tick)
  /\ UNCHANGED <<vars, asked>>
(* The locals of the call go out of scope.                                 *)
ResolverReturns ==
  /\ asked /\ rpc = "idle" /\ asked' = FALSE
  /\ Resolved(Len(out), t + rt)
  /\ t' = 0 /\ until' = 0 /\ rt' = 0 /\ pipe' = <<>> /\ rsent' = 0 /\ buf' = <<>> /\ out' = <<>>
  /\ UNCHANGED <<rpc, child, st, wedged, killed, cfds, stale>>
Children == Res!Children /\ UNCHANGED <<vars, asked>>

Next == ReportStep \/ CallResolver \/ Resolving \/ ResolverReturns \/ Children

(* The daemon runs and time passes; nothing is asked of the children, of   *)
(* the server or of the caller of ac_report().                             *)
DaemonStep ==
  \/ Attempt /\ UNCHANGED <<asked, resVars>>
  \/ CallResolver \/ ResolverReturns
  \/ asked /\ (Res!Daemon \/ Res!Tick) /\ UNCHANGED <<vars, asked>>
Spec == Start /\ [][Next]_allVars /\ WF_allVars(DaemonStep)

-----------------------------------------------------------------------------
(* A call takes at most one timeout and the wait for the child's end to    *)
(* resolve, one timeout for each address, one for each piece of the        *)
(* request and one for the response.                                       *)
TimeBounded ==
  spent <= AC_REPORT_TIMEOUT_SEC * (2 + naddrs + REQ) + ReapTimeout

(* However many reports stall, nothing piles up: no socket stays open      *)
(* between attempts, a child that has not been reaped is in the table, in  *)
(* one slot, and a child that hangs holds no descriptor of the daemon.     *)
NothingLeftBehind == NoSocketLeak /\ Res!NoChildForgotten /\ Res!ChildHoldsNothing

(* A report returns to the monitoring loop though the child hangs for ever *)
(* and the server never answers.                                           *)
ReportReturns == pc # "idle" ~> pc = "idle"
=============================================================================
