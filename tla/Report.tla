------------------------------- MODULE Report -------------------------------
(* ac_report(): one attempt to POST a finding to the report server, made   *)
(* synchronously by the daemon's only thread.  The URL and the key are     *)
(* abstracted to what the checks on them tell apart, the request to REQ    *)
(* units.  A step takes no time or its whole timeout.  The server is       *)
(* external and may die at any point.  Delivery composes this module with  *)
(* Resolver, which supplies the addresses.                                 *)
EXTENDS Integers

CONSTANTS
  AC_REPORT_TIMEOUT_SEC,  \* in ticks
  REQ,
  MaxReports        \* bound on the calls

(* "bracket": an IPv6 literal that is not closed, or without ":port".  An  *)
(* https:// URL is used as an http:// one after a warning.                 *)
Urls == [scheme : {"unix", "http"}, host : {"ok", "empty", "long", "crlf", "bracket"},
         port : {"ok", "missing", "bad"}]
Keys == {"unset", "crlf", "long", "ok"}

VARIABLES
  pc, n,           \* "idle", "resolve", "connect", "request", "read"; calls made
  key,
  naddrs, ai,      \* addresses resolved, the next one to try
  fds, sent,       \* sockets open, units of the request written
  outcome,         \* "none", "skipped", "logged" (as a failure), "ok"
  conn, got, stored, reply,  \* the server's side of the connection
  spent            \* time the call has taken (history)
vars == <<pc, n, key, naddrs, ai, fds, sent, outcome, conn, got, stored, reply, spent>>
srvVars == <<conn, got, stored, reply>>

Init ==
  /\ pc = "idle" /\ n = 0 /\ key = "unset"
  /\ naddrs = 0 /\ ai = 0 /\ fds = 0 /\ sent = 0 /\ outcome = "none"
  /\ conn = "none" /\ got = 0 /\ stored = 0 /\ reply = "none"
  /\ spent = 0

-----------------------------------------------------------------------------
ac_report_parse_url(u) ==
  IF u.scheme = "unix" THEN u.host \notin {"empty", "long"}
  ELSE u.host = "ok" /\ u.port = "ok"

(* Both values go into header lines.                                       *)
ac_header_value_safe(k) == k # "crlf"

Begin ==
  /\ pc = "idle" /\ n < MaxReports /\ n' = n + 1
  /\ \E u \in Urls, k \in Keys :
       /\ key' = k
       /\ IF k = "unset"
          THEN outcome' = "skipped" /\ pc' = "idle" /\ naddrs' = 0
          ELSE IF ~ac_report_parse_url(u) \/ ~ac_header_value_safe(k)
          THEN outcome' = "logged" /\ pc' = "idle" /\ naddrs' = 0
          ELSE /\ outcome' = "none"
               /\ IF u.scheme = "unix" THEN pc' = "connect" /\ naddrs' = 1
                                       ELSE pc' = "resolve" /\ naddrs' = 0
  /\ ai' = 0 /\ sent' = 0 /\ spent' = 0
  /\ conn' = "none" /\ got' = 0 /\ stored' = 0 /\ reply' = "none"
  /\ UNCHANGED fds

Failed == outcome' = "logged" /\ pc' = "idle"
Waits == \E d \in {0, AC_REPORT_TIMEOUT_SEC} : spent' = spent + d

(* ac_resolve_timeout() has returned k addresses after d ticks.            *)
Resolved(k, d) ==
  /\ pc = "resolve" /\ spent' = spent + d /\ naddrs' = k
  /\ IF k = 0 THEN Failed ELSE pc' = "connect" /\ UNCHANGED outcome
  /\ UNCHANGED <<n, key, ai, fds, sent, srvVars>>

Connected ==
  /\ pc = "connect" /\ ai < naddrs
  /\ Waits
  /\ fds' = fds + 1 /\ conn' = "open" /\ got' = 0 /\ pc' = "request"
  /\ UNCHANGED <<n, key, naddrs, ai, sent, outcome, stored, reply>>
(* socket() or ac_connect_timeout() fails: the next address.               *)
ConnectFails ==
  /\ pc = "connect" /\ ai < naddrs
  /\ Waits
  /\ ai' = ai + 1
  /\ UNCHANGED <<pc, n, key, naddrs, fds, sent, outcome, srvVars>>
NoAddressLeft ==
  /\ pc = "connect" /\ ai = naddrs /\ Failed
  /\ UNCHANGED <<n, key, naddrs, ai, fds, sent, srvVars, spent>>

(* A request that does not fit its buffer is not sent.                     *)
RequestTooLarge ==
  /\ pc = "request" /\ sent = 0 /\ key = "long"
  /\ Failed /\ fds' = fds - 1 /\ conn' = "closed"
  /\ UNCHANGED <<n, key, naddrs, ai, sent, got, stored, reply, spent>>
Write ==
  /\ pc = "request" /\ key # "long" /\ conn = "open" /\ sent < REQ
  /\ \E w \in 1 .. REQ - sent : sent' = sent + w /\ got' = got + w
  /\ Waits
  /\ UNCHANGED <<pc, n, key, naddrs, ai, fds, outcome, conn, stored, reply>>
WriteRetries ==
  /\ pc = "request" /\ key # "long" /\ sent < REQ /\ spent' = spent + AC_REPORT_TIMEOUT_SEC
  /\ UNCHANGED <<pc, n, key, naddrs, ai, fds, sent, outcome, srvVars>>
(* A dead peer, the send timeout, a signal, or a write of nothing.         *)
WriteFails ==
  /\ pc = "request" /\ key # "long" /\ sent < REQ
  /\ Waits
  /\ Failed /\ fds' = fds - 1 /\ conn' = "closed"
  /\ UNCHANGED <<n, key, naddrs, ai, sent, got, stored, reply>>
Written ==
  /\ pc = "request" /\ sent = REQ /\ pc' = "read"
  /\ UNCHANGED <<n, key, naddrs, ai, fds, sent, outcome, srvVars, spent>>

AcceptsAny(r) == TRUE
(* ac_http_status_code() in 200 .. 299; "cut" is a status line of which    *)
(* only a part arrived.                                                    *)
Accepts(r) == r = "2xx"
ReadReply ==
  /\ pc = "read" /\ reply # "none"
  /\ \E r \in {reply, "cut"} : outcome' = IF Accepts(r) THEN "ok" ELSE "logged"
  /\ pc' = "idle" /\ fds' = fds - 1 /\ conn' = "closed"
  /\ Waits
  /\ UNCHANGED <<n, key, naddrs, ai, sent, got, stored, reply>>
ReadFailsNext ==
  /\ pc = "read" /\ reply = "none" /\ pc' = "connect" /\ ai' = ai + 1 /\ sent' = 0
  /\ fds' = fds - 1 /\ conn' = "closed"
  /\ UNCHANGED <<n, key, naddrs, outcome, got, stored, reply, spent>>
(* Closed without a response, the receive timeout, or a signal.            *)
ReadFails ==
  /\ pc = "read" /\ reply = "none" /\ Failed /\ fds' = fds - 1 /\ conn' = "closed"
  /\ Waits
  /\ UNCHANGED <<n, key, naddrs, ai, sent, got, stored, reply>>

-----------------------------------------------------------------------------
(* The server answers a whole request, once; 2xx only when it is stored.   *)
ServerHandles ==
  /\ conn = "open" /\ got = REQ /\ reply = "none"
  /\ \/ reply' = "2xx" /\ stored' = stored + 1
     \/ reply' = "error" /\ UNCHANGED stored
  /\ UNCHANGED <<pc, n, key, naddrs, ai, fds, sent, outcome, conn, got, spent>>
ServerDies ==
  /\ conn = "open" /\ conn' = "closed" /\ reply' = "none"
  /\ UNCHANGED <<pc, n, key, naddrs, ai, fds, sent, outcome, got, stored, spent>>

Server == ServerHandles \/ ServerDies
(* What the daemon does after Begin, apart from resolving.                 *)
Attempt ==
  \/ Connected \/ ConnectFails \/ NoAddressLeft \/ RequestTooLarge
  \/ Write \/ WriteFails \/ Written \/ ReadReply \/ ReadFails

-----------------------------------------------------------------------------
(* A report that is not logged as failed has been stored by the server.    *)
SilentMeansStored == outcome = "ok" => stored = 1

(* One call stores at most one report, whichever step fails: an attempt is *)
(* not repeated once a connection exists.                                  *)
StoredOnce == stored <= 1

(* Every way out of a call closes the socket it opened.                    *)
NoSocketLeak == fds <= 1 /\ (pc \in {"idle", "resolve", "connect"} => fds = 0)

=============================================================================
