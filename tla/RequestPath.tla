---------------------------- MODULE RequestPath -----------------------------
(***************************************************************************)
(* The daemon's listener and the handler of a request: connections pass    *)
(* the capped listener and the TLS handshake, carry requests one after the *)
(* other, and give back their slot when they are closed; a request is      *)
(* authenticated, metered, routed, run and audited.  What Cache.Do does is *)
(* the module ToolCache, what Limiter.Allow does the module RateLimiter:   *)
(* here a call of Do ends in one of the ways it may end, and the limiter   *)
(* is one bucket.                                                          *)
(***************************************************************************)
EXTENDS Naturals, FiniteSets

CONSTANTS
    Conns,      \* connections made in a behaviour
    MaxConns,   \* max_concurrent_handshakes
    Burst,      \* tokens of the limiter's bucket
    MaxRefills  \* bound: tokens that come back during a behaviour

ASSUME RequestPathAssumption == /\ IsFiniteSet(Conns)
                                /\ MaxConns \in Nat \ {0}
                                /\ Burst \in Nat /\ MaxRefills \in Nat

VARIABLES
    conn,      \* Conns -> [st, open, slot, id]: slot is that once has not run
    sem,       \* cappedListener.sem: slots taken
    req,       \* Conns -> the request the connection's handler is at
    tokens,    \* tokens in the bucket
    refills,   \* tokens that came back so far
    srv        \* http.Server: "serving", "draining", "exited", "failed"

httpVars == <<conn, sem, req, tokens, refills, srv>>

-----------------------------------------------------------------------------
(* Certificates and the identity taken from them.  A CN is empty, blank or  *)
(* a name; there is no DNS SAN, or the first one is empty or a name.        *)

Certs == [isCA : BOOLEAN, clientAuth : BOOLEAN, cn : {"", " ", "cn"}, dns : {"none", "empty", "dns"}]
TrimSpace(s) == IF s = " " THEN "" ELSE s

callerIdentity(cert) ==
    CASE TrimSpace(cert.cn) # "" -> "cn"
      [] cert.dns = "dns"        -> "dns"
      [] OTHER                   -> ""

\* Whether the handshake goes on, after the chain is verified.  That there are
\* DNS names is enough, so an empty one gets here and is nobody to admit.
verifyClientCert(cert) ==
    /\ ~cert.isCA
    /\ cert.clientAuth
    /\ TrimSpace(cert.cn) # "" \/ cert.dns # "none"

-----------------------------------------------------------------------------
(* Requests: what handleRequest looks at, in its order.                     *)

Inputs == [path : {"tool", "slash", "outside"}, method : {"POST", "GET"},
           tool : {"enabled", "disabled", "unknown"}]

\* The reason handleRequest rejects a metered request with, or "".
rejectReason(in) ==
    CASE in.path # "tool"      -> "bad_path"
      [] in.method # "POST"    -> "method"
      [] in.tool = "unknown"   -> "unknown_tool"
      [] in.tool = "disabled"  -> "tool_disabled"
      [] OTHER                 -> ""

statusOf(reason) ==
    CASE reason = "no_client_cert"                                   -> 401
      [] reason \in {"rate_global", "rate_tool"}                     -> 429
      [] reason \in {"bad_path", "unknown_tool", "tool_disabled"}    -> 404
      [] reason = "method"                                           -> 405
      [] reason = "body_too_large"                                   -> 413
      [] reason \in {"read_body", "invalid_json", "bad_argument"}    -> 400
      [] reason = "deadline"                                         -> 504
      [] reason = "stalled"                                          -> 503
      [] reason \in {"typed", "tool_error"}                          -> 502
      [] OTHER                                                       -> 200

\* handleToolError: the reason logged for an error of Cache.Do.
toolErrorReason(err) == IF err \in {"bad_argument", "typed", "deadline", "stalled"}
                        THEN err ELSE "tool_error"

\* stage: "none" (no request), "admit", "route", "body", "work", "reply",
\* "audit", "end"; reason is what is answered and logged ("" for ok).
NoReq == [stage |-> "none", in |-> [path |-> "tool", method |-> "POST", tool |-> "enabled"],
          reason |-> "", status |-> 0]

HttpInit ==
    /\ conn = [c \in Conns |-> [st |-> "none", open |-> FALSE, slot |-> FALSE, id |-> ""]]
    /\ sem = 0 /\ req = [c \in Conns |-> NoReq]
    /\ tokens = Burst /\ refills = 0 /\ srv = "serving"

Alive == srv \in {"serving", "draining"}

-----------------------------------------------------------------------------
(* Connections.                                                             *)

Dial(c) ==
    /\ srv = "serving" /\ conn[c].st = "none"
    /\ conn' = [conn EXCEPT ![c].st = "queued", ![c].open = TRUE]
    /\ UNCHANGED <<sem, req, tokens, refills, srv>>

\* cappedListener.Accept: a slot, or the connection is closed at once.
Accept(c) ==
    /\ srv = "serving" /\ conn[c].st = "queued"
    /\ IF sem < MaxConns
       THEN /\ sem' = sem + 1
            /\ conn' = [conn EXCEPT ![c].st = "handshake", ![c].slot = TRUE]
       ELSE /\ sem' = sem
            /\ conn' = [conn EXCEPT ![c].st = "gone", ![c].open = FALSE]
    /\ UNCHANGED <<req, tokens, refills, srv>>

\* cappedConn.Close, by whoever closes: the slot comes back once.
CloseReleasing(c, st) ==
    /\ sem' = IF sem > 0 THEN sem - 1 ELSE sem
    /\ conn' = [conn EXCEPT ![c].st = st, ![c].open = FALSE, ![c].slot = FALSE]
Close(c, st) ==
    /\ sem' = IF conn[c].slot THEN sem - 1 ELSE sem
    /\ conn' = [conn EXCEPT ![c].st = st, ![c].open = FALSE, ![c].slot = FALSE]

\* The handshake ends with a certificate that VerifyConnection accepts,
Handshake(c, cert) ==
    /\ Alive /\ conn[c].st = "handshake" /\ conn[c].open /\ verifyClientCert(cert)
    /\ conn' = [conn EXCEPT ![c].st = "idle", ![c].id = callerIdentity(cert)]
    /\ UNCHANGED <<sem, req, tokens, refills, srv>>

\* or is no TLS at all: net/http answers in plain text and closes, and the
\* connection's goroutine closes again when it ends,
PlainHTTP(c) ==
    /\ Alive /\ conn[c].st = "handshake" /\ conn[c].open
    /\ Close(c, "handshake")
    /\ UNCHANGED <<req, tokens, refills, srv>>

ConnectionEndsUnlessIdle(c) ==
    /\ Alive /\ conn[c].st = "handshake"
    /\ Close(c, "gone")
    /\ UNCHANGED <<req, tokens, refills, srv>>

\* or fails, or runs into ReadHeaderTimeout; an idle connection is closed by its
\* client or by IdleTimeout.  The connection's goroutine closes it and ends.
ConnectionEnds(c) ==
    /\ Alive /\ conn[c].st \in {"handshake", "idle"}
    /\ Close(c, "gone")
    /\ UNCHANGED <<req, tokens, refills, srv>>

-----------------------------------------------------------------------------
(* The handler.                                                             *)

At(c, stage) == Alive /\ req[c].stage = stage

\* Go on to write and log the given outcome.
Conclude(c, reason) ==
    req' = [req EXCEPT ![c].stage = "reply", ![c].reason = reason]

handleRequest(c, in) ==
    /\ Alive /\ conn[c].st = "idle" /\ conn[c].open
    /\ conn' = [conn EXCEPT ![c].st = "active"]
    /\ req' = [req EXCEPT ![c] = [NoReq EXCEPT !.stage = "admit", !.in = in]]
    /\ UNCHANGED <<sem, tokens, refills, srv>>

\* Authenticate, then meter.
admit(c) ==
    /\ At(c, "admit")
    /\ \/ /\ conn[c].id = "" /\ Conclude(c, "no_client_cert")
          /\ UNCHANGED tokens
       \/ /\ conn[c].id # "" /\ tokens > 0 /\ tokens' = tokens - 1
          /\ req' = [req EXCEPT ![c].stage = "route"]
       \/ /\ conn[c].id # "" /\ tokens = 0
          /\ Conclude(c, "rate_global") /\ UNCHANGED tokens
    /\ UNCHANGED <<conn, sem, refills, srv>>

Route(c) ==
    /\ At(c, "route")
    /\ IF rejectReason(req[c].in) # "" THEN Conclude(c, rejectReason(req[c].in))
       ELSE req' = [req EXCEPT ![c].stage = "body", ![c].in = NoReq.in]
    /\ UNCHANGED <<conn, sem, tokens, refills, srv>>

\* handleToolBody up to Cache.Do: the body is read within ReadTimeout and
\* refused, or the cache has the answer, or the request waits for the tool.
handleToolBody(c) ==
    /\ At(c, "body")
    /\ \/ \E r \in {"read_body", "body_too_large", "invalid_json", ""} : Conclude(c, r)
       \/ req' = [req EXCEPT ![c].stage = "work"]
    /\ UNCHANGED <<conn, sem, tokens, refills, srv>>

\* Cache.Do returns, at the latest when the request's own context ends.
DoReturns(c) ==
    /\ At(c, "work")
    /\ \/ Conclude(c, "")
       \/ \E err \in {"bad_argument", "typed", "deadline", "stalled", "canceled", "other"} :
             Conclude(c, toolErrorReason(err))
    /\ UNCHANGED <<conn, sem, tokens, refills, srv>>

\* writeEnvelope or writeError: the reply is sent first,
WriteReply(c) ==
    /\ At(c, "reply")
    /\ req' = [req EXCEPT ![c].stage = "audit", ![c].status = statusOf(req[c].reason)]
    /\ UNCHANGED <<conn, sem, tokens, refills, srv>>

\* then the line is logged, whether or not the client still reads.
Audit(c) ==
    /\ At(c, "audit")
    /\ req' = [req EXCEPT ![c].stage = "end"]
    /\ UNCHANGED <<conn, sem, tokens, refills, srv>>

\* net/http keeps the connection for the next request, or closes it.
HandlerReturns(c) ==
    /\ At(c, "end")
    /\ req' = [req EXCEPT ![c] = NoReq]
    /\ \/ /\ srv = "serving" /\ conn[c].open
          /\ conn' = [conn EXCEPT ![c].st = "idle"] /\ UNCHANGED sem
       \/ Close(c, "gone")
    /\ UNCHANGED <<tokens, refills, srv>>

-----------------------------------------------------------------------------
(* The limiter's refill, and the server's end.                              *)

Refill ==
    /\ Alive /\ tokens < Burst /\ refills < MaxRefills
    /\ tokens' = tokens + 1 /\ refills' = refills + 1
    /\ UNCHANGED <<conn, sem, req, srv>>

\* SIGTERM: Start calls Shutdown, which closes the listener,
Shutdown ==
    /\ srv = "serving" /\ srv' = "draining"
    /\ UNCHANGED <<conn, sem, req, tokens, refills>>

\* closes idle connections (whose goroutine then closes them again),
CloseIdle(c) ==
    /\ srv = "draining" /\ conn[c].st \in {"idle", "handshake"} /\ conn[c].open
    /\ Close(c, conn[c].st)
    /\ UNCHANGED <<req, tokens, refills, srv>>

\* and returns when the active ones are gone, or after ten seconds whatever they
\* are at: a request between its reply and its line is then cut off.
ShutdownReturns ==
    /\ srv = "draining" /\ srv' = "exited"
    /\ UNCHANGED <<conn, sem, req, tokens, refills>>

\* Serve gives up on the listener: Start returns its error and main exits.
ServeFails ==
    /\ srv = "serving" /\ srv' = "failed"
    /\ UNCHANGED <<conn, sem, req, tokens, refills>>

HandlerStep(c) == \/ admit(c) \/ Route(c) \/ handleToolBody(c) \/ DoReturns(c)
                  \/ WriteReply(c) \/ Audit(c) \/ HandlerReturns(c)

HttpNext ==
    \/ \E c \in Conns :
          \/ Dial(c) \/ Accept(c) \/ PlainHTTP(c) \/ ConnectionEnds(c) \/ CloseIdle(c) \/ HandlerStep(c)
          \/ \E cert \in Certs : Handshake(c, cert)
          \/ \E in \in Inputs : handleRequest(c, in)
    \/ Refill \/ Shutdown \/ ShutdownReturns \/ ServeFails

\* The timeouts of http.Server end a connection that stays idle, handlers run,
\* Cache.Do returns within the request's timeout and Accept is called again.
HttpFairness ==
    /\ \A c \in Conns : WF_httpVars(HandlerStep(c)) /\ WF_httpVars(ConnectionEnds(c)) /\ WF_httpVars(Accept(c))
    /\ WF_httpVars(ShutdownReturns)

HttpSpec == HttpInit /\ [][HttpNext]_httpVars /\ HttpFairness

-----------------------------------------------------------------------------
\* The slots taken are the connections admitted and open, whoever closes them
\* and however often: net/http closes twice when Shutdown meets an idle one.  They
\* are never more than the cap.
SlotsAreConnections ==
    sem <= MaxConns /\ sem = Cardinality({c \in Conns : conn[c].open /\ conn[c].st \notin {"none", "queued"}})

\* Slots come back: connections that do nothing do not hold the cap for ever,
\* and only one whose client keeps sending requests can.
SlotsReturn == \/ []<>(sem < MaxConns \/ ~Alive)
               \/ \E c \in Conns : []<>(conn[c].st = "active")
=============================================================================
