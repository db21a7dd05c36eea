-------------------------- MODULE RequestPathProofs --------------------------
(***************************************************************************)
(* Proofs about RequestPath, for any number of connections, any cap and    *)
(* any bucket.                                                             *)
(***************************************************************************)
EXTENDS RequestPath, FiniteSetTheorems, TLAPS

Connection == [st : {"none", "queued", "handshake", "idle", "active", "gone"},
               open : BOOLEAN, slot : BOOLEAN, id : {"", "cn", "dns"}]

Stages == {"none", "admit", "route", "body", "work", "reply", "audit", "end"}

Reasons == {"", "no_client_cert", "rate_global", "bad_path", "method", "unknown_tool",
            "tool_disabled", "read_body", "body_too_large", "invalid_json",
            "bad_argument", "typed", "deadline", "stalled", "tool_error"}

HttpRequest == [stage : Stages, in : Inputs, reason : Reasons, status : Nat]

HttpShape ==
    /\ conn \in [Conns -> Connection]
    /\ req \in [Conns -> HttpRequest]
    /\ sem \in Nat

\* The once of a connection has run exactly when it is closed, and a connection
\* is open while a request is served on it.
ConnOK(c) ==
    /\ conn[c].slot <=> conn[c].open /\ conn[c].st \notin {"none", "queued"}
    /\ conn[c].st \in {"none", "gone"} => ~conn[c].open
    /\ conn[c].st \in {"queued", "active"} => conn[c].open
    /\ conn[c].st = "active" <=> req[c].stage # "none"

Held == {c \in Conns : conn[c].slot}
Slots == sem <= MaxConns /\ sem = Cardinality(Held)

HttpInv == HttpShape /\ Slots /\ \A c \in Conns : ConnOK(c)
-----------------------------------------------------------------------------
(* The operators of the handler.                                            *)

\* Every reason has a status.
LEMMA StatusType == \A r : statusOf(r) \in Nat
BY DEF statusOf

\* The reasons of the routing and of the tool's errors are reasons.
LEMMA ReasonTypes ==
    /\ \A in \in Inputs : rejectReason(in) \in Reasons
    /\ \A err : err \in {"bad_argument", "typed", "deadline", "stalled", "canceled", "other"}
                 => toolErrorReason(err) \in Reasons
BY DEF rejectReason, toolErrorReason, Reasons

\* A certificate yields an identity or none.
LEMMA IdentityType == \A cert \in Certs : callerIdentity(cert) \in {"", "cn", "dns"}
BY DEF Certs, callerIdentity, TrimSpace

\* The null request is a request.
LEMMA NoReqType == NoReq \in HttpRequest /\ NoReq.in \in Inputs
BY DEF NoReq, HttpRequest, Inputs, Stages, Reasons

\* What Close does to the connection it closes.
LEMMA CloseEffect ==
    ASSUME HttpShape, NEW c \in Conns, NEW st \in {"handshake", "idle", "gone"}, Close(c, st)
    PROVE  /\ conn' \in [Conns -> Connection]
           /\ conn'[c].st = st /\ ~conn'[c].open /\ ~conn'[c].slot /\ conn'[c].id = conn[c].id
           /\ \A d \in Conns \ {c} : conn'[d] = conn[d]
BY DEF HttpShape, Close, Connection

-----------------------------------------------------------------------------
(* The shape of the state.                                                  *)

\* Connections keep their shape.
LEMMA ConnShape ==
    ASSUME HttpShape, [HttpNext]_httpVars
    PROVE  conn' \in [Conns -> Connection]
<1>0. conn \in [Conns -> Connection]
  BY DEF HttpShape
<1>1. ASSUME NEW c \in Conns, Dial(c)
      PROVE  conn' \in [Conns -> Connection]
  BY <1>0, <1>1 DEF Dial, Connection
<1>2. ASSUME NEW c \in Conns, Accept(c)
      PROVE  conn' \in [Conns -> Connection]
  <2>1. CASE conn' = [conn EXCEPT ![c].st = "handshake", ![c].slot = TRUE]
    BY <1>0, <2>1 DEF Connection
  <2>2. CASE conn' = [conn EXCEPT ![c].st = "gone", ![c].open = FALSE]
    BY <1>0, <2>2 DEF Connection
  <2> QED  BY <1>2, <2>1, <2>2 DEF Accept
<1>3. ASSUME NEW c \in Conns, PlainHTTP(c) \/ ConnectionEnds(c) \/ CloseIdle(c)
      PROVE  conn' \in [Conns -> Connection]
  BY <1>3, CloseEffect DEF PlainHTTP, ConnectionEnds, CloseIdle
<1>4. ASSUME NEW c \in Conns, NEW cert \in Certs, Handshake(c, cert)
      PROVE  conn' \in [Conns -> Connection]
  <2>1. callerIdentity(cert) \in {"", "cn", "dns"}
    BY IdentityType
  <2> QED  BY <1>0, <1>4, <2>1 DEF Handshake, Connection
<1>5. ASSUME NEW c \in Conns, NEW in \in Inputs, handleRequest(c, in)
      PROVE  conn' \in [Conns -> Connection]
  BY <1>0, <1>5 DEF handleRequest, Connection
<1>6. ASSUME NEW c \in Conns, HandlerReturns(c)
      PROVE  conn' \in [Conns -> Connection]
  <2>1. CASE Close(c, "gone")
    BY <2>1, CloseEffect
  <2>2. CASE conn' = [conn EXCEPT ![c].st = "idle"]
    BY <1>0, <2>2 DEF Connection
  <2> QED  BY <1>6, <2>1, <2>2 DEF HandlerReturns
<1>7. CASE UNCHANGED conn
  BY <1>0, <1>7
<1> QED
  BY <1>1, <1>2, <1>3, <1>4, <1>5, <1>6, <1>7
  DEF HttpNext, HandlerStep, admit, Route, handleToolBody, DoReturns, WriteReply, Audit,
      Refill, Shutdown, ShutdownReturns, ServeFails, httpVars

\* Requests keep their shape.
LEMMA ReqShape ==
    ASSUME HttpShape, [HttpNext]_httpVars
    PROVE  req' \in [Conns -> HttpRequest]
<1>0. req \in [Conns -> HttpRequest]
  BY DEF HttpShape
<1>1. ASSUME NEW c \in Conns, NEW in \in Inputs, handleRequest(c, in)
      PROVE  req' \in [Conns -> HttpRequest]
  <2>1. [NoReq EXCEPT !.stage = "admit", !.in = in] \in HttpRequest
    BY NoReqType DEF HttpRequest, Stages
  <2> QED  BY <1>0, <1>1, <2>1 DEF handleRequest
<1>2. ASSUME NEW c \in Conns, NEW r \in Reasons, Conclude(c, r)
      PROVE  req' \in [Conns -> HttpRequest]
  BY <1>0, <1>2 DEF Conclude, HttpRequest, Stages
<1>3. ASSUME NEW c \in Conns, admit(c)
      PROVE  req' \in [Conns -> HttpRequest]
  <2>1. CASE req' = [req EXCEPT ![c].stage = "route"]
    BY <1>0, <2>1 DEF HttpRequest, Stages
  <2> QED  BY <1>2, <1>3, <2>1 DEF admit, Reasons
<1>4. ASSUME NEW c \in Conns, Route(c)
      PROVE  req' \in [Conns -> HttpRequest]
  <2>1. rejectReason(req[c].in) \in Reasons
    BY <1>0, ReasonTypes DEF HttpRequest
  <2>2. CASE req' = [req EXCEPT ![c].stage = "body", ![c].in = NoReq.in]
    BY <1>0, <2>2, NoReqType DEF HttpRequest, Stages
  <2> QED  BY <1>2, <1>4, <2>1, <2>2 DEF Route
<1>5. ASSUME NEW c \in Conns, handleToolBody(c)
      PROVE  req' \in [Conns -> HttpRequest]
  <2>1. CASE req' = [req EXCEPT ![c].stage = "work"]
    BY <1>0, <2>1 DEF HttpRequest, Stages
  <2> QED  BY <1>2, <1>5, <2>1 DEF handleToolBody, Reasons
<1>6. ASSUME NEW c \in Conns, DoReturns(c)
      PROVE  req' \in [Conns -> HttpRequest]
  <2>1. "" \in Reasons
    BY DEF Reasons
  <2> QED  BY <1>2, <1>6, <2>1, ReasonTypes DEF DoReturns
<1>7. ASSUME NEW c \in Conns, WriteReply(c)
      PROVE  req' \in [Conns -> HttpRequest]
  <2>1. statusOf(req[c].reason) \in Nat
    BY StatusType
  <2> QED  BY <1>0, <1>7, <2>1 DEF WriteReply, HttpRequest, Stages
<1>8. ASSUME NEW c \in Conns, Audit(c)
      PROVE  req' \in [Conns -> HttpRequest]
  BY <1>0, <1>8 DEF Audit, HttpRequest, Stages
<1>9. ASSUME NEW c \in Conns, HandlerReturns(c)
      PROVE  req' \in [Conns -> HttpRequest]
  BY <1>0, <1>9, NoReqType DEF HandlerReturns
<1>10. CASE UNCHANGED req
  BY <1>0, <1>10
<1> QED
  BY <1>1, <1>3, <1>4, <1>5, <1>6, <1>7, <1>8, <1>9, <1>10
  DEF HttpNext, HandlerStep, Dial, Accept, PlainHTTP, ConnectionEnds, CloseIdle, Handshake,
      Refill, Shutdown, ShutdownReturns, ServeFails, httpVars
-----------------------------------------------------------------------------
(* Each connection and its request.                                         *)

\* The steps of one connection leave the others alone.
LEMMA Frame ==
    ASSUME HttpShape, NEW c \in Conns, NEW d \in Conns, c # d,
           \/ Dial(c) \/ Accept(c) \/ PlainHTTP(c) \/ ConnectionEnds(c) \/ CloseIdle(c)
           \/ HandlerStep(c)
           \/ \E cert \in Certs : Handshake(c, cert)
           \/ \E in \in Inputs : handleRequest(c, in)
    PROVE  conn'[d] = conn[d] /\ req'[d] = req[d]
<1> USE DEF HttpShape
<1>1. CASE Dial(c) \/ Accept(c)
  BY <1>1 DEF Dial, Accept
<1>2. CASE PlainHTTP(c) \/ ConnectionEnds(c) \/ CloseIdle(c)
  BY <1>2 DEF PlainHTTP, ConnectionEnds, CloseIdle, Close
<1>3. CASE \E cert \in Certs : Handshake(c, cert)
  BY <1>3 DEF Handshake
<1>4. CASE \E in \in Inputs : handleRequest(c, in)
  BY <1>4 DEF handleRequest
<1>5. CASE admit(c) \/ Route(c) \/ handleToolBody(c) \/ DoReturns(c)
  BY <1>5 DEF admit, Route, handleToolBody, DoReturns, Conclude
<1>6. CASE WriteReply(c) \/ Audit(c)
  BY <1>6 DEF WriteReply, Audit
<1>7. CASE HandlerReturns(c)
  BY <1>7 DEF HandlerReturns, Close
<1> QED  BY <1>1, <1>2, <1>3, <1>4, <1>5, <1>6, <1>7 DEF HandlerStep

\* A step of the connection itself keeps what is said of it.
LEMMA OwnStep ==
    ASSUME HttpInv, NEW c \in Conns,
           \/ Dial(c) \/ Accept(c) \/ PlainHTTP(c) \/ ConnectionEnds(c) \/ CloseIdle(c)
           \/ HandlerStep(c)
           \/ \E cert \in Certs : Handshake(c, cert)
           \/ \E in \in Inputs : handleRequest(c, in)
    PROVE  ConnOK(c)'
<1>0. /\ ConnOK(c) /\ HttpShape
      /\ conn \in [Conns -> Connection] /\ conn[c] \in Connection
      /\ req \in [Conns -> HttpRequest] /\ req[c] \in HttpRequest
  BY DEF HttpInv, HttpShape
<1> USE DEF ConnOK
<1>1. CASE Dial(c)
  BY <1>0, <1>1 DEF Dial, Connection
<1>2. CASE Accept(c)
  <2>1. CASE conn' = [conn EXCEPT ![c].st = "handshake", ![c].slot = TRUE]
    BY <1>0, <1>2, <2>1 DEF Accept, Connection
  <2>2. CASE conn' = [conn EXCEPT ![c].st = "gone", ![c].open = FALSE]
    BY <1>0, <1>2, <2>2 DEF Accept, Connection
  <2> QED  BY <1>2, <2>1, <2>2 DEF Accept
<1>3. CASE PlainHTTP(c) \/ ConnectionEnds(c) \/ CloseIdle(c)
  <2>1. PICK st \in {"handshake", "idle", "gone"} : Close(c, st) /\ (st = "idle" => conn[c].st = "idle")
    BY <1>3 DEF PlainHTTP, ConnectionEnds, CloseIdle
  <2>2. req' = req /\ conn[c].st \in {"handshake", "idle"}
    BY <1>3 DEF PlainHTTP, ConnectionEnds, CloseIdle
  <2> QED  BY <1>0, <2>1, <2>2, CloseEffect
<1>4. ASSUME NEW cert \in Certs, Handshake(c, cert)
      PROVE  ConnOK(c)'
  <2>1. callerIdentity(cert) \in {"", "cn", "dns"}
    BY IdentityType
  <2> QED  BY <1>0, <1>4, <2>1 DEF Handshake, Connection
<1>5. ASSUME NEW in \in Inputs, handleRequest(c, in)
      PROVE  ConnOK(c)'
  <2>1. /\ req'[c].stage = "admit"
        /\ conn'[c] = [conn[c] EXCEPT !.st = "active"] /\ conn[c].st = "idle" /\ conn[c].open
    BY <1>0, <1>5 DEF handleRequest, NoReq
  <2> QED  BY <1>0, <2>1 DEF Connection
<1>6. ASSUME NEW r, Conclude(c, r), req[c].stage \in {"admit", "route", "body", "work"}, UNCHANGED conn
      PROVE  ConnOK(c)'
  BY <1>0, <1>6 DEF Conclude, HttpRequest
<1>7. CASE admit(c)
  <2>1. req[c].stage = "admit" /\ conn' = conn
    BY <1>0, <1>7 DEF admit, At
  <2>2. CASE req' = [req EXCEPT ![c].stage = "route"]
    BY <1>0, <2>1, <2>2 DEF HttpRequest
  <2> QED  BY <1>6, <1>7, <2>1, <2>2 DEF admit
<1>8. CASE Route(c)
  <2>1. req[c].stage = "route" /\ conn' = conn
    BY <1>0, <1>8 DEF Route, At
  <2>2. CASE req' = [req EXCEPT ![c].stage = "body", ![c].in = NoReq.in]
    BY <1>0, <2>1, <2>2 DEF HttpRequest
  <2> QED  BY <1>6, <1>8, <2>1, <2>2 DEF Route
<1>9. CASE handleToolBody(c)
  <2>1. req[c].stage = "body" /\ conn' = conn
    BY <1>0, <1>9 DEF handleToolBody, At
  <2>2. CASE req' = [req EXCEPT ![c].stage = "work"]
    BY <1>0, <2>1, <2>2 DEF HttpRequest
  <2> QED  BY <1>6, <1>9, <2>1, <2>2 DEF handleToolBody
<1>10. CASE DoReturns(c)
  <2>1. req[c].stage = "work" /\ conn' = conn
    BY <1>0, <1>10 DEF DoReturns, At
  <2> QED  BY <1>6, <1>10, <2>1 DEF DoReturns
<1>11. CASE WriteReply(c)
  BY <1>0, <1>11 DEF WriteReply, At, HttpRequest
<1>12. CASE Audit(c)
  BY <1>0, <1>12 DEF Audit, At, HttpRequest
<1>13. CASE HandlerReturns(c)
  <2>1. /\ req'[c].stage = "none" /\ conn[c].st = "active"
    BY <1>0, <1>13 DEF HandlerReturns, NoReq, At
  <2>2. CASE Close(c, "gone")
    BY <1>0, <2>1, <2>2, CloseEffect
  <2>3. CASE conn' = [conn EXCEPT ![c].st = "idle"]
    BY <1>0, <2>1, <2>3 DEF Connection
  <2> QED  BY <1>13, <2>2, <2>3 DEF HandlerReturns
<1> QED
  BY <1>1, <1>2, <1>3, <1>4, <1>5, <1>7, <1>8, <1>9, <1>10, <1>11, <1>12, <1>13 DEF HandlerStep

\* Every step keeps what is said of every connection.
LEMMA ConnectionsStep ==
    ASSUME HttpInv, [HttpNext]_httpVars, NEW d \in Conns
    PROVE  ConnOK(d)'
<1> DEFINE Own(c) == \/ Dial(c) \/ Accept(c) \/ PlainHTTP(c) \/ ConnectionEnds(c) \/ CloseIdle(c)
                     \/ HandlerStep(c)
                     \/ \E cert \in Certs : Handshake(c, cert)
                     \/ \E in \in Inputs : handleRequest(c, in)
<1>1. CASE conn'[d] = conn[d] /\ req'[d] = req[d]
  BY <1>1 DEF HttpInv, ConnOK
<1>2. ASSUME NEW c \in Conns, Own(c)
      PROVE  ConnOK(d)'
  <2>1. CASE c = d
    BY <1>2, <2>1, OwnStep
  <2>2. CASE c # d
    BY <1>1, <1>2, <2>2, Frame DEF HttpInv
  <2> QED  BY <2>1, <2>2
<1>3. CASE Refill \/ Shutdown \/ ShutdownReturns \/ ServeFails \/ UNCHANGED httpVars
  BY <1>1, <1>3 DEF Refill, Shutdown, ShutdownReturns, ServeFails, httpVars
<1> QED  BY <1>2, <1>3 DEF HttpNext
-----------------------------------------------------------------------------
(* The slots.                                                               *)

\* Taking and giving back a slot moves the count with the set.
LEMMA HeldFacts ==
    /\ IsFiniteSet(Held) /\ Cardinality(Held) \in Nat
    /\ \A c \in Held : Cardinality(Held \ {c}) = Cardinality(Held) - 1 /\ Cardinality(Held) > 0
    /\ \A c \in Conns \ Held : Cardinality(Held \cup {c}) = Cardinality(Held) + 1
<1>1. IsFiniteSet(Held)
  BY FS_Subset, RequestPathAssumption DEF Held
<1>2. Cardinality(Held) \in Nat
  BY <1>1, FS_CardinalityType
<1>3. \A c \in Held : Cardinality(Held) # 0
  BY <1>1, FS_EmptySet
<1> QED  BY <1>1, <1>2, <1>3, FS_AddElement, FS_RemoveElement

\* Every Accept takes and every first Close gives back one slot.
LEMMA SlotsStep ==
    ASSUME HttpInv, [HttpNext]_httpVars
    PROVE  Slots' /\ sem' \in Nat
<1>0. /\ HttpShape /\ Slots /\ sem \in Nat /\ MaxConns \in Nat
      /\ conn \in [Conns -> Connection]
      /\ \A c \in Conns : ConnOK(c)
  BY RequestPathAssumption DEF HttpInv, HttpShape
<1>1. ASSUME \A d \in Conns : conn'[d].slot = conn[d].slot, sem' = sem
      PROVE  Slots' /\ sem' \in Nat
  <2>1. Held' = Held
    BY <1>1 DEF Held
  <2> QED  BY <1>0, <1>1, <2>1 DEF Slots
<1>2. ASSUME NEW c \in Conns, NEW st \in {"handshake", "idle", "gone"}, Close(c, st)
      PROVE  Slots' /\ sem' \in Nat
  <2>1. Held' = Held \ {c}
    BY <1>0, <1>2, CloseEffect DEF Held
  <2>2. CASE conn[c].slot
    <3>1. c \in Held /\ sem' = sem - 1
      BY <1>2, <2>2 DEF Held, Close
    <3> QED  BY <1>0, <2>1, <3>1, HeldFacts DEF Slots
  <2>3. CASE ~conn[c].slot
    <3>1. Held' = Held /\ sem' = sem
      BY <1>2, <2>1, <2>3 DEF Held, Close
    <3> QED  BY <1>0, <3>1 DEF Slots
  <2> QED  BY <2>2, <2>3
<1>3. ASSUME NEW c \in Conns, Accept(c)
      PROVE  Slots' /\ sem' \in Nat
  <2>1. conn[c].st = "queued" /\ ~conn[c].slot
    BY <1>0, <1>3 DEF Accept, ConnOK
  <2>2. CASE sem < MaxConns
    <3>1. sem' = sem + 1 /\ conn' = [conn EXCEPT ![c].st = "handshake", ![c].slot = TRUE]
      BY <1>3, <2>2 DEF Accept
    <3>2. conn'[c].slot /\ \A d \in Conns \ {c} : conn'[d] = conn[d]
      BY <1>0, <3>1 DEF Connection
    <3>3. Held' = Held \cup {c} /\ c \notin Held
      BY <2>1, <3>2 DEF Held
    <3> QED  BY <1>0, <2>2, <3>1, <3>3, HeldFacts DEF Slots
  <2>3. CASE ~(sem < MaxConns)
    <3>1. sem' = sem /\ conn' = [conn EXCEPT ![c].st = "gone", ![c].open = FALSE]
      BY <1>3, <2>3 DEF Accept
    <3>2. \A d \in Conns : conn'[d].slot = conn[d].slot
      BY <1>0, <3>1 DEF Connection
    <3> QED  BY <1>1, <3>1, <3>2
  <2> QED  BY <2>2, <2>3
<1>4. ASSUME NEW c \in Conns, PlainHTTP(c) \/ ConnectionEnds(c) \/ CloseIdle(c)
      PROVE  Slots' /\ sem' \in Nat
  BY <1>2, <1>4 DEF PlainHTTP, ConnectionEnds, CloseIdle
<1>5. ASSUME NEW c \in Conns, NEW cert \in Certs, Handshake(c, cert)
      PROVE  Slots' /\ sem' \in Nat
  BY <1>0, <1>1, <1>5 DEF Handshake, Connection
<1>6. ASSUME NEW c \in Conns, NEW in \in Inputs, handleRequest(c, in)
      PROVE  Slots' /\ sem' \in Nat
  BY <1>0, <1>1, <1>6 DEF handleRequest, Connection
<1>7. ASSUME NEW c \in Conns, Dial(c)
      PROVE  Slots' /\ sem' \in Nat
  BY <1>0, <1>1, <1>7 DEF Dial, Connection
<1>8. ASSUME NEW c \in Conns, HandlerReturns(c)
      PROVE  Slots' /\ sem' \in Nat
  <2>1. CASE conn' = [conn EXCEPT ![c].st = "idle"] /\ sem' = sem
    BY <1>0, <1>1, <2>1 DEF Connection
  <2> QED  BY <1>2, <1>8, <2>1 DEF HandlerReturns
<1>9. CASE UNCHANGED <<conn, sem>>
  BY <1>1, <1>9
<1> QED
  BY <1>3, <1>4, <1>5, <1>6, <1>7, <1>8, <1>9
  DEF HttpNext, HandlerStep, admit, Route, handleToolBody, DoReturns, WriteReply, Audit,
      Refill, Shutdown, ShutdownReturns, ServeFails, httpVars

-----------------------------------------------------------------------------
\* The initial state satisfies the invariant.
LEMMA HttpInitEstablishes == HttpInit => HttpInv
<1> SUFFICES ASSUME HttpInit PROVE HttpInv
  OBVIOUS
<1>1. HttpShape
  BY NoReqType, RequestPathAssumption DEF HttpInit, HttpShape, Connection
<1>2. Held = {} /\ sem = 0
  BY DEF HttpInit, Held
<1>3. Slots
  BY <1>2, FS_EmptySet, RequestPathAssumption DEF Slots
<1>4. \A c \in Conns : ConnOK(c)
  BY DEF HttpInit, ConnOK, NoReq
<1> QED  BY <1>1, <1>3, <1>4 DEF HttpInv

\* The invariant holds throughout.
THEOREM HttpInvariance == HttpSpec => []HttpInv
<1>1. HttpInv /\ [HttpNext]_httpVars => HttpInv'
  <2> SUFFICES ASSUME HttpInv, [HttpNext]_httpVars PROVE HttpInv'
    OBVIOUS
  <2>1. HttpShape'
    BY ConnShape, ReqShape, SlotsStep DEF HttpInv, HttpShape
  <2>2. \A c \in Conns : ConnOK(c)'
    BY ConnectionsStep
  <2> QED  BY <2>1, <2>2, SlotsStep DEF HttpInv
<1> QED  BY <1>1, HttpInitEstablishes, PTL DEF HttpSpec

\* The semaphore counts the connections that are admitted and open, and stays
\* within the cap, however often and by whomever they are closed.
THEOREM SlotsExact == HttpSpec => []SlotsAreConnections
<1>1. HttpInv => SlotsAreConnections
  <2> SUFFICES ASSUME HttpInv PROVE SlotsAreConnections
    OBVIOUS
  <2>1. Held = {c \in Conns : conn[c].open /\ conn[c].st \notin {"none", "queued"}}
    BY DEF HttpInv, Held, ConnOK
  <2> QED  BY <2>1 DEF HttpInv, Slots, SlotsAreConnections
<1> QED  BY <1>1, HttpInvariance, PTL
==============================================================================
