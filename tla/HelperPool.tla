------------------------------ MODULE HelperPool ------------------------------
(***************************************************************************)
(* Calls from the daemon to the helper: Client.Call of                     *)
(* daemon/internal/daemon/helperinvoke and Serve, handleConn and dispatch  *)
(* of daemon/internal/helper/server.                                       *)
(*                                                                         *)
(* A call takes one of the daemon's slots, dials, sends a request with its *)
(* time budget, and waits for the answer or for its socket deadline.  The  *)
(* helper accepts the connection if it has a slot, runs the operation      *)
(* under a deadline of its own, and answers.  Neither side sees the other  *)
(* give up: the daemon frees its slot when it stops waiting, the helper    *)
(* when the operation has ended.  The helper may run out of descriptors,   *)
(* be stopped, or crash, and is started again.                             *)
(*                                                                         *)
(* Only the daemon connects, so checkPeer always succeeds, and its calls   *)
(* always close their connection before the 60 s idle timeout.  A tool's   *)
(* context belongs to no request and is cancelled only after its calls     *)
(* have returned, so it ends by expiring.                                  *)
(***************************************************************************)
EXTENDS Integers, FiniteSets

CONSTANTS
    Calls,              \* goroutines of the daemon that call the helper
    Conns,              \* bound: connections that exist at one time
    NoConn,
    MaxInFlight,        \* capacity of Client.sem: 8
    MaxConns,           \* maxConns: 16
    Timeout,            \* what a tool's context starts with
    Budget,             \* HelperDeadlineBudget
    OpDefault, MinOpDeadline, MaxOpDeadline,
    PerMS,              \* units of the clock in a millisecond
    BackoffMin, BackoffMax

ASSUME PoolAssumption ==
    /\ IsFiniteSet(Calls) /\ IsFiniteSet(Conns) /\ NoConn \notin Conns
    /\ MaxInFlight \in Nat \ {0} /\ MaxConns \in Nat \ {0}
ASSUME BudgetAssumption ==
    /\ Timeout \in Nat \ {0} /\ Budget \in Nat /\ OpDefault \in Nat
    /\ MinOpDeadline \in Nat \ {0} /\ MaxOpDeadline \in Nat
    /\ MinOpDeadline <= MaxOpDeadline
    /\ PerMS \in Nat \ {0} /\ PerMS <= MinOpDeadline
    /\ BackoffMin \in Nat \ {0} /\ BackoffMax \in Nat /\ BackoffMin <= BackoffMax

VARIABLES
    call,       \* per goroutine: where Call is, and its clocks
    got,        \* per goroutine: what Call returned
    sem,        \* slots taken of Client.sem
    conn,       \* per connection: the helper's end
    pipe,       \* per connection: what is in the socket, and the daemon's end
    slots,      \* slots taken of Server.sem
    open,       \* Server.open: the connections closeAll would close
    helper,     \* the helper process and its accept loop
    backoff     \* the accept loop's delay

vars == <<call, got, sem, conn, pipe, slots, open, helper, backoff>>
client == <<call, got, sem>>
server == <<conn, slots, open, helper, backoff>>

(***************************************************************************)
(* Data.                                                                   *)
(***************************************************************************)
Call ==
    [pc   : {"idle", "acquire", "dial", "send", "read", "done"},
     left : 0 .. Timeout,              \* time left on ctx
     sock : 0 .. Timeout,              \* time left to the socket deadline
     conn : Conns \cup {NoConn}]

Calling(pc, left) == [pc |-> pc, left |-> left, sock |-> 0, conn |-> NoConn]

\* What a handler returns: a result, one whose frame exceeds the cap, an
\* error, or an error that says that a context has expired.
Outcomes == {"ok", "big", "err", "deadline"}

Returns == {"none", "ok", "err", "truncated", "deadline", "ctx", "dial", "write", "read"}

Conn ==
    [pc   : {"gone", "queued", "await", "op", "reply", "ending"},
     left : 0 .. MaxOpDeadline,        \* time left on opCtx
     res  : Outcomes \cup {"none"}]

Held(pc) == [pc |-> pc, left |-> 0, res |-> "none"]

\* An unread request is one more than its deadline_ms, 0 if there is none;
\* resp is an unread response.
Pipe == [req : Nat, resp : {"none", "ok", "err", "truncated", "deadline"},
         peer : {"open", "shut"}]

Unused(n) == conn[n].pc = "gone" /\ pipe[n].peer = "shut"

Holding == {c \in Calls : call[c].pc \in {"dial", "send", "read"}}
Serving == {n \in Conns : conn[n].pc \in {"await", "op", "reply", "ending"}}

Lesser(a, b) == IF a <= b THEN a ELSE b
Greater(a, b) == IF a >= b THEN a ELSE b
Sooner(t) == IF t > 0 THEN t - 1 ELSE 0

(***************************************************************************)
(* The daemon's side.                                                      *)
(***************************************************************************)

\* A tool calls, with what is left of its context.
Begin(c, left) ==
    /\ call[c].pc \in {"idle", "done"}
    /\ call' = [call EXCEPT ![c] = Calling("acquire", left)]
    /\ got' = [got EXCEPT ![c] = "none"]
    /\ UNCHANGED <<sem, pipe, server>>

Acquire(c) ==
    /\ call[c].pc = "acquire"
    /\ sem < MaxInFlight
    /\ sem' = sem + 1
    /\ call' = [call EXCEPT ![c] = [@ EXCEPT !.pc = "dial"]]
    /\ UNCHANGED <<got, pipe, server>>

\* The context expires first: Call returns without a slot.
AcquireFails(c) ==
    /\ call[c].pc = "acquire" /\ call[c].left = 0
    /\ call' = [call EXCEPT ![c] = [@ EXCEPT !.pc = "done"]]
    /\ got' = [got EXCEPT ![c] = "ctx"]
    /\ UNCHANGED <<sem, pipe, server>>

\* The deferred calls of Call: the connection is closed and the slot freed.
Return(c, r) ==
    /\ call' = [call EXCEPT ![c] = [@ EXCEPT !.pc = "done", !.conn = NoConn]]
    /\ got' = [got EXCEPT ![c] = r]
    /\ sem' = sem - 1

Shut(n) == pipe' = [pipe EXCEPT ![n] = [req |-> pipe[n].req, resp |-> "none", peer |-> "shut"]]

Listening == helper \in {"up", "backoff"}

Dial(c, n) ==
    /\ call[c].pc = "dial" /\ Listening
    /\ Unused(n)
    /\ conn' = [conn EXCEPT ![n] = Held("queued")]
    /\ pipe' = [pipe EXCEPT ![n] = [req |-> 0, resp |-> "none", peer |-> "open"]]
    /\ call' = [call EXCEPT ![c] = [@ EXCEPT !.pc = "send", !.conn = n]]
    /\ UNCHANGED <<got, sem, slots, open, helper, backoff>>

DialFailsLeaking(c) ==
    /\ call[c].pc = "dial"
    /\ ~Listening \/ call[c].left = 0
    /\ call' = [call EXCEPT ![c] = [@ EXCEPT !.pc = "done"]]
    /\ got' = [got EXCEPT ![c] = "dial"]
    /\ UNCHANGED <<sem, pipe, server>>

DialFails(c) ==
    /\ call[c].pc = "dial"
    /\ ~Listening \/ call[c].left = 0
    /\ Return(c, "dial")
    /\ UNCHANGED <<pipe, server>>

\* The socket deadline leaves Budget of the context, unless less is left.
helperDL(left) == IF left > Budget THEN left - Budget ELSE left

deadlineMSTruncated(dl) == dl \div PerMS

\* The budget that is sent, in milliseconds rounded up: 0 would mean none.
deadlineMS(dl) == IF dl > 0 THEN (dl + PerMS - 1) \div PerMS ELSE 1

Send(c) ==
    LET n  == call[c].conn
        dl == helperDL(call[c].left) IN
    /\ call[c].pc = "send"
    /\ \/ /\ conn[n].pc # "gone" /\ dl > 0
          /\ pipe' = [pipe EXCEPT ![n] = [@ EXCEPT !.req = deadlineMS(dl) + 1]]
          /\ call' = [call EXCEPT ![c] = [@ EXCEPT !.pc = "read", !.sock = dl]]
          /\ UNCHANGED <<got, sem>>
       \/ /\ conn[n].pc = "gone" \/ dl = 0
          /\ Return(c, "write") /\ Shut(n)
    /\ UNCHANGED server

ReceiveAnswer(c) ==
    LET n == call[c].conn IN
    /\ call[c].pc = "read" /\ pipe[n].resp # "none"
    /\ Return(c, pipe[n].resp) /\ Shut(n)
    /\ UNCHANGED server

ReadFailsOnlyAtEOF(c) ==
    LET n == call[c].conn IN
    /\ call[c].pc = "read"
    /\ pipe[n].resp = "none" /\ conn[n].pc \in {"ending", "gone"}
    /\ Return(c, "read") /\ Shut(n)
    /\ UNCHANGED server

\* The socket deadline passes, or the helper has closed without an answer.
ReadFails(c) ==
    LET n == call[c].conn IN
    /\ call[c].pc = "read"
    /\ \/ call[c].sock = 0
       \/ pipe[n].resp = "none" /\ conn[n].pc \in {"ending", "gone"}
    /\ Return(c, "read") /\ Shut(n)
    /\ UNCHANGED server

(***************************************************************************)
(* The helper's side: the accept loop.                                     *)
(***************************************************************************)
nextBackoffUncapped(d) == IF d = 0 THEN BackoffMin ELSE 2 * d

nextBackoff(d) == IF d = 0 THEN BackoffMin ELSE Lesser(2 * d, BackoffMax)

AcceptWithoutLimit(n) ==
    /\ helper = "up" /\ conn[n].pc = "queued"
    /\ backoff' = 0
    /\ slots' = slots + 1
    /\ open' = open \cup {n}
    /\ conn' = [conn EXCEPT ![n] = Held("await")]
    /\ UNCHANGED <<client, pipe, helper>>

\* A connection is tracked and handed to a goroutine, or closed at once
\* when every slot is taken.
Accept(n) ==
    /\ helper = "up" /\ conn[n].pc = "queued"
    /\ backoff' = 0
    /\ \/ /\ slots < MaxConns
          /\ slots' = slots + 1
          /\ open' = open \cup {n}
          /\ conn' = [conn EXCEPT ![n] = Held("await")]
       \/ /\ slots >= MaxConns
          /\ conn' = [conn EXCEPT ![n] = Held("gone")]
          /\ UNCHANGED <<slots, open>>
    /\ UNCHANGED <<client, pipe, helper>>

\* No descriptor for the connection: it stays in the queue.
AcceptFails ==
    /\ helper = "up"
    /\ \E n \in Conns : conn[n].pc = "queued"
    /\ helper' = "backoff"
    /\ backoff' = nextBackoff(backoff)
    /\ UNCHANGED <<client, pipe, conn, slots, open>>

AcceptRetries ==
    /\ helper = "backoff"
    /\ helper' = "up"
    /\ UNCHANGED <<client, pipe, conn, slots, open, backoff>>

\* SIGTERM: the listener is closed, and with it what was never accepted.
Shutdown ==
    /\ Listening
    /\ helper' = "stopping"
    /\ conn' = [n \in Conns |-> IF conn[n].pc = "queued" THEN Held("gone") ELSE conn[n]]
    /\ UNCHANGED <<client, pipe, slots, open, backoff>>

\* The process ends: closeAll and return, a fatal accept error, or a crash.
Exit ==
    /\ helper # "down"
    /\ helper' = "down"
    /\ conn' = [n \in Conns |-> Held("gone")]
    /\ slots' = 0 /\ open' = {} /\ backoff' = 0
    /\ UNCHANGED <<client, pipe>>

\* systemd starts it again.
Start ==
    /\ helper = "down"
    /\ helper' = "up"
    /\ UNCHANGED <<client, pipe, conn, slots, open, backoff>>

(***************************************************************************)
(* The helper's side: a connection.                                        *)
(***************************************************************************)
OpDeadlineOwn(ms) == Greater(MinOpDeadline, Lesser(MaxOpDeadline, OpDefault))

\* The caller may shorten the configured deadline, never extend it, and
\* not below MinOpDeadline.
OpDeadline(ms) ==
    LET own == Lesser(MaxOpDeadline, OpDefault) IN
    Greater(MinOpDeadline, IF ms > 0 THEN Lesser(ms * PerMS, own) ELSE own)

\* A request is read, whether or not its caller still waits, and dispatched.
ReadRequest(n) ==
    /\ conn[n].pc = "await" /\ pipe[n].req > 0
    /\ conn' = [conn EXCEPT ![n] =
                   [pc |-> "op", left |-> OpDeadline(pipe[n].req - 1), res |-> "none"]]
    /\ pipe' = [pipe EXCEPT ![n] = [@ EXCEPT !.req = 0]]
    /\ UNCHANGED <<client, slots, open, helper, backoff>>

\* The handler returns: at any time, after its deadline too, or never.
HandlerReturns(n, r) ==
    /\ conn[n].pc = "op"
    /\ conn' = [conn EXCEPT ![n] = [@ EXCEPT !.pc = "reply", !.res = r]]
    /\ UNCHANGED <<client, pipe, slots, open, helper, backoff>>

\* handleConn's deferred untrack and Close.
EndConn(n) ==
    /\ conn' = [conn EXCEPT ![n] = Held("ending")]
    /\ open' = open \ {n}
    /\ UNCHANGED <<slots, helper, backoff>>

\* The answer is written and the next request awaited.  A frame above the
\* cap is replaced by an error, after which the connection ends, as it does
\* when the daemon has hung up.
WriteReply(n) ==
    /\ conn[n].pc = "reply"
    /\ \/ /\ pipe[n].peer = "open" /\ conn[n].res # "big"
          /\ pipe' = [pipe EXCEPT ![n] = [@ EXCEPT !.resp = conn[n].res]]
          /\ conn' = [conn EXCEPT ![n] = Held("await")]
          /\ UNCHANGED <<slots, open, helper, backoff>>
       \/ /\ pipe[n].peer = "open" /\ conn[n].res = "big"
          /\ pipe' = [pipe EXCEPT ![n] = [@ EXCEPT !.resp = "truncated"]]
          /\ EndConn(n)
       \/ /\ pipe[n].peer = "shut"
          /\ EndConn(n)
          /\ UNCHANGED pipe
    /\ UNCHANGED client

HangUpIgnored(n) == FALSE /\ UNCHANGED vars

HangUpUntracked(n) ==
    /\ conn[n].pc = "await" /\ pipe[n].req = 0 /\ pipe[n].peer = "shut"
    /\ conn' = [conn EXCEPT ![n] = Held("ending")]
    /\ UNCHANGED <<client, pipe, slots, open, helper, backoff>>

\* Waiting for a request, the helper finds that the daemon has closed.
HangUp(n) ==
    /\ conn[n].pc = "await" /\ pipe[n].req = 0 /\ pipe[n].peer = "shut"
    /\ EndConn(n)
    /\ UNCHANGED <<client, pipe>>

\* The goroutine's deferred release of its slot.
Release(n) ==
    /\ conn[n].pc = "ending"
    /\ conn' = [conn EXCEPT ![n] = Held("gone")]
    /\ slots' = slots - 1
    /\ UNCHANGED <<client, pipe, open, helper, backoff>>

(***************************************************************************)
(* Time, and the specification.                                            *)
(***************************************************************************)
Tick ==
    /\ call' = [c \in Calls |->
                   [call[c] EXCEPT !.left = Sooner(@), !.sock = Sooner(@)]]
    /\ conn' = [n \in Conns |-> [conn[n] EXCEPT !.left = Sooner(@)]]
    /\ UNCHANGED <<got, sem, pipe, slots, open, helper, backoff>>

Init ==
    /\ call = [c \in Calls |-> Calling("idle", 0)]
    /\ got = [c \in Calls |-> "none"]
    /\ sem = 0
    /\ conn = [n \in Conns |-> Held("gone")]
    /\ pipe = [n \in Conns |-> [req |-> 0, resp |-> "none", peer |-> "shut"]]
    /\ slots = 0 /\ open = {}
    /\ helper = "up" /\ backoff = 0

CallStep(c) ==
    \/ Acquire(c) \/ AcquireFails(c)
    \/ \E n \in Conns : Dial(c, n)
    \/ DialFails(c) \/ Send(c) \/ ReceiveAnswer(c) \/ ReadFails(c)

ConnStep(n) ==
    Accept(n) \/ ReadRequest(n) \/ WriteReply(n) \/ HangUp(n) \/ Release(n)

Next ==
    \/ \E c \in Calls, left \in 1 .. Timeout : Begin(c, left)
    \/ \E c \in Calls : CallStep(c)
    \/ \E n \in Conns : ConnStep(n)
    \/ \E n \in Conns, r \in Outcomes : HandlerReturns(n, r)
    \/ AcceptFails \/ AcceptRetries \/ Shutdown \/ Exit \/ Start
    \/ Tick

Spec == Init /\ [][Next]_vars

(***************************************************************************)
(* The same on a host that is short of neither CPU nor descriptors: time   *)
(* passes only while every goroutine of both programs is blocked, and      *)
(* Accept does not fail.                                                   *)
(***************************************************************************)
CallBlocked(c) ==
    \/ call[c].pc \in {"idle", "done"}
    \/ call[c].pc = "acquire" /\ sem >= MaxInFlight /\ call[c].left > 0
    \/ /\ call[c].pc = "read" /\ call[c].sock > 0
       /\ pipe[call[c].conn].resp = "none"
       /\ conn[call[c].conn].pc \notin {"ending", "gone"}

ConnBlocked(n) ==
    \/ conn[n].pc \in {"gone", "op"}
    \/ conn[n].pc = "await" /\ pipe[n].req = 0 /\ pipe[n].peer = "open"

AllBlocked == (\A c \in Calls : CallBlocked(c)) /\ (\A n \in Conns : ConnBlocked(n))

PromptNext ==
    \/ \E c \in Calls, left \in 1 .. Timeout : Begin(c, left)
    \/ \E c \in Calls : CallStep(c)
    \/ \E n \in Conns : ConnStep(n)
    \/ \E n \in Conns, r \in Outcomes : HandlerReturns(n, r)
    \/ Shutdown \/ Exit \/ Start
    \/ AllBlocked /\ Tick

PromptSpec == Init /\ [][PromptNext]_vars

\* Goroutines that can run do, and timers fire.  Nothing makes a handler
\* return, a stopped helper end, or the helper start again.
Fairness ==
    /\ WF_vars(Tick)
    /\ WF_vars(AcceptRetries)
    /\ \A c \in Calls : WF_vars(CallStep(c))
    /\ \A n \in Conns : WF_vars(ConnStep(n))

LiveSpec == Spec /\ Fairness

(***************************************************************************)
(* Properties.                                                             *)
(***************************************************************************)

\* Type invariant: the clocks of Call and dispatch and the accept loop's
\* backoff stay within their bounds, and no slot is freed twice.
TypeOK ==
    /\ call \in [Calls -> Call]
    /\ got \in [Calls -> Returns]
    /\ sem \in Nat
    /\ conn \in [Conns -> Conn]
    /\ pipe \in [Conns -> Pipe]
    /\ slots \in Nat
    /\ open \subseteq Conns
    /\ helper \in {"up", "backoff", "stopping", "down"}
    /\ backoff \in 0 .. BackoffMax

\* The slots of Client.sem that are taken are those of the calls between
\* Acquire and return, and the slots of Server.sem those of the goroutines
\* that serve a connection, however the calls and the connections end.
SlotsExact == sem = Cardinality(Holding) /\ slots = Cardinality(Serving)

\* The calls in progress and the connections served are within the limits,
\* abandoned operations included.
FanoutBounded ==
    Cardinality(Holding) <= MaxInFlight /\ Cardinality(Serving) <= MaxConns

\* Server.open has exactly the connections that are served and not closed:
\* closeAll reaches every one, and none is kept after its end.
TrackedExact == open = {n \in Serving : conn[n].pc # "ending"}

\* An operation is given no more time than the caller still waits for it,
\* but for MinOpDeadline and the rounding of deadlineMS: no operation runs
\* on under a deadline that its caller has long passed.
OpEndsWithCaller ==
    \A n \in Conns :
        conn[n].pc = "op" =>
            \/ conn[n].left <= MinOpDeadline
            \/ \E c \in Calls : /\ call[c].pc = "read" /\ call[c].conn = n
                                 /\ conn[n].left < call[c].sock + PerMS

\* Every call returns, whatever the helper does or fails to do.
EveryCallReturns == \A c \in Calls : []<>(call[c].pc \in {"idle", "done"})

\* The helper gets back the slot of every connection whose own handler is not
\* blocked for ever: no order of answers and of hanging up, and no handler
\* of another connection, leaves one behind.
SlotsComeBack ==
    \A n \in Conns : []<>(n \notin Serving) \/ <>[](conn[n].pc = "op")

\* What the comment on the deadline in Call says: the helper has Budget to
\* stop its subprocess and answer before the daemon stops waiting, so the
\* socket deadline does not fire on an operation while the context lasts.
ReplyDrained ==
    \A c \in Calls :
        (call[c].pc = "read" /\ call[c].sock = 0 /\ conn[call[c].conn].pc \in {"op", "reply"})
            => call[c].left = 0
=============================================================================
