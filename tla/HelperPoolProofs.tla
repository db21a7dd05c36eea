--------------------------- MODULE HelperPoolProofs ---------------------------
(***************************************************************************)
(* Proofs about HelperPool: types, that the two semaphores and the set of  *)
(* tracked connections are exact, and that no operation outlives its       *)
(* caller's patience, for any number of calls, connections and slots and   *)
(* any deadlines.                                                          *)
(***************************************************************************)
EXTENDS HelperPool, FiniteSetTheorems, TLAPS

(***************************************************************************)
(* The inductive invariant.                                                *)
(***************************************************************************)

\* The types without the two counters, which are natural numbers only
\* because they are exact.
Shape ==
    /\ call \in [Calls -> Call]
    /\ got \in [Calls -> Returns]
    /\ conn \in [Conns -> Conn]
    /\ pipe \in [Conns -> Pipe]
    /\ open \subseteq Conns
    /\ helper \in {"up", "backoff", "stopping", "down"}
    /\ backoff \in 0 .. BackoffMax

\* A call that has dialled has a connection, and a reply has an outcome.
Links ==
    /\ \A c \in Calls : call[c].pc \in {"send", "read"} => call[c].conn \in Conns
    /\ \A n \in Conns : conn[n].pc = "reply" => conn[n].res \in Outcomes

IInv == Shape /\ Links /\ SlotsExact /\ FanoutBounded /\ TrackedExact

(***************************************************************************)
(* Facts about the operators.                                              *)
(***************************************************************************)

\* The holders of slots are finitely many.
LEMMA HoldersFinite ==
    /\ IsFiniteSet(Holding) /\ Cardinality(Holding) \in Nat
    /\ IsFiniteSet(Serving) /\ Cardinality(Serving) \in Nat
<1>1. Holding \in SUBSET Calls /\ Serving \in SUBSET Conns
  BY DEF Holding, Serving
<1> QED
  BY <1>1, PoolAssumption, FS_Subset, FS_CardinalityType

\* The socket deadline of Call is never later than its context's, and the
\* budget it sends is at least a millisecond.
LEMMA SocketDeadline ==
    ASSUME NEW left \in 0 .. Timeout
    PROVE  /\ helperDL(left) \in 0 .. left
           /\ left > 0 => helperDL(left) > 0
<1> USE BudgetAssumption
<1> QED BY DEF helperDL

\* The budget is rounded up: it covers what is left, by less than a
\* millisecond, and is never the 0 that OpDeadline takes for none.
LEMMA BudgetSent ==
    ASSUME NEW dl \in Nat \ {0}
    PROVE  /\ deadlineMS(dl) \in Nat \ {0}
           /\ deadlineMS(dl) * PerMS >= dl
           /\ deadlineMS(dl) * PerMS < dl + PerMS
<1>1. PerMS \in Nat \ {0}
  BY BudgetAssumption
<1>2. deadlineMS(dl) = (dl + PerMS - 1) \div PerMS
  BY DEF deadlineMS
<1>3. ASSUME NEW a \in Nat, NEW b \in Nat \ {0}
      PROVE  /\ a \div b \in Nat
             /\ (a \div b) * b <= a /\ a < (a \div b) * b + b
  OBVIOUS
<1>4. dl + PerMS - 1 \in Nat
  BY <1>1
<1>5. /\ deadlineMS(dl) \in Nat
      /\ deadlineMS(dl) * PerMS <= dl + PerMS - 1
      /\ dl + PerMS - 1 < deadlineMS(dl) * PerMS + PerMS
  BY <1>1, <1>2, <1>3, <1>4
<1>6. deadlineMS(dl) # 0
  <2>1. SUFFICES ASSUME deadlineMS(dl) = 0 PROVE FALSE
    OBVIOUS
  <2>2. dl + PerMS - 1 < PerMS
    BY <1>1, <1>5, <2>1
  <2> QED BY <1>1, <2>2
<1>7. PICK k \in Nat : k = deadlineMS(dl) * PerMS
  BY <1>1, <1>5
<1> QED
  BY <1>1, <1>5, <1>6, <1>7

\* OpDeadline never exceeds MaxOpDeadline, is never below MinOpDeadline, and
\* above that never exceeds what the caller asked for.
LEMMA OpDeadlineBounds ==
    ASSUME NEW ms \in Nat
    PROVE  /\ OpDeadline(ms) \in MinOpDeadline .. MaxOpDeadline
           /\ ms > 0 => OpDeadline(ms) <= MinOpDeadline \/ OpDeadline(ms) <= ms * PerMS
<1>1. PICK k \in Nat : k = ms * PerMS
  BY BudgetAssumption
<1> QED
  BY <1>1, BudgetAssumption DEF OpDeadline, Lesser, Greater

\* The accept loop always waits, and never longer than BackoffMax.
LEMMA BackoffBounded ==
    ASSUME NEW d \in 0 .. BackoffMax
    PROVE  nextBackoff(d) \in 1 .. BackoffMax
BY BudgetAssumption DEF nextBackoff, Lesser

\* A step that leaves the program counters' classes alone takes no slot.
LEMMA SameHolders ==
    /\ UNCHANGED call => Holding' = Holding
    /\ UNCHANGED conn => Serving' = Serving
BY DEF Holding, Serving

(***************************************************************************)
(* Types.                                                                  *)
(***************************************************************************)

\* The deferred calls of Call, and the close of its connection, keep the
\* types.
LEMMA ReturnShape ==
    ASSUME Shape, Links, NEW c \in Calls, NEW r \in Returns, Return(c, r)
    PROVE  /\ call' \in [Calls -> Call] /\ got' \in [Calls -> Returns]
           /\ \A d \in Calls : call'[d].pc \in {"send", "read"} => call'[d].conn \in Conns
<1>1. call \in [Calls -> Call] /\ got \in [Calls -> Returns]
  BY DEF Shape
<1>2. call' = [call EXCEPT ![c] = [@ EXCEPT !.pc = "done", !.conn = NoConn]]
  BY DEF Return
<1>3. got' = [got EXCEPT ![c] = r]
  BY DEF Return
<1>4. call' \in [Calls -> Call]
  BY <1>1, <1>2 DEF Call
<1>5. ASSUME NEW d \in Calls, call'[d].pc \in {"send", "read"}
      PROVE  call'[d].conn \in Conns
  <2>1. d # c
    BY <1>1, <1>2, <1>5 DEF Call
  <2>2. call'[d] = call[d]
    BY <1>1, <1>2, <2>1
  <2> QED BY <1>5, <2>2 DEF Links
<1> QED
  BY <1>1, <1>3, <1>4, <1>5

\* Closing the daemon's end of a connection keeps the type of the socket.
LEMMA ShutShape ==
    ASSUME Shape, NEW n \in Conns, Shut(n)
    PROVE  pipe' \in [Conns -> Pipe]
BY DEF Shape, Shut, Pipe

\* A step of a call keeps the types.
LEMMA CallShape ==
    ASSUME Shape, Links, NEW c \in Calls,
           CallStep(c) \/ \E left \in 1 .. Timeout : Begin(c, left)
    PROVE  Shape' /\ Links'
<1> USE DEF Shape
<1>1. CASE \E left \in 1 .. Timeout : Begin(c, left)
  <2>1. PICK left \in 1 .. Timeout : Begin(c, left)
    BY <1>1
  <2>2. left \in 0 .. Timeout /\ 0 \in 0 .. Timeout
    BY BudgetAssumption
  <2>3. Calling("acquire", left) \in Call
    BY <2>2 DEF Calling, Call
  <2>4. Calling("acquire", left).pc = "acquire"
    BY DEF Calling
  <2> QED BY <2>1, <2>3, <2>4 DEF Begin, Links, server, Returns
<1>2. CASE Acquire(c)
  BY <1>2 DEF Acquire, Links, server, Call
<1>3. CASE AcquireFails(c)
  BY <1>3 DEF AcquireFails, Links, server, Call, Returns
<1>4. ASSUME NEW n \in Conns, Dial(c, n) PROVE Shape' /\ Links'
  <2>1. Held("queued") \in Conn /\ Held("queued").pc = "queued"
    BY BudgetAssumption DEF Held, Conn
  <2>2. conn' \in [Conns -> Conn]
    BY <1>4, <2>1 DEF Dial
  <2>3. pipe' \in [Conns -> Pipe]
    BY <1>4 DEF Dial, Pipe
  <2>4. call' \in [Calls -> Call]
    BY <1>4 DEF Dial, Call
  <2>5. Links'
    BY <1>4, <2>1 DEF Dial, Links, Call
  <2> QED BY <1>4, <2>2, <2>3, <2>4, <2>5 DEF Dial
<1>5. CASE DialFails(c)
  <2>1. Return(c, "dial") /\ UNCHANGED <<pipe, server>>
    BY <1>5 DEF DialFails
  <2> QED BY <2>1, ReturnShape DEF Returns, Links, server
<1>6. CASE Send(c)
  <2> DEFINE n == call[c].conn
             dl == helperDL(call[c].left)
  <2>1. call[c].pc = "send" /\ n \in Conns /\ call[c].left \in 0 .. Timeout
    BY <1>6 DEF Send, Links, Call
  <2>2. UNCHANGED server
    BY <1>6 DEF Send
  <2>3. CASE Return(c, "write") /\ Shut(n)
    BY <2>1, <2>2, <2>3, ReturnShape, ShutShape DEF Returns, Links, server
  <2>4. CASE /\ dl > 0
             /\ pipe' = [pipe EXCEPT ![n] = [@ EXCEPT !.req = deadlineMS(dl) + 1]]
             /\ call' = [call EXCEPT ![c] = [@ EXCEPT !.pc = "read", !.sock = dl]]
             /\ UNCHANGED <<got, sem>>
    <3>1. dl \in 0 .. Timeout /\ dl \in Nat \ {0}
      BY <2>1, <2>4, SocketDeadline, BudgetAssumption
    <3>2. deadlineMS(dl) + 1 \in Nat
      BY <3>1, BudgetSent
    <3>3. pipe' \in [Conns -> Pipe]
      <4>1. PICK q \in Nat : q = deadlineMS(dl) + 1
        BY <3>2
      <4>2. PICK k \in Conns : k = n
        BY <2>1
      <4>3. pipe' = [pipe EXCEPT ![k] = [@ EXCEPT !.req = q]]
        BY <2>4, <4>1, <4>2
      <4> QED BY <4>3 DEF Pipe
    <3>4. call' \in [Calls -> Call]
      BY <2>4, <3>1 DEF Call
    <3>5. Links'
      BY <2>1, <2>2, <2>4 DEF Links, server, Call
    <3> QED BY <2>2, <2>4, <3>3, <3>4, <3>5 DEF server
  <2> QED BY <1>6, <2>3, <2>4 DEF Send
<1>7. CASE ReceiveAnswer(c)
  <2>1. call[c].conn \in Conns
    BY <1>7 DEF ReceiveAnswer, Links
  <2>2. pipe[call[c].conn].resp \in Returns
    BY <2>1 DEF Pipe, Returns
  <2> QED BY <1>7, <2>1, <2>2, ReturnShape, ShutShape DEF ReceiveAnswer, Links, server
<1>8. CASE ReadFails(c)
  <2>1. call[c].conn \in Conns
    BY <1>8 DEF ReadFails, Links
  <2> QED BY <1>8, <2>1, ReturnShape, ShutShape DEF ReadFails, Links, server, Returns
<1> QED
  BY <1>1, <1>2, <1>3, <1>4, <1>5, <1>6, <1>7, <1>8 DEF CallStep

\* A connection at rest has the type of a connection.
LEMMA HeldType ==
    ASSUME NEW pc \in {"gone", "queued", "await", "ending"}
    PROVE  Held(pc) \in Conn /\ Held(pc).pc = pc
BY BudgetAssumption DEF Held, Conn

\* A step of the helper keeps the types.
LEMMA ServerShape ==
    ASSUME Shape, Links,
           \/ \E n \in Conns : ConnStep(n) \/ \E r \in Outcomes : HandlerReturns(n, r)
           \/ AcceptFails \/ AcceptRetries \/ Shutdown \/ Exit \/ Start
    PROVE  Shape' /\ Links'
<1> USE DEF Shape, client
<1>0. 0 \in 0 .. BackoffMax
  BY BudgetAssumption
<1>1. ASSUME NEW n \in Conns, Accept(n) PROVE Shape' /\ Links'
  <2>1. PICK pc \in {"gone", "await"} : conn' = [conn EXCEPT ![n] = Held(pc)]
    BY <1>1 DEF Accept
  <2>2. conn' \in [Conns -> Conn] /\ (open' \subseteq Conns)
    BY <1>1, <2>1, HeldType DEF Accept
  <2>3. Links'
    BY <1>1, <2>1, HeldType DEF Accept, Links
  <2> QED BY <1>0, <1>1, <2>2, <2>3 DEF Accept
<1>2. ASSUME NEW n \in Conns, ReadRequest(n) PROVE Shape' /\ Links'
  <2>1. pipe[n].req - 1 \in Nat
    BY <1>2 DEF ReadRequest, Pipe
  <2>2. PICK d \in 0 .. MaxOpDeadline : d = OpDeadline(pipe[n].req - 1)
    BY <2>1, OpDeadlineBounds, BudgetAssumption
  <2>3. conn' = [conn EXCEPT ![n] = [pc |-> "op", left |-> d, res |-> "none"]]
    BY <1>2, <2>2 DEF ReadRequest
  <2>4. conn' \in [Conns -> Conn]
    BY <2>3 DEF Conn
  <2>5. pipe' \in [Conns -> Pipe]
    BY <1>2 DEF ReadRequest, Pipe
  <2>6. Links'
    BY <1>2, <2>3 DEF ReadRequest, Links
  <2> QED BY <1>2, <2>4, <2>5, <2>6 DEF ReadRequest
<1>3. ASSUME NEW n \in Conns, NEW r \in Outcomes, HandlerReturns(n, r)
      PROVE  Shape' /\ Links'
  BY <1>3 DEF HandlerReturns, Links, Conn
<1>4. ASSUME NEW n \in Conns, WriteReply(n) PROVE Shape' /\ Links'
  <2>1. PICK pc \in {"await", "ending"} : conn' = [conn EXCEPT ![n] = Held(pc)]
    BY <1>4 DEF WriteReply, EndConn
  <2>2. conn' \in [Conns -> Conn] /\ open' \subseteq Conns
    BY <1>4, <2>1, HeldType DEF WriteReply, EndConn
  <2>3. pipe' \in [Conns -> Pipe]
    <3>1. conn[n].res \in Outcomes
      BY <1>4 DEF WriteReply, Links
    <3>2. conn[n].res # "big" => conn[n].res \in {"ok", "err", "deadline"}
      BY <3>1 DEF Outcomes
    <3> QED BY <1>4, <3>2 DEF WriteReply, Pipe
  <2>4. Links'
    BY <1>4, <2>1, HeldType DEF WriteReply, EndConn, Links
  <2> QED BY <1>4, <2>2, <2>3, <2>4 DEF WriteReply, EndConn
<1>5. ASSUME NEW n \in Conns, HangUp(n) PROVE Shape' /\ Links'
  BY <1>5, HeldType DEF HangUp, EndConn, Links
<1>6. ASSUME NEW n \in Conns, Release(n) PROVE Shape' /\ Links'
  BY <1>6, HeldType DEF Release, Links
<1>7. CASE AcceptFails
  <2>1. backoff' \in 0 .. BackoffMax
    BY <1>7, BackoffBounded DEF AcceptFails
  <2> QED BY <1>7, <2>1 DEF AcceptFails, Links
<1>8. CASE AcceptRetries
  BY <1>8 DEF AcceptRetries, Links
<1>9. CASE Shutdown
  BY <1>9, HeldType DEF Shutdown, Links
<1>10. CASE Exit
  BY <1>0, <1>10, HeldType DEF Exit, Links
<1>11. CASE Start
  BY <1>11 DEF Start, Links
<1> QED
  BY <1>1, <1>2, <1>3, <1>4, <1>5, <1>6, <1>7, <1>8, <1>9, <1>10, <1>11 DEF ConnStep

\* What an update of two fields leaves alone.
LEMMA TwoClocks ==
    ASSUME NEW S, NEW T, NEW C, NEW l \in T, NEW k \in T,
           NEW r \in [pc : S, left : T, sock : T, conn : C]
    PROVE  /\ [r EXCEPT !.left = l, !.sock = k] \in [pc : S, left : T, sock : T, conn : C]
           /\ [r EXCEPT !.left = l, !.sock = k].pc = r.pc
           /\ [r EXCEPT !.left = l, !.sock = k].conn = r.conn
OBVIOUS

\* The passage of time keeps the types.
LEMMA TickShape ==
    ASSUME Shape, Links, Tick
    PROVE  /\ Shape' /\ Links'
           /\ \A c \in Calls : call'[c].pc = call[c].pc
           /\ \A n \in Conns : conn'[n].pc = conn[n].pc
<1> USE DEF Shape
<1>1. ASSUME NEW b \in Nat, NEW t \in 0 .. b PROVE Sooner(t) \in 0 .. b
  BY DEF Sooner
<1>2. ASSUME NEW c \in Calls
      PROVE  call'[c] \in Call /\ call'[c].pc = call[c].pc /\ call'[c].conn = call[c].conn
  <2>1. PICK l \in 0 .. Timeout, k \in 0 .. Timeout :
           l = Sooner(call[c].left) /\ k = Sooner(call[c].sock)
    BY <1>1, BudgetAssumption DEF Call
  <2>2. call'[c] = [call[c] EXCEPT !.left = l, !.sock = k]
    BY <2>1 DEF Tick
  <2>3. call[c] \in Call
    OBVIOUS
  <2>4. PICK r \in Call : r = call[c]
    BY <2>3
  <2>5. /\ [r EXCEPT !.left = l, !.sock = k] \in Call
        /\ [r EXCEPT !.left = l, !.sock = k].pc = r.pc
        /\ [r EXCEPT !.left = l, !.sock = k].conn = r.conn
    BY TwoClocks, Zenon DEF Call
  <2> QED BY <2>2, <2>4, <2>5, Zenon
<1>3. ASSUME NEW n \in Conns
      PROVE  conn'[n] \in Conn /\ conn'[n].pc = conn[n].pc /\ conn'[n].res = conn[n].res
  <2>1. PICK l \in 0 .. MaxOpDeadline : l = Sooner(conn[n].left)
    BY <1>1, BudgetAssumption DEF Conn
  <2>2. conn'[n] = [conn[n] EXCEPT !.left = l]
    BY <2>1 DEF Tick
  <2> QED BY <2>2 DEF Conn
<1>4. call' \in [Calls -> Call] /\ conn' \in [Conns -> Conn]
  BY <1>2, <1>3 DEF Tick
<1>5. Links'
  BY <1>2, <1>3 DEF Links
<1> QED
  BY <1>2, <1>3, <1>4, <1>5 DEF Tick

(***************************************************************************)
(* The slots.                                                              *)
(***************************************************************************)

\* A set that gains or loses a member changes its size by one.
LEMMA OneMore ==
    ASSUME NEW S, IsFiniteSet(S), NEW x
    PROVE  /\ x \notin S => Cardinality(S \cup {x}) = Cardinality(S) + 1
           /\ x \in S => Cardinality(S \ {x}) = Cardinality(S) - 1
<1>1. Cardinality(S) \in Nat
  BY FS_CardinalityType
<1> QED BY <1>1, FS_AddElement, FS_RemoveElement

\* Every step of a call either leaves the daemon's slots alone, or takes
\* one as the call becomes a holder, or frees one as it ceases to be.
LEMMA CallSlots ==
    ASSUME Shape, Links, NEW c \in Calls,
           CallStep(c) \/ \E left \in 1 .. Timeout : Begin(c, left)
    PROVE  \/ Holding' = Holding /\ sem' = sem
           \/ /\ c \notin Holding /\ sem < MaxInFlight
              /\ Holding' = Holding \cup {c} /\ sem' = sem + 1
           \/ c \in Holding /\ Holding' = Holding \ {c} /\ sem' = sem - 1
<1>0. call \in [Calls -> Call]
  BY DEF Shape
<1>1. ASSUME NEW left \in 1 .. Timeout, Begin(c, left)
      PROVE  Holding' = Holding /\ sem' = sem
  <2>1. Calling("acquire", left).pc = "acquire"
    BY DEF Calling
  <2> QED BY <1>0, <1>1, <2>1 DEF Begin, Holding
<1>2. CASE Acquire(c)
  BY <1>0, <1>2 DEF Acquire, Holding, Call
<1>3. CASE AcquireFails(c)
  BY <1>0, <1>3 DEF AcquireFails, Holding, Call
<1>4. ASSUME NEW n \in Conns, Dial(c, n)
      PROVE  Holding' = Holding /\ sem' = sem
  BY <1>0, <1>4 DEF Dial, Holding, Call
<1>5. ASSUME NEW r, Return(c, r), c \in Holding
      PROVE  Holding' = Holding \ {c} /\ sem' = sem - 1
  BY <1>0, <1>5 DEF Return, Holding, Call
<1>6. CASE DialFails(c)
  BY <1>5, <1>6 DEF DialFails, Holding
<1>7. CASE Send(c)
  <2>1. CASE \E r : Return(c, r)
    BY <1>5, <1>7, <2>1 DEF Send, Holding
  <2>2. CASE /\ call' = [call EXCEPT ![c] = [@ EXCEPT !.pc = "read", !.sock = helperDL(call[c].left)]]
             /\ UNCHANGED sem
    BY <1>0, <1>7, <2>2 DEF Send, Holding, Call
  <2> QED BY <1>7, <2>1, <2>2 DEF Send
<1>8. CASE ReceiveAnswer(c)
  BY <1>5, <1>8 DEF ReceiveAnswer, Holding
<1>9. CASE ReadFails(c)
  BY <1>5, <1>9 DEF ReadFails, Holding
<1> QED
  BY <1>1, <1>2, <1>3, <1>4, <1>6, <1>7, <1>8, <1>9 DEF CallStep

\* The same for a step of a connection and the helper's slots; it also
\* follows what closeAll would close.
LEMMA ConnSlots ==
    ASSUME Shape, TrackedExact, NEW n \in Conns,
           ConnStep(n) \/ \E r \in Outcomes : HandlerReturns(n, r)
    PROVE  /\ \/ Serving' = Serving /\ slots' = slots
              \/ /\ n \notin Serving /\ slots < MaxConns
                 /\ Serving' = Serving \cup {n} /\ slots' = slots + 1
              \/ n \in Serving /\ Serving' = Serving \ {n} /\ slots' = slots - 1
           /\ TrackedExact'
<1>0. conn \in [Conns -> Conn]
  BY DEF Shape
<1>h. ASSUME NEW pc \in {"gone", "queued", "await", "ending"},
             conn' = [conn EXCEPT ![n] = Held(pc)]
      PROVE  /\ conn'[n].pc = pc
             /\ \A k \in Conns : k # n => conn'[k] = conn[k]
  BY <1>0, <1>h, HeldType
<1>1. CASE Accept(n)
  <2>1. CASE /\ slots < MaxConns /\ slots' = slots + 1 /\ open' = open \cup {n}
             /\ conn' = [conn EXCEPT ![n] = Held("await")]
    BY <1>1, <1>h, <2>1 DEF Accept, Serving, TrackedExact
  <2>2. CASE /\ conn' = [conn EXCEPT ![n] = Held("gone")]
             /\ UNCHANGED <<slots, open>>
    BY <1>1, <1>h, <2>2 DEF Accept, Serving, TrackedExact
  <2> QED BY <1>1, <2>1, <2>2 DEF Accept
<1>2. CASE ReadRequest(n)
  <2>1. conn'[n].pc = "op" /\ \A k \in Conns : k # n => conn'[k] = conn[k]
    BY <1>0, <1>2 DEF ReadRequest
  <2> QED BY <1>2, <2>1 DEF ReadRequest, Serving, TrackedExact
<1>3. ASSUME NEW r \in Outcomes, HandlerReturns(n, r)
      PROVE  Serving' = Serving /\ slots' = slots /\ TrackedExact'
  <2>1. conn'[n].pc = "reply" /\ \A k \in Conns : k # n => conn'[k] = conn[k]
    BY <1>0, <1>3 DEF HandlerReturns, Conn
  <2> QED BY <1>3, <2>1 DEF HandlerReturns, Serving, TrackedExact
<1>4. ASSUME EndConn(n), conn[n].pc \in {"await", "reply"}
      PROVE  Serving' = Serving /\ slots' = slots /\ TrackedExact'
  <2>1. conn'[n].pc = "ending" /\ \A k \in Conns : k # n => conn'[k] = conn[k]
    BY <1>4, <1>h DEF EndConn
  <2> QED BY <1>4, <2>1 DEF EndConn, Serving, TrackedExact
<1>5. CASE WriteReply(n)
  <2>1. CASE EndConn(n)
    BY <1>4, <1>5, <2>1 DEF WriteReply
  <2>2. CASE /\ conn' = [conn EXCEPT ![n] = Held("await")]
             /\ UNCHANGED <<slots, open, helper, backoff>>
    BY <1>5, <1>h, <2>2 DEF WriteReply, Serving, TrackedExact
  <2> QED BY <1>5, <2>1, <2>2 DEF WriteReply
<1>6. CASE HangUp(n)
  BY <1>4, <1>6 DEF HangUp
<1>7. CASE Release(n)
  <2>1. conn'[n].pc = "gone" /\ \A k \in Conns : k # n => conn'[k] = conn[k]
    BY <1>7, <1>h DEF Release
  <2> QED BY <1>7, <2>1 DEF Release, Serving, TrackedExact
<1> QED
  BY <1>1, <1>2, <1>3, <1>5, <1>6, <1>7 DEF ConnStep

\* A step of a call leaves the helper's slots alone, and a step of the
\* helper the daemon's.
LEMMA SidesApart ==
    /\ \A c \in Calls :
          (CallStep(c) \/ \E left \in 1 .. Timeout : Begin(c, left))
              => UNCHANGED <<slots, open>>
    /\ \A n \in Conns :
          (ConnStep(n) \/ \E r \in Outcomes : HandlerReturns(n, r)) => UNCHANGED client
<1>1. ASSUME NEW c \in Calls, CallStep(c) \/ \E left \in 1 .. Timeout : Begin(c, left)
      PROVE  UNCHANGED <<slots, open>>
  BY <1>1, Zenon DEF CallStep, Begin, Acquire, AcquireFails, Dial, DialFails, Send,
     ReceiveAnswer, ReadFails, server
<1>2. ASSUME NEW n \in Conns, ConnStep(n) \/ \E r \in Outcomes : HandlerReturns(n, r)
      PROVE  UNCHANGED client
  BY <1>2, Zenon DEF ConnStep, Accept, ReadRequest, HandlerReturns, WriteReply, HangUp, Release
<1> QED BY <1>1, <1>2

\* Dialling adds a connection to the queue, not to those that are served.
LEMMA CallServing ==
    ASSUME Shape, NEW c \in Calls,
           CallStep(c) \/ \E left \in 1 .. Timeout : Begin(c, left)
    PROVE  /\ Serving' = Serving
           /\ \A n \in Serving : conn'[n] = conn[n]
<1>1. CASE UNCHANGED conn
  BY <1>1 DEF Serving
<1>2. ASSUME NEW n \in Conns, Dial(c, n)
      PROVE  Serving' = Serving /\ \A k \in Serving : conn'[k] = conn[k]
  <2>1. conn'[n].pc = "queued" /\ \A k \in Conns : k # n => conn'[k] = conn[k]
    BY <1>2, HeldType DEF Dial, Shape
  <2>2. n \notin Serving
    BY <1>2 DEF Dial, Unused, Serving
  <2> QED BY <2>1, <2>2 DEF Serving
<1>3. UNCHANGED conn \/ \E n \in Conns : Dial(c, n)
  BY Zenon DEF CallStep, Begin, Acquire, AcquireFails, DialFails, Send,
     ReceiveAnswer, ReadFails, server
<1> QED BY <1>1, <1>2, <1>3

(***************************************************************************)
(* The invariant.                                                          *)
(***************************************************************************)

\* Both programs start without calls and without connections.
LEMMA InitInv == Init => IInv
<1>1. SUFFICES ASSUME Init PROVE IInv
  OBVIOUS
<1>2. Calling("idle", 0) \in Call /\ Calling("idle", 0).pc = "idle"
  BY BudgetAssumption DEF Calling, Call
<1>3. Held("gone") \in Conn /\ Held("gone").pc = "gone"
  BY HeldType
<1>4. Shape /\ Links
  BY <1>1, <1>2, <1>3, BudgetAssumption DEF Init, Shape, Links, Returns, Pipe
<1>5. Holding = {} /\ Serving = {}
  BY <1>1, <1>2, <1>3 DEF Init, Holding, Serving
<1>6. SlotsExact /\ FanoutBounded
  BY <1>1, <1>5, FS_EmptySet, PoolAssumption DEF Init, SlotsExact, FanoutBounded
<1>7. TrackedExact
  BY <1>1, <1>5 DEF Init, TrackedExact
<1> QED BY <1>4, <1>6, <1>7 DEF IInv

\* Every step keeps the invariant.
LEMMA NextInv == IInv /\ [Next]_vars => IInv'
<1>1. SUFFICES ASSUME IInv, [Next]_vars PROVE IInv'
  OBVIOUS
<1>2. Shape /\ Links /\ SlotsExact /\ FanoutBounded /\ TrackedExact
  BY <1>1 DEF IInv
<1>f. /\ IsFiniteSet(Holding) /\ Cardinality(Holding) \in Nat
      /\ IsFiniteSet(Serving) /\ Cardinality(Serving) \in Nat
  BY HoldersFinite
<1>3. ASSUME NEW c \in Calls, CallStep(c) \/ \E left \in 1 .. Timeout : Begin(c, left)
      PROVE  IInv'
  <2>1. Shape' /\ Links'
    BY <1>2, <1>3, CallShape
  <2>2. Serving' = Serving /\ UNCHANGED <<slots, open>>
    BY <1>2, <1>3, CallServing, SidesApart
  <2>3. TrackedExact'
    BY <1>2, <1>3, <2>2, CallServing DEF TrackedExact
  <2>4. sem' = Cardinality(Holding') /\ Cardinality(Holding') <= MaxInFlight
    <3>1. sem = Cardinality(Holding) /\ Cardinality(Holding) <= MaxInFlight
      BY <1>2 DEF SlotsExact, FanoutBounded
    <3>2. CASE Holding' = Holding /\ sem' = sem
      BY <3>1, <3>2
    <3>3. CASE /\ c \notin Holding /\ sem < MaxInFlight
               /\ Holding' = Holding \cup {c} /\ sem' = sem + 1
      BY <1>f, <3>1, <3>3, OneMore, PoolAssumption
    <3>4. CASE c \in Holding /\ Holding' = Holding \ {c} /\ sem' = sem - 1
      BY <1>f, <3>1, <3>4, OneMore, PoolAssumption
    <3> QED BY <1>2, <1>3, <3>2, <3>3, <3>4, CallSlots
  <2>5. SlotsExact' /\ FanoutBounded'
    BY <1>2, <2>2, <2>4 DEF SlotsExact, FanoutBounded
  <2> QED BY <2>1, <2>3, <2>5 DEF IInv
<1>4. ASSUME NEW n \in Conns, ConnStep(n) \/ \E r \in Outcomes : HandlerReturns(n, r)
      PROVE  IInv'
  <2>1. Shape' /\ Links'
    BY <1>2, <1>4, ServerShape
  <2>2. UNCHANGED <<call, sem>>
    BY <1>4, SidesApart DEF client
  <2>3. slots' = Cardinality(Serving') /\ Cardinality(Serving') <= MaxConns
    <3>1. slots = Cardinality(Serving) /\ Cardinality(Serving) <= MaxConns
      BY <1>2 DEF SlotsExact, FanoutBounded
    <3>2. CASE Serving' = Serving /\ slots' = slots
      BY <3>1, <3>2
    <3>3. CASE /\ n \notin Serving /\ slots < MaxConns
               /\ Serving' = Serving \cup {n} /\ slots' = slots + 1
      BY <1>f, <3>1, <3>3, OneMore, PoolAssumption
    <3>4. CASE n \in Serving /\ Serving' = Serving \ {n} /\ slots' = slots - 1
      BY <1>f, <3>1, <3>4, OneMore, PoolAssumption
    <3> QED BY <1>2, <1>4, <3>2, <3>3, <3>4, ConnSlots
  <2>4. Holding' = Holding
    BY <2>2, SameHolders
  <2>5. SlotsExact' /\ FanoutBounded'
    BY <1>2, <2>2, <2>3, <2>4 DEF SlotsExact, FanoutBounded
  <2>6. TrackedExact'
    BY <1>2, <1>4, ConnSlots
  <2> QED BY <2>1, <2>5, <2>6 DEF IInv
<1>5. CASE AcceptFails \/ AcceptRetries \/ Start
  <2>1. Shape' /\ Links'
    BY <1>2, <1>5, ServerShape
  <2>2. UNCHANGED <<call, conn, sem, slots, open>>
    BY <1>5 DEF AcceptFails, AcceptRetries, Start, client
  <2>3. Holding' = Holding /\ Serving' = Serving
    BY <2>2, SameHolders
  <2>4. SlotsExact' /\ FanoutBounded' /\ TrackedExact'
    BY <1>2, <2>2, <2>3 DEF SlotsExact, FanoutBounded, TrackedExact
  <2> QED BY <2>1, <2>4 DEF IInv
<1>6. CASE Shutdown
  <2>1. Shape' /\ Links'
    BY <1>2, <1>6, ServerShape
  <2>2. UNCHANGED <<call, sem, slots, open>>
    BY <1>6 DEF Shutdown, client
  <2>3. Serving' = Serving /\ \A n \in Serving : conn'[n] = conn[n]
    BY <1>6, HeldType DEF Shutdown, Serving
  <2>4. Holding' = Holding
    BY <2>2, SameHolders
  <2>5. SlotsExact' /\ FanoutBounded' /\ TrackedExact'
    BY <1>2, <2>2, <2>3, <2>4 DEF SlotsExact, FanoutBounded, TrackedExact
  <2> QED BY <2>1, <2>5 DEF IInv
<1>7. CASE Exit
  <2>1. Shape' /\ Links'
    BY <1>2, <1>7, ServerShape
  <2>2. UNCHANGED <<call, sem>> /\ slots' = 0 /\ open' = {}
    BY <1>7 DEF Exit, client
  <2>3. Serving' = {} /\ Holding' = Holding
    BY <1>7, <2>2, HeldType, SameHolders DEF Exit, Serving
  <2>4. Cardinality(Serving') = 0
    BY <2>3, FS_EmptySet
  <2>5. SlotsExact' /\ FanoutBounded' /\ TrackedExact'
    BY <1>2, <2>2, <2>3, <2>4, PoolAssumption DEF SlotsExact, FanoutBounded, TrackedExact
  <2> QED BY <2>1, <2>5 DEF IInv
<1>8. CASE Tick
  <2>1. /\ Shape' /\ Links'
        /\ \A c \in Calls : call'[c].pc = call[c].pc
        /\ \A n \in Conns : conn'[n].pc = conn[n].pc
    BY <1>2, <1>8, TickShape
  <2>2. Holding' = Holding /\ Serving' = Serving
    BY <2>1 DEF Holding, Serving
  <2>3. UNCHANGED <<sem, slots, open>>
    BY <1>8 DEF Tick
  <2>4. SlotsExact' /\ FanoutBounded'
    BY <1>2, <2>2, <2>3 DEF SlotsExact, FanoutBounded
  <2>5. TrackedExact'
    BY <1>2, <2>1, <2>2, <2>3 DEF TrackedExact, Serving
  <2> QED BY <2>1, <2>4, <2>5 DEF IInv
<1>9. CASE UNCHANGED vars
  BY <1>1, <1>9 DEF IInv, Shape, Links, SlotsExact, FanoutBounded, TrackedExact,
     Holding, Serving, vars
<1> QED
  BY <1>1, <1>3, <1>4, <1>5, <1>6, <1>7, <1>8, <1>9 DEF Next

(***************************************************************************)
(* The theorems.                                                           *)
(***************************************************************************)

\* The inductive invariant holds in every behaviour of Call, Serve,
\* handleConn and dispatch.
THEOREM Invariance == Spec => []IInv
BY InitInv, NextInv, PTL DEF Spec

\* Type correctness of the model of helperinvoke and helper/server: the
\* clocks and the accept loop's backoff stay within their bounds and neither
\* semaphore is freed more often than taken.
THEOREM TypeCorrect == Spec => []TypeOK
<1>1. IInv => TypeOK
  BY HoldersFinite DEF IInv, Shape, SlotsExact, TypeOK
<1> QED BY <1>1, Invariance, PTL

\* Client.sem and Server.sem hold exactly one slot for each call in progress
\* and each connection served: however a call or a connection ends, its slot
\* comes back, once.
THEOREM SemaphoresExact == Spec => []SlotsExact
<1>1. IInv => SlotsExact
  BY DEF IInv
<1> QED BY <1>1, Invariance, PTL

\* Neither limit is ever exceeded, whatever is abandoned, restarted or late.
THEOREM FanoutLimited == Spec => []FanoutBounded
<1>1. IInv => FanoutBounded
  BY DEF IInv
<1> QED BY <1>1, Invariance, PTL

\* closeAll reaches exactly the connections that are still served.
THEOREM TrackingExact == Spec => []TrackedExact
<1>1. IInv => TrackedExact
  BY DEF IInv
<1> QED BY <1>1, Invariance, PTL

(***************************************************************************)
(* The deadline of an operation and the patience of its caller.            *)
(***************************************************************************)

\* The call has connection n.
Using(c, n) == call[c].pc \in {"send", "read"} /\ call[c].conn = n

\* No two calls share a connection.
Alone == \A n \in Conns : \A c, d \in Calls : Using(c, n) /\ Using(d, n) => c = d

\* A call that has dialled has its end open.  What it has sent and the helper has
\* not read yet carries the time the call still waits: none of it passes before
\* the helper reads it.  From then on the operation has less than that and a
\* millisecond, or no more than MinOpDeadline.
CallerOK(c, n) ==
    /\ pipe[n].peer = "open"
    /\ call[c].pc = "send" => pipe[n].req = 0 /\ pipe[n].resp = "none" /\ conn[n].pc \in {"queued", "await", "gone"}
    /\ call[c].pc = "read" =>
          /\ conn[n].pc \in {"queued", "await"} /\ pipe[n].req > 0 =>
                pipe[n].resp = "none" /\ call[c].sock > 0 /\ pipe[n].req = deadlineMS(call[c].sock) + 1
          /\ conn[n].pc \in {"op", "reply"} => pipe[n].req = 0 /\ pipe[n].resp = "none"
          /\ conn[n].pc = "op" => conn[n].left <= MinOpDeadline \/ conn[n].left < call[c].sock + PerMS

\* A connection without a call has nothing left to read, and what still runs on
\* it ends within MinOpDeadline.
OrphanOK(n) ==
    /\ pipe[n].peer = "shut"
    /\ conn[n].pc \in {"queued", "await"} => pipe[n].req = 0
    /\ conn[n].pc = "op" => conn[n].left <= MinOpDeadline

ConnOK(n) ==
    /\ \A c \in Calls : Using(c, n) => CallerOK(c, n)
    /\ (\A c \in Calls : ~Using(c, n)) => OrphanOK(n)

PromptInv == IInv /\ Alone /\ \A n \in Conns : ConnOK(n)

\* A connection that a step leaves alone, with its call, stays as it should be.
LEMMA Elsewhere ==
    ASSUME NEW n \in Conns, ConnOK(n), conn'[n] = conn[n], pipe'[n] = pipe[n],
           \A c \in Calls : Using(c, n)' <=> Using(c, n),
           \A c \in Calls : Using(c, n) => call'[c].pc = call[c].pc /\ call'[c].sock = call[c].sock
    PROVE  ConnOK(n)'
<1>1. ASSUME NEW c \in Calls, Using(c, n)'
      PROVE  CallerOK(c, n)'
  <2>1. Using(c, n) /\ CallerOK(c, n)
    BY <1>1 DEF ConnOK
  <2> QED  BY <2>1 DEF CallerOK, deadlineMS
<1>2. ASSUME \A c \in Calls : ~Using(c, n)'
      PROVE  OrphanOK(n)'
  <2>1. OrphanOK(n)
    BY <1>2 DEF ConnOK
  <2> QED  BY <2>1 DEF OrphanOK
<1> QED  BY <1>1, <1>2 DEF ConnOK

\* Who uses a connection does not change where calls keep their place and their
\* connection.
LEMMA SameUsers ==
    ASSUME Alone, \A c \in Calls, n \in Conns : Using(c, n)' => Using(c, n)
    PROVE  Alone'
BY DEF Alone

\* A step of a call that has no connection before or after it.
LEMMA Unconnected ==
    ASSUME PromptInv, NEW c \in Calls, UNCHANGED <<conn, pipe>>,
           call[c].pc \notin {"send", "read"}, call'[c].pc \notin {"send", "read"},
           \A d \in Calls \ {c} : call'[d] = call[d]
    PROVE  Alone' /\ \A n \in Conns : ConnOK(n)'
<1>1. \A d \in Calls, n \in Conns : Using(d, n)' <=> Using(d, n)
  BY DEF Using
<1>2. \A d \in Calls, n \in Conns : Using(d, n) => call'[d] = call[d]
  BY DEF Using
<1>3. Alone'
  BY <1>1, SameUsers DEF PromptInv
<1>4. ASSUME NEW n \in Conns
      PROVE  ConnOK(n)'
  BY <1>1, <1>2, Elsewhere DEF PromptInv
<1> QED  BY <1>3, <1>4

\* A call returns and closes its connection: what it leaves behind on the
\* helper's side is no more than an orphan may have.
LEMMA LetGo ==
    ASSUME PromptInv, NEW c \in Calls, NEW n \in Conns, Using(c, n), NEW r, Return(c, r), Shut(n), UNCHANGED conn,
           conn[n].pc \in {"queued", "await"} => pipe[n].req = 0,
           conn[n].pc = "op" => conn[n].left <= MinOpDeadline
    PROVE  Alone' /\ \A m \in Conns : ConnOK(m)'
<1>1. call \in [Calls -> Call] /\ pipe \in [Conns -> Pipe]
  BY DEF PromptInv, IInv, Shape
<1>2. call'[c].pc = "done" /\ \A d \in Calls \ {c} : call'[d] = call[d]
  BY <1>1 DEF Return, Call
<1>3. pipe'[n].req = pipe[n].req /\ pipe'[n].peer = "shut" /\ \A m \in Conns \ {n} : pipe'[m] = pipe[m]
  BY <1>1 DEF Shut
<1>4. \A d \in Calls, m \in Conns : Using(d, m)' <=> Using(d, m) /\ d # c
  BY <1>2 DEF Using
<1>5. Alone'
  BY <1>4, SameUsers DEF PromptInv
<1>6. \A d \in Calls : Using(d, n) => d = c
  BY DEF PromptInv, Alone
<1>7. ConnOK(n)'
  <2>1. OrphanOK(n)'
    BY <1>3 DEF OrphanOK
  <2> QED  BY <1>4, <1>6, <2>1 DEF ConnOK
<1>8. ASSUME NEW m \in Conns, m # n
      PROVE  ConnOK(m)'
  <2>1. ~Using(c, m)
    BY <1>8 DEF Using
  <2>2. \A d \in Calls : Using(d, m)' <=> Using(d, m)
    BY <1>4, <2>1
  <2>3. \A d \in Calls : Using(d, m) => call'[d] = call[d]
    BY <1>2, <2>1
  <2> QED  BY <1>3, <1>8, <2>2, <2>3, Elsewhere DEF PromptInv
<1> QED  BY <1>5, <1>7, <1>8

\* A call dials a connection that nobody has.
LEMMA DialOK ==
    ASSUME PromptInv, NEW c \in Calls, NEW n \in Conns, Dial(c, n)
    PROVE  Alone' /\ \A m \in Conns : ConnOK(m)'
<1>1. call \in [Calls -> Call] /\ pipe \in [Conns -> Pipe] /\ conn \in [Conns -> Conn]
  BY DEF PromptInv, IInv, Shape
<1>2. /\ call[c].pc = "dial" /\ call'[c].pc = "send" /\ call'[c].conn = n
      /\ \A d \in Calls \ {c} : call'[d] = call[d]
  BY <1>1 DEF Dial, Call
<1>3. /\ conn'[n].pc = "queued" /\ pipe'[n].req = 0 /\ pipe'[n].resp = "none" /\ pipe'[n].peer = "open"
      /\ \A m \in Conns \ {n} : conn'[m] = conn[m] /\ pipe'[m] = pipe[m]
  BY <1>1 DEF Dial, Held
<1>4. \A d \in Calls : ~Using(d, n)
  BY DEF Dial, Unused, PromptInv, ConnOK, CallerOK
<1>5. \A d \in Calls, m \in Conns : Using(d, m)' <=> Using(d, m) \/ (d = c /\ m = n)
  BY <1>2 DEF Using
<1>6. Alone'
  BY <1>4, <1>5 DEF PromptInv, Alone
<1>7. ConnOK(n)'
  <2>1. CallerOK(c, n)'
    BY <1>2, <1>3 DEF CallerOK
  <2> QED  BY <1>4, <1>5, <2>1 DEF ConnOK
<1>8. ASSUME NEW m \in Conns, m # n
      PROVE  ConnOK(m)'
  <2>1. ~Using(c, m)
    BY <1>2 DEF Using
  <2>2. \A d \in Calls : Using(d, m) => call'[d] = call[d]
    BY <1>2, <2>1
  <2> QED  BY <1>3, <1>5, <1>8, <2>2, Elsewhere DEF PromptInv
<1> QED  BY <1>6, <1>7, <1>8

\* A call sends the time it will wait, or finds that it cannot.
LEMMA SendOK ==
    ASSUME PromptInv, NEW c \in Calls, Send(c)
    PROVE  Alone' /\ \A m \in Conns : ConnOK(m)'
<1>1. call \in [Calls -> Call] /\ pipe \in [Conns -> Pipe] /\ conn \in [Conns -> Conn]
  BY DEF PromptInv, IInv, Shape
<1>2. PICK n \in Conns : n = call[c].conn
  BY DEF PromptInv, IInv, Links, Send
<1>3. Using(c, n) /\ call[c].pc = "send" /\ UNCHANGED conn
  BY <1>2 DEF Send, Using, server
<1>4. CallerOK(c, n) /\ pipe[n].req = 0 /\ conn[n].pc \in {"queued", "await", "gone"}
  BY <1>3 DEF PromptInv, ConnOK, CallerOK
<1> DEFINE dl == helperDL(call[c].left)
<1>5. CASE Return(c, "write") /\ Shut(n)
  BY <1>3, <1>4, <1>5, LetGo
<1>6. CASE /\ conn[n].pc # "gone" /\ dl > 0
           /\ pipe' = [pipe EXCEPT ![n] = [@ EXCEPT !.req = deadlineMS(dl) + 1]]
           /\ call' = [call EXCEPT ![c] = [@ EXCEPT !.pc = "read", !.sock = dl]]
  <2> HIDE DEF dl
  <2>1. /\ call'[c].pc = "read" /\ call'[c].sock = dl /\ call'[c].conn = n
        /\ \A d \in Calls \ {c} : call'[d] = call[d]
    BY <1>1, <1>2, <1>6 DEF Call
  <2>2. /\ pipe'[n].req = deadlineMS(dl) + 1 /\ pipe'[n].resp = pipe[n].resp /\ pipe'[n].peer = pipe[n].peer
        /\ \A m \in Conns \ {n} : pipe'[m] = pipe[m]
    BY <1>1, <1>6 DEF Pipe
  <2>3. \A d \in Calls, m \in Conns : Using(d, m)' <=> Using(d, m)
    BY <1>2, <1>3, <2>1 DEF Using
  <2>4. Alone'
    BY <2>3, SameUsers DEF PromptInv
  <2>5. \A d \in Calls : Using(d, n) => d = c
    BY <1>3 DEF PromptInv, Alone
  <2>6. CallerOK(c, n)'
    <3>1. pipe[n].resp = "none" /\ pipe[n].peer = "open"
      BY <1>3, <1>4 DEF CallerOK
    <3>2. /\ pipe'[n].peer = "open" /\ pipe'[n].resp = "none" /\ call'[c].sock > 0
          /\ pipe'[n].req = deadlineMS(call'[c].sock) + 1 /\ conn'[n].pc \notin {"op", "reply"}
      BY <1>3, <1>4, <1>6, <2>1, <2>2, <3>1 DEF deadlineMS
    <3> QED  BY <2>1, <3>2 DEF CallerOK, deadlineMS
  <2>7. ConnOK(n)'
    BY <1>3, <2>3, <2>5, <2>6 DEF ConnOK
  <2>8. ASSUME NEW m \in Conns, m # n
        PROVE  ConnOK(m)'
    <3>1. ~Using(c, m)
      BY <1>2, <2>8 DEF Using
    <3>2. \A d \in Calls : Using(d, m) => call'[d] = call[d]
      BY <2>1, <3>1
    <3> QED  BY <1>3, <2>2, <2>3, <2>8, <3>2, Elsewhere DEF PromptInv
  <2> QED  BY <2>4, <2>7, <2>8
<1> QED  BY <1>2, <1>5, <1>6 DEF Send

\* A call stops waiting: its operation is not running, or about to end.
LEMMA ReadOK ==
    ASSUME PromptInv, NEW c \in Calls, ReceiveAnswer(c) \/ ReadFails(c)
    PROVE  Alone' /\ \A m \in Conns : ConnOK(m)'
<1>1. call \in [Calls -> Call] /\ pipe \in [Conns -> Pipe] /\ conn \in [Conns -> Conn]
  BY DEF PromptInv, IInv, Shape
<1>2. PICK n \in Conns : n = call[c].conn
  BY DEF PromptInv, IInv, Links, ReceiveAnswer, ReadFails
<1>3. /\ Using(c, n) /\ call[c].pc = "read" /\ UNCHANGED conn /\ Shut(n) /\ \E r : Return(c, r)
      /\ \/ pipe[n].resp # "none"
         \/ call[c].sock = 0
         \/ conn[n].pc \in {"ending", "gone"}
  BY <1>2 DEF ReceiveAnswer, ReadFails, Using, server
<1>4. CallerOK(c, n)
  BY <1>3 DEF PromptInv, ConnOK
<1>5. pipe[n].req \in Nat /\ conn[n].left \in Nat /\ MinOpDeadline \in Nat /\ PerMS \in Nat /\ PerMS <= MinOpDeadline
  BY <1>1, BudgetAssumption DEF Pipe, Conn
<1>6. conn[n].pc \in {"queued", "await"} => pipe[n].req = 0
  BY <1>3, <1>4, <1>5 DEF CallerOK
<1>7. conn[n].pc = "op" => conn[n].left <= MinOpDeadline
  BY <1>3, <1>4, <1>5 DEF CallerOK
<1> QED  BY <1>3, <1>6, <1>7, LetGo

\* Every step of a call.
LEMMA CallPrompt ==
    ASSUME PromptInv, NEW c \in Calls, CallStep(c) \/ \E left \in 1 .. Timeout : Begin(c, left)
    PROVE  Alone' /\ \A n \in Conns : ConnOK(n)'
<1>1. call \in [Calls -> Call]
  BY DEF PromptInv, IInv, Shape
<1>2. CASE (\E left \in 1 .. Timeout : Begin(c, left)) \/ Acquire(c) \/ AcquireFails(c) \/ DialFails(c)
  <2>1. call[c].pc \notin {"send", "read"} /\ UNCHANGED <<conn, pipe>>
    BY <1>2 DEF Begin, Acquire, AcquireFails, DialFails, server
  <2>2. call'[c].pc \notin {"send", "read"} /\ \A d \in Calls \ {c} : call'[d] = call[d]
    <3>1. CASE \E left \in 1 .. Timeout : Begin(c, left)
      BY <1>1, <3>1 DEF Begin, Calling
    <3>2. CASE Acquire(c) \/ AcquireFails(c)
      BY <1>1, <3>2 DEF Acquire, AcquireFails, Call
    <3>3. CASE DialFails(c)
      BY <1>1, <3>3 DEF DialFails, Return, Call
    <3> QED  BY <1>2, <3>1, <3>2, <3>3
  <2> QED  BY <2>1, <2>2, Unconnected
<1> QED  BY <1>2, DialOK, SendOK, ReadOK DEF CallStep

-----------------------------------------------------------------------------

\* Where the calls do not move, it is enough to look at each connection.
LEMMA OneSide ==
    ASSUME NEW n \in Conns, UNCHANGED call,
           \A c \in Calls : Using(c, n) => CallerOK(c, n)',
           (\A c \in Calls : ~Using(c, n)) => OrphanOK(n)'
    PROVE  ConnOK(n)'
<1>1. \A c \in Calls : Using(c, n)' <=> Using(c, n)
  BY DEF Using
<1> QED  BY <1>1 DEF ConnOK

\* A connection that the helper closes asks nothing more of anybody.
LEMMA Closed ==
    ASSUME NEW n \in Conns, UNCHANGED call, ConnOK(n), pipe'[n] = pipe[n],
           conn'[n].pc \in {"gone", "ending"}, conn'[n].pc = "ending" => \A c \in Calls : ~Using(c, n)
    PROVE  ConnOK(n)'
<1>1. ASSUME NEW c \in Calls, Using(c, n)
      PROVE  CallerOK(c, n)'
  <2>1. CallerOK(c, n) /\ conn'[n].pc = "gone"
    BY <1>1 DEF ConnOK
  <2> QED  BY <2>1 DEF CallerOK
<1>2. ASSUME \A c \in Calls : ~Using(c, n)
      PROVE  OrphanOK(n)'
  <2>1. OrphanOK(n)
    BY <1>2 DEF ConnOK
  <2> QED  BY <2>1 DEF OrphanOK
<1> QED  BY <1>1, <1>2, OneSide

\* The helper's side of a connection takes a step.
LEMMA ConnPrompt ==
    ASSUME PromptInv, NEW n \in Conns, ConnStep(n) \/ \E r \in Outcomes : HandlerReturns(n, r)
    PROVE  ConnOK(n)'
<1>1. pipe \in [Conns -> Pipe] /\ conn \in [Conns -> Conn] /\ call \in [Calls -> Call] /\ ConnOK(n)
  BY DEF PromptInv, IInv, Shape
<1>2. UNCHANGED call
  BY DEF ConnStep, Accept, ReadRequest, WriteReply, HangUp, Release, HandlerReturns, client
<1>3. CASE Accept(n)
  <2>1. conn[n].pc = "queued" /\ conn'[n].pc \in {"await", "gone"} /\ pipe' = pipe
    BY <1>1, <1>3 DEF Accept, Held
  <2>2. ASSUME NEW c \in Calls, Using(c, n)
        PROVE  CallerOK(c, n)'
    <3>1. CallerOK(c, n)
      BY <1>1, <2>2 DEF ConnOK
    <3> QED  BY <1>2, <2>1, <3>1 DEF CallerOK, deadlineMS
  <2>3. ASSUME \A c \in Calls : ~Using(c, n)
        PROVE  OrphanOK(n)'
    BY <1>1, <2>1, <2>3 DEF ConnOK, OrphanOK
  <2> QED  BY <1>2, <2>2, <2>3, OneSide
<1>4. CASE ReadRequest(n)
  <2>1. /\ conn[n].pc = "await" /\ pipe[n].req > 0 /\ conn'[n].pc = "op"
        /\ conn'[n].left = OpDeadline(pipe[n].req - 1)
        /\ pipe'[n].req = 0 /\ pipe'[n].resp = pipe[n].resp /\ pipe'[n].peer = pipe[n].peer
    BY <1>1, <1>4 DEF ReadRequest, Pipe
  <2>2. ASSUME NEW c \in Calls, Using(c, n)
        PROVE  CallerOK(c, n)'
    <3>1. CallerOK(c, n) /\ call[c].pc = "read"
      <4>1. CallerOK(c, n) /\ pipe[n].req # 0
        BY <1>1, <2>1, <2>2 DEF ConnOK
      <4> QED  BY <2>2, <4>1 DEF CallerOK, Using
    <3> DEFINE w == call[c].sock
               ms == deadlineMS(w)
    <3>2. /\ pipe[n].peer = "open" /\ pipe[n].resp = "none" /\ w \in Nat \ {0}
          /\ pipe[n].req = ms + 1
      <4>1. w \in Nat
        BY <1>1, BudgetAssumption DEF Call
      <4> QED  BY <2>1, <3>1, <4>1 DEF CallerOK
    <3>3. ms \in Nat \ {0} /\ ms * PerMS < w + PerMS
      BY <3>2, BudgetSent
    <3> HIDE DEF ms, w
    <3>4. OpDeadline(ms) <= MinOpDeadline \/ OpDeadline(ms) <= ms * PerMS
      BY <3>3, OpDeadlineBounds
    <3>5. pipe[n].req - 1 = ms
      BY <3>2, <3>3
    <3>6. conn'[n].left <= MinOpDeadline \/ conn'[n].left < w + PerMS
      <4>1. PICK k \in Nat : k = ms * PerMS
        BY <3>3, BudgetAssumption
      <4>2. OpDeadline(ms) \in Nat /\ PerMS \in Nat
        BY <3>3, OpDeadlineBounds, BudgetAssumption
      <4> QED  BY <2>1, <3>2, <3>3, <3>4, <3>5, <4>1, <4>2
    <3>7. call'[c].pc = "read" /\ call'[c].sock = w
      BY <1>2, <3>1 DEF w
    <3> QED  BY <2>1, <3>2, <3>6, <3>7 DEF CallerOK
  <2>3. \E c \in Calls : Using(c, n)
    BY <1>1, <2>1 DEF ConnOK, OrphanOK
  <2> QED  BY <1>2, <2>2, <2>3, OneSide
<1>5. CASE WriteReply(n)
  <2>1. conn[n].pc = "reply"
    BY <1>5 DEF WriteReply
  <2>2. CASE pipe[n].peer = "open"
    <3>1. /\ conn'[n].pc \in {"await", "ending"} /\ pipe'[n].req = pipe[n].req /\ pipe'[n].peer = "open"
      BY <1>1, <1>5, <2>2 DEF WriteReply, EndConn, Held, Pipe
    <3>2. ASSUME NEW c \in Calls, Using(c, n)
          PROVE  CallerOK(c, n)'
      <4>1. CallerOK(c, n) /\ call[c].pc = "read" /\ pipe[n].req = 0
        <5>1. CallerOK(c, n)
          BY <1>1, <3>2 DEF ConnOK
        <5> QED  BY <2>1, <3>2, <5>1 DEF CallerOK, Using
      <4> QED  BY <1>2, <3>1, <4>1 DEF CallerOK
    <3>3. \E c \in Calls : Using(c, n)
      BY <1>1, <2>2 DEF ConnOK, OrphanOK
    <3> QED  BY <1>2, <3>2, <3>3, OneSide
  <2>3. CASE pipe[n].peer # "open"
    <3>1. conn'[n].pc = "ending" /\ pipe' = pipe
      BY <1>1, <1>5, <2>3 DEF WriteReply, EndConn, Held
    <3>2. \A c \in Calls : ~Using(c, n)
      BY <1>1, <2>3 DEF ConnOK, CallerOK
    <3> QED  BY <1>1, <1>2, <3>1, <3>2, Closed
  <2> QED  BY <2>2, <2>3
<1>6. CASE HangUp(n)
  <2>1. conn'[n].pc = "ending" /\ pipe' = pipe /\ pipe[n].peer = "shut"
    BY <1>1, <1>6 DEF HangUp, EndConn, Held
  <2>2. \A c \in Calls : ~Using(c, n)
    BY <1>1, <2>1 DEF ConnOK, CallerOK
  <2> QED  BY <1>1, <1>2, <2>1, <2>2, Closed
<1>7. CASE Release(n)
  <2>1. conn'[n].pc = "gone" /\ pipe' = pipe
    BY <1>1, <1>7 DEF Release, Held
  <2> QED  BY <1>1, <1>2, <2>1, Closed
<1>8. CASE \E r \in Outcomes : HandlerReturns(n, r)
  <2>1. conn[n].pc = "op" /\ conn'[n].pc = "reply" /\ pipe' = pipe
    BY <1>1, <1>8 DEF HandlerReturns, Conn
  <2>2. ASSUME NEW c \in Calls, Using(c, n)
        PROVE  CallerOK(c, n)'
    <3>1. CallerOK(c, n)
      BY <1>1, <2>2 DEF ConnOK
    <3> QED  BY <1>2, <2>1, <2>2, <3>1 DEF CallerOK, Using
  <2>3. ASSUME \A c \in Calls : ~Using(c, n)
        PROVE  OrphanOK(n)'
    BY <1>1, <2>1, <2>3 DEF ConnOK, OrphanOK
  <2> QED  BY <1>2, <2>2, <2>3, OneSide
<1> QED  BY <1>3, <1>4, <1>5, <1>6, <1>7, <1>8 DEF ConnStep

\* Every step of a connection, and of the helper as a whole.
LEMMA ServerPrompt ==
    ASSUME PromptInv,
           \/ \E n \in Conns : ConnStep(n) \/ \E r \in Outcomes : HandlerReturns(n, r)
           \/ Shutdown \/ Exit \/ Start
    PROVE  Alone' /\ \A m \in Conns : ConnOK(m)'
<1>1. pipe \in [Conns -> Pipe] /\ conn \in [Conns -> Conn] /\ \A m \in Conns : ConnOK(m)
  BY DEF PromptInv, IInv, Shape
<1>2. UNCHANGED call
  BY DEF ConnStep, Accept, ReadRequest, WriteReply, HangUp, Release, HandlerReturns, Shutdown, Exit, Start, client
<1>3. \A c \in Calls, m \in Conns : Using(c, m)' <=> Using(c, m)
  BY <1>2 DEF Using
<1>4. Alone'
  BY <1>3, SameUsers DEF PromptInv
<1>5. ASSUME NEW n \in Conns, ConnStep(n) \/ \E r \in Outcomes : HandlerReturns(n, r), NEW m \in Conns
      PROVE  ConnOK(m)'
  <2>1. CASE m = n
    BY <1>5, <2>1, ConnPrompt
  <2>2. CASE m # n
    <3>1. conn'[m] = conn[m]
      BY <1>1, <1>5, <2>2 DEF ConnStep, Accept, ReadRequest, WriteReply, EndConn, HangUp, Release, HandlerReturns
    <3>2. pipe'[m] = pipe[m]
      BY <1>1, <1>5, <2>2 DEF ConnStep, Accept, ReadRequest, WriteReply, HangUp, Release, HandlerReturns
    <3> QED  BY <1>1, <1>2, <1>3, <3>1, <3>2, Elsewhere
  <2> QED  BY <2>1, <2>2
<1>6. ASSUME Shutdown \/ Exit \/ Start, NEW m \in Conns
      PROVE  ConnOK(m)'
  <2>1. pipe' = pipe /\ (conn'[m] = conn[m] \/ conn'[m].pc = "gone")
    BY <1>6 DEF Shutdown, Exit, Start, Held
  <2>2. CASE conn'[m] = conn[m]
    BY <1>1, <1>2, <1>3, <2>1, <2>2, Elsewhere
  <2>3. CASE conn'[m].pc = "gone"
    BY <1>1, <1>2, <2>1, <2>3, Closed
  <2> QED  BY <2>1, <2>2, <2>3
<1> QED  BY <1>4, <1>5, <1>6

\* Time passes for the operation and for its caller alike, and only when nothing
\* that was sent is still to be read.
LEMMA TickPrompt ==
    ASSUME PromptInv, AllBlocked, Tick
    PROVE  Alone' /\ \A n \in Conns : ConnOK(n)'
<1>1. pipe \in [Conns -> Pipe] /\ conn \in [Conns -> Conn] /\ call \in [Calls -> Call]
  BY DEF PromptInv, IInv, Shape
<1>2. \A c \in Calls : /\ call'[c].pc = call[c].pc /\ call'[c].conn = call[c].conn
                       /\ call'[c].sock = Sooner(call[c].sock)
  BY <1>1 DEF Tick, Call
<1>3. \A n \in Conns : conn'[n].pc = conn[n].pc /\ conn'[n].left = Sooner(conn[n].left)
  BY <1>1 DEF Tick, Conn
<1>4. pipe' = pipe
  BY DEF Tick
<1>5. \A c \in Calls, n \in Conns : Using(c, n)' <=> Using(c, n)
  BY <1>2 DEF Using
<1>6. Alone'
  BY <1>5, SameUsers DEF PromptInv
<1>7. ASSUME NEW n \in Conns
      PROVE  ConnOK(n)'
  <2>1. conn[n].left \in Nat /\ pipe[n].req \in Nat /\ MinOpDeadline \in Nat /\ PerMS \in Nat
    BY <1>1, BudgetAssumption DEF Conn, Pipe
  <2>2. conn[n].pc # "queued" /\ (conn[n].pc = "await" => pipe[n].req = 0)
    BY DEF AllBlocked, ConnBlocked
  <2>3. ASSUME NEW c \in Calls, Using(c, n)
        PROVE  CallerOK(c, n)'
    <3>1. CallerOK(c, n)
      BY <2>3 DEF PromptInv, ConnOK
    <3>2. call[c].pc = "read" /\ call[c].sock > 0 /\ call[c].sock \in Nat
      <4>1. CallBlocked(c)
        BY DEF AllBlocked
      <4>2. call[c].sock \in Nat
        BY <1>1, BudgetAssumption DEF Call
      <4> QED  BY <2>3, <4>1, <4>2 DEF CallBlocked, Using
    <3>3. call'[c].sock = call[c].sock - 1
      BY <1>2, <3>2 DEF Sooner
    <3>4. conn'[n].pc = "op" => conn'[n].left <= MinOpDeadline \/ conn'[n].left < call'[c].sock + PerMS
      BY <1>3, <2>1, <3>1, <3>2, <3>3 DEF CallerOK, Sooner
    <3> QED  BY <1>2, <1>3, <1>4, <2>1, <2>2, <3>1, <3>2, <3>4 DEF CallerOK
  <2>4. ASSUME \A c \in Calls : ~Using(c, n)
        PROVE  OrphanOK(n)'
    <3>1. OrphanOK(n)
      BY <2>4 DEF PromptInv, ConnOK
    <3> QED  BY <1>3, <1>4, <2>1, <3>1 DEF OrphanOK, Sooner
  <2> QED  BY <1>5, <2>3, <2>4 DEF ConnOK
<1> QED  BY <1>6, <1>7

\* On a host that is short of neither CPU nor descriptors no operation is given
\* more time than its caller still waits, but for MinOpDeadline and the rounding.
THEOREM OpsEndWithCallers == PromptSpec => []OpEndsWithCaller
<1>1. Init => PromptInv
  <2> SUFFICES ASSUME Init PROVE PromptInv
    OBVIOUS
  <2>1. \A c \in Calls, n \in Conns : ~Using(c, n)
    BY DEF Init, Calling, Using
  <2>2. \A n \in Conns : OrphanOK(n)
    BY DEF Init, Held, OrphanOK
  <2> QED  BY <2>1, <2>2, InitInv DEF PromptInv, Alone, ConnOK
<1>2. PromptInv /\ [PromptNext]_vars => PromptInv'
  <2> SUFFICES ASSUME PromptInv, [PromptNext]_vars PROVE PromptInv'
    OBVIOUS
  <2>1. IInv'
    <3>1. [Next]_vars
      BY DEF PromptNext, Next
    <3> QED  BY <3>1, NextInv DEF PromptInv
  <2>2. CASE UNCHANGED vars
    <3>1. \A c \in Calls, n \in Conns : Using(c, n)' <=> Using(c, n)
      BY <2>2 DEF Using, vars
    <3>2. Alone'
      BY <3>1, SameUsers DEF PromptInv
    <3>3. ASSUME NEW n \in Conns
          PROVE  ConnOK(n)'
      BY <2>2, <3>1, Elsewhere DEF PromptInv, vars
    <3> QED  BY <2>1, <3>2, <3>3 DEF PromptInv
  <2>3. CASE PromptNext
    <3>1. Alone' /\ \A n \in Conns : ConnOK(n)'
      BY <2>3, CallPrompt, ServerPrompt, TickPrompt DEF PromptNext
    <3> QED  BY <2>1, <3>1 DEF PromptInv
  <2> QED  BY <2>2, <2>3
<1>3. PromptInv => OpEndsWithCaller
  <2> SUFFICES ASSUME PromptInv, NEW n \in Conns, conn[n].pc = "op"
               PROVE  \/ conn[n].left <= MinOpDeadline
                      \/ \E c \in Calls : /\ call[c].pc = "read" /\ call[c].conn = n
                                           /\ conn[n].left < call[c].sock + PerMS
    BY DEF OpEndsWithCaller
  <2>1. CASE \E c \in Calls : Using(c, n)
    BY <2>1 DEF PromptInv, ConnOK, CallerOK, Using
  <2>2. CASE \A c \in Calls : ~Using(c, n)
    BY <2>2 DEF PromptInv, ConnOK, OrphanOK
  <2> QED  BY <2>1, <2>2
<1> QED  BY <1>1, <1>2, <1>3, PTL DEF PromptSpec
===============================================================================
