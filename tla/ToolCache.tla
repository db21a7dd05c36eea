------------------------------ MODULE ToolCache ------------------------------
(***************************************************************************)
(* The response cache of the daemon and the part of the request handler    *)
(* that runs on it: daemon/internal/daemon/cache/cache.go and the second   *)
(* half of handleToolBody in httpserver.go.                                *)
(*                                                                         *)
(* A request looks its key up, asks for admission, joins or starts a       *)
(* singleflight call (a "flight"), and waits for the flight's result, for  *)
(* its own deadline, or for its client to hang up.  A flight is a          *)
(* goroutine of its own: it counts itself in, runs the tool on a context   *)
(* that belongs to no request, stores the result, counts itself out and    *)
(* hands the result to everybody who waits.  Every step that takes a lock, *)
(* or that a scheduler may delay, is an action of its own.                 *)
(*                                                                         *)
(* Time is relative: a request carries the time left to its deadline, a    *)
(* flight and an entry the time since the tool began to observe the host.  *)
(* Ages saturate at AgeCap, beyond which nothing tells them apart.         *)
(***************************************************************************)
EXTENDS Integers, FiniteSets

CONSTANTS
    Callers,            \* connections on which requests are handled
    Keys,               \* cache keys: (tool, canonical arguments)
    Flights,            \* bound: slots for flights that exist at one time
    NoKey, NoFlight,    \* "no key" and "no flight"
    Timeout,            \* per-tool timeout, of the wait and of the work
    TTL,                \* time to live of an entry
    AgeCap,             \* ages are counted up to here
    MaxEntries, MaxInFlightPerKey, MaxInFlightTotal

ASSUME TimeAssumption ==
    /\ Timeout \in Nat \ {0} /\ TTL \in Nat /\ AgeCap \in Nat
    /\ AgeCap > TTL /\ AgeCap >= Timeout
ASSUME LimitAssumption ==
    /\ MaxEntries \in Nat \ {0}
    /\ MaxInFlightPerKey \in Nat \ {0} /\ MaxInFlightTotal \in Nat \ {0}
ASSUME SetAssumption ==
    /\ IsFiniteSet(Callers) /\ IsFiniteSet(Keys) /\ IsFiniteSet(Flights)
    /\ NoKey \notin Keys /\ NoFlight \notin Flights

VARIABLES
    req,            \* per connection: the request being handled
    ans,            \* per connection: what the request has been handed
    flight,         \* per slot: the flight and what it carries
    sf,             \* the singleflight group's map: key -> flight to join
    inFlight,       \* Cache.inFlight; an absent key is 0
    inFlightTotal,  \* Cache.inFlightTotal
    stalled,        \* Cache.stalled: the keys that have logged
    m               \* Cache.m: key -> entry

vars == <<req, ans, flight, sf, inFlight, inFlightTotal, stalled, m>>
counters == <<inFlight, inFlightTotal, stalled>>

(***************************************************************************)
(* Data.                                                                   *)
(***************************************************************************)
Ages == 0 .. AgeCap

\* An entry is stamped `age` ago (Builtat); `obs` ago the tool began to
\* look at the host.  The second is what the first is meant to say.
Entry == [age : Ages, obs : Ages]

\* What a flight hands over.  A marshalling error is an "err".
Results == {"ok", "err", "panic", "deadline"}

Request ==
    [pc     : {"idle", "admit", "dochan", "wait", "forget", "reply"},
     key    : Keys \cup {NoKey},
     left   : 0 .. Timeout,            \* time left on reqCtx
     flight : Flights \cup {NoFlight}] \* the flight this request waits on

At(pc, k, left) == [pc |-> pc, key |-> k, left |-> left, flight |-> NoFlight]
Idle == At("idle", NoKey, 0)

\* While a request waits, what is in its channel; at "reply", what it is
\* answered, the cache_age_s shown and the age of the observation.
Answer ==
    [kind  : Results \cup {"none", "hit", "stalled", "timeout", "canceled", "error"},
     shown : Ages,
     obs   : Ages]

Told(kind) == [kind |-> kind, shown |-> 0, obs |-> 0]

Flight ==
    [pc  : {"free", "start", "handling", "store", "leaving", "left"},
     key : Keys \cup {NoKey},
     age : Ages,                       \* time since observedAt
     res : Results \cup {"none"}]

Fresh(pc, k) == [pc |-> pc, key |-> k, age |-> 0, res |-> "none"]
Free == Fresh("free", NoKey)

\* The flights whose tool is running or whose return is not yet counted.
Entered == {"handling", "store", "leaving"}
Running(k) == {f \in Flights : flight[f].pc \in Entered /\ flight[f].key = k}
AllRunning == {f \in Flights : flight[f].pc \in Entered}

Older(a) == IF a < AgeCap THEN a + 1 ELSE a
Sooner(t) == IF t > 0 THEN t - 1 ELSE 0

Expired(e) == e.age > TTL

Without(fn, k) == [x \in DOMAIN fn \ {k} |-> fn[x]]
With(fn, k, v) == [x \in DOMAIN fn \cup {k} |-> IF x = k THEN v ELSE fn[x]]

(***************************************************************************)
(* The map of entries.                                                     *)
(***************************************************************************)
sweepLockedEarly == [k \in {x \in DOMAIN m : m[x].age < TTL} |-> m[k]]

sweepLocked == [k \in {x \in DOMAIN m : ~Expired(m[x])} |-> m[k]]

StoreGrowing(k, e) ==
    m' = With(IF Cardinality(DOMAIN m) >= MaxEntries THEN sweepLocked ELSE m, k, e)

\* At the cap, and not replacing: drop the expired entries; if none was,
\* skip the write.
Store(k, e) ==
    \/ /\ k \in DOMAIN m \/ Cardinality(DOMAIN m) < MaxEntries
       /\ m' = With(m, k, e)
    \/ /\ k \notin DOMAIN m /\ Cardinality(DOMAIN m) >= MaxEntries
       /\ m' = IF Cardinality(DOMAIN sweepLocked) < MaxEntries
               THEN With(sweepLocked, k, e)
               ELSE sweepLocked

(***************************************************************************)
(* The request's side.                                                     *)
(***************************************************************************)

AtLimit(k) == inFlight[k] >= MaxInFlightPerKey \/ inFlightTotal >= MaxInFlightTotal

\* The bound on flights: a request arrives only while every request that
\* may still start a flight has a slot to start it in.  At a limit a request
\* may arrive alone without one: it is refused, or a flight has left by then.
Room(k) ==
    \/ Cardinality({f \in Flights : flight[f].pc = "free"})
           > Cardinality({c \in Callers : req[c].pc \in {"admit", "dochan"}})
    \/ AtLimit(k) /\ \A c \in Callers : req[c].pc = "idle"

\* A routed, metered request with a valid body reaches Lookup, and hits.
LookupHit(c, k) ==
    /\ req[c].pc = "idle"
    /\ k \in DOMAIN m /\ ~Expired(m[k])
    /\ req' = [req EXCEPT ![c] = At("reply", k, 0)]
    /\ ans' = [ans EXCEPT ![c] = [kind |-> "hit", shown |-> m[k].age, obs |-> m[k].obs]]
    /\ UNCHANGED <<flight, sf, counters, m>>

\* It misses: reqCtx is created with the tool's timeout.
LookupMiss(c, k) ==
    /\ req[c].pc = "idle"
    /\ k \in DOMAIN m => Expired(m[k])
    /\ Room(k)
    /\ req' = [req EXCEPT ![c] = At("admit", k, Timeout)]
    /\ UNCHANGED <<ans, flight, sf, counters, m>>

admit(c) ==
    /\ req[c].pc = "admit"
    /\ \/ /\ AtLimit(req[c].key)
          /\ req' = [req EXCEPT ![c] = [@ EXCEPT !.pc = "reply"]]
          /\ ans' = [ans EXCEPT ![c] = Told("stalled")]
       \/ /\ ~AtLimit(req[c].key)
          /\ req' = [req EXCEPT ![c] = [@ EXCEPT !.pc = "dochan"]]
          /\ UNCHANGED ans
    /\ UNCHANGED <<flight, sf, counters, m>>

\* DoChan: join the flight registered under the key, or register a new one
\* and start its goroutine.
DoChanJoin(c) ==
    /\ req[c].pc = "dochan"
    /\ req[c].key \in DOMAIN sf
    /\ req' = [req EXCEPT ![c] = [@ EXCEPT !.pc = "wait", !.flight = sf[req[c].key]]]
    /\ UNCHANGED <<ans, flight, sf, counters, m>>

DoChanLead(c, f) ==
    /\ req[c].pc = "dochan"
    /\ req[c].key \notin DOMAIN sf
    /\ flight[f].pc = "free"
    /\ flight' = [flight EXCEPT ![f] = Fresh("start", req[c].key)]
    /\ sf' = With(sf, req[c].key, f)
    /\ req' = [req EXCEPT ![c] = [@ EXCEPT !.pc = "wait", !.flight = f]]
    /\ UNCHANGED <<ans, counters, m>>

\* The select picks the result.  handleToolError turns an expired work
\* context into a timeout and everything else into a tool error; the
\* success path writes cache_age_s 0.
Receive(c) ==
    /\ req[c].pc = "wait" /\ ans[c].kind # "none"
    /\ req' = [req EXCEPT ![c] = [@ EXCEPT !.pc = "reply"]]
    /\ ans' = [ans EXCEPT ![c] = [@ EXCEPT !.kind = CASE ans[c].kind = "ok" -> "ok"
                                                   [] ans[c].kind = "deadline" -> "timeout"
                                                   [] OTHER -> "error"]]
    /\ UNCHANGED <<flight, sf, counters, m>>

DeadlineIgnored(c) == FALSE /\ UNCHANGED vars

\* The select picks ctx.Done() and the deadline is what fired; the Forget
\* is a step of its own, under another lock.
Deadline(c) ==
    /\ req[c].pc = "wait" /\ req[c].left = 0
    /\ req' = [req EXCEPT ![c] = [@ EXCEPT !.pc = "forget", !.flight = NoFlight]]
    /\ ans' = [ans EXCEPT ![c] = Told("none")]
    /\ UNCHANGED <<flight, sf, counters, m>>

\* Forget drops whatever flight the key has by now.
Forget(c) ==
    /\ req[c].pc = "forget"
    /\ sf' = Without(sf, req[c].key)
    /\ req' = [req EXCEPT ![c] = [@ EXCEPT !.pc = "reply"]]
    /\ ans' = [ans EXCEPT ![c] = Told("timeout")]
    /\ UNCHANGED <<flight, counters, m>>

CancelForgets(c) ==
    /\ req[c].pc = "wait"
    /\ req' = [req EXCEPT ![c] = [@ EXCEPT !.pc = "forget", !.flight = NoFlight]]
    /\ ans' = [ans EXCEPT ![c] = Told("none")]
    /\ UNCHANGED <<flight, sf, counters, m>>

CancelAbortsWork(c) ==
    /\ req[c].pc = "wait"
    /\ req' = [req EXCEPT ![c] = [@ EXCEPT !.pc = "reply", !.flight = NoFlight]]
    /\ ans' = [ans EXCEPT ![c] = Told("canceled")]
    /\ flight' = [f \in Flights |->
                     IF f = req[c].flight /\ flight[f].pc = "handling"
                     THEN [flight[f] EXCEPT !.pc = "leaving", !.res = "deadline"]
                     ELSE flight[f]]
    /\ UNCHANGED <<sf, counters, m>>

\* The client hangs up, at any moment of the wait: no Forget.
Cancel(c) ==
    /\ req[c].pc = "wait"
    /\ req' = [req EXCEPT ![c] = [@ EXCEPT !.pc = "reply", !.flight = NoFlight]]
    /\ ans' = [ans EXCEPT ![c] = Told("canceled")]
    /\ UNCHANGED <<flight, sf, counters, m>>

\* The reply is written and audited; the connection may carry another request.
Reply(c) ==
    /\ req[c].pc = "reply"
    /\ req' = [req EXCEPT ![c] = Idle]
    /\ ans' = [ans EXCEPT ![c] = Told("none")]
    /\ UNCHANGED <<flight, sf, counters, m>>

(***************************************************************************)
(* The flight's side.                                                      *)
(***************************************************************************)

\* The closure begins: counted in, logged once at the per-key limit, the
\* work context created and observedAt stamped, then tool.Handle.
enter(f) ==
    LET k == flight[f].key IN
    /\ flight[f].pc = "start"
    /\ flight' = [flight EXCEPT ![f] = [@ EXCEPT !.pc = "handling"]]
    /\ inFlight' = [inFlight EXCEPT ![k] = @ + 1]
    /\ inFlightTotal' = inFlightTotal + 1
    /\ stalled' = IF inFlight[k] + 1 >= MaxInFlightPerKey THEN stalled \cup {k} ELSE stalled
    /\ UNCHANGED <<req, ans, sf, m>>

\* tool.Handle returns: a result, an error, a panic that is recovered, or,
\* once the work context has expired, the context's error.
HandleReturns(f, r) ==
    /\ flight[f].pc = "handling"
    /\ r = "deadline" => flight[f].age >= Timeout
    /\ flight' = [flight EXCEPT ![f] = [@ EXCEPT
           !.pc = IF r = "ok" THEN "store" ELSE "leaving", !.res = r]]
    /\ UNCHANGED <<req, ans, sf, counters, m>>

EntryStampedNow(f) == [age |-> 0, obs |-> flight[f].age]

\* The entry built from a result: Builtat is observedAt.
EntryOf(f) == [age |-> flight[f].age, obs |-> flight[f].age]

StoreResult(f) ==
    /\ flight[f].pc = "store"
    /\ Store(flight[f].key, EntryOf(f))
    /\ flight' = [flight EXCEPT ![f] = [@ EXCEPT !.pc = "leaving"]]
    /\ UNCHANGED <<req, ans, sf, counters>>

leaveNotOnPanic(f) ==
    LET k == flight[f].key
        n == IF flight[f].res = "panic" THEN 0 ELSE 1 IN
    /\ flight[f].pc = "leaving"
    /\ flight' = [flight EXCEPT ![f] = [@ EXCEPT !.pc = "left"]]
    /\ inFlightTotal' = inFlightTotal - n
    /\ inFlight' = [inFlight EXCEPT ![k] = @ - n]
    /\ stalled' = IF inFlight[k] - n <= 0 THEN stalled \ {k} ELSE stalled
    /\ UNCHANGED <<req, ans, sf, m>>

leaveTwiceOnPanic(f) ==
    LET k == flight[f].key
        n == IF flight[f].res = "panic" THEN 2 ELSE 1 IN
    /\ flight[f].pc = "leaving"
    /\ flight' = [flight EXCEPT ![f] = [@ EXCEPT !.pc = "left"]]
    /\ inFlightTotal' = inFlightTotal - n
    /\ inFlight' = [inFlight EXCEPT ![k] = IF @ <= n THEN 0 ELSE @ - n]
    /\ stalled' = IF inFlight[k] <= n THEN stalled \ {k} ELSE stalled
    /\ UNCHANGED <<req, ans, sf, m>>

leaveKeepsStalled(f) ==
    LET k == flight[f].key IN
    /\ flight[f].pc = "leaving"
    /\ flight' = [flight EXCEPT ![f] = [@ EXCEPT !.pc = "left"]]
    /\ inFlightTotal' = inFlightTotal - 1
    /\ inFlight' = [inFlight EXCEPT ![k] = @ - 1]
    /\ UNCHANGED <<req, ans, sf, m, stalled>>

\* The deferred leave: counted out on every way out of the closure.
leave(f) ==
    LET k == flight[f].key IN
    /\ flight[f].pc = "leaving"
    /\ flight' = [flight EXCEPT ![f] = [@ EXCEPT !.pc = "left"]]
    /\ inFlightTotal' = inFlightTotal - 1
    /\ inFlight' = [inFlight EXCEPT ![k] = IF @ <= 1 THEN 0 ELSE @ - 1]
    /\ stalled' = IF inFlight[k] <= 1 THEN stalled \ {k} ELSE stalled
    /\ UNCHANGED <<req, ans, sf, m>>

\* A recovered panic reaches the waiters as an error.
Delivered(r) == IF r = "panic" THEN "err" ELSE r

\* singleflight, after the closure: under the group's lock the flight is
\* deregistered if it still is the key's flight, and its result is sent to
\* the channel of everyone who joined it.
Deliver(f) ==
    LET k == flight[f].key IN
    /\ flight[f].pc = "left"
    /\ sf' = IF k \in DOMAIN sf /\ sf[k] = f THEN Without(sf, k) ELSE sf
    /\ req' = [c \in Callers |->
                  IF req[c].pc = "wait" /\ req[c].flight = f
                  THEN [req[c] EXCEPT !.flight = NoFlight] ELSE req[c]]
    /\ ans' = [c \in Callers |->
                  IF req[c].pc = "wait" /\ req[c].flight = f
                  THEN [kind |-> Delivered(flight[f].res), shown |-> 0, obs |-> flight[f].age]
                  ELSE ans[c]]
    /\ flight' = [flight EXCEPT ![f] = Free]
    /\ UNCHANGED <<counters, m>>

(***************************************************************************)
(* The background sweeper, and time.                                       *)
(***************************************************************************)
Sweep ==
    /\ m' = sweepLocked
    /\ UNCHANGED <<req, ans, flight, sf, counters>>

Tick ==
    /\ req' = [c \in Callers |->
                  IF req[c].pc = "reply" THEN req[c]
                  ELSE [req[c] EXCEPT !.left = Sooner(@)]]
    /\ ans' = [c \in Callers |->
                  IF req[c].pc = "wait" /\ ans[c].kind # "none"
                  THEN [ans[c] EXCEPT !.obs = Older(@)] ELSE ans[c]]
    /\ flight' = [f \in Flights |->
                     IF flight[f].pc \in Entered \cup {"left"}
                     THEN [flight[f] EXCEPT !.age = Older(@)]
                     ELSE flight[f]]
    /\ m' = [k \in DOMAIN m |-> [age |-> Older(m[k].age), obs |-> Older(m[k].obs)]]
    /\ UNCHANGED <<sf, counters>>

Init ==
    /\ req = [c \in Callers |-> Idle]
    /\ ans = [c \in Callers |-> Told("none")]
    /\ flight = [f \in Flights |-> Free]
    /\ sf = [k \in {} |-> NoFlight]
    /\ inFlight = [k \in Keys |-> 0]
    /\ inFlightTotal = 0
    /\ stalled = {}
    /\ m = [k \in {} |-> [age |-> 0, obs |-> 0]]

RequestStep(c) ==
    \/ admit(c) \/ DoChanJoin(c)
    \/ \E f \in Flights : DoChanLead(c, f)
    \/ Receive(c) \/ Deadline(c) \/ Forget(c) \/ Reply(c)

FlightStep(f) == enter(f) \/ StoreResult(f) \/ leave(f) \/ Deliver(f)

Next ==
    \/ \E c \in Callers : RequestStep(c) \/ Cancel(c)
    \/ \E c \in Callers, k \in Keys : LookupHit(c, k) \/ LookupMiss(c, k)
    \/ \E f \in Flights : FlightStep(f)
    \/ \E f \in Flights, r \in Results : HandleReturns(f, r)
    \/ Sweep
    \/ Tick

Spec == Init /\ [][Next]_vars

(***************************************************************************)
(* The same system on a host that is not short of CPU: time passes only    *)
(* while every goroutine is blocked, a request in its select and a flight  *)
(* in its tool.  Every behaviour of PromptSpec is one of Spec.             *)
(***************************************************************************)
AllBlocked ==
    /\ \A c \in Callers :
          req[c].pc = "idle" \/ (req[c].pc = "wait" /\ ans[c].kind = "none" /\ req[c].left > 0)
    /\ \A f \in Flights : flight[f].pc \in {"free", "handling"}

PromptNext ==
    \/ \E c \in Callers : RequestStep(c) \/ Cancel(c)
    \/ \E c \in Callers, k \in Keys : LookupHit(c, k) \/ LookupMiss(c, k)
    \/ \E f \in Flights : FlightStep(f)
    \/ \E f \in Flights, r \in Results : HandleReturns(f, r)
    \/ Sweep
    \/ AllBlocked /\ Tick

PromptSpec == Init /\ [][PromptNext]_vars

\* The Go scheduler runs every runnable goroutine and timers fire.  Nothing
\* makes a client send or hang up, and nothing makes a tool return.
Fairness ==
    /\ WF_vars(Tick)
    /\ \A c \in Callers : WF_vars(RequestStep(c))
    /\ \A f \in Flights : WF_vars(FlightStep(f))

LiveSpec == Spec /\ Fairness

(***************************************************************************)
(* Properties.                                                             *)
(***************************************************************************)

\* Type invariant: every variable stays in its domain; in particular no
\* count goes below zero, and every registered flight exists.
TypeOK ==
    /\ req \in [Callers -> Request]
    /\ ans \in [Callers -> Answer]
    /\ flight \in [Flights -> Flight]
    /\ DOMAIN sf \subseteq Keys /\ sf \in [DOMAIN sf -> Flights]
    /\ inFlight \in [Keys -> Nat]
    /\ inFlightTotal \in Nat
    /\ stalled \subseteq Keys
    /\ DOMAIN m \subseteq Keys /\ m \in [DOMAIN m -> Entry]

\* The counters that admission decides on (enter, leave, admit) equal the
\* number of invocations that have started and not returned, per key and in
\* total, whatever was forgotten, joined, abandoned or has panicked.
InFlightExact ==
    /\ \A k \in Keys : inFlight[k] = Cardinality(Running(k))
    /\ inFlightTotal = Cardinality(AllRunning)

\* The set of keys that have logged: a key at its limit is in it, so the
\* stall is on record, and a key without an invocation is not, so the next
\* stall logs again and the set does not grow with the keys seen.
StalledExact ==
    \A k \in Keys :
        /\ inFlight[k] >= MaxInFlightPerKey => k \in stalled
        /\ k \in stalled => inFlight[k] >= 1

\* A hit serves what a tool began to observe at most TTL ago, and says how
\* long ago that was: a slow tool does not make its data look new.
HitFresh ==
    \A c \in Callers :
        ans[c].kind = "hit" => ans[c].obs <= TTL /\ ans[c].shown = ans[c].obs

\* A request is told "timeout" only after its own deadline, or when the
\* shared work ran for the whole timeout: another client hanging up does
\* not cut the work short.
TimeoutIsOwn ==
    \A c \in Callers :
        ans[c].kind = "timeout" => req[c].left = 0 \/ ans[c].obs >= Timeout

\* Store never lets the map outgrow MaxEntries.
CapacityHeld == Cardinality(DOMAIN m) <= MaxEntries

\* Room is only made from expired entries: no step, Store at the cap
\* included, drops an entry that a Lookup would still serve.
EvictOnlyExpired == [][\A k \in DOMAIN m : k \in DOMAIN m' \/ Expired(m[k])]_vars

\* A flight leaves the singleflight map before its closure has returned
\* only through a request whose own deadline has passed; a client that
\* hangs up cannot make room for a second invocation of the same key.
DroppedOnlyByDeadline ==
    [][\A k \in DOMAIN sf :
          (flight[sf[k]].pc # "left" /\ ~(k \in DOMAIN sf' /\ sf'[k] = sf[k]))
             => \E c \in Callers : /\ req[c].key = k /\ req[c].left = 0
                                    /\ ans'[c].kind = "timeout"]_vars

\* Every request is answered, even when no tool ever returns: the wait is
\* bounded by the request's own deadline.  (Only a reply makes a request
\* idle, so none stays between the two for ever.)
EveryRequestAnswered == \A c \in Callers : []<>(req[c].pc \in {"idle", "reply"})

\* Admission (admit, AtLimit) recovers from every stall: a key is refused
\* for ever only if invocations that never return fill a limit by
\* themselves, MaxInFlightPerKey of that key or MaxInFlightTotal of any.
\* Tools that do return, whatever their key and however they end, leave
\* nothing behind in the counters that keeps a key out.
StallClears ==
    \A k \in Keys :
        \/ []<>(~AtLimit(k))
        \/ \E S \in SUBSET Flights :
              /\ Cardinality(S) \in {MaxInFlightPerKey, MaxInFlightTotal}
              /\ <>[](\A f \in S :
                         /\ flight[f].pc = "handling"
                         /\ Cardinality(S) < MaxInFlightTotal => flight[f].key = k)

\* What the comment on observedAt in handleToolBody says of cache_age_s: it
\* is the age of the observation, so a slow call does not report its data
\* as new.
AgeIsObservationAge ==
    \A c \in Callers :
        (req[c].pc = "reply" /\ ans[c].kind \in {"hit", "ok"}) => ans[c].shown = ans[c].obs

\* What the comment on MaxInFlightPerKey says: two invocations of a key run
\* at once only because one of them has outlived its timeout.
OverlapOnlyPastWedged ==
    \A f, g \in Flights :
        (f # g /\ f \in AllRunning /\ g \in AllRunning /\ flight[f].key = flight[g].key)
            => flight[f].age >= Timeout \/ flight[g].age >= Timeout
=============================================================================
