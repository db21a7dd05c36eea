-------------------------- MODULE ToolCacheProofs --------------------------
(***************************************************************************)
(* Proofs about ToolCache, for every number of connections, keys and       *)
(* flights, every timeout, TTL and limit.                                  *)
(***************************************************************************)
EXTENDS ToolCache, FiniteSetTheorems, TLAPS

\* What TypeOK says of everything but the counters, and that a request that
\* is handled and a flight that exists have a key.
Shape ==
    /\ req \in [Callers -> Request]
    /\ ans \in [Callers -> Answer]
    /\ flight \in [Flights -> Flight]
    /\ DOMAIN sf \subseteq Keys /\ sf \in [DOMAIN sf -> Flights]
    /\ DOMAIN m \subseteq Keys /\ m \in [DOMAIN m -> Entry]
    /\ \A c \in Callers : req[c].pc # "idle" => req[c].key \in Keys
    /\ \A f \in Flights : flight[f].pc # "free" => flight[f].key \in Keys

\* Ages stay in their range and never go down.
LEMMA AgeTypes ==
    ASSUME NEW a \in Ages
    PROVE  Older(a) \in Ages /\ Older(a) >= a
BY TimeAssumption DEF Ages, Older

\* The time left to a deadline stays in its range and never goes up.
LEMMA LeftTypes ==
    ASSUME NEW t \in 0 .. Timeout
    PROVE  Sooner(t) \in 0 .. Timeout /\ Sooner(t) <= t
BY TimeAssumption DEF Sooner

\* Requests keep their shape.
LEMMA RequestShape ==
    ASSUME Shape, [Next]_vars
    PROVE  /\ req' \in [Callers -> Request]
           /\ \A c \in Callers : req'[c].pc # "idle" => req'[c].key \in Keys
<1>0. /\ req \in [Callers -> Request]
      /\ \A c \in Callers : req[c].pc # "idle" => req[c].key \in Keys
  BY DEF Shape
<1> DEFINE Goal == /\ req' \in [Callers -> Request]
                   /\ \A c \in Callers : req'[c].pc # "idle" => req'[c].key \in Keys
<1>1. ASSUME NEW c \in Callers, NEW k \in Keys, LookupHit(c, k) \/ LookupMiss(c, k)
      PROVE  Goal
  <2>1. CASE LookupHit(c, k)
    BY <1>0, <2>1, TimeAssumption DEF LookupHit, Idle, At, Request
  <2>2. CASE LookupMiss(c, k)
    BY <1>0, <2>2, TimeAssumption DEF LookupMiss, Idle, At, Request
  <2> QED  BY <1>1, <2>1, <2>2
<1>2. ASSUME NEW c \in Callers, admit(c) \/ Receive(c) \/ Forget(c)
      PROVE  Goal
  BY <1>0, <1>2 DEF admit, Receive, Forget, Request
<1>3. ASSUME NEW c \in Callers, DoChanJoin(c)
      PROVE  Goal
  <2>1. sf[req[c].key] \in Flights
    BY <1>3 DEF DoChanJoin, Shape
  <2> QED  BY <1>0, <1>3, <2>1 DEF DoChanJoin, Request
<1>4. ASSUME NEW c \in Callers, NEW f \in Flights, DoChanLead(c, f)
      PROVE  Goal
  BY <1>0, <1>4 DEF DoChanLead, Request
<1>5. ASSUME NEW c \in Callers, Deadline(c) \/ Cancel(c)
      PROVE  Goal
  <2>1. CASE Deadline(c)
    BY <1>0, <2>1 DEF Deadline, Request
  <2>2. CASE Cancel(c)
    BY <1>0, <2>2 DEF Cancel, Request
  <2> QED  BY <1>5, <2>1, <2>2
<1>6. ASSUME NEW c \in Callers, Reply(c)
      PROVE  Goal
  BY <1>0, <1>6, TimeAssumption DEF Reply, Idle, At, Request
<1>7. ASSUME NEW f \in Flights, Deliver(f)
      PROVE  Goal
  BY <1>0, <1>7 DEF Deliver, Request
<1>8. CASE Tick
  BY <1>0, <1>8, LeftTypes DEF Tick, Request
<1>9. CASE UNCHANGED req
  BY <1>0, <1>9
<1> QED
  BY <1>1, <1>2, <1>3, <1>4, <1>5, <1>6, <1>7, <1>8, <1>9
  DEF Next, RequestStep, FlightStep, enter, leave, StoreResult, HandleReturns, Sweep, vars

\* Answers keep their shape.
LEMMA AnswerShape ==
    ASSUME Shape, [Next]_vars
    PROVE  ans' \in [Callers -> Answer]
<1>0. /\ ans \in [Callers -> Answer] /\ 0 \in Ages
      /\ \A kind \in {"none", "stalled", "timeout", "canceled"} : Told(kind) \in Answer
  BY TimeAssumption DEF Shape, Ages, Told, Answer
<1>1. ASSUME NEW c \in Callers, NEW k \in Keys, LookupHit(c, k)
      PROVE  ans' \in [Callers -> Answer]
  <2>1. m[k] \in Entry
    BY <1>1 DEF LookupHit, Shape
  <2> QED  BY <1>0, <1>1, <2>1 DEF LookupHit, Answer, Entry
<1>2. ASSUME NEW c \in Callers,
             admit(c) \/ Deadline(c) \/ Forget(c) \/ Cancel(c) \/ Reply(c)
      PROVE  ans' \in [Callers -> Answer]
  BY <1>0, <1>2 DEF admit, Deadline, Forget, Cancel, Reply
<1>3. ASSUME NEW c \in Callers, Receive(c)
      PROVE  ans' \in [Callers -> Answer]
  BY <1>0, <1>3 DEF Receive, Answer, Results
<1>4. ASSUME NEW f \in Flights, Deliver(f)
      PROVE  ans' \in [Callers -> Answer]
  <2>1. [kind |-> Delivered(flight[f].res), shown |-> 0, obs |-> flight[f].age] \in Answer
    BY <1>0 DEF Shape, Flight, Delivered, Answer, Results
  <2> QED  BY <1>0, <1>4, <2>1 DEF Deliver
<1>5. CASE Tick
  <2>1. ASSUME NEW c \in Callers PROVE [ans[c] EXCEPT !.obs = Older(@)] \in Answer
    BY <1>0, AgeTypes DEF Answer
  <2> QED  BY <1>0, <1>5, <2>1 DEF Tick
<1>6. CASE UNCHANGED ans
  BY <1>0, <1>6
<1> QED
  BY <1>1, <1>2, <1>3, <1>4, <1>5, <1>6
  DEF Next, RequestStep, FlightStep, LookupMiss, DoChanJoin, DoChanLead, enter, leave,
      StoreResult, HandleReturns, Sweep, vars

\* Flights keep their shape.
LEMMA FlightShape ==
    ASSUME Shape, [Next]_vars
    PROVE  /\ flight' \in [Flights -> Flight]
           /\ \A f \in Flights : flight'[f].pc # "free" => flight'[f].key \in Keys
<1>0. /\ flight \in [Flights -> Flight]
      /\ \A f \in Flights : flight[f].pc # "free" => flight[f].key \in Keys
  BY DEF Shape
<1> DEFINE Goal == /\ flight' \in [Flights -> Flight]
                   /\ \A f \in Flights : flight'[f].pc # "free" => flight'[f].key \in Keys
<1>1. ASSUME NEW c \in Callers, NEW f \in Flights, DoChanLead(c, f)
      PROVE  Goal
  <2>1. req[c].key \in Keys
    BY <1>1 DEF DoChanLead, Shape
  <2>2. Fresh("start", req[c].key) \in Flight
    BY <2>1, TimeAssumption DEF Fresh, Free, Flight, Ages
  <2> QED  BY <1>0, <1>1, <2>1, <2>2 DEF DoChanLead, Fresh
<1>2. ASSUME NEW f \in Flights, enter(f) \/ StoreResult(f) \/ leave(f)
      PROVE  Goal
  BY <1>0, <1>2 DEF enter, StoreResult, leave, Flight
<1>3. ASSUME NEW f \in Flights, Deliver(f)
      PROVE  Goal
  <2>1. Free \in Flight
    BY TimeAssumption DEF Fresh, Free, Flight, Ages
  <2> QED  BY <1>0, <1>3, <2>1 DEF Deliver, Fresh, Free
<1>4. ASSUME NEW f \in Flights, NEW r \in Results, HandleReturns(f, r)
      PROVE  Goal
  BY <1>0, <1>4, ZenonT(60) DEF HandleReturns, Flight
<1>5. CASE Tick
  <2>1. ASSUME NEW f \in Flights PROVE [flight[f] EXCEPT !.age = Older(@)] \in Flight
    BY <1>0, AgeTypes DEF Flight
  <2>2. flight' \in [Flights -> Flight]
    BY <1>0, <1>5, <2>1 DEF Tick
  <2>3. \A f \in Flights : flight'[f].pc = flight[f].pc /\ flight'[f].key = flight[f].key
    BY <1>0, <1>5 DEF Tick, Flight
  <2> QED  BY <1>0, <2>2, <2>3
<1>6. CASE UNCHANGED flight
  BY <1>0, <1>6
<1> QED
  BY <1>1, <1>2, <1>3, <1>4, <1>5, <1>6
  DEF Next, RequestStep, FlightStep, LookupHit, LookupMiss, admit, DoChanJoin, Receive,
      Deadline, Forget, Cancel, Reply, Sweep, vars

(***************************************************************************)
(* The map of entries and the singleflight map.                            *)
(***************************************************************************)
\* A sweep keeps exactly the entries that have not expired.
LEMMA SweepEffect ==
    ASSUME m \in [DOMAIN m -> Entry]
    PROVE  /\ DOMAIN sweepLocked = {x \in DOMAIN m : ~Expired(m[x])}
           /\ sweepLocked \in [DOMAIN sweepLocked -> Entry]
           /\ \A x \in DOMAIN sweepLocked : sweepLocked[x] = m[x]
BY DEF sweepLocked

\* What a Store does: it writes its own entry or nothing, drops only
\* expired entries, and stays within the cap.
LEMMA StoreEffect ==
    ASSUME Shape, NEW k \in Keys, NEW e \in Entry, Store(k, e)
    PROVE  /\ DOMAIN m' \subseteq Keys
           /\ m' \in [DOMAIN m' -> Entry]
           /\ \A x \in DOMAIN m' : m'[x] = e \/ (x \in DOMAIN m /\ m'[x] = m[x])
           /\ \A x \in DOMAIN m : x \in DOMAIN m' \/ Expired(m[x])
           /\ CapacityHeld => CapacityHeld'
<1>0. /\ DOMAIN m \subseteq Keys /\ m \in [DOMAIN m -> Entry]
      /\ IsFiniteSet(DOMAIN m)
  BY SetAssumption, FS_Subset DEF Shape
<1>1. CASE m' = With(m, k, e) /\ (k \in DOMAIN m \/ Cardinality(DOMAIN m) < MaxEntries)
  <2>1. /\ DOMAIN m' = DOMAIN m \cup {k}
        /\ m' \in [DOMAIN m \cup {k} -> Entry]
        /\ \A x \in DOMAIN m \cup {k} : m'[x] = IF x = k THEN e ELSE m[x]
    BY <1>0, <1>1 DEF With
  <2>2. CapacityHeld => CapacityHeld'
    <3>1. Cardinality(DOMAIN m) \in Nat
      BY <1>0, FS_CardinalityType
    <3>2. Cardinality(DOMAIN m \cup {k}) =
              IF k \in DOMAIN m THEN Cardinality(DOMAIN m) ELSE Cardinality(DOMAIN m) + 1
      BY <1>0, FS_AddElement
    <3> QED  BY <1>1, <2>1, <3>1, <3>2, LimitAssumption DEF CapacityHeld
  <2> QED  BY <1>0, <2>1, <2>2
<1>2. CASE m' = With(sweepLocked, k, e) /\ Cardinality(DOMAIN sweepLocked) < MaxEntries
  <2>0. /\ DOMAIN sweepLocked = {x \in DOMAIN m : ~Expired(m[x])}
        /\ sweepLocked \in [DOMAIN sweepLocked -> Entry]
        /\ \A x \in DOMAIN sweepLocked : sweepLocked[x] = m[x]
    BY <1>0, SweepEffect
  <2>1. /\ DOMAIN m' = DOMAIN sweepLocked \cup {k}
        /\ m' \in [DOMAIN sweepLocked \cup {k} -> Entry]
        /\ \A x \in DOMAIN sweepLocked \cup {k} :
              m'[x] = IF x = k THEN e ELSE sweepLocked[x]
    BY <2>0, <1>2 DEF With
  <2>2. IsFiniteSet(DOMAIN sweepLocked)
    BY <1>0, <2>0, FS_Subset
  <2>3. CapacityHeld'
    <3> DEFINE D == DOMAIN sweepLocked
    <3>1. Cardinality(D) \in Nat /\ Cardinality(D) < MaxEntries
      BY <1>2, <2>2, FS_CardinalityType
    <3>2. Cardinality(D \cup {k}) = IF k \in D THEN Cardinality(D) ELSE Cardinality(D) + 1
      BY <2>2, FS_AddElement
    <3>3. DOMAIN m' = D \cup {k}
      BY <2>1
    <3> HIDE DEF D
    <3> QED  BY <3>1, <3>2, <3>3, LimitAssumption DEF CapacityHeld
  <2> QED  BY <1>0, <2>0, <2>1, <2>3
<1>3. CASE m' = sweepLocked
  <2>0. /\ DOMAIN m' = {x \in DOMAIN m : ~Expired(m[x])}
        /\ m' \in [DOMAIN m' -> Entry]
        /\ \A x \in DOMAIN m' : m'[x] = m[x]
    BY <1>0, <1>3, SweepEffect
  <2>1. Cardinality(DOMAIN m') <= Cardinality(DOMAIN m)
    BY <1>0, <2>0, FS_Subset
  <2>2. Cardinality(DOMAIN m') \in Nat /\ Cardinality(DOMAIN m) \in Nat
    BY <1>0, <2>0, FS_Subset, FS_CardinalityType
  <2> QED  BY <1>0, <2>0, <2>1, <2>2, LimitAssumption DEF CapacityHeld
<1> QED  BY <1>1, <1>2, <1>3 DEF Store

\* Builtat is the time of the observation in every entry.
Stamped == \A k \in DOMAIN m : m[k].age = m[k].obs

\* What any step does to the entries.
LEMMA EntriesStep ==
    ASSUME Shape, [Next]_vars
    PROVE  /\ DOMAIN m' \subseteq Keys
           /\ m' \in [DOMAIN m' -> Entry]
           /\ \A x \in DOMAIN m : x \in DOMAIN m' \/ Expired(m[x])
           /\ CapacityHeld => CapacityHeld'
           /\ Stamped => Stamped'
<1> DEFINE Goal == /\ DOMAIN m' \subseteq Keys
                   /\ m' \in [DOMAIN m' -> Entry]
                   /\ \A x \in DOMAIN m : x \in DOMAIN m' \/ Expired(m[x])
                   /\ CapacityHeld => CapacityHeld'
                   /\ Stamped => Stamped'
<1>0. DOMAIN m \subseteq Keys /\ m \in [DOMAIN m -> Entry]
  BY DEF Shape
<1>1. ASSUME NEW f \in Flights, StoreResult(f)
      PROVE  Goal
  <2>1. flight[f].key \in Keys /\ EntryOf(f) \in Entry /\ Store(flight[f].key, EntryOf(f))
    BY <1>1 DEF Shape, StoreResult, EntryOf, Entry, Flight
  <2>2. EntryOf(f).age = EntryOf(f).obs
    BY DEF EntryOf
  <2>3. /\ DOMAIN m' \subseteq Keys
        /\ m' \in [DOMAIN m' -> Entry]
        /\ \A x \in DOMAIN m' : m'[x] = EntryOf(f) \/ (x \in DOMAIN m /\ m'[x] = m[x])
        /\ \A x \in DOMAIN m : x \in DOMAIN m' \/ Expired(m[x])
        /\ CapacityHeld => CapacityHeld'
    BY <2>1, StoreEffect
  <2> QED  BY <2>2, <2>3 DEF Stamped
<1>2. CASE Sweep
  <2>1. /\ DOMAIN m' = {x \in DOMAIN m : ~Expired(m[x])}
        /\ m' \in [DOMAIN m' -> Entry]
        /\ \A x \in DOMAIN m' : m'[x] = m[x]
    BY <1>0, <1>2, SweepEffect DEF Sweep
  <2>2. CapacityHeld => CapacityHeld'
    <3>1. IsFiniteSet(DOMAIN m)
      BY <1>0, SetAssumption, FS_Subset
    <3>2. IsFiniteSet(DOMAIN m') /\ Cardinality(DOMAIN m') <= Cardinality(DOMAIN m)
      BY <2>1, <3>1, FS_Subset
    <3>3. Cardinality(DOMAIN m') \in Nat /\ Cardinality(DOMAIN m) \in Nat
      BY <3>1, <3>2, FS_CardinalityType
    <3> QED  BY <3>2, <3>3, LimitAssumption DEF CapacityHeld
  <2> QED  BY <1>0, <2>1, <2>2 DEF Stamped
<1>3. CASE Tick
  <2>1. /\ DOMAIN m' = DOMAIN m
        /\ \A k \in DOMAIN m : m'[k] = [age |-> Older(m[k].age), obs |-> Older(m[k].obs)]
    BY <1>3 DEF Tick
  <2>2. \A k \in DOMAIN m : m'[k] \in Entry
    BY <1>0, <2>1, AgeTypes DEF Entry
  <2>3. m' \in [DOMAIN m' -> Entry]
    BY <1>3, <2>1, <2>2 DEF Tick
  <2> QED  BY <1>0, <2>1, <2>3 DEF Stamped, CapacityHeld
<1>4. CASE UNCHANGED m
  BY <1>0, <1>4 DEF CapacityHeld, Stamped
<1> QED
  BY <1>1, <1>2, <1>3, <1>4
  DEF Next, RequestStep, FlightStep, LookupHit, LookupMiss, admit, DoChanJoin, DoChanLead,
      Receive, Deadline, Forget, Cancel, Reply, enter, leave, Deliver, HandleReturns, vars

\* What any step does to the singleflight map: a key loses its flight only
\* when a Forget drops it or when the flight is delivered.
LEMMA SingleflightStep ==
    ASSUME Shape, [Next]_vars
    PROVE  /\ DOMAIN sf' \subseteq Keys
           /\ sf' \in [DOMAIN sf' -> Flights]
           /\ \A k \in DOMAIN sf :
                 \/ k \in DOMAIN sf' /\ sf'[k] = sf[k]
                 \/ flight[sf[k]].pc = "left"
                 \/ \E c \in Callers : Forget(c) /\ req[c].key = k
<1> DEFINE Goal == /\ DOMAIN sf' \subseteq Keys
                   /\ sf' \in [DOMAIN sf' -> Flights]
                   /\ \A k \in DOMAIN sf :
                        \/ k \in DOMAIN sf' /\ sf'[k] = sf[k]
                        \/ flight[sf[k]].pc = "left"
                        \/ \E c \in Callers : Forget(c) /\ req[c].key = k
<1>0. DOMAIN sf \subseteq Keys /\ sf \in [DOMAIN sf -> Flights]
  BY DEF Shape
<1>1. ASSUME NEW c \in Callers, NEW f \in Flights, DoChanLead(c, f)
      PROVE  Goal
  <2>1. req[c].key \in Keys
    BY <1>1 DEF DoChanLead, Shape
  <2> QED  BY <1>0, <1>1, <2>1 DEF DoChanLead, With
<1>2. ASSUME NEW c \in Callers, Forget(c)
      PROVE  Goal
  <2>1. DOMAIN sf' \subseteq Keys /\ sf' \in [DOMAIN sf' -> Flights]
    BY <1>0, <1>2 DEF Forget, Without
  <2>2. \A k \in DOMAIN sf : k # req[c].key => k \in DOMAIN sf' /\ sf'[k] = sf[k]
    BY <1>0, <1>2 DEF Forget, Without
  <2> QED  BY <1>2, <2>1, <2>2
<1>3. ASSUME NEW f \in Flights, Deliver(f)
      PROVE  Goal
  BY <1>0, <1>3 DEF Deliver, Without
<1>4. CASE UNCHANGED sf
  BY <1>0, <1>4
<1> QED
  BY <1>1, <1>2, <1>3, <1>4
  DEF Next, RequestStep, FlightStep, LookupHit, LookupMiss, admit, DoChanJoin, Receive,
      Deadline, Cancel, Reply, enter, leave, StoreResult, HandleReturns, Sweep, Tick, vars

(***************************************************************************)
(* The counters.                                                           *)
(***************************************************************************)
Counters == inFlight \in [Keys -> Nat] /\ inFlightTotal \in Nat /\ stalled \subseteq Keys

\* Only finitely many invocations run, so they can be counted.
LEMMA RunningFinite ==
    /\ IsFiniteSet(AllRunning) /\ Cardinality(AllRunning) \in Nat
    /\ \A k \in Keys : IsFiniteSet(Running(k)) /\ Cardinality(Running(k)) \in Nat
<1>1. AllRunning \subseteq Flights /\ \A k \in Keys : Running(k) \subseteq Flights
  BY DEF AllRunning, Running
<1>2. IsFiniteSet(AllRunning) /\ \A k \in Keys : IsFiniteSet(Running(k))
  BY <1>1, SetAssumption, FS_Subset
<1> QED  BY <1>2, FS_CardinalityType

\* The counters are exact after every step, and so is the log of stalls.
LEMMA CountersStep ==
    ASSUME Shape, Counters, InFlightExact, StalledExact, [Next]_vars
    PROVE  Counters' /\ InFlightExact' /\ StalledExact'
<1>0. /\ flight \in [Flights -> Flight]
      /\ \A f \in Flights : flight[f].pc # "free" => flight[f].key \in Keys
  BY DEF Shape
<1>1. ASSUME NEW f \in Flights, enter(f)
      PROVE  Counters' /\ InFlightExact' /\ StalledExact'
  <2>0. PICK k \in Keys : k = flight[f].key
    BY <1>0, <1>1 DEF enter
  <2>1. k \in Keys /\ f \notin AllRunning /\ f \notin Running(k)
    BY <1>0, <1>1, <2>0 DEF enter, AllRunning, Running, Entered
  <2>2. /\ AllRunning' = AllRunning \cup {f}
        /\ Running(k)' = Running(k) \cup {f}
        /\ \A x \in Keys \ {k} : Running(x)' = Running(x)
    BY <1>0, <1>1, <2>0 DEF enter, AllRunning, Running, Entered, Flight
  <2>3. /\ Cardinality(AllRunning \cup {f}) = Cardinality(AllRunning) + 1
        /\ Cardinality(Running(k) \cup {f}) = Cardinality(Running(k)) + 1
    BY <2>1, RunningFinite, FS_AddElement
  <2>4. InFlightExact'
    BY <1>1, <2>0, <2>1, <2>2, <2>3 DEF enter, InFlightExact, Counters
  <2> QED  BY <1>1, <2>0, <2>1, <2>4, LimitAssumption DEF enter, Counters, StalledExact
<1>2. ASSUME NEW f \in Flights, leave(f)
      PROVE  Counters' /\ InFlightExact' /\ StalledExact'
  <2>0. PICK k \in Keys : k = flight[f].key
    BY <1>0, <1>2 DEF leave
  <2>1. k \in Keys /\ f \in AllRunning /\ f \in Running(k)
    BY <1>0, <1>2, <2>0 DEF leave, AllRunning, Running, Entered
  <2>2. /\ AllRunning' = AllRunning \ {f}
        /\ Running(k)' = Running(k) \ {f}
        /\ \A x \in Keys \ {k} : Running(x)' = Running(x)
    BY <1>0, <1>2, <2>0 DEF leave, AllRunning, Running, Entered, Flight
  <2>3. /\ Cardinality(AllRunning \ {f}) = Cardinality(AllRunning) - 1
        /\ Cardinality(Running(k) \ {f}) = Cardinality(Running(k)) - 1
        /\ Cardinality(AllRunning \ {f}) \in Nat /\ Cardinality(Running(k) \ {f}) \in Nat
    <3>1. IsFiniteSet(AllRunning) /\ IsFiniteSet(Running(k))
      BY <2>1, RunningFinite
    <3>2. IsFiniteSet(AllRunning \ {f}) /\ IsFiniteSet(Running(k) \ {f})
      BY <3>1, FS_RemoveElement
    <3>3. Cardinality(AllRunning \ {f}) \in Nat /\ Cardinality(Running(k) \ {f}) \in Nat
      BY <3>2, FS_CardinalityType
    <3> QED  BY <2>1, <3>1, <3>3, FS_RemoveElement
  <2>4. inFlightTotal >= 1 /\ inFlight[k] >= 1
    BY <2>1, <2>3 DEF InFlightExact, Counters
  <2>5. InFlightExact'
    <3>1. /\ inFlightTotal' = inFlightTotal - 1
          /\ inFlight'[k] = inFlight[k] - 1
          /\ \A x \in Keys \ {k} : inFlight'[x] = inFlight[x]
      BY <1>2, <2>0, <2>1, <2>4 DEF leave, Counters
    <3>2. inFlightTotal' = Cardinality(AllRunning') /\ inFlight'[k] = Cardinality(Running(k)')
      BY <2>1, <2>2, <2>3, <3>1 DEF InFlightExact
    <3>3. \A x \in Keys \ {k} : inFlight'[x] = Cardinality(Running(x)')
      BY <2>2, <3>1 DEF InFlightExact
    <3> QED  BY <3>2, <3>3 DEF InFlightExact
  <2> QED  BY <1>2, <2>0, <2>1, <2>4, <2>5, LimitAssumption DEF leave, Counters, StalledExact
<1>3. ASSUME UNCHANGED counters, AllRunning' = AllRunning,
             \A k \in Keys : Running(k)' = Running(k)
      PROVE  Counters' /\ InFlightExact' /\ StalledExact'
  BY <1>3 DEF counters, Counters, InFlightExact, StalledExact
<1>4. ASSUME NEW c \in Callers, NEW f \in Flights, DoChanLead(c, f)
      PROVE  AllRunning' = AllRunning /\ \A k \in Keys : Running(k)' = Running(k)
  BY <1>0, <1>4 DEF DoChanLead, AllRunning, Running, Entered, Fresh, Flight
<1>5. ASSUME NEW f \in Flights, StoreResult(f) \/ Deliver(f)
      PROVE  AllRunning' = AllRunning /\ \A k \in Keys : Running(k)' = Running(k)
  BY <1>0, <1>5 DEF StoreResult, Deliver, AllRunning, Running, Entered, Free, Fresh, Flight
<1>6. ASSUME NEW f \in Flights, NEW r \in Results, HandleReturns(f, r)
      PROVE  AllRunning' = AllRunning /\ \A k \in Keys : Running(k)' = Running(k)
  BY <1>0, <1>6 DEF HandleReturns, AllRunning, Running, Entered, Flight
<1>7. ASSUME Tick
      PROVE  AllRunning' = AllRunning /\ \A k \in Keys : Running(k)' = Running(k)
  <2>1. \A f \in Flights : flight'[f].pc = flight[f].pc /\ flight'[f].key = flight[f].key
    BY <1>0, <1>7 DEF Tick, Flight
  <2> QED  BY <2>1 DEF AllRunning, Running
<1>8. ASSUME UNCHANGED flight
      PROVE  AllRunning' = AllRunning /\ \A k \in Keys : Running(k)' = Running(k)
  BY <1>8 DEF AllRunning, Running
<1> QED
  BY <1>1, <1>2, <1>3, <1>4, <1>5, <1>6, <1>7, <1>8
  DEF Next, RequestStep, FlightStep, LookupHit, LookupMiss, admit, DoChanJoin, DoChanLead,
      Receive, Deadline, Forget, Cancel, Reply, StoreResult, Deliver, HandleReturns, Sweep,
      Tick, vars, counters

(***************************************************************************)
(* Ages and deadlines.                                                     *)
(***************************************************************************)

\* What HitFresh and TimeoutIsOwn rest on: only a work context that has run
\* out ends a flight with "deadline", only a request whose time is up is
\* about to forget, and what is being replied does not age any more.
Timing ==
    /\ \A f \in Flights : flight[f].res = "deadline" => flight[f].age >= Timeout
    /\ \A c \in Callers : ans[c].kind = "deadline" => ans[c].obs >= Timeout
    /\ \A c \in Callers : req[c].pc = "forget" => req[c].left = 0
    /\ \A c \in Callers : ans[c].kind \in {"hit", "timeout"} => req[c].pc = "reply"

\* No step of a flight breaks its part of Timing.
LEMMA FlightTiming ==
    ASSUME Shape, Timing, [Next]_vars
    PROVE  \A f \in Flights : flight'[f].res = "deadline" => flight'[f].age >= Timeout
<1>0. /\ flight \in [Flights -> Flight]
      /\ \A f \in Flights : flight[f].res = "deadline" => flight[f].age >= Timeout
  BY DEF Shape, Timing
<1> DEFINE Goal == \A f \in Flights : flight'[f].res = "deadline" => flight'[f].age >= Timeout
<1>1. ASSUME NEW c \in Callers, NEW f \in Flights, DoChanLead(c, f)
      PROVE  Goal
  BY <1>0, <1>1 DEF DoChanLead, Fresh
<1>2. ASSUME NEW f \in Flights, enter(f) \/ StoreResult(f) \/ leave(f)
      PROVE  Goal
  BY <1>0, <1>2 DEF enter, StoreResult, leave, Flight
<1>3. ASSUME NEW f \in Flights, Deliver(f)
      PROVE  Goal
  BY <1>0, <1>3 DEF Deliver, Free, Fresh
<1>4. ASSUME NEW f \in Flights, NEW r \in Results, HandleReturns(f, r)
      PROVE  Goal
  BY <1>0, <1>4 DEF HandleReturns, Flight
<1>5. CASE Tick
  <2>1. ASSUME NEW f \in Flights
        PROVE  /\ flight'[f].res = flight[f].res
               /\ flight[f].age \in Ages /\ flight'[f].age \in Ages
               /\ flight'[f].age >= flight[f].age
    BY <1>0, <1>5, AgeTypes DEF Tick, Flight, Ages
  <2> QED  BY <1>0, <2>1, TimeAssumption DEF Ages
<1>6. CASE UNCHANGED flight
  BY <1>0, <1>6
<1> QED
  BY <1>1, <1>2, <1>3, <1>4, <1>5, <1>6
  DEF Next, RequestStep, FlightStep, LookupHit, LookupMiss, admit, DoChanJoin, Receive,
      Deadline, Forget, Cancel, Reply, Sweep, vars

\* The requests' half of Timing, and the two properties.
LEMMA RequestTiming ==
    ASSUME Shape, Stamped, Timing, HitFresh, TimeoutIsOwn, [Next]_vars
    PROVE  \A c \in Callers :
              /\ ans'[c].kind = "deadline" => ans'[c].obs >= Timeout
              /\ req'[c].pc = "forget" => req'[c].left = 0
              /\ ans'[c].kind \in {"hit", "timeout"} => req'[c].pc = "reply"
              /\ ans'[c].kind = "hit" => ans'[c].obs <= TTL /\ ans'[c].shown = ans'[c].obs
              /\ ans'[c].kind = "timeout" => req'[c].left = 0 \/ ans'[c].obs >= Timeout
<1> DEFINE P(r, a) == /\ a.kind = "deadline" => a.obs >= Timeout
                      /\ r.pc = "forget" => r.left = 0
                      /\ a.kind \in {"hit", "timeout"} => r.pc = "reply"
                      /\ a.kind = "hit" => a.obs <= TTL /\ a.shown = a.obs
                      /\ a.kind = "timeout" => r.left = 0 \/ a.obs >= Timeout
<1> DEFINE Goal == \A c \in Callers : P(req'[c], ans'[c])
<1>0. /\ req \in [Callers -> Request] /\ ans \in [Callers -> Answer]
      /\ \A c \in Callers : P(req[c], ans[c])
  BY DEF Shape, Timing, HitFresh, TimeoutIsOwn
<1>1. ASSUME NEW c \in Callers, NEW k \in Keys, LookupHit(c, k)
      PROVE  Goal
  <2>1. m[k].age = m[k].obs /\ m[k].obs <= TTL
    BY <1>1, TimeAssumption DEF LookupHit, Stamped, Expired, Shape, Entry, Ages
  <2> QED  BY <1>0, <1>1, <2>1 DEF LookupHit, At
<1>2. ASSUME NEW c \in Callers, NEW k \in Keys, LookupMiss(c, k)
      PROVE  Goal
  BY <1>0, <1>2 DEF LookupMiss, At
<1>3. ASSUME NEW c \in Callers, admit(c)
      PROVE  Goal
  BY <1>0, <1>3 DEF admit, Request, Told
<1>4. ASSUME NEW c \in Callers, DoChanJoin(c) \/ \E f \in Flights : DoChanLead(c, f)
      PROVE  Goal
  <2>1. CASE DoChanJoin(c)
    BY <1>0, <2>1 DEF DoChanJoin, Request
  <2>2. CASE \E f \in Flights : DoChanLead(c, f)
    BY <1>0, <2>2 DEF DoChanLead, Request
  <2> QED  BY <1>4, <2>1, <2>2
<1>5. ASSUME NEW c \in Callers, Receive(c)
      PROVE  Goal
  BY <1>0, <1>5 DEF Receive, Request, Answer
<1>6. ASSUME NEW c \in Callers, Deadline(c)
      PROVE  Goal
  BY <1>0, <1>6 DEF Deadline, Request, Told
<1>7. ASSUME NEW c \in Callers, Forget(c)
      PROVE  Goal
  BY <1>0, <1>7 DEF Forget, Request, Told
<1>8. ASSUME NEW c \in Callers, Cancel(c)
      PROVE  Goal
  BY <1>0, <1>8 DEF Cancel, Request, Told
<1>9. ASSUME NEW c \in Callers, Reply(c)
      PROVE  Goal
  BY <1>0, <1>9 DEF Reply, Idle, At, Told
<1>10. ASSUME NEW f \in Flights, Deliver(f)
       PROVE  Goal
  <2>1. flight[f] \in Flight /\ (flight[f].res = "deadline" => flight[f].age >= Timeout)
    BY DEF Shape, Timing
  <2>2. Delivered(flight[f].res) \notin {"hit", "timeout"}
    BY <2>1 DEF Delivered, Flight, Results
  <2>3. Delivered(flight[f].res) = "deadline" => flight[f].age >= Timeout
    BY <2>1 DEF Delivered
  <2> QED  BY <1>0, <1>10, <2>2, <2>3 DEF Deliver, Request
<1>11. CASE Tick
  <2>1. ASSUME NEW c \in Callers PROVE P(req'[c], ans'[c])
    <3>1. CASE req[c].pc = "reply"
      BY <1>0, <1>11, <3>1 DEF Tick
    <3>2. CASE req[c].pc # "reply"
      <4>1. /\ req'[c].pc = req[c].pc /\ req'[c].left = Sooner(req[c].left)
            /\ req[c].left \in 0 .. Timeout
        BY <1>0, <1>11, <3>2 DEF Tick, Request
      <4>2. /\ ans'[c].kind = ans[c].kind
            /\ ans[c].obs \in Ages /\ ans'[c].obs \in Ages /\ ans'[c].obs >= ans[c].obs
        BY <1>0, <1>11, <3>2, AgeTypes DEF Tick, Answer, Ages
      <4>3. ans[c].kind \notin {"hit", "timeout"}
        <5>1. P(req[c], ans[c])
          BY <1>0
        <5> QED  BY <3>2, <5>1
      <4>4. ans'[c].kind = "deadline" => ans'[c].obs >= Timeout
        <5>1. ans[c].kind = "deadline" => ans[c].obs >= Timeout
          BY DEF Timing
        <5> QED  BY <4>2, <5>1, TimeAssumption DEF Ages
      <4>5. req'[c].pc = "forget" => req'[c].left = 0
        <5>1. req[c].pc = "forget" => req[c].left = 0
          BY DEF Timing
        <5> QED  BY <4>1, <5>1 DEF Sooner
      <4> QED  BY <4>1, <4>2, <4>3, <4>4, <4>5
    <3> QED  BY <3>1, <3>2
  <2> QED  BY <2>1
<1>12. CASE UNCHANGED <<req, ans>>
  BY <1>0, <1>12
<1> QED
  BY <1>1, <1>2, <1>3, <1>4, <1>5, <1>6, <1>7, <1>8, <1>9, <1>10, <1>11, <1>12
  DEF Next, RequestStep, FlightStep, enter, leave, StoreResult, HandleReturns, Sweep, vars

(***************************************************************************)
(* The inductive invariant and the theorems.                               *)
(***************************************************************************)
IInv ==
    /\ Shape /\ Counters /\ InFlightExact /\ StalledExact
    /\ CapacityHeld /\ Stamped /\ Timing /\ HitFresh /\ TimeoutIsOwn

\* The invariant holds when the daemon starts.
LEMMA InitEstablishes == Init => IInv
<1> SUFFICES ASSUME Init PROVE IInv
  OBVIOUS
<1>1. Idle \in Request /\ Told("none") \in Answer /\ Free \in Flight
  BY TimeAssumption DEF Idle, At, Request, Told, Answer, Free, Fresh, Flight, Ages
<1>2. Shape
  BY <1>1 DEF Init, Shape, Idle, At, Free, Fresh
<1>3. AllRunning = {} /\ \A k \in Keys : Running(k) = {}
  BY DEF Init, AllRunning, Running, Entered, Free, Fresh
<1>4. Counters /\ InFlightExact /\ StalledExact
  BY <1>3, FS_EmptySet, LimitAssumption DEF Init, Counters, InFlightExact, StalledExact
<1>5. CapacityHeld
  <2>1. DOMAIN m = {}
    BY DEF Init
  <2> QED  BY <2>1, FS_EmptySet, LimitAssumption DEF CapacityHeld
<1>6. Stamped /\ Timing /\ HitFresh /\ TimeoutIsOwn
  BY DEF Init, Stamped, Timing, HitFresh, TimeoutIsOwn, Idle, At, Told, Free, Fresh
<1> QED  BY <1>2, <1>4, <1>5, <1>6 DEF IInv

\* Every step of a request, of a flight, of the sweeper and of time preserves
\* the invariant.
LEMMA StepPreserves == IInv /\ [Next]_vars => IInv'
<1> SUFFICES ASSUME IInv, [Next]_vars PROVE IInv'
  OBVIOUS
<1>1. Shape'
  <2>1. /\ req' \in [Callers -> Request]
        /\ \A c \in Callers : req'[c].pc # "idle" => req'[c].key \in Keys
    BY RequestShape DEF IInv
  <2>2. ans' \in [Callers -> Answer]
    BY AnswerShape DEF IInv
  <2>3. /\ flight' \in [Flights -> Flight]
        /\ \A f \in Flights : flight'[f].pc # "free" => flight'[f].key \in Keys
    BY FlightShape DEF IInv
  <2>4. DOMAIN sf' \subseteq Keys /\ sf' \in [DOMAIN sf' -> Flights]
    BY SingleflightStep DEF IInv
  <2>5. DOMAIN m' \subseteq Keys /\ m' \in [DOMAIN m' -> Entry]
    BY EntriesStep DEF IInv
  <2> QED  BY <2>1, <2>2, <2>3, <2>4, <2>5 DEF Shape
<1>2. Counters' /\ InFlightExact' /\ StalledExact'
  BY CountersStep DEF IInv
<1>3. CapacityHeld' /\ Stamped'
  BY EntriesStep DEF IInv
<1>4. Timing' /\ HitFresh' /\ TimeoutIsOwn'
  BY FlightTiming, RequestTiming DEF IInv, Timing, HitFresh, TimeoutIsOwn
<1> QED  BY <1>1, <1>2, <1>3, <1>4 DEF IInv

\* IInv holds throughout every behaviour.
THEOREM Invariance == Spec => []IInv
<1>1. Init => IInv
  BY InitEstablishes
<1>2. IInv /\ [Next]_vars => IInv'
  BY StepPreserves
<1> QED  BY <1>1, <1>2, PTL DEF Spec

\* Every variable stays in its domain: no counter of cache.go goes below
\* zero, and the singleflight map only names flights.
THEOREM TypeCorrect == Spec => []TypeOK
<1>1. IInv => TypeOK
  BY DEF IInv, Shape, Counters, TypeOK
<1> QED  BY <1>1, Invariance, PTL

\* The counter that admit decides on is exact, for any number of connections,
\* keys and flights.
THEOREM CountersExact == Spec => []InFlightExact
<1>1. IInv => InFlightExact
  BY DEF IInv
<1> QED  BY <1>1, Invariance, PTL

\* A key at its limit has its stall on record, and a key without an invocation
\* has none, so that its next stall is logged again.
THEOREM StallsExact == Spec => []StalledExact
<1>1. IInv => StalledExact
  BY DEF IInv
<1> QED  BY <1>1, Invariance, PTL

\* What a hit serves was observed at most TTL ago, and cache_age_s says when.
THEOREM HitsAreFresh == Spec => []HitFresh
<1>1. IInv => HitFresh
  BY DEF IInv
<1> QED  BY <1>1, Invariance, PTL

\* Nobody's timeout is another client's doing.
THEOREM TimeoutsAreOwn == Spec => []TimeoutIsOwn
<1>1. IInv => TimeoutIsOwn
  BY DEF IInv
<1> QED  BY <1>1, Invariance, PTL

\* The map never outgrows MaxEntries.
THEOREM CapacityBound == Spec => []CapacityHeld
<1>1. IInv => CapacityHeld
  BY DEF IInv
<1> QED  BY <1>1, Invariance, PTL

\* Only expired entries are dropped.
THEOREM EvictionSafe == Spec => EvictOnlyExpired
<1>1. IInv /\ [Next]_vars => [\A k \in DOMAIN m : k \in DOMAIN m' \/ Expired(m[k])]_vars
  BY EntriesStep DEF IInv
<1> QED  BY <1>1, Invariance, PTL DEF Spec, EvictOnlyExpired

\* A running flight is dropped from the singleflight map only by a request
\* whose own deadline has passed.
THEOREM NoForkStorm == Spec => DroppedOnlyByDeadline
<1> DEFINE A == \A k \in DOMAIN sf :
        (flight[sf[k]].pc # "left" /\ ~(k \in DOMAIN sf' /\ sf'[k] = sf[k]))
           => \E c \in Callers : /\ req[c].key = k /\ req[c].left = 0
                                  /\ ans'[c].kind = "timeout"
<1>1. IInv /\ [Next]_vars => [A]_vars
  <2> SUFFICES ASSUME IInv, [Next]_vars, NEW k \in DOMAIN sf, flight[sf[k]].pc # "left",
                      ~(k \in DOMAIN sf' /\ sf'[k] = sf[k])
               PROVE  \E c \in Callers : /\ req[c].key = k /\ req[c].left = 0
                                          /\ ans'[c].kind = "timeout"
    OBVIOUS
  <2>1. PICK c \in Callers : Forget(c) /\ req[c].key = k
    BY SingleflightStep DEF IInv
  <2>2. req[c].left = 0
    BY <2>1 DEF Forget, IInv, Timing
  <2>3. ans'[c].kind = "timeout"
    BY <2>1 DEF Forget, Told, IInv, Shape
  <2> QED  BY <2>1, <2>2, <2>3
<1> QED  BY <1>1, Invariance, PTL DEF Spec, DroppedOnlyByDeadline
=============================================================================
