-------------------------- MODULE RateLimiterProofs --------------------------
(***************************************************************************)
(* Proofs about RateLimiter, for any callers, tools, rates, bursts and     *)
(* periods.  All of them but type correctness need one more fact about the *)
(* configuration, which Validate does not check: an idle time long enough  *)
(* to be swept is long enough to fill the bucket.                          *)
(***************************************************************************)
EXTENDS RateLimiter, TLAPS

\* After IdleLimit, the time after which sweepLocked deletes a bucket, it is full.
FillsWhileIdle == \A s \in Slots : (IdleLimit + 1) * Rate[s] >= Cap(s)

(***************************************************************************)
(* Arithmetic.                                                             *)
(***************************************************************************)

\* Products of naturals are natural, and one more unit adds one more rate.
LEMMA Products ==
    ASSUME NEW a \in Nat, NEW r \in Nat
    PROVE  a * r \in Nat /\ (a + 1) * r = a * r + r
BY SMT

\* More time accrues at least as many tokens.
LEMMA ProductsGrow ==
    ASSUME NEW a \in Nat, NEW b \in Nat, NEW r \in Nat, a <= b
    PROVE  a * r <= b * r
<1>1. b - a \in Nat /\ b = a + (b - a)
  OBVIOUS
<1>2. b * r = a * r + (b - a) * r
  BY SMT
<1>3. (b - a) * r \in Nat
  BY <1>1, Products
<1>4. a * r \in Nat /\ b * r \in Nat
  BY Products
<1> QED  BY <1>2, <1>3, <1>4

\* Rates and capacities are natural, and every bucket can hold a whole token.
LEMMA SlotTypes ==
    /\ Minute \in Nat \ {0}
    /\ \A s \in Slots : Rate[s] \in Nat /\ Cap(s) \in Nat /\ Cap(s) >= Minute
<1>1. Minute \in Nat \ {0}
  BY LimiterAssumption
<1>2. ASSUME NEW s \in Slots
      PROVE  Rate[s] \in Nat /\ Cap(s) \in Nat /\ Cap(s) >= Minute
  <2>1. Rate[s] \in Nat \ {0} /\ Burst[s] \in Nat \ {0}
    BY LimiterAssumption
  <2>2. Burst[s] * Minute \in Nat
    BY <1>1, <2>1, Products
  <2>3. 1 * Minute <= Burst[s] * Minute
    BY <1>1, <2>1, ProductsGrow
  <2> QED  BY <1>1, <2>1, <2>2, <2>3 DEF Cap
<1> QED  BY <1>1, <1>2

(***************************************************************************)
(* Buckets.                                                                *)
(***************************************************************************)
Within(b, s) == b \in Bucket /\ b.tokens <= Cap(s) /\ b.idle <= IdleCap

\* What tryTake would find in a bucket is natural and at most the burst.
LEMMA ContentTypes ==
    ASSUME NEW s \in Slots, NEW b, Within(b, s)
    PROVE  /\ Content(b, s) \in Nat /\ Content(b, s) <= Cap(s)
           /\ b.idle * Rate[s] \in Nat
<1>1. Rate[s] \in Nat /\ Cap(s) \in Nat
  BY SlotTypes
<1>2. b.idle \in Nat /\ b.tokens \in Nat /\ b.live \in BOOLEAN
  BY DEF Within, Bucket
<1>3. b.idle * Rate[s] \in Nat
  BY <1>1, <1>2, Products
<1> QED  BY <1>1, <1>2, <1>3 DEF Content, Least

\* Sweeping a bucket does not change what it would give.
LEMMA SweptContent ==
    ASSUME FillsWhileIdle, NEW s \in Slots, NEW b, Within(b, s), b.live, b.idle > IdleLimit
    PROVE  Content(b, s) = Cap(s)
<1>1. Rate[s] \in Nat /\ Cap(s) \in Nat
  BY SlotTypes
<1>2. b.idle \in Nat /\ b.tokens \in Nat /\ IdleLimit \in Nat
  BY LimiterAssumption DEF Within, Bucket
<1>3. (IdleLimit + 1) * Rate[s] <= b.idle * Rate[s]
  BY <1>1, <1>2, ProductsGrow
<1>4. (IdleLimit + 1) * Rate[s] >= Cap(s)
  BY DEF FillsWhileIdle
<1>5. b.idle * Rate[s] \in Nat /\ (IdleLimit + 1) * Rate[s] \in Nat
  BY <1>1, <1>2, Products
<1> QED  BY <1>1, <1>2, <1>3, <1>4, <1>5 DEF Content, Least

\* A unit of time adds the rate, up to the burst.
LEMMA AgedContent ==
    ASSUME NEW s \in Slots, NEW b, Within(b, s), b.live
    PROVE  LET a == Holding(b.tokens, Least(IdleCap, b.idle + 1)) IN
           /\ Within(a, s) /\ a.live
           /\ Content(a, s) = Least(Cap(s), Content(b, s) + Rate[s])
<1> DEFINE a == Holding(b.tokens, Least(IdleCap, b.idle + 1))
<1>0. IdleCap \in Nat /\ \A x \in Slots : IdleCap * Rate[x] >= Cap(x)
  BY LimiterAssumption, Zenon
<1>1. Rate[s] \in Nat /\ Cap(s) \in Nat /\ IdleCap \in Nat /\ IdleCap * Rate[s] >= Cap(s)
  BY <1>0, SlotTypes
<1>2. b.idle \in Nat /\ b.tokens \in Nat /\ b.idle <= IdleCap /\ b.tokens <= Cap(s)
  BY DEF Within, Bucket
<1>3. /\ a \in Bucket /\ a.tokens = b.tokens /\ a.live
      /\ a.idle = Least(IdleCap, b.idle + 1)
  BY <1>1, <1>2 DEF Holding, Bucket, Least
<1>4. Within(a, s)
  BY <1>1, <1>2, <1>3 DEF Within, Least
<1>5. /\ b.idle * Rate[s] \in Nat /\ (b.idle + 1) * Rate[s] = b.idle * Rate[s] + Rate[s]
      /\ IdleCap * Rate[s] \in Nat
  BY <1>1, <1>2, Products
<1>6. CASE b.idle < IdleCap
  <2>1. a.idle = b.idle + 1
    BY <1>1, <1>2, <1>3, <1>6 DEF Least
  <2>2. a.idle * Rate[s] = b.idle * Rate[s] + Rate[s]
    BY <1>5, <2>1
  <2> QED  BY <1>1, <1>2, <1>3, <1>4, <1>5, <2>2 DEF Content, Least
<1>7. CASE b.idle = IdleCap
  <2>1. a.idle = IdleCap
    BY <1>1, <1>3, <1>7 DEF Least
  <2>2. Content(a, s) = Cap(s) /\ Content(b, s) = Cap(s)
    BY <1>1, <1>2, <1>3, <1>5, <1>7, <2>1 DEF Content, Least
  <2> QED  BY <1>1, <1>3, <1>4, <2>2 DEF Least
<1> QED  BY <1>1, <1>2, <1>6, <1>7

AllWithin(bs) ==
    /\ bs \in [Callers -> [Slots -> Bucket]]
    /\ \A c \in Callers, s \in Slots : Within(bs[c][s], s)

\* sweepLocked leaves every bucket within its bounds.
LEMMA SweptWithin ==
    ASSUME NEW bs, AllWithin(bs)
    PROVE  AllWithin(sweepLocked(bs))
<1>1. Absent \in Bucket /\ \A s \in Slots : Within(Absent, s)
  BY SlotTypes, LimiterAssumption DEF Absent, Bucket, Within
<1> QED  BY <1>1 DEF AllWithin, sweepLocked

\* sweepLocked is invisible to the contents of the buckets.
LEMMA SweptContents ==
    ASSUME FillsWhileIdle, NEW bs, AllWithin(bs), NEW c \in Callers, NEW s \in Slots
    PROVE  Content(sweepLocked(bs)[c][s], s) = Content(bs[c][s], s)
<1>1. Within(bs[c][s], s)
  BY DEF AllWithin
<1>2. CASE bs[c][s].live /\ bs[c][s].idle > IdleLimit
  <2>1. sweepLocked(bs)[c][s] = Absent
    BY <1>2 DEF sweepLocked
  <2>2. Content(bs[c][s], s) = Cap(s)
    BY <1>1, <1>2, SweptContent
  <2> QED  BY <2>1, <2>2 DEF Content, Absent
<1>3. CASE ~(bs[c][s].live /\ bs[c][s].idle > IdleLimit)
  BY <1>3 DEF sweepLocked
<1> QED  BY <1>2, <1>3

\* A bucket that has just been filled holds its content in tokens.
LEMMA HoldingContent ==
    ASSUME NEW s \in Slots, NEW n \in Nat, n <= Cap(s)
    PROVE  /\ Holding(n, 0) \in Bucket /\ Within(Holding(n, 0), s)
           /\ Content(Holding(n, 0), s) = n
<1>0. IdleCap \in Nat
  BY LimiterAssumption, Zenon
<1>1. Rate[s] \in Nat /\ Cap(s) \in Nat /\ IdleCap \in Nat
  BY <1>0, SlotTypes
<1>2. 0 * Rate[s] = 0
  BY <1>1
<1> QED  BY <1>1, <1>2 DEF Holding, Bucket, Within, Content, Least

\* What Allow gets for a bucket, kept or new.
Got(b, s) == refill(IF b.live THEN b ELSE newBucket(s), s)

\* tryTake finds in a kept bucket its content, and in a new one the burst.
LEMMA GotContent ==
    ASSUME NEW s \in Slots, NEW b, Within(b, s)
    PROVE  Got(b, s) = Holding(Content(b, s), 0)
<1>1. Rate[s] \in Nat /\ Cap(s) \in Nat
  BY SlotTypes
<1>2. 0 * Rate[s] = 0
  BY <1>1
<1>3. CASE b.live
  BY <1>3 DEF Got, refill, Holding, Content
<1>4. CASE ~b.live
  <2>1. Least(Cap(s), Cap(s) + 0 * Rate[s]) = Cap(s)
    BY <1>1, <1>2 DEF Least
  <2>2. Got(b, s) = Holding(Least(Cap(s), Cap(s) + 0 * Rate[s]), 0)
    BY <1>4 DEF Got, refill, newBucket, Holding
  <2> QED  BY <1>4, <2>1, <2>2 DEF Holding, Content
<1> QED  BY <1>3, <1>4

\* Putting a filled bucket back.
LEMMA PutContent ==
    ASSUME NEW bs, AllWithin(bs), NEW c \in Callers, NEW s \in Slots,
           NEW n \in Nat, n <= Cap(s)
    PROVE  LET new == Put(bs, c, s, Holding(n, 0)) IN
           /\ AllWithin(new)
           /\ \A d \in Callers, x \in Slots :
                 Content(new[d][x], x) = IF d = c /\ x = s THEN n ELSE Content(bs[d][x], x)
<1> DEFINE new == Put(bs, c, s, Holding(n, 0))
<1>1. /\ Holding(n, 0) \in Bucket /\ Within(Holding(n, 0), s)
      /\ Content(Holding(n, 0), s) = n
  BY HoldingContent
<1>2. new \in [Callers -> [Slots -> Bucket]]
  BY <1>1 DEF Put, AllWithin
<1>3. \A d \in Callers, x \in Slots :
         new[d][x] = IF d = c /\ x = s THEN Holding(n, 0) ELSE bs[d][x]
  BY DEF Put, AllWithin
<1> HIDE DEF new
<1>4. AllWithin(new)
  BY <1>1, <1>2, <1>3 DEF AllWithin
<1>5. \A d \in Callers, x \in Slots :
         Content(new[d][x], x) = IF d = c /\ x = s THEN n ELSE Content(bs[d][x], x)
  BY <1>1, <1>3
<1> QED  BY <1>4, <1>5 DEF new

(***************************************************************************)
(* Allow.                                                                  *)
(***************************************************************************)

\* The buckets Allow works on: swept first when a sweep is due.
Base == IF sinceSwept > SweepEvery THEN sweepLocked(bkts) ELSE bkts
Before(c, s) == Content(Base[c][s], s)
After(c, s) == Content(bkts'[c][s], s)

\* The buckets Allow starts from, swept or not, are within their bounds.
LEMMA BaseWithin ==
    ASSUME TypeOK
    PROVE  /\ AllWithin(bkts) /\ AllWithin(Base)
           /\ \A c \in Callers, s \in Slots : Before(c, s) \in Nat /\ Before(c, s) <= Cap(s)
           /\ \A c \in Callers, s \in Slots : Level(c, s) \in Nat /\ Level(c, s) <= Cap(s)
<1>1. AllWithin(bkts)
  BY DEF TypeOK, AllWithin, Within
<1>2. AllWithin(Base)
  BY <1>1, SweptWithin DEF Base
<1>3. ASSUME NEW c \in Callers, NEW s \in Slots
      PROVE  /\ Before(c, s) \in Nat /\ Before(c, s) <= Cap(s)
             /\ Level(c, s) \in Nat /\ Level(c, s) <= Cap(s)
  <2>1. Within(Base[c][s], s) /\ Within(bkts[c][s], s)
    BY <1>1, <1>2 DEF AllWithin
  <2> QED  BY <2>1, ContentTypes DEF Before, Level
<1> QED  BY <1>1, <1>2, <1>3

\* The sweep at the start of Allow changes no content.
LEMMA BaseContent ==
    ASSUME TypeOK, FillsWhileIdle, NEW c \in Callers, NEW s \in Slots
    PROVE  Before(c, s) = Level(c, s)
BY BaseWithin, SweptContents DEF Base, Before, Level

\* The three outcomes of Allow, told by the contents of the buckets.
Needs(t) == IF t \in Metered THEN {Global, t} ELSE {Global}

Granted(c, t) ==
    /\ \A s \in Needs(t) : Before(c, s) >= Minute
    /\ \A d \in Callers, s \in Slots :
          After(d, s) = IF d = c /\ s \in Needs(t) THEN Before(d, s) - Minute ELSE Before(d, s)
    /\ last' = <<c, t, "ok">>
    /\ Serve(c, Needs(t))

Refused(c, t) ==
    /\ \/ Before(c, Global) < Minute /\ last' = <<c, t, "global">>
       \/ /\ Before(c, Global) >= Minute
          /\ t \in Metered /\ Before(c, t) < Minute
          /\ last' = <<c, t, "tool">>
    /\ \A d \in Callers, s \in Slots : After(d, s) = Before(d, s)
    /\ UNCHANGED served

\* Allow grants, taking one token from every bucket it needs, or refuses
\* and, after the refund, leaves every content as it was.
LEMMA AllowOutcomes ==
    ASSUME TypeOK, NEW c \in Callers, NEW t \in Tools, Allow(c, t)
    PROVE  AllWithin(bkts') /\ (Granted(c, t) \/ Refused(c, t))
<1> DEFINE G == Got(Base[c][Global], Global)
           B == Got(Base[c][t], t)
           ng == Before(c, Global)
           nt == Before(c, t)
<1>0. Global \in Slots /\ (t \in Metered => t \in Slots /\ t # Global) /\ Minute \in Nat \ {0}
  BY LimiterAssumption DEF Slots
<1>1. /\ AllWithin(Base)
      /\ \A d \in Callers, s \in Slots : Before(d, s) \in Nat /\ Before(d, s) <= Cap(s)
      /\ \A d \in Callers, s \in Slots : Within(Base[d][s], s)
  BY BaseWithin DEF AllWithin
<1>2. ng \in Nat /\ ng <= Cap(Global) /\ Cap(Global) \in Nat
  BY <1>0, <1>1, SlotTypes
<1>3. G = Holding(ng, 0)
  BY <1>0, <1>1, GotContent DEF Before
<1>4. t \in Metered => B = Holding(nt, 0) /\ nt \in Nat /\ nt <= Cap(t) /\ Cap(t) \in Nat
  BY <1>0, <1>1, GotContent, SlotTypes DEF Before
<1>5. CanTake(G) <=> ng >= Minute
  BY <1>3 DEF CanTake, Holding
<1>6. t \in Metered => (CanTake(B) <=> nt >= Minute)
  BY <1>4 DEF CanTake, Holding
<1>7. Take(G) = Holding(ng - Minute, 0)
  BY <1>3 DEF Take, Holding
<1>8. t \in Metered => Take(B) = Holding(nt - Minute, 0)
  <2> HAVE t \in Metered
  <2>1. B.tokens = nt
    BY <1>4 DEF Holding
  <2> QED  BY <2>1 DEF Take
<1>9. refund(Take(G), Global) = Holding(ng, 0)
  <2>1. Least(Cap(Global), ng - Minute + Minute) = ng
    BY <1>0, <1>2 DEF Least
  <2>2. Take(G).tokens = ng - Minute
    BY <1>7 DEF Holding
  <2> QED  BY <2>1, <2>2 DEF refund
<1>a. CASE ~CanTake(G) /\ bkts' = Put(Base, c, Global, G) /\ last' = <<c, t, "global">>
           /\ UNCHANGED served
  <2>1. /\ AllWithin(bkts')
        /\ \A d \in Callers, s \in Slots :
              After(d, s) = IF d = c /\ s = Global THEN ng ELSE Before(d, s)
    BY <1>0, <1>1, <1>2, <1>3, <1>a, PutContent DEF After, Before
  <2>2. Refused(c, t)
    BY <1>0, <1>2, <1>5, <1>a, <2>1 DEF Refused
  <2> QED  BY <2>1, <2>2
<1>b. CASE CanTake(G) /\ t \notin Metered /\ bkts' = Put(Base, c, Global, Take(G))
           /\ last' = <<c, t, "ok">> /\ Serve(c, {Global})
  <2>0. ng - Minute \in Nat /\ ng - Minute <= Cap(Global)
    BY <1>0, <1>2, <1>5, <1>b
  <2>1. /\ AllWithin(bkts')
        /\ \A d \in Callers, s \in Slots :
              After(d, s) = IF d = c /\ s = Global THEN ng - Minute ELSE Before(d, s)
    BY <1>0, <1>1, <2>0, <1>7, <1>b, PutContent DEF After, Before
  <2>2. Granted(c, t)
    BY <1>0, <1>5, <1>b, <2>1 DEF Granted, Needs
  <2> QED  BY <2>1, <2>2
<1>c. CASE CanTake(G) /\ t \in Metered /\ CanTake(B)
           /\ bkts' = Put(Put(Base, c, Global, Take(G)), c, t, Take(B))
           /\ last' = <<c, t, "ok">> /\ Serve(c, {Global, t})
  <2>0. ng - Minute \in Nat /\ ng - Minute <= Cap(Global)
        /\ nt - Minute \in Nat /\ nt - Minute <= Cap(t)
    BY <1>0, <1>2, <1>4, <1>5, <1>6, <1>c
  <2> DEFINE mid == Put(Base, c, Global, Take(G))
  <2>1. /\ AllWithin(mid)
        /\ \A d \in Callers, s \in Slots :
              Content(mid[d][s], s) = IF d = c /\ s = Global THEN ng - Minute ELSE Before(d, s)
    BY <1>0, <1>1, <2>0, <1>7, PutContent DEF Before
  <2> HIDE DEF mid
  <2>2. bkts' = Put(mid, c, t, Holding(nt - Minute, 0))
    BY <1>8, <1>c DEF mid
  <2>3. /\ AllWithin(bkts')
        /\ \A d \in Callers, s \in Slots :
              After(d, s) = IF d = c /\ s = t THEN nt - Minute ELSE Content(mid[d][s], s)
    BY <1>0, <1>c, <2>0, <2>1, <2>2, PutContent DEF After
  <2>4. Granted(c, t)
    BY <1>0, <1>5, <1>6, <1>c, <2>1, <2>3 DEF Granted, Needs
  <2> QED  BY <2>3, <2>4
<1>d. CASE CanTake(G) /\ t \in Metered /\ ~CanTake(B)
           /\ bkts' = Put(Put(Base, c, Global, refund(Take(G), Global)), c, t, B)
           /\ last' = <<c, t, "tool">> /\ UNCHANGED served
  <2> DEFINE mid == Put(Base, c, Global, refund(Take(G), Global))
  <2>1. /\ AllWithin(mid)
        /\ \A d \in Callers, s \in Slots :
              Content(mid[d][s], s) = IF d = c /\ s = Global THEN ng ELSE Before(d, s)
    BY <1>0, <1>1, <1>2, <1>9, PutContent DEF Before
  <2> HIDE DEF mid
  <2>2. bkts' = Put(mid, c, t, Holding(nt, 0))
    BY <1>4, <1>d DEF mid
  <2>3. /\ AllWithin(bkts')
        /\ \A d \in Callers, s \in Slots :
              After(d, s) = IF d = c /\ s = t THEN nt ELSE Content(mid[d][s], s)
    BY <1>0, <1>4, <1>d, <2>1, <2>2, PutContent DEF After
  <2>4. Refused(c, t)
    BY <1>0, <1>2, <1>4, <1>5, <1>6, <1>d, <2>1, <2>3 DEF Refused
  <2> QED  BY <2>3, <2>4
<1> QED
  BY <1>a, <1>b, <1>c, <1>d DEF Allow, Base, Got, Metered

(***************************************************************************)
(* Type correctness.                                                       *)
(***************************************************************************)

\* Every bucket stays between empty and its burst, whatever the configuration.
THEOREM TypeCorrect == LimSpec => []TypeOK
<1>1. LimInit => TypeOK
  <2> SUFFICES ASSUME LimInit PROVE TypeOK
    OBVIOUS
  <2>1. Absent \in Bucket
    BY DEF Absent, Bucket
  <2>2. \A s \in Slots : Absent.tokens <= Cap(s) /\ Absent.idle <= IdleCap
    BY SlotTypes, LimiterAssumption DEF Absent
  <2> QED  BY <2>1, <2>2, LimiterAssumption DEF LimInit, TypeOK
<1>2. TypeOK /\ [LimNext]_limVars => TypeOK'
  <2> SUFFICES ASSUME TypeOK, [LimNext]_limVars PROVE TypeOK'
    OBVIOUS
  <2>0. AllWithin(bkts) /\ SweepEvery \in Nat /\ MaxWindow \in Nat
    BY BaseWithin, LimiterAssumption
  <2>1. ASSUME NEW c \in Callers, NEW t \in Tools, Allow(c, t) PROVE TypeOK'
    <3>1. AllWithin(bkts')
      BY <2>1, AllowOutcomes
    <3>2. served' \in [Callers -> [Slots -> Nat]]
      <4>1. Granted(c, t) \/ Refused(c, t)
        BY <2>1, AllowOutcomes
      <4>2. CASE Serve(c, Needs(t))
        BY <4>2 DEF Serve, TypeOK
      <4>3. CASE UNCHANGED served
        BY <4>3 DEF TypeOK
      <4> QED  BY <4>1, <4>2, <4>3 DEF Granted, Refused
    <3>3. sinceSwept' \in 0 .. SweepEvery + 1 /\ since' \in 0 .. MaxWindow
      BY <2>0, <2>1 DEF Allow, TypeOK
    <3> QED  BY <3>1, <3>2, <3>3 DEF TypeOK, AllWithin, Within
  <2>2. CASE RunSweeper
    <3>1. AllWithin(bkts')
      BY <2>0, <2>2, SweptWithin DEF RunSweeper
    <3> QED  BY <2>0, <2>2, <3>1 DEF RunSweeper, TypeOK, AllWithin, Within
  <2>3. CASE LimTick
    <3>1. \A c \in Callers, s \in Slots :
             bkts[c][s].live =>
                Within(Holding(bkts[c][s].tokens, Least(IdleCap, bkts[c][s].idle + 1)), s)
      BY <2>0, AgedContent DEF AllWithin
    <3>2. AllWithin(bkts')
      BY <2>0, <2>3, <3>1 DEF LimTick, AllWithin, Within
    <3>3. sinceSwept' \in 0 .. SweepEvery + 1 /\ since' \in 0 .. MaxWindow
      BY <2>0, <2>3 DEF LimTick, Least, TypeOK
    <3> QED  BY <2>3, <3>2, <3>3 DEF LimTick, TypeOK, AllWithin, Within
  <2>4. CASE OpenWindow
    BY <2>0, <2>4 DEF OpenWindow, TypeOK
  <2>5. CASE UNCHANGED limVars
    BY <2>5 DEF limVars, TypeOK
  <2> QED  BY <2>1, <2>2, <2>3, <2>4, <2>5 DEF LimNext
<1> QED  BY <1>1, <1>2, PTL DEF LimSpec

(***************************************************************************)
(* What each step does to the contents, when FillsWhileIdle.               *)
(***************************************************************************)
\* A round of the background sweeper changes no content.
LEMMA SweeperContents ==
    ASSUME TypeOK, FillsWhileIdle, RunSweeper, NEW c \in Callers, NEW s \in Slots
    PROVE  After(c, s) = Level(c, s)
BY BaseWithin, SweptContents DEF RunSweeper, After, Level

\* Time adds the rate to every content, up to the burst.
LEMMA TickContents ==
    ASSUME TypeOK, LimTick, NEW c \in Callers, NEW s \in Slots
    PROVE  After(c, s) = Least(Cap(s), Level(c, s) + Rate[s])
<1>0. Within(bkts[c][s], s) /\ Rate[s] \in Nat /\ Cap(s) \in Nat
  BY BaseWithin, SlotTypes DEF AllWithin
<1>1. CASE bkts[c][s].live
  <2>1. bkts'[c][s] = Holding(bkts[c][s].tokens, Least(IdleCap, bkts[c][s].idle + 1))
    BY <1>1 DEF LimTick
  <2> QED  BY <1>0, <1>1, <2>1, AgedContent DEF After, Level
<1>2. CASE ~bkts[c][s].live
  <2>1. bkts'[c][s] = bkts[c][s]
    BY <1>2 DEF LimTick
  <2> QED  BY <1>0, <1>2, <2>1 DEF After, Level, Content, Least
<1> QED  BY <1>1, <1>2

\* The inductive form of WindowBound: what was let through and what is left
\* come out of the burst and the time that has passed.
Budget ==
    \A c \in Callers, s \in Slots :
        served[c][s] * Minute + Level(c, s) <= Cap(s) + since * Rate[s]

\* No step of the limiter breaks the budget.
LEMMA BudgetStep ==
    ASSUME TypeOK, FillsWhileIdle, Budget, [LimNext]_limVars
    PROVE  Budget'
<1> SUFFICES ASSUME NEW c \in Callers, NEW s \in Slots
             PROVE  served'[c][s] * Minute + After(c, s) <= Cap(s) + since' * Rate[s]
  BY DEF Budget, Level, After
<1>0. /\ served[c][s] \in Nat /\ since \in Nat /\ Minute \in Nat
      /\ Rate[s] \in Nat /\ Cap(s) \in Nat
      /\ Level(c, s) \in Nat /\ Level(c, s) <= Cap(s)
  BY BaseWithin, SlotTypes, LimiterAssumption DEF TypeOK
<1>1. served[c][s] * Minute + Level(c, s) <= Cap(s) + since * Rate[s]
  BY DEF Budget
<1>2. /\ served[c][s] * Minute \in Nat /\ since * Rate[s] \in Nat
      /\ (served[c][s] + 1) * Minute = served[c][s] * Minute + Minute
      /\ (since + 1) * Rate[s] = since * Rate[s] + Rate[s]
  BY <1>0, Products
<1>3. ASSUME NEW d \in Callers, NEW t \in Tools, Allow(d, t)
      PROVE  served'[c][s] * Minute + After(c, s) <= Cap(s) + since' * Rate[s]
  <2>0. since' = since /\ Before(c, s) = Level(c, s)
    BY <1>3, BaseContent DEF Allow
  <2>1. CASE Refused(d, t)
    BY <1>1, <2>0, <2>1 DEF Refused
  <2>2. CASE Granted(d, t)
    <3>1. CASE c = d /\ s \in Needs(t)
      <4>1. served'[c][s] = served[c][s] + 1
        BY <2>2, <3>1 DEF Granted, Serve, TypeOK
      <4>2. After(c, s) = Level(c, s) - Minute
        BY <2>0, <2>2, <3>1 DEF Granted
      <4>3. served'[c][s] * Minute = served[c][s] * Minute + Minute
        BY <1>2, <4>1
      <4> QED  BY <1>0, <1>1, <1>2, <2>0, <4>2, <4>3
    <3>2. CASE ~(c = d /\ s \in Needs(t))
      <4>1. served'[c][s] = served[c][s]
        BY <2>2, <3>2 DEF Granted, Serve, TypeOK
      <4>2. After(c, s) = Level(c, s)
        BY <2>0, <2>2, <3>2 DEF Granted
      <4> QED  BY <1>1, <2>0, <4>1, <4>2
    <3> QED  BY <3>1, <3>2
  <2> QED  BY <1>3, <2>1, <2>2, AllowOutcomes
<1>4. CASE RunSweeper
  <2>1. After(c, s) = Level(c, s)
    BY <1>4, SweeperContents
  <2> QED  BY <1>1, <1>4, <2>1 DEF RunSweeper
<1>5. CASE LimTick
  <2>1. After(c, s) = Least(Cap(s), Level(c, s) + Rate[s])
    BY <1>5, TickContents
  <2>2. After(c, s) <= Level(c, s) + Rate[s] /\ After(c, s) \in Nat
    BY <1>0, <2>1 DEF Least
  <2>3. served' = served /\ since' * Rate[s] = since * Rate[s] + Rate[s]
    BY <1>2, <1>5 DEF LimTick
  <2> QED  BY <1>0, <1>1, <1>2, <2>2, <2>3
<1>6. CASE OpenWindow
  <2>1. /\ served'[c][s] = 0 /\ since' = 0 /\ After(c, s) = Level(c, s)
    BY <1>6 DEF OpenWindow, After, Level
  <2>2. 0 * Minute = 0 /\ 0 * Rate[s] = 0
    BY <1>0
  <2> QED  BY <1>0, <2>1, <2>2
<1>7. CASE UNCHANGED limVars
  BY <1>1, <1>7 DEF limVars, After, Level
<1> QED  BY <1>3, <1>4, <1>5, <1>6, <1>7 DEF LimNext

\* No caller gets more through a bucket, in any window of time, than the
\* burst and the sustained rate allow, provided that sweepLocked's idle time
\* fills the bucket.
THEOREM RateBound == FillsWhileIdle => (LimSpec => []WindowBound)
<1> SUFFICES ASSUME FillsWhileIdle PROVE LimSpec => []WindowBound
  OBVIOUS
<1>1. LimInit => Budget
  <2> SUFFICES ASSUME LimInit, NEW c \in Callers, NEW s \in Slots
               PROVE  served[c][s] * Minute + Level(c, s) <= Cap(s) + since * Rate[s]
    BY DEF Budget
  <2>1. served[c][s] = 0 /\ since = 0 /\ Level(c, s) = Cap(s)
    BY DEF LimInit, Level, Content, Absent
  <2>2. Cap(s) \in Nat /\ 0 * Minute = 0 /\ 0 * Rate[s] = 0
    BY SlotTypes
  <2> QED  BY <2>1, <2>2
<1>2. TypeOK /\ Budget /\ [LimNext]_limVars => Budget'
  BY BudgetStep
<1>3. TypeOK /\ Budget => WindowBound
  <2> SUFFICES ASSUME TypeOK, Budget, NEW c \in Callers, NEW s \in Slots
               PROVE  served[c][s] * Minute <= Cap(s) + since * Rate[s]
    BY DEF WindowBound
  <2>1. /\ served[c][s] * Minute + Level(c, s) <= Cap(s) + since * Rate[s]
        /\ Level(c, s) \in Nat /\ Cap(s) \in Nat
        /\ served[c][s] \in Nat /\ Minute \in Nat /\ since \in Nat /\ Rate[s] \in Nat
    BY BaseWithin, SlotTypes, LimiterAssumption DEF Budget, TypeOK
  <2>2. served[c][s] * Minute \in Nat /\ since * Rate[s] \in Nat
    BY <2>1, Products
  <2> QED  BY <2>1, <2>2
<1> QED  BY <1>1, <1>2, <1>3, TypeCorrect, PTL DEF LimSpec

(***************************************************************************)
(* Refinement.                                                             *)
(***************************************************************************)

\* The level function of the refinement mapping, before and after a step.
Levels == [c \in Callers |-> [s \in Slots |-> Level(c, s)]]

\* TokenBucket and RateLimiter mean the same by their common names.
LEMMA MappedNames ==
    /\ TB!Slots = Slots
    /\ \A s \in Slots : TB!Cap(s) = Cap(s)
    /\ \A t \in Tools : TB!Needed(t) = Needs(t)
    /\ \A a, b : TB!Least(a, b) = Least(a, b)
BY DEF TB!Slots, TB!Cap, TB!Needed, TB!Least, Slots, Cap, Needs, Least

\* Every step of the limiter is a step of the ideal buckets or none.
LEMMA MappedStep ==
    ASSUME TypeOK, FillsWhileIdle, [LimNext]_limVars
    PROVE  [TB!Step]_(TB!ideal)
<1>0. /\ Levels = [c \in Callers |-> [s \in Slots |-> Level(c, s)]]
      /\ Levels' = [c \in Callers |-> [s \in Slots |-> After(c, s)]]
  BY DEF Levels, Level, After
<1>1. ASSUME NEW c \in Callers, NEW t \in Tools, Allow(c, t)
      PROVE  TB!Grant(c, t) \/ TB!Refuse(c, t)
  <2>0. \A d \in Callers, s \in Slots : Before(d, s) = Level(d, s)
    BY BaseContent
  <2>1. CASE Granted(c, t)
    <3>1. Levels' = [Levels EXCEPT ![c] =
                       [s \in Slots |-> IF s \in Needs(t) THEN @[s] - Minute ELSE @[s]]]
      BY <1>0, <2>0, <2>1 DEF Granted
    <3>2. Needs(t) \subseteq Slots
      BY DEF Needs, Slots
    <3>3. \A s \in Needs(t) : Levels[c][s] >= Minute
      BY <1>0, <2>0, <2>1, <3>2 DEF Granted
    <3>4. last' = <<c, t, "ok">>
      BY <2>1 DEF Granted
    <3> QED  BY <3>1, <3>3, <3>4, MappedNames DEF TB!Grant, Levels
  <2>2. CASE Refused(c, t)
    <3>1. Levels' = Levels
      BY <1>0, <2>0, <2>2 DEF Refused
    <3>2. Global \in Slots /\ (t \in Metered => t \in Slots)
      BY DEF Slots
    <3>3. \/ Levels[c][Global] < Minute /\ last' = <<c, t, "global">>
          \/ /\ Levels[c][Global] >= Minute
             /\ t \in Metered /\ Levels[c][t] < Minute
             /\ last' = <<c, t, "tool">>
      BY <1>0, <2>0, <2>2, <3>2 DEF Refused
    <3> QED  BY <3>1, <3>3 DEF TB!Refuse, Levels
  <2> QED  BY <1>1, <2>1, <2>2, AllowOutcomes
<1>2. CASE RunSweeper
  <2>1. Levels' = Levels
    BY <1>0, <1>2, SweeperContents
  <2> QED  BY <1>2, <2>1 DEF RunSweeper, TB!ideal, Levels
<1>3. CASE LimTick
  <2>1. Levels' = [c \in Callers |-> [s \in Slots |-> Least(Cap(s), Levels[c][s] + Rate[s])]]
    BY <1>0, <1>3, TickContents
  <2>2. last' = last
    BY <1>3 DEF LimTick
  <2>3. TB!Fill
    BY <2>1, <2>2, MappedNames DEF TB!Fill, Levels
  <2> QED  BY <2>3 DEF TB!Step
<1>4. CASE OpenWindow
  BY <1>4 DEF OpenWindow, TB!ideal, Level
<1>5. CASE UNCHANGED limVars
  BY <1>5 DEF limVars, TB!ideal, Level
<1> QED  BY <1>1, <1>2, <1>3, <1>4, <1>5 DEF LimNext, TB!Step

\* The limiter's lazily filled and swept buckets implement ideal ones that
\* fill continuously and are never deleted: sweepLocked and the refund in
\* Allow are invisible to every caller, provided FillsWhileIdle.
THEOREM ImplementsTokenBucket == FillsWhileIdle => (LimSpec => IsTokenBucket)
<1> SUFFICES ASSUME FillsWhileIdle PROVE LimSpec => IsTokenBucket
  OBVIOUS
<1>1. LimInit => TB!Start
  <2> SUFFICES ASSUME LimInit PROVE TB!Start
    OBVIOUS
  <2>1. \A c \in Callers, s \in Slots : Level(c, s) = Cap(s)
    BY DEF LimInit, Level, Content, Absent
  <2> QED  BY <2>1, MappedNames DEF LimInit, TB!Start
<1>2. TypeOK /\ [LimNext]_limVars => [TB!Step]_(TB!ideal)
  BY MappedStep
<1> QED  BY <1>1, <1>2, TypeCorrect, PTL DEF LimSpec, IsTokenBucket, TB!Ideal
=============================================================================
