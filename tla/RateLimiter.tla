----------------------------- MODULE RateLimiter -----------------------------
(***************************************************************************)
(* The two-level limiter, daemon/internal/daemon/ratelimit/ratelimit.go.   *)
(* A bucket is created full when it is first needed, filled only when it   *)
(* is used, and deleted when it has been idle for long, by the sweep in    *)
(* Allow or by the background sweeper.  Allow holds the mutex throughout,  *)
(* so it is one action.                                                    *)
(*                                                                         *)
(* The floating-point tokens of the code are exact parts of a token here   *)
(* (see TokenBucket).  lastFill and lastTouched are always set together    *)
(* and to the same instant, so a bucket keeps one age for both.            *)
(***************************************************************************)
EXTENDS Integers

CONSTANTS
    Callers, Tools,
    Expensive,      \* the tools perTool configures
    Disabled,       \* those of them whose bucket is switched off
    Global, Minute,
    Rate, Burst,    \* SustainedPerMin and Burst, per bucket
    IdleLimit,      \* sweepLocked's idle: 10 minutes
    SweepEvery,     \* Limiter.sweepEvery: 5 minutes
    IdleCap,        \* idle times are counted up to here
    MaxWindow       \* bound: the longest window that is measured

Metered == Expensive \ Disabled
Slots == {Global} \cup Metered
Cap(s) == Burst[s] * Minute

ASSUME LimiterAssumption ==
    /\ Expensive \subseteq Tools /\ Disabled \subseteq Expensive /\ Global \notin Tools
    /\ Minute \in Nat \ {0}
    /\ Rate \in [Slots -> Nat \ {0}] /\ Burst \in [Slots -> Nat \ {0}]
    /\ IdleLimit \in Nat /\ SweepEvery \in Nat /\ IdleCap \in Nat /\ MaxWindow \in Nat
    /\ IdleCap > IdleLimit
    /\ \A s \in Slots : IdleCap * Rate[s] >= Cap(s)

VARIABLES
    bkts,           \* globalBkts and toolBkts: per caller and bucket
    sinceSwept,     \* time since lastSwept, up to SweepEvery + 1
    last,           \* the latest Allow and what it returned
    served, since   \* history: requests let through per bucket, and the
                    \* time passed, since a window was opened

limVars == <<bkts, sinceSwept, last, served, since>>

(***************************************************************************)
(* Buckets.                                                                *)
(***************************************************************************)
Bucket == [live : BOOLEAN, tokens : Nat, idle : Nat]
Absent == [live |-> FALSE, tokens |-> 0, idle |-> 0]
Holding(n, idle) == [live |-> TRUE, tokens |-> n, idle |-> idle]
newBucket(s) == Holding(Cap(s), 0)

Least(a, b) == IF a <= b THEN a ELSE b

sweepLockedEager(bs) ==
    [c \in Callers |-> [s \in Slots |->
        IF bs[c][s].live /\ bs[c][s].idle > 0 THEN Absent ELSE bs[c][s]]]

sweepLocked(bs) ==
    [c \in Callers |-> [s \in Slots |->
        IF bs[c][s].live /\ bs[c][s].idle > IdleLimit THEN Absent ELSE bs[c][s]]]

refillUncapped(b, s) == Holding(b.tokens + b.idle * Rate[s], 0)

\* The first half of tryTake: what has accrued, up to the burst.
refill(b, s) == Holding(Least(Cap(s), b.tokens + b.idle * Rate[s]), 0)

\* The second half: a token is there to be taken.
CanTake(b) == b.tokens >= Minute
Take(b) == Holding(b.tokens - Minute, 0)

refundNothing(b, s) == b

refund(b, s) == Holding(Least(Cap(s), b.tokens + Minute), 0)

(***************************************************************************)
(* Operations.                                                             *)
(***************************************************************************)
Serve(c, slots) ==
    served' = [served EXCEPT ![c] = [s \in Slots |-> IF s \in slots THEN @[s] + 1 ELSE @[s]]]

Put(bs, c, s, b) == [bs EXCEPT ![c] = [@ EXCEPT ![s] = b]]

Allow(c, t) ==
    LET due == sinceSwept > SweepEvery
        bs  == IF due THEN sweepLocked(bkts) ELSE bkts
        get(s) == refill(IF bs[c][s].live THEN bs[c][s] ELSE newBucket(s), s)
        g == get(Global)
        b == get(t)
    IN
    /\ sinceSwept' = IF due THEN 0 ELSE sinceSwept
    /\ UNCHANGED since
    /\ \/ /\ ~CanTake(g)
          /\ bkts' = Put(bs, c, Global, g)
          /\ last' = <<c, t, "global">>
          /\ UNCHANGED served
       \/ /\ CanTake(g)
          /\ t \notin Expensive \/ t \in Disabled
          /\ bkts' = Put(bs, c, Global, Take(g))
          /\ last' = <<c, t, "ok">>
          /\ Serve(c, {Global})
       \/ /\ CanTake(g)
          /\ t \in Expensive /\ t \notin Disabled
          /\ CanTake(b)
          /\ bkts' = Put(Put(bs, c, Global, Take(g)), c, t, Take(b))
          /\ last' = <<c, t, "ok">>
          /\ Serve(c, {Global, t})
       \/ /\ CanTake(g)
          /\ t \in Expensive /\ t \notin Disabled
          /\ ~CanTake(b)
          /\ bkts' = Put(Put(bs, c, Global, refund(Take(g), Global)), c, t, b)
          /\ last' = <<c, t, "tool">>
          /\ UNCHANGED served

\* The background sweeper, every minute in the code, at any time here.
RunSweeper ==
    /\ bkts' = sweepLocked(bkts)
    /\ sinceSwept' = 0
    /\ UNCHANGED <<last, served, since>>

LimTick ==
    /\ since < MaxWindow
    /\ since' = since + 1
    /\ sinceSwept' = Least(SweepEvery + 1, sinceSwept + 1)
    /\ bkts' = [c \in Callers |-> [s \in Slots |->
                   IF bkts[c][s].live
                   THEN Holding(bkts[c][s].tokens, Least(IdleCap, bkts[c][s].idle + 1))
                   ELSE bkts[c][s]]]
    /\ UNCHANGED <<last, served>>

\* Somebody starts to count: only the history changes.
OpenWindow ==
    /\ since' = 0
    /\ served' = [c \in Callers |-> [s \in Slots |-> 0]]
    /\ UNCHANGED <<bkts, sinceSwept, last>>

LimInit ==
    /\ bkts = [c \in Callers |-> [s \in Slots |-> Absent]]
    /\ sinceSwept = 0
    /\ last = <<>>
    /\ served = [c \in Callers |-> [s \in Slots |-> 0]]
    /\ since = 0

LimNext ==
    \/ \E c \in Callers, t \in Tools : Allow(c, t)
    \/ RunSweeper
    \/ LimTick
    \/ OpenWindow

LimSpec == LimInit /\ [][LimNext]_limVars

(***************************************************************************)
(* Properties.                                                             *)
(***************************************************************************)

\* Type invariant: no bucket holds less than nothing or more than its burst.
TypeOK ==
    /\ bkts \in [Callers -> [Slots -> Bucket]]
    /\ \A c \in Callers, s \in Slots :
          bkts[c][s].tokens <= Cap(s) /\ bkts[c][s].idle <= IdleCap
    /\ sinceSwept \in 0 .. SweepEvery + 1
    /\ served \in [Callers -> [Slots -> Nat]]
    /\ since \in 0 .. MaxWindow

\* What a bucket would hold if it were filled now; a missing bucket is full.
Content(b, s) ==
    IF b.live THEN Least(Cap(s), b.tokens + b.idle * Rate[s]) ELSE Cap(s)
Level(c, s) == Content(bkts[c][s], s)

\* In any window, whatever was swept meanwhile, no caller gets more through
\* a bucket than its burst and what the sustained rate adds in that time.
WindowBound ==
    \A c \in Callers, s \in Slots :
        served[c][s] * Minute <= Cap(s) + since * Rate[s]

\* The buckets that Allow and sweepLocked keep decide like buckets that are
\* filled continuously and never deleted, and a refusal costs nothing.
TB == INSTANCE TokenBucket
          WITH level <- [c \in Callers |-> [s \in Slots |-> Level(c, s)]]
IsTokenBucket == TB!Ideal
=============================================================================
