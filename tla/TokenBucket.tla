----------------------------- MODULE TokenBucket -----------------------------
(***************************************************************************)
(* What the rate limiter promises (REQ 6.6): one token bucket per caller   *)
(* and one per caller and expensive tool, filled continuously, and a       *)
(* request passes exactly when every bucket that applies to it has a token *)
(* to give.  A request that is refused costs nothing.                      *)
(*                                                                         *)
(* Tokens are counted in parts: a token is `Minute` parts, and a bucket    *)
(* gains Rate[s] of them per unit of time, a minute having Minute units.   *)
(***************************************************************************)
EXTENDS Integers

CONSTANTS
    Callers, Tools,
    Metered,        \* the tools with a bucket of their own
    Global,         \* the name of the bucket that every request draws on
    Minute,         \* units of time per minute
    Rate, Burst     \* per bucket: SustainedPerMin and Burst

Slots == {Global} \cup Metered
Cap(s) == Burst[s] * Minute
Least(a, b) == IF a <= b THEN a ELSE b
Needed(t) == IF t \in Metered THEN {Global, t} ELSE {Global}

VARIABLES
    level,          \* per caller and bucket: the parts in it
    last            \* the latest call and its verdict

ideal == <<level, last>>

Start ==
    /\ level = [c \in Callers |-> [s \in Slots |-> Cap(s)]]
    /\ last = <<>>

Grant(c, t) ==
    /\ \A s \in Needed(t) : level[c][s] >= Minute
    /\ level' = [level EXCEPT ![c] =
                    [s \in Slots |-> IF s \in Needed(t) THEN @[s] - Minute ELSE @[s]]]
    /\ last' = <<c, t, "ok">>

Refuse(c, t) ==
    /\ \/ level[c][Global] < Minute /\ last' = <<c, t, "global">>
       \/ /\ level[c][Global] >= Minute
          /\ t \in Metered /\ level[c][t] < Minute
          /\ last' = <<c, t, "tool">>
    /\ UNCHANGED level

Fill ==
    /\ level' = [c \in Callers |-> [s \in Slots |-> Least(Cap(s), level[c][s] + Rate[s])]]
    /\ UNCHANGED last

Step == Fill \/ \E c \in Callers, t \in Tools : Grant(c, t) \/ Refuse(c, t)

Ideal == Start /\ [][Step]_ideal
=============================================================================
