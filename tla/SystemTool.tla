----------------------------- MODULE SystemTool -----------------------------
(***************************************************************************)
(* The disk list of the system tool, which measures every mount with a     *)
(* statfs that can block for ever.  Several polls may run at once, because *)
(* an invocation outlives the request that started it; they share          *)
(* statfsInFlight.                                                         *)
(***************************************************************************)
EXTENDS Naturals, Sequences, FiniteSets, Ordering

CONSTANTS
    Polls,  \* invocations of Handle in a behaviour
    Table   \* /proc/mounts: a sequence of [mp, fs]

\* The kind of a file system, from the tables of parseMounts and
\* mayBlockOnStatfs.
ASSUME SystemAssumption ==
    /\ IsFiniteSet(Polls)
    /\ Len(Table) \in Nat /\ DOMAIN Table = 1..Len(Table)
    /\ \A i \in DOMAIN Table : Table[i].fs \in {"pseudo", "local", "blocking"}

Real == {i \in DOMAIN Table : Table[i].fs # "pseudo"}
Mounts == {Table[i].mp : i \in Real}

VARIABLES
    health,   \* Mounts -> "up", or "dead": statfs blocks
    inFlight, \* statfsInFlight: mount points with a probe outstanding
    probe,    \* Polls -> Mounts -> the probing goroutine the poll started
    poll      \* Polls -> the invocation: where it is, and what it reports

sysVars == <<health, inFlight, probe, poll>>

-----------------------------------------------------------------------------
(* parseMounts: every mount point once, pseudo file systems left out, those *)
(* that cannot block first.  A read that fails leaves a prefix of the table.*)

Fresh(n, i) == /\ i <= n /\ i \in Real
               /\ ~ \E j \in Real : j < i /\ Table[j].mp = Table[i].mp
OfKind(n, kind) == Ascending({i \in Real : Fresh(n, i) /\ Table[i].fs = kind})

parseMountsDropping(n) == OfKind(n, "local")
parseMounts(n) == OfKind(n, "local") \o OfKind(n, "blocking")

-----------------------------------------------------------------------------

\* todo: table indices still to be measured; disk: what is listed so far;
\* unmeasured: what its warning names; partial: the warning on the table.
NewPoll == [pc |-> "start", todo |-> <<>>, disk |-> <<>>, unmeasured |-> {}, partial |-> FALSE]

SysInit ==
    /\ health = [m \in Mounts |-> "up"]
    /\ inFlight = {}
    /\ probe = [p \in Polls |-> [m \in Mounts |-> "none"]]
    /\ poll = [p \in Polls |-> NewPoll]

Mp(p) == Table[Head(poll[p].todo)].mp

\* The mount table, which may be read only in part.
readMounts(p) ==
    /\ poll[p].pc = "start"
    /\ \E n \in {Len(Table), Len(Table) - 1} :
          poll' = [poll EXCEPT ![p].pc = "next", ![p].todo = parseMounts(n),
                               ![p].partial = n < Len(Table)]
    /\ UNCHANGED <<health, inFlight, probe>>

\* The mount at hand is listed, measured or named in the warning.
ListMount(p, ok) ==
    poll' = [poll EXCEPT ![p].pc = "next", ![p].todo = Tail(@),
                         ![p].disk = Append(@, [mp |-> Mp(p), measured |-> ok]),
                         ![p].unmeasured = IF ok THEN @ ELSE @ \cup {Mp(p)}]

\* statfsBounded: LoadOrStore finds the mark of an earlier probe,
ProbeBusy(p) ==
    /\ poll[p].pc = "next" /\ poll[p].todo # <<>> /\ Mp(p) \in inFlight
    /\ ListMount(p, FALSE)
    /\ UNCHANGED <<health, inFlight, probe>>

\* or sets it and starts a goroutine.
LaunchProbe(p) ==
    /\ poll[p].pc = "next" /\ poll[p].todo # <<>> /\ Mp(p) \notin inFlight
    /\ inFlight' = inFlight \cup {Mp(p)}
    /\ probe' = [probe EXCEPT ![p][Mp(p)] = "statfs"]
    /\ poll' = [poll EXCEPT ![p].pc = "wait"]
    /\ UNCHANGED health

\* The goroutine: the system call returns unless the mount is dead, the result
\* goes into a channel with room for it, and only then is the mark deleted.
StatfsReturns(p, m) ==
    /\ probe[p][m] = "statfs" /\ health[m] # "dead"
    /\ probe' \in {[probe EXCEPT ![p][m] = r] : r \in {"up", "error"}}
    /\ UNCHANGED <<health, inFlight, poll>>
UnmarkNever(p, m) == FALSE /\ probe[p][m] = "up" /\ UNCHANGED sysVars
Unmark(p, m) ==
    /\ probe[p][m] \in {"up", "error"} /\ m \in inFlight
    /\ inFlight' = inFlight \ {m}
    /\ probe' = [probe EXCEPT ![p][m] = IF @ = "up" THEN "up_end" ELSE "error_end"]
    /\ UNCHANGED <<health, poll>>

ProbeResult(p) ==
    /\ poll[p].pc = "wait" /\ probe[p][Mp(p)] # "statfs"
    /\ ListMount(p, probe[p][Mp(p)] \in {"up", "up_end"})
    /\ UNCHANGED <<health, inFlight, probe>>
ProbeTimeoutUnmarks(p) ==
    /\ poll[p].pc = "wait" /\ probe[p][Mp(p)] = "statfs" /\ ListMount(p, FALSE)
    /\ inFlight' = inFlight \ {Mp(p)}
    /\ UNCHANGED <<health, probe>>

\* After statfsTimeout the poll goes on; the goroutine and the mark stay.
ProbeTimeout(p) ==
    /\ poll[p].pc = "wait" /\ probe[p][Mp(p)] = "statfs" /\ ListMount(p, FALSE)
    /\ UNCHANGED <<health, inFlight, probe>>

PollReturns(p) ==
    /\ poll[p].pc = "next" /\ poll[p].todo = <<>>
    /\ poll' = [poll EXCEPT ![p].pc = "done"]
    /\ UNCHANGED <<health, inFlight, probe>>

\* The server of a mount that has one dies or comes back.
HealthChanges ==
    /\ \E i \in {k \in Real : Table[k].fs = "blocking"} :
          health' = [health EXCEPT ![Table[i].mp] = IF @ = "up" THEN "dead" ELSE "up"]
    /\ UNCHANGED <<inFlight, probe, poll>>

PollStep(p) == readMounts(p) \/ ProbeBusy(p) \/ LaunchProbe(p) \/ ProbeResult(p) \/ ProbeTimeout(p) \/ PollReturns(p)

ProbeStep(p, m) == StatfsReturns(p, m) \/ Unmark(p, m)

SysNext == \/ \E p \in Polls : PollStep(p) \/ \E m \in Mounts : ProbeStep(p, m)
           \/ HealthChanges

\* Goroutines run and the timeout fires; the system call returns if the mount
\* answers from some time on.
SysFairness == \A p \in Polls : WF_sysVars(PollStep(p)) /\ \A m \in Mounts : WF_sysVars(ProbeStep(p, m))

SysSpec == SysInit /\ [][SysNext]_sysVars /\ SysFairness

-----------------------------------------------------------------------------
\* A mount is marked as long as one goroutine is at it, and no second one is
\* started: polls that overlap or give up do not pile goroutines on a dead mount.
OneProbePerMount ==
    \A m \in Mounts : Cardinality({p \in Polls : probe[p][m] \in {"statfs", "up", "error"}})
                      = IF m \in inFlight THEN 1 ELSE 0

\* What a poll returns lists every mount of the table once, blocked ones too, or
\* says that the table was read in part; a mount without figures is named in the
\* warning.
DiskListComplete ==
    \A p \in Polls : poll[p].pc = "done" =>
        LET disk == poll[p].disk IN
        /\ \A i, j \in DOMAIN disk : disk[i].mp = disk[j].mp => i = j
        /\ poll[p].partial \/ {disk[i].mp : i \in DOMAIN disk} = Mounts
        /\ poll[p].unmeasured = {disk[i].mp : i \in {k \in DOMAIN disk : ~disk[k].measured}}

\* Every poll ends though mounts stay dead, and the mark of a mount goes unless
\* the mount is dead for good.
DisksSettle ==
    /\ \A p \in Polls : poll[p].pc # "start" ~> poll[p].pc = "done"
    /\ \A m \in Mounts : []<>(m \notin inFlight) \/ []<>(health[m] = "dead")
=============================================================================
