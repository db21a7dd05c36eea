---------------------------- MODULE StorageTool -----------------------------
(***************************************************************************)
(* The storage tool: SMART of every block device through a bounded fan-out *)
(* of helper calls, then one call after the other for RAID arrays, LVM,    *)
(* ZFS and btrfs, all under one deadline.  Any call may fail while the     *)
(* others succeed, and after the deadline every call does.                 *)
(***************************************************************************)
EXTENDS Naturals, Sequences, FiniteSets

CONSTANTS
    Devices,   \* block devices, in the order of their names
    Ops,       \* the calls after SMART: "md0", "lvm", "zpool", "btrfs", ...
    Fanout     \* helper_fanout

ASSUME StorageAssumption ==
    /\ Fanout \in Nat \ {0}
    /\ \A s \in {Devices, Ops} : Len(s) \in Nat /\ DOMAIN s = 1..Len(s)

DeviceIndex == 1..Len(Devices)
NoRow == [device |-> "", figures |-> FALSE, err |-> ""]

VARIABLES
    stCtx,     \* the invocation's context: "live" or "over"
    stPc,      \* "smart" (starting goroutines), "ops", "done"
    nextDev,   \* index of the next device to start
    worker,    \* DeviceIndex -> "idle", "calling", "done": the device's goroutine
    sem,       \* slots of the fan-out that are taken
    rows,      \* DeviceIndex -> its row of the result, NoRow until written
    nextOp,    \* index of the next call of Ops
    answered,  \* indices of the calls whose answer is in the result
    opErrors   \* and of those that are in errors[] and in the warnings

stVars == <<stCtx, stPc, nextDev, worker, sem, rows, nextOp, answered, opErrors>>

StInit ==
    /\ stCtx = "live" /\ stPc = "smart" /\ nextDev = 1
    /\ worker = [i \in DeviceIndex |-> "idle"] /\ sem = 0
    /\ rows = [i \in DeviceIndex |-> NoRow]
    /\ nextOp = 1 /\ answered = {} /\ opErrors = {}

\* mapHelperCode: the codes of the helper, reduced to those of the report.
mapHelperCode(code) ==
    IF code \in {"tool_missing", "tool_failed", "deadline", "output_truncated"} THEN code
    ELSE "parse_failed"
\* CallJSON: it succeeds, or fails with one of the helper's codes, possibly
\* after it has filled in part of the result; past the deadline it fails.
CallResults == {[ok |-> o, code |-> c, filled |-> f] :
              o \in BOOLEAN, c \in {"tool_failed", "deadline", "internal"}, f \in BOOLEAN}
CallJSON == {r \in CallResults : /\ r.ok => r.filled /\ r.code = "internal"
                             /\ stCtx = "over" => ~r.ok /\ r.code = "deadline"}

-----------------------------------------------------------------------------
(* collectSmart.                                                            *)

\* The loop takes a slot and starts the device's goroutine.
LaunchSmart ==
    /\ stPc = "smart" /\ nextDev <= Len(Devices) /\ sem < Fanout
    /\ sem' = sem + 1 /\ nextDev' = nextDev + 1
    /\ worker' = [worker EXCEPT ![nextDev] = "calling"]
    /\ UNCHANGED <<stCtx, stPc, rows, nextOp, answered, opErrors>>

smartRowKeepingPart(i, r) == [device |-> Devices[i], figures |-> r.filled,
                         err |-> IF r.ok THEN "" ELSE mapHelperCode(r.code)]
\* A failed call replaces the smartRow, with what the call had filled in.
smartRow(i, r) == [device |-> Devices[i], figures |-> r.ok,
              err |-> IF r.ok THEN "" ELSE mapHelperCode(r.code)]

SmartReturns(i) ==
    /\ worker[i] = "calling"
    /\ \E r \in CallJSON : rows' = [rows EXCEPT ![i] = smartRow(i, r)]
    /\ worker' = [worker EXCEPT ![i] = "done"] /\ sem' = sem - 1
    /\ UNCHANGED <<stCtx, stPc, nextDev, nextOp, answered, opErrors>>

\* wg.Wait.
JoinSmart ==
    /\ stPc = "smart" /\ nextDev > Len(Devices)
    /\ \A i \in DeviceIndex : worker[i] = "done"
    /\ stPc' = "ops"
    /\ UNCHANGED <<stCtx, nextDev, worker, sem, rows, nextOp, answered, opErrors>>

-----------------------------------------------------------------------------
(* Handle, after SMART: an answer goes into the result, a failure into      *)
(* errors[] and the warnings (addOpError).                                  *)

addOpError(i) == opErrors' = opErrors \cup {i}

CallOp ==
    /\ stPc = "ops" /\ nextOp <= Len(Ops) /\ nextOp' = nextOp + 1
    /\ \E r \in CallJSON :
          IF r.ok THEN answered' = answered \cup {nextOp} /\ UNCHANGED opErrors
          ELSE addOpError(nextOp) /\ UNCHANGED answered
    /\ UNCHANGED <<stCtx, stPc, nextDev, worker, sem, rows>>

StReturn ==
    /\ stPc = "ops" /\ nextOp > Len(Ops) /\ stPc' = "done"
    /\ UNCHANGED <<stCtx, nextDev, worker, sem, rows, nextOp, answered, opErrors>>

StDeadline ==
    /\ stCtx = "live" /\ stCtx' = "over"
    /\ UNCHANGED <<stPc, nextDev, worker, sem, rows, nextOp, answered, opErrors>>

StStep == LaunchSmart \/ JoinSmart \/ CallOp \/ StReturn \/ \E i \in DeviceIndex : SmartReturns(i)
StNext == StStep \/ StDeadline

StSpec == StInit /\ [][StNext]_stVars

-----------------------------------------------------------------------------
\* The result has every device once, at its own place, with figures or with an
\* error and never with both; and every other call is in it or in errors[],
\* though the manifest may name a mount point twice.
NothingMissing ==
    stPc = "done" =>
        /\ \A i \in DeviceIndex : /\ rows[i].device = Devices[i]
                            /\ rows[i].figures <=> rows[i].err = ""
        /\ DOMAIN Ops = answered \cup opErrors /\ answered \cap opErrors = {}
=============================================================================
