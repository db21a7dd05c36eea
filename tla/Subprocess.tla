----------------------------- MODULE Subprocess -----------------------------
(***************************************************************************)
(* One call of the helper's subprocess runner: Run, RunCapped or           *)
(* RunStreaming, its child, the goroutine of os/exec that watches the      *)
(* context, the goroutine that copies the child's output (Run), and the    *)
(* timers that turn SIGTERM into SIGKILL.  Output is counted in units, a   *)
(* unit being what one write of the child puts into the pipe (a line, for  *)
(* RunStreaming).                                                          *)
(***************************************************************************)
EXTENDS Naturals

CONSTANTS
    Cap,       \* units a call may keep: MaxStdout of Run, maxBytes of RunCapped
    PipeCap,   \* units the kernel's pipe holds
    MaxOut     \* bound: units the child writes at most

ASSUME SubprocessAssumption == /\ Cap \in Nat
                               /\ PipeCap \in Nat \ {0}
                               /\ MaxOut \in Nat

VARIABLES
    mode,       \* which of the three functions was called
    pc,         \* where its goroutine is
    child,      \* the process: "new", "running", or how it ended
    term,       \* SIGTERM was sent while it ran
    held,       \* a process the child left behind has the pipes open
    wrote,      \* units written so far
    pipe,       \* units in the pipe
    kept,       \* units captured, or lines visited
    truncated,  \* cappedWriter.truncated, or RunCapped's flag
    scanErr,    \* RunStreaming met a line longer than MaxLineLength
    copier,     \* Run's copy goroutine: "copying", "failed", "eof"
    ctx,        \* the operation's context
    watcher,    \* os/exec's goroutine: "idle", "watching", "cancelled", "gone"
    timers,     \* the timers armed by Cancel and by the truncation
    killTimer,  \* the timer that the shared variable points to
    reply       \* what the function returned: [code, truncated]

outVars   == <<wrote, pipe, kept, truncated, scanErr, copier>>
childVars == <<child, term, held>>
killVars  == <<ctx, watcher, timers, killTimer>>
vars == <<mode, pc, childVars, outVars, killVars, reply>>

Modes == {"Run", "RunCapped", "RunStreaming"}
Dead  == {"exit0", "exit1", "signaled"}
Codes == {"none", "ok", "deadline", "output_truncated", "tool_missing",
          "tool_failed", "internal"}

\* Counters stay within their bounds: what is kept never exceeds the cap of the
\* two functions that have one, and no unit is kept that was not written.
TypeOK ==
    /\ mode \in Modes
    /\ pc \in {"start", "read", "cut", "drain", "wait", "watch", "await", "stop", "done"}
    /\ child \in {"new", "running"} \cup Dead
    /\ term \in BOOLEAN /\ held \in BOOLEAN
    /\ wrote \in 0..MaxOut /\ pipe \in 0..PipeCap /\ kept \in 0..MaxOut
    /\ kept + pipe <= wrote
    /\ mode # "RunStreaming" => kept <= Cap
    /\ truncated \in BOOLEAN /\ scanErr \in BOOLEAN
    /\ copier \in {"copying", "failed", "eof"}
    /\ ctx \in {"live", "deadline", "canceled"}
    /\ watcher \in {"idle", "watching", "cancelled", "gone"}
    /\ timers \in [{"cancel", "trunc"} -> {"off", "armed", "stopped", "fired"}]
    /\ killTimer \in {"none", "cancel", "trunc"}
    /\ reply \in [code : Codes, truncated : BOOLEAN]

Init ==
    /\ mode \in Modes
    /\ pc = "start" /\ child = "new" /\ term = FALSE /\ held = FALSE
    /\ wrote = 0 /\ pipe = 0 /\ kept = 0
    /\ truncated = FALSE /\ scanErr = FALSE /\ copier = "copying"
    /\ ctx = "live" /\ watcher = "idle"
    /\ timers = [t \in {"cancel", "trunc"} |-> "off"] /\ killTimer = "none"
    /\ reply = [code |-> "none", truncated |-> FALSE]

-----------------------------------------------------------------------------
(* Errors: "none", "exit" (ExitError), "truncated" (truncatedError),        *)
(* "notfound" (exec.ErrNotFound), "other", or the context's own error.      *)

classify(err) ==
    CASE err = "deadline"  -> "deadline"
      [] err = "truncated" -> "output_truncated"
      [] err = "notfound"  -> "tool_missing"
      [] OTHER             -> "tool_failed"

\* RunCapped and RunStreaming wrap a failure to start instead of classifying
\* it, and the helper's server maps what they wrap.
startFailure(err) ==
    CASE mode = "Run"      -> classify(err)
      [] err = "notfound"  -> "tool_missing"
      [] err = "deadline"  -> "deadline"
      [] OTHER             -> "internal"

\* What Wait returns: the exit status before the context's error, and the
\* copy goroutine's error only if neither says anything.
waitErr ==
    CASE child # "exit0"                                -> "exit"
      [] child = "exit0" /\ watcher = "cancelled"        -> ctx
      [] child = "exit0" /\ watcher # "cancelled" /\ mode = "Run" /\ copier = "failed"
                                                        -> "truncated"
      [] OTHER                                          -> "none"

runErrFromWait == waitErr

\* The writer's flag overrides whatever Wait reports.
runErr == IF mode = "Run" /\ truncated THEN "truncated" ELSE waitErr

resultCode ==
    CASE runErr # "none" -> classify(runErr)
      [] runErr = "none" /\ scanErr -> "tool_failed"
      [] OTHER -> "ok"

Return(code) == /\ pc' = "done"
                /\ reply' = [code |-> code, truncated |-> mode = "RunCapped" /\ truncated]

-----------------------------------------------------------------------------
(* The caller.                                                              *)

Start ==
    /\ pc = "start" /\ ctx = "live"
    /\ pc' = IF mode = "Run" THEN "wait" ELSE "read"
    /\ child' = "running" /\ watcher' = "watching"
    /\ UNCHANGED <<mode, term, held, outVars, ctx, timers, killTimer, reply>>

\* The binary is missing, fork or exec fails, or the context has ended.
StartFails ==
    /\ pc = "start"
    /\ \E err \in IF ctx = "live" THEN {"notfound", "other"} ELSE {ctx} :
          Return(startFailure(err))
    /\ UNCHANGED <<mode, childVars, outVars, killVars>>

\* The write end is open in no process: a read meets end of file.
AtEOF == pipe = 0 /\ child \in Dead /\ ~held

\* What is captured after n more units: no more than there is room for.
keptWithUncapped(n) == kept + n
keptWith(n) == IF kept + n > Cap THEN Cap ELSE kept + n

\* Run: cappedWriter.Write behind os/exec's copy, which stops at the first
\* error and closes the read end.
Copy ==
    /\ mode = "Run" /\ child # "new" /\ copier = "copying"
    /\ \/ \E n \in 1..pipe :
             /\ kept' = keptWith(n)
             /\ IF kept + n > Cap
                THEN truncated' = TRUE /\ copier' = "failed" /\ pipe' = 0
                ELSE pipe' = pipe - n /\ UNCHANGED <<truncated, copier>>
       \/ /\ AtEOF /\ copier' = "eof"
          /\ UNCHANGED <<kept, pipe, truncated>>
    /\ UNCHANGED <<mode, pc, childVars, wrote, scanErr, killVars, reply>>

\* RunCapped's loop: what exceeds the room is dropped.
ReadCapped ==
    /\ mode = "RunCapped" /\ pc = "read"
    /\ \/ \E n \in 1..pipe :
             /\ pipe' = pipe - n
             /\ kept' = keptWith(n)
             /\ truncated' = (kept + n > Cap)
             /\ pc' = IF truncated' THEN "cut" ELSE "read"
       \/ /\ AtEOF /\ pc' = "wait"
          /\ UNCHANGED <<pipe, kept, truncated>>
    /\ UNCHANGED <<mode, childVars, wrote, scanErr, copier, killVars, reply>>

\* SIGTERM at the truncation, and a timer of its own in the shared variable.
Cut ==
    /\ pc = "cut" /\ pc' = "drain"
    /\ term' = (term \/ child = "running")
    /\ timers' = [timers EXCEPT !["trunc"] = "armed"] /\ killTimer' = "trunc"
    /\ UNCHANGED <<mode, child, held, outVars, ctx, watcher, reply>>

Drain ==
    /\ pc = "drain"
    /\ \/ pipe > 0 /\ pipe' = 0 /\ pc' = pc
       \/ AtEOF /\ pc' = "wait" /\ pipe' = pipe
    /\ UNCHANGED <<mode, childVars, wrote, kept, truncated, scanErr, copier, killVars, reply>>

\* RunStreaming's scanner: a line, a line too long for it (after which nothing
\* reads the pipe any more), or the end.
Scan ==
    /\ mode = "RunStreaming" /\ pc = "read"
    /\ \/ /\ pipe > 0 /\ kept' = kept + 1 /\ pipe' = pipe - 1
          /\ UNCHANGED <<pc, scanErr>>
       \/ /\ pipe > 0 /\ scanErr' = TRUE /\ pc' = "wait" /\ pipe' = pipe - 1
          /\ UNCHANGED kept
       \/ /\ AtEOF /\ pc' = "wait" /\ UNCHANGED <<kept, pipe, scanErr>>
    /\ UNCHANGED <<mode, childVars, wrote, truncated, copier, killVars, reply>>

\* Wait: the process is reaped,
Reap ==
    /\ pc = "wait" /\ child \in Dead /\ pc' = "watch"
    /\ UNCHANGED <<mode, childVars, outVars, killVars, reply>>

\* the watching goroutine is joined (it goes, or its Cancel has returned),
JoinWatcher ==
    /\ pc = "watch" /\ pc' = "await"
    /\ watcher' = IF watcher = "watching" THEN "gone" ELSE watcher
    /\ UNCHANGED <<mode, childVars, outVars, ctx, timers, killTimer, reply>>

\* and the copies of stdout (Run) and stderr, which end with the last writer.
AwaitCopies ==
    /\ pc = "await" /\ ~held
    /\ mode = "Run" => copier # "copying"
    /\ pc' = "stop"
    /\ UNCHANGED <<mode, childVars, outVars, killVars, reply>>

ReturnWithoutStop ==
    /\ pc = "stop"
    /\ Return(resultCode)
    /\ UNCHANGED <<mode, childVars, outVars, killVars>>
StopTimer ==
    /\ pc = "stop"
    /\ timers' = [t \in DOMAIN timers |->
                    IF t = killTimer /\ timers[t] = "armed" THEN "stopped" ELSE timers[t]]
    /\ Return(resultCode)
    /\ UNCHANGED <<mode, childVars, outVars, ctx, watcher, killTimer>>

-----------------------------------------------------------------------------
(* The watching goroutine, the timers, the child and the context.           *)

CancelWithoutTimer ==
    /\ watcher = "watching" /\ ctx # "live" /\ watcher' = "cancelled"
    /\ term' = (term \/ child = "running")
    /\ UNCHANGED <<mode, pc, child, held, outVars, ctx, timers, killTimer, reply>>
Cancel ==
    /\ watcher = "watching" /\ ctx # "live" /\ watcher' = "cancelled"
    /\ term' = (term \/ child = "running")
    /\ timers' = [timers EXCEPT !["cancel"] = "armed"] /\ killTimer' = "cancel"
    /\ UNCHANGED <<mode, pc, child, held, outVars, ctx, reply>>

\* Process.Kill of a process that has been reaped does nothing.
KillTimerFires(t) ==
    /\ timers[t] = "armed"
    /\ timers' = [timers EXCEPT ![t] = "fired"]
    /\ child' = IF child = "running" THEN "signaled" ELSE child
    /\ UNCHANGED <<mode, pc, term, held, outVars, ctx, watcher, killTimer, reply>>

ReadEndClosed == mode = "Run" /\ copier = "failed"

ChildWrites ==
    /\ child = "running" /\ wrote < MaxOut /\ ~ReadEndClosed /\ pipe < PipeCap
    /\ wrote' = wrote + 1 /\ pipe' = pipe + 1
    /\ UNCHANGED <<mode, pc, childVars, kept, truncated, scanErr, copier, killVars, reply>>

\* The child ends by itself, by SIGTERM (which it may handle or ignore) or by
\* SIGPIPE, and may leave a process that holds its pipes.
ChildEnds ==
    /\ child = "running"
    /\ child' \in {"exit0", "exit1"} \cup IF term \/ ReadEndClosed THEN {"signaled"} ELSE {}
    /\ held' \in BOOLEAN
    /\ UNCHANGED <<mode, pc, term, outVars, killVars, reply>>

DescendantEnds ==
    /\ held /\ held' = FALSE
    /\ UNCHANGED <<mode, pc, child, term, outVars, killVars, reply>>

\* The operation's budget runs out, or the daemon hangs up.
ContextEnds ==
    /\ ctx = "live" /\ pc # "done" /\ ctx' \in {"deadline", "canceled"}
    /\ UNCHANGED <<mode, pc, childVars, outVars, watcher, timers, killTimer, reply>>

Caller == \/ Start \/ StartFails \/ Copy \/ ReadCapped \/ Cut \/ Drain \/ Scan
          \/ Reap \/ JoinWatcher \/ AwaitCopies \/ StopTimer

Next == \/ Caller \/ Cancel \/ \E t \in {"cancel", "trunc"} : KillTimerFires(t)
        \/ ChildWrites \/ ChildEnds \/ DescendantEnds \/ ContextEnds

\* Goroutines run, timers fire and the operation's context has a deadline; the
\* child owes nothing, and neither does a process it leaves behind.
Fairness == /\ WF_vars(Caller) /\ WF_vars(Cancel) /\ WF_vars(ContextEnds)
            /\ \A t \in {"cancel", "trunc"} : WF_vars(KillTimerFires(t))

Spec == Init /\ [][Next]_vars /\ Fairness

-----------------------------------------------------------------------------
\* Success means that all the child wrote has reached the caller, or the caller
\* is told it has a prefix: no copy is cut short by the child's exit, and a line
\* the scanner could not take is never an answer of fewer lines.
SuccessIsComplete ==
    reply.code = "ok" => (kept = wrote \/ reply.truncated)

\* Run reports a cut output as output_truncated, though the child it stopped
\* reading from dies of SIGPIPE or SIGTERM and Wait reports that instead.
TruncationNamed ==
    (mode = "Run" /\ pc = "done" /\ truncated) => reply.code = "output_truncated"

\* Both: the code that a call returns is true to what became of the output.
OutcomeTrue == SuccessIsComplete /\ TruncationNamed

\* No kill is pending once Run or RunStreaming has returned, whichever of the
\* deadline, the child's exit and the timer came first.
NoKillPending ==
    (pc = "done" /\ mode # "RunCapped") => \A t \in DOMAIN timers : timers[t] # "armed"

\* A call returns, however the child behaves, unless a process that the child
\* left behind keeps the pipes open for ever.
CallReturns == <>(pc = "done") \/ <>[]held

\* RunCapped's comment: hitting the budget is reported by the flag and is not a
\* tool failure.
CappedTruncationIsNoFault ==
    (mode = "RunCapped" /\ pc = "done" /\ truncated /\ ctx = "live") => reply.code = "ok"
=============================================================================
