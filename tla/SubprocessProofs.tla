-------------------------- MODULE SubprocessProofs --------------------------
(***************************************************************************)
(* Proofs about Subprocess, for every cap, every pipe and any amount of    *)
(* output.                                                                 *)
(***************************************************************************)
EXTENDS Subprocess, TLAPS

\* Where the caller is says what has become of the child, and of the goroutine
\* that watches the context.
Phases ==
    /\ child = "new" <=> watcher = "idle"
    /\ child = "new" => pc \in {"start", "done"} /\ wrote = 0
    /\ pc = "start" => /\ child = "new" /\ wrote = 0 /\ ~truncated /\ ~scanErr
                       /\ copier = "copying" /\ killTimer = "none"
    /\ pc = "read" => mode # "Run" /\ ~truncated /\ ~scanErr
    /\ pc \in {"cut", "drain"} => mode = "RunCapped" /\ truncated
    /\ pc \in {"watch", "await", "stop", "done"} => child # "running"
    /\ pc \in {"await", "stop", "done"} => watcher # "watching"
    /\ pc # "done" => reply.code = "none"
    /\ pc \in {"stop", "done"} /\ mode = "Run" /\ child # "new" => copier # "copying"

\* Every unit written is in the pipe or with the caller until the call gives up
\* on the output, and each function remembers that it gave up.
Output ==
    /\ mode = "Run" => /\ truncated <=> copier = "failed"
                       /\ copier # "failed" => kept + pipe = wrote
                       /\ copier = "eof" => pipe = 0 /\ child \in Dead
    /\ mode # "Run" => copier = "copying"
    /\ mode # "RunStreaming" => ~scanErr
    /\ mode = "RunStreaming" => ~truncated
    /\ mode # "Run" /\ ~truncated /\ ~scanErr =>
          /\ kept + pipe = wrote
          /\ pc \in {"wait", "watch", "await", "stop", "done"} /\ child # "new"
                => pipe = 0 /\ child \in Dead

\* Outside RunCapped the one timer is the one the shared variable points to.
Timers ==
    mode # "RunCapped" => /\ timers["trunc"] = "off"
                          /\ timers["cancel"] # "off" => killTimer = "cancel"

IInv == TypeOK /\ Phases /\ Output /\ Timers /\ OutcomeTrue /\ NoKillPending

-----------------------------------------------------------------------------
\* The initial state satisfies the invariant.
LEMMA InitEstablishes == Init => IInv
<1> SUFFICES ASSUME Init PROVE IInv
  OBVIOUS
<1>1. term \in BOOLEAN /\ held \in BOOLEAN /\ truncated \in BOOLEAN /\ scanErr \in BOOLEAN
  BY Zenon DEF Init
<1>2. reply \in [code : Codes, truncated : BOOLEAN]
  BY DEF Init, Codes
<1>3. TypeOK
  BY <1>1, <1>2, SubprocessAssumption DEF Init, TypeOK, Modes, Dead
<1>4. Phases /\ Output /\ Timers
  BY DEF Init, Phases, Output, Timers, Modes, Dead
<1>5. OutcomeTrue /\ NoKillPending
  BY DEF Init, OutcomeTrue, SuccessIsComplete, TruncationNamed, NoKillPending
<1> QED  BY <1>3, <1>4, <1>5 DEF IInv

\* A read of n units, by Run's copy or RunCapped's loop, keeps them all or
\* fills the room that is left.
LEMMA KeptBounds ==
    ASSUME TypeOK, mode # "RunStreaming", NEW n \in 1 .. pipe
    PROVE  /\ keptWith(n) \in 0 .. MaxOut /\ keptWith(n) <= Cap
           /\ keptWith(n) + (pipe - n) <= wrote
           /\ pipe - n \in 0 .. PipeCap
           /\ ~(kept + n > Cap) => keptWith(n) + (pipe - n) = kept + pipe
BY SubprocessAssumption DEF TypeOK, keptWith

\* Run's copy goroutine keeps the invariant.
LEMMA CopyStep ==
    ASSUME IInv, Copy
    PROVE  IInv'
<1> USE DEF outVars, childVars, killVars, Dead
<1>1. /\ mode = "Run" /\ copier = "copying" /\ ~truncated /\ child # "new"
      /\ kept + pipe = wrote /\ mode' = mode /\ pc \notin {"start", "stop", "done"}
  BY DEF IInv, Copy, Phases, Output
<1>2. CASE AtEOF /\ copier' = "eof" /\ UNCHANGED <<kept, pipe, truncated>>
  BY <1>1, <1>2 DEF Copy, AtEOF, IInv, TypeOK, Modes, Codes, Phases, Output, Timers,
     OutcomeTrue, SuccessIsComplete, TruncationNamed, NoKillPending
<1>3. ASSUME NEW n \in 1 .. pipe, kept' = keptWith(n), kept + n > Cap,
             truncated' = TRUE, copier' = "failed", pipe' = 0
      PROVE  IInv'
  <2>1. /\ kept' \in 0 .. MaxOut /\ kept' <= Cap /\ kept' + pipe' <= wrote
        /\ pipe' \in 0 .. PipeCap
    BY <1>1, <1>3, KeptBounds, SubprocessAssumption DEF IInv, TypeOK
  <2>2. truncated' \in BOOLEAN
    BY <1>3
  <2>3. TypeOK'
    BY <1>1, <1>3, <2>1, <2>2 DEF Copy, IInv, TypeOK, Modes, Codes
  <2> QED
    BY <1>1, <1>3, <2>3 DEF Copy, IInv, Phases, Output, Timers, OutcomeTrue,
       SuccessIsComplete, TruncationNamed, NoKillPending
<1>4. ASSUME NEW n \in 1 .. pipe, kept' = keptWith(n), ~(kept + n > Cap),
             pipe' = pipe - n, UNCHANGED <<truncated, copier>>
      PROVE  IInv'
  <2>1. /\ kept' \in 0 .. MaxOut /\ kept' <= Cap /\ kept' + pipe' = wrote
        /\ pipe' \in 0 .. PipeCap
    BY <1>1, <1>4, KeptBounds DEF IInv
  <2>2. TypeOK'
    BY <1>1, <1>4, <2>1 DEF Copy, IInv, TypeOK, Modes, Codes
  <2> QED
    BY <1>1, <1>4, <2>1, <2>2 DEF Copy, IInv, Phases, Output, Timers, OutcomeTrue,
       SuccessIsComplete, TruncationNamed, NoKillPending
<1> QED  BY <1>2, <1>3, <1>4 DEF Copy

\* RunCapped's loop keeps the invariant.
LEMMA ReadCappedStep ==
    ASSUME IInv, ReadCapped
    PROVE  IInv'
<1> USE DEF outVars, childVars, killVars, Dead
<1>1. /\ mode = "RunCapped" /\ pc = "read"
      /\ UNCHANGED <<mode, childVars, wrote, scanErr, copier, killVars, reply>>
  BY DEF ReadCapped
<1>2. CASE AtEOF /\ pc' = "wait" /\ UNCHANGED <<pipe, kept, truncated>>
  BY <1>1, <1>2 DEF ReadCapped, AtEOF, IInv, TypeOK, Modes, Codes, Phases, Output, Timers,
     OutcomeTrue, SuccessIsComplete, TruncationNamed, NoKillPending
<1>3. ASSUME NEW n \in 1 .. pipe, pipe' = pipe - n, kept' = keptWith(n),
             truncated' = (kept + n > Cap), pc' = IF truncated' THEN "cut" ELSE "read"
      PROVE  IInv'
  <2>1. /\ kept' \in 0 .. MaxOut /\ kept' <= Cap /\ kept' + pipe' <= wrote
        /\ pipe' \in 0 .. PipeCap
    BY <1>1, <1>3, KeptBounds DEF IInv
  <2>2. kept \in Nat /\ n \in Nat /\ Cap \in Nat
    BY SubprocessAssumption DEF IInv, TypeOK
  <2>3. truncated' = (kept + n > Cap)
    BY <1>3
  <2>4. truncated' \in BOOLEAN
    BY <2>2, <2>3
  <2>5. truncated' <=> kept + n > Cap
    BY <2>2, <2>3
  <2>6. pc' \in {"read", "cut"}
    BY <1>3
  <2>7. pc' = "cut" <=> truncated'
    BY <1>3
  <2>8. ~(kept + n > Cap) => kept' + pipe' = kept + pipe
    BY <1>1, <1>3, KeptBounds DEF IInv
  <2>9. TypeOK'
    <3>1. (term \in BOOLEAN /\ held \in BOOLEAN /\ truncated \in BOOLEAN /\ scanErr \in BOOLEAN)'
      BY <1>1, <2>4 DEF IInv, TypeOK
    <3>2. (/\ pc \in {"start", "read", "cut", "drain", "wait", "watch", "await", "stop", "done"}
           /\ wrote \in 0 .. MaxOut /\ pipe \in 0 .. PipeCap /\ kept \in 0 .. MaxOut
           /\ kept + pipe <= wrote /\ kept <= Cap)'
      BY <1>1, <2>1, <2>6 DEF IInv, TypeOK
    <3>3. (/\ mode \in Modes /\ child \in {"new", "running"} \cup Dead
           /\ copier \in {"copying", "failed", "eof"}
           /\ ctx \in {"live", "deadline", "canceled"}
           /\ watcher \in {"idle", "watching", "cancelled", "gone"}
           /\ timers \in [{"cancel", "trunc"} -> {"off", "armed", "stopped", "fired"}]
           /\ killTimer \in {"none", "cancel", "trunc"}
           /\ reply \in [code : Codes, truncated : BOOLEAN])'
      BY <1>1 DEF IInv, TypeOK, Modes, Codes
    <3> QED  BY <3>1, <3>2, <3>3 DEF TypeOK
  <2> QED
    BY <1>1, <2>1, <2>5, <2>6, <2>7, <2>8, <2>9 DEF IInv, Phases, Output, Timers,
       OutcomeTrue, SuccessIsComplete, TruncationNamed, NoKillPending
<1> QED  BY <1>2, <1>3 DEF ReadCapped

\* RunStreaming's scanner keeps the invariant.
LEMMA ScanStep ==
    ASSUME IInv, Scan
    PROVE  IInv'
<1> USE DEF outVars, childVars, killVars, Dead
<1>1. /\ mode = "RunStreaming" /\ mode' = mode /\ pc = "read" /\ child # "new"
      /\ ~truncated /\ ~scanErr /\ kept + pipe = wrote /\ reply' = reply
  BY DEF Scan, IInv, Phases, Output
<1>2. kept \in 0 .. MaxOut /\ pipe \in 0 .. PipeCap /\ wrote \in 0 .. MaxOut
  BY DEF IInv, TypeOK
<1>3. CASE pipe > 0 /\ kept' = kept + 1 /\ pipe' = pipe - 1 /\ UNCHANGED <<pc, scanErr>>
  <2>1. /\ kept' \in 0 .. MaxOut /\ pipe' \in 0 .. PipeCap /\ kept' + pipe' = wrote
    BY <1>1, <1>2, <1>3, SubprocessAssumption
  <2>2. TypeOK'
    BY <1>1, <1>2, <1>3, <2>1 DEF Scan, IInv, TypeOK, Modes, Codes
  <2> QED
    BY <1>1, <1>3, <2>1, <2>2 DEF Scan, IInv, Phases, Output, Timers, OutcomeTrue,
       SuccessIsComplete, TruncationNamed, NoKillPending
<1>4. CASE pipe > 0 /\ scanErr' = TRUE /\ pc' = "wait" /\ pipe' = pipe - 1 /\ UNCHANGED kept
  <2>1. kept' \in 0 .. MaxOut /\ pipe' \in 0 .. PipeCap /\ kept' + pipe' <= wrote
    BY <1>1, <1>2, <1>4, SubprocessAssumption
  <2>2. scanErr' \in BOOLEAN /\ scanErr'
    BY <1>4
  <2>3. TypeOK'
    BY <1>1, <1>2, <1>4, <2>1, <2>2 DEF Scan, IInv, TypeOK, Modes, Codes
  <2> QED
    BY <1>1, <1>4, <2>2, <2>3 DEF Scan, IInv, Phases, Output, Timers, OutcomeTrue,
       SuccessIsComplete, TruncationNamed, NoKillPending
<1>5. CASE AtEOF /\ pc' = "wait" /\ UNCHANGED <<kept, pipe, scanErr>>
  BY <1>1, <1>5 DEF Scan, AtEOF, IInv, TypeOK, Modes, Codes, Phases, Output, Timers,
     OutcomeTrue, SuccessIsComplete, TruncationNamed, NoKillPending
<1> QED  BY <1>3, <1>4, <1>5 DEF Scan

\* A descendant that lets go of the pipes keeps the invariant.
LEMMA DescendantEndsStep ==
    ASSUME IInv, DescendantEnds
    PROVE  IInv'
<1>1. held' \in BOOLEAN
  BY DEF DescendantEnds
<1> QED
  BY <1>1 DEF DescendantEnds, outVars, killVars, Dead, IInv, TypeOK, Modes, Codes, Phases,
     Output, Timers, OutcomeTrue, SuccessIsComplete, TruncationNamed, NoKillPending

\* Every step keeps the invariant.
LEMMA StepPreserves == IInv /\ [Next]_vars => IInv'
<1> SUFFICES ASSUME IInv, [Next]_vars PROVE IInv'
  OBVIOUS
<1> USE SubprocessAssumption DEF outVars, childVars, killVars, Dead, Modes, Codes, IInv, TypeOK, Phases,
    Output, Timers, OutcomeTrue, SuccessIsComplete, TruncationNamed, NoKillPending
<1>1. CASE Start
  BY <1>1 DEF Start
<1>2. CASE StartFails
  BY <1>2 DEF StartFails, Return, startFailure, classify
<1>3. CASE Cut
  BY <1>3 DEF Cut
<1>4. CASE Drain
  BY <1>4 DEF Drain, AtEOF
<1>5. CASE Reap
  BY <1>5 DEF Reap
<1>6. CASE JoinWatcher
  BY <1>6 DEF JoinWatcher
<1>7. CASE AwaitCopies
  BY <1>7 DEF AwaitCopies
<1>8. CASE StopTimer
  BY <1>8 DEF StopTimer, Return, resultCode, runErr, waitErr, classify
<1>9. CASE Cancel
  BY <1>9 DEF Cancel
<1>10. ASSUME NEW t \in {"cancel", "trunc"}, KillTimerFires(t)
      PROVE  IInv'
  BY <1>10 DEF KillTimerFires
<1>11. CASE ChildWrites
  BY <1>11 DEF ChildWrites, ReadEndClosed
<1>12. CASE ChildEnds
  BY <1>12 DEF ChildEnds, ReadEndClosed
<1>13. CASE ContextEnds
  BY <1>13 DEF ContextEnds
<1>14. CASE UNCHANGED vars
  BY <1>14 DEF vars
<1> QED
  BY <1>1, <1>2, <1>3, <1>4, <1>5, <1>6, <1>7, <1>8, <1>9, <1>10, <1>11, <1>12, <1>13, <1>14,
     CopyStep, ReadCappedStep, ScanStep, DescendantEndsStep DEF Next, Caller

-----------------------------------------------------------------------------
\* The invariant holds throughout.
THEOREM Invariance == Spec => []IInv
<1> QED  BY InitEstablishes, StepPreserves, PTL DEF Spec

\* The counters keep their bounds: nothing is captured beyond the cap, and
\* nothing that the child did not write.
THEOREM TypeCorrect == Spec => []TypeOK
<1>1. IInv => TypeOK
  BY DEF IInv
<1> QED  BY <1>1, Invariance, PTL

\* Whatever the order of the child's writes and exit, the reads, the context's
\* end and the timers, the code a call returns is true to the output.
THEOREM OutcomesAreTrue == Spec => []OutcomeTrue
<1>1. IInv => OutcomeTrue
  BY DEF IInv
<1> QED  BY <1>1, Invariance, PTL

\* Run and RunStreaming leave no kill behind that could meet another process.
THEOREM NoLateKill == Spec => []NoKillPending
<1>1. IInv => NoKillPending
  BY DEF IInv
<1> QED  BY <1>1, Invariance, PTL
=============================================================================
