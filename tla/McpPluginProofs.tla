-------------------------- MODULE McpPluginProofs ---------------------------
(***************************************************************************)
(* Proofs about McpPlugin, for every set of hosts and spellings of them,   *)
(* every default and every number of lines.                                *)
(***************************************************************************)
EXTENDS McpPlugin, TLAPS

Busy == {"gate", "probe", "call", "reply"}

McpShape ==
    /\ deflt \in Spellings \cup {NoHost}
    /\ mcpPc \in Busy \cup {"scan", "stopped"}
    /\ rpc \in RpcRequests \cup {NoRequest}
    /\ compat \in [Resolved -> {"none", "ok", "bad"}]
    /\ daemons \in [Resolved -> Schemas]
    /\ firstSeen \in [Resolved -> Schemas \cup {"none"}]

\* The request names, or defaults to, a host that resolves.
HasKey == Target(rpc) # NoHost /\ hostHasPort(Target(rpc)) # "error"

\* A call is on its way, or its data is about to be written.
Served == mcpPc = "call" \/ (mcpPc = "reply" /\ rpcReply = "data")

\* Past the gate there is a host to call, and one that may be called.
Admitted ==
    /\ mcpPc = "probe" \/ Served => HasKey
    /\ mcpPc = "probe" => compat[Key] = "none"
    /\ Served /\ rpc.tool # "manifest" => compat[Key] = "ok"

McpInv == McpShape /\ VerdictFromAnswer /\ Admitted
-----------------------------------------------------------------------------
\* A host that resolves is kept under a key of the tables.
LEMMA KeyResolved ==
    ASSUME McpShape, HasKey
    PROVE  Key \in Resolved
<1>1. Target(rpc) \in Spellings
  <2>1. rpc.host \in Spellings \cup {NoHost}
    BY DEF McpShape, RpcRequests, ToolCalls, NoRequest
  <2> QED  BY <2>1 DEF McpShape, HasKey, Target
<1> HIDE DEF ResolveHost
<1> QED  BY <1>1 DEF HasKey, Key, Resolved

\* What an answer of a host leaves in the tables.
LEMMA AnswerKept ==
    ASSUME McpShape, VerdictFromAnswer, NEW h \in Resolved, Observe(h),
           \/ Record(h, daemons[h]) /\ compat[h] = "none"
           \/ compat' = compat /\ compat[h] # "none"
    PROVE  /\ compat' \in [Resolved -> {"none", "ok", "bad"}]
           /\ firstSeen' \in [Resolved -> Schemas \cup {"none"}]
           /\ VerdictFromAnswer'
<1>1. daemons[h] \in Schemas /\ compat \in [Resolved -> {"none", "ok", "bad"}]
      /\ firstSeen \in [Resolved -> Schemas \cup {"none"}]
  BY DEF McpShape
<1>2. classifySchema(daemons[h]) \in {"ok", "bad"} /\ "none" \notin Schemas
  BY DEF classifySchema, Schemas
<1>3. firstSeen' \in [Resolved -> Schemas \cup {"none"}]
  BY <1>1 DEF Observe
<1>4. compat' \in [Resolved -> {"none", "ok", "bad"}]
  BY <1>1, <1>2 DEF Record
<1>5. \A k \in Resolved : firstSeen'[k] = IF k = h /\ firstSeen[h] = "none" THEN daemons[h] ELSE firstSeen[k]
  BY <1>1 DEF Observe
<1>6. \A k \in Resolved : compat'[k] = IF k = h /\ compat[h] = "none" THEN classifySchema(daemons[h]) ELSE compat[k]
  BY <1>1 DEF Record
<1>7. compat[h] = "none" <=> firstSeen[h] = "none"
  BY <1>1 DEF VerdictFromAnswer, classifySchema
<1>8. VerdictFromAnswer'
  <2> SUFFICES ASSUME NEW k \in Resolved
               PROVE  compat'[k] = IF firstSeen'[k] = "none" THEN "none" ELSE classifySchema(firstSeen'[k])
    BY DEF VerdictFromAnswer, classifySchema
  <2>1. compat[k] = IF firstSeen[k] = "none" THEN "none" ELSE classifySchema(firstSeen[k])
    BY DEF VerdictFromAnswer
  <2>2. CASE k = h /\ firstSeen[h] = "none"
    BY <1>1, <1>2, <1>5, <1>6, <1>7, <2>2
  <2>3. CASE ~(k = h /\ firstSeen[h] = "none")
    BY <1>5, <1>6, <1>7, <2>1, <2>3
  <2> QED  BY <2>2, <2>3
<1> QED  BY <1>3, <1>4, <1>8

\* Steps that leave the host tables, and the request alone.
LEMMA QuietStep ==
    ASSUME McpInv, UNCHANGED <<rpc, hostVars>>
    PROVE  /\ McpShape' <=> mcpPc' \in Busy \cup {"scan", "stopped"}
           /\ VerdictFromAnswer' /\ (HasKey' <=> HasKey) /\ Key' = Key
<1>1. VerdictFromAnswer'
  BY DEF McpInv, VerdictFromAnswer, hostVars
<1>2. McpShape' <=> mcpPc' \in Busy \cup {"scan", "stopped"}
  BY DEF McpInv, McpShape, hostVars
<1>3. (HasKey' <=> HasKey) /\ Key' = Key
  BY DEF HasKey, Key, Target, hostVars
<1> QED  BY <1>1, <1>2, <1>3

-----------------------------------------------------------------------------
(* The steps.                                                               *)

\* A new request has not passed the gate.
LEMMA DispatchStep ==
    ASSUME McpInv, NEW r \in RpcRequests, dispatch(r)
    PROVE  McpInv'
<1>1. McpShape'
  <2>1. mcpPc' \in {"gate", "reply"} /\ rpc' \in RpcRequests
    BY DEF dispatch
  <2> QED  BY <2>1 DEF McpInv, McpShape, dispatch, hostVars, Busy
<1>2. VerdictFromAnswer'
  BY DEF McpInv, VerdictFromAnswer, dispatch, hostVars
<1>3. mcpPc' \in {"gate", "reply"} /\ rpcReply' # "data"
  BY DEF dispatch
<1>4. Admitted'
  BY <1>3 DEF Admitted, Served
<1> QED  BY <1>1, <1>2, <1>4 DEF McpInv

\* The gate lets a call through only on a good verdict.
LEMMA GateStep ==
    ASSUME McpInv, call
    PROVE  McpInv'
<1>1. UNCHANGED <<rpc, hostVars>> /\ mcpPc = "gate"
  BY DEF call, loopVars
<1>2. \/ mcpPc' = "reply" /\ rpcReply' # "data"
      \/ mcpPc' = "probe" /\ HasKey /\ compat[Key] = "none"
      \/ mcpPc' = "call" /\ HasKey /\ (rpc.tool = "manifest" \/ compat[Key] \notin {"none", "bad"})
  BY DEF call, ToReply, HasKey
<1>3. McpShape' /\ VerdictFromAnswer' /\ (HasKey' <=> HasKey) /\ Key' = Key
      /\ compat' = compat /\ rpc' = rpc
  <2>1. mcpPc' \in Busy
    BY <1>2 DEF Busy
  <2> QED  BY <1>1, <2>1, QuietStep DEF hostVars
<1>4. HasKey => compat[Key] \in {"none", "ok", "bad"}
  BY KeyResolved DEF McpInv, McpShape
<1>5. Admitted'
  BY <1>2, <1>3, <1>4 DEF Admitted, Served
<1> QED  BY <1>3, <1>5 DEF McpInv

\* A probe that is answered leaves the verdict its answer calls for, and only a
\* good one lets the call through.
LEMMA ProbeStep ==
    ASSUME McpInv, Probe
    PROVE  McpInv'
<1>1. HasKey /\ Key \in Resolved /\ compat[Key] = "none"
  BY KeyResolved DEF McpInv, Admitted, Probe
<1>2. /\ Observe(Key) /\ Record(Key, daemons[Key]) /\ mcpPc = "probe"
      /\ UNCHANGED <<deflt, rpc, daemons>>
  BY DEF Probe, loopVars
<1>3. /\ compat' \in [Resolved -> {"none", "ok", "bad"}]
      /\ firstSeen' \in [Resolved -> Schemas \cup {"none"}]
      /\ VerdictFromAnswer'
  BY <1>1, <1>2, AnswerKept DEF McpInv
<1>4. \/ mcpPc' = "reply" /\ rpcReply' # "data"
      \/ mcpPc' = "call" /\ classifySchema(daemons[Key]) = "ok"
  BY DEF Probe, ToReply
<1>5. McpShape'
  BY <1>2, <1>3, <1>4 DEF McpInv, McpShape, Busy
<1>6. (HasKey' <=> HasKey) /\ Key' = Key
  BY <1>2 DEF HasKey, Key, Target
<1>7. compat'[Key] = classifySchema(daemons[Key])
  BY <1>1, <1>2 DEF Record, McpInv, McpShape
<1>8. Admitted'
  BY <1>1, <1>4, <1>6, <1>7 DEF Admitted, Served
<1> QED  BY <1>3, <1>5, <1>8 DEF McpInv

\* An answer is recorded only where it is a manifest and no verdict is kept.
LEMMA AnswerStep ==
    ASSUME McpInv, CallAnswers
    PROVE  McpInv'
<1>1. HasKey /\ Key \in Resolved
  BY KeyResolved DEF McpInv, Admitted, Served, CallAnswers
<1>2. /\ mcpPc = "call" /\ mcpPc' = "reply" /\ rpcReply' = "data"
      /\ UNCHANGED <<deflt, rpc, daemons>>
  BY DEF CallAnswers, ToReply, loopVars
<1>3. rpc.tool # "manifest" => UNCHANGED <<firstSeen, compat>>
  BY DEF CallAnswers
<1>4. /\ compat' \in [Resolved -> {"none", "ok", "bad"}]
      /\ firstSeen' \in [Resolved -> Schemas \cup {"none"}]
      /\ VerdictFromAnswer'
  <2>1. CASE rpc.tool = "manifest"
    <3>1. /\ Observe(Key)
          /\ \/ Record(Key, daemons[Key]) /\ compat[Key] = "none"
             \/ compat' = compat /\ compat[Key] # "none"
      BY <2>1 DEF CallAnswers
    <3> QED  BY <1>1, <3>1, AnswerKept DEF McpInv
  <2>2. CASE rpc.tool # "manifest"
    BY <1>3, <2>2 DEF McpInv, McpShape, VerdictFromAnswer
  <2> QED  BY <2>1, <2>2
<1>5. McpShape'
  BY <1>2, <1>4 DEF McpInv, McpShape, Busy
<1>6. (HasKey' <=> HasKey) /\ Key' = Key
  BY <1>2 DEF HasKey, Key, Target
<1>7. Admitted'
  BY <1>1, <1>2, <1>3, <1>6 DEF McpInv, Admitted, Served
<1> QED  BY <1>4, <1>5, <1>7 DEF McpInv

\* Once the reply is written, or lost, the loop is idle.
LEMMA WriteStep ==
    ASSUME McpInv, Write
    PROVE  McpInv'
<1>1. mcpPc' = "scan" /\ rpc' = NoRequest /\ UNCHANGED hostVars
  BY DEF Write
<1>2. McpShape'
  BY <1>1 DEF McpInv, McpShape, hostVars
<1>3. VerdictFromAnswer'
  BY <1>1 DEF McpInv, VerdictFromAnswer, hostVars
<1>4. Admitted'
  BY <1>1 DEF Admitted, Served
<1> QED  BY <1>2, <1>3, <1>4 DEF McpInv

\* An upgrade of a daemon touches no verdict.
LEMMA UpgradeStep ==
    ASSUME McpInv, Upgrade
    PROVE  McpInv'
<1>1. daemons' \in [Resolved -> Schemas]
  BY DEF McpInv, McpShape, Upgrade
<1>2. UNCHANGED <<deflt, mcpPc, rpc, rpcReply, compat, firstSeen>>
  BY DEF Upgrade, loopVars
<1>3. McpShape' /\ VerdictFromAnswer'
  BY <1>1, <1>2 DEF McpInv, McpShape, VerdictFromAnswer
<1>4. (HasKey' <=> HasKey) /\ Key' = Key
  BY <1>2 DEF HasKey, Key, Target
<1>5. Admitted'
  BY <1>2, <1>4 DEF McpInv, Admitted, Served
<1> QED  BY <1>3, <1>5 DEF McpInv

\* A line that asks nothing of a host, the end of the loop, a failed probe or
\* call, and what happens around the loop.
LEMMA OtherStep ==
    ASSUME McpInv, ReadJunk \/ LineAfterCancel \/ EndOfInput \/ ProbeFails \/ CallFails \/ CloseStdin \/ Signal
                   \/ UNCHANGED mcpVars
    PROVE  McpInv'
<1>1. /\ UNCHANGED <<rpc, hostVars>>
      /\ \/ UNCHANGED <<mcpPc, rpcReply>>
         \/ mcpPc = "scan" /\ mcpPc' = "stopped"
         \/ mcpPc \in {"probe", "call"} /\ mcpPc' = "reply" /\ rpcReply' # "data"
  BY DEF ReadJunk, LineAfterCancel, EndOfInput, ProbeFails, CallFails, ToReply, CloseStdin, Signal, mcpVars
<1>2. McpShape' /\ VerdictFromAnswer'
  BY <1>1 DEF McpInv, McpShape, VerdictFromAnswer, hostVars, Busy
<1>3. (HasKey' <=> HasKey) /\ Key' = Key /\ compat' = compat
  BY <1>1 DEF HasKey, Key, Target, hostVars
<1>4. Admitted'
  BY <1>1, <1>3 DEF McpInv, Admitted, Served
<1> QED  BY <1>2, <1>4 DEF McpInv

\* The invariant holds throughout.
THEOREM McpInvariance == McpSpec => []McpInv
<1>1. McpInit => McpInv
  <2> SUFFICES ASSUME McpInit PROVE McpInv
    OBVIOUS
  <2>1. McpShape
    BY DEF McpInit, McpShape, Schemas
  <2>2. VerdictFromAnswer
    BY DEF McpInit, VerdictFromAnswer
  <2>3. Admitted
    BY DEF McpInit, Admitted, Served
  <2> QED  BY <2>1, <2>2, <2>3 DEF McpInv
<1>2. McpInv /\ [McpNext]_mcpVars => McpInv'
  <2> SUFFICES ASSUME McpInv, [McpNext]_mcpVars
               PROVE  McpInv'
    OBVIOUS
  <2> QED  BY DispatchStep, GateStep, ProbeStep, AnswerStep, WriteStep, UpgradeStep, OtherStep DEF McpNext
<1> QED  BY <1>1, <1>2, PTL DEF McpSpec

\* Whatever daemons do between two calls, the verdict kept on a host is the one
\* its first manifest calls for, and data is fetched only behind a good verdict.
THEOREM GateSound == McpSpec => []GateFollowsAnswers
<1>1. McpInv => GateFollowsAnswers
  <2> SUFFICES ASSUME McpInv PROVE GateFollowsAnswers
    OBVIOUS
  <2>1. ASSUME mcpPc = "reply", rpcReply = "data", rpc.tool # "manifest"
        PROVE  firstSeen[Key] = "same"
    <3>1. HasKey /\ compat[Key] = "ok"
      BY <2>1 DEF McpInv, Admitted, Served
    <3>2. Key \in Resolved
      BY <3>1, KeyResolved DEF McpInv
    <3> QED  BY <3>1, <3>2 DEF McpInv, VerdictFromAnswer, classifySchema
  <2> QED  BY <2>1 DEF McpInv, GateFollowsAnswers, GateHolds
<1> QED  BY <1>1, McpInvariance, PTL
=============================================================================
