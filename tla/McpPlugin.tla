----------------------------- MODULE McpPlugin ------------------------------
(***************************************************************************)
(* The MCP plugin: a loop that reads a line of JSON-RPC, dispatches it,    *)
(* asks the daemon of the host named, and answers.  Before the first call  *)
(* of a tool on a host it asks that host's manifest for the schema version *)
(* and keeps the verdict.  Daemons come, go and are upgraded while the     *)
(* plugin runs.                                                            *)
(***************************************************************************)
EXTENDS Naturals

CONSTANTS
    Spellings,  \* the hosts callers name, each as it is spelt
    NoHost,     \* no host argument, or no HOSTHEALTH_TARGET_HOST
    Suffix,     \* is a DNS suffix configured?
    MaxLines    \* bound: lines read in a behaviour

\* form: "name" (without dots), "dotted" (a name or an IPv4 address), "bracket"
\* ([v6]), "open" (an unterminated bracket), "v6" (a bare IPv6 literal).
\* port: none is spelt out, the configured one is, or another one.
ASSUME McpAssumption ==
    /\ \A h \in Spellings : /\ DOMAIN h = {"name", "form", "port"}
                            /\ h.form \in {"name", "dotted", "bracket", "open", "v6"}
                            /\ h.port \in {"none", "default", "other"}
    /\ NoHost \notin Spellings /\ Suffix \in BOOLEAN /\ MaxLines \in Nat

VARIABLES
    deflt,     \* Server.defaultHost: a spelling or NoHost
    mcpPc,     \* "scan", "gate", "probe", "call", "reply", "stopped"
    rpc,       \* the request being served
    rpcReply,  \* what is answered to it, and for whom
    compat,    \* Server.compat: resolved host -> "none", "ok", "bad"
    daemons,   \* resolved host -> schema of the daemon that runs there
    firstSeen, \* resolved host -> schema in the first manifest read there
    linesRead, \* lines read
    written,   \* the last line of stdout, "none" before the first
    eof,       \* stdin is closed
    cancelled  \* the plugin's context is cancelled by a signal

loopVars == <<linesRead, written, eof, cancelled>>
hostVars == <<deflt, compat, daemons, firstSeen>>
mcpVars == <<mcpPc, rpc, rpcReply, hostVars, loopVars>>

-----------------------------------------------------------------------------
(* Hosts: how a caller may spell one, and the key it is kept under.         *)

hostHasPort(h) == IF h.form \in {"open", "v6"} THEN "error" ELSE IF h.port # "none" THEN "yes" ELSE "no"

\* The suffix, if there is one, goes to a name without dot and port, the
\* configured port to every host without one.  The name of a dotted spelling
\* stands for its part before the suffix.
ResolveHost(h) ==
    [name   |-> h.name,
     form   |-> IF Suffix /\ h.form = "name" /\ hostHasPort(h) = "no" THEN "dotted" ELSE h.form,
     port   |-> IF hostHasPort(h) = "yes" THEN h.port ELSE "default"]

Resolved == {ResolveHost(h) : h \in {x \in Spellings : hostHasPort(x) # "error"}}

-----------------------------------------------------------------------------
(* Lines of stdin.                                                          *)

Methods == {"initialize", "notifications/initialized", "ping", "tools/list", "other"}
ToolCalls == [method : {"tools/call"}, id : BOOLEAN, tool : {"manifest", "data"},
          host : Spellings \cup {NoHost}]
RpcRequests == [method : Methods, id : BOOLEAN, tool : {"unknown"}, host : {NoHost}]
            \cup [method : {"tools/call"}, id : BOOLEAN, tool : {"unknown", "badparams"},
                  host : {NoHost}]
            \cup ToolCalls
NoRequest == [method |-> "none", id |-> FALSE, tool |-> "unknown", host |-> NoHost]

\* The schema a daemon speaks: the plugin's major, another one, none that parses.
Schemas == {"same", "other", "garbled"}
classifySchema(v) == IF v = "same" THEN "ok" ELSE "bad"

McpInit ==
    /\ deflt \in Spellings \cup {NoHost}
    /\ mcpPc = "scan" /\ rpc = NoRequest /\ rpcReply = "none"
    /\ compat = [h \in Resolved |-> "none"]
    /\ daemons \in [Resolved -> {"same", "other"}]
    /\ firstSeen = [h \in Resolved |-> "none"]
    /\ linesRead = 0 /\ written = "none" /\ eof = FALSE /\ cancelled = FALSE

\* The host the call goes to: the argument, else the default.
Target(r) == IF r.host # NoHost THEN r.host ELSE deflt
Key == ResolveHost(Target(rpc))

-----------------------------------------------------------------------------
(* Serve.                                                                   *)

Wants(r) == r.id /\ r.method # "notifications/initialized"

\* What write leaves on stdout: a reply that cannot be encoded, or a write that
\* fails, is lost and the loop goes on.
Emit(line) == written' = line \/ UNCHANGED written

\* A line that parses: methods without a call are answered at once.
dispatch(r) ==
    /\ mcpPc = "scan" /\ ~eof /\ ~cancelled /\ linesRead < MaxLines
    /\ linesRead' = linesRead + 1 /\ rpc' = r
    /\ IF r.method = "tools/call" /\ r.tool \in {"manifest", "data"}
       THEN mcpPc' = "gate" /\ rpcReply' = "none"
       ELSE /\ mcpPc' = "reply"
            /\ rpcReply' = IF r.method \in {"other", "tools/call"} THEN "rpc_error" ELSE "result"
    /\ UNCHANGED <<hostVars, written, eof, cancelled>>

\* A blank line is skipped; one that does not parse is answered with a null id.
ReadJunk ==
    /\ mcpPc = "scan" /\ ~eof /\ ~cancelled /\ linesRead < MaxLines
    /\ linesRead' = linesRead + 1
    /\ Emit("rpc_error")
    /\ UNCHANGED <<mcpPc, rpc, rpcReply, hostVars, eof, cancelled>>

\* Serve returns at the end of stdin, which a line beyond 1 MiB also is to it,
EndOfInput ==
    /\ mcpPc = "scan" /\ eof /\ mcpPc' = "stopped"
    /\ UNCHANGED <<rpc, rpcReply, hostVars, loopVars>>

\* and when a line is read after the cancellation.
LineAfterCancel ==
    /\ mcpPc = "scan" /\ ~eof /\ cancelled /\ linesRead < MaxLines
    /\ mcpPc' = "stopped" /\ linesRead' = linesRead + 1
    /\ UNCHANGED <<rpc, rpcReply, hostVars, written, eof, cancelled>>

-----------------------------------------------------------------------------
(* call.                                                                    *)

ToReply(kind) == mcpPc' = "reply" /\ rpcReply' = kind

\* Host and schema gate.
call ==
    /\ mcpPc = "gate"
    /\ CASE Target(rpc) = NoHost -> ToReply("no_host")
         [] hostHasPort(Target(rpc)) = "error"        -> ToReply("bad_host")
         [] OTHER ->
              CASE rpc.tool = "manifest"  -> mcpPc' = "call" /\ rpcReply' = rpcReply
                [] compat[Key] = "bad"    -> ToReply("schema_incompatible")
                [] compat[Key] = "none"   -> mcpPc' = "probe" /\ rpcReply' = rpcReply
                [] OTHER                  -> mcpPc' = "call" /\ rpcReply' = rpcReply
    /\ UNCHANGED <<rpc, hostVars, loopVars>>

\* recordCompatFromEnvelope.
Record(h, v) == compat' = [compat EXCEPT ![h] = classifySchema(v)]
Observe(h) ==
    firstSeen' = [firstSeen EXCEPT ![h] = IF @ = "none" THEN daemons[h] ELSE @]

ProbeFailsClosed ==
    /\ mcpPc = "probe" /\ ToReply("schema_probe")
    /\ compat' = [compat EXCEPT ![Key] = "bad"]
    /\ UNCHANGED <<deflt, rpc, daemons, firstSeen, loopVars>>

\* probeCompat does not get an answer: nothing is kept.
ProbeFails ==
    /\ mcpPc = "probe" /\ ToReply("schema_probe")
    /\ UNCHANGED <<rpc, hostVars, loopVars>>

\* probeCompat reads the manifest and the verdict decides.
Probe ==
    /\ mcpPc = "probe"
    /\ Observe(Key) /\ Record(Key, daemons[Key])
    /\ IF classifySchema(daemons[Key]) = "ok" THEN mcpPc' = "call" /\ rpcReply' = rpcReply
       ELSE ToReply("schema_incompatible")
    /\ UNCHANGED <<deflt, rpc, daemons, loopVars>>

\* Client.Call fails, by transport, by its timeout or with an error envelope.
CallFails ==
    /\ mcpPc = "call" /\ ToReply("call_failed")
    /\ UNCHANGED <<rpc, hostVars, loopVars>>

\* It answers; a manifest is recorded where no verdict is kept yet.
CallAnswers ==
    /\ mcpPc = "call" /\ ToReply("data")
    /\ IF rpc.tool = "manifest"
       THEN /\ Observe(Key)
            /\ IF compat[Key] = "none" THEN Record(Key, daemons[Key]) ELSE UNCHANGED compat
       ELSE UNCHANGED <<firstSeen, compat>>
    /\ UNCHANGED <<deflt, rpc, daemons, loopVars>>

\* write, unless the request was a notification.
Write ==
    /\ mcpPc = "reply" /\ mcpPc' = "scan"
    /\ rpc' = NoRequest /\ rpcReply' = "none"
    /\ IF Wants(rpc) THEN Emit(rpcReply) ELSE UNCHANGED written
    /\ UNCHANGED <<hostVars, linesRead, eof, cancelled>>

-----------------------------------------------------------------------------
(* What happens around the plugin.                                          *)

Upgrade ==
    /\ \E h \in Resolved, v \in Schemas :
          v # daemons[h] /\ daemons' = [daemons EXCEPT ![h] = v]
    /\ mcpPc # "stopped"
    /\ UNCHANGED <<deflt, mcpPc, rpc, rpcReply, compat, firstSeen, loopVars>>
CloseStdin ==
    /\ ~eof /\ eof' = TRUE
    /\ UNCHANGED <<mcpPc, rpc, rpcReply, hostVars, linesRead, written, cancelled>>
Signal ==
    /\ ~cancelled /\ cancelled' = TRUE
    /\ UNCHANGED <<mcpPc, rpc, rpcReply, hostVars, linesRead, written, eof>>

McpNext == \/ \E r \in RpcRequests : dispatch(r)
        \/ ReadJunk \/ LineAfterCancel \/ EndOfInput \/ call \/ ProbeFails \/ Probe \/ CallFails \/ CallAnswers
        \/ Write \/ Upgrade \/ CloseStdin \/ Signal

McpSpec == McpInit /\ [][McpNext]_mcpVars

-----------------------------------------------------------------------------
\* The verdict on a host is the one its first manifest calls for, and only an
\* answer of the host makes one: an outage leaves none behind.
VerdictFromAnswer ==
    \A h \in Resolved : compat[h] = IF firstSeen[h] = "none" THEN "none" ELSE classifySchema(firstSeen[h])

\* Data of any tool but manifest comes from a host that has said that it speaks
\* the plugin's major version.
GateHolds ==
    (mcpPc = "reply" /\ rpcReply = "data" /\ rpc.tool # "manifest") => firstSeen[Key] = "same"

\* Both: what is kept about a host is what it said, and it is heeded.
GateFollowsAnswers == VerdictFromAnswer /\ GateHolds
=============================================================================
