# TLA+ models of host-health-mcp

host-health-mcp lets an MCP client ask a host about its health. Three programs
take part: a **plugin** that speaks MCP on stdin/stdout, a **daemon** on the
host that answers HTTPS requests of clients with a certificate, and a
**helper** that runs as root and executes a closed set of operations for the
daemon over a unix socket. A generator derives the helper's capabilities and the
daemon's packet filter from the configuration.

This directory keeps TLA+ models of the parts whose correctness depends on
interleaving, time, failure or many cases, the TLC configurations that check
them on small instances, and TLAPS proofs of the main results for all instances.
`PROJECT.json` lists the components, the runs, the source lines behind every
definition, the mutants that show each property can fail, the hazards and the
theorems.

## 1. Inventory

Paths are relative to `src/daemon/internal` unless they start with `src/`.

| Component | State | Operations | What makes it correct |
|---|---|---|---|
| Response cache, `daemon/cache` | map of entries, singleflight map, counts of running invocations, keys that have logged a stall | Lookup, Store, Sweep, Do (admit, DoChan, wait, Forget), enter, leave | one invocation per key unless a deadline has passed; exact counts; fresh hits; a bounded map; every caller answered |
| Tool invocation, `daemon/httpserver` `handleToolBody` | request context, work context, time of the observation | run the tool, store, reply | a client that hangs up hurts nobody else; age counts from the observation |
| Rate limiter, `daemon/ratelimit` | buckets per caller and per caller and tool, time of the last sweep | Allow, lazy sweep, background sweep | no window lets more through than burst and rate; a refusal is free |
| Request path, `daemon/httpserver` `handleRequest` | none of its own | authenticate, meter, route, check, audit | whoever has an identity is metered before anything else is decided; a reply is followed by its audit line |
| Capped listener, `daemon/httpserver/capped.go` | slots | Accept, Close | a slot comes back exactly once |
| Helper client, `daemon/helperinvoke` | slots | Call | bounded fan-out; every call ends by its context's deadline; the helper's answer is read |
| Helper server, `helper/server` | connection slots, open connections | Serve, handleConn, dispatch, closeAll | bounded connections; every operation has a deadline; survives a shortage of descriptors; shutdown leaves nothing open |
| Subprocess runner, `helper/exec` | process, kill timers, output cap | Run, RunCapped, RunStreaming, classify | the caller gets its result back; the error names the cause; no kill is pending after the return |
| Framing, `shared/proto` | none | read and write frames | caps in both directions; closed set of operations |
| Capability plan, `shared/capsplan`, `helper/caps`, `src/daemon/cmd/capstemplate` | two drop-ins; the mask a helper started with, what it has warned about | For, run, Has, the warning of dispatch | the helper holds what the calls of the daemon need; an operation that lacks its capability is logged |
| Tools with concurrency, `daemon/tools/{system,storage}` | probes in flight; results of a fan-out | bounded statfs; bounded fan-out | one probe per mount; a partial failure stays partial and visible |
| Reports, `daemon/tools/{updates,security,firewall,firewall_lookup}` and the helper's operations for them, `helper/ops` | none, but they read a host that changes under them | one answer per call | a figure that is missing is explained; a figure that is shown covers what it says |
| Other tools, redaction, workload probes, other operations | none | parse host state | data handling |
| Configuration, start-up, audit | configuration | validate, start, stop, log | limits are positive; what is exposed is what is declared |
| MCP plugin, `src/plugin` | compatibility verdict per host | Serve, dispatch, call, probe | no data from a daemon that has not said it is compatible |
| Forbidden-call linter, `src/build/linter` | none | scan Go source | build time only |

How they interact. A request passes the capped listener, is authenticated and
metered (`Limiter.Allow`), and enters `handleToolBody`, which looks it up in the
cache or runs the tool through `Cache.Do`. Tools call the helper through
`helperinvoke.Client`, which opens one connection per call. The helper accepts
it, checks the peer, runs the operation under a deadline and mostly starts a
subprocess. Three goroutines run beside the requests: the cache sweeper, the
limiter's sweeper and the watchdog.

What is hard here:

* **Work outlives requests.** A tool blocked in the kernel cannot be cancelled.
  Its request times out, its key is forgotten, a new invocation starts beside
  it, and the counters have to stay right through all of it.
* **Steps that are not atomic.** `admit`, `DoChan`, `enter`, the select, and
  `Forget` each take a different lock, so anything may happen between two of
  them.
* **Lazy time.** Buckets fill when they are used and are deleted when they are
  not; entries expire when they are read. Whether that is visible to a caller
  is a question about all schedules.
* **Chains of deadlines**, from the plugin to a subprocess, each meant to fire
  after the one below it.

* **A host that changes while it is read.** Sets are listed one by one, logs are
  rotated, mounts die, daemons are upgraded, configuration is edited between
  two restarts.

`PROJECT.json` lists each hazard with its line and the properties that would
catch it.

## 2. Modules

| Module | What it is |
|---|---|
| `ToolCache` | the cache and the invocation of tools |
| `MCToolCache`, `ToolCacheProofs` | its instance for TLC; its inductive invariant and theorems |
| `TokenBucket` | abstract specification of the rate limiter |
| `RateLimiter` | the limiter as it is written, and its refinement mapping |
| `RateLimiterProofs` | its invariants, its bound and its refinement |
| `HelperPool` | helper client and helper server together |
| `MCHelperPool`, `HelperPoolProofs` | its instances for TLC; its inductive invariant and theorems |
| `Subprocess`, `SubprocessProofs` | one call of the helper's subprocess runner; its theorems |
| `SystemTool`, `SystemToolProofs` | the disk list of the system tool and its bounded statfs; its theorems, and lemmas about lists made from sets |
| `RequestPath`, `RequestPathProofs` | listener, connections, handler, audit and shutdown of the daemon; its theorems |
| `Ordering` | a set of places as a list in ascending order, for code that walks a list and keeps some of it |
| `MCBlocking` | the three above for TLC |
| `StorageTool` | the fan-out of the storage tool and the calls after it |
| `FirewallInspect` | the firewall tool and its operation, against sets that change |
| `FirewallLookup`, `AccessLog`, `UpdatesReport`, `SecurityReport` | answers as operators of what was read |
| `Reports` | chooses a case for one of these operators and holds the answer against it |
| `Deployment`, `MCDeployment` | configuration, generator, restarts; manifests for TLC |
| `McpPlugin`, `McpPluginProofs` | the plugin against daemons that fail and are upgraded; its theorems |
| `MCReports` | bounds for the cases of the reports |
| `MCTools` | limiter, storage, firewall, reports, deployment and plugin for TLC |
| `ToolsProofs` | theorems about storage, firewall, deployment and reports |

`MCBlocking` and `MCTools` each hold several components that share no state.
A behaviour of theirs is one of a single component (`part`, `sel`) while the
others keep one state, so the run checks each component as if alone; it adds no
interleaving and removes none.

### ToolCache

A request on a connection (`req`, `ans`) is idle, about to call `admit`, about
to call `DoChan`, waiting in `Do`'s select, about to `Forget`, or replying. A
flight (`flight`) is one run of the closure that `Do` hands to singleflight:
registered, in the tool, about to store, about to leave, left. `sf` is
singleflight's map; `inFlight`, `inFlightTotal`, `stalled` and `m` are the
fields of `Cache`.

| Action | Code |
|---|---|
| `LookupHit`, `LookupMiss` | `handleToolBody` up to the creation of `reqCtx` |
| `admit` | `Cache.admit` |
| `DoChanJoin`, `DoChanLead` | `sf.DoChan` in `Cache.Do` |
| `Receive`, `Deadline`, `Cancel` | the select in `Cache.Do`; `handleToolError` |
| `Forget` | `sf.Forget` |
| `Reply` | the reply is written, the connection is free |
| `enter` | `Cache.enter`, creation of `workCtx`, `observedAt` |
| `HandleReturns` | `tool.Handle` returns a result, an error, panics, or reports that `workCtx` has expired |
| `StoreResult` | the entry is built and stored (`Store`, `sweepLocked`) |
| `leave` | the deferred `Cache.leave` |
| `Deliver` | singleflight deregisters the call and sends the result |
| `Sweep` | the sweeper goroutine of `main.go` |
| `Tick` | time |

Time is relative: what is left to a deadline, how long ago an observation
began. An entry carries two ages, the one its stamp gives (`age`) and the one
of the observation (`obs`); that they agree is a theorem, not an assumption.
A marshalling failure is an error of the tool. The cache key is a model value.
singleflight is external and modelled from its documented behaviour and its
use: `DoChan` joins or registers, `Forget` deregisters by key, and a finished
call deregisters itself only if it is still the registered one.

`Flights` bounds how many invocations exist at once; `Room` keeps a request
from arriving when no slot would be left for it, unless it comes alone to a key
at a limit and so needs none. It restricts arrivals only, never a step of a
request or flight that exists.

### RateLimiter and TokenBucket

`TokenBucket` says what is promised: every bucket fills continuously up to its
burst, a request passes exactly if each of its buckets has a token, and a
refusal changes nothing. `RateLimiter` is the code: buckets come into being
full, are filled by `tryTake`, deleted by `sweepLocked` (from `Allow` when five
minutes have passed, and from `RunSweeper` every minute), and the global token
is refunded when the tool's bucket refuses. Tokens are exact: a token is
`Minute` parts, and a bucket gains its rate in parts per unit of time. The
floating-point rounding of the code is not modelled. `OpenWindow` starts a
count of what is let through; it changes history variables only.

`tryTake` lets everything pass when rate and burst are both zero. No reachable
configuration has that: `config.Validate` refuses it, and the global bucket is
fixed at 30 per minute and burst 10. `LimiterAssumption` states as much.

### HelperPool

One module for both ends of the socket, since what matters is that neither sees
the other give up. `call` is where each goroutine of the daemon is in
`Client.Call`, with the time left on its context and to its socket deadline;
`sem` is `Client.sem`. `conn` is the helper's end of each connection (queued,
awaiting a request, in the handler, about to reply, ending), with the time left
on `opCtx`; `slots`, `open` and `backoff` are `Server.sem`, `Server.open` and
the accept loop's delay. `pipe` is the socket: a request or a response that is
not read yet, and whether the daemon has closed.

| Action | Code |
|---|---|
| `Begin`, `Acquire`, `AcquireFails` | entry of `Call` and its select on `sem` |
| `Dial`, `DialFails` | `DialContext` |
| `Send` | deadlines, the watcher, `WriteFrame` |
| `ReceiveAnswer`, `ReadFails` | `ReadFrameWithCap`, the deferred close and release |
| `Accept`, `AcceptFails`, `AcceptRetries` | the accept loop of `Serve` |
| `Shutdown`, `Exit` | cancelled context, `closeAll`, fatal errors, crashes |
| `Start` | systemd starts the helper again (external) |
| `ReadRequest`, `HandlerReturns`, `WriteReply`, `HangUp` | `handleConn` and `dispatch` |
| `Release` | the deferred release of `Server.sem` |
| `Tick` | time |

A handler returns anything at any time, after its deadline too, or never: a
read that is blocked in the kernel, or a child that is, cannot be cancelled. A
request stays readable after the daemon has closed its end, as it does on a
unix socket, and so does an answer after the helper has. `PerMS` is the number
of clock units in a millisecond, which makes the rounding of `deadline_ms`
visible. Contexts of tools only expire: they are derived from
`context.Background()` and cancelled after the tool has returned. `checkPeer`
always succeeds, since only the daemon connects.

`Conns` bounds how many connections exist at once; with all in use a call waits
at `Dial`, as it would on a full backlog.

### Subprocess

`pc` is where the goroutine that called `Run`, `RunCapped` or `RunStreaming` is;
`child`, `term`, `held` are the process, whether SIGTERM reached it, and whether
a descendant keeps its pipe open; `wrote`, `pipe`, `kept` count output in units;
`watcher` is os/exec's goroutine, `timers` and `killTimer` the two timers and the
variable they share. `Start`, `StartFails`, `Copy`, `ReadCapped`, `Cut`, `Drain`,
`Scan`, `Reap`, `JoinWatcher`, `AwaitCopies` and `StopTimer` are the steps of the
caller, `Cancel` and `KillTimerFires` those of the goroutines beside it. os/exec
is external: `Wait` reaps, joins the watcher, then waits for the copy goroutine,
and returns the exit status before the context's error before a copy error.

### SystemTool

Polls overlap, since an invocation outlives its request. Each walks the list
`parseMounts` made of `/proc/mounts` (`readMounts` may stop half way), and probes
one mount after the other: `ProbeBusy`, `LaunchProbe`, then `ProbeResult` or
`ProbeTimeout`; the probing goroutine does `StatfsReturns` and `Unmark`.
`HealthChanges` is the file server.

### RequestPath

A connection is queued, in its handshake, idle, active or gone, and `slot` says
whether its `once` has run; a request passes `admit`, `Route`, `handleToolBody`,
`DoReturns`, `WriteReply`, `Audit`, `HandlerReturns`. net/http closes a
connection from its own goroutine and from `Shutdown`. A certificate is what
`verifyClientCert` and `callerIdentity` look at: the first asks whether there are
DNS names, the second takes the first of them, which may be empty. The audit step
comes after the reply; the end of the process may cut it off. `Cache.Do` ends in one of the
ways `ToolCache` allows, and the limiter is one bucket. `MaxRefills` bounds the
tokens that come back.

### StorageTool, FirewallInspect

`StorageTool`: `LaunchSmart` takes a slot per device, `SmartReturns` writes the
row, `JoinSmart` waits; `CallOp` makes the other calls one by one, which are
told apart by their place, since two of them may name the same mountpoint;
`StDeadline` ends the context, after which every call fails.

`FirewallInspect`: `FwHandle` refuses or asks; `ListRuleset` walks the ruleset;
then each set is listed as it is by then (`ListSet`, `ListSetFails`, `SkipSet`)
while `SetChanges` alters the kernel's sets. A set is its number of elements.

### Reports and its operators

`FirewallLookup` is the matching of addresses, prefixes and ranges, with
addresses of `Width` bits in two families, wrapped in `{elem: ...}` or not, beside
forms that are not read (concatenations, pairs of a map); `include` is
`include_set_elements`, which decides what `sets[]` shows and not what a rule's
reference matches (`firewall_lookup.go:190`, `:208`); `AccessLog` the tail of an access log
and the counts made from it; `UpdatesReport` and `SecurityReport` every section
with the warnings it adds. Sizes are constants: the width of an address, the lists
of values, the log directories, the windows. Text is an alphabet of what the code tells apart: a
log is read, cut off, unreadable or absent, its headline is clean, changed or
missing, and its numbers or all of it may lie past the 2 MiB that are read. What
apt-get does to `apt_pending` is in `AptPending`.

### Deployment

The operator edits either file, runs the generator (any write of which may
fail) and restarts either service, in any order. `capsConf` and `filter` are the
two drop-ins; `helper` and `daemon` what the running services picked up. `StartsOk`
is every check of the configuration in `main` that ends the daemon: both files, the
public bind, the redaction rules, the plugins and the names of tools in each file;
the daemon's manifest may lie where the generator does not look (`Elsewhere`). The
helper's start may fail, and so may its reading of its own mask. `dispatchOp` is a
call of the daemon: `OpsOf` is what the tools call, which for storage does not depend
on `storage_backends`; the helper runs the operation in any case, and logs once, by
its own table (`RequiredCap`) and mask (`Has`), that a capability is missing.
`Needs` is what an operation really needs, external to the code: `RequiredCap`'s
entries, and `CAP_NET_ADMIN` for nft_table_counts; `helper.lost` is a history of what
ran without it.

### McpPlugin

`mcpPc` is where the single goroutine is between reading a line and writing the
reply; `compat` is the kept verdict by resolved host; `daemons` is what runs
there; `written` is the last line that reached stdout (`Emit` may lose one, since
`write` ignores failures). `firstSeen` is a history variable.

## 3. Runs

| Run | Specification and bounds | Shows |
|---|---|---|
| `cache_entries` | `LiveSpec`; 1 connection, 2 keys, 2 flights, 1 entry, TTL 1, limits 1 per key and 2 in total | freshness of hits, the cap, what is evicted; a refused key is admitted again |
| `cache_flights` | `LiveSpec`; 2 connections, 1 key, 2 flights, timeout 1, limits 2 per key and 3 in total | counters, stall log, causes of timeouts and the singleflight map, in every interleaving and with time passing at any point; every request is answered |
| `cache_age`, `cache_overlap` | `PromptSpec` | two comments that the code does not keep (section 6) |
| `helper_pool` | `PromptSpec`; 2 calls, 3 connections, 1 slot in the daemon, 2 in the helper, timeouts up to 4 half milliseconds, `MinOpDeadline` 2 | both semaphores and the tracked connections are exact, with failures, crashes and restarts; the budget keeps operations to their callers' deadlines |
| `helper_liveness` | `LiveSpec`; 2 calls, 2 connections, 1 slot on each side | every call returns; the helper gets its slots back; the backoff stays capped |
| `helper_reply` | `PromptSpec` | a comment that the code does not keep (section 6) |
| `blocking` | `AllSpec`; a child that writes 4 units against a cap and a pipe of 2; 2 polls of a local, a network, a doubly listed and a pseudo mount; 2 clients, 1 slot, 1 token and 1 more | see below |
| `subprocess_truncation` | `Subprocess` alone | a comment that the code does not keep (section 6) |
| `tools` | 1 caller of 3 tools (metered, exempt, cheap), windows of 3 minutes; 3 devices through 2 slots and 4 more calls; 3 sets of 1 or 3 elements against a budget of 4, with no limit asked for, a low one and one above the hard cap of 3; every case of every report; 2 manifests and one elsewhere, 2 `daemon.yml`; 2 lines of input, 2 daemons | see below |
| `deployment_filter` | `Deployment` alone | a sentence of the manual that the generator does not keep (section 6) |
| `aide_stale` | the reports alone, up to 2 AIDE logs | a comment that the code does not keep (section 6) |

`blocking` checks, of the subprocess runner: a success is complete or flagged and
`Run` names a truncation whatever else happened (`OutcomeTrue`); no kill is
pending after `Run` or `RunStreaming` return (`NoKillPending`); the call returns
unless a descendant keeps the pipe open for ever (`ChildCallReturns`). Of the
disk list: never two probes of a mount, and a mark for as long as there is one
(`OneProbePerMount`); every mount has one row, and those without figures are
named (`DiskListComplete`); polls end, and a mark goes unless its mount is dead
again and again (`DisksSettle`). Of the request path: slots are the open
connections (`SlotsAreConnections`) and come back unless a client keeps sending
(`SlotsReturn`).

`tools` checks that the limiter keeps every window to burst and rate
(`WindowBound`) and refines `TokenBucket` (`IsTokenBucket`); that each device has a
row with figures or an error and each further call an answer or an error
(`NothingMissing`); that no set shows more elements than its own cap, the budget
holds, ban sets come first and a set shown short is flagged (`ElementsAccounted`);
that whatever ran without its capability is in the helper's log, and that services
started from one manifest fit each other but for two named exceptions
(`CapsFitCalls`); that a missing figure of security and updates is explained and a
login count covers the window it names (`FiguresExplained`); that AIDE's newest log
is heeded when a count is found in it or its scan was cut short
(`AideHeedsNewest`); that a lookup finds what the sets of addresses say, of the
values it reads (`LookupFindsOverlaps`); that access-log counts are those of the
window given (`AccessCountsTrue`); that the plugin's verdict is what the host first
said, an outage leaves none, and it is heeded (`GateFollowsAnswers`).

Two silences remain in `FiguresExplained`, as in the code: AIDE with neither a
database nor a log, and fail2ban's -1 when the helper does not find
`fail2ban-client`. The update counts have no warning while the lock is contended:
`apt_lock_state` is their explanation (REQUIREMENTS 4.12).

Why these bounds are enough to be interesting. Two flights of one key are a
forgotten flight and its replacement, and reach the per-key limit; with timeout 1
"before the deadline", "at it" and "long after it" are different states. One
entry with two keys is the smallest map in which Store meets a full map with a
live entry and with an expired one; limits of 1 and 2 let a key be refused for its
own invocations and for those of the other key alone, which an admission on stale
counts can bring about. In the limiter an idle bucket passes the
idle limit, both sweeps delete buckets, and a window is long enough for a bucket
to be emptied, swept and emptied again. In `helper_pool` the daemon's limit is
half the helper's, as 8 is of 16, and there is a connection more than the helper
has slots, so that abandoned operations fill it and one more call is rejected;
`BackoffMax` is no doubling of `BackoffMin`, so the cap is reached between two
of them. A child that writes twice the cap fills the pipe after the cut, so that
it can block in a write while it is to be terminated. Two clients for one slot
meet the cap, and two requests for one token meet the limiter. Three sets and
up to three elements let the budget run out before, at and after a set's end, and it
is above the hard cap, so that each of the two limits binds alone. Width 2
has every relation of two prefixes or ranges: disjoint, touching, nested, equal.
Two lines of input are a request that makes a verdict and one that meets it, with
upgrades in between. The proofs of section 4 remove these bounds for every
invariant of every passing run.

`PromptSpec` lets time pass only while every goroutine is blocked; in
`HelperPool` it also leaves out the failures of `Accept`. Its
behaviours are behaviours of `Spec`, so a violation found under it is a
violation without any delay of the scheduler. One passing run uses it, and its
`SlotsExact`, `FanoutBounded` and `TrackedExact` are covered for `Spec` by the
theorems. `OpEndsWithCaller` is
proved for `PromptSpec` and could not be for `Spec`: a request that waits, unread, for a helper that is short
of CPU or backing off is given its whole budget when it is read at last, and
then outlives its caller by the time it waited.

Fairness. `LiveSpec` of `ToolCache` assumes that time passes, that a runnable
request goroutine runs and that a runnable flight goroutine runs: the Go
scheduler and its timers guarantee as much. It assumes nothing of clients and,
in particular, does not assume that a tool returns. `StallClears` makes that its
one exception: a key is admitted again and again, or invocations that are blocked
for ever fill a limit by themselves, the key's own or the total, which is the
condition in the comment on `Do` ("as soon as the underlying cause clears").

In `HelperPool`, `LiveSpec` assumes that time passes, that the accept loop's
timer fires, and that runnable goroutines of both programs run: weak fairness
of each call and of each connection. Nothing makes a handler return, the helper
start again, or a stopped helper end. `SlotsComeBack` excepts a connection
whose own handler is blocked for ever.

In `MCBlocking` the fairness is that of its parts. `Subprocess`: the calling
goroutine, os/exec's watcher and the timers run, and the operation's context ends,
since `dispatch` gives every one a deadline; a child need not write, read or exit,
but one that is killed is dead, and a descendant need never end. `SystemTool`:
pollers and returned probes run; a dead mount need not recover. `RequestPath`:
handlers run, `Cache.Do` returns (`EveryRequestAnswered`), the timeouts of
`http.Server` end a connection that is idle or stays in its handshake, Accept is
called again and Shutdown ends by its own deadline; clients need do nothing.

Deadlock is checked in the runs of the cache and the helper pool. In
`blocking` and `tools` a behaviour really ends: a call returns, a server exits, a
report is given, the plugin stops.

## 4. Proofs

Every invariant and every action property that a passing run checks is a theorem
of the component's specification, for every value of the constants that
satisfies the named assumptions. These are:

* `TimeAssumption`, `LimitAssumption`, `SetAssumption`: finitely many
  connections, keys and flights, positive timeout and limits, ages counted beyond
  TTL and timeout;
* `LimiterAssumption`: positive rates, bursts and minute, the idle cap beyond the
  idle limit and beyond the time that fills a bucket;
* `PoolAssumption`, `BudgetAssumption`: finitely many calls and connections,
  positive limits, `MinOpDeadline` not above `MaxOpDeadline` and not below a
  millisecond (the code has 250), `BackoffMin` not above `BackoffMax`;
* `SubprocessAssumption`, `RequestPathAssumption`, `SystemAssumption`,
  `StorageAssumption`, `DeploymentAssumption`, `McpAssumption`: the constants have
  their types; caps and limits that the code requires to be positive are;
* `FirewallAssumption`: a ruleset names a set once, the default of elements is not
  above the hard cap;
* `SecurityAssumption`, `AccessLogAssumption`: windows end in the present;
* `LookupAssumption`: lists hold values of one family. It also says that powers of
  two are positive, which is arithmetic, but of an operator that the prover does
  not know.

**ToolCacheProofs.** The invariant `IInv` consists of

* `Shape`, the types without the counters, and that whoever is active has a key;
* `Counters`, the types of the counters, which need
* `InFlightExact` and `StalledExact`: `leave` keeps a count natural only
  because the flight that leaves is one of those counted, and the proof follows
  the set of running flights through each action with the finite-set theorems;
* `CapacityHeld`;
* `Stamped`, that the stamp of an entry is the age of its observation, without
  which `HitFresh` is not inductive;
* `Timing`, that "deadline" only comes from an expired work context and that
  only a request without time left is about to forget, without which neither
  `TimeoutIsOwn` nor `DroppedOnlyByDeadline` is.

From it follow `TypeCorrect`, `CountersExact`, `StallsExact`, `HitsAreFresh`,
`TimeoutsAreOwn`, `CapacityBound`, and, as action properties, `EvictionSafe`
and `NoForkStorm`.

**RateLimiterProofs.** `TypeCorrect` holds for every valid configuration.
`RateBound` and `ImplementsTokenBucket` need `FillsWhileIdle`: an idle time
long enough to be swept is long enough to fill the bucket. The code does not
check it, and without it both fail (section 6); the global bucket and the
shipped defaults satisfy it. The argument: the content of a bucket, what it
would hold if it were filled now, is not changed by a sweep (`SweptContents`),
grows with time like the ideal level (`TickContents`), and is changed by
`Allow` exactly as the ideal specification says (`AllowOutcomes`). `Budget`
strengthens `WindowBound` with what is left in the bucket. The refinement
mapping takes the content as the level.

**HelperPoolProofs.** `IInv` consists of `Shape` (the types without the two
counters), `Links` (a call that has dialled has a connection, a reply has an
outcome), `SlotsExact`, `FanoutBounded` and `TrackedExact`. The limits are not
inductive without exactness, since the guards look at the counters and not at
who holds a slot. `CallSlots` and `ConnSlots` show that each step takes a slot
exactly when a holder appears and frees one exactly when one disappears; the
finite-set theorems turn that into counts. `SocketDeadline`, `BudgetSent` and
`OpDeadlineBounds` are what each link of the chain of deadlines guarantees: the
socket's is not later than the context's, the budget is rounded up by less than
a millisecond and never 0, and an operation gets at most what was asked for or
`MinOpDeadline`.

`OpsEndWithCallers` needs more, since it is about both ends at once: `Alone`, that
no two calls share a connection, and for each connection `ConnOK`. While a request
waits to be read it carries exactly the time its caller still has, because under
`PromptSpec` no time passes until the helper has read it; from then on both clocks
run down together, and the operation is ahead of its caller by less than the
rounding, or has no more than `MinOpDeadline` left. When the caller gives up, what
is left is below that minimum, provided a millisecond is.

**SubprocessProofs.** `OutcomeTrue` looks at the reply only, so the invariant has to
say where the output is before there is one. `Phases` ties the caller's position to
the child and the watcher; `Output` says that every unit written is in the pipe or
kept until the call gives up on it, and that each of the three functions remembers
giving up, each in its own variable; `Timers` says that outside `RunCapped` the
shared variable points to the one timer there is, without which stopping it would
not show that none is armed.

**RequestPathProofs.** `ConnOK` links the `once` of a connection, whether it is open
and where it is, from which a close by anyone frees its slot exactly once; the
finite-set theorems turn that into the count (`Slots`).

**SystemToolProofs.** `Marks`: a mark belongs to exactly one goroutine. `PollOK`: a poll
has the first part of its list behind it and the rest still to do (`Walks`), and
names what it could not measure. That the list itself is right for every mount
table is `ParseLists`: a list in ascending order of a finite set of places exists
(`OrderExists`, by ranks) and `Ascending` is one, so local mounts and then those
that may block are each listed once.

**McpPluginProofs.** `VerdictFromAnswer` is inductive; `Admitted` adds that a call
under way has a host whose verdict is good, which is what the gate established and no
step in between may undo.

**ToolsProofs.**

* Storage: `SmartRows`, a goroutine that has ended has left a true row, and
  after the join all have; `CallsBooked`, the calls made so far are in the answer
  or in the errors, never in both.
* Firewall: `QueueOK`, what is still to be listed is each set once, ban sets first;
  `SetOK`, a set shows nothing before its turn and is honest after it; `BansOK`,
  which carries the priority of ban sets through a budget that may run out in the
  middle of one; `BudgetOK`, elements shown and budget left add up.
* Deployment: what a drop-in or a service was made from was planned for some
  manifest (`Planned`, `Started`), and `Logged` that warnings and losses of a helper
  that read its mask agree so far. `DispatchLogs` carries that through a call, since
  `RequiredCap` is true of the operations it lists (`TableTrue`); `PlanFits` compares
  what `For` grants with what `OpsOf` calls, which are two different readings of the
  manifest.
* Reports: a case is answered once, by its own operator (`RepInv`), and each property
  is a lemma about that operator. `AideFound` finds the log that decides;
  `CountsCover` shows that lines before the tail are no younger than the tail's
  oldest; `OverlapExact` reduces all matching to blocks of addresses (`MaskedBlock`)
  that meet exactly if one holds the first address of the other, and `Unwrapped` and
  `ReadExact` say which values get as far as that.

Facts about lists and logs of any length are proved without induction over data:
from the least element of a set of places (`FirstIndex`) or from ranks.

**Only model-checked.** `EveryRequestAnswered`, `StallClears`,
`EveryCallReturns`, `SlotsComeBack`, `ChildCallReturns`, `DisksSettle` and
`SlotsReturn`: liveness is outside what the prover does. The six properties of
section 6 that the code does not keep are, of course, not proved either.

## 5. Not modelled

* Redaction, the wording of warnings and log lines, YAML and JSON: handling of
  text without state or schedules of its own.
* The tools network, dns, certs, mail, backup, sensors, pressure, kernel, sockets,
  logs, systemd_units and workload, and the helper's operations for them: each
  reads and formats; in `ToolCache` a tool is a step with any outcome.
* The operations for needrestart, mdraid, lvm, zpool, btrfs and smart:
  parsers. Their outcomes are in `UpdatesReport` and `StorageTool`.
* The length prefix of frames and `checkPeer` of the helper's socket.
* The figures of the system tool other than the disk list.
* `sd_notify`: READY is sent before the listener is bound (`main.go:269`), and
  nothing in the repository depends on the order.
* TLS, net/http, os/exec and singleflight themselves: external, modelled by what
  the code uses of them.
* The linter, a build tool.

Left to do: an abstract specification of the cache (a register per key that is
never older than its TTL) and of the helper's slots (a counting semaphore) which
`ToolCache` and `HelperPool` are shown to implement, and step properties of the
disk list, the request path and the firewall answer beside their invariants.

## 6. Findings

* **`cache_age`.** The comment on `observedAt` says that `cache_age_s` is the age
  of the observation. On a hit it is. The request that ran the tool, and those
  that joined it, are told 0 (`httpserver.go:373`), however long the tool took.
* **`cache_overlap`.** The comment on `MaxInFlightPerKey` says a second
  invocation starts only beside a wedged one. `Forget` names the key and not
  the invocation: two requests that time out on the same wedged call forget
  twice, and the second time it is the healthy replacement that is dropped.
* **`helper_reply`.** The comments on `HelperDeadlineBudget` say that the helper
  has the budget to stop its subprocess and answer before the daemon stops
  waiting. The same `helperDL` is the socket deadline and the budget sent, so
  the daemon's read expires when the operation does, with the budget unused.
* **`subprocess_truncation`.** The comment on `RunCapped` says that truncation is
  a flag and no fault. The SIGTERM sent at the cap makes the child exit by
  signal, and `classify` reports `tool_failed`.
* **`deployment_filter`.** The manual says that without `ip_filter_allow` no
  filtering is applied. The generator writes nothing then, and does not remove
  what an earlier run wrote.
* **`aide_stale`.** The comment in `readAideLog` says not to fall through to an
  older log: "Nothing is better than the wrong thing here". The code stops at a log
  whose scan fails. It does fall through from one in which no count is found: one
  whose totals lie past the 2 MiB that `readMaybeGzipped` keeps without saying so,
  or one that reports differences without stating how many.

Observations made while modelling, without a run of their own:

* A bucket that is swept before it is full comes back full: with a burst above
  ten times the sustained rate, which `Validate` accepts, `FillsWhileIdle` and
  with it `WindowBound` fail.
* The helper's slots are freed later than the daemon's, so abandoned operations
  can hold all of them and `maxConns` binds on a daemon that keeps to its limit
  (comment at `server.go:245`).
* In `RunCapped` the deadline's timer and the truncation's timer share a variable;
  the one that is overwritten stays armed after the return. It then signals a
  process that has been reaped, which `os.Process` refuses. `NoKillPending`
  leaves `RunCapped` out for this reason.
* `statfsTimeout` is 2 s per mount and mounts are probed one after the other, so
  two dead mounts outlast the tool's timeout of 3 s; the second poll finds them
  marked.
* The plugin keeps a verdict for as long as it runs: a host that was incompatible
  stays so after an upgrade of its daemon. `Serve` looks at its context only after
  a line has been read.
* A manifest without `enabled_tools` exposes every tool while the generator grants
  `CAP_CHOWN` only; the second part of `CapsFitCalls` is about manifests that name
  tools. `storage` asks about ZFS and every device whatever `storage_backends` says,
  so a host that declares neither has those operations run without their capability,
  with a line in the log.
* `nft.go:54` says that `CAP_NET_ADMIN` is templated in when the network tool is
  enabled, and `tools.md:750` that nft_table_counts needs it; `capsplan.For` grants
  nothing for network. The operation fails aloud then.
* `tools.md:744` and `:737` give btrfs_scrub and read_audit_status other
  capabilities than `RequiredCap` and `For` do.
* `firewall_lookup` never matches a concatenation, though a comment on
  `setTypeMatchesQuery` speaks of them, nor a map's pair, nor a member of an
  anonymous set that carries a timeout or a comment: only elements of named sets are
  unwrapped. `LookupFindsOverlaps` says which values it is about.
* Whatever makes `apt-get` fail, a missing binary too, is reported as a contended
  lock (`apt_pending.go:38`), though REQUIREMENTS 4.12 means the lock by it.
* fail2ban's ban count is -1 without a word when the daemon finds `fail2ban-client`
  and the helper does not, though `security.go:73` points to a warning.
* A certificate whose first DNS name is empty and that has no CN passes the handshake
  (`httpserver.go:537`), is nobody to the handler (`:479`), and is answered 401 with an
  audit line that no bucket pays for.
* A reply of the plugin that cannot be encoded or written is lost, and the loop goes
  on (`mcp.go:435`). The audit line of a request that outlasts the ten seconds of
  Shutdown is lost with the process.
* A ruleset beyond the cap is announced as "parsing the prefix only", but a prefix
  of a JSON document does not parse. Ban counts are taken from the ruleset, before
  the sets are listed again. With a table filter that leaves no table the backend
  is reported as none.
* An AIDE log named in the manifest that has no headline leaves an exit code of 0
  beside a count; a log directory's newest file that cannot be read is skipped for
  an older one. A jail whose status fails is left out of fail2ban's total, and a
  failed audit operation is explained as a kernel without audit.
* Apache stamps a line when the request starts and writes it when it ends; lines
  out of order can make a window look covered. `AccessCountsTrue` is about logs in
  order.
