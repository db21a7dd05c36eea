----------------------------- MODULE ToolsProofs ----------------------------
(***************************************************************************)
(* Proofs about StorageTool, Deployment, FirewallInspect and Reports, for  *)
(* any devices, calls, manifests, rulesets, logs and limits.               *)
(***************************************************************************)
EXTENDS StorageTool, Deployment, FirewallInspect, Reports, SystemToolProofs

-----------------------------------------------------------------------------
(* StorageTool.                                                             *)

\* A row that says what became of its device.
RowTrue(i) == rows[i].device = Devices[i] /\ (rows[i].figures <=> rows[i].err = "")

\* A goroutine that has ended has left its row, and after the join all have.
SmartRows ==
    /\ worker \in [DeviceIndex -> {"idle", "calling", "done"}]
    /\ DOMAIN rows = DeviceIndex
    /\ \A i \in DeviceIndex : worker[i] = "done" => RowTrue(i)
    /\ stPc # "smart" => \A i \in DeviceIndex : worker[i] = "done"

\* The calls made so far are in the result or in errors[], each in one of them.
CallsBooked ==
    /\ nextOp \in 1 .. Len(Ops) + 1
    /\ answered \cup opErrors = 1 .. nextOp - 1 /\ answered \cap opErrors = {}
    /\ stPc = "done" => nextOp = Len(Ops) + 1

StInv == SmartRows /\ CallsBooked

\* A row is true to its device whatever the call returned.
LEMMA RowWritten ==
    ASSUME NEW i \in DeviceIndex, NEW r \in CallJSON
    PROVE  /\ smartRow(i, r).device = Devices[i]
           /\ smartRow(i, r).figures <=> smartRow(i, r).err = ""
<1>1. r.ok \in BOOLEAN
  BY DEF CallJSON, CallResults
<1>2. mapHelperCode(r.code) # ""
  BY DEF mapHelperCode
<1>3. smartRow(i, r).figures = r.ok /\ smartRow(i, r).device = Devices[i]
      /\ smartRow(i, r).err = IF r.ok THEN "" ELSE mapHelperCode(r.code)
  BY DEF smartRow
<1> QED  BY <1>1, <1>2, <1>3

\* Every step of the fan-out keeps the rows true.
LEMMA SmartRowsStep ==
    ASSUME StInv, [StNext]_stVars
    PROVE  SmartRows'
<1>1. SmartRows
  BY DEF StInv
<1>2. CASE LaunchSmart
  <2>1. /\ worker' = [worker EXCEPT ![nextDev] = "calling"]
        /\ stPc' = stPc /\ stPc = "smart" /\ rows' = rows
    BY <1>2 DEF LaunchSmart
  <2> QED  BY <1>1, <2>1 DEF SmartRows, RowTrue
<1>3. ASSUME NEW i \in DeviceIndex, SmartReturns(i)
      PROVE  SmartRows'
  <2>1. PICK r \in CallJSON : rows' = [rows EXCEPT ![i] = smartRow(i, r)]
    BY <1>3 DEF SmartReturns
  <2>2. worker' = [worker EXCEPT ![i] = "done"] /\ stPc' = stPc /\ worker[i] = "calling"
    BY <1>3 DEF SmartReturns
  <2>3. worker' \in [DeviceIndex -> {"idle", "calling", "done"}] /\ DOMAIN rows' = DeviceIndex
    BY <1>1, <2>1, <2>2 DEF SmartRows
  <2>4. RowTrue(i)'
    BY <1>1, <2>1, RowWritten DEF SmartRows, RowTrue
  <2>5. \A k \in DeviceIndex \ {i} : worker'[k] = worker[k] /\ rows'[k] = rows[k]
    BY <1>1, <2>1, <2>2 DEF SmartRows
  <2>6. ASSUME NEW k \in DeviceIndex, worker'[k] = "done"
        PROVE  RowTrue(k)'
    <3>1. CASE k # i
      <4>1. RowTrue(k) /\ rows'[k] = rows[k]
        BY <1>1, <2>5, <2>6, <3>1 DEF SmartRows
      <4> QED  BY <4>1 DEF RowTrue
    <3> QED  BY <2>4, <3>1
  <2>7. stPc = "smart"
    BY <1>1, <2>2 DEF SmartRows
  <2> QED  BY <2>2, <2>3, <2>6, <2>7 DEF SmartRows
<1>4. CASE JoinSmart
  BY <1>1, <1>4 DEF SmartRows, RowTrue, JoinSmart
<1>5. CASE CallOp \/ StReturn \/ StDeadline \/ UNCHANGED stVars
  <2>1. UNCHANGED <<worker, rows>> /\ (stPc' = stPc \/ stPc = "ops")
    BY <1>5 DEF CallOp, StReturn, StDeadline, stVars
  <2> QED  BY <1>1, <2>1 DEF SmartRows, RowTrue
<1> QED  BY <1>2, <1>3, <1>4, <1>5 DEF StNext, StStep

\* Every step keeps the account of the calls after it.
LEMMA CallsBookedStep ==
    ASSUME StInv, [StNext]_stVars
    PROVE  CallsBooked'
<1>1. CallsBooked /\ Len(Ops) \in Nat
  BY StorageAssumption DEF StInv
<1>2. CASE CallOp
  <2>1. PICK n \in Nat : n = nextOp /\ n \in 1 .. Len(Ops)
    BY <1>1, <1>2 DEF CallOp, CallsBooked
  <2>2. nextOp' = n + 1 /\ stPc' = stPc /\ stPc = "ops"
    BY <1>2, <2>1 DEF CallOp
  <2>3. \/ answered' = answered \cup {n} /\ opErrors' = opErrors
        \/ answered' = answered /\ opErrors' = opErrors \cup {n}
    BY <1>2, <2>1 DEF CallOp, addOpError
  <2>4. n \notin answered \cup opErrors /\ 1 .. n = (1 .. n - 1) \cup {n}
    BY <1>1, <2>1 DEF CallsBooked
  <2>5. answered' \cup opErrors' = 1 .. n /\ answered' \cap opErrors' = {}
    BY <1>1, <2>1, <2>3, <2>4 DEF CallsBooked
  <2>6. nextOp' \in 1 .. Len(Ops) + 1 /\ nextOp' - 1 = n
    BY <1>1, <2>1, <2>2
  <2> QED  BY <2>2, <2>5, <2>6 DEF CallsBooked
<1>3. CASE StReturn
  BY <1>1, <1>3 DEF StReturn, CallsBooked
<1>4. ASSUME LaunchSmart \/ JoinSmart \/ StDeadline \/ UNCHANGED stVars \/ \E i \in DeviceIndex : SmartReturns(i)
      PROVE  CallsBooked'
  <2>1. UNCHANGED <<nextOp, answered, opErrors>> /\ (stPc' = stPc \/ stPc' = "ops")
    BY <1>4 DEF LaunchSmart, JoinSmart, StDeadline, SmartReturns, stVars
  <2> QED  BY <1>1, <2>1 DEF CallsBooked
<1> QED  BY <1>2, <1>3, <1>4 DEF StNext, StStep

\* However the calls end and whenever the deadline falls, an answer of the storage
\* tool has every device with figures or an error, and every other call once.
THEOREM StorageComplete == StSpec => []NothingMissing
<1>1. StInit => StInv
  <2> SUFFICES ASSUME StInit PROVE StInv
    OBVIOUS
  <2>1. SmartRows
    BY DEF StInit, SmartRows
  <2>2. CallsBooked
    BY StorageAssumption DEF StInit, CallsBooked
  <2> QED  BY <2>1, <2>2 DEF StInv
<1>2. StInv /\ [StNext]_stVars => StInv'
  BY SmartRowsStep, CallsBookedStep DEF StInv
<1>3. StInv => NothingMissing
  <2> SUFFICES ASSUME StInv, stPc = "done" PROVE NothingMissing
    BY DEF NothingMissing
  <2>1. \A i \in DeviceIndex : RowTrue(i)
    BY DEF StInv, SmartRows
  <2>2. DOMAIN Ops = answered \cup opErrors /\ answered \cap opErrors = {}
    BY StorageAssumption DEF StInv, CallsBooked
  <2> QED  BY <2>1, <2>2 DEF NothingMissing, RowTrue
<1> QED  BY <1>1, <1>2, <1>3, PTL DEF StSpec

-----------------------------------------------------------------------------
(* Deployment.                                                              *)

\* Capabilities that were made from a manifest are those the plan gives it.
Planned(c) == c.from = None \/ c.caps = For(c.from)

\* A daemon that runs exposes what the manifest it started from says.
Started(d) == d.up => d.from.form = "ok" /\ d.exposed = Exposed(d.from)

\* What ran in vain is what was logged, but for nft_table_counts.
Logged == helper.warned \subseteq helper.lost /\ helper.lost \ helper.warned \subseteq {"nft_table_counts"}

HelperFields == {"up", "caps", "from", "read", "warned", "lost"}
DepInv == /\ Planned(capsConf) /\ Planned(helper) /\ Started(daemon)
          /\ DOMAIN helper = HelperFields /\ helper.read \in BOOLEAN
          /\ helper.read => Logged

\* Which operations the exposed tools call.
LEMMA OpsCalled ==
    ASSUME NEW d
    PROVE  /\ "smart_summary" \in OpsOf(d) <=> "storage" \in d.exposed
           /\ "zpool_status" \in OpsOf(d) <=> "storage" \in d.exposed
           /\ "btrfs_scrub" \in OpsOf(d) => "storage" \in d.exposed
           /\ "read_audit_status" \in OpsOf(d) <=> "security" \in d.exposed
           /\ "wireguard_show" \in OpsOf(d) <=> "workload" \in d.exposed /\ "wireguard" \in d.from.plugins
           /\ "firewall_inspect" \in OpsOf(d) <=> "firewall" \in d.exposed
           /\ "firewall_lookup" \in OpsOf(d) <=> "firewall_lookup" \in d.exposed
           /\ OpsOf(d) \subseteq {"smart_summary", "zpool_status", "btrfs_scrub", "read_audit_status",
                                  "wireguard_show", "firewall_inspect", "firewall_lookup", "nft_table_counts"}
BY DEF OpsOf

\* The helper's table says what an operation needs, where it has a row.
LEMMA TableTrue ==
    ASSUME NEW d, NEW op \in OpsOf(d), op # "nft_table_counts"
    PROVE  op \in DOMAIN RequiredCap /\ RequiredCap[op] = Needs(op)
<1>1. op \in {"smart_summary", "zpool_status", "btrfs_scrub", "read_audit_status",
              "wireguard_show", "firewall_inspect", "firewall_lookup"}
  BY OpsCalled
<1> QED  BY <1>1 DEF RequiredCap, Needs

\* A call that runs in vain is logged, and no other is.
LEMMA DispatchLogs ==
    ASSUME DepInv, NEW op \in OpsOf(daemon), dispatchOp(op)
    PROVE  DepInv'
<1> DEFINE W == op \in DOMAIN RequiredCap /\ ~Has(RequiredCap[op])
           L == Needs(op) \notin helper.caps
<1>1. /\ helper' = [helper EXCEPT !.warned = IF W THEN @ \cup {op} ELSE @, !.lost = IF L THEN @ \cup {op} ELSE @]
      /\ UNCHANGED <<capsConf, daemon>>
  BY DEF dispatchOp
<1>2. /\ DOMAIN helper' = HelperFields /\ helper'.read = helper.read
      /\ helper'.from = helper.from /\ helper'.caps = helper.caps
      /\ helper'.warned = IF W THEN helper.warned \cup {op} ELSE helper.warned
      /\ helper'.lost = IF L THEN helper.lost \cup {op} ELSE helper.lost
  <2> HIDE DEF W, L
  <2> QED  BY <1>1 DEF DepInv, HelperFields
<1>3. ASSUME helper.read
      PROVE  W => L
  <2>1. op = "nft_table_counts" => op \notin DOMAIN RequiredCap
    BY DEF RequiredCap
  <2> QED  BY <1>3, <2>1, TableTrue DEF Has
<1>4. ASSUME helper.read, op # "nft_table_counts"
      PROVE  L => W
  BY <1>4, TableTrue DEF Has
<1>5. helper'.read => Logged'
  <2> HIDE DEF W, L
  <2> QED  BY <1>2, <1>3, <1>4 DEF DepInv, Logged
<1>6. Planned(capsConf)' /\ Planned(helper)' /\ Started(daemon)'
  <2> HIDE DEF For, Exposed, None
  <2> QED  BY <1>1, <1>2 DEF DepInv, Planned, Started
<1> QED  BY <1>2, <1>5, <1>6 DEF DepInv

\* A helper that starts has the drop-in's capabilities and an empty log.
LEMMA HelperStarts ==
    ASSUME DepInv, RestartHelper
    PROVE  DepInv'
<1>1. UNCHANGED <<capsConf, daemon>>
  BY DEF RestartHelper
<1>2. PICK r \in BOOLEAN :
         \/ helper' = [up |-> TRUE, caps |-> capsConf.caps, from |-> capsConf.from,
                       read |-> r, warned |-> {}, lost |-> {}]
         \/ helper' = HelperDown
  BY DEF RestartHelper
<1>3. /\ DOMAIN helper' = HelperFields /\ helper'.read \in BOOLEAN /\ helper'.warned = {} /\ helper'.lost = {}
      /\ helper'.from = None \/ (helper'.from = capsConf.from /\ helper'.caps = capsConf.caps)
  <2> HIDE DEF None
  <2>1. CASE helper' = [up |-> TRUE, caps |-> capsConf.caps, from |-> capsConf.from,
                        read |-> r, warned |-> {}, lost |-> {}]
    <3>1. helper'.read = r
      BY <2>1
    <3>2. /\ DOMAIN helper' = HelperFields /\ helper'.warned = {} /\ helper'.lost = {}
          /\ helper'.from = capsConf.from /\ helper'.caps = capsConf.caps
      BY <2>1 DEF HelperFields
    <3> QED  BY <3>1, <3>2
  <2>2. CASE helper' = HelperDown
    <3>1. helper'.read = FALSE
      BY <2>2 DEF HelperDown
    <3>2. DOMAIN helper' = HelperFields /\ helper'.warned = {} /\ helper'.lost = {} /\ helper'.from = None
      BY <2>2 DEF HelperDown, HelperFields
    <3> QED  BY <3>1, <3>2
  <2> QED  BY <1>2, <2>1, <2>2
<1>4. Planned(helper)' /\ Planned(capsConf)' /\ Started(daemon)'
  <2> HIDE DEF For, None, Exposed
  <2> QED  BY <1>1, <1>3 DEF DepInv, Planned, Started
<1> QED  BY <1>3, <1>4 DEF DepInv, Logged

\* Every edit, generation, restart and call keeps the invariant.
LEMMA DepStep ==
    ASSUME DepInv, [DepNext]_depVars
    PROVE  DepInv'
<1>1. CASE Generate
  <2>1. UNCHANGED <<helper, daemon>>
    BY <1>1 DEF Generate
  <2>2. capsConf' = capsConf \/ capsConf' = [caps |-> For(man), from |-> man]
    BY <1>1 DEF Generate
  <2>3. Planned(capsConf)'
    <3> HIDE DEF For, None
    <3> QED  BY <2>2 DEF DepInv, Planned
  <2> QED  BY <2>1, <2>3 DEF DepInv, Planned, Started, Logged
<1>2. CASE RestartDaemon
  <2> DEFINE m == ManifestAtPath
  <2>1. daemon' = Down \/ (m.form = "ok" /\ daemon'.from = m /\ daemon'.exposed = Exposed(m))
    <3> HIDE DEF m
    <3>1. ManifestAtPath = m
      BY DEF m
    <3> QED  BY <1>2, <3>1 DEF RestartDaemon, StartsOk
  <2>2. Started(daemon)'
    <3> HIDE DEF Exposed, m
    <3>1. ~Down.up
      BY DEF Down
    <3> QED  BY <2>1, <3>1 DEF Started
  <2>3. UNCHANGED <<capsConf, helper>>
    BY <1>2 DEF RestartDaemon
  <2> QED  BY <2>2, <2>3 DEF DepInv, Planned, Logged
<1>3. CASE EditManifest \/ EditDaemonYml \/ UNCHANGED depVars
  <2>1. UNCHANGED <<capsConf, helper, daemon>>
    BY <1>3 DEF EditManifest, EditDaemonYml, depVars
  <2> QED  BY <2>1 DEF DepInv, Planned, Started, Logged
<1> QED  BY <1>1, <1>2, <1>3, HelperStarts, DispatchLogs DEF DepNext

\* The plan and the calls of a daemon whose manifest names its tools: what is
\* granted is needed, and what is needed is granted but for two kinds of calls.
LEMMA PlanFits ==
    ASSUME NEW d, d.exposed = Exposed(d.from), d.from.tools # {}
    PROVE  /\ For(d.from) \ {"CAP_CHOWN", "CAP_DAC_READ_SEARCH"} \subseteq {Needs(op) : op \in OpsOf(d)}
           /\ \A op \in OpsOf(d) : Needs(op) \in For(d.from) \/ op \in Undeclared(d.from) \/ op = "nft_table_counts"
<1> DEFINE m == d.from
           Wanted == {Needs(op) : op \in OpsOf(d)}
           Spare == {"CAP_CHOWN", "CAP_DAC_READ_SEARCH"}
           Caps == {"CAP_SYS_ADMIN", "CAP_SYS_RAWIO", "CAP_AUDIT_CONTROL", "CAP_NET_ADMIN"}
<1>1. d.exposed = m.tools \cup {"manifest"}
  BY DEF Exposed
<1>2. /\ For(m) \subseteq Caps \cup Spare
      /\ "CAP_SYS_ADMIN" \in For(m) <=> "storage" \in m.tools /\ {"zfs", "btrfs"} \cap Backends(m) # {}
      /\ "CAP_SYS_RAWIO" \in For(m) <=> "storage" \in m.tools /\ "smart" \in Backends(m)
      /\ "CAP_AUDIT_CONTROL" \in For(m) <=> "security" \in m.tools
      /\ "CAP_NET_ADMIN" \in For(m) <=> \/ "workload" \in m.tools /\ "wireguard" \in m.plugins
                                        \/ {"firewall", "firewall_lookup"} \cap m.tools # {}
  <2> HIDE DEF Backends
  <2> QED  BY DEF For
<1>3. /\ Needs("zpool_status") = "CAP_SYS_ADMIN" /\ Needs("btrfs_scrub") = "CAP_SYS_ADMIN"
      /\ Needs("smart_summary") = "CAP_SYS_RAWIO" /\ Needs("read_audit_status") = "CAP_AUDIT_CONTROL"
      /\ Needs("wireguard_show") = "CAP_NET_ADMIN" /\ Needs("firewall_inspect") = "CAP_NET_ADMIN"
      /\ Needs("firewall_lookup") = "CAP_NET_ADMIN"
  BY DEF Needs
<1>4. /\ "smart_summary" \in Undeclared(m) <=> "smart" \notin Backends(m)
      /\ "zpool_status" \in Undeclared(m) <=> "zfs" \notin Backends(m)
      /\ "btrfs_scrub" \in Undeclared(m) <=> "btrfs" \notin Backends(m)
  <2> HIDE DEF Backends
  <2> QED  BY DEF Undeclared
<1>5. /\ "CAP_SYS_ADMIN" \in For(m) => "CAP_SYS_ADMIN" \in Wanted
      /\ "CAP_SYS_RAWIO" \in For(m) => "CAP_SYS_RAWIO" \in Wanted
      /\ "CAP_AUDIT_CONTROL" \in For(m) => "CAP_AUDIT_CONTROL" \in Wanted
  BY <1>1, <1>2, <1>3, OpsCalled
<1>6. "CAP_NET_ADMIN" \in For(m) => "CAP_NET_ADMIN" \in Wanted
  BY <1>1, <1>2, <1>3, OpsCalled
<1>7. For(m) \ Spare \subseteq Wanted
  <2> HIDE DEF Wanted
  <2> QED  BY <1>2, <1>5, <1>6
<1>8. ASSUME NEW op \in OpsOf(d)
      PROVE  Needs(op) \in For(m) \/ op \in Undeclared(m) \/ op = "nft_table_counts"
  <2>1. CASE op \in {"smart_summary", "zpool_status", "btrfs_scrub"}
    <3>1. "storage" \in m.tools
      BY <1>1, <1>8, <2>1, OpsCalled
    <3> HIDE DEF m
    <3> QED  BY <1>2, <1>3, <1>4, <2>1, <3>1
  <2>2. CASE op \in {"read_audit_status", "wireguard_show", "firewall_inspect", "firewall_lookup"}
    BY <1>1, <1>2, <1>3, <1>8, <2>2, OpsCalled
  <2> QED  BY <2>1, <2>2, OpsCalled
<1> QED  BY <1>7, <1>8

\* In whatever order files are edited, generated from and services restarted, what
\* the helper runs in vain is in its log, and a helper and a daemon that run from
\* one manifest fit each other but for the calls that CapsFitCalls names.
THEOREM CapsFit == DepSpec => []CapsFitCalls
<1>1. DepInit => DepInv
  <2> SUFFICES ASSUME DepInit PROVE DepInv
    OBVIOUS
  <2> HIDE DEF None
  <2> QED  BY DEF DepInit, DepInv, Planned, Started, Down, Shipped, HelperDown, HelperFields, Logged
<1>2. DepInv /\ [DepNext]_depVars => DepInv'
  BY DepStep
<1>3. DepInv => CapsFitCalls
  <2> SUFFICES ASSUME DepInv PROVE CapsFitCalls
    OBVIOUS
  <2>1. ASSUME daemon.up, helper.from = daemon.from, daemon.from.tools # {}
        PROVE  /\ helper.caps \ {"CAP_CHOWN", "CAP_DAC_READ_SEARCH"} \subseteq {Needs(op) : op \in OpsOf(daemon)}
               /\ \A op \in OpsOf(daemon) :
                     Needs(op) \in helper.caps \/ op \in Undeclared(daemon.from) \/ op = "nft_table_counts"
    <3>1. daemon.from.form = "ok" /\ daemon.exposed = Exposed(daemon.from)
      BY <2>1 DEF DepInv, Started
    <3>2. helper.from # None
      BY <2>1, <3>1 DEF None
    <3>3. helper.caps = For(daemon.from)
      BY <2>1, <3>2 DEF DepInv, Planned
    <3> QED  BY <2>1, <3>1, <3>3, PlanFits
  <2>2. helper.read => helper.warned \subseteq helper.lost /\ helper.lost \ helper.warned \subseteq {"nft_table_counts"}
    BY DEF DepInv, Logged
  <2> HIDE DEF DepInv
  <2> QED  BY <2>1, <2>2 DEF CapsFitCalls
<1> QED  BY <1>1, <1>2, <1>3, PTL DEF DepSpec
-----------------------------------------------------------------------------
(* FirewallInspect.                                                         *)

FwRow == [count : Nat, shown : Nat, truncated : BOOLEAN]
Cap == MaxSetElements(fwReq.max)
Bans == Range(fwReq.bans)
Pending == {fwTodo[i] : i \in 1 .. Len(fwTodo)}

FwShape ==
    /\ fwReq \in Requests
    /\ fwLive \in [Keys -> Nat \cup {Gone}]
    /\ fwSets \in [DOMAIN fwSets -> FwRow] /\ DOMAIN fwSets \subseteq Keys
    /\ fwTodo \in Seq(Keys) /\ fwLeft \in Nat
    /\ fwPc \in {"request", "list"} => DOMAIN fwSets = {} /\ fwTodo = <<>> /\ fwLeft = ElemBudget
    /\ fwPc = "done" => fwTodo = <<>>

\* What is still to be listed: sets of the answer, each once, ban sets first.
QueueOK ==
    /\ fwTodo # <<>> => fwReq.include
    /\ \A i, j \in 1 .. Len(fwTodo) : fwTodo[i] = fwTodo[j] => i = j
    /\ \A i \in 1 .. Len(fwTodo) : fwTodo[i] \in DOMAIN fwSets
    /\ \A i, j \in 1 .. Len(fwTodo) : i < j /\ fwTodo[j] \in Bans => fwTodo[i] \in Bans

\* A set shows nothing before its turn, nor when nothing was asked for; after it
\* the set shows what it counts, says that it does not, or is in a warning.
SetOK(k) ==
    /\ keep(fwReq.filter, k)
    /\ fwSets[k].shown <= Cap
    /\ k \in Pending \/ ~fwReq.include => fwSets[k].shown = 0
    /\ fwReq.include /\ k \notin Pending /\ fwSets[k].shown < fwSets[k].count
          => fwSets[k].truncated \/ k \in fwRes.warned

\* A ban set that had its turn shows all it may, unless it failed or the budget
\* is gone; a set that is no ban set shows elements only after all of them.
BanServed(b) == b \in fwRes.warned \/ fwSets[b].shown = renderElements(fwSets[b].count, Cap)
BansOK ==
    /\ \A b \in DOMAIN fwSets \cap Bans :
          fwReq.include /\ b \notin Pending => BanServed(b) \/ fwLeft = 0
    /\ (\E k \in DOMAIN fwSets \ Bans : fwSets[k].shown > 0)
          => \A b \in DOMAIN fwSets \cap Bans : b \notin Pending /\ BanServed(b)

\* What is shown has been paid for.
BudgetOK == IsFiniteSet(ShownElems) /\ Cardinality(ShownElems) + fwLeft = ElemBudget

FwInv == FwShape /\ QueueOK /\ (\A k \in DOMAIN fwSets : SetOK(k)) /\ BansOK /\ BudgetOK

\* The cap is a number of elements, and never more than the hard cap.
LEMMA CapRange ==
    ASSUME FwShape
    PROVE  Cap \in 1 .. HardElemCap /\ HardElemCap \in Nat /\ ElemBudget \in Nat
<1>1. HardElemCap \in Nat \ {0} /\ ElemDefault \in Nat \ {0} /\ ElemDefault <= HardElemCap /\ ElemBudget \in Nat
  BY FirewallAssumption
<1>2. fwReq.max \in Int
  BY FirewallAssumption DEF FwShape, Requests
<1> QED  BY <1>1, <1>2 DEF Cap, MaxSetElements

\* A table's entries taken in order, of which no two are the same.
LEMMA MappedLists ==
    ASSUME NEW S \in SUBSET Nat, IsFiniteSet(S), NEW f,
           \A x, y \in S : f[x] = f[y] => x = y
    PROVE  Enumerates([i \in DOMAIN Ascending(S) |-> f[Ascending(S)[i]]], {f[x] : x \in S})
<1> DEFINE a == Ascending(S)
           T == {f[x] : x \in S}
           s == [i \in DOMAIN a |-> f[a[i]]]
<1>1. Enumerates(a, S)
  BY AscendingLists
<1> HIDE DEF a
<1>2. a \in Seq(S) /\ Len(a) \in Nat /\ DOMAIN a = 1 .. Len(a)
  BY <1>1 DEF Enumerates
<1>3. \A i \in 1 .. Len(a) : a[i] \in S
  BY <1>2
<1>4. s \in Seq(T) /\ Len(s) = Len(a)
  BY <1>2, <1>3
<1>5. \A i \in 1 .. Len(a) : s[i] = f[a[i]]
  BY <1>2
<1> HIDE DEF s
<1>6. ASSUME NEW i \in 1 .. Len(s), NEW j \in 1 .. Len(s), s[i] = s[j]
      PROVE  i = j
  <2>1. i \in 1 .. Len(a) /\ j \in 1 .. Len(a)
    BY <1>4
  <2>2. f[a[i]] = f[a[j]] /\ a[i] \in S /\ a[j] \in S
    BY <1>3, <1>5, <1>6, <2>1
  <2>3. a[i] = a[j]
    BY <2>2
  <2> QED  BY <1>1, <2>1, <2>3 DEF Enumerates
<1>7. \A y \in T : \E i \in 1 .. Len(s) : s[i] = y
  BY <1>1, <1>4, <1>5 DEF Enumerates
<1> HIDE DEF T
<1>8. Enumerates(s, T)
  BY <1>4, <1>6, <1>7 DEF Enumerates
<1> QED  BY <1>8 DEF s, a, T

\* The order of the sets: all of them, each once, ban sets first.
LEMMA OrderLists ==
    ASSUME NEW sets \in SUBSET Keys, NEW bans \in Seq(Keys)
    PROVE  LET list == orderSetKeys(sets, bans) IN
           /\ Enumerates(list, sets)
           /\ \A i, j \in 1 .. Len(list) : i < j /\ list[j] \in Range(bans) => list[i] \in Range(bans)
<1> DEFINE F == {i \in DOMAIN bans : bans[i] \in sets /\ \A j \in 1..(i - 1) : bans[j] # bans[i]}
           G == {i \in DOMAIN SetKeys : SetKeys[i] \in sets \ Range(bans)}
           A == {bans[x] : x \in F}
           B == {SetKeys[x] : x \in G}
           a == [i \in DOMAIN Ascending(F) |-> bans[Ascending(F)[i]]]
           b == [i \in DOMAIN Ascending(G) |-> SetKeys[Ascending(G)[i]]]
<1>1. DOMAIN bans = 1 .. Len(bans) /\ Len(bans) \in Nat
  OBVIOUS
<1>2. SetKeys \in Seq(Keys) /\ IsInjective(SetKeys)
  BY FirewallAssumption
<1>3. DOMAIN SetKeys = 1 .. Len(SetKeys) /\ Len(SetKeys) \in Nat
  BY <1>2
<1>4. F \in SUBSET Nat /\ G \in SUBSET Nat /\ IsFiniteSet(F) /\ IsFiniteSet(G)
  <2>1. F \subseteq 1 .. Len(bans) /\ G \subseteq 1 .. Len(SetKeys)
    BY <1>1, <1>3
  <2>2. IsFiniteSet(1 .. Len(bans)) /\ IsFiniteSet(1 .. Len(SetKeys))
    BY <1>1, <1>3, FS_Interval
  <2>3. IsFiniteSet(F) /\ IsFiniteSet(G)
    BY <2>1, <2>2, FS_Subset
  <2> QED  BY <1>1, <1>3, <2>1, <2>3
<1>5. Enumerates(a, A)
  <2>1. \A x, y \in F : bans[x] = bans[y] => x = y
    BY <1>1
  <2> HIDE DEF F
  <2> QED  BY <1>4, <2>1, MappedLists
<1>6. Enumerates(b, B)
  <2>1. \A x, y \in G : SetKeys[x] = SetKeys[y] => x = y
    BY <1>2 DEF IsInjective
  <2> HIDE DEF G
  <2> QED  BY <1>4, <2>1, MappedLists
<1>7. A = sets \cap Range(bans)
  <2>1. A \subseteq sets \cap Range(bans)
    BY DEF Range
  <2>2. ASSUME NEW k \in sets \cap Range(bans)
        PROVE  k \in A
    <3> DEFINE S == {i \in DOMAIN bans : bans[i] = k}
    <3>1. S \in SUBSET Nat /\ S # {}
      BY <1>1 DEF Range
    <3>2. PICK x \in S : \A y \in S : x <= y
      BY <3>1, FirstIndex
    <3>3. x \in F
      BY <1>1, <3>2
    <3> QED  BY <3>2, <3>3
  <2> QED  BY <2>1, <2>2
<1>8. B = sets \ Range(bans)
  <2>1. \A k \in Keys : \E i \in DOMAIN SetKeys : SetKeys[i] = k
    BY DEF Keys, Range
  <2> QED  BY <2>1
<1>9. orderSetKeys(sets, bans) = a \o b
  BY DEF orderSetKeys
<1> HIDE DEF a, b, A, B
<1>10. /\ Enumerates(a \o b, A \cup B)
       /\ \A i \in 1 .. Len(a \o b) : (a \o b)[i] \in A <=> i <= Len(a)
  <2>1. A \cap B = {}
    BY <1>7, <1>8
  <2> QED  BY <1>5, <1>6, <2>1, JoinLists
<1> DEFINE list == a \o b
<1>11. A \cup B = sets
  BY <1>7, <1>8
<1>12. Enumerates(list, sets)
  BY <1>10, <1>11
<1>13. Len(a) \in Nat /\ Len(list) \in Nat /\ \A i \in 1 .. Len(list) : list[i] \in sets
  BY <1>5, <1>12 DEF Enumerates
<1>14. \A i \in 1 .. Len(list) : list[i] \in Range(bans) <=> i <= Len(a)
  BY <1>7, <1>10, <1>13
<1> HIDE DEF list
<1>15. \A i, j \in 1 .. Len(list) : i < j /\ list[j] \in Range(bans) => list[i] \in Range(bans)
  BY <1>13, <1>14
<1> QED  BY <1>9, <1>12, <1>15 DEF list

\* The set at hand leaves the queue, which stays in order.
LEMMA TurnTaken ==
    ASSUME FwShape, QueueOK, fwTodo # <<>>, fwTodo' = Tail(fwTodo), fwReq' = fwReq,
           DOMAIN fwSets' = DOMAIN fwSets
    PROVE  /\ Head(fwTodo) \in Pending /\ Head(fwTodo) \in DOMAIN fwSets /\ Head(fwTodo) \in Keys
           /\ Pending' = Pending \ {Head(fwTodo)}
           /\ fwTodo' \in Seq(Keys) /\ QueueOK'
           /\ Head(fwTodo) \notin Bans => \A b \in Bans : b \notin Pending
<1> DEFINE n == Len(fwTodo)
           k == Head(fwTodo)
<1>1. /\ fwTodo \in Seq(Keys) /\ n \in Nat /\ n > 0 /\ k = fwTodo[1] /\ k \in Keys
      /\ Len(fwTodo') = n - 1 /\ fwTodo' \in Seq(Keys)
      /\ \A i \in 1 .. n - 1 : fwTodo'[i] = fwTodo[i + 1]
  BY HeadTailProperties, EmptySeq DEF FwShape
<1> HIDE DEF n, k
<1>2. Pending = {fwTodo[i] : i \in 1 .. n} /\ Pending' = {fwTodo'[i] : i \in 1 .. n - 1} /\ Bans' = Bans
  BY <1>1 DEF Pending, Bans, n
<1>3. /\ \A i, j \in 1 .. n : fwTodo[i] = fwTodo[j] => i = j
      /\ \A i \in 1 .. n : fwTodo[i] \in DOMAIN fwSets
      /\ \A i, j \in 1 .. n : i < j /\ fwTodo[j] \in Bans => fwTodo[i] \in Bans
  BY DEF QueueOK, n
<1>4. \A i \in 1 .. n - 1 : i + 1 \in 1 .. n /\ i + 1 # 1
  BY <1>1
<1>5. 1 \in 1 .. n
  BY <1>1
<1>6. Pending' = Pending \ {k}
  <2>1. ASSUME NEW x \in Pending'
        PROVE  x \in Pending \ {k}
    <3>1. PICK i \in 1 .. n - 1 : x = fwTodo[i + 1]
      BY <1>1, <1>2
    <3> QED  BY <1>1, <1>2, <1>3, <1>4, <1>5, <3>1
  <2>2. ASSUME NEW x \in Pending \ {k}
        PROVE  x \in Pending'
    <3>1. PICK i \in 1 .. n : x = fwTodo[i] /\ i # 1
      BY <1>1, <1>2
    <3>2. i - 1 \in 1 .. n - 1 /\ (i - 1) + 1 = i
      BY <1>1, <3>1
    <3>3. fwTodo'[i - 1] = x
      BY <1>1, <3>1, <3>2
    <3> QED  BY <1>2, <3>2, <3>3
  <2> QED  BY <2>1, <2>2
<1>7. \A i, j \in 1 .. n - 1 : fwTodo'[i] = fwTodo'[j] => i = j
  <2> SUFFICES ASSUME NEW i \in 1 .. n - 1, NEW j \in 1 .. n - 1, fwTodo'[i] = fwTodo'[j]
               PROVE  i = j
    OBVIOUS
  <2>1. i + 1 = j + 1
    BY <1>1, <1>3, <1>4
  <2> QED  BY <1>1, <2>1
<1>8. \A i \in 1 .. n - 1 : fwTodo'[i] \in DOMAIN fwSets'
  BY <1>1, <1>3, <1>4
<1>9. \A i, j \in 1 .. n - 1 : i < j /\ fwTodo'[j] \in Bans' => fwTodo'[i] \in Bans'
  <2> SUFFICES ASSUME NEW i \in 1 .. n - 1, NEW j \in 1 .. n - 1, i < j, fwTodo'[j] \in Bans
               PROVE  fwTodo'[i] \in Bans
    BY <1>2
  <2>1. i + 1 < j + 1
    BY <1>1
  <2> QED  BY <1>1, <1>3, <1>4, <2>1
<1>10. QueueOK'
  <2>1. fwReq'.include
    BY DEF QueueOK
  <2> QED  BY <1>1, <1>7, <1>8, <1>9, <2>1 DEF QueueOK
<1>11. k \notin Bans => \A b \in Bans : b \notin Pending
  <2> SUFFICES ASSUME NEW i \in 1 .. n, fwTodo[i] \in Bans
               PROVE  k \in Bans
    BY <1>2
  <2>1. i = 1 \/ 1 < i
    BY <1>1
  <2> QED  BY <1>1, <1>3, <1>5, <2>1
<1> QED  BY <1>1, <1>2, <1>3, <1>5, <1>6, <1>10, <1>11 DEF k

\* Nothing but the set at hand changes: the other sets, and what is said of the
\* ban sets among them, stay as they are.
LEMMA OthersKept ==
    ASSUME NEW k, k = Head(fwTodo), FwInv, fwReq' = fwReq, DOMAIN fwSets' = DOMAIN fwSets, fwTodo # <<>>, fwTodo' = Tail(fwTodo),
           \A j \in DOMAIN fwSets \ {k} : fwSets'[j] = fwSets[j],
           fwRes.warned \subseteq fwRes'.warned, fwLeft' \in Nat, fwLeft' <= fwLeft,
           SetOK(k)', fwSets'[k] \in FwRow,
           k \in Bans => BanServed(k)' \/ fwLeft' = 0,
           fwSets'[k].shown > 0 => fwLeft # 0,
           fwLive' = fwLive, fwPc' = "fetch", fwSets' \in [DOMAIN fwSets -> FwRow]
    PROVE  FwShape' /\ QueueOK' /\ (\A j \in DOMAIN fwSets' : SetOK(j)') /\ BansOK'
<1>1. /\ k \in Pending /\ k \in DOMAIN fwSets /\ Pending' = Pending \ {k}
      /\ fwTodo' \in Seq(Keys) /\ QueueOK' /\ (k \notin Bans => \A b \in Bans : b \notin Pending)
  BY TurnTaken DEF FwInv
<1>2. Bans' = Bans /\ Cap' = Cap
  BY DEF Bans, Cap
<1>3. FwShape'
  BY <1>1 DEF FwInv, FwShape
<1>4. ASSUME NEW j \in DOMAIN fwSets, j # k
      PROVE  SetOK(j)' /\ (BanServed(j) => BanServed(j)') /\ fwSets'[j] = fwSets[j]
  <2>1. fwSets'[j] = fwSets[j] /\ SetOK(j) /\ (j \in Pending' <=> j \in Pending)
    BY <1>1, <1>4 DEF FwInv
  <2>2. SetOK(j)'
    BY <1>2, <2>1 DEF SetOK
  <2>3. BanServed(j) => BanServed(j)'
    BY <1>2, <2>1 DEF BanServed
  <2> QED  BY <2>1, <2>2, <2>3
<1>5. \A j \in DOMAIN fwSets' : SetOK(j)'
  BY <1>4
<1>6. ASSUME NEW b \in DOMAIN fwSets \cap Bans, fwReq.include, b \notin Pending'
      PROVE  BanServed(b)' \/ fwLeft' = 0
  <2>1. CASE b = k
    BY <2>1
  <2>2. CASE b # k
    <3>1. b \notin Pending
      BY <1>1, <1>6, <2>2
    <3>2. BanServed(b) \/ fwLeft = 0
      BY <1>6, <3>1 DEF FwInv, BansOK
    <3>3. fwLeft \in Nat
      BY DEF FwInv, FwShape
    <3> QED  BY <1>4, <2>2, <3>2, <3>3
  <2> QED  BY <2>1, <2>2
<1>7. ASSUME NEW x \in DOMAIN fwSets \ Bans, fwSets'[x].shown > 0, NEW b \in DOMAIN fwSets \cap Bans
      PROVE  b \notin Pending' /\ BanServed(b)'
  <2>1. CASE x = k
    <3>1. b \notin Pending /\ b # k
      BY <1>1, <2>1
    <3>2. fwLeft # 0
      BY <1>7, <2>1
    <3>3. fwReq.include
      <4>1. SetOK(k)' /\ fwSets'[k].shown # 0 /\ fwReq' = fwReq
        BY <1>7, <2>1
      <4> QED  BY <4>1 DEF SetOK
    <3>4. BanServed(b)
      BY <3>1, <3>2, <3>3 DEF FwInv, BansOK
    <3> QED  BY <1>1, <1>4, <3>1, <3>4
  <2>2. CASE x # k
    <3>1. fwSets[x].shown > 0
      BY <1>4, <1>7, <2>2
    <3>2. b \notin Pending /\ BanServed(b)
      BY <3>1 DEF FwInv, BansOK
    <3>3. b # k
      BY <1>1, <3>2
    <3> QED  BY <1>1, <1>4, <3>2, <3>3
  <2> QED  BY <2>1, <2>2
<1>8. BansOK'
  BY <1>2, <1>6, <1>7 DEF BansOK
<1> QED  BY <1>1, <1>3, <1>5, <1>8

\* A set is passed over: it shows nothing, and the budget is as it was.
LEMMA PassedOver ==
    ASSUME NEW k, k = Head(fwTodo), FwInv, fwPc = "fetch", fwTodo # <<>>, fwTodo' = Tail(fwTodo),
           UNCHANGED <<fwReq, fwLive, fwPc, fwLeft>>,
           \/ /\ fwSets' = [fwSets EXCEPT ![k].truncated = TRUE] /\ fwRes' = fwRes /\ fwLeft = 0
           \/ /\ fwSets' = fwSets /\ fwRes'.warned = fwRes.warned \cup {k}
    PROVE  FwInv'
<1>1. /\ k \in Pending /\ k \in DOMAIN fwSets /\ fwSets \in [DOMAIN fwSets -> FwRow]
      /\ fwLeft \in Nat /\ SetOK(k)
  <2>1. k \in Pending /\ k \in DOMAIN fwSets
    BY HeadTailProperties, EmptySeq DEF FwInv, FwShape, QueueOK, Pending
  <2> QED  BY <2>1 DEF FwInv, FwShape
<1>2. /\ DOMAIN fwSets' = DOMAIN fwSets
      /\ \A j \in DOMAIN fwSets \ {k} : fwSets'[j] = fwSets[j]
      /\ fwSets' \in [DOMAIN fwSets -> FwRow]
      /\ fwSets'[k].shown = fwSets[k].shown /\ fwSets'[k].count = fwSets[k].count
      /\ fwSets'[k].truncated \/ k \in fwRes'.warned
      /\ fwRes.warned \subseteq fwRes'.warned
  <2>1. CASE fwSets' = [fwSets EXCEPT ![k].truncated = TRUE] /\ fwRes' = fwRes
    BY <1>1, <2>1 DEF FwRow
  <2>2. CASE fwSets' = fwSets /\ fwRes'.warned = fwRes.warned \cup {k}
    BY <1>1, <2>2 DEF FwRow
  <2> QED  BY <2>1, <2>2
<1>3. fwSets[k].shown = 0
  BY <1>1 DEF SetOK
<1>4. SetOK(k)'
  <2>1. keep(fwReq.filter, k)' /\ Cap' = Cap /\ fwSets[k].shown <= Cap
    BY <1>1 DEF SetOK, keep, Cap
  <2> QED  BY <1>2, <1>3, <2>1 DEF SetOK
<1>5. BanServed(k)' \/ fwLeft' = 0
  BY <1>2 DEF BanServed
<1>6. FwShape' /\ QueueOK' /\ (\A j \in DOMAIN fwSets' : SetOK(j)') /\ BansOK'
  <2>1. fwSets'[k] \in FwRow /\ ~(fwSets'[k].shown > 0) /\ fwLeft' \in Nat /\ fwLeft' <= fwLeft
    BY <1>1, <1>2, <1>3
  <2> QED  BY <1>2, <1>4, <1>5, <2>1, OthersKept
<1>7. ShownElems' = ShownElems
  <2>1. \A j \in DOMAIN fwSets : fwSets'[j].shown = fwSets[j].shown
    BY <1>2
  <2> QED  BY <1>2, <2>1 DEF ShownElems
<1>8. BudgetOK'
  BY <1>7 DEF FwInv, BudgetOK
<1> QED  BY <1>6, <1>8 DEF FwInv

\* A set whose turn it is shows what the cap and the budget leave it, and pays.
LEMMA ListSetStep ==
    ASSUME FwInv, ListSet
    PROVE  FwInv'
<1> DEFINE s == renderElements(fwLive[Head(fwTodo)], capNow)
<1>1. PICK k : k = Head(fwTodo)
  OBVIOUS
<1>2. /\ fwPc = "fetch" /\ fwTodo # <<>> /\ fwTodo' = Tail(fwTodo) /\ capNow > 0 /\ fwLive[k] # Gone
      /\ fwSets' = [fwSets EXCEPT ![k] = [count |-> fwLive[k], shown |-> s, truncated |-> fwLive[k] > s]]
      /\ fwLeft' = fwLeft - s /\ UNCHANGED <<fwReq, fwLive, fwPc, fwRes>>
  BY <1>1 DEF ListSet
<1>3. /\ k \in Pending /\ k \in DOMAIN fwSets /\ k \in Keys /\ Pending' = Pending \ {k}
      /\ fwSets \in [DOMAIN fwSets -> FwRow] /\ fwLeft \in Nat /\ SetOK(k) /\ fwReq.include
  <2>1. k \in Pending /\ k \in DOMAIN fwSets /\ k \in Keys
    BY <1>1, <1>2, HeadTailProperties, EmptySeq DEF FwInv, FwShape, QueueOK, Pending
  <2>2. DOMAIN fwSets' = DOMAIN fwSets
    BY <1>2
  <2>3. Pending' = Pending \ {k}
    BY <1>1, <1>2, <2>2, TurnTaken DEF FwInv
  <2> QED  BY <1>2, <2>1, <2>3 DEF FwInv, FwShape, QueueOK
<1>4. Cap \in 1 .. HardElemCap /\ HardElemCap \in Nat /\ Cap' = Cap
  BY <1>2, CapRange DEF FwInv, Cap
<1>5. fwLive[k] \in Nat
  BY <1>2, <1>3 DEF FwInv, FwShape
<1>6. capNow \in Nat /\ capNow <= Cap /\ capNow <= fwLeft /\ (capNow = Cap \/ capNow = fwLeft)
  BY <1>3, <1>4 DEF capNow, Cap
<1>7. /\ s \in Nat /\ s <= Cap /\ s <= fwLeft /\ s <= fwLive[k]
      /\ s = renderElements(fwLive[k], Cap) \/ s = fwLeft
      /\ fwLeft # 0
  BY <1>1, <1>2, <1>3, <1>4, <1>5, <1>6 DEF renderElements
<1> HIDE DEF s
<1>8. (fwLive[k] > s) \in BOOLEAN
  OBVIOUS
<1>9. /\ DOMAIN fwSets' = DOMAIN fwSets
      /\ \A j \in DOMAIN fwSets \ {k} : fwSets'[j] = fwSets[j]
      /\ fwSets'[k].shown = s /\ fwSets'[k].count = fwLive[k]
  BY <1>2, <1>3
<1>10. fwSets'[k].truncated <=> fwLive[k] > s
  BY <1>2, <1>3
<1>11. fwSets' \in [DOMAIN fwSets -> FwRow] /\ fwSets'[k] \in FwRow
  <2>1. [count |-> fwLive[k], shown |-> s, truncated |-> fwLive[k] > s] \in FwRow
    BY <1>5, <1>7, <1>8 DEF FwRow
  <2> QED  BY <1>2, <1>3, <2>1
<1>12. SetOK(k)'
  <2>1. keep(fwReq.filter, k)'
    BY <1>2, <1>3 DEF SetOK, keep
  <2>2. s < fwLive[k] => fwSets'[k].truncated
    BY <1>5, <1>7, <1>10
  <2> QED  BY <1>2, <1>3, <1>4, <1>7, <1>9, <2>1, <2>2 DEF SetOK
<1>13. fwLeft' \in Nat /\ fwLeft' <= fwLeft /\ (BanServed(k)' \/ fwLeft' = 0)
  <2>1. fwLeft' \in Nat /\ fwLeft' <= fwLeft /\ (s = fwLeft => fwLeft' = 0)
    BY <1>2, <1>3, <1>7
  <2>2. s = renderElements(fwLive[k], Cap) => BanServed(k)'
    BY <1>4, <1>9 DEF BanServed, renderElements
  <2> QED  BY <1>7, <2>1, <2>2
<1>14. FwShape' /\ QueueOK' /\ (\A j \in DOMAIN fwSets' : SetOK(j)') /\ BansOK'
  BY <1>1, <1>2, <1>7, <1>9, <1>11, <1>12, <1>13, OthersKept
<1>15. BudgetOK'
  <2> DEFINE New == {k} \X (1 .. s)
  <2>1. fwSets[k].shown = 0 /\ \A j \in DOMAIN fwSets : fwSets[j].shown \in Nat
    BY <1>3 DEF SetOK, FwRow
  <2>2. ShownElems' = ShownElems \cup New
    <3>1. ShownElems' = {e \in (DOMAIN fwSets) \X (1 .. HardElemCap) : e[2] <= fwSets'[e[1]].shown}
      BY <1>9 DEF ShownElems
    <3>2. \A j \in DOMAIN fwSets, i \in 1 .. HardElemCap :
              i <= fwSets'[j].shown <=> i <= fwSets[j].shown \/ (j = k /\ i <= s)
      <4> SUFFICES ASSUME NEW j \in DOMAIN fwSets, NEW i \in 1 .. HardElemCap
                   PROVE  i <= fwSets'[j].shown <=> i <= fwSets[j].shown \/ (j = k /\ i <= s)
        OBVIOUS
      <4>1. CASE j = k
        BY <1>4, <1>9, <2>1, <4>1
      <4>2. CASE j # k
        BY <1>9, <4>2
      <4> QED  BY <4>1, <4>2
    <3>3. 1 .. s \subseteq 1 .. HardElemCap /\ \A i \in 1 .. HardElemCap : i \in 1 .. s <=> i <= s
      BY <1>4, <1>7
    <3>4. ASSUME NEW e \in (DOMAIN fwSets) \X (1 .. HardElemCap)
          PROVE  e \in ShownElems' <=> e \in ShownElems \/ e \in New
      BY <3>1, <3>2, <3>3 DEF ShownElems
    <3>5. New \subseteq (DOMAIN fwSets) \X (1 .. HardElemCap)
      BY <1>3, <3>3
    <3>6. /\ ShownElems \subseteq (DOMAIN fwSets) \X (1 .. HardElemCap)
          /\ ShownElems' \subseteq (DOMAIN fwSets) \X (1 .. HardElemCap)
      BY <3>1 DEF ShownElems
    <3> HIDE DEF New
    <3> QED  BY <3>4, <3>5, <3>6
  <2>3. ShownElems \cap New = {}
    <3> SUFFICES ASSUME NEW e \in ShownElems, e \in New
                 PROVE  FALSE
      OBVIOUS
    <3>1. e[1] = k /\ e[2] \in 1 .. HardElemCap /\ e[2] <= fwSets[e[1]].shown
      BY DEF ShownElems
    <3> QED  BY <1>4, <2>1, <3>1
  <2>4. IsFiniteSet(New) /\ Cardinality(New) = s
    <3>1. IsFiniteSet({k}) /\ Cardinality({k}) = 1
      BY FS_Singleton
    <3>2. IsFiniteSet(1 .. s) /\ Cardinality(1 .. s) = s
      BY <1>7, FS_Interval
    <3>3. IsFiniteSet(New) /\ Cardinality(New) = 1 * s
      BY <3>1, <3>2, FS_Product, ZenonT(60)
    <3> QED  BY <1>7, <3>3
  <2> HIDE DEF New
  <2>5. /\ IsFiniteSet(ShownElems) /\ Cardinality(ShownElems) \in Nat
        /\ Cardinality(ShownElems) + fwLeft = ElemBudget
    BY FS_CardinalityType DEF FwInv, BudgetOK
  <2>6. /\ IsFiniteSet(ShownElems \cup New)
        /\ Cardinality(ShownElems \cup New) = Cardinality(ShownElems) + s - 0
    BY <2>3, <2>4, <2>5, FS_Union, FS_EmptySet
  <2>7. IsFiniteSet(ShownElems') /\ Cardinality(ShownElems') + fwLeft' = ElemBudget
    BY <1>2, <1>3, <1>7, <2>2, <2>5, <2>6
  <2> QED  BY <2>7 DEF BudgetOK
<1> QED  BY <1>14, <1>15 DEF FwInv

\* The listing fixes the sets of the answer and the order they are served in.
LEMMA ListRulesetStep ==
    ASSUME FwInv, ListRuleset
    PROVE  FwInv'
<1> DEFINE kept == {k \in Keys : fwLive[k] # Gone /\ keep(fwReq.filter, k)}
           list == orderSetKeys(kept, fwReq.bans)
<1>1. /\ fwPc = "list" /\ fwPc' = "fetch" /\ UNCHANGED <<fwReq, fwLive, fwLeft>>
      /\ fwSets' = [k \in kept |-> [count |-> fwLive[k], shown |-> 0, truncated |-> FALSE]]
      /\ fwTodo' = IF fwReq.include THEN list ELSE <<>>
  BY DEF ListRuleset
<1>2. kept \subseteq Keys /\ fwReq.bans \in Seq(Keys) /\ fwReq.include \in BOOLEAN
  BY FirewallAssumption DEF FwInv, FwShape, Requests
<1>3. Bans' = Range(fwReq.bans) /\ Cap' = Cap /\ Cap \in 1 .. HardElemCap
  BY <1>1, CapRange DEF FwInv, Bans, Cap
<1>4. \A k \in kept : fwLive[k] \in Nat /\ keep(fwReq.filter, k)
  BY DEF FwInv, FwShape
<1>5. /\ Enumerates(list, kept)
      /\ \A i, j \in 1 .. Len(list) : i < j /\ list[j] \in Range(fwReq.bans) => list[i] \in Range(fwReq.bans)
  BY <1>2, OrderLists
<1>6. fwSets' \in [kept -> FwRow] /\ DOMAIN fwSets' = kept
      /\ \A k \in kept : fwSets'[k].shown = 0 /\ fwSets'[k].count = fwLive[k]
  BY <1>1, <1>4 DEF FwRow
<1> HIDE DEF kept, list
<1>7. fwTodo' \in Seq(Keys) /\ Enumerates(fwTodo', IF fwReq.include THEN kept ELSE {})
  <2>1. list \in Seq(Keys)
    BY <1>2, <1>5, SeqMonotonic DEF Enumerates
  <2>2. <<>> \in Seq(Keys) /\ Enumerates(<<>>, {})
    BY DEF Enumerates
  <2> QED  BY <1>1, <1>5, <2>1, <2>2
<1>8. Pending' = IF fwReq.include THEN kept ELSE {}
  <2>1. Pending' = {fwTodo'[i] : i \in 1 .. Len(fwTodo')}
    BY DEF Pending
  <2> QED  BY <1>7, <2>1 DEF Enumerates
<1>9. FwShape'
  BY <1>1, <1>2, <1>6, <1>7 DEF FwInv, FwShape
<1>10. QueueOK'
  <2>1. CASE fwReq.include
    <3>1. fwTodo' = list /\ fwReq'.include
      BY <1>1, <2>1
    <3>2. \A i \in 1 .. Len(list) : list[i] \in kept
      BY <1>5 DEF Enumerates
    <3> QED  BY <1>3, <1>5, <1>6, <3>1, <3>2 DEF QueueOK, Enumerates
  <2>2. CASE ~fwReq.include
    <3>1. fwTodo' = <<>> /\ Len(<<>>) = 0
      BY <1>1, <2>2
    <3> QED  BY <3>1 DEF QueueOK
  <2> QED  BY <2>1, <2>2
<1>11. ASSUME NEW k \in kept
       PROVE  SetOK(k)'
  <2>1. keep(fwReq.filter, k)' /\ (fwReq'.include => k \in Pending')
    BY <1>1, <1>4, <1>8 DEF keep
  <2>2. 0 <= Cap'
    BY <1>3
  <2> QED  BY <1>6, <2>1, <2>2 DEF SetOK
<1>12. BansOK'
  <2>1. \A k \in DOMAIN fwSets' : ~(fwSets'[k].shown > 0) /\ (fwReq'.include => k \in Pending')
    BY <1>1, <1>6, <1>8
  <2> QED  BY <2>1 DEF BansOK
<1>13. BudgetOK'
  <2>1. fwLeft' = ElemBudget /\ ElemBudget \in Nat
    BY <1>1, CapRange DEF FwInv, FwShape
  <2>2. ShownElems' = {}
    BY <1>3, <1>6 DEF ShownElems
  <2> QED  BY <2>1, <2>2, FS_EmptySet DEF BudgetOK
<1> QED  BY <1>6, <1>9, <1>10, <1>11, <1>12, <1>13 DEF FwInv

\* The other steps touch neither the sets nor the queue.
LEMMA FwOtherStep ==
    ASSUME FwInv, UNCHANGED <<fwReq, fwSets, fwTodo, fwLeft>>, fwRes.warned \subseteq fwRes'.warned \/ DOMAIN fwSets = {},
           fwLive' \in [Keys -> Nat \cup {Gone}], fwPc' \in {"request", "list"} => fwPc \in {"request", "list"},
           fwPc' = "done" => fwTodo = <<>>
    PROVE  FwInv'
<1>1. FwShape' /\ QueueOK' /\ BudgetOK' /\ Pending' = Pending /\ Cap' = Cap /\ Bans' = Bans
  BY DEF FwInv, FwShape, QueueOK, BudgetOK, ShownElems, Pending, Cap, Bans
<1>2. ASSUME NEW k \in DOMAIN fwSets
      PROVE  SetOK(k)' /\ (BanServed(k) => BanServed(k)')
  <2>1. SetOK(k)
    BY DEF FwInv
  <2>2. SetOK(k)'
    BY <1>1, <1>2, <2>1 DEF SetOK, keep
  <2>3. BanServed(k) => BanServed(k)'
    BY <1>1, <1>2 DEF BanServed
  <2> QED  BY <2>2, <2>3
<1>3. BansOK'
  BY <1>1, <1>2 DEF FwInv, BansOK
<1> QED  BY <1>1, <1>2, <1>3 DEF FwInv

\* Every step of the operation keeps the invariant.
LEMMA FwStep ==
    ASSUME FwInv, [FwNext]_fwVars
    PROVE  FwInv'
<1>1. FwShape /\ fwLive \in [Keys -> Nat \cup {Gone}]
  BY DEF FwInv, FwShape
<1>2. CASE SkipSet
  <2>1. Cap \in 1 .. HardElemCap /\ fwLeft \in Nat /\ HardElemCap \in Nat
    BY <1>1, CapRange DEF FwShape
  <2>2. fwLeft = 0
    BY <1>2, <2>1 DEF SkipSet, capNow, Cap
  <2>3. PICK k : k = Head(fwTodo)
    OBVIOUS
  <2> QED  BY <1>2, <2>2, <2>3, PassedOver DEF SkipSet
<1>3. CASE ListSetFails
  <2>1. PICK k : k = Head(fwTodo)
    OBVIOUS
  <2>2. fwRes'.warned = fwRes.warned \cup {k}
    BY <1>3, <2>1 DEF ListSetFails
  <2> QED  BY <1>3, <2>1, <2>2, PassedOver DEF ListSetFails
<1>4. CASE FwHandle \/ NftMissing \/ NftFails
  <2>1. fwPc \in {"request", "list"} /\ UNCHANGED <<fwReq, fwSets, fwTodo, fwLeft, fwLive>>
    BY <1>4 DEF FwHandle, NftMissing, NftFails
  <2> QED  BY <1>1, <2>1, FwOtherStep DEF FwShape
<1>5. CASE SetChanges
  <2>1. fwLive' \in [Keys -> Nat \cup {Gone}]
    BY <1>1, <1>5, FirewallAssumption DEF SetChanges
  <2> QED  BY <1>5, <2>1, FwOtherStep DEF SetChanges
<1>6. CASE FwReturn \/ UNCHANGED fwVars
  <2>1. /\ UNCHANGED <<fwReq, fwSets, fwTodo, fwLeft, fwLive, fwRes>>
        /\ fwPc' \in {"request", "list"} => fwPc \in {"request", "list"}
        /\ fwPc' = "done" => fwTodo = <<>>
    BY <1>1, <1>6 DEF FwReturn, fwVars, FwShape
  <2> QED  BY <1>1, <2>1, FwOtherStep
<1> QED  BY <1>2, <1>3, <1>4, <1>5, <1>6, ListSetStep, ListRulesetStep DEF FwNext

\* However the kernel's sets change while they are listed, what the answer shows
\* is within the caps and the budget, ban sets first, and nothing is cut silently.
THEOREM ElementsHonest == FwSpec => []ElementsAccounted
<1>1. FwInit => FwInv
  <2> SUFFICES ASSUME FwInit PROVE FwInv
    OBVIOUS
  <2>1. Sizes \subseteq Nat /\ ElemBudget \in Nat
    BY FirewallAssumption
  <2>2. DOMAIN fwSets = {} /\ fwSets \in [DOMAIN fwSets -> FwRow]
    BY DEF FwInit, NoSets
  <2>3. fwLive \in [Keys -> Nat \cup {Gone}]
    BY <2>1 DEF FwInit
  <2>4. FwShape
    BY <2>1, <2>2, <2>3 DEF FwInit, FwShape
  <2>5. Len(fwTodo) = 0 /\ fwTodo = <<>>
    BY DEF FwInit
  <2>6. QueueOK
    BY <2>5 DEF QueueOK
  <2>7. BansOK
    BY <2>2 DEF BansOK
  <2>8. ShownElems = {} /\ fwLeft = ElemBudget
    BY <2>2 DEF ShownElems, FwInit
  <2>9. BudgetOK
    BY <2>1, <2>8, FS_EmptySet DEF BudgetOK
  <2> QED  BY <2>2, <2>4, <2>6, <2>7, <2>9 DEF FwInv
<1>2. FwInv /\ [FwNext]_fwVars => FwInv'
  BY FwStep
<1>3. FwInv => ElementsAccounted
  <2> SUFFICES ASSUME FwInv, fwPc = "done" PROVE ElementsAccounted
    BY DEF ElementsAccounted, FwReturned
  <2>1. Cap \in 1 .. HardElemCap /\ HardElemCap \in Nat /\ fwLeft \in Nat /\ fwTodo = <<>>
    BY CapRange DEF FwInv, FwShape
  <2>2. Cardinality(ShownElems) <= ElemBudget
    <3>1. Cardinality(ShownElems) \in Nat /\ Cardinality(ShownElems) + fwLeft = ElemBudget
      BY FS_CardinalityType DEF FwInv, BudgetOK
    <3> QED  BY <2>1, <3>1
  <2>3. BanSetsFirst
    BY DEF FwInv, BansOK, BanServed, BanSetsFirst, Bans, Cap
  <2>4. Pending = {}
    <3>1. Len(fwTodo) = 0
      BY <2>1
    <3> QED  BY <3>1 DEF Pending
  <2>5. ASSUME NEW k \in DOMAIN fwSets
        PROVE  /\ fwReq.filter = "" \/ TableOf[k] = fwReq.filter
               /\ fwSets[k].shown <= MaxSetElements(fwReq.max)
               /\ fwReq.include /\ fwSets[k].shown < fwSets[k].count
                     => fwSets[k].truncated \/ k \in fwRes.warned
    <3>1. SetOK(k) /\ fwSets[k].shown \in Nat
      BY DEF FwInv, FwShape, FwRow
    <3>2. fwSets[k].shown <= MaxSetElements(fwReq.max)
      BY <3>1 DEF SetOK, Cap
    <3> QED  BY <2>4, <3>1, <3>2 DEF SetOK, keep
  <2> QED  BY <2>2, <2>3, <2>5 DEF ElementsAccounted
<1> QED  BY <1>1, <1>2, <1>3, PTL DEF FwSpec
-----------------------------------------------------------------------------
(* Reports.                                                                 *)

\* The least of a set of places in a list is the one that is chosen.
LEMMA NewestLeast ==
    ASSUME NEW I \in SUBSET Nat, I # {}
    PROVE  Newest(I) \in I /\ \A j \in I : Newest(I) <= j
<1>1. PICK i \in I : \A j \in I : i <= j
  BY FirstIndex
<1> QED  BY <1>1 DEF Newest

\* What is found in a log: an exit code of zero comes with a count of zero.
LEMMA AideFound ==
    ASSUME NEW b \in AideLogs
    PROVE  /\ b.st = "read" /\ Found(b).exit = Some(0) => Found(b).count = Some(0)
           /\ b.st = "closed" => ~b.cut
           /\ b.st \in {"read", "closed"}
<1>1. CASE b \in Bodies
  <2>1. /\ b.st = "read" /\ DOMAIN b = {"st", "head", "total", "detail", "cut", "past"}
        /\ b.head = "clean" => b.total = Null /\ b.detail = Null
    BY <1>1 DEF Bodies
  <2> DEFINE g == readMaybeGzipped(b)
  <2>2. /\ g.head = (IF b.past = "all" THEN "none" ELSE b.head)
        /\ g.total = (IF b.past = "nothing" THEN b.total ELSE Null)
        /\ g.detail = (IF b.past = "nothing" THEN b.detail ELSE Null)
    BY <2>1 DEF readMaybeGzipped
  <2>3. Found(b) = parseAideLog(g)
    BY DEF Found
  <2> HIDE DEF g
  <2>4. g.head = "clean" => g.total = Null /\ g.detail = Null
    BY <2>1, <2>2
  <2>5. parseAideLog(g).exit = Some(0) => g.head = "clean"
    BY DEF parseAideLog, headExit, Some, Null
  <2>6. g.head = "clean" => parseAideLog(g).count = Some(0)
    BY <2>4 DEF parseAideLog
  <2> QED  BY <2>1, <2>3, <2>5, <2>6
<1>2. CASE b = NoBody("closed")
  BY <1>2 DEF NoBody
<1> QED  BY <1>1, <1>2 DEF AideLogs

\* What the helper makes of a directory of logs: an exit code of zero comes with
\* a count of zero, a newest log that was cut short leaves no count, and a count
\* found in the newest one is the count.
LEMMA AideDirRead ==
    ASSUME NEW dir \in AideDirs
    PROVE  /\ readAideLog(dir).exit = Some(0) => readAideLog(dir).count = Some(0)
           /\ dir # <<>> /\ dir[1].st = "read" =>
                /\ dir[1].cut => readAideLog(dir).count = Null
                /\ ~dir[1].cut /\ Found(dir[1]).count # Null => readAideLog(dir).count = Found(dir[1]).count
<1> DEFINE I == Counted(dir) \cup {i \in DOMAIN dir : dir[i].cut}
           L == AideLogs
<1>1. /\ DOMAIN dir \subseteq Nat \ {0} /\ (dir # <<>> => 1 \in DOMAIN dir)
      /\ \A i \in DOMAIN dir : dir[i] \in L
  <2>1. dir \in Seq(L)
    BY SecurityAssumption
  <2> HIDE DEF L
  <2> QED  BY <2>1
<1>2. I \in SUBSET Nat /\ I \subseteq DOMAIN dir
  BY <1>1 DEF Counted
<1>3. I # {} => Newest(I) \in I /\ \A j \in I : Newest(I) <= j
  BY <1>2, NewestLeast
<1>4. /\ I = {} \/ dir[Newest(I)].cut => readAideLog(dir) = [count |-> Null, exit |-> Null]
      /\ ~(I = {} \/ dir[Newest(I)].cut) => readAideLog(dir) = Found(dir[Newest(I)])
  BY DEF readAideLog
<1>5. ASSUME readAideLog(dir).exit = Some(0) PROVE readAideLog(dir).count = Some(0)
  <2>1. Some(0) # Null
    BY DEF Some, Null
  <2>2. I # {} /\ ~dir[Newest(I)].cut /\ readAideLog(dir) = Found(dir[Newest(I)])
    BY <1>4, <1>5, <2>1
  <2>3. Newest(I) \in DOMAIN dir /\ dir[Newest(I)] \in AideLogs /\ dir[Newest(I)].st = "read"
    BY <1>1, <1>2, <1>3, <2>2 DEF Counted
  <2> QED  BY <1>5, <2>2, <2>3, AideFound
<1>6. ASSUME dir # <<>>, 1 \in I
      PROVE  Newest(I) = 1
  <2> HIDE DEF I
  <2>1. Newest(I) \in Nat \ {0} /\ Newest(I) <= 1
    BY <1>1, <1>2, <1>3, <1>6
  <2> QED  BY <2>1
<1>7. ASSUME dir # <<>>, dir[1].cut
      PROVE  readAideLog(dir).count = Null
  <2>1. 1 \in I
    BY <1>1, <1>2, <1>7
  <2> QED  BY <2>1, <1>4, <1>6, <1>7
<1>8. ASSUME dir # <<>>, dir[1].st = "read", ~dir[1].cut, Found(dir[1]).count # Null
      PROVE  readAideLog(dir).count = Found(dir[1]).count
  <2>1. 1 \in I
    BY <1>1, <1>8 DEF Counted
  <2> QED  BY <2>1, <1>4, <1>6, <1>8
<1> QED  BY <1>5, <1>7, <1>8

\* An override's log leaves a count of zero beside an exit code of zero, unless
\* it has no headline.
LEMMA AideReported ==
    ASSUME NEW in \in AideInputs
    PROVE  /\ Aide(in).exit = Some(0) /\ (in.log.st = "read" => in.log.head # "none")
                => Aide(in).count = Some(0)
           /\ in.log.st = "unset" /\ in.call = "ok" /\ in.db
                => Aide(in).count = readAideLog(in.dir).count
<1> DEFINE op == ReadAideSummary(in)
           e == existsOrWarn(in.seen)
           s == Section(op.present \/ e.present, op.ts, op.count, op.exit,
                        opError(op) \cup IF op.present THEN {} ELSE e.says)
           f == CASE in.log.st = "unset"  -> s
                  [] in.log.st = "gone"   -> [s EXCEPT !.says = @ \cup {"log_path"}]
                  [] in.log.st = "closed" -> [s EXCEPT !.ts = Some(2), !.says = @ \cup {"log_path"}]
                  [] in.log.st = "read"   -> fillAideFromLog(s, in.log)
<1>1. /\ in.call \in {"failed", "ok"} /\ in.db \in BOOLEAN /\ in.dir \in AideDirs
      /\ in.log.st \in {"unset", "gone", "closed", "read"}
      /\ in.log.head \in {"none", "clean", "diff", "both"}
  BY DEF AideInputs, AideOverrides, Bodies, NoBody
<1>2. Some(0) # Null /\ Some(0) # Some(1)
  BY DEF Some, Null
<1>3. op.exit = Some(0) => op.count = Some(0)
  BY <1>1, <1>2, AideDirRead DEF ReadAideSummary, NoAide
<1>4. in.call = "ok" /\ in.db => op.count = readAideLog(in.dir).count
  BY DEF ReadAideSummary
<1>5. s.count = op.count /\ s.exit = op.exit
  BY DEF Section
<1>6. in.log.st # "read" => f.count = s.count /\ f.exit = s.exit
  BY <1>1 DEF Section
<1>7. ASSUME in.log.st = "read", in.log.head # "none", f.exit = Some(0)
      PROVE  f.count = Some(0)
  <2>1. f = fillAideFromLog(s, in.log)
    BY <1>7
  <2>2. headExit(in.log) # Null /\ f.exit = headExit(in.log)
    BY <1>1, <1>7, <2>1 DEF fillAideFromLog, headExit, Some, Null, Section
  <2>3. in.log.head = "clean"
    BY <1>1, <1>2, <1>7, <2>2 DEF headExit
  <2> QED  BY <2>1, <2>3 DEF fillAideFromLog, Section
<1>8. Aide(in).count = f.count /\ Aide(in).exit = f.exit
  <2>1. Aide(in) = [f EXCEPT !.says = @ \cup IF f.present /\ f.ts # Null /\ f.count = Null
                                        THEN {"unparseable"} ELSE {}]
    BY DEF Aide
  <2>2. "count" \in DOMAIN f /\ "exit" \in DOMAIN f
    BY <1>1 DEF fillAideFromLog, Section
  <2> HIDE DEF f
  <2> QED  BY <2>1, <2>2
<1> HIDE DEF op, s, f
<1> QED  BY <1>1, <1>3, <1>4, <1>5, <1>6, <1>7, <1>8

\* A scanner reported without its count says why.
LEMMA ScannersExplained ==
    /\ \A in \in AideInputs : Aide(in).present /\ Aide(in).count = Null => Aide(in).says # {} \/ Aide(in).ts = Null
    /\ \A in \in AuditInputs : Auditd(in).present /\ Auditd(in).count = Null => Auditd(in).says # {}
    /\ \A in \in RkInputs : Rkhunter(in).present /\ Rkhunter(in).count = Null => Rkhunter(in).says # {}
    /\ \A in \in DebsumsInputs : Debsums(in).present /\ Debsums(in).count = Null => Debsums(in).says # {}
<1>1. ASSUME NEW in \in AideInputs, Aide(in).present, Aide(in).count = Null, Aide(in).ts # Null
      PROVE  Aide(in).says # {}
  <2> DEFINE op == ReadAideSummary(in)
             e == existsOrWarn(in.seen)
             s == Section(op.present \/ e.present, op.ts, op.count, op.exit,
                          opError(op) \cup IF op.present THEN {} ELSE e.says)
             f == CASE in.log.st = "unset"  -> s
                    [] in.log.st = "gone"   -> [s EXCEPT !.says = @ \cup {"log_path"}]
                    [] in.log.st = "closed" -> [s EXCEPT !.ts = Some(2), !.says = @ \cup {"log_path"}]
                    [] in.log.st = "read"   -> fillAideFromLog(s, in.log)
  <2>1. Aide(in) = [f EXCEPT !.says = @ \cup IF f.present /\ f.ts # Null /\ f.count = Null
                                        THEN {"unparseable"} ELSE {}]
    BY DEF Aide
  <2>2. in.log.st \in {"unset", "gone", "closed", "read"}
    BY DEF AideInputs, AideOverrides, Bodies, NoBody
  <2>3. {"present", "ts", "count", "says"} \subseteq DOMAIN f
    BY <2>2 DEF fillAideFromLog, Section
  <2> HIDE DEF f
  <2>4. f.present /\ f.count = Null /\ f.ts # Null
    BY <1>1, <2>1, <2>3
  <2>5. Aide(in).says = f.says \cup {"unparseable"}
    BY <2>1, <2>3, <2>4
  <2> QED  BY <2>5
<1>2. ASSUME NEW in \in AuditInputs, Auditd(in).present, Auditd(in).count = Null
      PROVE  Auditd(in).says # {}
  <2>1. in.op \in {"failed", "absent", "netlink", "ok"} /\ in.seen \in Seen
    BY DEF AuditInputs
  <2>2. in.op # "ok" /\ in.seen = "yes"
    BY <1>2, <2>1 DEF Auditd, Section, existsOrWarn, Some, Null
  <2>3. CASE in.op = "netlink"
    <3>1. "netlink" \in Auditd(in).says
      BY <2>3 DEF Auditd, Section
    <3> QED  BY <3>1
  <2>4. CASE in.op \in {"failed", "absent"}
    <3>1. "no_kernel_audit" \in Auditd(in).says
      BY <2>2, <2>4 DEF Auditd, Section
    <3> QED  BY <3>1
  <2> QED  BY <2>1, <2>2, <2>3, <2>4
<1>3. ASSUME NEW in \in RkInputs, Rkhunter(in).present, Rkhunter(in).count = Null
      PROVE  Rkhunter(in).says # {}
  <2>1. in.op \in RkOps /\ in.seen \in Seen
    BY DEF RkInputs
  <2>2. /\ Rkhunter(in).count = in.op.count
        /\ Rkhunter(in).present = (in.op.present \/ existsOrWarn(in.seen).present)
        /\ opError(in.op) \subseteq Rkhunter(in).says
        /\ rkDiagnosis(in.op, in.op.present \/ existsOrWarn(in.seen).present) \subseteq Rkhunter(in).says
    BY DEF Rkhunter, Section
  <2>3. CASE ~in.op.ok
    BY <2>2, <2>3 DEF opError
  <2>4. CASE in.op.ok
    <3>1. rkDiagnosis(in.op, in.op.present \/ existsOrWarn(in.seen).present) # {}
      BY <1>3, <2>2, <2>4 DEF rkDiagnosis
    <3> QED  BY <2>2, <3>1
  <2> QED  BY <2>3, <2>4
<1>4. ASSUME NEW in \in DebsumsInputs, Debsums(in).present, Debsums(in).count = Null
      PROVE  Debsums(in).says # {}
  <2>1. existsOrWarn(in.seen).present
    BY <1>4 DEF Debsums, Section
  <2>2. Debsums(in).count = fillDebsums(in).count /\ Debsums(in).says = fillDebsums(in).says
    BY <2>1 DEF Debsums, Section
  <2>3. in.log \in {"unset", "gone", "unparseable", "ok"} /\ in.timer \in {"failed", "absent", "never", "fired"}
    BY DEF DebsumsInputs
  <2>4. in.log # "ok"
    BY <1>4, <2>2 DEF fillDebsums, Some, Null
  <2>5. fillDebsums(in).says # {}
    BY <2>3, <2>4 DEF fillDebsums
  <2> QED  BY <2>2, <2>5
<1> QED  BY <1>1, <1>2, <1>3, <1>4

\* Update counts are missing with a lock that was not acquired, one that is unknown
\* has its error, and every failed call is named.
LEMMA UpdatesExplained ==
    ASSUME NEW in \in UpdatesInputs
    PROVE  /\ Updates(in).pending = Null <=> Updates(in).lock # "acquired"
           /\ Updates(in).lock = "unknown" => "apt" \in Updates(in).errors
           /\ Updates(in).apt_update = Null => "no_stamp" \in Updates(in).says
           /\ Updates(in).errors \subseteq Updates(in).says
<1>1. in.apt \in {"unreachable", "locked", "broken", "cut", "listed"}
  BY DEF UpdatesInputs
<1> DEFINE a == AptPending(in)
<1>2. /\ a.ok \/ ~a.ok
      /\ ~a.ok => a.pending = Null
      /\ a.ok => a.lock \in {"acquired", "contended"} /\ (a.pending = Null <=> a.lock = "contended")
  BY <1>1 DEF AptPending, AptFailed, Null
<1>3. /\ Updates(in).pending = a.pending
      /\ Updates(in).lock = IF a.ok THEN a.lock ELSE "unknown"
      /\ Updates(in).errors = UpdatesErrors(in)
  BY DEF Updates
<1> HIDE DEF a
<1>4. Updates(in).pending = Null <=> Updates(in).lock # "acquired"
  BY <1>2, <1>3
<1>5. ~a.ok => "apt" \in UpdatesErrors(in)
  BY DEF UpdatesErrors, a
<1>6. Updates(in).lock = "unknown" => "apt" \in Updates(in).errors
  BY <1>2, <1>3, <1>5
<1>7. Updates(in).apt_update = Null => "no_stamp" \in Updates(in).says
  BY DEF Updates, Null
<1>8. Updates(in).errors \subseteq Updates(in).says
  BY DEF Updates
<1> QED  BY <1>4, <1>6, <1>7, <1>8

\* A ban count of -1 has its error, or the helper found no client.
LEMMA IpsExplained ==
    ASSUME NEW in \in IpsInputs, Ips(in).bans = -1
    PROVE  Ips(in).says # {} \/ in.run = "missing"
<1> DEFINE banned == {i \in DOMAIN in.jails : in.jails[i] = "banned"}
<1>1. in.run \in {"failed", "missing", "ok"} /\ in.jails \in {<<>>} \cup [1..2 -> {"banned", "failed", "cut"}]
  BY DEF IpsInputs
<1>2. Cardinality(banned) \in Nat
  <2>1. DOMAIN in.jails \subseteq 1..2
    BY <1>1
  <2>2. IsFiniteSet(1..2)
    <3>1. 1 \in Int /\ 2 \in Int
      OBVIOUS
    <3> QED  BY <3>1, FS_Interval
  <2>3. IsFiniteSet(banned)
    BY <2>1, <2>2, FS_Subset
  <2> QED  BY <2>3, FS_CardinalityType
<1>3. in.before = "fail2ban" /\ Fail2banStatus(in) # "ok"
  <2>1. in.before # "fail2ban" => Ips(in).bans = 0
    BY DEF Ips
  <2>2. in.before = "fail2ban" /\ Fail2banStatus(in) = "ok" => Ips(in).bans = Cardinality(banned)
    BY DEF Ips
  <2> HIDE DEF banned
  <2> QED  BY <1>2, <2>1, <2>2
<1>4. Fail2banStatus(in) = "error" \/ in.run = "missing"
  BY <1>1, <1>3 DEF Fail2banStatus
<1>5. Fail2banStatus(in) = "error" => Ips(in).says = {"op_error"}
  BY <1>3 DEF Ips
<1> QED  BY <1>4, <1>5

\* The window named beside the login counts is the one they were counted in.
LEMMA SshExplained ==
    ASSUME NEW in \in SshInputs
    PROVE  /\ Ssh(in).count = Null <=> Ssh(in).window = "unavailable"
           /\ Ssh(in).window = "since_log_rotation" => in.file = "whole"
           /\ Ssh(in).window = "last_24h" /\ Ssh(in).says = {} /\ in.probe =>
                 in.oldest <= Now - Window + Tolerance \/ in.btime > Now - Window
<1> DEFINE r == readAuthLogCounters(in.file)
           j == journalCounters(in)
<1>1. /\ in.file \in {"absent", "closed", "broken", "tail", "whole"} /\ in.run \in {"failed", "missing", "ok"}
      /\ in.oldest \in 0 .. Now /\ in.btime \in 0 .. Now /\ in.probe \in BOOLEAN
  BY DEF SshInputs
<1>2. Some(24) # Null /\ Some(99) # Null
  BY DEF Some, Null
<1>3. CASE in.file = "whole"
  <2>1. Ssh(in) = [window |-> "since_log_rotation", count |-> Some(99), says |-> {}]
    BY <1>3 DEF Ssh, readAuthLogCounters
  <2> QED  BY <1>2, <1>3, <2>1
<1>4. CASE in.file # "whole"
  <2>1. Ssh(in) = [j EXCEPT !.says = @ \cup (IF r.err THEN {"incomplete"} ELSE {})
                                    \cup (IF r.truncated THEN {"read_cap"} ELSE {})]
    BY <1>1, <1>4 DEF Ssh, readAuthLogCounters
  <2>2. {"window", "count", "says"} \subseteq DOMAIN j
    BY DEF journalCounters
  <2>3. j.count = Null <=> j.window = "unavailable"
    BY <1>1, <1>2 DEF journalCounters
  <2>4. j.window # "since_log_rotation"
    BY <1>1 DEF journalCounters
  <2>5. j.window = "last_24h" /\ j.says = {} /\ in.probe => ~sshJournalTruncated(in.btime, in.oldest)
    BY <1>1 DEF journalCounters
  <2>6. ~sshJournalTruncated(in.btime, in.oldest) => in.oldest <= Now - Window + Tolerance \/ in.btime > Now - Window
    BY <1>1, SecurityAssumption DEF sshJournalTruncated
  <2> HIDE DEF j
  <2>7. Ssh(in).window = j.window /\ Ssh(in).count = j.count /\ j.says \subseteq Ssh(in).says
    BY <2>1, <2>2
  <2>8. Ssh(in).says = {} => j.says = {}
    BY <2>7
  <2> QED  BY <2>3, <2>4, <2>5, <2>6, <2>7, <2>8
<1> QED  BY <1>3, <1>4
\* The tail of a log is the log without its first lines.
LEMMA TailIsSuffix ==
    ASSUME NEW log \in Seq(Lines), NEW tail \in Nat \ {0}
    PROVE  \E d \in 0 .. Len(log) :
              /\ DOMAIN readAccessLogTail(log, tail) = 1 .. Len(log) - d
              /\ \A i \in 1 .. Len(log) - d : readAccessLogTail(log, tail)[i] = log[i + d]
<1>1. CASE tail >= Len(log)
  <2>1. readAccessLogTail(log, tail) = log /\ DOMAIN log = 1 .. Len(log)
    BY <1>1 DEF readAccessLogTail
  <2>2. Len(log) \in Nat /\ 0 \in 0 .. Len(log) /\ Len(log) - 0 = Len(log)
    OBVIOUS
  <2>3. \A i \in 1 .. Len(log) - 0 : log[i + 0] = log[i]
    BY <2>2
  <2> QED  BY <2>1, <2>2, <2>3
<1>2. CASE tail < Len(log)
  <2> DEFINE d == Len(log) - tail + 1
  <2>1. d \in 1 .. Len(log) /\ d + 1 = Len(log) - tail + 2
    BY <1>2
  <2>2. readAccessLogTail(log, tail) = SubSeq(log, d + 1, Len(log))
    BY <1>2, <2>1 DEF readAccessLogTail
  <2> HIDE DEF d
  <2>3. /\ DOMAIN SubSeq(log, d + 1, Len(log)) = 1 .. Len(log) - d
        /\ \A i \in 1 .. Len(log) - d : SubSeq(log, d + 1, Len(log))[i] = log[i + d]
    BY <2>1
  <2>4. d \in 0 .. Len(log)
    BY <2>1
  <2> QED  BY <2>2, <2>3, <2>4, Zenon
<1> QED  BY <1>1, <1>2

\* Moving a finite set of numbers along changes none of its size.
LEMMA Shifted ==
    ASSUME NEW S, IsFiniteSet(S), S \subseteq Nat, NEW d \in Nat
    PROVE  IsFiniteSet({i + d : i \in S}) /\ Cardinality({i + d : i \in S}) = Cardinality(S)
<1> DEFINE f == [i \in S |-> i + d]
<1>1. f \in Bijection(S, {i + d : i \in S})
  <2>1. f \in [S -> {i + d : i \in S}] /\ \A i \in S : f[i] = i + d
    OBVIOUS
  <2>2. \A a, b \in S : f[a] = f[b] => a = b
    BY <2>1
  <2>3. \A t \in {i + d : i \in S} : \E a \in S : f[a] = t
    BY <2>1
  <2> HIDE DEF f
  <2> QED  BY <2>1, <2>2, <2>3 DEF Bijection, Injection, Surjection, IsInjective
<1>2. ExistsBijection(S, {i + d : i \in S})
  BY <1>1 DEF ExistsBijection
<1> QED  BY <1>2, FS_Bijection

\* Lines that lie before the tail are no younger than the tail's oldest line, so
\* that what the tail has of the window is all there is of it.
LEMMA CountsCover ==
    ASSUME NEW in, in.log \in Seq(Lines), in.tail \in Nat \ {0}, in.path = "open", in.server # "none",
           NginxApacheStatus(in).coverage # "unavailable", InOrder(in.log)
    PROVE  LET r == NginxApacheStatus(in)
               from == Clock - r.minutes
           IN  /\ Cardinality({i \in DOMAIN in.log : in.log[i].ts > from /\ in.log[i].class = 4}) <= r.r4[1]
               /\ r.r4[1] <= Cardinality({i \in DOMAIN in.log : in.log[i].ts >= from /\ in.log[i].class = 4})
<1> DEFINE log == in.log
           tail == readAccessLogTail(log, in.tail)
           p == parseAccessLogTail(tail)
           r == NginxApacheStatus(in)
           from == Clock - r.minutes
           parsed == {i \in DOMAIN tail : tail[i].ts # 0}
           C == {i \in parsed : tail[i].ts >= Clock - WindowMin /\ tail[i].class = 4}
           A == {i \in DOMAIN log : log[i].ts > from /\ log[i].class = 4}
           B == {i \in DOMAIN log : log[i].ts >= from /\ log[i].class = 4}
<1>1. Clock \in Nat /\ WindowMin \in Nat /\ WindowMin < Clock
  BY AccessLogAssumption
<1>2. DOMAIN log = 1 .. Len(log) /\ Len(log) \in Nat /\ \A i \in DOMAIN log : log[i].ts \in Nat
  <2>1. \A l \in Lines : l.ts \in Nat
    <3>1. \A l \in [ts : 0 .. Clock, class : {0, 2, 4, 5}, long : {FALSE}] : l.ts \in Nat
      BY <1>1
    <3>2. \A l \in [ts : {Clock}, class : {4}, long : {TRUE}] : l.ts \in Nat
      BY <1>1
    <3> QED  BY <3>1, <3>2 DEF Lines
  <2> QED  BY <2>1
<1>3. PICK d \in 0 .. Len(log) : /\ DOMAIN tail = 1 .. Len(log) - d
                                /\ \A i \in 1 .. Len(log) - d : tail[i] = log[i + d]
  BY TailIsSuffix
<1>4. p.any /\ r.r4 = <<p.r4>> /\ r.minutes = IF p.oldest <= Clock - WindowMin THEN WindowMin ELSE Clock - p.oldest
  <2>1. ASSUME NEW why PROVE Unavailable(why).coverage = "unavailable"
    BY DEF Unavailable
  <2> HIDE DEF p
  <2>2. p.any
    BY <2>1 DEF NginxApacheStatus, p, tail
  <2> QED  BY <2>2 DEF NginxApacheStatus, p, tail
<1>5. parsed # {} /\ p.r4 = Cardinality(C)
      /\ p.oldest = CHOOSE t \in {tail[i].ts : i \in parsed} : \A i \in parsed : t <= tail[i].ts
  BY <1>4 DEF parseAccessLogTail
<1> HIDE DEF p, r, tail, log
<1>6. \A i \in parsed : i + d \in DOMAIN log /\ tail[i] = log[i + d] /\ tail[i].ts \in Nat
  BY <1>2, <1>3
<1>7. p.oldest \in {tail[i].ts : i \in parsed} /\ \A i \in parsed : p.oldest <= tail[i].ts
  <2> DEFINE T == {tail[i].ts : i \in parsed}
  <2>1. T \in SUBSET Nat /\ T # {}
    BY <1>5, <1>6
  <2>2. PICK t \in T : \A u \in T : t <= u
    BY <2>1, FirstIndex
  <2> QED  BY <1>5, <2>2
<1>8. PICK k \in parsed : tail[k].ts = p.oldest
  BY <1>7
<1>9. p.oldest \in Nat /\ r.minutes \in Int /\ from \in Nat /\ p.oldest <= from /\ Clock - WindowMin <= from
  BY <1>1, <1>4, <1>6, <1>8
<1>10. IsFiniteSet(A) /\ IsFiniteSet(B) /\ IsFiniteSet(C)
  <2>1. IsFiniteSet(1 .. Len(log)) /\ IsFiniteSet(1 .. Len(log) - d)
    <3>1. 1 \in Int /\ Len(log) \in Int /\ Len(log) - d \in Int
      BY <1>2, <1>3
    <3> QED  BY <3>1, FS_Interval
  <2>2. A \in SUBSET (1 .. Len(log)) /\ B \in SUBSET (1 .. Len(log)) /\ C \in SUBSET (1 .. Len(log) - d)
    BY <1>2, <1>3
  <2> QED  BY <2>1, <2>2, FS_Subset
<1> DEFINE D == {i + d : i \in C}
<1>11. IsFiniteSet(D) /\ Cardinality(D) = Cardinality(C)
  <2>1. C \subseteq Nat /\ d \in Nat
    BY <1>2, <1>3
  <2> HIDE DEF C
  <2> QED  BY <1>10, <2>1, Shifted
<1>12. D \subseteq B
  <2> SUFFICES ASSUME NEW i \in C PROVE i + d \in B
    OBVIOUS
  <2>1. from <= tail[i].ts
    BY <1>1, <1>4, <1>6, <1>7, <1>9
  <2> QED  BY <1>6, <2>1
<1>13. A \subseteq D
  <2> SUFFICES ASSUME NEW i \in A PROVE i \in D
    OBVIOUS
  <2>1. i \in DOMAIN log /\ log[i].ts > from /\ log[i].class = 4 /\ i \in 1 .. Len(log) /\ log[i].ts \in Nat
    BY <1>2
  <2>2. i > d
    <3> SUFFICES ASSUME i <= d PROVE FALSE
      BY <1>3, <2>1
    <3>1. k + d \in DOMAIN log /\ i < k + d /\ log[k + d].ts # 0 /\ log[k + d].ts <= from
      BY <1>2, <1>3, <1>6, <1>8, <1>9, <2>1
    <3>2. log[i].ts # 0 /\ InOrder(log)
      BY <1>9, <2>1 DEF log
    <3>3. log[i].ts <= log[k + d].ts
      BY <2>1, <3>1, <3>2 DEF InOrder
    <3> QED  BY <1>2, <1>9, <2>1, <3>1, <3>3
  <2>3. i - d \in DOMAIN tail /\ tail[i - d] = log[i] /\ (i - d) + d = i
    BY <1>2, <1>3, <2>1, <2>2
  <2>4. i - d \in C
    <3> HIDE DEF from, A, B, C, D
    <3>1. log[i].ts >= Clock - WindowMin /\ log[i].ts # 0
      BY <1>1, <1>9, <2>1
    <3>2. tail[i - d].ts >= Clock - WindowMin /\ tail[i - d].ts # 0 /\ tail[i - d].class = 4
      BY <2>1, <2>3, <3>1
    <3> QED  BY <2>3, <3>2 DEF C
  <2> QED  BY <2>3, <2>4
<1>14. Cardinality(A) <= Cardinality(C) /\ Cardinality(C) <= Cardinality(B)
  <2> HIDE DEF A, B, C, D
  <2>1. Cardinality(A) <= Cardinality(D) /\ Cardinality(D) <= Cardinality(B)
    BY <1>10, <1>11, <1>12, <1>13, FS_Subset
  <2> QED  BY <1>11, <2>1
<1>15. r.r4[1] = Cardinality(C)
  BY <1>4, <1>5
<1> QED  BY <1>14, <1>15 DEF r, log

\* The answer, once given, is the one of the case's own tool.
AnswerOfCase ==
    report # NoReport =>
        /\ case.part = "aide" => report = Aide(case)
        /\ case.part = "auditd" => report = Auditd(case)
        /\ case.part = "rkhunter" => report = Rkhunter(case)
        /\ case.part = "debsums" => report = Debsums(case)
        /\ case.part = "ips" => report = Ips(case)
        /\ case.part = "ssh" => report = Ssh(case)
        /\ case.part = "updates" => report = Updates(case)
        /\ case.part = "lookup" => report = Lookup(case)
        /\ case.part = "access" => report = NginxApacheStatus(case)

\* A case is one that its own tool may meet.
CaseRead ==
    /\ case.part = "aide" => case \in AideInputs
    /\ case.part = "auditd" => case \in AuditInputs
    /\ case.part = "rkhunter" => case \in RkInputs
    /\ case.part = "debsums" => case \in DebsumsInputs
    /\ case.part = "ips" => case \in IpsInputs
    /\ case.part = "ssh" => case \in SshInputs
    /\ case.part = "updates" => case \in UpdatesInputs
    /\ case.part = "lookup" => case \in LookupInputs
    /\ case.part = "access" => case \in AccessInputs

RepInv == CaseRead /\ AnswerOfCase

\* A case stays the one that was chosen, and its own tool answers it.
LEMMA RepInvariance == RepSpec => []RepInv
<1>1. RepInit => RepInv
  <2> SUFFICES ASSUME RepInit PROVE RepInv
    OBVIOUS
  <2>1. /\ \A c \in AideInputs : c.part = "aide"
        /\ \A c \in AuditInputs : c.part = "auditd"
        /\ \A c \in RkInputs : c.part = "rkhunter"
        /\ \A c \in DebsumsInputs : c.part = "debsums"
        /\ \A c \in IpsInputs : c.part = "ips"
    BY DEF AideInputs, AuditInputs, RkInputs, DebsumsInputs, IpsInputs
  <2>2. /\ \A c \in SshInputs : c.part = "ssh"
        /\ \A c \in UpdatesInputs : c.part = "updates"
        /\ \A c \in LookupInputs : c.part = "lookup"
    BY DEF SshInputs, UpdatesInputs, LookupInputs
  <2>3. \A c \in AccessInputs : c.part = "access"
    BY DEF AccessInputs
  <2> QED  BY <2>1, <2>2, <2>3 DEF RepInit, RepInv, CaseRead, AnswerOfCase
<1>2. RepInv /\ [RepNext]_repVars => RepInv'
  <2> SUFFICES ASSUME RepInv, [RepNext]_repVars PROVE RepInv'
    OBVIOUS
  <2>1. case' = case
    BY DEF RepNext, repVars, Answer, ReportAide, ReportAuditd, ReportRkhunter, ReportDebsums, ReportIps,
           ReportSsh, ReportUpdates, ReportLookup, ReportAccess
  <2>2. CaseRead'
    BY <2>1 DEF RepInv, CaseRead
  <2>3. AnswerOfCase'
    BY <2>1 DEF RepInv, AnswerOfCase, RepNext, repVars, Answer, ReportAide, ReportAuditd, ReportRkhunter,
           ReportDebsums, ReportIps, ReportSsh, ReportUpdates, ReportLookup, ReportAccess
  <2> QED  BY <2>2, <2>3 DEF RepInv
<1> QED  BY <1>1, <1>2, PTL DEF RepSpec

\* Whatever the logs hold and which of them can be read, a newest log that was cut
\* short leaves no figures, and those found in it are the ones shown.
THEOREM AideCurrent == RepSpec => []AideHeedsNewest
<1>1. RepInv => AideHeedsNewest
  <2> SUFFICES ASSUME RepInv, Given("aide") PROVE AideHeedsNewest
    BY DEF AideHeedsNewest, FromNewest
  <2>1. case \in AideInputs /\ report = Aide(case) /\ case.dir \in AideDirs
    BY DEF RepInv, CaseRead, AnswerOfCase, Given, AideInputs
  <2> QED  BY <2>1, AideReported, AideDirRead DEF AideHeedsNewest, FromNewest
<1> QED  BY <1>1, RepInvariance, PTL

\* A figure of security or updates that is missing is accounted for, and the login
\* counts are those of the window they are given for.
THEOREM FiguresAreExplained == RepSpec => []FiguresExplained
<1>1. RepInv => NullsExplained
  <2> SUFFICES ASSUME RepInv PROVE NullsExplained
    OBVIOUS
  <2>1. ASSUME NEW part \in {"aide", "auditd", "rkhunter", "debsums"},
               Given(part), report.present, report.count = Null
        PROVE  report.says # {} \/ (part = "aide" /\ report.ts = Null)
    <3>1. case.part = part /\ report # NoReport
      BY <2>1 DEF Given
    <3>2. CASE part = "aide"
      BY <2>1, <3>1, <3>2, ScannersExplained DEF RepInv, CaseRead, AnswerOfCase
    <3>3. CASE part = "auditd"
      BY <2>1, <3>1, <3>3, ScannersExplained DEF RepInv, CaseRead, AnswerOfCase
    <3>4. CASE part = "rkhunter"
      BY <2>1, <3>1, <3>4, ScannersExplained DEF RepInv, CaseRead, AnswerOfCase
    <3>5. CASE part = "debsums"
      BY <2>1, <3>1, <3>5, ScannersExplained DEF RepInv, CaseRead, AnswerOfCase
    <3> QED  BY <3>2, <3>3, <3>4, <3>5
  <2>2. Given("updates") => report = Updates(case) /\ case \in UpdatesInputs
    BY DEF RepInv, CaseRead, AnswerOfCase, Given
  <2>3. Given("updates") => /\ report.pending = Null <=> report.lock # "acquired"
                            /\ report.lock = "unknown" => "apt" \in report.errors
                            /\ report.apt_update = Null => "no_stamp" \in report.says
                            /\ report.errors \subseteq report.says
    BY <2>2, UpdatesExplained
  <2>4. Given("ips") => report = Ips(case) /\ case \in IpsInputs
    BY DEF RepInv, CaseRead, AnswerOfCase, Given
  <2>5. Given("ips") /\ report.bans = -1 => report.says # {} \/ case.run = "missing"
    BY <2>4, IpsExplained
  <2> HIDE DEF RepInv
  <2> QED  BY <2>1, <2>3, <2>5 DEF NullsExplained
<1>2. RepInv => SshWindowTrue
  <2> SUFFICES ASSUME RepInv, Given("ssh") PROVE SshWindowTrue
    BY DEF SshWindowTrue
  <2>1. case \in SshInputs /\ report = Ssh(case)
    BY DEF RepInv, CaseRead, AnswerOfCase, Given
  <2> QED  BY <2>1, SshExplained DEF SshWindowTrue
<1>3. RepInv => FiguresExplained
  BY <1>1, <1>2 DEF FiguresExplained
<1> QED  BY <1>3, RepInvariance, PTL

\* However long the log and its tail are and wherever the window falls, the 4xx
\* shown are those of the minutes shown, in the whole log.
THEOREM AccessCounted == RepSpec => []AccessCountsTrue
<1>1. RepInv => AccessCountsTrue
  <2> SUFFICES ASSUME RepInv, Given("access"), report.coverage # "unavailable", InOrder(case.log)
               PROVE  AccessCountsTrue
    BY DEF AccessCountsTrue
  <2>1. case \in AccessInputs /\ report = NginxApacheStatus(case)
    BY DEF RepInv, CaseRead, AnswerOfCase, Given
  <2>2. case.path = "open" /\ case.server # "none"
    <3>1. ASSUME NEW why PROVE Unavailable(why).coverage = "unavailable"
      BY DEF Unavailable
    <3>2. case.server = "none" => NginxApacheStatus(case) = Unavailable("no server") \/ case.path = "open"
      BY DEF NginxApacheStatus
    <3>3. case.server # "none" /\ case.path # "open" => NginxApacheStatus(case) = Unavailable(case.path)
      BY DEF NginxApacheStatus
    <3>4. case.server = "none" => case.path # "open"
      BY <2>1 DEF AccessInputs
    <3> QED  BY <2>1, <3>1, <3>2, <3>3, <3>4
  <2>3. case.log \in Logs /\ case.tail \in 1 .. MaxLogLines + 1
    BY <2>1, <2>2 DEF AccessInputs
  <2>4. case.log \in Seq(Lines) /\ case.tail \in Nat \ {0}
    BY <2>3, AccessLogAssumption DEF Logs
  <2> QED  BY <2>1, <2>2, <2>4, CountsCover DEF AccessCountsTrue
<1> QED  BY <1>1, RepInvariance, PTL

-----------------------------------------------------------------------------
(* The lookup.  What a value covers is a block of neighbours, and two       *)
(* blocks meet exactly if one of them holds the first address of the other. *)

\* The number of addresses of a prefix.
Block(n) == 2^(Width - n)

\* A prefix covers the addresses from its network address on, as many as its
\* length leaves.
LEMMA MaskedBlock ==
    ASSUME NEW n \in 0 .. Width, NEW x \in Nat, NEW a \in Nat
    PROVE  /\ Block(n) \in Nat \ {0} /\ Masked(x, n) \in 0 .. x
           /\ Masked(x, n) = Masked(a, n) <=> Masked(x, n) <= a /\ a < Masked(x, n) + Block(n)
<1>1. Block(n) \in Nat \ {0}
  BY LookupAssumption DEF Block
<1> DEFINE m == Block(n)
<1>2. \A y \in Nat : Masked(y, n) = y - (y % m)
  BY DEF Masked, Block
<1> HIDE DEF m
<1>3. m \in Nat \ {0}
  BY <1>1 DEF m
<1>4. \A y \in Nat : y % m \in 0 .. (m - 1) /\ y = (m * (y \div m)) + (y % m) /\ y \div m \in Nat
  BY <1>3
<1>5. \A y \in Nat : Masked(y, n) = m * (y \div m) /\ Masked(y, n) <= y /\ y < Masked(y, n) + m /\ Masked(y, n) \in Nat
  <2> SUFFICES ASSUME NEW y \in Nat
               PROVE  /\ Masked(y, n) = m * (y \div m) /\ Masked(y, n) <= y
                      /\ y < Masked(y, n) + m /\ Masked(y, n) \in Nat
    OBVIOUS
  <2> DEFINE k == y \div m
             e == y % m
  <2>1. /\ e \in 0 .. (m - 1) /\ k \in Nat /\ y = (m * k) + e /\ Masked(y, n) = y - e
    BY <1>2, <1>4
  <2> HIDE DEF k, e
  <2>2. m * k \in Nat
    BY <1>3, <2>1
  <2>3. /\ Masked(y, n) = m * k /\ Masked(y, n) <= y /\ y < Masked(y, n) + m /\ Masked(y, n) \in Nat
    BY <1>3, <2>1, <2>2
  <2> QED  BY <2>3 DEF k
<1>6. ASSUME Masked(x, n) <= a, a < Masked(x, n) + m PROVE Masked(x, n) = Masked(a, n)
  <2> DEFINE j == a \div m
             k == x \div m
  <2>1. j \in Nat /\ k \in Nat /\ Masked(x, n) = m * k /\ Masked(a, n) = m * j
    BY <1>4, <1>5
  <2>2. m * j <= a /\ a < m * j + m /\ m * k <= a /\ a < m * k + m
    BY <1>5, <1>6, <2>1
  <2> HIDE DEF j, k
  <2>3. ~(j >= k + 1)
    <3>1. j >= k + 1 => m * j >= m * (k + 1)
      BY <1>3, <2>1
    <3>2. m * (k + 1) = m * k + m
      BY <1>3, <2>1
    <3> QED  BY <1>3, <2>1, <2>2, <3>1, <3>2
  <2>4. ~(k >= j + 1)
    <3>1. k >= j + 1 => m * k >= m * (j + 1)
      BY <1>3, <2>1
    <3>2. m * (j + 1) = m * j + m
      BY <1>3, <2>1
    <3> QED  BY <1>3, <2>1, <2>2, <3>1, <3>2
  <2>5. j = k
    BY <2>1, <2>3, <2>4
  <2> QED  BY <2>1, <2>5
<1>7. Masked(x, n) = Masked(a, n) => Masked(x, n) <= a /\ a < Masked(x, n) + m
  BY <1>5
<1>8. Masked(x, n) \in 0 .. x
  BY <1>5
<1> QED  BY <1>3, <1>6, <1>7, <1>8 DEF m

\* The ends of what a value covers.
First(v) == IF v.t = "prefix" THEN Masked(v.lo, v.hi) ELSE v.lo
Last(v) == IF v.t = "prefix" THEN Masked(v.lo, v.hi) + Block(v.hi) - 1 ELSE v.hi

\* Unwrapping a value leaves a bare one that covers the same.
LEMMA Unwrapped ==
    ASSUME NEW f \in Families, NEW v \in Values(f)
    PROVE  LET u == unwrapElem(v) IN
           /\ u \in Bare(f) /\ ~u.wrapped /\ v.wrapped \in BOOLEAN
           /\ u.t = v.t /\ u.fam = v.fam /\ u.lo = v.lo /\ u.hi = v.hi
<1> DEFINE Shape(x) == DOMAIN x = {"t", "fam", "lo", "hi", "wrapped"}
<1>1. \A x \in Bare(f) : \E t, a, b : x = Value(t, f, a, b)
  BY DEF Bare, Address, Unread, Prefix, Interval
<1>2. ASSUME NEW x \in Bare(f)
      PROVE  Shape(x) /\ x.wrapped = FALSE /\ [x EXCEPT !.wrapped = FALSE] = x
  <2>1. PICK t, a, b : x = Value(t, f, a, b)
    BY <1>1
  <2>2. Shape(x)
    BY <2>1 DEF Value
  <2>3. x.wrapped = FALSE
    BY <2>1 DEF Value
  <2>4. [x EXCEPT !.wrapped = FALSE] = x
    BY <2>1, <2>2, <2>3 DEF Value
  <2> QED  BY <2>2, <2>3, <2>4
<1>3. CASE v \in Bare(f)
  BY <1>2, <1>3 DEF unwrapElem
<1>4. ASSUME NEW x \in Bare(f), v = Wrapped(x)
      PROVE  /\ unwrapElem(v) = x /\ v.wrapped = TRUE
             /\ x.t = v.t /\ x.fam = v.fam /\ x.lo = v.lo /\ x.hi = v.hi
  <2>1. PICK t, a, b : x = Value(t, f, a, b)
    BY <1>1
  <2>2. v = [x EXCEPT !.wrapped = TRUE]
    BY <1>4 DEF Wrapped
  <2>3. x = [t |-> t, fam |-> f, lo |-> a, hi |-> b, wrapped |-> FALSE]
    BY <2>1 DEF Value
  <2>4. v = [t |-> t, fam |-> f, lo |-> a, hi |-> b, wrapped |-> TRUE]
    BY <2>2, <2>3
  <2>5. unwrapElem(v) = [v EXCEPT !.wrapped = FALSE]
    BY DEF unwrapElem
  <2>6. unwrapElem(v) = x
    BY <2>3, <2>4, <2>5
  <2>7. v.wrapped = TRUE
    BY <2>4
  <2>8. x.t = v.t /\ x.fam = v.fam /\ x.lo = v.lo /\ x.hi = v.hi
    BY <2>3, <2>4
  <2> QED  BY <2>6, <2>7, <2>8
<1> HIDE DEF Shape
<1> QED  BY <1>2, <1>3, <1>4 DEF Values

\* Everything a list may hold, a query included, is one of three kinds of block.
LEMMA ValueKinds ==
    /\ \A f \in Families : \A v \in Values(f) :
          /\ v.fam = f
          /\ v.t # "unread" =>
                /\ v.lo \in Addr
                /\ \/ v.t = "addr" /\ v.hi = v.lo
                   \/ v.t = "prefix" /\ v.hi \in 0 .. Width
                   \/ v.t = "range" /\ v.hi \in Addr /\ v.lo <= v.hi
    /\ \A q \in Queries :
          /\ q.fam \in Families /\ q.lo \in Addr
          /\ \/ q.t = "addr" /\ q.hi = q.lo
             \/ q.t = "prefix" /\ q.hi \in 0 .. Width /\ q.lo = Masked(q.lo, q.hi)
<1>1. 2^Width \in Nat \ {0} /\ Width \in Nat
  BY LookupAssumption
<1>2. Addr \subseteq Nat /\ \A a \in Addr : \A b \in 0 .. a : b \in Addr
  BY <1>1 DEF Addr
<1>3. ASSUME NEW f \in Families, NEW v \in Bare(f)
      PROVE  /\ v.fam = f
             /\ v.t # "unread" =>
                   /\ v.lo \in Addr
                   /\ \/ v.t = "addr" /\ v.hi = v.lo
                      \/ v.t = "prefix" /\ v.hi \in 0 .. Width
                      \/ v.t = "range" /\ v.hi \in Addr /\ v.lo <= v.hi
  <2>1. CASE \E a \in Addr : v = Address(f, a)
    BY <2>1 DEF Address, Value
  <2>2. CASE \E a \in Addr : v = Unread(f, a)
    BY <2>2 DEF Unread, Value
  <2>3. CASE \E a \in Addr, n \in 0 .. Width : v = Prefix(f, a, n)
    BY <2>3 DEF Prefix, Value
  <2>4. CASE \E ab \in {x \in Addr \X Addr : x[1] <= x[2]} : v = Interval(f, ab[1], ab[2])
    BY <2>4 DEF Interval, Value
  <2> QED  BY <2>1, <2>2, <2>3, <2>4 DEF Bare
<1>4. ASSUME NEW f \in Families, NEW v \in Values(f)
      PROVE  /\ v.fam = f
             /\ v.t # "unread" =>
                   /\ v.lo \in Addr
                   /\ \/ v.t = "addr" /\ v.hi = v.lo
                      \/ v.t = "prefix" /\ v.hi \in 0 .. Width
                      \/ v.t = "range" /\ v.hi \in Addr /\ v.lo <= v.hi
  <2>1. PICK u \in Bare(f) : u.t = v.t /\ u.fam = v.fam /\ u.lo = v.lo /\ u.hi = v.hi
    BY Unwrapped
  <2> QED  BY <1>3, <2>1
<1>5. ASSUME NEW q \in Queries
      PROVE  /\ q.fam \in Families /\ q.lo \in Addr
             /\ \/ q.t = "addr" /\ q.hi = q.lo
                \/ q.t = "prefix" /\ q.hi \in 0 .. Width /\ q.lo = Masked(q.lo, q.hi)
  <2>1. CASE \E f \in Families, a \in Addr : q = Address(f, a)
    BY <2>1 DEF Address, Value
  <2>2. ASSUME NEW f \in Families, NEW a \in Addr, NEW n \in 0 .. Width, q = Prefix(f, Masked(a, n), n)
        PROVE  q.fam \in Families /\ q.lo \in Addr /\ q.t = "prefix" /\ q.hi \in 0 .. Width /\ q.lo = Masked(q.lo, q.hi)
    <3>1. a \in Nat /\ Masked(a, n) \in 0 .. a /\ Block(n) \in Nat \ {0} /\ Masked(a, n) \in Nat
      BY <1>2, MaskedBlock
    <3>2. Masked(a, n) = Masked(Masked(a, n), n)
      BY <3>1, MaskedBlock
    <3> QED  BY <1>2, <2>2, <3>1, <3>2 DEF Prefix, Value
  <2> QED  BY <2>1, <2>2 DEF Queries
<1> QED  BY <1>4, <1>5

\* What a value covers lies between its ends, and its first address is one.
LEMMA CoveredBlock ==
    ASSUME NEW v, v.lo \in Addr,
           \/ v.t = "addr" /\ v.hi = v.lo
           \/ v.t = "prefix" /\ v.hi \in 0 .. Width
           \/ v.t = "range" /\ v.hi \in Addr /\ v.lo <= v.hi
    PROVE  /\ First(v) \in Addr /\ Last(v) \in Int /\ First(v) <= Last(v)
           /\ AddressesOf(v) = {a \in Addr : First(v) <= a /\ a <= Last(v)}
           /\ v.t = "prefix" => \A f \in Families, a \in Addr :
                 PrefixContains(v, f, a) <=> v.fam = f /\ First(v) <= a /\ a <= Last(v)
<1>1. 2^Width \in Nat \ {0}
  BY LookupAssumption
<1>2. Addr \subseteq Nat /\ \A a \in Addr : \A b \in 0 .. a : b \in Addr
  BY <1>1 DEF Addr
<1>3. CASE v.t = "prefix"
  <2>1. First(v) = Masked(v.lo, v.hi) /\ Last(v) = Masked(v.lo, v.hi) + Block(v.hi) - 1
    BY <1>3 DEF First, Last
  <2>2. Block(v.hi) \in Nat \ {0} /\ Masked(v.lo, v.hi) \in 0 .. v.lo
    BY <1>2, <1>3, MaskedBlock
  <2>3. \A a \in Addr : Masked(v.lo, v.hi) = Masked(a, v.hi) <=> First(v) <= a /\ a <= Last(v)
    <3> SUFFICES ASSUME NEW a \in Addr
                 PROVE  Masked(v.lo, v.hi) = Masked(a, v.hi) <=> First(v) <= a /\ a <= Last(v)
      OBVIOUS
    <3>1. Masked(v.lo, v.hi) = Masked(a, v.hi) <=> Masked(v.lo, v.hi) <= a /\ a < Masked(v.lo, v.hi) + Block(v.hi)
      BY <1>2, <1>3, MaskedBlock
    <3> QED  BY <1>2, <2>1, <2>2, <3>1
  <2>4. First(v) \in Addr /\ Last(v) \in Int /\ First(v) <= Last(v)
    <3>1. v.lo \in Nat /\ First(v) \in Addr /\ First(v) \in Nat
      BY <1>2, <2>1, <2>2
    <3> QED  BY <2>1, <2>2, <3>1
  <2> QED  BY <1>3, <2>3, <2>4 DEF AddressesOf, PrefixContains
<1>4. CASE v.t # "prefix"
  <2>1. First(v) = v.lo /\ Last(v) = v.hi /\ AddressesOf(v) = v.lo .. v.hi
    BY <1>4 DEF First, Last, AddressesOf
  <2>2. v.lo \in Addr /\ v.hi \in Addr /\ v.lo <= v.hi
    <3>1. v.lo \in Nat
      BY <1>2
    <3>2. v.lo <= v.lo
      BY <3>1
    <3> QED  BY <1>4, <3>2
  <2> QED  BY <1>1, <1>4, <2>1, <2>2 DEF Addr
<1> QED  BY <1>3, <1>4

\* elementValueOverlapsQuery holds exactly if value and query share an address.
LEMMA OverlapExact ==
    ASSUME NEW v \in Values(4), v.t # "unread", ~v.wrapped, NEW q \in Queries
    PROVE  elementValueOverlapsQuery(v, q) <=> v.fam = q.fam /\ AddressesOf(v) \cap AddressesOf(q) # {}
<1>1. 2^Width \in Nat \ {0}
  BY LookupAssumption
<1>2. Addr \subseteq Nat
  BY <1>1 DEF Addr
<1>3. /\ v.fam = 4 /\ v.lo \in Addr
      /\ \/ v.t = "addr" /\ v.hi = v.lo
         \/ v.t = "prefix" /\ v.hi \in 0 .. Width
         \/ v.t = "range" /\ v.hi \in Addr /\ v.lo <= v.hi
  BY ValueKinds DEF Families
<1>4. /\ q.fam \in Families /\ q.lo \in Addr
      /\ \/ q.t = "addr" /\ q.hi = q.lo
         \/ q.t = "prefix" /\ q.hi \in 0 .. Width /\ q.lo = Masked(q.lo, q.hi)
  BY ValueKinds
<1>5. /\ First(v) \in Addr /\ Last(v) \in Int /\ First(v) <= Last(v)
      /\ AddressesOf(v) = {a \in Addr : First(v) <= a /\ a <= Last(v)}
      /\ v.t = "prefix" => \A f \in Families, a \in Addr :
            PrefixContains(v, f, a) <=> v.fam = f /\ First(v) <= a /\ a <= Last(v)
  BY <1>3, CoveredBlock
<1>6. /\ First(q) \in Addr /\ Last(q) \in Int /\ First(q) <= Last(q)
      /\ AddressesOf(q) = {a \in Addr : First(q) <= a /\ a <= Last(q)}
      /\ q.t = "prefix" => \A f \in Families, a \in Addr :
            PrefixContains(q, f, a) <=> q.fam = f /\ First(q) <= a /\ a <= Last(q)
  BY <1>4, CoveredBlock
<1>7. First(q) = q.lo /\ (q.t = "addr" => Last(q) = q.lo)
  BY <1>4 DEF First, Last
<1>8. v.t # "prefix" => First(v) = v.lo /\ Last(v) = v.hi
  BY DEF First, Last
<1>9. AddressesOf(v) \cap AddressesOf(q) # {} <=> First(v) <= Last(q) /\ First(q) <= Last(v)
  <2>1. First(v) \in Nat /\ First(q) \in Nat
    BY <1>2, <1>5, <1>6
  <2>2. ASSUME NEW a \in AddressesOf(v), a \in AddressesOf(q)
        PROVE  First(v) <= Last(q) /\ First(q) <= Last(v)
    <3>1. a \in Nat /\ First(v) <= a /\ a <= Last(v) /\ First(q) <= a /\ a <= Last(q)
      BY <1>2, <1>5, <1>6, <2>2
    <3> QED  BY <1>5, <1>6, <2>1, <3>1
  <2>3. ASSUME First(v) <= Last(q), First(q) <= Last(v)
        PROVE  \E a \in Addr : a \in AddressesOf(v) /\ a \in AddressesOf(q)
    <3>1. CASE First(v) <= First(q)
      <4>1. First(q) \in AddressesOf(v) /\ First(q) \in AddressesOf(q)
        BY <1>5, <1>6, <2>1, <2>3, <3>1
      <4> QED  BY <1>6, <4>1
    <3>2. CASE First(q) <= First(v)
      <4>1. First(v) \in AddressesOf(v) /\ First(v) \in AddressesOf(q)
        BY <1>5, <1>6, <2>1, <2>3, <3>2
      <4> QED  BY <1>5, <4>1
    <3> QED  BY <2>1, <3>1, <3>2
  <2> QED  BY <2>2, <2>3
<1>10. CASE v.fam # q.fam
  BY <1>10 DEF elementValueOverlapsQuery, addrMatchesQuery, prefixMatchesQuery, rangeMatchesQuery
<1>11. CASE v.fam = q.fam /\ v.t = "addr"
  <2>1. elementValueOverlapsQuery(v, q) <=> IF q.t = "prefix" THEN PrefixContains(q, v.fam, v.lo) ELSE v.lo = q.lo
    BY <1>11 DEF elementValueOverlapsQuery, addrMatchesQuery, isCIDR
  <2> QED  BY <1>2, <1>3, <1>4, <1>5, <1>6, <1>7, <1>8, <1>9, <1>11, <2>1
<1>12. CASE v.fam = q.fam /\ v.t = "prefix"
  <2> DEFINE net == Masked(v.lo, v.hi)
             InValue == net = Masked(q.lo, v.hi)
             InQuery == Masked(q.lo, q.hi) = Masked(net, q.hi)
  <2>1. elementValueOverlapsQuery(v, q) <=> InValue \/ (q.t = "prefix" /\ InQuery)
    BY <1>12 DEF elementValueOverlapsQuery, prefixMatchesQuery, isCIDR, PrefixContains
  <2>2. InValue <=> First(v) <= q.lo /\ q.lo <= Last(v)
    <3>1. PrefixContains(v, q.fam, q.lo) <=> v.fam = q.fam /\ First(v) <= q.lo /\ q.lo <= Last(v)
      BY <1>4, <1>5, <1>12
    <3> QED  BY <1>12, <3>1 DEF PrefixContains
  <2>3. q.t = "prefix" => (InQuery <=> q.lo <= First(v) /\ First(v) <= Last(q))
    <3>1. First(v) = net
      BY <1>12 DEF First
    <3>2. q.t = "prefix" => (PrefixContains(q, v.fam, First(v)) <=> q.fam = v.fam /\ q.lo <= First(v) /\ First(v) <= Last(q))
      BY <1>4, <1>5, <1>6, <1>7, <1>12
    <3> QED  BY <1>12, <3>1, <3>2 DEF PrefixContains
  <2> HIDE DEF InValue, InQuery
  <2>4. q.t = "addr" \/ q.t = "prefix"
    BY <1>4
  <2>5. First(v) \in Nat /\ q.lo \in Nat
    BY <1>2, <1>4, <1>5
  <2>6. elementValueOverlapsQuery(v, q) <=> First(v) <= Last(q) /\ q.lo <= Last(v)
    <3>1. CASE q.t = "addr"
      <4>1. elementValueOverlapsQuery(v, q) <=> First(v) <= q.lo /\ q.lo <= Last(v)
        BY <2>1, <2>2, <3>1
      <4> QED  BY <1>7, <3>1, <4>1
    <3>2. CASE q.t = "prefix"
      <4>1. elementValueOverlapsQuery(v, q) <=>
                \/ First(v) <= q.lo /\ q.lo <= Last(v)
                \/ q.lo <= First(v) /\ First(v) <= Last(q)
        BY <2>1, <2>2, <2>3, <3>2
      <4> QED  BY <1>5, <1>6, <1>7, <2>5, <4>1
    <3> QED  BY <2>4, <3>1, <3>2
  <2> QED  BY <1>7, <1>9, <1>12, <2>6
<1>13. CASE v.fam = q.fam /\ v.t = "range"
  <2>1. elementValueOverlapsQuery(v, q) <=>
            \/ q.t = "prefix" /\ (PrefixContains(q, v.fam, v.lo) \/ PrefixContains(q, v.fam, v.hi))
            \/ q.lo >= v.lo /\ q.lo <= v.hi
    BY <1>13 DEF elementValueOverlapsQuery, rangeMatchesQuery, isCIDR
  <2>2. v.lo \in Nat /\ v.hi \in Nat /\ v.lo <= v.hi /\ q.lo \in Nat /\ v.lo \in Addr /\ v.hi \in Addr
    BY <1>2, <1>3, <1>4, <1>13
  <2>3. q.t = "prefix" => /\ PrefixContains(q, v.fam, v.lo) <=> q.lo <= v.lo /\ v.lo <= Last(q)
                          /\ PrefixContains(q, v.fam, v.hi) <=> q.lo <= v.hi /\ v.hi <= Last(q)
    BY <1>4, <1>6, <1>7, <1>13, <2>2
  <2>4. q.t = "addr" \/ q.t = "prefix"
    BY <1>4
  <2>5. First(v) = v.lo /\ Last(v) = v.hi
    BY <1>8, <1>13
  <2> QED  BY <1>6, <1>7, <1>9, <1>13, <2>1, <2>2, <2>3, <2>4, <2>5
<1> QED  BY <1>3, <1>10, <1>11, <1>12, <1>13

\* What is met is what is read and shares an address with the query; the elements
\* of a named set are read wrapped or not.
LEMMA ReadExact ==
    ASSUME NEW v \in Values(4), NEW q \in Queries
    PROVE  LET Meets == v.fam = q.fam /\ AddressesOf(v) \cap AddressesOf(q) # {} IN
           /\ elementValueOverlapsQuery(v, q) <=> v.t # "unread" /\ ~v.wrapped /\ Meets
           /\ elementMatchesQuery(v, q) <=> v.t # "unread" /\ Meets
<1> DEFINE u == unwrapElem(v)
           M(x) == x.fam = q.fam /\ AddressesOf(x) \cap AddressesOf(q) # {}
<1>1. /\ u \in Bare(4) /\ ~u.wrapped /\ v.wrapped \in BOOLEAN
      /\ u.t = v.t /\ u.fam = v.fam /\ u.lo = v.lo /\ u.hi = v.hi
  BY Unwrapped DEF Families
<1>2. u \in Values(4)
  BY <1>1 DEF Values
<1>3. elementMatchesQuery(v, q) = elementValueOverlapsQuery(u, q)
  BY DEF elementMatchesQuery
<1> HIDE DEF u
<1>4. AddressesOf(u) = AddressesOf(v)
  BY <1>1 DEF AddressesOf, PrefixContains
<1>5. M(u) <=> M(v)
  BY <1>1, <1>4
<1>6. \A x : x.t = "unread" \/ x.wrapped => ~elementValueOverlapsQuery(x, q)
  BY DEF elementValueOverlapsQuery
<1> HIDE DEF M
<1>7. \A x \in Values(4) : x.t # "unread" /\ ~x.wrapped => (elementValueOverlapsQuery(x, q) <=> M(x))
  BY OverlapExact DEF M
<1>8. elementValueOverlapsQuery(v, q) <=> v.t # "unread" /\ ~v.wrapped /\ M(v)
  BY <1>1, <1>6, <1>7
<1>9. elementValueOverlapsQuery(u, q) <=> v.t # "unread" /\ M(v)
  BY <1>1, <1>2, <1>5, <1>6, <1>7
<1> QED  BY <1>3, <1>8, <1>9 DEF M

\* The answer for a list of values.
LEMMA LookupAnswer ==
    ASSUME NEW in \in LookupInputs
    PROVE  LET Reads(v) == v.t # "unread" /\ (in.form = "ref" \/ ~v.wrapped)
               Meets(v) == v.fam = in.q.fam /\ AddressesOf(v) \cap AddressesOf(in.q) # {}
               met == {in.values[i] : i \in {k \in DOMAIN in.values : Reads(in.values[k]) /\ Meets(in.values[k])}}
           IN  /\ Lookup(in).matches # {} <=> met # {} /\ in.field = "saddr"
               /\ {h.value : h \in Lookup(in).sets} = IF in.form = "ref" /\ in.include THEN met ELSE {}
               /\ "exact" \in Lookup(in).matches => \E v \in met : v.t = "addr" /\ v.lo = in.q.lo
<1> DEFINE vs == in.values
           q == in.q
           Hit(i) == IF in.form = "ref" THEN elementMatchesQuery(vs[i], q) ELSE elementValueOverlapsQuery(vs[i], q)
           hits == {i \in DOMAIN vs : Hit(i)}
           named == [fam |-> 4, elem |-> IF in.form = "ref" THEN vs ELSE <<>>]
           rhs == [form |-> in.form, values |-> vs]
           Reads(v) == v.t # "unread" /\ (in.form = "ref" \/ ~v.wrapped)
           Meets(v) == v.fam = in.q.fam /\ AddressesOf(v) \cap AddressesOf(in.q) # {}
           met == {in.values[i] : i \in {k \in DOMAIN in.values : Reads(in.values[k]) /\ Meets(in.values[k])}}
<1>1. q \in Queries /\ in.field \in {"saddr", "dport"} /\ in.form \in {"literal", "ref"} /\ vs \in Seq(Values(4))
      /\ in.include \in BOOLEAN
  BY LookupAssumption DEF LookupInputs
<1>2. DOMAIN vs \subseteq Nat /\ \A i \in DOMAIN vs : vs[i] \in Values(4)
  BY <1>1
<1>3. \A i \in DOMAIN vs : Hit(i) <=> Reads(vs[i]) /\ Meets(vs[i])
  <2> SUFFICES ASSUME NEW i \in DOMAIN vs PROVE Hit(i) <=> Reads(vs[i]) /\ Meets(vs[i])
    OBVIOUS
  <2>1. /\ elementValueOverlapsQuery(vs[i], q) <=> vs[i].t # "unread" /\ ~vs[i].wrapped /\ Meets(vs[i])
        /\ elementMatchesQuery(vs[i], q) <=> vs[i].t # "unread" /\ Meets(vs[i])
    BY <1>1, <1>2, ReadExact
  <2> HIDE DEF Meets
  <2> QED  BY <1>1, <2>1
<1>4. met = {vs[i] : i \in hits}
  <2> HIDE DEF Meets, Reads, Hit
  <2> QED  BY <1>3
<1>5. \A i \in hits : vs[i].fam = q.fam /\ vs[i].fam = 4
  <2>1. \A i \in DOMAIN vs : vs[i].fam = 4
    BY <1>2, ValueKinds DEF Families
  <2> QED  BY <1>3, <2>1
<1>6. /\ Lookup(in).sets = IF in.include THEN setHits(named, q) ELSE {}
      /\ Lookup(in).matches = IF in.field = "saddr" THEN evaluateRightSide(rhs, q, named) ELSE {}
  BY <1>1 DEF Lookup, matchRuleAgainstQuery
<1>7. in.form = "ref" => {h.value : h \in setHits(named, q)} = met
  <2> SUFFICES ASSUME in.form = "ref" PROVE {h.value : h \in setHits(named, q)} = met
    OBVIOUS
  <2>1. named.fam = 4 /\ named.elem = vs
    OBVIOUS
  <2>2. CASE q.fam # 4
    <3>1. setHits(named, q) = {}
      BY <2>1, <2>2 DEF setHits
    <3>2. hits = {}
      BY <1>5, <2>2
    <3> HIDE DEF hits, met
    <3> QED  BY <1>4, <3>1, <3>2
  <2>3. CASE q.fam = 4
    <3> DEFINE Kind(v) == IF isCIDR(q) \/ v.t # "addr" THEN "set_subset_overlap" ELSE "set_member"
    <3>1. setHits(named, q) = {[value |-> v, kind |-> Kind(v)] : v \in {vs[i] : i \in hits}}
      <4>1. hits = {i \in DOMAIN vs : elementMatchesQuery(vs[i], q)}
        OBVIOUS
      <4> HIDE DEF hits
      <4> QED  BY <2>1, <2>3, <4>1 DEF setHits
    <3> DEFINE V == {vs[i] : i \in hits}
    <3>2. {h.value : h \in {[value |-> v, kind |-> Kind(v)] : v \in V}} = V
      <4> HIDE DEF V, Kind
      <4>1. \A v \in V : [value |-> v, kind |-> Kind(v)].value = v
        OBVIOUS
      <4> QED  BY <4>1
    <3> HIDE DEF hits, met, Kind
    <3> QED  BY <1>4, <3>1, <3>2
  <2> QED  BY <2>2, <2>3
<1>8. {h.value : h \in Lookup(in).sets} = IF in.form = "ref" /\ in.include THEN met ELSE {}
  <2>1. CASE in.form = "literal"
    <3>1. named.elem = <<>>
      BY <2>1
    <3>2. setHits(named, q) = {}
      BY <3>1 DEF setHits
    <3> HIDE DEF met, named
    <3> QED  BY <1>6, <2>1, <3>2
  <2>2. CASE in.form = "ref"
    <3> HIDE DEF met, named
    <3> QED  BY <1>1, <1>6, <1>7, <2>2
  <2> QED  BY <1>1, <2>1, <2>2
<1>9. CASE in.field = "saddr" /\ in.form = "ref"
  <2>1. Lookup(in).matches = IF setHits(named, q) = {} THEN {}
                             ELSE {IF isCIDR(q) THEN "set_subset_overlap" ELSE "set_member"}
    BY <1>6, <1>9 DEF evaluateRightSide
  <2> HIDE DEF met, named
  <2>2. Lookup(in).matches # {} <=> met # {}
    BY <1>7, <1>9, <2>1
  <2>3. "exact" \notin Lookup(in).matches
    BY <2>1
  <2> QED  BY <1>9, <1>8, <2>2, <2>3 DEF met
<1>10. CASE in.field = "saddr" /\ in.form = "literal"
  <2>1. Lookup(in).matches = {literalKind(vs[i], q) : i \in {k \in hits : \A j \in hits : k <= j}}
    <3>1. hits = {i \in DOMAIN vs : elementValueOverlapsQuery(vs[i], q)}
      BY <1>10
    <3> HIDE DEF hits
    <3> QED  BY <1>6, <1>10, <3>1 DEF evaluateRightSide
  <2>2. hits # {} => \E k \in hits : \A j \in hits : k <= j
    <3>1. hits \in SUBSET Nat
      BY <1>2
    <3> HIDE DEF hits
    <3> QED  BY <3>1, FirstIndex
  <2>3. Lookup(in).matches # {} <=> met # {}
    <3> HIDE DEF hits, met
    <3> QED  BY <1>4, <2>1, <2>2
  <2>4. ASSUME "exact" \in Lookup(in).matches
        PROVE  \E v \in met : v.t = "addr" /\ v.lo = q.lo
    <3>1. PICK i \in hits : literalKind(vs[i], q) = "exact"
      BY <2>1, <2>4
    <3>2. vs[i].t = "addr" /\ ~isCIDR(q)
      BY <3>1 DEF literalKind
    <3>3. vs[i].lo = q.lo
      BY <1>10, <3>1, <3>2 DEF elementValueOverlapsQuery, addrMatchesQuery
    <3>4. vs[i] \in met
      BY <1>4, <3>1
    <3> QED  BY <3>2, <3>3, <3>4
  <2> QED  BY <1>10, <1>8, <2>3, <2>4
<1>11. CASE in.field = "dport"
  <2>1. Lookup(in).matches = {}
    BY <1>6, <1>11
  <2> QED  BY <1>11, <1>8, <2>1
<1> QED  BY <1>1, <1>9, <1>10, <1>11

\* For any width of addresses and any list of values, the answer names exactly what
\* is read and shares an address with the query, the elements if they are asked for.
THEOREM LookupExact == RepSpec => []LookupFindsOverlaps
<1>1. RepInv => LookupFindsOverlaps
  <2> SUFFICES ASSUME RepInv, Given("lookup") PROVE LookupFindsOverlaps
    BY DEF LookupFindsOverlaps
  <2>1. case \in LookupInputs /\ report = Lookup(case)
    BY DEF RepInv, CaseRead, AnswerOfCase, Given
  <2> QED  BY <2>1, LookupAnswer DEF LookupFindsOverlaps
<1> QED  BY <1>1, RepInvariance, PTL
=============================================================================
