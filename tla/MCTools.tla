------------------------------ MODULE MCTools -------------------------------
(***************************************************************************)
(* Instances of the rate limiter, the storage tool, the firewall tool, the *)
(* reports, the deployment and the plugin.  They share no state, so a      *)
(* behaviour is one of sel's component while the others keep one state.    *)
(***************************************************************************)
EXTENDS MCDeployment, RateLimiter, StorageTool, FirewallInspect, MCReports, McpPlugin, TLC

CONSTANTS global, dear, exempt, cheap

VARIABLE sel  \* the component of this behaviour

vars == <<sel, limVars, stVars, fwVars, depVars, repVars, mcpVars>>

MCDevices == <<"sda", "sdb", "sdc">>
MCOps == <<"md0", "lvm", "zpool", "btrfs">>
MCSetKeys == <<"a", "b", "c">>
MCTableOf == [k \in {"a", "b", "c"} |-> IF k = "b" THEN "t2" ELSE "t1"]
MCBanLists == {<<>>, <<"c", "c">>, <<"b", "c">>}
\* Two daemons: one named bare, and with its suffix and port spelt out, one by a bracketed
\* address; and a spelling that is refused.
MCSpellings == {[name |-> "web", form |-> "name", port |-> "none"],
                [name |-> "web", form |-> "dotted", port |-> "default"],
                [name |-> "v6", form |-> "bracket", port |-> "other"],
                [name |-> "v6", form |-> "v6", port |-> "none"]}

\* The global bucket and the tool's, as main.go and daemon.yml set them, scaled
\* down: a minute has two units of time, so a token is two parts, and an idle
\* time as long as IdleLimit fills either bucket.
RateNarrow == (global :> 2) @@ (dear :> 1)
BurstNarrow == (global :> 2) @@ (dear :> 1)

\* The one state of a component that does not run.
FwIdle == /\ fwReq = (CHOOSE r \in Requests : TRUE)
          /\ fwLive = [k \in Keys |-> Gone]
          /\ fwPc = "idle" /\ fwSets = NoSets /\ fwRes = NoFwResult
          /\ fwTodo = <<>> /\ fwLeft = ElemBudget
DepIdle == DepInit /\ man = (CHOOSE m \in Manifests : TRUE) /\ dyml = (CHOOSE d \in DaemonYmls : TRUE)
RepIdle == case = NoReport /\ report = NoReport
McpIdle == McpInit /\ deflt = NoHost /\ daemons = [h \in Resolved |-> "same"]

Init ==
    /\ StInit /\ LimInit
    /\ \/ sel \in {"limiter", "storage"} /\ FwIdle /\ DepIdle /\ RepIdle /\ McpIdle
       \/ sel = "firewall" /\ FwInit /\ DepIdle /\ RepIdle /\ McpIdle
       \/ sel = "deployment" /\ FwIdle /\ DepInit /\ RepIdle /\ McpIdle
       \/ sel = "reports" /\ FwIdle /\ DepIdle /\ RepInit /\ McpIdle
       \/ sel = "plugin" /\ FwIdle /\ DepIdle /\ RepIdle /\ McpInit

Limit == sel = "limiter" /\ LimNext /\ UNCHANGED <<sel, stVars, fwVars, depVars, repVars, mcpVars>>
Storage == sel = "storage" /\ StNext /\ UNCHANGED <<sel, limVars, fwVars, depVars, repVars, mcpVars>>
Firewall == sel = "firewall" /\ FwNext /\ UNCHANGED <<sel, limVars, stVars, depVars, repVars, mcpVars>>
Deploy == sel = "deployment" /\ DepNext /\ UNCHANGED <<sel, limVars, stVars, fwVars, repVars, mcpVars>>
Report == sel = "reports" /\ RepNext /\ UNCHANGED <<sel, limVars, stVars, fwVars, depVars, mcpVars>>
Plugin == sel = "plugin" /\ McpNext /\ UNCHANGED <<sel, limVars, stVars, fwVars, depVars, repVars>>

Next == Limit \/ Storage \/ Firewall \/ Deploy \/ Report \/ Plugin

Spec == Init /\ [][Next]_vars
=============================================================================
