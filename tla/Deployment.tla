----------------------------- MODULE Deployment -----------------------------
(***************************************************************************)
(* From the two configuration files to what runs: the generator derives    *)
(* the helper's capabilities and the daemon's packet filter from them, the *)
(* helper and the daemon pick up what is there when they are restarted,    *)
(* the operator edits, generates and restarts in any order, and meanwhile  *)
(* the daemon calls what its tools need, whatever the helper may do.       *)
(***************************************************************************)
EXTENDS Naturals, Sequences, FiniteSets

CONSTANTS
    Manifests,  \* manifest.yml: records [form, tools, plugins, backends, mounts],
                \* mounts saying whether btrfs_mountpoints has any
    Elsewhere,  \* a manifest at a path that the generator does not look at
    DaemonYmls, \* daemon.yml: records [form, public, allow, rules, named, path]: the
                \* redaction rules, the tools it names and the manifest's path
    Compiled    \* workload plugins compiled into the daemon

ASSUME DeploymentAssumption ==
    /\ \A m \in Manifests \cup {Elsewhere} : m.form \in {"absent", "empty", "ok", "unknown_key", "bad_selector", "broken"}
    /\ \A d \in DaemonYmls : d.form \in {"absent", "ok", "unknown_key", "incomplete", "broken"}

VARIABLES
    man,      \* manifest.yml
    dyml,     \* daemon.yml
    capsConf, \* the helper's drop-in: [caps, from], from the manifest it was made from
    filter,   \* is there a 10-ip-filter.conf?
    genFrom,  \* daemon.yml of the last run of the generator that succeeded
    helper,   \* the helper: [up, caps, from, read, warned, lost]; lost, a history, is
              \* what it ran without the capability for it
    daemon    \* the daemon: [up, from, exposed, yml, gen, filtered]

depVars == <<man, dyml, capsConf, filter, genFrom, helper, daemon>>

None == [form |-> "none", tools |-> {}, plugins |-> {}, backends |-> {}, mounts |-> FALSE]
NoYml == [form |-> "none", public |-> FALSE, allow |-> FALSE, rules |-> "absent", named |-> {},
          path |-> "default"]
Shipped == [caps |-> {"CAP_CHOWN"}, from |-> None]
Down == [up |-> FALSE, from |-> None, exposed |-> {}, yml |-> NoYml, gen |-> NoYml, filtered |-> FALSE]
HelperDown == [up |-> FALSE, caps |-> {}, from |-> None, read |-> FALSE, warned |-> {}, lost |-> {}]

DepInit ==
    /\ man \in Manifests /\ dyml \in DaemonYmls
    /\ capsConf = Shipped /\ filter = FALSE /\ genFrom = NoYml
    /\ helper = HelperDown /\ daemon = Down

-----------------------------------------------------------------------------
(* capsplan.                                                                *)

DefaultBackends == {"smart", "lvm", "mdraid"}
Backends(m) == IF m.backends = {} THEN DefaultBackends ELSE m.backends

For(m) ==
    {"CAP_CHOWN"}
    \cup (IF "security" \in m.tools THEN {"CAP_AUDIT_CONTROL", "CAP_DAC_READ_SEARCH"} ELSE {})
    \cup (IF "storage" \in m.tools
          THEN {"CAP_DAC_READ_SEARCH"}
               \cup (IF "smart" \in Backends(m) THEN {"CAP_SYS_RAWIO"} ELSE {})
               \cup (IF {"zfs", "btrfs"} \cap Backends(m) # {} THEN {"CAP_SYS_ADMIN"} ELSE {})
          ELSE {})
    \cup (IF "workload" \in m.tools
          THEN (IF "wireguard" \in m.plugins THEN {"CAP_NET_ADMIN"} ELSE {})
               \cup (IF "nginx_apache" \in m.plugins THEN {"CAP_DAC_READ_SEARCH"} ELSE {})
          ELSE {})
    \cup (IF {"firewall", "firewall_lookup"} \cap m.tools # {} THEN {"CAP_NET_ADMIN"} ELSE {})

-----------------------------------------------------------------------------
(* The generator.  An unknown key, a selector the daemon would refuse and a *)
(* daemon.yml that lacks what the daemon needs are no reason to stop.       *)

LoadLenient(form) == form \in {"empty", "ok", "unknown_key", "bad_selector", "incomplete"}

\* run: it ends if the obsolete drop-in cannot be removed or the manifest cannot
\* be looked at or parsed; without a manifest there is nothing to do; a daemon.yml
\* that will not parse costs the filter only.  A write of either drop-in may fail.
Generate ==
    \E checksOk, filterOk, capsOk \in BOOLEAN :
      /\ IF ~checksOk \/ man.form \in {"absent", "broken"}
         THEN UNCHANGED <<capsConf, filter, genFrom>>
         ELSE /\ filter' = (filter \/ (LoadLenient(dyml.form) /\ dyml.allow /\ filterOk))
              /\ capsConf' = IF capsOk THEN [caps |-> For(man), from |-> man] ELSE capsConf
              /\ genFrom' = IF /\ capsOk /\ (LoadLenient(dyml.form) \/ dyml.form = "absent")
                               /\ dyml.allow => filterOk
                            THEN dyml ELSE genFrom
      /\ UNCHANGED <<man, dyml, helper, daemon>>

-----------------------------------------------------------------------------
(* Starting the services.                                                   *)

\* main of the helper: helper.yml, the daemon's user and group and the search path
\* must be in order, or it ends.  systemd has given it the capabilities of the
\* drop-in; it reads its mask once, if it can.
RestartHelper ==
    /\ \E startOk, readOk \in BOOLEAN :
          helper' = IF startOk
                    THEN [up |-> TRUE, caps |-> capsConf.caps, from |-> capsConf.from,
                          read |-> readOk, warned |-> {}, lost |-> {}]
                    ELSE HelperDown
    /\ UNCHANGED <<man, dyml, capsConf, filter, genFrom, daemon>>

\* main of the daemon, up to the listener: every check of the configuration that
\* ends it.
Registered == {"manifest", "system", "storage", "network", "security", "workload", "firewall",
               "firewall_lookup"}
ManifestAtPath == IF dyml.path = "default" THEN man ELSE Elsewhere
StartsOk ==
    /\ dyml.form = "ok"                \* LoadDaemon: strict, and Validate
    /\ ~dyml.public                    \* public bind, not acknowledged
    /\ ManifestAtPath.form = "ok"      \* LoadManifest: strict, and the selectors
    /\ dyml.rules # "broken"           \* LoadRuleFile: an absent file is only warned about
    /\ ManifestAtPath.plugins \subseteq Compiled
    /\ dyml.named \subseteq Registered \* ValidateToolNames
    /\ ManifestAtPath.tools \subseteq Registered

\* An empty enabled_tools exposes every tool.
Exposed(m) == IF m.tools = {} THEN Registered ELSE m.tools \cup {"manifest"}

RestartDaemon ==
    /\ daemon' = IF StartsOk
                 THEN [up |-> TRUE, from |-> ManifestAtPath, exposed |-> Exposed(ManifestAtPath),
                       yml |-> dyml, gen |-> genFrom, filtered |-> filter]
                 ELSE Down
    /\ UNCHANGED <<man, dyml, capsConf, filter, genFrom, helper>>

EditManifest == man' \in Manifests \ {man} /\ UNCHANGED <<dyml, capsConf, filter, genFrom, helper, daemon>>
EditDaemonYml == dyml' \in DaemonYmls \ {dyml} /\ UNCHANGED <<man, capsConf, filter, genFrom, helper, daemon>>

-----------------------------------------------------------------------------
(* Calls.  storage asks about every device and about ZFS whatever           *)
(* storage_backends says, which the daemon does not read.                   *)

OpsOf(d) ==
    (IF "storage" \in d.exposed
     THEN {"smart_summary", "zpool_status"} \cup (IF d.from.mounts THEN {"btrfs_scrub"} ELSE {}) ELSE {})
    \cup (IF "network" \in d.exposed THEN {"nft_table_counts"} ELSE {})
    \cup (IF "security" \in d.exposed THEN {"read_audit_status"} ELSE {})
    \cup (IF "workload" \in d.exposed /\ "wireguard" \in d.from.plugins THEN {"wireguard_show"} ELSE {})
    \cup (IF "firewall" \in d.exposed THEN {"firewall_inspect"} ELSE {})
    \cup (IF "firewall_lookup" \in d.exposed THEN {"firewall_lookup"} ELSE {})

\* The capability without which the operation cannot do its work, and the helper's
\* own table of those that would then answer with nothing instead of failing.
Needs(op) ==
    CASE op \in {"zpool_status", "btrfs_scrub"} -> "CAP_SYS_ADMIN"
      [] op = "smart_summary" -> "CAP_SYS_RAWIO"
      [] op = "read_audit_status" -> "CAP_AUDIT_CONTROL"
      [] op \in {"wireguard_show", "firewall_inspect", "firewall_lookup", "nft_table_counts"} -> "CAP_NET_ADMIN"
RequiredCap ==
    [zpool_status |-> "CAP_SYS_ADMIN", btrfs_scrub |-> "CAP_SYS_ADMIN", smart_summary |-> "CAP_SYS_RAWIO",
     read_audit_status |-> "CAP_AUDIT_CONTROL", wireguard_show |-> "CAP_NET_ADMIN",
     firewall_inspect |-> "CAP_NET_ADMIN", firewall_lookup |-> "CAP_NET_ADMIN"]

\* Set.Has: a mask that could not be read has everything.
HasByDropIn(c) == ~helper.read \/ c \in capsConf.caps
Has(c) == ~helper.read \/ c \in helper.caps

\* dispatch: the operation runs either way; a missing capability is logged once.
dispatchOp(op) ==
    /\ daemon.up /\ helper.up /\ op \in OpsOf(daemon)
    /\ helper' = [helper EXCEPT
         !.warned = IF op \in DOMAIN RequiredCap /\ ~Has(RequiredCap[op]) THEN @ \cup {op} ELSE @,
         !.lost = IF Needs(op) \in helper.caps THEN @ ELSE @ \cup {op}]
    /\ UNCHANGED <<man, dyml, capsConf, filter, genFrom, daemon>>

DepNext == \/ Generate \/ RestartHelper \/ RestartDaemon \/ EditManifest \/ EditDaemonYml
           \/ \E op \in OpsOf(daemon) : dispatchOp(op)
DepSpec == DepInit /\ [][DepNext]_depVars

-----------------------------------------------------------------------------
\* Storage operations for a backend that the manifest does not declare.
Undeclared(m) ==
    {op \in {"smart_summary", "zpool_status", "btrfs_scrub"} :
        CASE op = "smart_summary" -> "smart" \notin Backends(m)
          [] op = "zpool_status"  -> "zfs" \notin Backends(m)
          [] op = "btrfs_scrub"   -> "btrfs" \notin Backends(m)}

\* In whatever order files are edited, drop-ins generated and services restarted:
\* what the helper ran without the capability for it is in its log, and nothing
\* else, but for nft_table_counts, which fails aloud; and once both services run
\* from one manifest that names its tools, the helper holds no capability, besides
\* the two for files, that no call of the daemon needs, and lacks one only for a
\* storage backend that is not declared, and for network's nft_table_counts, which
\* the plan never grants one for.
CapsFitCalls ==
    /\ helper.up /\ helper.read =>
          /\ helper.warned \subseteq helper.lost
          /\ helper.lost \ helper.warned \subseteq {"nft_table_counts"}
    /\ daemon.up /\ helper.up /\ helper.from = daemon.from /\ daemon.from.tools # {} =>
          /\ helper.caps \ {"CAP_CHOWN", "CAP_DAC_READ_SEARCH"} \subseteq {Needs(op) : op \in OpsOf(daemon)}
          /\ \A op \in OpsOf(daemon) :
                Needs(op) \in helper.caps \/ op \in Undeclared(daemon.from) \/ op = "nft_table_counts"

\* doc/install.md:424: without ip_filter_allow no filtering is applied, once the
\* generator has run on the file the daemon was started with.
FilterFollowsConfig ==
    daemon.up /\ daemon.gen = daemon.yml => daemon.filtered = daemon.yml.allow
=============================================================================
