---------------------------- MODULE MCDeployment ----------------------------
(***************************************************************************)
(* A manifest for each rule of the generator and each way the daemon or    *)
(* the generator refuses one.                                              *)
(***************************************************************************)
EXTENDS Deployment

Man(form, tools, plugins, backends, mounts) ==
    [form |-> form, tools |-> tools, plugins |-> plugins, backends |-> backends, mounts |-> mounts]
MCManifests ==
    {Man("ok", {}, {}, {}, FALSE),
     Man("ok", {"storage", "security", "network"}, {}, {}, FALSE),
     Man("ok", {"storage", "workload"}, {"wireguard", "nginx_apache"}, {"zfs"}, TRUE),
     Man("ok", {"storage", "firewall_lookup"}, {"wireguard"}, {"btrfs", "lvm"}, TRUE),
     Man("broken", {}, {}, {}, FALSE)}
MCElsewhere == Man("ok", {}, {}, {}, FALSE)
Yml(form, allow, rules, named, path) ==
    [form |-> form, public |-> FALSE, allow |-> allow, rules |-> rules, named |-> named, path |-> path]
MCYmls == {Yml("ok", TRUE, "ok", {"storage"}, "default"), Yml("ok", FALSE, "absent", {}, "default"),
           Yml("incomplete", TRUE, "ok", {}, "default")}

\* Fewer of both, for the runs in which calls are made.
MCManifestsFew ==
    {Man("ok", {"storage", "security", "network"}, {}, {}, FALSE),
     Man("ok", {"storage", "workload"}, {"wireguard", "nginx_apache"}, {"zfs"}, TRUE)}
MCYmlsFew == {Yml("ok", FALSE, "absent", {}, "other"), Yml("ok", FALSE, "ok", {}, "default")}
=============================================================================
