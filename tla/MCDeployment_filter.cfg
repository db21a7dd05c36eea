\* The filter key is set, generated, cleared and generated again.
CONSTANTS
    Manifests <- MCManifests
    DaemonYmls <- MCYmls
    Elsewhere <- MCElsewhere
    Compiled = {"wireguard", "nginx_apache"}
SPECIFICATION DepSpec
INVARIANT FilterFollowsConfig
CHECK_DEADLOCK FALSE
