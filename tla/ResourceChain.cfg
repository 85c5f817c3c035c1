CONSTANTS
    in = in
    out = out
    obs = obs
    C = C
    F = F
    None = None
    NoSource = NoSource
    Resources = {in, obs, out}
    ObsResources = {obs}
    Units = {}
    Declarations <- ChainDeclarations
    Pushes <- ChainPushes
    Defaults <- ChainDefaults
    Overrides <- ChainOverrides
    RoutePairs <- ChainRoutes
SPECIFICATION Spec
INVARIANTS
    FlagsCleared
    CallsIndependent
PROPERTIES
    PushesEnd
