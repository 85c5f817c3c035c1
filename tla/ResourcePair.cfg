CONSTANTS
    in = in
    out = out
    obs = obs
    C = C
    F = F
    None = None
    NoSource = NoSource
    Resources = {in, out}
    ObsResources = {}
    Units = {C, F}
    Declarations <- PairDeclarations
    Pushes <- PairPushes
    Defaults <- PairDefaults
    Overrides <- PairOverrides
    RoutePairs <- PairRoutes
SPECIFICATION Spec
INVARIANTS
    TypesMatch
    OverrideHolds
