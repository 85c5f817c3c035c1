CONSTANTS
    IoPaths <- NestedIo
    ObsPaths <- NestedObs
    AdminPaths <- NestedAdmin
    RoutePairs <- NestedRoutes
    Settings = {"override"}
    NoSource = NoSource
SPECIFICATION Spec
INVARIANTS
    RefsBalance
    AssertionsHold
PROPERTIES
    SessionsLive
