CONSTANTS
    IoPaths <- FlatIo
    ObsPaths <- FlatObs
    AdminPaths <- FlatAdmin
    RoutePairs <- FlatRoutes
    Settings = {"override"}
    NoSource = NoSource
SPECIFICATION Spec
INVARIANTS
    RoutesLive
    RoutesAcyclic
    AnnouncedExactly
PROPERTIES
    DeleteKeepsSettings
