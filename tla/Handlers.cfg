CONSTANTS
    h1 = h1
    h2 = h2
    h3 = h3
    None = None
    Paths = {p1, p2}
    Objects = {o1, o2, o3}
    Handlers = {h1, h2, h3}
    Wants <- TypesWanted
SYMMETRY ObjectSymmetry
SPECIFICATION HandlersSpec
INVARIANTS
    ListsExact
    EveryoneCalled
