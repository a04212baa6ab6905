SPECIFICATION Spec
CONSTANTS
    PRs = {p1, p2}
    Products = {"web", "app"}
    DefaultBackend <- SomeBackends
    Backends = {"bff"}
    Params = {"{a}", "{b}"}
    InitSpec <- SomeSpec
    Drafts <- SomeDrafts
    Prefixes <- SomePrefixes
    Filters <- SomeFilters
    Paths <- SomePaths
    MaxEdits = 2
SYMMETRY PRSymmetry
CHECK_DEADLOCK FALSE
INVARIANTS TypeOK MainInSync RoutesDistinct WideningIsBounded
PROPERTIES PrefixIsInvisible
