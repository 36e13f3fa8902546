SPECIFICATION Spec

CONSTANTS
    r1 = r1
    r2 = r2
    s1 = s1
    s2 = s2
    Reservations = {r1, r2}
    Feasible = {r1, r2}
    Links = {}
    ShadowIds = {s1, s2}
    Master = Master
    NodeOnly = TRUE

SYMMETRY Symmetry

INVARIANTS
    TypeOK
    ShadowsInSync
    NeverPanics
    PromiseIsTracked
