SPECIFICATION Spec
CONSTANTS
    Pid = {t, p1, p2}
    Target = t
    t = t
    NoPid = NoPid
    MapSize = 3
SYMMETRY Symmetry
CHECK_DEADLOCK FALSE
INVARIANTS
    TreeIsRegistered
