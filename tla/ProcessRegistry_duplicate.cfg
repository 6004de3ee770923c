\* Two launches of an entry at a time.
CONSTANTS
    Requests = {r1, r2}
    Entries = {jupyter}
    Declared = {}
    Interpreted = {}
    Strangers = {}
    Hidden = {}
    Names <- NamedBy
    Pids = {p1, p2}
    MaxBirths = 2
SYMMETRY Symmetry
SPECIFICATION Spec
INVARIANTS
    NoDuplicate
CHECK_DEADLOCK FALSE
