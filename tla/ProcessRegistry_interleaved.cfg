\* Two requests on an entry, strangers of each kind on its port or beside it.
CONSTANTS
    Requests = {r1, r2}
    Entries = {jupyter}
    Declared = {}
    Interpreted = {}
    Strangers = {"unrelated", "namesake", "another user's"}
    Hidden = {"another user's"}
    Names <- NamedBy
    Pids = {p1, p2}
    MaxBirths = 2
SYMMETRY Symmetry
SPECIFICATION Spec
INVARIANTS
    StopHitsOwnInstance
    RefusalNamesLiveInstance
    EffectsLogged
    SerialRegistryIsExact
CHECK_DEADLOCK FALSE
