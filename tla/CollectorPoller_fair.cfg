\* A collector that probes and connects, and one that depends on it; one thread.
CONSTANTS
    containers = containers
    processes = processes
    Collectors = {containers, processes}
    DependsOn <- PairDepends
    Probing = {containers}
    Connecting = {containers}
    Absent = {}
    MayHang = {containers, processes}
    Threads = {th1}
    MaxRuns = 2
SPECIFICATION FairSpec
INVARIANTS
    ErrorKeepsLastGood
PROPERTIES
    StopCompletes
    EveryRunEnds
    PruningGoesOn
CHECK_DEADLOCK FALSE
