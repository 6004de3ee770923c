\* Two roots that take longer together than a collection may, two models
\* that are downloaded into while they are walked, a history over its ceiling.
CONSTANTS
    huggingface = huggingface
    data = data
    docker = docker
    qwen = qwen
    llama = llama
    Roots <- RootList
    DockerRoot = docker
    Denied = {docker}
    Huge = {huggingface}
    DuTtl = 22
    DuLimit = 2
    DiskTimeout = 3
    DiskInterval = 2
    DiskThreads = {1, 2, 3}
    Entries <- EntryList
    MaxContent = 1
    Walkers = {1, 2, 3}
    utilization = utilization
    used = used
    running = running
    Recorders <- RecordedMetrics
    Window = 2
    PruneEvery = 1
    PruneLate = 1
    Ceiling = 9
    MaxStarts = 2
SPECIFICATION FairMeasurements
INVARIANTS
    MeasurementsTypeOK
    ShownIsRecent
    ChartsLoseTheOldest
    FileIsBounded
PROPERTIES
    SlowMeasurementsArrive
