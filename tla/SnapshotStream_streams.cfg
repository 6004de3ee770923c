\* Two browsers, a peer, two writes.
CONSTANTS
    Streams = {s1, s2}
    Local = spark1
    Peers = {spark2}
    Sections = {gpu}
    MaxVersion = 2
SPECIFICATION FairSpec
INVARIANTS
    StreamInv
PROPERTIES
    ViewNeverGoesBack
    ImplementsFeed
    EveryWriteIsShown
    StreamsEndPromptly
    ServerStopsAnyway
CHECK_DEADLOCK FALSE
