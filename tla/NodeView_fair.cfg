\* One peer, one restart of the service, three selections, one poll in flight.
CONSTANTS
    Peers <- OnePeer
    Faults <- Garbling
    MaxData = 2
    MaxRestarts = 1
    MaxEffects = 3
    MaxPolls = 1
SPECIFICATION FairViewSpec
INVARIANTS
    ViewTypeOK
    ShownIsSelected
PROPERTIES
    PeerDataIsMonotone
    LocalViewRecovers
    PeerDataReachesBrowser
