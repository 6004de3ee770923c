\* One peer that may also answer what is no snapshot, or have an unreadable token file.
CONSTANTS
    Peers <- OnePeer
    Faults <- AnyFault
    MaxData = 1
    MaxRestarts = 0
    MaxEffects = 1
    MaxPolls = 1
SPECIFICATION FairViewSpec
PROPERTIES
    UnreachableIsReported
