\* The dashboard and a declared port, each bound to at most two addresses.
CONSTANTS
    p1 = p1
    p2 = p2
    Ports = {p1, p2}
    SelfPort = p1
    Declared = {p2}
    Launchable = {p2}
    PortHint <- NoHints
    Advertise <- Aliased
    Bindable = {"0.0.0.0", "127.0.0.1", "lan", "tailnet", "bridge"}
    Hints = {"app", "unknown"}
    MaxBinds = 2
SPECIFICATION Spec
INVARIANTS
    TellsTheWay
PROPERTIES
    NoHiddenExposure
CHECK_DEADLOCK FALSE
