\* A bind other than loopback with an allowlist.
CONSTANTS
    Tickets = {t1, t2}
    Tokens = {k1}
    Ips = {ip1}
    Identities = {alice, mallory}
    AllowList = {alice}
    Loopback = FALSE
    EnvToken = "no token"
    TicketTTL = 2
    WhoisTTL = 2
    MaxTime = 4
SYMMETRY Symmetry
SPECIFICATION Spec
INVARIANTS
    AdmittedOwnerIsRecent
    FailClosed
PROPERTIES
    TicketOpensOnce
    NoLateTicket
CHECK_DEADLOCK FALSE
