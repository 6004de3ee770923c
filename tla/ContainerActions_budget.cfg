\* Two requests in flight, an entry on two ports, containers from a terminal.
CONSTANTS
    vllm = vllm
    terminal = terminal
    unflagged = unflagged
    Requests = {r1, r2}
    Entries = {vllm}
    Ports = {p1, p2}
    Outside = {terminal, unflagged}
    Unread = {unflagged}
    Share <- Shares
    Maximum = 70
SYMMETRY Symmetry
SPECIFICATION Spec
PROPERTIES
    LaunchFits
    LaunchIsAlone
CHECK_DEADLOCK FALSE
