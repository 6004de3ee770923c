--------------------------- MODULE ServiceInventory ---------------------------
(***************************************************************************)
(* What listens on the machine and how it is offered to whoever looks: the *)
(* sections of the network, tailscale and services collectors, each as old *)
(* as its last run, and the access block that the browser composes from    *)
(* the last (collectors/network.py, services.py, endpoints.py,             *)
(* services_catalog.py, web/src/components/access.tsx).                    *)
(*                                                                         *)
(* What a command line, a process name, a container and an image say of a  *)
(* listener is one hint; a socket of another user gives none.              *)
(***************************************************************************)
EXTENDS Reachability

CONSTANTS Ports,
          SelfPort,    \* Settings.port
          Declared,    \* the ports of Settings.services
          Launchable,  \* of those, the ones with a launch command
          PortHint,    \* PORT_HINTS, Unknown where there is none
          Advertise,   \* Settings.advertise_addresses: << >> or <<"alias">>
          Bindable,    \* the addresses a port may be bound to
          Hints,       \* the kinds a listener may give away
          MaxBinds     \* bound on the addresses one port is bound to at a time

(* KINDS: what a kind is for the page *)
Kinds == {"app", "agent", "daemon", "dashboard", "tailscale", Unknown}
Web(k)     == k \in {"app", "dashboard", Unknown}
Notable(k) == k \in {"app", "agent"}   \* neither INFRA nor UNKNOWN

ASSUME InventoryAssumption ==
    /\ SelfPort \in Ports /\ Declared \subseteq Ports /\ Launchable \subseteq Declared
    /\ Advertise \in {<< >>, <<"alias">>}
    /\ Bindable \subseteq Binds /\ MaxBinds \in Nat \ {0}
    /\ PortHint \in [Ports -> Kinds] /\ Hints \subseteq Kinds

VARIABLES bound,     \* port -> the addresses it listens on
          hint,      \* port -> what can be read of its owner
          nic,       \* the machine is on a local network
          tailnet,   \* it is on its tailnet
          ips,       \* TailscaleCollector.ips
          name,      \* self_dns_name in the store's tailscale section
          network,   \* the store's network section: port -> bind addresses
          services,  \* the store's services section: port -> service, or Absent
          host       \* its host addresses

machine == <<bound, hint, nic, tailnet>>
tail    == <<ips, name>>
vars    == <<machine, tail, network, services, host>>

Absent == [bind |-> Unknown, kind |-> Unknown, online |-> FALSE, linkable |-> FALSE,
           notable |-> FALSE, launchable |-> FALSE]
NoHost == [lan |-> << >>, tailnet_ip |-> Unknown, tailnet_name |-> Unknown]

(***************************************************************************)
(* The collectors                                                          *)
(***************************************************************************)
(* collect keeps the addresses; the section follows when run() returns.     *)
(* A daemon that is logged out may still know its name.                     *)
TailscaleCollect ==
    /\ ips' = IF tailnet THEN {"tailnet"} ELSE {}
    /\ UNCHANGED <<machine, name, network, services, host>>

TailscalePublish ==
    /\ name' \in IF ips # {} THEN {"magicdns"} ELSE {"magicdns", Unknown}
    /\ UNCHANGED <<machine, ips, network, services, host>>

(* A line of ss that parse_ss keeps is a listener *)
NetworkCollect ==
    /\ network' = bound
    /\ UNCHANGED <<machine, tail, services, host>>

(* host_addresses over lan_addresses *)
HostAddresses ==
    [lan          |-> Advertise \o (IF nic THEN <<"lan">> ELSE << >>),
     tailnet_ip   |-> IF ips # {} THEN "tailnet" ELSE Unknown,
     tailnet_name |-> name]

\* mutant: the listeners are not sorted
FirstAsListed(p) == network[p]

Findings(p) == {b \in network[p] : IsFinding(b)}

(* Listeners are sorted with the findings first, and each port's first one  *)
(* is its service; what ss lists first is not specified                     *)
First(p) == IF Findings(p) # {} THEN Findings(p) ELSE network[p]

(* classify, and the daemon that binds the tailnet address *)
Kind(p, b) ==
    LET k == IF hint[p] # Unknown THEN hint[p] ELSE PortHint[p]
    IN  IF k = Unknown /\ b \in ips THEN "tailscale" ELSE k

Discovered(p, b) ==
    LET k == Kind(p, b)
    IN  [bind |-> b, kind |-> k, online |-> TRUE, linkable |-> Web(k),
         notable |-> Notable(k), launchable |-> FALSE]

(* _merge_declared: what is declared is shown, found or not *)
Merged(p, s) ==
    IF p \notin Declared THEN s
    ELSE IF s # Absent THEN [s EXCEPT !.notable = TRUE, !.launchable = p \in Launchable]
    ELSE [Absent EXCEPT !.bind = "127.0.0.1", !.linkable = TRUE, !.notable = TRUE,
                        !.launchable = p \in Launchable]

(* The probes go to the loopback address and change no more than a health   *)
Offered(p) == IF network[p] = {} THEN {Absent} ELSE {Discovered(p, b) : b \in First(p)}

ServicesCollect ==
    /\ \E found \in [Ports -> UNION {Offered(p) : p \in Ports}] :
          /\ \A p \in Ports : found[p] \in Offered(p)
          /\ services' = [p \in Ports |-> Merged(p, found[p])]
    /\ host' = HostAddresses
    /\ UNCHANGED <<machine, tail, network>>

(***************************************************************************)
(* The machine                                                             *)
(***************************************************************************)
(* The system refuses a second address beside a wildcard *)
Opens(p, b) ==
    /\ b \notin bound[p] /\ Cardinality(bound[p]) < MaxBinds
    /\ (bound[p] \cup {b}) \cap Wildcards # {} => bound[p] = {}
    /\ bound' = [bound EXCEPT ![p] = @ \cup {b}]
    /\ IF bound[p] = {} THEN \E k \in Hints : hint' = [hint EXCEPT ![p] = k]
                        ELSE UNCHANGED hint

Closes(p) ==
    /\ bound[p] # {}
    /\ bound' = [bound EXCEPT ![p] = {}]
    /\ hint' = [hint EXCEPT ![p] = Unknown]

ListenersChange ==
    /\ \E p \in Ports \ {SelfPort} : Closes(p) \/ \E b \in Bindable : Opens(p, b)
    /\ UNCHANGED <<nic, tailnet, tail, network, services, host>>

NetworksChange ==
    /\ \/ nic' = ~nic /\ UNCHANGED tailnet
       \/ tailnet' = ~tailnet /\ UNCHANGED nic
    /\ UNCHANGED <<bound, hint, tail, network, services, host>>

-----------------------------------------------------------------------------
Init ==
    /\ bound \in {[p \in Ports |-> IF p = SelfPort THEN {b} ELSE {}] :
                      b \in {"127.0.0.1", "0.0.0.0"}}
    /\ hint = [p \in Ports |-> IF p = SelfPort THEN "dashboard" ELSE Unknown]
    /\ nic \in BOOLEAN
    /\ tailnet \in BOOLEAN
    /\ ips = {}
    /\ name = Unknown
    /\ network = [p \in Ports |-> {}]
    /\ services = [p \in Ports |-> Absent]
    /\ host = NoHost

Collect == TailscaleCollect \/ TailscalePublish \/ NetworkCollect \/ ServicesCollect

Next == Collect \/ ListenersChange \/ NetworksChange

Spec == Init /\ [][Next]_vars

-----------------------------------------------------------------------------
Services == [bind : Binds \cup {Unknown}, kind : Kinds, online : BOOLEAN, linkable : BOOLEAN,
             notable : BOOLEAN, launchable : BOOLEAN]

TypeOK ==
    /\ bound \in [Ports -> SUBSET Binds]
    /\ hint \in [Ports -> Kinds]
    /\ ips \subseteq {"tailnet"} /\ name \in {"magicdns", Unknown}
    /\ network \in [Ports -> SUBSET Binds]
    /\ services \in [Ports -> Services]
    /\ host \in Hosts

(* One service stands for all listeners of a port, and never hides that one *)
(* of them is reachable from elsewhere: if any is a finding, the exposure    *)
(* that is shown is one (network.py:53, services.py:83-89).                  *)
NoHiddenExposure ==
    [][ServicesCollect =>
          \A p \in Ports : (\E b \in network[p] : IsFinding(b)) =>
              services'[p].online /\ IsFinding(services'[p].bind)]_vars

(* The viewers there can be: the dashboard itself accepts their origin,      *)
(* which is an address the machine has                                      *)
Looks(p, o) ==
    /\ o \in Path(p) /\ \E b \in bound[SelfPort] : Accepts(b, o)
    /\ Resolve(o) = "lan" => nic
    /\ Resolve(o) = "tailnet" => tailnet

(* What the page tells a viewer is right, as long as the section is still    *)
(* true of the machine: the service listens as listed, the addresses are     *)
(* those there are (docs/spec.md R16.2-R16.5, R16.7).  A page from localhost *)
(* is seen on the machine, or through a tunnel to the dashboard's port.      *)
(*  - A link leads to the service from the machine, the local network and    *)
(*    the tailnet.                                                           *)
(*  - Whoever can reach the service is given a link that does lead there, so *)
(*    nobody is refused what they can reach.  On the machine that is so for a *)
(*    page from localhost; one from another of its addresses is told what a  *)
(*    viewer on that network is.                                             *)
(*  - A service of the machine alone comes with a forward, through an        *)
(*    address that the viewer reaches, unless the machine has none.          *)
(*  - Where there is neither, the page says why.                             *)
(* The code breaks R16.4 and R16.6 where the premises do not hold: at        *)
(* 127.0.0.1 on the machine a service of the tailnet's address is refused    *)
(* (reachability.py:172-180), and what only a bridge or another loopback     *)
(* address leads to is offered at 127.0.0.1.                                 *)
Fresh(port) ==
    /\ services[port].online /\ services[port].linkable
    /\ services[port].bind \in bound[port]
    /\ HostAddresses = host /\ (tailnet <=> ips # {}) /\ (tailnet <=> name # Unknown)
    /\ Advertise # << >> => nic
Forwardable(b) == Scope(b) = "host-only" => Accepts(b, "127.0.0.1")

(* Where a viewer sits as far as the page can tell *)
AsSeen(p, o) == p = "host" => Viewer(o, host) = "loopback"

Promised(b, p, o) ==
    /\ p # "tunnel" /\ AsSeen(p, o) /\ Forwardable(b)
    /\ p = "host" => Scope(b) # "tailnet-only"
    /\ \E a \in Path(p) : Accepts(b, a)

TellsTheWay ==
    \A port \in Ports, p \in Positions, o \in Origins :
        Fresh(port) /\ Looks(p, o) =>
            LET b    == services[port].bind
                plan == Plan(b, o, host, port = SelfPort)
            IN  /\ p # "tunnel" /\ Forwardable(b) => \A a \in plan.routes : Leads(p, b, a)
                /\ Promised(b, p, o) \/ (port = SelfPort /\ p = "tunnel") =>
                       \E a \in plan.routes : Leads(p, b, a)
                /\ Scope(b) = "host-only" /\ port # SelfPort =>
                       plan.forward # {} \/ (host.lan = << >> /\ Tailnet(host) = {})
                /\ p \in {"lan", "tailnet"} => plan.forward \subseteq Path(p)
                /\ plan.routes = {} /\ plan.forward = {} => plan.reason

=============================================================================
