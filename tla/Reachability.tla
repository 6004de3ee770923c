----------------------------- MODULE Reachability -----------------------------
(***************************************************************************)
(* How this viewer reaches that service: a pure function of what the       *)
(* service is bound to, of where the viewer is and of the addresses the    *)
(* machine knows of itself (reachability.py, and its mirror that the       *)
(* browser runs, web/src/reachability.ts).                                 *)
(*                                                                         *)
(* An address stands for its class: the two agree on these classes, and    *)
(* the README lists the addresses on which they do not.                    *)
(***************************************************************************)
EXTENDS Naturals, Sequences, FiniteSets, SequencesExt

Wildcards == {"0.0.0.0", "::"}
Loopbacks == {"127.0.0.1", "::1"}
Binds     == Wildcards \cup Loopbacks \cup {"bridge", "lan", "tailnet"}
Unknown   == "unknown"

(* The addresses the machine has now: host_addresses, with the advertised   *)
(* names first                                                              *)
Origins == {"localhost", "127.0.0.1", "::1", "lan", "alias", "tailnet", "magicdns"}
Hosts   == [lan : {<< >>, <<"lan">>, <<"alias", "lan">>, <<"alias">>},
            tailnet_ip : {"tailnet", Unknown}, tailnet_name : {"magicdns", Unknown}]

(* classify_exposure, is_finding *)
Exposure(b) ==
    CASE b \in Wildcards -> "all"
      [] b \in Loopbacks -> "loopback"
      [] b = "tailnet"   -> "tailnet"
      [] OTHER           -> "lan"

IsFinding(b) == Exposure(b) \in {"all", "lan", "tailnet"}

(* classify_viewer: a name nobody told it of counts as the local network *)
Viewer(origin, host) ==
    CASE origin \in Loopbacks \cup {"localhost"}           -> "loopback"
      [] origin \in {host.tailnet_name, host.tailnet_ip}   -> "tailnet"
      [] origin = "tailnet"                                -> "tailnet"
      [] OTHER                                             -> "lan"

(* service_scope *)
Scope(b) ==
    CASE b \in Wildcards              -> "all"
      [] b \in Loopbacks \cup {"bridge"} -> "host-only"
      [] b = "tailnet"                -> "tailnet-only"
      [] OTHER                        -> "lan-only"

(* The MagicDNS name first: it survives a change of the address *)
Tailnet(host) ==
    IF host.tailnet_name # Unknown THEN {host.tailnet_name}
    ELSE {host.tailnet_ip} \ {Unknown}

(* What a forward command names: the first local address, or the tailnet's *)
ForwardTarget(viewer, host) ==
    IF viewer = "tailnet" \/ host.lan = << >> THEN Tailnet(host) ELSE {Head(host.lan)}

NoPlan == [routes |-> {}, forward |-> {}, reason |-> FALSE]

Everywhere(viewer, host) ==
    CASE viewer = "tailnet" /\ Tailnet(host) # {} -> Tailnet(host)
      [] viewer = "lan" /\ host.lan # << >>       -> ToSet(host.lan)
      [] viewer = "loopback" -> {"127.0.0.1"} \cup ToSet(host.lan) \cup Tailnet(host)
      [] OTHER               -> ToSet(host.lan) \cup Tailnet(host)

\* mutant: an address of the local network is for that network alone
OneNetworkAlone(b, viewer, scope) ==
    LET here == \/ scope = "tailnet-only" /\ viewer = "tailnet"
                \/ scope = "lan-only" /\ viewer = "lan"
    IN  [NoPlan EXCEPT !.routes = IF here THEN {b} ELSE {}, !.reason = ~here]

(* A service bound to one address of the tailnet or of the local network *)
OneNetwork(b, viewer, scope) ==
    LET here == \/ scope = "tailnet-only" /\ viewer = "tailnet"
                \/ scope = "lan-only" /\ viewer \in {"lan", "loopback"}
    IN  [NoPlan EXCEPT !.routes = IF here THEN {b} ELSE {}, !.reason = ~here]

(* A service only the machine itself reaches *)
HostOnly(viewer, host, isSelf) ==
    IF isSelf THEN [NoPlan EXCEPT !.routes = {"127.0.0.1"}]
    ELSE [routes  |-> IF viewer = "loopback" THEN {"127.0.0.1"} ELSE {},
          forward |-> ForwardTarget(viewer, host),
          reason  |-> ForwardTarget(viewer, host) = {}]

(* planAccess: the addresses to open, the address a forward goes through,   *)
(* and whether it says that there is no way                                 *)
Plan(b, origin, host, isSelf) ==
    LET viewer == Viewer(origin, host)
        scope  == Scope(b)
    IN  CASE scope = "all"       -> [NoPlan EXCEPT !.routes = Everywhere(viewer, host)]
          [] scope = "host-only" -> HostOnly(viewer, host, isSelf)
          [] OTHER               -> OneNetwork(b, viewer, scope)

(***************************************************************************)
(* External: the network                                                   *)
(***************************************************************************)
Resolve(a) ==
    CASE a = "localhost" -> "127.0.0.1"
      [] a = "alias"     -> "lan"
      [] a = "magicdns"  -> "tailnet"
      [] OTHER           -> a

(* A listener accepts what is sent to its own address, a wildcard all of    *)
(* them; "::" takes version 4 as well                                       *)
Accepts(b, a) == \/ b = "::"
                 \/ b = "0.0.0.0" /\ Resolve(a) # "::1"
                 \/ b = Resolve(a)

(* Where a person sits, and the addresses that are this machine's there *)
Positions == {"host", "tunnel", "lan", "tailnet"}
Path(p) == CASE p = "host"    -> Origins \cup Binds
             [] p = "tunnel"  -> {"localhost", "127.0.0.1"}   \* the dashboard's port only
             [] p = "lan"     -> {"lan", "alias"}
             [] p = "tailnet" -> {"tailnet", "magicdns"}

(* An address that leads there from where a person sits *)
Leads(p, b, a) == a \in Path(p) /\ Accepts(b, a)

=============================================================================
