------------------------------ MODULE PageProofs -------------------------------
(***************************************************************************)
(* Proofs about what a browser's page shows: NodeView, the snapshot of the *)
(* selected node, for any peers, effects, polls and restarts; and          *)
(* ServiceInventory, the services and the ways to them, for any ports,     *)
(* hints and addresses.                                                    *)
(***************************************************************************)
EXTENDS NodeView, ServiceInventory, SequenceTheorems, TLAPS

(***************************************************************************)
(* The snapshot of the selected node                                       *)
(***************************************************************************)

(* What the service knows of a peer is a number.                            *)
LEMMA ServedTyped == FederationType => Served \in [Peers -> Int]
BY DEF FederationType, Served, Missing

(* A service that stops may be started again.                               *)
Restartable == stopping => restarts < MaxRestarts

(* What the poller, its stop and its start do leaves the types of what is   *)
(* known of the peers.                                                      *)
LEMMA PeersTyped ==
    ASSUME FederationType, Restartable, FederationNext \/ UNCHANGED federationVars
    PROVE  FederationType' /\ Restartable'
<1>1. stopping' \in BOOLEAN
  BY Zenon DEF FederationType, FederationNext, RemoteLoop, Poll, Store, Choke, Fail, Replies,
               PeerChanges, PollerStops, PollerStarts, federationVars
<1>2. ASSUME NEW p \in Peers, RemoteLoop(p) \/ Replies(p)
      PROVE  FederationType'
  BY <1>1, <1>2, FederationAssumption
     DEF RemoteLoop, Poll, Store, Choke, Fail, Replies, FederationType, Missing
<1>3. ASSUME NEW p \in Peers, PeerChanges(p)
      PROVE  FederationType'
  BY <1>1, <1>3, FederationAssumption DEF PeerChanges, FederationType
<1>4. CASE PollerStops
  BY <1>1, <1>4, FederationAssumption DEF PollerStops, FederationType, Restartable
<1>5. CASE PollerStarts
  <2>1. restarts' \in 0..MaxRestarts /\ ~stopping'
    BY <1>5, FederationAssumption DEF PollerStarts, FederationType, Restartable
  <2>2. /\ peer' = peer /\ current' = current /\ reply' = reply
        /\ loop' = [p \in Peers |-> "interval"]
        /\ info' = [p \in Peers |-> "unknown"]
        /\ data' = [p \in Peers |-> 0]
    BY <1>5 DEF PollerStarts
  <2> QED
    BY <1>1, <2>1, <2>2, FederationAssumption DEF FederationType, Restartable
<1>6. CASE UNCHANGED federationVars
  BY <1>6 DEF federationVars, FederationType, Restartable
<1>7. ASSUME NEW p \in Peers, RemoteLoop(p) \/ Replies(p) \/ PeerChanges(p)
      PROVE  Restartable'
  BY <1>7 DEF RemoteLoop, Poll, Store, Choke, Fail, Replies, PeerChanges, Restartable
<1> QED
  BY <1>2, <1>3, <1>4, <1>5, <1>6, <1>7 DEF FederationNext

(* And whatever the browser does, and whatever it is answered, the types of *)
(* its own state.                                                           *)
LEMMA BrowserTyped ==
    ASSUME Browser!BrowserType, FederationType,
           Browser!BrowserNext \/ Browser!Severed \/ UNCHANGED browserVars
    PROVE  Browser!BrowserType'
<1> USE DEF Browser!Effects, Browser!Slots
<1>1. ASSUME NEW n \in Peers \cup {"local"}, Browser!Switch(n)
      PROVE  Browser!BrowserType'
  <2>1. effect' \in 1..MaxEffects /\ selected' \in Peers \cup {"local"} /\ ~arrived'
    BY <1>1, BrowserAssumption DEF Browser!Switch, Browser!BrowserType
  <2>2. poll' = poll /\ shown' = shown
    BY <1>1 DEF Browser!Switch
  <2>3. stream' \in [1..MaxEffects -> {"none", "ticket", "open", "broken", "backoff", "gone"}]
    BY <1>1 DEF Browser!Switch, Browser!Cleanup, Browser!BrowserType
  <2>4. conn' \in {"waiting", "live", "unauthorized"}
    BY <1>1 DEF Browser!Switch, Browser!BrowserType
  <2>5. arrived' \in BOOLEAN
    BY <1>1, Zenon DEF Browser!Switch
  <2> QED
    BY <2>1, <2>2, <2>3, <2>4, <2>5 DEF Browser!BrowserType
<1>2. ASSUME NEW k \in 1..MaxEffects, Browser!StreamStep(k) \/ Browser!Drops(k)
      PROVE  Browser!BrowserType'
  <2>1. shown' \in [node : Peers \cup {"local", "none"}, data : Int]
    BY <1>2 DEF Browser!StreamStep, Browser!Drops, Browser!TicketAnswers, Browser!Event,
                Browser!Breaks, Browser!Retry, Browser!BrowserType
  <2>2. poll' = poll /\ effect' = effect /\ selected' = selected
    BY <1>2 DEF Browser!StreamStep, Browser!Drops, Browser!TicketAnswers, Browser!Event,
                Browser!Breaks, Browser!Retry
  <2>3. /\ stream' \in [1..MaxEffects -> {"none", "ticket", "open", "broken", "backoff", "gone"}]
        /\ conn' \in {"waiting", "live", "unauthorized"}
    BY <1>2 DEF Browser!StreamStep, Browser!Drops, Browser!TicketAnswers, Browser!Event,
                Browser!Breaks, Browser!Retry, Browser!Schedule, Browser!Set, Server,
                Browser!BrowserType
  <2>4. arrived' \in BOOLEAN
    BY <1>2, Zenon DEF Browser!StreamStep, Browser!Drops, Browser!TicketAnswers, Browser!Event,
                       Browser!Breaks, Browser!Retry, Browser!BrowserType
  <2> QED
    BY <2>1, <2>2, <2>3, <2>4 DEF Browser!BrowserType
<1>3. ASSUME NEW i \in 1..MaxPolls, Browser!PollStep(i)
      PROVE  Browser!BrowserType'
  <2> DEFINE Request == [effect : 1..MaxEffects, node : Peers, reply : Int]
  <2>1. /\ selected' = selected /\ effect' = effect /\ stream' = stream
        /\ arrived' \in BOOLEAN
    BY <1>3 DEF Browser!PollStep, Browser!SendPoll, Browser!Serve, Browser!PollAnswers,
                Browser!BrowserType
  <2>2. CASE Browser!SendPoll(i)
    <3>1. [effect |-> effect, node |-> selected, reply |-> Browser!Pending] \in Request
      BY <2>2 DEF Browser!SendPoll, Browser!Pending, Browser!BrowserType
    <3> QED
      BY <2>1, <2>2, <3>1 DEF Browser!SendPoll, Browser!BrowserType
  <2>3. CASE Browser!Serve(i)
    <3>1. poll[i] \in Request /\ Served[poll[i].node] \in Int
      BY <2>3, ServedTyped DEF Browser!Serve, Browser!BrowserType
    <3>2. \A r \in Int : [poll EXCEPT ![i].reply = r] \in [1..MaxPolls -> Request \cup {Browser!NoPoll}]
      BY <3>1 DEF Browser!BrowserType
    <3>3. poll' \in [1..MaxPolls -> Request \cup {Browser!NoPoll}]
      BY <2>3, <3>1, <3>2 DEF Browser!Serve, Browser!Failure
    <3> QED
      BY <2>1, <2>3, <3>3 DEF Browser!Serve, Browser!BrowserType
  <2>4. CASE Browser!PollAnswers(i)
    <3>1. poll[i] \in Request
      BY <2>4 DEF Browser!PollAnswers, Browser!NoPoll, Browser!BrowserType
    <3>2. poll' \in [1..MaxPolls -> Request \cup {Browser!NoPoll}]
      BY <2>4 DEF Browser!PollAnswers, Browser!BrowserType
    <3>3. /\ shown' \in [node : Peers \cup {"local", "none"}, data : Int]
          /\ conn' \in {"waiting", "live", "unauthorized"}
      BY <2>4, <3>1 DEF Browser!PollAnswers, Browser!BrowserType
    <3> QED
      BY <2>1, <3>2, <3>3 DEF Browser!BrowserType
  <2> QED
    BY <1>3, <2>2, <2>3, <2>4 DEF Browser!PollStep
<1>4. CASE Browser!Severed
  BY <1>4 DEF Browser!Severed, Browser!BrowserType
<1>5. CASE UNCHANGED browserVars
  BY <1>5 DEF browserVars, Browser!BrowserType
<1> QED
  BY <1>1, <1>2, <1>3, <1>4, <1>5 DEF Browser!BrowserNext

(* Each step of the whole is one of the poller, of the browser, or of the   *)
(* service between them.                                                    *)
LEMMA ViewSteps ==
    ASSUME [ViewNext]_viewVars
    PROVE  /\ FederationNext \/ UNCHANGED federationVars
           /\ Browser!BrowserNext \/ Browser!Severed \/ UNCHANGED browserVars
BY DEF ViewNext, PollerStep, ServiceStops, ServiceStarts, BrowserStep, FederationNext, viewVars

(* The types.                                                               *)
THEOREM ViewTypeCorrect == ViewSpec => [](ViewTypeOK /\ Restartable)
<1>1. ViewInit => ViewTypeOK /\ Restartable
  <2>1. FederationInit => stopping \in BOOLEAN
    BY Zenon DEF FederationInit
  <2>2. FederationInit => FederationType /\ Restartable
    BY <2>1, FederationAssumption DEF FederationInit, FederationType, Missing, Restartable
  <2>3. Browser!BrowserInit => arrived \in BOOLEAN
    BY Zenon DEF Browser!BrowserInit
  <2>4. Browser!BrowserInit => Browser!BrowserType
    BY <2>3, BrowserAssumption DEF Browser!BrowserInit, Browser!BrowserType, Browser!Effects, Browser!Slots
  <2> QED
    BY <2>2, <2>4, Zenon DEF ViewInit, ViewTypeOK
<1>2. ViewTypeOK /\ Restartable /\ [ViewNext]_viewVars => (ViewTypeOK /\ Restartable)'
  <2> SUFFICES ASSUME ViewTypeOK, Restartable, [ViewNext]_viewVars
               PROVE  ViewTypeOK' /\ Restartable'
    OBVIOUS
  <2>1. locked' \in BOOLEAN /\ leaked' \in BOOLEAN
    BY Zenon DEF ViewTypeOK, ViewNext, PollerStep, ServiceStops, ServiceStarts, BrowserStep, viewVars
  <2> QED
    BY <2>1, ViewSteps, PeersTyped, BrowserTyped DEF ViewTypeOK
<1> QED
  BY <1>1, <1>2, PTL DEF ViewSpec

(* No effect beyond the running one has begun; the running one has a stream *)
(* of its own only for the local node, and its polls ask for the selected   *)
(* peer; without a leak no other effect has an EventSource.  Then what sets *)
(* the snapshot is of the selected node.                                    *)
OneIsRunning ==
    /\ \A k \in Browser!Effects : k > effect => stream[k] = "none"
    /\ stream[effect] \notin {"none", "gone"} => selected = "local"
    /\ \A i \in Browser!Slots : /\ poll[i].effect <= effect
                                /\ poll[i].effect = effect => poll[i].node = selected
    /\ ~leaked => \A k \in Browser!Effects : stream[k] = "open" => k = effect

ShownInv == OneIsRunning /\ ShownIsSelected

(* A step of the browser keeps both, a selection by starting anew.          *)
LEMMA BrowserKeepsShown ==
    ASSUME ViewTypeOK, ShownInv, BrowserStep
    PROVE  ShownInv'
<1> USE DEF Browser!Effects, Browser!Slots, ViewTypeOK
<1>1. ~leaked' => ~leaked /\ \A k \in 1..MaxEffects : stream'[k] = "open" => k = effect'
  BY DEF BrowserStep
<1>2. ASSUME NEW n \in Peers \cup {"local"}, Browser!Switch(n)
      PROVE  ShownInv'
  <2>1. /\ effect \in 1..MaxEffects /\ effect' = effect + 1 /\ effect' \in 1..MaxEffects
        /\ selected' = n /\ ~arrived' /\ poll' = poll
    BY <1>2, BrowserAssumption DEF Browser!Switch, Browser!BrowserType
  <2>2. /\ DOMAIN Browser!Cleanup = 1..MaxEffects
        /\ \A k \in 1..MaxEffects : k > effect => Browser!Cleanup[k] = "none"
    BY <2>1 DEF Browser!Cleanup, ShownInv, OneIsRunning
  <2>3. /\ n = "local" => stream' = [Browser!Cleanup EXCEPT ![effect + 1] = "ticket"]
        /\ n # "local" => stream' = Browser!Cleanup
    BY <1>2 DEF Browser!Switch
  <2>4. \A k \in 1..MaxEffects : k > effect' => stream'[k] = "none"
    <3>1. \A k \in 1..MaxEffects : k # effect' => stream'[k] = Browser!Cleanup[k]
      BY <2>1, <2>2, <2>3
    <3>2. \A k \in 1..MaxEffects : k > effect' => k > effect /\ k # effect'
      BY <2>1
    <3> QED
      BY <2>2, <3>1, <3>2
  <2>5. stream'[effect'] \notin {"none", "gone"} => selected' = "local"
    <3>1. n # "local" => stream'[effect'] = "none"
      BY <2>1, <2>2, <2>3
    <3> QED
      BY <2>1, <3>1
  <2>6. \A i \in 1..MaxPolls : poll'[i].effect < effect'
    <3>1. \A i \in 1..MaxPolls : poll[i].effect <= effect /\ poll[i].effect \in Int
      BY DEF ShownInv, OneIsRunning, Browser!BrowserType, Browser!NoPoll
    <3> QED
      BY <2>1, <3>1
  <2> QED
    BY <1>1, <2>1, <2>4, <2>5, <2>6 DEF ShownInv, OneIsRunning, ShownIsSelected, Browser!BrowserType, Browser!NoPoll
<1>3. ASSUME NEW k \in 1..MaxEffects, Browser!StreamStep(k) \/ Browser!Drops(k)
      PROVE  ShownInv'
  <2>1. effect' = effect /\ selected' = selected /\ poll' = poll /\ effect \in 1..MaxEffects
    BY <1>3 DEF Browser!StreamStep, Browser!Drops, Browser!TicketAnswers, Browser!Event,
                Browser!Breaks, Browser!Retry, Browser!BrowserType
  <2>2. /\ stream[k] \notin {"none", "gone"}
        /\ \A j \in 1..MaxEffects : j # k => stream'[j] = stream[j]
    BY <1>3 DEF Browser!StreamStep, Browser!Drops, Browser!TicketAnswers, Browser!Event,
                Browser!Breaks, Browser!Retry, Browser!Schedule, Browser!Set, Browser!BrowserType
  <2>3. k <= effect
    BY <2>1, <2>2 DEF ShownInv, OneIsRunning
  <2>4. OneIsRunning'
    BY <1>1, <2>1, <2>2, <2>3 DEF ShownInv, OneIsRunning
  <2>5. ShownIsSelected'
    <3>1. CASE Browser!Event(k)
      <4>1. ~leaked => k = effect /\ selected = "local"
        BY <3>1 DEF Browser!Event, ShownInv, OneIsRunning
      <4>2. shown'.node = "local"
        BY <3>1 DEF Browser!Event
      <4> QED
        BY <1>1, <2>1, <4>1, <4>2 DEF ShownIsSelected
    <3>2. CASE ~Browser!Event(k)
      <4>1. arrived' = arrived /\ shown' = shown
        BY <1>3, <3>2 DEF Browser!StreamStep, Browser!Drops, Browser!TicketAnswers, Browser!Breaks,
                          Browser!Retry
      <4> QED
        BY <1>1, <2>1, <4>1 DEF ShownInv, ShownIsSelected
    <3> QED
      BY <3>1, <3>2
  <2> QED
    BY <2>4, <2>5 DEF ShownInv
<1>4. ASSUME NEW i \in 1..MaxPolls, Browser!PollStep(i)
      PROVE  ShownInv'
  <2>1. effect' = effect /\ selected' = selected /\ stream' = stream /\ effect \in 1..MaxEffects
    BY <1>4 DEF Browser!PollStep, Browser!SendPoll, Browser!Serve, Browser!PollAnswers, Browser!BrowserType
  <2>2. \A j \in 1..MaxPolls : j # i => poll'[j] = poll[j]
    BY <1>4 DEF Browser!PollStep, Browser!SendPoll, Browser!Serve, Browser!PollAnswers, Browser!BrowserType
  <2>3. poll'[i].effect <= effect /\ (poll'[i].effect = effect => poll'[i].node = selected)
    <3>1. CASE Browser!SendPoll(i)
      <4>1. poll'[i] = [effect |-> effect, node |-> selected, reply |-> Browser!Pending]
        BY <3>1 DEF Browser!SendPoll, Browser!BrowserType
      <4> QED
        BY <2>1, <4>1
    <3>2. CASE Browser!Serve(i)
      <4>1. poll[i] \in [effect : 1..MaxEffects, node : Peers, reply : Int]
        BY <3>2 DEF Browser!Serve, Browser!BrowserType
      <4>2. \A r : [poll EXCEPT ![i].reply = r][i].effect = poll[i].effect
                   /\ [poll EXCEPT ![i].reply = r][i].node = poll[i].node
        BY <4>1 DEF Browser!BrowserType
      <4>3. poll'[i].effect = poll[i].effect /\ poll'[i].node = poll[i].node
        BY <3>2, <4>2 DEF Browser!Serve
      <4> QED
        BY <4>3 DEF ShownInv, OneIsRunning
    <3>3. CASE Browser!PollAnswers(i)
      <4>1. poll'[i] = Browser!NoPoll
        BY <3>3 DEF Browser!PollAnswers, Browser!BrowserType
      <4> QED
        BY <2>1, <4>1 DEF Browser!NoPoll
    <3> QED
      BY <1>4, <3>1, <3>2, <3>3 DEF Browser!PollStep
  <2>4. OneIsRunning'
    BY <1>1, <2>1, <2>2, <2>3 DEF ShownInv, OneIsRunning
  <2>5. ShownIsSelected'
    <3>1. \/ arrived' = arrived /\ shown' = shown
          \/ poll[i].effect = effect /\ shown'.node = poll[i].node
      BY <1>4 DEF Browser!PollStep, Browser!SendPoll, Browser!Serve, Browser!PollAnswers, Browser!Closed
    <3> QED
      BY <1>1, <2>1, <3>1 DEF ShownInv, OneIsRunning, ShownIsSelected
  <2> QED
    BY <2>4, <2>5 DEF ShownInv
<1> QED
  BY <1>2, <1>3, <1>4 DEF BrowserStep, Browser!BrowserNext

(* Whatever late answers, errors, selections and restarts come, the page    *)
(* shows the selected node, unless the browser leaked an EventSource.       *)
THEOREM SelectedIsShown == ViewSpec => []ShownIsSelected
<1>1. ViewInit => ShownInv
  BY BrowserAssumption DEF ViewInit, Browser!BrowserInit, Browser!Effects, Browser!Slots, Browser!NoPoll,
                           ShownInv, OneIsRunning, ShownIsSelected
<1>2. ViewTypeOK /\ ShownInv /\ [ViewNext]_viewVars => ShownInv'
  <2> SUFFICES ASSUME ViewTypeOK, ShownInv, [ViewNext]_viewVars
               PROVE  ShownInv'
    OBVIOUS
  <2>1. CASE PollerStep \/ ServiceStarts \/ UNCHANGED viewVars
    BY <2>1 DEF PollerStep, ServiceStarts, viewVars, browserVars, ShownInv, OneIsRunning, ShownIsSelected
  <2>2. CASE ServiceStops
    <3>1. /\ effect' = effect /\ selected' = selected /\ poll' = poll /\ shown' = shown
          /\ arrived' = arrived /\ leaked' = leaked /\ effect \in Browser!Effects
          /\ \A k \in Browser!Effects : stream'[k] = IF stream[k] = "open" THEN "broken" ELSE stream[k]
      BY <2>2 DEF ServiceStops, Browser!Severed, ViewTypeOK, Browser!BrowserType
    <3> QED
      BY <3>1 DEF ShownInv, OneIsRunning, ShownIsSelected
  <2> QED
    BY <2>1, <2>2, BrowserKeepsShown DEF ViewNext
<1>3. ShownInv => ShownIsSelected
  BY DEF ShownInv
<1> QED
  BY <1>1, <1>2, <1>3, ViewTypeCorrect, PTL DEF ViewSpec

(* A peer is never ahead of itself: what is kept of it is no newer than an  *)
(* answer that is on its way, nor that than the peer.                       *)
AnswersAreNewer ==
    \A p \in Peers : /\ data[p] <= current[p]
                     /\ reply[p] # Missing => data[p] <= reply[p] /\ reply[p] <= current[p]

(* What is kept of a peer never becomes older while the service runs,       *)
(* whatever peers fail, answer nonsense or become unreadable.               *)
THEOREM PeerDataStaysNew == ViewSpec => PeerDataIsMonotone
<1>1. ViewInit => AnswersAreNewer
  <2> SUFFICES ASSUME ViewInit, NEW p \in Peers
               PROVE  data[p] <= current[p] /\ reply[p] = Missing
    BY DEF AnswersAreNewer
  <2>1. data[p] = 0 /\ current[p] = 1 /\ reply[p] = Missing
    BY Zenon DEF ViewInit, FederationInit
  <2> QED
    BY <2>1
<1>2. ViewTypeOK /\ AnswersAreNewer /\ [ViewNext]_viewVars =>
          /\ AnswersAreNewer'
          /\ restarts' = restarts => \A p \in Peers : data'[p] >= data[p]
  <2> SUFFICES ASSUME ViewTypeOK, AnswersAreNewer, [ViewNext]_viewVars
               PROVE  /\ AnswersAreNewer'
                      /\ restarts' = restarts => \A p \in Peers : data'[p] >= data[p]
    OBVIOUS
  <2>1. /\ current \in [Peers -> 1..MaxData] /\ data \in [Peers -> 0..MaxData]
        /\ reply \in [Peers -> {Missing} \cup 1..MaxData] /\ restarts \in Nat
    BY DEF ViewTypeOK, FederationType
  <2>2. ASSUME NEW q \in Peers, RemoteLoop(q)
        PROVE  /\ AnswersAreNewer' /\ \A p \in Peers : data'[p] >= data[p]
    BY <2>1, <2>2 DEF RemoteLoop, Poll, Store, Choke, Fail, AnswersAreNewer, Missing
  <2>3. ASSUME NEW q \in Peers, Replies(q) \/ PeerChanges(q)
        PROVE  /\ AnswersAreNewer' /\ \A p \in Peers : data'[p] >= data[p]
    BY <2>1, <2>3 DEF Replies, PeerChanges, AnswersAreNewer, Missing
  <2>4. CASE PollerStops
    BY <2>1, <2>4 DEF PollerStops, AnswersAreNewer, Missing
  <2>5. CASE PollerStarts
    BY <2>1, <2>5 DEF PollerStarts, AnswersAreNewer, Missing
  <2>6. CASE UNCHANGED federationVars
    BY <2>1, <2>6 DEF federationVars, AnswersAreNewer
  <2> QED
    BY <2>2, <2>3, <2>4, <2>5, <2>6, ViewSteps DEF FederationNext
<1> QED
  BY <1>1, <1>2, ViewTypeCorrect, PTL DEF ViewSpec, PeerDataIsMonotone

(***************************************************************************)
(* The services and the ways to them                                       *)
(***************************************************************************)

(* What is told of a port is no less than what it was discovered as.        *)
LEMMA MergedTyped ==
    ASSUME NEW p \in Ports, NEW s \in Services
    PROVE  /\ Merged(p, s) \in Services
           /\ s.online => Merged(p, s).online /\ Merged(p, s).bind = s.bind
<1>1. CASE p \notin Declared
  BY <1>1 DEF Merged
<1>2. ASSUME NEW e \in Services
      PROVE  [e EXCEPT !.notable = TRUE, !.launchable = p \in Launchable] \in Services
  <2>1. \A l \in BOOLEAN : [e EXCEPT !.notable = TRUE, !.launchable = l] \in Services
    BY DEF Services
  <2>2. (p \in Launchable) \in BOOLEAN
    OBVIOUS
  <2> QED
    BY <2>1, <2>2, Zenon
<1>3. CASE p \in Declared /\ s # Absent
  <2>1. Merged(p, s) = [s EXCEPT !.notable = TRUE, !.launchable = p \in Launchable]
    BY <1>3 DEF Merged
  <2>2. Merged(p, s).online = s.online /\ Merged(p, s).bind = s.bind
    BY <2>1 DEF Services
  <2> QED
    BY <1>2, <2>1, <2>2
<1>4. CASE p \in Declared /\ s = Absent
  <2> DEFINE silent == [Absent EXCEPT !.bind = "127.0.0.1", !.linkable = TRUE]
  <2>1. Merged(p, s) = [silent EXCEPT !.notable = TRUE, !.launchable = p \in Launchable]
    BY <1>4 DEF Merged
  <2>2. "127.0.0.1" \in Binds
    BY DEF Binds, Loopbacks
  <2>3. silent \in Services
    BY <1>4, <2>2 DEF Services
  <2> QED
    BY <1>2, <1>4, <2>1, <2>3 DEF Absent
<1> QED
  BY <1>1, <1>3, <1>4

(* A port without a listener offers nothing, another one of its listeners.  *)
LEMMA OfferedTyped ==
    ASSUME TypeOK, NEW p \in Ports, NEW s \in Offered(p)
    PROVE  /\ s \in Services
           /\ Findings(p) # {} => s.online /\ s.bind \in Findings(p)
<1>1. First(p) \subseteq Binds /\ Findings(p) \subseteq network[p]
  BY DEF First, Findings, TypeOK
<1>2. CASE network[p] = {}
  <2>1. s = Absent
    BY <1>2 DEF Offered
  <2>2. Absent \in Services
    BY DEF Absent, Services, Kinds
  <2> QED
    BY <1>1, <1>2, <2>1, <2>2
<1>3. CASE network[p] # {}
  <2>1. PICK b \in First(p) : s = Discovered(p, b)
    BY <1>3 DEF Offered
  <2>2. Kind(p, b) \in Kinds
    <3>1. hint[p] \in Kinds /\ PortHint[p] \in Kinds /\ "tailscale" \in Kinds
      BY InventoryAssumption DEF TypeOK, Kinds
    <3> QED
      BY <3>1 DEF Kind
  <2>3. s \in Services
    BY <1>1, <2>1, <2>2 DEF Discovered, Services, Web, Notable
  <2>4. s.online /\ s.bind = b
    BY <2>1 DEF Discovered
  <2> QED
    BY <2>1, <2>3, <2>4 DEF First
<1> QED
  BY <1>2, <1>3

(* The advertised name comes before the local address.                      *)
LEMMA NameThenAddress == <<"alias">> \o <<"lan">> = <<"alias", "lan">>
<1> DEFINE first  == <<"alias">>
           second == <<"lan">>
           both   == <<"alias", "lan">>
<1>1. /\ first \in Seq({"alias", "lan"}) /\ second \in Seq({"alias", "lan"})
      /\ both \in Seq({"alias", "lan"})
  OBVIOUS
<1>2. /\ Len(first) = 1 /\ Len(second) = 1 /\ Len(both) = 2
      /\ first[1] = "alias" /\ second[1] = "lan" /\ both[1] = "alias" /\ both[2] = "lan"
  OBVIOUS
<1> HIDE DEF first, second, both
<1>3. /\ first \o second \in Seq({"alias", "lan"}) /\ Len(first \o second) = 2
      /\ (first \o second)[1] = first[1] /\ (first \o second)[2] = second[1]
  BY <1>1, <1>2, ConcatProperties
<1>4. \A i \in 1..2 : (first \o second)[i] = both[i]
  BY <1>2, <1>3
<1>5. first \o second = both
  BY <1>1, <1>2, <1>3, <1>4, SeqEqual
<1> QED
  BY <1>5 DEF first, second, both

(* The types.                                                               *)
THEOREM InventoryTypeCorrect == Spec => []TypeOK
<1>1. Init => TypeOK
  BY DEF Init, TypeOK, Binds, Wildcards, Loopbacks, Kinds, Absent, Services, NoHost, Hosts
<1>2. TypeOK /\ [Next]_vars => TypeOK'
  <2> SUFFICES ASSUME TypeOK, [Next]_vars
               PROVE  TypeOK'
    OBVIOUS
  <2> USE DEF machine, tail
  <2>1. CASE TailscaleCollect
    BY <2>1 DEF TypeOK, TailscaleCollect
  <2>2. CASE TailscalePublish
    BY <2>2 DEF TypeOK, TailscalePublish
  <2>3. CASE NetworkCollect
    BY <2>3 DEF TypeOK, NetworkCollect
  <2>4. CASE ServicesCollect
    <3>1. PICK found \in [Ports -> UNION {Offered(p) : p \in Ports}] :
              /\ \A p \in Ports : found[p] \in Offered(p)
              /\ services' = [p \in Ports |-> Merged(p, found[p])]
      BY <2>4 DEF ServicesCollect
    <3>2. services' \in [Ports -> Services]
      BY <3>1, OfferedTyped, MergedTyped
    <3>3. HostAddresses \in Hosts
      <4> DEFINE lan == HostAddresses.lan
      <4>1. lan \in {<< >>, <<"lan">>, <<"alias", "lan">>, <<"alias">>}
        <5>1. CASE Advertise = << >>
          <6>1. lan = << >> \o (IF nic THEN <<"lan">> ELSE << >>)
            BY <5>1 DEF HostAddresses
          <6>2. << >> \o << >> = << >> /\ << >> \o <<"lan">> = <<"lan">>
            OBVIOUS
          <6>3. lan \in {<< >>, <<"lan">>}
            BY <6>1, <6>2
          <6> QED
            BY <6>3
        <5>2. CASE Advertise = <<"alias">> /\ nic
          <6>1. lan = <<"alias">> \o <<"lan">>
            BY <5>2 DEF HostAddresses
          <6> QED
            BY <6>1, NameThenAddress, Zenon
        <5>3. CASE Advertise = <<"alias">> /\ ~nic
          BY <5>3 DEF HostAddresses
        <5> QED
          BY <5>1, <5>2, <5>3, InventoryAssumption
      <4> QED
        BY <4>1 DEF HostAddresses, Hosts, TypeOK
    <3> QED
      BY <2>4, <3>2, <3>3 DEF TypeOK, ServicesCollect
  <2>5. CASE ListenersChange
    BY <2>5, InventoryAssumption DEF TypeOK, ListenersChange, Opens, Closes, Kinds, Unknown
  <2>6. CASE NetworksChange
    BY <2>6 DEF TypeOK, NetworksChange
  <2>7. CASE UNCHANGED vars
    BY <2>7 DEF TypeOK, vars
  <2> QED
    BY <2>1, <2>2, <2>3, <2>4, <2>5, <2>6, <2>7 DEF Next, Collect
<1> QED
  BY <1>1, <1>2, PTL DEF Spec

(* Whatever ss lists first, and whatever is declared of a port or hinted at  *)
(* by its owner, an exposure is shown as one, if not always the widest.      *)
THEOREM NothingExposedIsHidden == Spec => NoHiddenExposure
<1>1. TypeOK /\ [Next]_vars =>
          [ServicesCollect =>
              \A p \in Ports : (\E b \in network[p] : IsFinding(b)) =>
                  services'[p].online /\ IsFinding(services'[p].bind)]_vars
  <2> SUFFICES ASSUME TypeOK, ServicesCollect, NEW p \in Ports, NEW b \in network[p], IsFinding(b)
               PROVE  services'[p].online /\ IsFinding(services'[p].bind)
    OBVIOUS
  <2>1. PICK found \in [Ports -> UNION {Offered(q) : q \in Ports}] :
            /\ \A q \in Ports : found[q] \in Offered(q)
            /\ services' = [q \in Ports |-> Merged(q, found[q])]
    BY DEF ServicesCollect
  <2>2. found[p].online /\ found[p].bind \in Findings(p) /\ found[p] \in Services
    BY <2>1, OfferedTyped DEF Findings
  <2>3. services'[p].online /\ services'[p].bind = found[p].bind
    BY <2>1, <2>2, MergedTyped
  <2> QED
    BY <2>2, <2>3 DEF Findings
<1> QED
  BY <1>1, InventoryTypeCorrect, PTL DEF Spec, NoHiddenExposure

(* The dashboard's own listener stays what the service was started with.    *)
SelfBound == \E b \in {"127.0.0.1", "0.0.0.0"} : bound[SelfPort] = {b}

(* Nothing but a restart, which is not modelled, binds the dashboard anew.  *)
THEOREM DashboardStaysBound == Spec => []SelfBound
<1>1. Init => SelfBound
  BY InventoryAssumption DEF Init, SelfBound
<1>2. TypeOK /\ SelfBound /\ [Next]_vars => SelfBound'
  <2> SUFFICES ASSUME TypeOK, SelfBound, [Next]_vars
               PROVE  bound'[SelfPort] = bound[SelfPort]
    BY DEF SelfBound
  <2>1. CASE ListenersChange
    BY <2>1, InventoryAssumption DEF TypeOK, ListenersChange, Opens, Closes
  <2>2. CASE ~ListenersChange
    BY <2>2 DEF Next, Collect, TailscaleCollect, TailscalePublish, NetworkCollect,
                ServicesCollect, NetworksChange, machine, vars
  <2> QED
    BY <2>1, <2>2
<1> QED
  BY <1>1, <1>2, InventoryTypeCorrect, PTL DEF Spec

(* While the section has the machine's addresses, it has a local one exactly *)
(* if the machine is on a local network, and what a forward names is one.    *)
LEMMA LocalAddresses ==
    ASSUME HostAddresses = host, Advertise # << >> => nic
    PROVE  /\ ToSet(host.lan) \subseteq {"lan", "alias"}
           /\ nic => host.lan # << >> /\ ToSet(host.lan) # {}
           /\ host.lan # << >> => nic /\ Head(host.lan) \in {"lan", "alias"}
<1>1. host.lan = Advertise \o (IF nic THEN <<"lan">> ELSE << >>)
  BY DEF HostAddresses
<1>2. /\ ToSet(<<"lan">>) = {"lan"} /\ Head(<<"lan">>) = "lan"
      /\ ToSet(<<"alias", "lan">>) = {"alias", "lan"} /\ Head(<<"alias", "lan">>) = "alias"
      /\ ToSet(<< >>) = {}
  <2>1. DOMAIN <<"lan">> = {1} /\ DOMAIN <<"alias", "lan">> = {1, 2} /\ DOMAIN << >> = {}
    OBVIOUS
  <2> QED
    BY <2>1 DEF ToSet
<1>3. << >> \o << >> = << >> /\ << >> \o <<"lan">> = <<"lan">>
  OBVIOUS
<1>4. CASE nic /\ Advertise = << >>
  BY <1>1, <1>2, <1>3, <1>4
<1>5. CASE nic /\ Advertise = <<"alias">>
  <2>1. host.lan = <<"alias", "lan">>
    BY <1>1, <1>5, NameThenAddress, Zenon
  <2> QED
    BY <1>2, <1>5, <2>1
<1>6. CASE ~nic
  BY <1>1, <1>2, <1>3, <1>6
<1> QED
  BY <1>4, <1>5, <1>6, InventoryAssumption

(* On the tailnet there is one way through it, by name or by address, and   *)
(* outside of it there is none.                                             *)
LEMMA TailnetAddresses ==
    ASSUME TypeOK, HostAddresses = host, tailnet <=> ips # {}, tailnet <=> name # Unknown
    PROVE  /\ host.tailnet_name \in {"magicdns", Unknown}
           /\ host.tailnet_ip \in {"tailnet", Unknown}
           /\ tailnet => Tailnet(host) = {"magicdns"} /\ host.tailnet_name = "magicdns"
           /\ ~tailnet => Tailnet(host) = {}
<1>1. /\ host.tailnet_ip = (IF ips # {} THEN "tailnet" ELSE Unknown)
      /\ host.tailnet_name = name /\ name \in {"magicdns", Unknown}
  BY DEF HostAddresses, TypeOK
<1> QED
  BY <1>1 DEF Tailnet, Unknown

(* Where a viewer is follows from the address it used.                      *)
LEMMA ViewerOf ==
    ASSUME TypeOK, HostAddresses = host, tailnet <=> ips # {}, tailnet <=> name # Unknown,
           NEW p \in Positions, NEW o \in Origins, Looks(p, o)
    PROVE  /\ Viewer(o, host) \in {"loopback", "lan", "tailnet"}
           /\ Viewer(o, host) = "lan" => nic
           /\ Viewer(o, host) = "tailnet" => tailnet
           /\ p = "tunnel" => Viewer(o, host) = "loopback"
           /\ p = "lan" => Viewer(o, host) = "lan"
           /\ p = "tailnet" => Viewer(o, host) = "tailnet"
<1>1. /\ o \in Path(p)
      /\ Resolve(o) = "lan" => nic
      /\ Resolve(o) = "tailnet" => tailnet
  BY DEF Looks
<1>2. /\ host.tailnet_name \in {"magicdns", Unknown} /\ host.tailnet_ip \in {"tailnet", Unknown}
      /\ tailnet => host.tailnet_name = "magicdns"
  BY TailnetAddresses
<1>3. CASE o \in {"localhost", "127.0.0.1", "::1"}
  <2>1. Viewer(o, host) = "loopback"
    BY <1>2, <1>3 DEF Viewer, Loopbacks, Unknown
  <2>2. p # "lan" /\ p # "tailnet"
    BY <1>1, <1>3 DEF Path
  <2> QED
    BY <2>1, <2>2
<1>4. CASE o \in {"lan", "alias"}
  <2>1. Viewer(o, host) = "lan"
    BY <1>2, <1>4 DEF Viewer, Loopbacks, Unknown
  <2> QED
    BY <1>1, <1>4, <2>1 DEF Positions, Path, Resolve
<1>5. CASE o \in {"tailnet", "magicdns"}
  <2>1. tailnet
    BY <1>1, <1>5 DEF Resolve
  <2>2. Viewer(o, host) = "tailnet"
    BY <1>2, <1>5, <2>1 DEF Viewer, Loopbacks
  <2> QED
    BY <1>1, <1>5, <2>1, <2>2 DEF Positions, Path
<1> QED
  BY <1>3, <1>4, <1>5 DEF Origins

(* What a plan offers, by what the service is bound to.                     *)
LEMMA PlanOf ==
    ASSUME NEW b \in Binds, NEW o, NEW h, NEW isSelf
    PROVE  /\ b \in Wildcards =>
                  Plan(b, o, h, isSelf) = [NoPlan EXCEPT !.routes = Everywhere(Viewer(o, h), h)]
           /\ Scope(b) = "host-only" => Plan(b, o, h, isSelf) = HostOnly(Viewer(o, h), h, isSelf)
           /\ b \in {"lan", "tailnet"} =>
                  Plan(b, o, h, isSelf) = OneNetwork(b, Viewer(o, h), Scope(b))
           /\ b \in {"lan", "tailnet"} => Scope(b) = (IF b = "lan" THEN "lan-only" ELSE "tailnet-only")
           /\ b \in Wildcards \/ Scope(b) = "host-only" \/ b \in {"lan", "tailnet"}
           /\ Scope(b) = "host-only" => b \in {"127.0.0.1", "::1", "bridge"}
<1>1. b \in Wildcards => Scope(b) = "all"
  BY DEF Scope, Wildcards, Loopbacks
<1>2. b \in {"127.0.0.1", "::1", "bridge"} => Scope(b) = "host-only"
  BY DEF Scope, Wildcards, Loopbacks
<1>3. b = "lan" => Scope(b) = "lan-only"
  BY DEF Scope, Wildcards, Loopbacks
<1>4. b = "tailnet" => Scope(b) = "tailnet-only"
  BY DEF Scope, Wildcards, Loopbacks
<1>5. b \in Wildcards \/ b \in {"127.0.0.1", "::1", "bridge"} \/ b = "lan" \/ b = "tailnet"
  BY DEF Binds, Loopbacks
<1> QED
  BY <1>1, <1>2, <1>3, <1>4, <1>5 DEF Plan, Wildcards

(* What everybody can reach is offered at addresses of the viewer's side.   *)
LEMMA EverywhereLeads ==
    ASSUME TypeOK, HostAddresses = host, tailnet <=> ips # {}, tailnet <=> name # Unknown,
           Advertise # << >> => nic,
           NEW viewer \in {"loopback", "lan", "tailnet"},
           viewer = "lan" => nic, viewer = "tailnet" => tailnet
    PROVE  LET routes == Everywhere(viewer, host)
           IN  /\ routes # {}
               /\ viewer = "lan" => routes \subseteq {"lan", "alias"}
               /\ viewer = "tailnet" => routes \subseteq {"magicdns"}
               /\ viewer = "loopback" => "127.0.0.1" \in routes
               /\ routes \subseteq {"127.0.0.1", "lan", "alias", "magicdns"}
<1>1. /\ ToSet(host.lan) \subseteq {"lan", "alias"}
      /\ nic => host.lan # << >> /\ ToSet(host.lan) # {}
  BY LocalAddresses
<1>2. /\ tailnet => Tailnet(host) = {"magicdns"}
      /\ ~tailnet => Tailnet(host) = {}
  BY TailnetAddresses
<1>3. CASE viewer = "tailnet"
  BY <1>2, <1>3 DEF Everywhere
<1>4. CASE viewer = "lan"
  BY <1>1, <1>4 DEF Everywhere
<1>5. CASE viewer = "loopback"
  <2>1. Everywhere(viewer, host) = {"127.0.0.1"} \cup ToSet(host.lan) \cup Tailnet(host)
    BY <1>5 DEF Everywhere
  <2> QED
    BY <1>1, <1>2, <1>5, <2>1, tailnet \/ ~tailnet
<1> QED
  BY <1>3, <1>4, <1>5

(* A forward goes through the viewer's own network, and there is one as     *)
(* long as the machine has an address.                                      *)
LEMMA ForwardLeads ==
    ASSUME TypeOK, HostAddresses = host, tailnet <=> ips # {}, tailnet <=> name # Unknown,
           Advertise # << >> => nic
    PROVE  /\ nic => ForwardTarget("lan", host) \subseteq {"lan", "alias"}
           /\ tailnet => ForwardTarget("tailnet", host) = {"magicdns"}
           /\ \A viewer \in {"loopback", "lan"} :
                  \/ ForwardTarget(viewer, host) # {}
                  \/ host.lan = << >> /\ Tailnet(host) = {}
<1>1. host.lan # << >> => Head(host.lan) \in {"lan", "alias"}
  BY LocalAddresses
<1>2. nic => host.lan # << >>
  BY LocalAddresses
<1>3. tailnet => Tailnet(host) = {"magicdns"}
  BY TailnetAddresses
<1> QED
  BY <1>1, <1>2, <1>3 DEF ForwardTarget

(* A section that is as the machine is tells every viewer of every service  *)
(* the way to it, or that there is none.                                    *)
LEMMA PlanIsRight ==
    ASSUME TypeOK, SelfBound, NEW port \in Ports, NEW p \in Positions, NEW o \in Origins,
           Fresh(port), Looks(p, o)
    PROVE  LET b    == services[port].bind
               plan == Plan(b, o, host, port = SelfPort)
           IN  /\ p # "tunnel" /\ Forwardable(b) => \A a \in plan.routes : Leads(p, b, a)
               /\ Promised(b, p, o) \/ (port = SelfPort /\ p = "tunnel") =>
                      \E a \in plan.routes : Leads(p, b, a)
               /\ Scope(b) = "host-only" /\ port # SelfPort =>
                      plan.forward # {} \/ (host.lan = << >> /\ Tailnet(host) = {})
               /\ p \in {"lan", "tailnet"} => plan.forward \subseteq Path(p)
               /\ plan.routes = {} /\ plan.forward = {} => plan.reason
<1> DEFINE b      == services[port].bind
           viewer == Viewer(o, host)
           isSelf == port = SelfPort
           plan   == Plan(b, o, host, isSelf)
<1>1. /\ b \in bound[port] /\ b \in Binds
      /\ HostAddresses = host /\ (tailnet <=> ips # {}) /\ (tailnet <=> name # Unknown)
      /\ Advertise # << >> => nic
  BY DEF Fresh, TypeOK
<1>2. /\ viewer \in {"loopback", "lan", "tailnet"}
      /\ viewer = "lan" => nic
      /\ viewer = "tailnet" => tailnet
      /\ p = "tunnel" => viewer = "loopback"
      /\ p = "lan" => viewer = "lan"
      /\ p = "tailnet" => viewer = "tailnet"
      /\ Promised(b, p, o) /\ p = "host" => viewer = "loopback"
  BY <1>1, ViewerOf DEF Promised, AsSeen
<1>3. /\ {"lan", "alias", "127.0.0.1", "magicdns", "tailnet"} \subseteq Path("host")
      /\ Path("lan") = {"lan", "alias"} /\ Path("tailnet") = {"tailnet", "magicdns"}
      /\ "127.0.0.1" \in Path("tunnel")
  BY DEF Path, Origins
<1>4. p \in {"host", "tunnel", "lan", "tailnet"} /\ isSelf \in BOOLEAN
  BY DEF Positions
<1>10. \A a \in {"lan", "alias", "127.0.0.1", "magicdns", "tailnet"} :
          Leads(p, b, a) <=> a \in Path(p) /\ Accepts(b, a)
  BY DEF Leads
<1>5. /\ b \in Wildcards => plan = [NoPlan EXCEPT !.routes = Everywhere(viewer, host)]
      /\ Scope(b) = "host-only" => plan = HostOnly(viewer, host, isSelf)
      /\ b \in {"lan", "tailnet"} => plan = OneNetwork(b, viewer, Scope(b))
      /\ b \in {"lan", "tailnet"} => Scope(b) = (IF b = "lan" THEN "lan-only" ELSE "tailnet-only")
      /\ b \in Wildcards \/ Scope(b) = "host-only" \/ b \in {"lan", "tailnet"}
      /\ Scope(b) = "host-only" => b \in {"127.0.0.1", "::1", "bridge"}
  <2> HIDE DEF b, isSelf
  <2> QED
    BY <1>1, PlanOf
<1>6. CASE b \in Wildcards
  <2>1. plan = [NoPlan EXCEPT !.routes = Everywhere(viewer, host)]
    BY <1>6, <1>5
  <2>2. plan.routes = Everywhere(viewer, host) /\ plan.forward = {}
    BY <2>1 DEF NoPlan
  <2>3. /\ plan.routes # {}
        /\ viewer = "lan" => plan.routes \subseteq {"lan", "alias"}
        /\ viewer = "tailnet" => plan.routes \subseteq {"magicdns"}
        /\ viewer = "loopback" => "127.0.0.1" \in plan.routes
        /\ plan.routes \subseteq {"127.0.0.1", "lan", "alias", "magicdns"}
    BY <1>1, <1>2, <2>2, EverywhereLeads
  <2>4. \A a \in {"127.0.0.1", "lan", "alias", "magicdns"} : Accepts(b, a)
    BY <1>6 DEF Wildcards, Accepts, Resolve
  <2>5. Scope(b) # "host-only"
    BY <1>6, <1>5 DEF Wildcards
  <2>6. p # "tunnel" => plan.routes \subseteq Path(p)
    BY <1>2, <1>3, <1>4, <2>3
  <2>7. p # "tunnel" => \A a \in plan.routes : Leads(p, b, a)
    BY <1>10, <2>3, <2>4, <2>6
  <2>8. p # "tunnel" => \E a \in plan.routes : Leads(p, b, a)
    BY <2>3, <2>7
  <2>9. p = "tunnel" => "127.0.0.1" \in plan.routes /\ Leads(p, b, "127.0.0.1")
    BY <1>2, <1>3, <1>10, <2>3, <2>4
  <2>10. \E a \in plan.routes : Leads(p, b, a)
    BY <2>8, <2>9
  <2> QED
    BY <2>2, <2>3, <2>5, <2>7, <2>10
<1>7. CASE Scope(b) = "host-only" /\ isSelf
  <2>1. b = "127.0.0.1" /\ bound[SelfPort] = {"127.0.0.1"}
    <3>1. b \in {"127.0.0.1", "0.0.0.0"} /\ bound[SelfPort] = {b}
      BY <1>1, <1>7 DEF SelfBound
    <3>2. b \in {"127.0.0.1", "::1", "bridge"}
      BY <1>7, <1>5
    <3> QED
      BY <3>1, <3>2
  <2>2. plan = [NoPlan EXCEPT !.routes = {"127.0.0.1"}]
    BY <1>7, <1>5 DEF HostOnly
  <2>3. plan.routes = {"127.0.0.1"} /\ plan.forward = {}
    BY <2>2 DEF NoPlan
  <2>4. p # "lan" /\ p # "tailnet"
    <3>1. o \in Path(p) /\ Resolve(o) = "127.0.0.1"
      BY <2>1 DEF Looks, Accepts
    <3> QED
      BY <1>3, <3>1 DEF Resolve
  <2>5. Leads(p, b, "127.0.0.1")
    BY <1>3, <1>4, <1>10, <2>1, <2>4 DEF Accepts, Resolve
  <2> QED
    BY <1>7, <2>3, <2>4, <2>5
<1>8. CASE Scope(b) = "host-only" /\ ~isSelf
  <2> DEFINE target == ForwardTarget(viewer, host)
  <2>1. plan = [routes  |-> IF viewer = "loopback" THEN {"127.0.0.1"} ELSE {},
                forward |-> target, reason |-> target = {}]
    BY <1>8, <1>5 DEF HostOnly
  <2>2. /\ plan.routes \subseteq {"127.0.0.1"} /\ plan.forward = target
        /\ plan.routes # {} => viewer = "loopback"
        /\ plan.reason = (target = {})
    BY <2>1
  <2>3. Forwardable(b) => Accepts(b, "127.0.0.1")
    BY <1>8 DEF Forwardable
  <2>4. p \in {"lan", "tailnet"} => target \subseteq Path(p)
    BY <1>1, <1>2, <1>3, ForwardLeads
  <2>5. target # {} \/ (host.lan = << >> /\ Tailnet(host) = {})
    BY <1>1, <1>2, ForwardLeads
  <2>6. Promised(b, p, o) => p = "host" /\ Accepts(b, "127.0.0.1")
    <3>1. Promised(b, p, o) => b = "127.0.0.1" /\ Accepts(b, "127.0.0.1")
      BY <1>5, <1>8, <2>3 DEF Promised, Accepts, Resolve
    <3>2. \A a \in {"lan", "alias", "tailnet", "magicdns"} : ~Accepts("127.0.0.1", a)
      BY DEF Accepts, Resolve
    <3> QED
      BY <1>3, <1>4, <3>1, <3>2 DEF Promised
  <2>7. Promised(b, p, o) => "127.0.0.1" \in plan.routes /\ Leads(p, b, "127.0.0.1")
    BY <1>2, <1>3, <1>10, <2>1, <2>6
  <2>8. p # "tunnel" /\ Forwardable(b) => \A a \in plan.routes : Leads(p, b, a)
    BY <1>2, <1>3, <1>4, <1>10, <2>2, <2>3
  <2> QED
    BY <1>2, <1>8, <2>2, <2>4, <2>5, <2>7, <2>8
<1>9. CASE b \in {"lan", "tailnet"}
  <2> DEFINE scope == Scope(b)
  <2>1. plan = OneNetwork(b, viewer, scope) /\ scope = (IF b = "lan" THEN "lan-only" ELSE "tailnet-only")
    BY <1>9, <1>5
  <2>2. PICK here \in BOOLEAN :
            /\ here <=> \/ scope = "tailnet-only" /\ viewer = "tailnet"
                        \/ scope = "lan-only" /\ viewer \in {"lan", "loopback"}
            /\ plan = [NoPlan EXCEPT !.routes = IF here THEN {b} ELSE {}, !.reason = ~here]
    BY <2>1 DEF OneNetwork
  <2>3. /\ plan.routes = (IF here THEN {b} ELSE {}) /\ plan.forward = {}
        /\ plan.reason = ~here
    BY <2>2 DEF NoPlan
  <2>4. Accepts(b, b)
    BY <1>9 DEF Accepts, Resolve
  <2>5. here /\ p # "tunnel" => b \in Path(p)
    BY <1>2, <1>3, <1>4, <1>9, <2>1, <2>2
  <2>6. Promised(b, p, o) => here /\ p # "tunnel"
    <3>1. \A a \in {"lan", "alias"} : ~Accepts("tailnet", a)
      BY DEF Accepts, Resolve
    <3>2. \A a \in {"tailnet", "magicdns"} : ~Accepts("lan", a)
      BY DEF Accepts, Resolve
    <3>3. Promised(b, p, o) => (p = "tailnet" => b = "tailnet") /\ (p = "lan" => b = "lan")
      BY <1>3, <1>9, <3>1, <3>2 DEF Promised
    <3>4. Promised(b, p, o) => p # "tunnel" /\ (p = "host" => b = "lan")
      BY <1>9, <2>1 DEF Promised
    <3> QED
      BY <1>2, <1>4, <1>9, <2>1, <2>2, <3>3, <3>4
  <2>7. ~isSelf
    BY <1>1, <1>9 DEF SelfBound
  <2>8. \A a \in plan.routes : a = b /\ here
    BY <2>3
  <2>9. here /\ p # "tunnel" => b \in plan.routes /\ Leads(p, b, b)
    BY <1>9, <1>10, <2>3, <2>4, <2>5
  <2> QED
    BY <2>1, <2>3, <2>6, <2>7, <2>8, <2>9
<1> QED
  BY <1>6, <1>7, <1>8, <1>9, <1>5

(* Whatever listens, and whatever networks there are, what the page tells    *)
(* while its section is true of the machine is right: its links lead there,  *)
(* nobody but those TellsTheWay excepts is refused what they reach, and      *)
(* whoever is given no way is given a reason.                                *)
THEOREM PageTellsTheWay == Spec => []TellsTheWay
<1>1. TypeOK /\ SelfBound => TellsTheWay
  BY PlanIsRight DEF TellsTheWay
<1> QED
  BY <1>1, InventoryTypeCorrect, DashboardStaysBound, PTL

=============================================================================
