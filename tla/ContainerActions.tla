--------------------------- MODULE ContainerActions ---------------------------
(***************************************************************************)
(* Launching, starting, stopping and restarting containers: the container  *)
(* half of actions/runner.py with find_running, check_memory_budget and    *)
(* build_run_spec of catalog.py.                                           *)
(*                                                                         *)
(* Every call to Docker is an await, and nothing is held between two of    *)
(* them: a launch lists the containers for its entry, lists them again for *)
(* their reservations, creates and at last starts its own.  Reservations   *)
(* are hundredths; the code compares their sum with a tolerance that makes *)
(* the comparison of fractions exact.                                      *)
(***************************************************************************)
EXTENDS Integers, FiniteSets, FiniteSetsExt

CONSTANTS Requests,   \* control requests that may be in flight
          Entries,    \* catalog entries of kind "container"
          Ports,      \* the ports a launch may ask for
          Outside,    \* containers started outside dgxctl
          Unread,     \* of those, the ones whose reservation is not recognised
          Share,      \* what an entry or an outside container reserves
          Maximum     \* MAX_TOTAL_GPU_UTILIZATION

ASSUME BudgetAssumption ==
    /\ \A e \in Entries \cup Outside : Share[e] \in Nat
    /\ Unread \subseteq Outside
    /\ Entries \cap Outside = {}
    /\ IsFiniteSet(Entries) /\ IsFiniteSet(Ports) /\ IsFiniteSet(Outside)
    /\ Maximum \in Nat

Launched   == Entries \X Ports      \* named dgxctl-<entry>-<port>
Containers == Launched \cup Outside

VARIABLES state,      \* container -> "absent", "created", "running" or "exited"
          daemon,     \* Docker answers
          client,     \* docker_client keeps a client, which it never drops
          pc,         \* request -> its next step
          op,         \* request -> the action
          target,     \* request -> the container it is about
          \* history: the launched containers that ran when a launch looked for
          \* its entry, and all that ran when it added up the reservations, as
          \* far as they have run ever since
          looked, counted

docker  == <<state, daemon>>
history == <<looked, counted>>
vars    == <<docker, client, pc, op, target, history>>

Running == {c \in Containers : state[c] = "running"}
Of(c)   == IF c \in Launched THEN c[1] ELSE c

(* get_client: a client once made is kept; without one and without Docker   *)
(* there is none, which the listings take for an empty list                 *)
HasClient == client \/ daemon
Listed    == IF HasClient THEN Running ELSE {}
Connect   == client' = HasClient
Raises    == client /\ ~daemon

GoTo(r, l) == pc' = [pc EXCEPT ![r] = l]

(* An answer, whatever it says; what is written to the action log is        *)
(* ProcessRegistry's subject                                                *)
Finish(r) == GoTo(r, "idle")

(* Docker changes the state of a container: one that stops is another later *)
Becomes(c, s) ==
    /\ state' = [state EXCEPT ![c] = s]
    /\ IF s = "running" THEN UNCHANGED history
       ELSE /\ looked'  = [r \in Requests |-> looked[r] \ {c}]
            /\ counted' = [r \in Requests |-> counted[r] \ {c}]

(***************************************************************************)
(* A launch                                                                *)
(***************************************************************************)
Begin(r, o, c) ==
    /\ pc[r] = "idle"
    /\ o = "launch" => c \in Launched
    /\ op' = [op EXCEPT ![r] = o]
    /\ target' = [target EXCEPT ![r] = c]
    /\ GoTo(r, IF o = "launch" THEN "find" ELSE "get")
    /\ UNCHANGED <<docker, client, history>>

\* mutant: only a container on the same port counts as the entry's
FindOnPort(r) ==
    /\ pc[r] = "find"
    /\ ~Raises
    /\ Connect
    /\ looked' = [looked EXCEPT ![r] = Running \cap Launched]
    /\ IF target[r] \in Listed
       THEN Finish(r)
       ELSE GoTo(r, "budget")
    /\ UNCHANGED <<docker, op, target, counted>>

(* find_running: the label, on whatever port *)
Find(r) ==
    /\ pc[r] = "find"
    /\ ~Raises
    /\ Connect
    /\ looked' = [looked EXCEPT ![r] = Running \cap Launched]
    /\ IF \E c \in Listed \cap Launched : Of(c) = Of(target[r])
       THEN Finish(r)
       ELSE GoTo(r, "budget")
    /\ UNCHANGED <<docker, op, target, counted>>

Reserved(cs) == MapThenSumSet(LAMBDA c : Share[Of(c)], cs \ Unread)

\* mutant: what is running already is compared, without the request
FitsAlready(r) == Reserved(Listed) <= Maximum

(* check_memory_budget: an entry that reserves nothing always fits *)
Fits(r) == Share[Of(target[r])] = 0 \/ Reserved(Listed) + Share[Of(target[r])] <= Maximum

Budget(r) ==
    /\ pc[r] = "budget"
    /\ ~Raises
    /\ Connect
    /\ counted' = [counted EXCEPT ![r] = Running]
    /\ IF Fits(r) THEN GoTo(r, "create") ELSE Finish(r)
    /\ UNCHANGED <<docker, op, target, looked>>

(* containers.run creates first: a container of the name, even a stopped    *)
(* one, makes it fail                                                       *)
Create(r) ==
    /\ pc[r] = "create"
    /\ daemon
    /\ Connect
    /\ IF state[target[r]] = "absent"
       THEN Becomes(target[r], "created") /\ GoTo(r, "start")
       ELSE Finish(r) /\ UNCHANGED <<state, history>>
    /\ UNCHANGED <<daemon, op, target>>

Start(r) ==
    /\ pc[r] = "start"
    /\ daemon
    /\ IF state[target[r]] = "absent"
       THEN Finish(r) /\ UNCHANGED <<state, history>>
       ELSE Becomes(target[r], "running") /\ Finish(r)
    /\ UNCHANGED <<daemon, client, op, target>>

(***************************************************************************)
(* Start, stop and restart of a container by name                          *)
(***************************************************************************)
Get(r) ==
    /\ pc[r] = "get"
    /\ daemon
    /\ Connect
    /\ IF state[target[r]] = "absent" THEN Finish(r)
       ELSE GoTo(r, "act")
    /\ UNCHANGED <<docker, op, target, history>>

(* a container that was never started cannot be stopped *)
Act(r) ==
    /\ pc[r] = "act"
    /\ daemon
    /\ CASE state[target[r]] = "absent" -> Finish(r) /\ UNCHANGED <<state, history>>
         [] state[target[r]] # "absent" /\ op[r] = "stop" ->
                /\ Finish(r)
                /\ IF state[target[r]] = "running" THEN Becomes(target[r], "exited")
                   ELSE UNCHANGED <<state, history>>
         [] OTHER -> Finish(r) /\ Becomes(target[r], "running")
    /\ UNCHANGED <<daemon, client, op, target>>

(* Any step may raise instead: a refused connection, an unknown parameter,  *)
(* a port in use, an image that is gone, an answer that never comes         *)
Fails(r) ==
    /\ pc[r] # "idle"
    /\ Finish(r)
    /\ UNCHANGED <<docker, client, op, target, history>>

(***************************************************************************)
(* The host                                                                *)
(***************************************************************************)
(* docker run, docker start, a restart policy; an exit, docker stop; docker rm *)
ContainerChanges(c) ==
    /\ daemon
    /\ \/ c \in Outside /\ state[c] = "absent" /\ Becomes(c, "running")
       \/ state[c] \in {"created", "exited"} /\ Becomes(c, "running")
       \/ state[c] = "running" /\ Becomes(c, "exited")
       \/ state[c] \in {"created", "exited"} /\ Becomes(c, "absent")
    /\ UNCHANGED <<daemon, client, pc, op, target>>

(* Docker stops with its containers, and starts *)
DaemonChanges ==
    /\ daemon' = ~daemon
    /\ state' = [c \in Containers |-> IF state[c] = "running" THEN "exited" ELSE state[c]]
    /\ looked' = [r \in Requests |-> {}]
    /\ counted' = [r \in Requests |-> {}]
    /\ UNCHANGED <<client, pc, op, target>>

-----------------------------------------------------------------------------
Init ==
    /\ state = [c \in Containers |-> "absent"]
    /\ daemon \in BOOLEAN
    /\ client = FALSE
    /\ pc = [r \in Requests |-> "idle"]
    /\ op = [r \in Requests |-> "launch"]
    /\ target \in {[r \in Requests |-> c] : c \in Launched}
    /\ looked = [r \in Requests |-> {}]
    /\ counted = [r \in Requests |-> {}]

Operations == {"launch", "start", "stop", "restart"}

Step(r) ==
    Find(r) \/ Budget(r) \/ Create(r) \/ Start(r) \/ Get(r) \/ Act(r) \/ Fails(r)

Next ==
    \/ \E r \in Requests, o \in Operations, c \in Containers : Begin(r, o, c)
    \/ \E r \in Requests : Step(r)
    \/ \E c \in Containers : ContainerChanges(c)
    \/ DaemonChanges

Spec == Init /\ [][Next]_vars

-----------------------------------------------------------------------------
TypeOK ==
    /\ state \in [Containers -> {"absent", "created", "running", "exited"}]
    /\ daemon \in BOOLEAN /\ client \in BOOLEAN
    /\ pc \in [Requests -> {"idle", "find", "budget", "create", "start", "get", "act"}]
    /\ op \in [Requests -> Operations]
    /\ target \in [Requests -> Containers]
    /\ looked \in [Requests -> SUBSET Launched]
    /\ counted \in [Requests -> SUBSET Containers]

Starts(r) == pc[r] = "start" /\ Start(r) /\ target[r] \notin Running

(* A launch passes the ceiling only by what raced with it: what is over it    *)
(* once its container runs is reserved by containers that began to run since  *)
(* it added up (check_memory_budget, catalog.py:169-185), whatever stopped,   *)
(* was removed or came back, and whether Docker was there when it looked.     *)
LaunchFits ==
    [][\A r \in Requests :
          Starts(r) /\ Share[Of(target[r])] > 0 =>
              Reserved(Running') <= Maximum + Reserved(Running \ counted[r])]_vars

(* A launch that starts its container next to another of its entry, on        *)
(* whatever port, raced with it: the other began to run, or to run again,     *)
(* since this one looked (find_running, catalog.py:155-166).                  *)
LaunchIsAlone ==
    [][\A r \in Requests :
          Starts(r) =>
              \A c \in Running' \cap Launched :
                  Of(c) = Of(target[r]) => c = target[r] \/ c \notin looked[r]]_vars

=============================================================================
