# dgx-control, specified

TLA+ modules for `dgxctl`, the dashboard of a DGX machine: one asyncio process
that polls the machine, keeps a snapshot in memory, streams it to browsers,
takes control actions on containers and processes, and aggregates its peers.
The modules are translated from `src/` (paths below are relative to it); TLC
checks them on small instances, TLAPS proves some of the results for every
instance.

- [The system](#the-system)
- [The modules](#the-modules)
- [The runs](#the-runs)
- [Fairness](#fairness)
- [The proofs](#the-proofs)
- [Where the code differs from what is said of it](#where-the-code-differs-from-what-is-said-of-it)
- [What is not modelled](#what-is-not-modelled)
- [Plan](#plan)

## The system

| Component | State it keeps | Operations | Talks to |
|---|---|---|---|
| Snapshot store (`store.py`) | `version`, the sections of every node, one bounded queue per subscriber; nothing survives a restart | `put`, `put_node`, `put_many`, `snapshot`, `subscribe` | poller writes, streams and REST handlers read |
| Event streams (`api/routes.py` `stream`, `main.py` shutdown) | one async generator per browser | subscribe, first snapshot, item or ping, end | store, uvicorn, the browser |
| Admission (`auth.py`) | token read at start, tickets and whois answers with lifetimes | bind guard, token check, ticket issue and consumption, allowlist | token file, `tailscale whois` |
| Poller and collectors (`poller.py`, `collectors/base.py`) | one task per collector, `_last_good`, `_unavailable_reason`; one thread pool for all | the loops, `run()`, `depends_on`, `stop()` | sources in threads, the store, the history |
| Federation (`poller.py` `_remote_loop`) | one task per peer | poll, store, mark unreachable | the peer's `/api/snapshot`, the store |
| Web client stream (`web/src/api/stream.tsx`) | selected node, snapshot, connection state, one EventSource and its retry timer | select, ticket, open, retry, poll a remote node | streams, tickets, `/api/snapshot?node=` |
| Process registry and actions (`processes.py`, `actions/runner.py`) | `processes.json` and its temporary file, the action log | launch, adopt, stop, kill, declared services | the host's processes, from the loop and from threads |
| Container actions (`actions/runner.py`, `catalog.py`, `docker_client.py`) | one Docker client, never dropped | launch within a memory budget, start, stop, restart | Docker |
| Service inventory (`collectors/network.py`, `services.py`, `tailscale.py`, `endpoints.py`, `services_catalog.py`) | `TailscaleCollector.ips`, the sections | listeners, exposures, one service per port, host addresses | `ss`, `tailscale`, the store |
| Reachability (`reachability.py`, `web/src/reachability.ts`, `components/access.tsx`) | none: a pure function | classify the viewer and the service, plan the access | the services section, `window.location` |
| Onboarding and Sync (`onboarding.py`, `cli.py`, `nvidia_sync.py`) | `config.toml`, the token file, `custom.json`, backups of them | `onboard`, `token`, `sync`, each a sequence of file operations | the user's editor, NVIDIA Sync, the service at its start |
| Privileged helper (`privileged.py`, `deploy/privileged/`) | the helper, its rule and drop-in, one cached status | install, remove, inspect, run | sudo, systemd, the network collector |
| History (`history.py`) | one SQLite file | record, series, prune, close | poller, REST |
| Measured sizes (`collectors/disk.py`, `collectors/models.py`) | a size per root with a lifetime, a size per model under its mtime | collect, `du`, walk | threads that outlive their collection, downloads |
| Installation (`deploy/`, the end of `onboard`) | the virtualenv, the link, the PATH lines, the unit and what runs of it | `install.sh`, `ensure_on_path`, `install_service`, `restart_service`, `uninstall.sh` | the shell files, systemd, NVIDIA Sync, the files of onboarding |
| Command line, doctor, pages | none of their own | | all of the above |

**What is hard in it.** Everything that awaits: a store write between two steps
of a stream, a stream cancelled at a `yield`, a selection that changes while a
ticket is on its way, two launches in flight between their check and their
effect, threads that outlive the run that started them, a registry file that
two threads load, change and save. Everything that is checked first and used
later: a token file read twice, a whois answer kept for minutes, a pid that is
reused, a tailnet address learnt by another collector. And what stops in the
middle: a service restart, a peer that goes away, a configuration that is half
written, an uninstall that is interrupted. What takes longer than it may: a `du` of
a large cache, a walk of a model while it is downloaded. `PROJECT.json` lists these hazards one by one, at their lines, with the
properties that cover them.

## The modules

### SnapshotStream, LatestValueFeed, SnapshotStreamProofs

`SnapshotStream` is the store and every open stream. `version`, `sections`,
`subscribers` and `queue` are the fields of `SnapshotStore`; `phase` is where a
stream's generator stands (`events()` of `routes.py`), `payload` what it is
yielding, `view` what its browser has received, `server` how far the shutdown
has come. `Put`, `PutNode` and `PutMany` are the store's methods with their
`_notify`; `Open`, `Loop`, `Receive`, `Emit`, `Timeout` and `Send` are the
generator between two awaits; `Disconnect`, `Abort` and `Finalise` are the ends
uvicorn and asyncio give a generator; `Signal`, `StopListening`, `DrainTimeout`
and `Stop` are the shutdown of `main.py` and `cli.py`.

`LatestValueFeed` is what this promises, in four variables fewer: a publication
wakes whoever rests, readers may skip versions and never go back, and only a
reader that has seen the newest version rests. `ImplementsFeed` is the
refinement, with `seen` and `resting` computed from `view`, `phase` and `queue`.

### Admission

Who gets in: `Guard` and `Authenticate` are the two reads of the token file at
start, `EditTokenFile` what may happen between them, `IssueTicket` a request
that passes `require_auth`, `OpenStream` the consumption of a ticket and then
the allowlist, `Whois` with `Cached` and `Remember` the cache. Time is a clock
that both lifetimes are compared with.

### CollectorPoller

The loops of `Poller`, `Collector.run` and the executor they share. `where` is
what a loop awaits, `job` what has become of its `to_thread`, `pool` and
`waiting` the threads and the queue of the default executor. A timeout gives up
a job and not its thread (`GiveUp`, `ThreadEnds`), `Cancelled` is `stop()`, and
`SourceChanges` is a driver or daemon that goes down, hangs or comes back.
`pruning` is the loop that prunes the history, whose work queues for the same
threads (`PruneDue`, `PruneThreadEnds`). `stop()` ends the loop and not a thread that
has begun (`PruneCancelled`): that one may still delete afterwards, until it gives
back the lock that `History!Close` waits for. Data is the number of the run it was
collected in.

### ProcessRegistry

Requests that launch, stop or kill host processes, one step per access to the
registry file: `_load`, truncation, write and rename are apart, since two
threads share `processes.tmp`. A process is an instance with a birth and a pid,
pids are reused, an exited child is a zombie until it is reaped, and a restart
of the service ends its control group. `StartedOutside`, `Listen` and `Exit` are
the rest of the host. What an instance runs is an entry or a kind of stranger, and
`Names` says whose executable is among the arguments of each, which is all that
`find_external` asks (`External`).

Every exception that a step of an action raises is logged. A request that the end of the
service cuts short (`Restart`) is neither answered nor logged: `except Exception`
(`actions/runner.py:104`) does not catch a `CancelledError`, so what it did leaves no line.

### Federation, BrowserStream, NodeView

`Federation` is the aggregator's loop per peer, `BrowserStream` the three
effects of `StreamProvider`. `NodeView` composes them over a restart of the
service: what a peer says is `current`, what the store holds `data`, what the
page shows `shown`. An effect of React is numbered, and an `EventSource` or a
poll belongs to the effect that opened it.

### ContainerActions

Launch, start, stop and restart of containers: `Find` and `Budget` list the
running containers in two calls, `Create` and `Start` are the two halves of
`containers.run`, `Fails` any of them raising. Containers from a terminal start,
stop and vanish between any two steps, Docker goes away and comes back, and the
client once made is kept.

### Reachability, ServiceInventory

`Reachability` is `planAccess` as operators over classes of addresses, beside a
small model of the network: which addresses a listener accepts (`Accepts`) and
which reach this machine from where a person sits (`Path`). `ServiceInventory`
runs the three collectors whose sections it is evaluated over, each as old as
its last run, while listeners and networks come and go.

### Onboarding

`onboard`, `token` and `sync` as sequences of file operations, with a crash
possible before each of them and a user and NVIDIA Sync saving the same files.
The text of a file is whether it loads, the address class of its host and the edition
of what onboarding does not manage. A file is `tricky` when it loads and `TEMPLATE` or
`split_existing` does not see through it; from it, or with a node name that would have
to be escaped, a rendering may be anything (`Renderings`, `Plain`). `Startable` is what `load_settings`,
`check_bind_guard` and `Authenticator` ask of the files.

It assumes that one command runs at a time, that no two begin in the same second
(backups are named after it), and that nobody saves a file between its backup
and its replacement, two consecutive statements. Without these three the
difference is lost, in the configuration as in `custom.json`.

### Installation

`Installation` extends `Onboarding` with the program around those files.
`MakeVenv`, `Pip` and `Ln` are `deploy/install.sh`; `FindLink` to `AppendLine` are
`ensure_on_path`, `InstallUnit` to `RestartUnit` the service part of `onboard`;
`Uninstall` to `PurgeData` are `deploy/uninstall.sh`, one step per file or command,
the two halves of `grep > file` apart. `Boot` and `Retry` are systemd; `Cut`
interrupts any of it, and `Enable`, `RestartUnit`, `Disable` and `SkipUnregister`
may also be disobeyed. Releases are numbers, so that a service can run an older
program than the one installed. `Purge`, in `Onboarding`, is what `--purge` does to
the files that module is about.

A shell file is whether the user's text in it is whole and whether our line is; that
`.local/bin` occurs in the user's own text, which `ensure_on_path` takes for the line,
is left out. `DGXCTL_VENV` has its default. What keeps a command from being
found, or a program from being removed, is a matter of which files the account has,
so an account is a constant: its shell, its files, and whether NVIDIA Sync is there.

### DiskUsage, ModelSizes, History, Measurements

What outlives a collection. `DiskUsage`: a collection is a thread (`DiskThreadStep`)
that takes the roots in order, through `duCache`; `CollectionTimesOut` gives up the
collection and not the thread. `ModelSizes`: a scan hands one entry at a time to a
thread (`EntryLookup`, `WalkEnds`), `Download` changes what is walked and touches the
entry's mtime or not. `History`: `Record`, `Series`, `DeleteOld` and `DeleteHalf` (the
prune, whose thread holds the lock), `Close`, crashes and starts. All metrics share one
table of rows `<<metric, age>>`, a collector records those of its metrics that it has, and
`Series` is what a chart reads; of the rows that have left the window only the number
(`expired`) is kept, and rows of other nodes, which nothing records, are left out. The file is
as large as the most rows it ever held, because that is what its pragmas come to (see below).
`Measurements` puts the three side by side, one followed at a time: they share no
state.

### PrivilegedHelper

The optional helper that names the owner of every socket. `enable.sh` and
`enable.sh --remove` are a step per file they write or delete, and may be cut short
after any of them; `Reload` and `Restart` are what systemd makes of the drop-in.
`Status`, `Stat`, `Check` and `Run` are the accesses of `PrivilegedRunner`, in
the thread of a collection (`Collect`, `Decide`), which a timeout may give up on.
Time is counted in collections. `untrusted` is a history variable: how long ago
the helper was root's alone. `Configure` sets `privileged` to off or back, which
the service reads when it starts; `EffectiveStatus` is what `dgxctl privileged` and
the section say of all this.

## The runs

Every bound is a constant of the `.cfg`. All runs check for the absence of errors
in full state spaces. `CHECK_DEADLOCK` is off where the system may stop: a server
that was shut down, clocks and counters at their bound.

| Run | Asks | Bounds, and why they are enough |
|---|---|---|
| `SnapshotStream_streams` | Is an update ever lost, a subscriber leaked, an older view shown? Is the feed implemented? Is every write shown, does every stream end after a signal? | Two streams, so that one is served while the other is not; a peer, so that `put_many` and `put_node` write elsewhere than `put`; two writes, so that one drops the other from a full queue. The proofs cover more |
| `Admission_public` | Who is admitted, and which tickets open a stream, on a public bind? | Two tickets; one address whose owner changes between two identities; lifetimes of two ticks and four ticks of time, so that an answer expires and is asked for again |
| `CollectorPoller_fair` | What do envelopes hold, does every run end, does `stop()`, does pruning go on? | A collector with a probe and one that depends on it, one thread, so that one hung job exhausts the pool for the other and for the prune; two numbered runs |
| `ProcessRegistry_interleaved` | Does a stop ever hit a stranger, is every effect logged, is the registry exact without overlap? | Two requests, two births, two pids: a pid is reused by a stranger: one that has nothing to do with the entry, one with the entry's path in its arguments, one of another user |
| `ProcessRegistry_duplicate` | *violated:* is an instance adopted rather than duplicated? | Two requests, two births |
| `NodeView_fair` | Which node does the page show, does it recover, does a peer's data arrive? | One peer, two versions of its data, one restart, three effects (select, switch, switch back), one poll in flight |
| `NodeView_unreachable` | *violated:* is an unreachable peer reported? | The same peer |
| `ContainerActions_budget` | By what does a launch pass the ceiling, next to which container of its entry does it start? | Two requests, one entry on two ports, two containers from outside, one of which reserves without being recognised; two launches of the entry fit and a third does not |
| `ServiceInventory_ways` | Is an exposure hidden, is a viewer told the way? | The dashboard and a declared port, two binds each, of five addresses: every class; an advertised name; viewers on the machine, behind a tunnel, on either network, at each address a page may have come from |
| `PrivilegedHelper_trust` | Does root run what was not root's own, does the section come to say what there is? | An answer lasts two collections: it is learnt, used while it ages, and asked for again; with one, none is used twice |
| `Onboarding_rerun` | Is anything of the user's lost, does what onboarding leaves start, is the command found by name, does what is said to run run, is an uninstalled program gone? | Two editions of the configuration, three of Sync's entries: one read, one saved meanwhile, one more. Four accounts: bash with Ubuntu's files (four commands: install, interrupted uninstall, onboard, uninstall), bash with none and NVIDIA Sync, zsh with odd names asked for, bash with only zsh's login file (two commands each, four being out of reach for all). Two releases, so that one is an upgrade; two mishaps, so that one is not noticed until after another |
| `Measurements_kept` | Is what a section shows as ok recent, does it come at all, do the charts lose more than the oldest, does the file stop growing? | A tick of the disk is forty seconds: `du` 110 s, collection 120 s, interval 60 s, lifetime 900 s. Two roots, of which one may exceed a `du`, and Docker's, which is not readable; three threads, since no more overlap. Two models, two versions each, three walkers. Two metrics of one collector, which may lack one, and one of another; a window of three ages, a prune every tick, at most one late, a ceiling of nine rows, two starts: the file passes its ceiling within a window, a half is of several metrics, and a crash delays the prune that would shrink it |

Safety properties that need a premise have it as a history variable, which says
exactly what the code does not protect: `overlapped` (two process requests were in
flight), `leaked` (an `EventSource` was opened for a selection that had ended).
The runs reach the states in which these are true, and the properties say
nothing of them; the section on differences does. In `Installation`, `obeyed` is
whether what a script called did as it was told, `named`, `installed` and `removed`
what was last said of the account, and `again` the shell files an uninstall found torn.
`looked` and `counted` of `ContainerActions` are what has run since a launch looked for its
entry and since it added up: with them its properties need no premise, and say what the race
between look and start may do, which the code does not prevent.

Properties and their definitions carry their own comments. The deepest of them:

- `IdleClientIsCurrent` (a consequence of `StreamInv`, which the run checks): a stream that waits with an empty queue has shown its
  browser the store as it is. It would break with a subscription after the first
  snapshot, with a snapshot taken before the queue is read, or with a queue that
  drops the newest item.
- `StopHitsOwnInstance`: whatever happened to the registry file (torn saves,
  lost updates, a restart) and to the pid, a stop signals only an instance that
  this service started for that entry.
- `SerialRegistryIsExact`: over any sequence of requests that do not overlap, at most one
  instance of an entry runs and the registry holds it from its announcement on.
- `AdmittedOwnerIsRecent`: an address on the allowlist belonged to its identity
  within the lifetime of a whois answer.
- `LocalViewRecovers`, `PeerDataReachesBrowser`: the page follows the service and
  the peer again after restarts, errors and switches.
- `OnboardedRuns`: after an onboarding said that the service is started, what runs is
  the installed release with the host that was asked for, over upgrades, boots and
  crashes; without the restart after `enable --now` the older one goes on running.
- `ShellTextKept`: wherever an uninstall stops, the user's part of a shell file is in
  the file or in its copy.
- `SlowMeasurementsArrive`: a root or a model that takes longer than any collection
  may is shown all the same, because the thread that was given up fills the cache.
- `TellsTheWay`: a link leads to the service from where the viewer sits, nobody is refused
  what they can reach, and where there is neither a link nor a forward the page says why; for
  what it supposes see *Reachability* below.
- `PruningGoesOn`: the prune, last in a queue behind jobs that were given up on, and which may
  raise, comes round again until the stop.

## Fairness

| Where | Assumed | Because |
|---|---|---|
| `SnapshotStream!RunningLoop` | a generator that can go on does, a cancelled one is finalised, uvicorn's main loop runs | tasks of one event loop; none of them blocks |
| `ReadingClients`, `Patience` | a browser reads; the graceful-shutdown timeout fires | premises of single properties, not of the specification |
| `CollectorPoller!Fairness` | a loop that can go on does, a timeout included; a thread takes and ends what it can end | tasks of the event loop, the prune loop one of them, and workers of the executor; a hung source is a thread that cannot end; SQLite, with its busy timeout, returns or raises |
| `PrivilegedHelper!FairSpec` | the collector's loop goes on, and each command it waits for ends | the loop's timer; `run_cmd` has a timeout. Nothing of root, systemd or whoever loosens a mode |
| `Measurements!MeasurementsFairness` | the loops run what is due, every `du` and every walk ends, the disk's clock ticks | tasks of the event loop; `du` has a timeout, a directory is finite. Not that a scan is in time, nor that downloads stop |
| `NodeView!ViewFairness` | the aggregator's loop and the browser's run; a peer that is up answers | timers of both loops; `httpx` and `fetch` return or raise |

`SlowRootsAreShown` needs what the configuration has: at most one root that may
exceed `du`'s own limit before the others, and a lifetime of several collections. With
a lifetime of one, a collection that is always late finds every entry expired.

Nothing is assumed of users, writes, signals, sources or of peers coming up, and
only weak fairness is used.

## The proofs

`SnapshotStreamProofs` proves, from `StoreAssumption` alone (the local node is
not one of its peers, the bound is a number) and for any streams, peers, sections
and number of writes:

- `TypeCorrect`: the type invariant;
- `StreamInvariant`: the inductive invariant `StreamInv`;
- `NoLostUpdate` and `SubscribersExact`: `IdleClientIsCurrent` and
  `NoSubscriberLeak` (a conjunct of it), which follow from it;
- `ViewMonotonic`: no step shows a browser anything older than before;
- `StreamsImplementFeed`: the specification implements `LatestValueFeed`.

`IdleClientIsCurrent` is not inductive: nothing in it says what a stream that
is *about* to wait has shown. `StreamInv` adds that. A stream that is yielding
holds the newest snapshot in `payload`, or a reminder in its queue that it does
not; one that has yielded shows it, or has the reminder (`Reminded`); the queue
holds no more than the newest version (`QueueHoldsNewest`) and only subscribers
have one; and view, payload and store are in this order of age (`InOrder`), which
is what makes the view monotonic. Every write leaves a reminder with every
subscriber (`OfferReplaces`, `BumpStep`, `WriteKeeps`); every other step moves
one stream by one phase (`StreamStepKeeps`, `TailEmpties`); `StreamInvInit` and
`StreamInvStep` are induction's two halves. For the refinement a step that is no
write is shown to leave the version alone and to move one reader at most
(`QuietStep`, `ViewStep`).

`AdmissionProofs` proves, from `AdmissionAssumption` and for any tickets,
tokens, peers, identities, allowlist and lifetimes, on either kind of bind, the
type invariant (`AdmissionTypeCorrect`), every property the run checks and one more:

- `AdmissionFailsClosed` and `OwnersAreRecent` (`FailClosed`,
  `AdmittedOwnerIsRecent`), from the inductive invariant `AdmissionInv`;
- `TicketsAreSingleUse` and `TicketsExpire` (`TicketOpensOnce`, `NoLateTicket`),
  from the same invariant and the lemma `OpensWhatIsStored`;
- `TicketsAreSwept`: `OnlyUsableKept`, that issuing a ticket sweeps every expired
  one, which no run repeats.

`FailClosed` is not inductive: a stream is opened by a ticket and not by a token,
so the invariant needs that a ticket stored by a service without a token is one
of a loopback bind (`GrantedOnLoopback`), and that nothing was granted before the
authenticator read the file (`Booted`). `TicketDates` ties what a stored ticket's
expiry is to when it was issued, and says that one that was presented is gone.
For the allowlist, `AnswersDated` says that a remembered answer named the owner
when it was asked for, and `OwnersDated` that nobody's ownership is dated later
than now; time and a change of hands only move the dates forward (`SeenDated`,
`LaterKeeps`), and a request admits on an answer that is recent (`WhoisRecent`,
`AdmitRecent`, then `IssueKeeps` and `OpenKeeps`).

`OnboardingProofs` proves, from `OnboardingAssumption` and for any number of
editions, in three layers:

- `OnboardingReads`: the type invariant, with `ReadIsOld`, that what a command
  read is no newer than what there was to read: without it a write could bring
  back an edition nobody made;
- `SettingsAreKept` (`SettingsKept`), from `CopiedFirst`: at every step that
  replaces a file its newest edition is in a backup, or there was none;
- `OnboardingStarts` (`OnboardedStarts`), from `OnItsWay`: what each step of an
  onboarding that began well has already secured of the token and the
  configuration. One begins well with a plain name, and from files that the service could
  use and that are not `tricky`; without that premise TLC finds the property violated.

`PrivilegedHelperProofs` proves, from `HelperAssumption` and for any lifetime of
an answer, the type invariant (`HelperTypeCorrect`) and `TrustStaysRecent`
(`TrustIsRecent`). `HelperInv` adds to it that an answer which allows the helper is
at least as old as the last sight of a trusted one (`AnswersDated`), that between
its stat and `sudo` the helper was trusted in this very interval, and that a thread
about to run it rests on an answer still alive (`ThreadsDated`). `CollectKeeps` is
the step in which both grow older, `StatusKeeps` the one in which a remembered
answer is used.

`ScriptsOnlyOnboard` shows that `Installation` implements `Onboarding`: every step
of a script, of systemd or of the end of `onboard` is one of `Onboarding`'s or leaves
its files alone, so the three theorems hold of the whole installation.
`InstallationTypeCorrect` is the type invariant, which needs that the program to link
is that of an onboarding and not a word of `uninstall.sh` (`LinksProgram`). On it rest
the four properties of the run, for any number of releases and mishaps:

- `ShellTextIsKept` (`ShellTextKept`), with `CopiedBefore`: a shell file is emptied only
  when it is in a copy, of this uninstall or of an earlier one that was cut;
- `CommandIsFound` (`RunnableByName`), from `ProgramStays`: nothing is linked or started of
  a program that is not there (`ProgramThere`), and an onboarding that said "in a new
  shell" wrote the line into every file it looks at (`NameFound`), one of which a shell of
  an ordinary account reads (`TargetsRead`);
- `NothingIsLeft` (`RemovedIsGone`), from `Undone`, what each step of an uninstall finds
  undone whatever was cut short before. It uses all of the above: the link is gone
  before the program is, and a file without the line has been filtered or had none;
- `StartedStaysUp` (`OnboardedRuns`), from `KeptEnabled` and `HostByDefault` (no step
  writes a configuration without a host other than the default one), since a boot
  reads the configuration again.

`CollectorProofs` proves the types (`PollerTypeCorrect`) and, for any
collectors, threads and runs, `ErrorsKeepLastGood` (from `KeepsLastOk`: what a collector keeps
is what it last published as ok). Of
`Measurements` it proves every safety property of the run, for any roots, models, threads,
windows and ceilings that the assumptions allow, from three invariants, one per part,
which a step of one part keeps because the others do not touch its variables:

- `OkSectionsAreRecent` (`ShownIsRecent`) from `DiskInv` and `ModelsInv`. A section's age is
  bounded only if that of the thread behind it is: `ThreadIsRecent` bounds what the one
  thread the poller waits for has taken from the cache, `StampIsAge` says that a stamp that has not
  expired is the age of its size although a thread that was given up may have written it, and
  `WaitIsBounded` ends the wait. A model's size is as new as its scan because whatever a
  scan has found, and whatever it waits for, was found as it was then or later
  (`FoundSinceItBegan`, `AwaitsItsHead`), the cache being no older than the mtime it is
  kept under (`SeenAfterMtime`).
- `NewestStayInCharts` (`ChartsLoseTheOldest`) and `FileStaysBounded` (`FileIsBounded`) from
  `HistoryInv`: rows and samples agree in all that is newer than some row, and in everything
  until the file passes its ceiling (`RowsAreSamples`); a row of this tick is of a collector that
  was recorded in it (`FreshAreRecorded`); and the table is counted by what may have been recorded
  since the last prune (`TableIsBounded`). A half is never all of the rows there are, and of
  those it takes none that is newer than one it leaves. `Until` is the longest from a start to the end of its first
  prune, and a crash adds one such wait.

`ProcessRegistryProofs` proves the types (`RegistryTypeCorrect`) and, for any number of
requests, entries and pids, all safety of the run. `StopsHitOwn` rests on `OwnInv`: no two processes
have one pid (`PidsDiffer`); whatever is recorded in the file, in the temporary file or in
the hands of a request was started by this service for that entry (`RecordsOwn`), since a
record comes from a file or from a launch (`RecordsMove`); and what a stop is about is
its own and has its pid to itself (`TargetsOwn`). The last rests on an assumption of the
model, in `Born`: pids are handed out in turn, so that one does not come round again
while a request in flight is about it, which every use of `kill` assumes.

- `EffectsAreLogged` (`EffectsLogged`): `Logging` says that a request which has started or
  signalled something comes to no step that could deny it. It is stated of requests that are answered; one that
  the end of the service cuts short is not, and leaves no line.
- `RefusalsNameLive` (`RefusalNamesLiveInstance`), from `NamesInv`: what a launch found had
  been alive since it was asked for, and what has a port lives (`PortsLive`).
- `SerialRegistryExact` (`SerialRegistryIsExact`), from `SerialInv`. While no two requests have overlapped,
  the one in flight leaves to record exactly what it has just launched, saves what it read, less
  what had died, and holds the only change there is to the file; with none in flight the
  file names all that this service runs. Every step of a request has a lemma that
  says where it hands this over (`SpawningSerially`, `RecordingSerially`, and so on), and the host
  only shrinks what must be recorded (`OursShrink`, `HostKeepsSerial`). `Births`, that nothing
  is recorded before it was born, keeps a birth from being taken for a launch.

`ContainerActionsProofs` proves the types (`ContainersTypeCorrect`),
`LaunchesAreAlone` (`LaunchIsAlone`), from `LooksAlone`, what a launch that found nothing
knows of what has run ever since, and `RunsUnderDocker`, without which a daemon that
comes back could bring a container with it; and `LaunchesFit` (`LaunchFits`), from `AllFit`:
what a launch added up and has run ever since is, with its own reservation, within the
ceiling. `BudgetAssumption` says that a machine has finitely
many containers and that a reservation is a number. The sum is `MapThenSumSet`, a fold,
whose recursive function has to be shown to exist (`SumExists`), to be the same
whichever superset it is taken from (`SumsAgree`), not to depend on the order of the
elements (`TotalWith`), to grow with the set (`TotalGrows`) and to be that of its parts (`TotalParts`). Each is an induction
over finite sets in the form of a least counterexample (`SomeIsLeast`), since the
provers cannot use an induction theorem that has an operator for a parameter.

`PageProofs` is about what the page shows.

- Of `NodeView`: the types (`ViewTypeCorrect`), with `Restartable`, that a service which is
  stopping has a start left; `SelectedIsShown` (`ShownIsSelected`), from `OneIsRunning`: no effect beyond the
  last has begun, only for the local node has it an `EventSource`, its polls ask for the
  selected peer, and without a leak no other effect has a stream that is open; and `PeerDataStaysNew`
  (`PeerDataIsMonotone`), an action property, from `AnswersAreNewer`: an answer on its way is no older
  than what is kept and no newer than the peer.
- Of `ServiceInventory`: the types (`InventoryTypeCorrect`) and `NothingExposedIsHidden`
  (`NoHiddenExposure`), which needs no more than they: if anything in the list is a finding, so is
  what is first, and merging the declared services does not change that. It does not rank
  findings: of a listener on the local network and one on the tailnet either may be shown.
  `PageTellsTheWay` (`TellsTheWay`) goes case by case over where a viewer sits (`ViewerOf`) and what
  the plan is then (`PlanOf`), shows that each address leads (`EverywhereLeads`,
  `ForwardLeads`), and needs of the machine that the dashboard's own listener stays what
  the service was started with (`SelfBound`). An earlier `Looks` let a page come from
  an address that the machine does not have, with which the property is false for a
  machine that advertises no name; the viewers are now those there can be.

The type invariants are proved, and the runs check again only those of `NodeView` and
`Measurements`.

Only model-checked: liveness (`EveryWriteIsShown`, `StreamsEndPromptly`,
`ServerStopsAnyway`, `StopCompletes`, `EveryRunEnds`, `PruningGoesOn`, `LocalViewRecovers`,
`PeerDataReachesBrowser`, `SectionCatchesUp`, `SlowMeasurementsArrive`), which is beyond
TLAPS. Every safety property of a passing run is proved.

## Where the code differs from what is said of it

Two differences are counterexamples of runs (`findings` in `PROJECT.json`):

1. Two launches of one entry in flight start it twice (`actions/runner.py:143`),
   though `README.md:105` says an instance is adopted, not duplicated.
2. A peer whose token file cannot be read, or whose answer is no snapshot, ends
   its polling loop (`poller.py:151`, `:164`) and is never reported unreachable,
   though `docs/architecture.md:369-370` says it always is.

The others came up while modelling. The models have this behaviour where they
cover the code; no run claims it as a violation.

*Polling.* A source that is merely down at the first probe is unavailable until the
service restarts (`collectors/base.py:76`), though `docs/architecture.md:61-63` keeps
the word for sources that do not exist. Hung sources keep their threads, and enough of them exhaust the pool
all collectors share (`poller.py:28` says that one cannot hold up another). A
hang in `available()` is not bounded by any timeout, against
`docs/architecture.md:103`. A dependency counts as reported once it has any
envelope, an error without data included, against `collectors/base.py:56-58`.

*Actions.* A denied action leaves no line in the log (`docs/architecture.md:229-231`,
`docs/spec.md:335`). A port whose owner is hidden is reported as an instance of
the entry (`docs/architecture.md:463-465`). So is any process of this user with the
path of the entry among its arguments (`processes.py:153-155`, `:198`): another program
under the same interpreter on the port, or, with nobody on the port, an editor
that has the file open, against the comment at `processes.py:153`. A request that a restart of the service cancels leaves no line
either. A declared service launched twice
loses the record of the first (`docs/spec.md:140-141`). The memory budget is
compared two awaits before a container runs, is not asked for `start` and
`restart`, and does not see `--gpu-memory-utilization=x` written with an equals
sign (`README.md:105-106`, `docs/architecture.md:255-258`).

*Browser.* `connect()` does not look at `closed` after it has waited for its
ticket (`stream.tsx:65-75`): the `EventSource` it then opens is never closed, and
its snapshots of the local node replace those of the selected one.

*Files.* `generate_token` takes an existing file as it is, empty or readable by
others; such a file, which a crash between its three steps leaves too, survives
every later onboarding, which then completes in a state the service refuses to
start in (`docs/spec.md` R14.4). So does a configuration with a mistake in the
user's own part, which is carried across. `TEMPLATE` writes the node name and the allowlist
without escaping them, and `split_existing` takes a managed key in quotes for the user's
and counts brackets inside strings (`onboarding.py:244-332`): a quote in a name, or such
a line in a file that loads, and the file an onboarding leaves may not load, or lack lines
that are then in the backup only. Whether the service answers in the end
is not looked at (R14.9). Comments above the first table are dropped, and the
allowlist with an unreadable configuration (R14.11). `config.toml` is written in
place. An entry that NVIDIA Sync saves between the reading of `custom.json` and its
replacement is in the backup only.

*Helper.* The status of the privileged helper is kept for a minute, while
`docs/architecture.md:532` has its ownership verified before every use. What
`sudo` then waits for may take longer than the collector's 15 seconds (two
commands of ten each), and a collection that times out has no unprivileged answer
either (R17.6); a helper that is removed between `exists` and `stat` fails it
too. `enable.sh --remove`, run by root and not through `sudo`, leaves the drop-in
and says that `NoNewPrivileges` is restored (`enable.sh:61`). `effective_status`
reads the mode from the configuration on disk, not from the running service
(R17.9).

*Reachability.* The addresses that count as Docker's are 172.16 to 172.31 in the
browser, 172.17 to 172.20 in `reachability.py` and 172.17 to 172.23 in
`endpoints.py`; other networks of Docker are listed as local. The browser takes
only `localhost`, `127.0.0.1` and `::1` for loopback, the server all of 127/8. A
tailnet IPv6 address or a short MagicDNS name counts as local. URLs with IPv6
addresses lack brackets. A service bound to a Docker bridge, or to a loopback
address other than 127.0.0.1, is offered at 127.0.0.1, where it does not listen
(R16.6). A service open to all, on a machine with no known address, is offered
nowhere and without a reason (R16.7). Behind `tailscale serve`, which
`README.md:152` recommends, the dashboard's own entry sends tailnet viewers to
their own machine. And a peer's services, seen through an aggregator, are planned
with the address of the aggregator: a viewer at its loopback is offered links to
127.0.0.1 for services of another machine.

A viewer at 127.0.0.1 on the machine is refused a service bound to the tailnet's address,
which the machine reaches (`reachability.py:172-180`, R16.4). A viewer who is refused a
service of one network alone gets a reason and not the command that R16.7 asks for
(`reachability.ts:101-114`).

`TellsTheWay` is stated for services that still listen as listed, for a section that is
still true of the machine (what was collected before a network came or went is offered
until the next collection), and for viewers whose page came from an address the machine
has. It asks nothing of a service of the machine alone that does not listen at 127.0.0.1, and
no link for a viewer behind a tunnel, who reaches the dashboard and nothing else,
for one on the machine whose page came from another of its addresses, whom the code cannot tell from a
viewer on that network, and for the service of the tailnet's address just mentioned.

*History.* `connect` sets `journal_mode=WAL` before `auto_vacuum=INCREMENTAL`
(`history.py:23-26`), and SQLite ignores the second once the file exists. The
`incremental_vacuum` after the halving gives nothing back, against the comment
"drop the oldest half of what remains, then reclaim" (`history.py:82`). The file stays
above `max_bytes`, and every later prune, five minutes apart, halves what is left,
samples of the current window included. `ChartsLoseTheOldest` says that these are
always the oldest of all metrics; since the half is of the rows of all, the chart of one that is
recorded rarely may be emptied while others keep half.
`FileIsBounded` says that the file grows no further than what is recorded
in the wait between two prunes. A service that restarts more often than every five
minutes never prunes.

*Sizes.* A model's size is cached under the mtime of its top directory. A download
below it, which is where they go, is not seen until the service restarts, and a walk of
`blobs/` and `snapshots/` counts what links lead to as well, against
`docs/architecture.md:153-155`.

*Installation.* The unit's `ExecStart` names the default virtualenv, whatever
`DGXCTL_VENV` was given to `install.sh` (`deploy/dgxctl.service:15`). The outcome of the
restart is not looked at, and "installed and started" printed all the same
(`onboarding.py:383`). An edited unit file is replaced without a copy. A symlink of the
user's own at `~/.local/bin/dgxctl` is replaced, and `uninstall.sh:66` takes any
`*/dgxctl/venv/bin/dgxctl` for its own, against `docs/architecture.md:500-501`. A bash
account whose only login file is `.zprofile` gets no PATH in a login shell
(`docs/spec.md` R14.10), and `uninstall.sh:78` does not look into `.zprofile`. An uninstall
that cannot reach the user's systemd goes on: the service keeps running and stays
enabled, and a second uninstall, finding no unit file, may not stop it either. The entry
in NVIDIA Sync stays when the program that would remove it is gone already. An uninstall cut
at `uninstall.sh:83` leaves an empty shell file and the text in its copy; if an onboarding
then adds the line again, the next uninstall copies the empty file over that copy.

## What is not modelled

- **What collectors read** (`gpu`, `images`, `pyenvs`, `processes`, and of `disk` and
  `models` what is read anew each time): drivers, daemons and directories.
  `CollectorPoller` has their outcomes.
- **Probes and credentials of services**: they change a health and a link's query.
- **Power loss and clock steps**: SQLite runs with `synchronous=NORMAL`, which may lose
  the last rows of a file; the models' clocks only go forward.
- **Detection** (`onboarding.py` `detect`, `bind_options`): its outcome is the host an
  onboarding is given. `--dry-run` changes nothing.
- **Doctor and pages, schemas and settings**: reports, presentation and declarations.
- **External code** is modelled from its use and marked `external` in the map:
  uvicorn and starlette ending a response, the executor, Docker, the network,
  other processes, the peer, the user.

## Plan

Done, in the order of importance:

1. `SnapshotStream` with `LatestValueFeed` and their proofs
2. `Admission` and its proofs
3. `CollectorPoller`
4. `ProcessRegistry`
5. `Federation` and `BrowserStream`, composed in `NodeView`
6. `ContainerActions`
7. `Onboarding` and its proofs
8. `Reachability` and `ServiceInventory`
9. `PrivilegedHelper` and its proofs
10. `DiskUsage`, `ModelSizes` and `History`, side by side in `Measurements`
11. `Installation` around `Onboarding`, and the theorem that carries its proofs over
12. `ContainerActionsProofs`, `PageProofs`, `CollectorProofs`, `ProcessRegistryProofs`:
    types and first properties
13. The safety of `Installation`, `ProcessRegistry`, `NodeView`, `ServiceInventory` and
    `Measurements`, and the memory budget with the sums it rests on

Next, more of the system: probes and health of services; the kinds of declared services.

Next, proofs: abstract specifications of the process registry and of the pollers, and
that `ProcessRegistry` and `Federation` implement them; that the poller's collectors do not
depend on each other but for the executor's threads.
