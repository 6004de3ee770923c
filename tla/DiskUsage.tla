------------------------------ MODULE DiskUsage ------------------------------
(***************************************************************************)
(* The sized roots of the disk section (collectors/disk.py).               *)
(*                                                                         *)
(* A collection is one thread that walks the roots in their order and      *)
(* measures each with du, through a cache that expires.  The poller gives  *)
(* up on a collection after a timeout; its thread goes on and fills the    *)
(* cache for those that come after it.  Time passes in ticks: every age    *)
(* and every wait grows by one, and none outgrows its limit.               *)
(***************************************************************************)
EXTENDS Integers, Sequences

CONSTANTS Roots,         \* the configured roots, in order
          DockerRoot,    \* what Docker names as its data root
          Denied,        \* roots that do not exist or that du may not read
          Huge,          \* roots that du may not finish within its limit
          DuTtl,         \* _du_ttl
          DuLimit,       \* the timeout of one du
          DiskTimeout,   \* DiskCollector.timeout
          DiskInterval,  \* DiskCollector.interval
          DiskThreads    \* enough threads for every collection, 1..n

VARIABLES duCache,     \* _du_cache: path -> age of its stamp, and of its measurement
          diskThread,  \* thread -> the collection it makes
          diskWait,    \* the loop: what it waits for and for how long
          diskSection  \* the published section: status, and its sized roots

diskVars == <<duCache, diskThread, diskWait, diskSection>>

Paths == {Roots[i] : i \in DOMAIN Roots} \cup {DockerRoot}

(* 110 s for one du, 120 s for a collection, 900 s for the cache *)
ASSUME DiskAssumption ==
    /\ Roots \in Seq(Paths)
    /\ DuTtl \in Nat /\ DuLimit \in Nat \ {0} /\ DiskTimeout \in Nat
    /\ DuLimit < DiskTimeout /\ DuLimit < DuTtl
    /\ DiskInterval \in Nat \ {0}
    /\ DiskThreads \subseteq Nat \ {0}

(* A shown size is no older than this while the section is ok. *)
MaxAge == (DuTtl - 1) + DiskTimeout + DiskInterval + DiskTimeout
Older(age) == IF age > MaxAge THEN age ELSE age + 1

(* SizedRoot: where its size is from, and how old that measurement is *)
Sized(source, age) == [source |-> source, age |-> age]
NotShown == [p \in Paths |-> Sized("none", 0)]
Aged(roots) == [p \in Paths |-> IF roots[p].source = "du" THEN Sized("du", Older(roots[p].age))
                                ELSE roots[p]]

(* an entry of _du_cache; one as old as the expiry is as good as none *)
Cached(age) == [stamp |-> age, age |-> age]
NotCached == [stamp |-> DuTtl, age |-> 0]

NoThread == [left |-> << >>, du |-> -1, sized |-> NotShown, df |-> FALSE, for |-> "nobody"]
Busy(t) == diskThread[t].for # "nobody"
Current(t) == Head(diskThread[t].left)
Measuring(t) == diskThread[t].du >= 0

(***************************************************************************)
(* The thread of one collection: _collect_sync and _du                     *)
(***************************************************************************)
(* the root at hand is done: the thread turns to the next *)
Done(t, entry) ==
    LET thread == diskThread[t]
    IN diskThread' = [diskThread EXCEPT ![t] =
           [left |-> Tail(thread.left), du |-> -1, sized |-> [thread.sized EXCEPT ![Current(t)] = entry],
            df |-> thread.df, for |-> thread.for]]

\* mutant: a use of the cache renews it
TurnToRootRenews(t) ==
    /\ Busy(t) /\ diskThread[t].left # << >> /\ ~Measuring(t)
    /\ IF duCache[Current(t)].stamp < DuTtl
       THEN /\ Done(t, Sized("du", duCache[Current(t)].age))
            /\ duCache' = [duCache EXCEPT ![Current(t)].stamp = 0]
       ELSE /\ diskThread' = [diskThread EXCEPT ![t].du = 0]
            /\ UNCHANGED duCache
    /\ UNCHANGED <<diskWait, diskSection>>

(* a cached measurement that has not expired, or a du of its own *)
TurnToRoot(t) ==
    /\ Busy(t) /\ diskThread[t].left # << >> /\ ~Measuring(t)
    /\ IF duCache[Current(t)].stamp < DuTtl
       THEN Done(t, Sized("du", duCache[Current(t)].age))
       ELSE diskThread' = [diskThread EXCEPT ![t].du = 0]
    /\ UNCHANGED <<duCache, diskWait, diskSection>>

(* du answers: cached under the time at which it was started, by whichever  *)
(* thread is last, awaited or not                                           *)
DuEnds(t) ==
    /\ Measuring(t)
    /\ Current(t) \notin Denied
    /\ duCache' = [duCache EXCEPT ![Current(t)] = Cached(diskThread[t].du)]
    /\ Done(t, Sized("du", diskThread[t].du))
    /\ UNCHANGED <<diskWait, diskSection>>

(* du is refused or killed at its limit: nothing is cached, and the Docker  *)
(* API stands in for the one root whose size it knows                       *)
DuFails(t) ==
    /\ Measuring(t)
    /\ \/ Current(t) \in Denied
       \/ Current(t) \in Huge /\ diskThread[t].du = DuLimit
    /\ Done(t, IF Current(t) = DockerRoot /\ diskThread[t].df
               THEN Sized("docker-api", 0) ELSE Sized("error", 0))
    /\ UNCHANGED <<duCache, diskWait, diskSection>>

(* the thread returns: to the poller, or to nobody *)
CollectionEnds(t) ==
    /\ Busy(t) /\ diskThread[t].left = << >>
    /\ diskThread' = [diskThread EXCEPT ![t] = NoThread]
    /\ IF diskThread[t].for = "poller"
       THEN /\ diskSection' = [status |-> "ok", roots |-> diskThread[t].sized]
            /\ diskWait' = [for |-> "interval", since |-> 0]
       ELSE UNCHANGED <<diskSection, diskWait>>
    /\ UNCHANGED duCache

(***************************************************************************)
(* The poller's side: Poller._loop and Collector.run for this collector    *)
(***************************************************************************)
(* info() may name the data root, and df() may fail, whatever the other did *)
CollectionBegins(t, info, df) ==
    /\ diskWait = [for |-> "interval", since |-> DiskInterval]
    /\ ~Busy(t) /\ \A u \in DiskThreads : u < t => Busy(u)
    /\ LET dataRoot == IF info /\ \A i \in DOMAIN Roots : Roots[i] # DockerRoot
                     THEN <<DockerRoot>> ELSE << >>
       IN diskThread' = [diskThread EXCEPT ![t] =
              [left |-> Roots \o dataRoot, du |-> -1, sized |-> NotShown,
               df |-> (info /\ df), for |-> "poller"]]
    /\ diskWait' = [for |-> "collection", since |-> 0]
    /\ UNCHANGED <<duCache, diskSection>>

(* _failure: the last good payload under an error label; the thread goes on *)
CollectionTimesOut ==
    /\ diskWait = [for |-> "collection", since |-> DiskTimeout]
    /\ diskSection' = [diskSection EXCEPT !.status = "error"]
    /\ diskWait' = [for |-> "interval", since |-> 0]
    /\ diskThread' = [t \in DiskThreads |-> IF Busy(t) THEN [diskThread[t] EXCEPT !.for = "past"]
                                            ELSE diskThread[t]]
    /\ UNCHANGED duCache

(* nothing that is due is left behind by the clock *)
DiskTick ==
    /\ diskWait.since < (IF diskWait.for = "interval" THEN DiskInterval ELSE DiskTimeout)
    /\ \A t \in DiskThreads : Busy(t) =>
          /\ Measuring(t) /\ diskThread[t].du < DuLimit
          /\ Current(t) \notin Denied
    /\ diskWait' = [diskWait EXCEPT !.since = @ + 1]
    /\ duCache' = [p \in Paths |->
          IF duCache[p].stamp + 1 < DuTtl
          THEN [stamp |-> duCache[p].stamp + 1, age |-> Older(duCache[p].age)] ELSE NotCached]
    /\ diskThread' = [t \in DiskThreads |->
          IF Busy(t) THEN [diskThread[t] EXCEPT !.du = @ + 1, !.sized = Aged(@)] ELSE NoThread]
    /\ diskSection' = [diskSection EXCEPT !.roots = Aged(@)]

-----------------------------------------------------------------------------
DiskInit ==
    /\ duCache = [p \in Paths |-> NotCached]
    /\ diskThread = [t \in DiskThreads |-> NoThread]
    /\ diskWait = [for |-> "interval", since |-> DiskInterval]
    /\ diskSection = [status |-> "none", roots |-> NotShown]

DiskThreadStep(t) == TurnToRoot(t) \/ DuEnds(t) \/ DuFails(t) \/ CollectionEnds(t)

DiskLoop ==
    \/ \E t \in DiskThreads, info, df \in BOOLEAN : CollectionBegins(t, info, df)
    \/ CollectionTimesOut

DiskNext == DiskLoop \/ DiskTick \/ \E t \in DiskThreads : DiskThreadStep(t)

-----------------------------------------------------------------------------
SizedRoots == [Paths -> [source : {"none", "du", "docker-api", "error"}, age : 0..MaxAge + 1]]

DiskType ==
    /\ duCache \in [Paths -> [stamp : 0..DuTtl, age : 0..MaxAge + 1]]
    /\ diskThread \in [DiskThreads -> [left : Seq(Paths), du : -1..DuLimit, sized : SizedRoots,
                                       df : BOOLEAN, for : {"nobody", "poller", "past"}]]
    /\ diskWait \in [for : {"interval", "collection"}, since : 0..DiskTimeout + DiskInterval]
    /\ diskSection \in [status : {"none", "ok", "error"}, roots : SizedRoots]

(* What a section that says ok shows was measured no longer ago than the    *)
(* expiry, the two collections it was read and is replaced in, and the      *)
(* interval between them: whichever thread filled the cache last, and a     *)
(* collection given up in between included (disk.py:56-65).                 *)
SizesAreRecent ==
    diskSection.status = "ok" =>
        \A p \in Paths : diskSection.roots[p].source = "du" => diskSection.roots[p].age <= MaxAge

(* Roots that take longer together than a collection may are shown all the  *)
(* same, again and again: the threads that were given up measure for those  *)
(* that follow (disk.py:56-65, base.py:99).                                 *)
SlowRootsAreShown == []<>(diskSection.status = "ok")

=============================================================================
