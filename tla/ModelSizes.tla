----------------------------- MODULE ModelSizes -----------------------------
(***************************************************************************)
(* The sizes of the downloaded models (collectors/models.py).              *)
(*                                                                         *)
(* A scan is a coroutine that hands the entries of the HuggingFace cache   *)
(* to threads, one after the other; a thread walks its entry unless the    *)
(* size is cached under the entry's mtime.  The poller gives up on a scan  *)
(* after a timeout: its current thread goes on, the entries behind it are  *)
(* left to the next scan.                                                  *)
(*                                                                         *)
(* What an entry holds is a version, growing with every download into it.  *)
(* The mtime of its own directory changes with some of them only: those    *)
(* that add something at its top, not those below blobs/ or snapshots/.    *)
(***************************************************************************)
EXTENDS Integers, Sequences

CONSTANTS Entries,      \* the models--* directories, in sorted order
          MaxContent,   \* versions of an entry are numbered up to this
          Walkers       \* threads that may walk at a time, 1..n

VARIABLES content,      \* entry -> version of what it holds
          mtime,        \* entry -> the version that last touched its own directory
          scanCache,    \* _cache: entry -> the mtime and the version it was walked at
          walker,       \* thread -> the walk it makes
          scan,         \* the collector's loop and its scan
          modelSection  \* the published section: status, and version shown per entry

modelVars == <<content, mtime, scanCache, walker, scan, modelSection>>

Dirs == {Entries[i] : i \in DOMAIN Entries}

ASSUME ModelsAssumption ==
    Entries \in Seq(Dirs) /\ MaxContent \in Nat /\ Walkers \subseteq Nat \ {0}

Versions == 0..MaxContent
NotScanned == -1

NoCache == [mtime |-> NotScanned, seen |-> NotScanned]
NoWalk == [entry |-> "none", mtime |-> 0, from |-> 0]
Walking(w) == walker[w] # NoWalk
NothingShown == [e \in Dirs |-> NotScanned]

(* The scan: the entries left, what it found, the thread it awaits (0: none),*)
(* the mtimes when it began, which no code reads, and whether it is begun.   *)
Scanning == scan.left # << >>
Resting == [left |-> << >>, found |-> NothingShown, awaits |-> 0, since |-> mtime, stage |-> "due"]

(***************************************************************************)
(* _hf_entry, in a thread                                                  *)
(***************************************************************************)
Found(e, v) == [scan EXCEPT !.left = Tail(@), !.found[e] = v, !.awaits = 0]

(* the mtime is read, and either the size is cached under it or a walk starts *)
EntryLookup ==
    /\ Scanning /\ scan.awaits = 0
    /\ LET e == Head(scan.left)
       IN IF scanCache[e].mtime = mtime[e]
          THEN /\ scan' = Found(e, scanCache[e].seen)
               /\ UNCHANGED walker
          ELSE \E w \in Walkers :
                  /\ ~Walking(w) /\ \A u \in Walkers : u < w => Walking(u)
                  /\ walker' = [walker EXCEPT ![w] =
                                    [entry |-> e, mtime |-> mtime[e], from |-> content[e]]]
                  /\ scan' = [scan EXCEPT !.awaits = w]
    /\ UNCHANGED <<content, mtime, scanCache, modelSection>>

\* mutant: the coroutine fills the cache, not the thread
WalkEndsAwaited(w) ==
    /\ Walking(w)
    /\ LET e == walker[w].entry
       IN \E v \in walker[w].from..content[e] :
             IF scan.awaits = w
             THEN /\ scanCache' = [scanCache EXCEPT ![e] = [mtime |-> walker[w].mtime, seen |-> v]]
                  /\ scan' = Found(e, v)
             ELSE UNCHANGED <<scanCache, scan>>
    /\ walker' = [walker EXCEPT ![w] = NoWalk]
    /\ UNCHANGED <<content, mtime, modelSection>>

(* _dir_size has gone through the entry, while downloads went on            *)
WalkEnds(w) ==
    /\ Walking(w)
    /\ LET e == walker[w].entry
       IN \E v \in walker[w].from..content[e] :
             /\ scanCache' = [scanCache EXCEPT ![e] = [mtime |-> walker[w].mtime, seen |-> v]]
             /\ scan' = IF scan.awaits = w THEN Found(e, v) ELSE scan
    /\ walker' = [walker EXCEPT ![w] = NoWalk]
    /\ UNCHANGED <<content, mtime, modelSection>>

(***************************************************************************)
(* The coroutine and the poller                                            *)
(***************************************************************************)
ScanBegins ==
    /\ ~Scanning /\ scan.stage = "due"
    /\ scan' = [left |-> Entries, found |-> NothingShown, awaits |-> 0, since |-> mtime,
                stage |-> "begun"]
    /\ UNCHANGED <<content, mtime, scanCache, walker, modelSection>>

ScanEnds ==
    /\ ~Scanning /\ scan.stage = "begun"
    /\ modelSection' = [status |-> "ok", shown |-> scan.found, since |-> scan.since]
    /\ scan' = Resting
    /\ UNCHANGED <<content, mtime, scanCache, walker>>

(* only a walk takes that long *)
ScanTimesOut ==
    /\ Scanning /\ scan.awaits # 0
    /\ modelSection' = [modelSection EXCEPT !.status = "error"]
    /\ scan' = Resting
    /\ UNCHANGED <<content, mtime, scanCache, walker>>

(* a download into an entry, at the top of it or below *)
Download(e) ==
    /\ content[e] < MaxContent
    /\ content' = [content EXCEPT ![e] = @ + 1]
    /\ mtime' \in {mtime, [mtime EXCEPT ![e] = content'[e]]}
    /\ UNCHANGED <<scanCache, walker, scan, modelSection>>

-----------------------------------------------------------------------------
ModelsInit ==
    /\ content = [e \in Dirs |-> 0]
    /\ mtime = [e \in Dirs |-> 0]
    /\ scanCache = [e \in Dirs |-> NoCache]
    /\ walker = [w \in Walkers |-> NoWalk]
    /\ scan = Resting
    /\ modelSection = [status |-> "none", shown |-> NothingShown, since |-> mtime]

ScanStep == ScanBegins \/ EntryLookup \/ ScanEnds
ModelsNext ==
    \/ ScanStep \/ ScanTimesOut
    \/ \E w \in Walkers : WalkEnds(w)
    \/ \E e \in Dirs : Download(e)

-----------------------------------------------------------------------------
Shown == [Dirs -> Versions \cup {NotScanned}]

ModelsType ==
    /\ content \in [Dirs -> Versions]
    /\ mtime \in [Dirs -> Versions]
    /\ scanCache \in [Dirs -> [mtime : Versions, seen : Versions] \cup {NoCache}]
    /\ walker \in [Walkers -> [entry : Dirs, mtime : Versions, from : Versions] \cup {NoWalk}]
    /\ scan \in [left : Seq(Dirs), found : Shown, awaits : Walkers \cup {0},
                 since : [Dirs -> Versions], stage : {"due", "begun"}]
    /\ modelSection \in [status : {"none", "ok", "error"}, shown : Shown,
                         since : [Dirs -> Versions]]

(* A section that says ok shows every entry at least as new as the last     *)
(* change of its own directory when the scan began: neither a download      *)
(* during the walk nor a thread of an earlier scan that ends last leaves an *)
(* older size in the cache under the entry's mtime (models.py:124-133).     *)
ScanIsCurrent ==
    modelSection.status = "ok" =>
        \A e \in Dirs : modelSection.shown[e] >= modelSection.since[e]

(* A change of an entry's own directory is shown in the end, and the first  *)
(* scan of a cache too large for any one scan as well: every scan that is   *)
(* given up leaves one more entry in the cache (models.py:87-93, 124-133).  *)
TopChangesAreShown ==
    \A e \in Dirs : \A v \in Versions :
        mtime[e] >= v ~> modelSection.status = "ok" /\ modelSection.shown[e] >= v

=============================================================================
