------------------------- MODULE ContainerActionsProofs -------------------------
(***************************************************************************)
(* Proofs about ContainerActions, for any entries, ports, requests in      *)
(* flight and containers started outside dgxctl.                           *)
(***************************************************************************)
EXTENDS ContainerActions, FiniteSetTheorems, TLAPS

(* Nothing runs without Docker: it stops with its containers.               *)
RunsUnderDocker == daemon \/ Running = {}

(* Of what has run since a launch looked, nothing is of its entry.          *)
LooksAlone ==
    \A r \in Requests :
        pc[r] \in {"budget", "create", "start"} =>
            \A c \in looked[r] : Of(c) # Of(target[r])

(* With what has run since a launch added up, it fits: some of what it added *)
(* up, and all of it still running.                                          *)
FitsFor(r) ==
    /\ counted[r] \subseteq Running
    /\ pc[r] \in {"create", "start"} /\ Share[Of(target[r])] > 0 =>
          Reserved(counted[r]) + Share[Of(target[r])] <= Maximum

AllFit == \A r \in Requests : FitsFor(r)

-----------------------------------------------------------------------------
(* What Docker does to a container keeps the types.                         *)
LEMMA BecomesTyped ==
    ASSUME TypeOK, NEW c \in Containers, NEW s \in {"absent", "created", "running", "exited"},
           Becomes(c, s)
    PROVE  /\ state' \in [Containers -> {"absent", "created", "running", "exited"}]
           /\ looked' \in [Requests -> SUBSET Launched]
           /\ counted' \in [Requests -> SUBSET Containers]
BY DEF TypeOK, Becomes, history

(* The types.                                                               *)
THEOREM ContainersTypeCorrect == Spec => []TypeOK
<1>1. Init => TypeOK
  <2> SUFFICES ASSUME Init
               PROVE  TypeOK
    OBVIOUS
  <2>1. PICK c \in Launched : target = [r \in Requests |-> c]
    BY DEF Init
  <2>2. target \in [Requests -> Containers]
    BY <2>1 DEF Containers
  <2> QED
    BY <2>2 DEF Init, TypeOK, Operations
<1>2. TypeOK /\ [Next]_vars => TypeOK'
  <2> SUFFICES ASSUME TypeOK, [Next]_vars
               PROVE  TypeOK'
    OBVIOUS
  <2> USE DEF GoTo, Finish, Connect, HasClient, docker, history
  <2>1. ASSUME NEW r \in Requests, NEW o \in Operations, NEW c \in Containers, Begin(r, o, c)
        PROVE  TypeOK'
    BY <2>1 DEF TypeOK, Begin
  <2>2. ASSUME NEW r \in Requests, Step(r)
        PROVE  TypeOK'
    <3>1. CASE Find(r)
      BY <3>1 DEF TypeOK, Find, Running, Containers
    <3>2. CASE Budget(r)
      BY <3>2 DEF TypeOK, Budget, Running
    <3>3. CASE Create(r)
      <4>1. CASE state[target[r]] = "absent"
        BY <3>3, <4>1, BecomesTyped DEF TypeOK, Create
      <4>2. CASE state[target[r]] # "absent"
        BY <3>3, <4>2 DEF TypeOK, Create
      <4> QED
        BY <4>1, <4>2
    <3>4. CASE Start(r)
      <4>1. CASE state[target[r]] = "absent"
        BY <3>4, <4>1 DEF TypeOK, Start
      <4>2. CASE state[target[r]] # "absent"
        BY <3>4, <4>2, BecomesTyped DEF TypeOK, Start
      <4> QED
        BY <4>1, <4>2
    <3>5. CASE Get(r)
      BY <3>5 DEF TypeOK, Get
    <3>6. CASE Act(r)
      <4>1. CASE UNCHANGED <<state, history>>
        BY <3>6, <4>1 DEF TypeOK, Act
      <4>2. CASE Becomes(target[r], "exited") \/ Becomes(target[r], "running")
        BY <3>6, <4>2, BecomesTyped DEF TypeOK, Act
      <4> QED
        BY <3>6, <4>1, <4>2 DEF Act
    <3>7. CASE Fails(r)
      BY <3>7 DEF TypeOK, Fails
    <3> QED
      BY <2>2, <3>1, <3>2, <3>3, <3>4, <3>5, <3>6, <3>7 DEF Step
  <2>3. ASSUME NEW c \in Containers, ContainerChanges(c)
        PROVE  TypeOK'
    BY <2>3, BecomesTyped DEF TypeOK, ContainerChanges
  <2>4. CASE DaemonChanges
    BY <2>4 DEF TypeOK, DaemonChanges
  <2>5. CASE UNCHANGED vars
    BY <2>5 DEF TypeOK, vars
  <2> QED
    BY <2>1, <2>2, <2>3, <2>4, <2>5 DEF Next
<1> QED
  BY <1>1, <1>2, PTL DEF Spec

-----------------------------------------------------------------------------
(* A container that changes is struck from what has run since the looks, and *)
(* nothing is added: what has run ever since runs.                            *)
LEMMA BecomesNoted ==
    ASSUME TypeOK, NEW c \in Containers,
           NEW s \in {"absent", "created", "running", "exited"}, Becomes(c, s),
           NEW r \in Requests
    PROVE  /\ looked'[r] \subseteq looked[r]
           /\ counted'[r] \subseteq counted[r]
           /\ counted[r] \subseteq Running => counted'[r] \subseteq Running'
<1>1. CASE s = "running"
  BY <1>1 DEF TypeOK, Becomes, Running, Containers, history
<1>2. CASE s # "running"
  BY <1>2 DEF TypeOK, Becomes, Running, Containers
<1> QED
  BY <1>1, <1>2

(* The inductive invariant.                                                  *)
THEOREM LaunchesLook == Spec => [](RunsUnderDocker /\ LooksAlone)
<1>1. Init => RunsUnderDocker /\ LooksAlone
  BY DEF Init, RunsUnderDocker, LooksAlone, Running
<1>2. TypeOK /\ RunsUnderDocker /\ LooksAlone /\ [Next]_vars => (RunsUnderDocker /\ LooksAlone)'
  <2> SUFFICES ASSUME TypeOK, RunsUnderDocker, LooksAlone, [Next]_vars
               PROVE  (RunsUnderDocker /\ LooksAlone)'
    OBVIOUS
  <2> USE DEF GoTo, Finish, Connect, docker, history
  <2>1. ASSUME NEW r \in Requests, NEW o \in Operations, NEW c \in Containers, Begin(r, o, c)
        PROVE  (RunsUnderDocker /\ LooksAlone)'
    BY <2>1 DEF TypeOK, RunsUnderDocker, LooksAlone, Running, Begin
  <2>2. ASSUME NEW r \in Requests, Step(r)
        PROVE  (RunsUnderDocker /\ LooksAlone)'
    <3>1. CASE Find(r)
      <4>1. UNCHANGED <<Running, target>> /\ UNCHANGED daemon
        BY <3>1 DEF Find, Running
      <4>2. Listed = Running
        BY DEF Listed, HasClient, RunsUnderDocker
      <4>3. \A q \in Requests : q # r => pc'[q] = pc[q] /\ looked'[q] = looked[q]
        BY <3>1 DEF Find, TypeOK
      <4>4. pc'[r] \in {"budget", "create", "start"} =>
                \A c \in looked'[r] : Of(c) # Of(target[r])
        BY <3>1, <4>2 DEF Find, TypeOK
      <4> QED
        BY <4>1, <4>3, <4>4 DEF LooksAlone, RunsUnderDocker, Of
    <3>2. CASE Budget(r)
      BY <3>2 DEF TypeOK, RunsUnderDocker, LooksAlone, Running, Budget
    <3>3. CASE Create(r)
      <4>1. CASE state[target[r]] = "absent"
        BY <3>3, <4>1, BecomesNoted DEF TypeOK, RunsUnderDocker, LooksAlone, Create
      <4>2. CASE state[target[r]] # "absent"
        BY <3>3, <4>2 DEF TypeOK, RunsUnderDocker, LooksAlone, Running, Create
      <4> QED
        BY <4>1, <4>2
    <3>4. CASE Start(r)
      <4>1. CASE state[target[r]] = "absent"
        BY <3>4, <4>1 DEF TypeOK, RunsUnderDocker, LooksAlone, Running, Start
      <4>2. CASE state[target[r]] # "absent"
        BY <3>4, <4>2, BecomesNoted DEF TypeOK, RunsUnderDocker, LooksAlone, Start
      <4> QED
        BY <4>1, <4>2
    <3>5. CASE Get(r)
      BY <3>5 DEF TypeOK, RunsUnderDocker, LooksAlone, Running, Get
    <3>6. CASE Act(r)
      <4>1. daemon /\ UNCHANGED <<daemon, op, target>> /\ pc' = [pc EXCEPT ![r] = "idle"]
        BY <3>6 DEF Act
      <4>2. CASE UNCHANGED <<state, history>>
        BY <4>1, <4>2 DEF TypeOK, RunsUnderDocker, LooksAlone, Running
      <4>3. CASE Becomes(target[r], "exited") \/ Becomes(target[r], "running")
        BY <4>1, <4>3, BecomesNoted DEF TypeOK, RunsUnderDocker, LooksAlone
      <4> QED
        BY <3>6, <4>2, <4>3 DEF Act
    <3>7. CASE Fails(r)
      BY <3>7 DEF TypeOK, RunsUnderDocker, LooksAlone, Running, Fails
    <3> QED
      BY <2>2, <3>1, <3>2, <3>3, <3>4, <3>5, <3>6, <3>7 DEF Step
  <2>3. ASSUME NEW c \in Containers, ContainerChanges(c)
        PROVE  (RunsUnderDocker /\ LooksAlone)'
    <3>1. \E s \in {"absent", "created", "running", "exited"} : Becomes(c, s)
      BY <2>3 DEF ContainerChanges
    <3> QED
      BY <2>3, <3>1, BecomesNoted DEF RunsUnderDocker, LooksAlone, ContainerChanges
  <2>4. CASE DaemonChanges
    <3>1. Running' = {}
      BY <2>4 DEF DaemonChanges, Running, TypeOK
    <3> QED
      BY <2>4, <3>1 DEF RunsUnderDocker, LooksAlone, DaemonChanges
  <2>5. CASE UNCHANGED vars
    BY <2>5 DEF RunsUnderDocker, LooksAlone, Running, vars
  <2> QED
    BY <2>1, <2>2, <2>3, <2>4, <2>5 DEF Next
<1> QED
  BY <1>1, <1>2, ContainersTypeCorrect, PTL DEF Spec

(* A launch that starts its container next to another of its entry raced     *)
(* with it, for any number of launches at a time, whether Docker was there    *)
(* when it looked or not.                                                     *)
THEOREM LaunchesAreAlone == Spec => LaunchIsAlone
<1>1. TypeOK /\ LooksAlone /\ [Next]_vars =>
          [\A r \in Requests :
              Starts(r) =>
                  \A c \in Running' \cap Launched :
                      Of(c) = Of(target[r]) => c = target[r] \/ c \notin looked[r]]_vars
  BY DEF LooksAlone, Starts
<1> QED
  BY <1>1, ContainersTypeCorrect, LaunchesLook, PTL DEF Spec, LaunchIsAlone

-----------------------------------------------------------------------------
(***************************************************************************)
(* Sums over sets of containers.  Reserved is a fold, and a fold a          *)
(* recursive function of the subsets of a set; what follows about it is     *)
(* induction over finite sets, in the form of a least counterexample.       *)
(***************************************************************************)
(* What a container is counted with, the function that adds up the subsets   *)
(* of a set, one chosen element at a time, and the sum it gives.             *)
Weight(c) == Share[Of(c)]
AnyOf(s)  == CHOOSE c \in s : TRUE
AddsUp(g, S) ==
    g = [s \in SUBSET S |-> IF s = {} THEN 0 ELSE Weight(AnyOf(s)) + g[s \ {AnyOf(s)}]]
Adder(S) == CHOOSE g : AddsUp(g, S)
Total(S) == Adder(S)[S]

(* The fold is this sum.                                                    *)
LEMMA ReservedIsTotal == \A cs : Reserved(cs) = Total(cs \ Unread)
BY DEF Reserved, MapThenSumSet, MapThenFoldSet, Total, Adder, AddsUp, Weight, AnyOf

(* Of the subsets of a finite set some is least: induction over finite sets. *)
LEMMA SomeIsLeast ==
    ASSUME NEW S, IsFiniteSet(S), NEW sets \in SUBSET SUBSET S, sets # {}
    PROVE  \E T \in sets : \A U \in sets : U \subseteq T => U = T
<1>1. IsWellFoundedOn(StrictSubsetOrdering(S), SUBSET S)
  BY FS_StrictSubsetOrderingWellFounded, FS_FiniteSubsetsOfFinite
<1>2. PICK T \in sets : \A U \in sets : <<U, T>> \notin StrictSubsetOrdering(S)
  BY <1>1, WFMin
<1>3. \A U \in sets : U \subseteq T => U = T
  BY <1>2 DEF StrictSubsetOrdering
<1> QED
  BY <1>3

(* The fold's choice is of the set.                                          *)
LEMMA AnyIsIn == \A s : s # {} => AnyOf(s) \in s
BY DEF AnyOf

(* One step of the recursion.                                               *)
LEMMA AddsUpStep ==
    ASSUME NEW S, NEW g, AddsUp(g, S), NEW s \in SUBSET S
    PROVE  g[s] = IF s = {} THEN 0 ELSE Weight(AnyOf(s)) + g[s \ {AnyOf(s)}]
<1> DEFINE G == [t \in SUBSET S |-> IF t = {} THEN 0 ELSE Weight(AnyOf(t)) + g[t \ {AnyOf(t)}]]
<1>1. g = G
  BY Zenon DEF AddsUp
<1>2. G[s] = IF s = {} THEN 0 ELSE Weight(AnyOf(s)) + g[s \ {AnyOf(s)}]
  OBVIOUS
<1> HIDE DEF G
<1> QED
  BY <1>1, <1>2

(* Two that add up agree on the sets both know.                              *)
LEMMA SumsAgree ==
    ASSUME NEW S, NEW T, IsFiniteSet(S), NEW g, NEW h, AddsUp(g, S), AddsUp(h, T),
           NEW V \in SUBSET S, V \in SUBSET T
    PROVE  g[V] = h[V]
<1> DEFINE differ == {U \in SUBSET S : U \in SUBSET T /\ g[U] # h[U]}
<1> SUFFICES ASSUME differ # {} PROVE FALSE
  OBVIOUS
<1>1. PICK U \in differ : \A W \in differ : W \subseteq U => W = U
  <2>1. differ \in SUBSET SUBSET S
    OBVIOUS
  <2> HIDE DEF differ
  <2> QED
    BY <2>1, SomeIsLeast
<1>2. U \in SUBSET S /\ U \in SUBSET T /\ g[U] # h[U]
  OBVIOUS
<1>3. /\ g[U] = IF U = {} THEN 0 ELSE Weight(AnyOf(U)) + g[U \ {AnyOf(U)}]
      /\ h[U] = IF U = {} THEN 0 ELSE Weight(AnyOf(U)) + h[U \ {AnyOf(U)}]
  BY <1>2, AddsUpStep
<1>4. U # {}
  BY <1>2, <1>3
<1>5. U \ {AnyOf(U)} \notin differ
  BY <1>1, <1>4, AnyIsIn
<1>6. g[U \ {AnyOf(U)}] = h[U \ {AnyOf(U)}]
  BY <1>2, <1>5
<1> QED
  BY <1>2, <1>3, <1>4, <1>6

(* For every finite set there is one.                                        *)
LEMMA SumExists ==
    ASSUME NEW S, IsFiniteSet(S)
    PROVE  AddsUp(Adder(S), S)
<1> DEFINE without == {T \in SUBSET S : ~AddsUp(Adder(T), T)}
<1> SUFFICES ASSUME without # {} PROVE FALSE
  OBVIOUS
<1>1. PICK T \in without : \A U \in without : U \subseteq T => U = T
  <2>1. without \in SUBSET SUBSET S
    OBVIOUS
  <2> HIDE DEF without
  <2> QED
    BY <2>1, SomeIsLeast
<1>2. T \in SUBSET S /\ IsFiniteSet(T) /\ ~AddsUp(Adder(T), T)
  BY FS_Subset
<1>3. ASSUME NEW U \in SUBSET T, U # T
      PROVE  AddsUp(Adder(U), U)
  <2>1. U \in SUBSET S /\ U \notin without
    BY <1>1, <1>2, <1>3
  <2> QED
    BY <2>1
<1> DEFINE g == [s \in SUBSET T |->
                    IF s = {} THEN 0 ELSE Weight(AnyOf(s)) + Total(s \ {AnyOf(s)})]
<1>4. ASSUME NEW s \in SUBSET T, s # T
      PROVE  g[s] = Total(s)
  <2>1. AddsUp(Adder(s), s) /\ IsFiniteSet(s)
    BY <1>2, <1>3, <1>4, FS_Subset
  <2>2. Total(s) = IF s = {} THEN 0 ELSE Weight(AnyOf(s)) + Adder(s)[s \ {AnyOf(s)}]
    BY <2>1, AddsUpStep DEF Total
  <2>3. ASSUME s # {}
        PROVE  Adder(s)[s \ {AnyOf(s)}] = Total(s \ {AnyOf(s)})
    <3>1. s \ {AnyOf(s)} \in SUBSET T /\ s \ {AnyOf(s)} # T
      BY <2>3, AnyIsIn
    <3>2. AddsUp(Adder(s \ {AnyOf(s)}), s \ {AnyOf(s)})
      BY <1>3, <3>1
    <3> QED
      BY <2>1, <3>2, SumsAgree DEF Total
  <2> QED
    BY <2>2, <2>3
<1>5. ASSUME NEW s \in SUBSET T, s # {}
      PROVE  g[s \ {AnyOf(s)}] = Total(s \ {AnyOf(s)})
  <2>1. s \ {AnyOf(s)} \in SUBSET T /\ s \ {AnyOf(s)} # T
    BY <1>5, AnyIsIn
  <2> HIDE DEF g
  <2> QED
    BY <2>1, <1>4
<1>6. g = [s \in SUBSET T |-> IF s = {} THEN 0 ELSE Weight(AnyOf(s)) + g[s \ {AnyOf(s)}]]
  <2> DEFINE h == [s \in SUBSET T |-> IF s = {} THEN 0 ELSE Weight(AnyOf(s)) + g[s \ {AnyOf(s)}]]
  <2>1. \A s \in SUBSET T : g[s] = h[s]
    <3> SUFFICES ASSUME NEW s \in SUBSET T PROVE g[s] = h[s]
      OBVIOUS
    <3>1. h[s] = IF s = {} THEN 0 ELSE Weight(AnyOf(s)) + g[s \ {AnyOf(s)}]
      OBVIOUS
    <3>2. g[s] = IF s = {} THEN 0 ELSE Weight(AnyOf(s)) + Total(s \ {AnyOf(s)})
      OBVIOUS
    <3> HIDE DEF g, h
    <3> QED
      BY <1>5, <3>1, <3>2
  <2> QED
    BY <2>1
<1>7. AddsUp(g, T)
  BY <1>6 DEF AddsUp
<1> HIDE DEF g
<1> QED
  BY <1>2, <1>7 DEF Adder

(* So the sum itself adds a chosen element to the sum of the others.         *)
LEMMA TotalStep ==
    ASSUME NEW S, IsFiniteSet(S)
    PROVE  Total(S) = IF S = {} THEN 0 ELSE Weight(AnyOf(S)) + Total(S \ {AnyOf(S)})
<1>1. Total(S) = IF S = {} THEN 0 ELSE Weight(AnyOf(S)) + Adder(S)[S \ {AnyOf(S)}]
  BY SumExists, AddsUpStep DEF Total
<1>2. IsFiniteSet(S \ {AnyOf(S)}) /\ S \ {AnyOf(S)} \in SUBSET S
  BY FS_Subset
<1>3. Adder(S)[S \ {AnyOf(S)}] = Total(S \ {AnyOf(S)})
  BY <1>2, SumExists, SumsAgree DEF Total
<1> QED
  BY <1>1, <1>3

(* A set whose sum is meaningful: finite, each element with its number.      *)
Weighed(S) == IsFiniteSet(S) /\ \A c \in S : Weight(c) \in Nat

(* A sum of reservations is one.                                             *)
LEMMA TotalTyped ==
    ASSUME NEW S, Weighed(S)
    PROVE  Total(S) \in Nat
<1> DEFINE wrong == {T \in SUBSET S : Total(T) \notin Nat}
<1> SUFFICES ASSUME wrong # {} PROVE FALSE
  BY DEF Weighed
<1>1. PICK T \in wrong : \A U \in wrong : U \subseteq T => U = T
  <2>1. wrong \in SUBSET SUBSET S
    OBVIOUS
  <2> HIDE DEF wrong
  <2> QED
    BY <2>1, SomeIsLeast DEF Weighed
<1>2. Total(T) = IF T = {} THEN 0 ELSE Weight(AnyOf(T)) + Total(T \ {AnyOf(T)})
  BY TotalStep, FS_Subset DEF Weighed
<1>3. CASE T # {}
  <2>1. AnyOf(T) \in S /\ T \ {AnyOf(T)} \in SUBSET S /\ T \ {AnyOf(T)} # T
    BY <1>3, AnyIsIn
  <2>2. Total(T \ {AnyOf(T)}) \in Nat
    BY <1>1, <2>1
  <2>3. Weight(AnyOf(T)) \in Nat
    BY <2>1 DEF Weighed
  <2> QED
    BY <1>2, <1>3, <2>2, <2>3
<1>4. Total(T) \notin Nat
  OBVIOUS
<1> QED
  BY <1>2, <1>3, <1>4

(* In whichever order: any element can be the one to be added last.          *)
LEMMA TotalWith ==
    ASSUME NEW S, Weighed(S), NEW a \in S
    PROVE  Total(S) = Weight(a) + Total(S \ {a})
<1> DEFINE wrong == {T \in SUBSET S : \E b \in T : Total(T) # Weight(b) + Total(T \ {b})}
<1> SUFFICES ASSUME wrong # {} PROVE FALSE
  OBVIOUS
<1>1. PICK T \in wrong : \A U \in wrong : U \subseteq T => U = T
  <2>1. wrong \in SUBSET SUBSET S
    OBVIOUS
  <2> HIDE DEF wrong
  <2> QED
    BY <2>1, SomeIsLeast DEF Weighed
<1>2. PICK b \in T : Total(T) # Weight(b) + Total(T \ {b})
  OBVIOUS
<1>3. PICK c \in T : Total(T) = Weight(c) + Total(T \ {c})
  BY <1>2, AnyIsIn, TotalStep, FS_Subset DEF Weighed
<1>4. c # b /\ T \in SUBSET S
  BY <1>2, <1>3
<1>5. ASSUME NEW U \in SUBSET T, U # T, NEW d \in U
      PROVE  Total(U) = Weight(d) + Total(U \ {d})
  <2>1. U \in SUBSET S /\ U \notin wrong
    BY <1>1, <1>4, <1>5
  <2> QED
    BY <2>1
<1>6. /\ Total(T \ {c}) = Weight(b) + Total((T \ {c}) \ {b})
      /\ Total(T \ {b}) = Weight(c) + Total((T \ {b}) \ {c})
  <2>1. T \ {c} \in SUBSET T /\ T \ {c} # T /\ b \in T \ {c}
    BY <1>4
  <2>2. T \ {b} \in SUBSET T /\ T \ {b} # T /\ c \in T \ {b}
    BY <1>4
  <2> QED
    BY <1>5, <2>1, <2>2
<1>7. (T \ {c}) \ {b} = (T \ {b}) \ {c} /\ Weighed((T \ {b}) \ {c})
  BY <1>4, FS_Subset DEF Weighed
<1>8. Total((T \ {b}) \ {c}) \in Nat /\ Weight(b) \in Nat /\ Weight(c) \in Nat
  BY <1>4, <1>7, TotalTyped DEF Weighed
<1> QED
  BY <1>2, <1>3, <1>6, <1>7, <1>8

(* A subset sums up to no more.                                              *)
LEMMA TotalGrows ==
    ASSUME NEW S, Weighed(S), NEW V \in SUBSET S
    PROVE  Total(V) <= Total(S)
<1> DEFINE wrong == {T \in SUBSET S : V \subseteq T /\ ~(Total(V) <= Total(T))}
<1> SUFFICES ASSUME wrong # {} PROVE FALSE
  OBVIOUS
<1>1. PICK T \in wrong : \A U \in wrong : U \subseteq T => U = T
  <2>1. wrong \in SUBSET SUBSET S
    OBVIOUS
  <2> HIDE DEF wrong
  <2> QED
    BY <2>1, SomeIsLeast DEF Weighed
<1>2. T \in SUBSET S /\ V \subseteq T /\ ~(Total(V) <= Total(T))
  OBVIOUS
<1>3. Weighed(T) /\ Weighed(V)
  BY <1>2, FS_Subset DEF Weighed
<1>4. Total(V) \in Nat /\ Total(T) \in Nat
  BY <1>3, TotalTyped
<1>5. PICK c \in T : c \notin V
  BY <1>2, <1>4
<1>6. Total(T) = Weight(c) + Total(T \ {c})
  BY <1>3, TotalWith
<1>7. Weight(c) \in Nat /\ Total(T \ {c}) \in Nat
  BY <1>3, FS_Subset, TotalTyped DEF Weighed
<1>8. T \ {c} \notin wrong
  BY <1>1, <1>5
<1>9. Total(V) <= Total(T \ {c})
  BY <1>2, <1>5, <1>8
<1> QED
  BY <1>2, <1>4, <1>6, <1>7, <1>9

(* A set sums up to what its two parts do.                                   *)
LEMMA TotalParts ==
    ASSUME NEW S, Weighed(S), NEW V \in SUBSET S
    PROVE  Total(S) = Total(V) + Total(S \ V)
<1> DEFINE wrong == {T \in SUBSET S : V \subseteq T /\ Total(T) # Total(V) + Total(T \ V)}
<1> SUFFICES ASSUME wrong # {} PROVE FALSE
  OBVIOUS
<1>1. PICK T \in wrong : \A U \in wrong : U \subseteq T => U = T
  <2>1. wrong \in SUBSET SUBSET S
    OBVIOUS
  <2> HIDE DEF wrong
  <2> QED
    BY <2>1, SomeIsLeast DEF Weighed
<1>2. T \in SUBSET S /\ V \subseteq T /\ Total(T) # Total(V) + Total(T \ V)
  OBVIOUS
<1>3. Weighed(T) /\ Weighed(V) /\ Weighed(T \ V)
  BY <1>2, FS_Subset DEF Weighed
<1>4. T # V
  <2>1. SUFFICES ASSUME T = V PROVE FALSE
    OBVIOUS
  <2>2. Total(T \ V) = 0
    <3>1. T \ V = {}
      BY <2>1
    <3> QED
      BY <1>3, <3>1, TotalStep DEF Weighed
  <2>3. Total(V) \in Nat
    BY <1>3, TotalTyped
  <2> QED
    BY <1>2, <2>1, <2>2, <2>3
<1>5. PICK c \in T : c \notin V
  BY <1>2, <1>4
<1>6. Total(T) = Weight(c) + Total(T \ {c})
  BY <1>3, TotalWith
<1>7. Total(T \ V) = Weight(c) + Total((T \ V) \ {c})
  BY <1>3, <1>5, TotalWith
<1>8. (T \ V) \ {c} = (T \ {c}) \ V
  OBVIOUS
<1>9. T \ {c} \notin wrong
  BY <1>1, <1>5
<1>10. Total(T \ {c}) = Total(V) + Total((T \ {c}) \ V)
  BY <1>2, <1>5, <1>9
<1>11. /\ Weight(c) \in Nat /\ Total(V) \in Nat
       /\ Weighed((T \ V) \ {c}) /\ Total((T \ V) \ {c}) \in Nat
  BY <1>2, <1>3, FS_Subset, TotalTyped DEF Weighed
<1> QED
  BY <1>2, <1>6, <1>7, <1>8, <1>10, <1>11

(* The containers of a machine are finitely many, each with its reservation. *)
LEMMA AllAreWeighed ==
    ASSUME NEW cs \in SUBSET Containers
    PROVE  Weighed(cs \ Unread)
<1>1. IsFiniteSet(Containers)
  BY BudgetAssumption, FS_Product, FS_Union DEF Containers, Launched
<1>2. IsFiniteSet(cs \ Unread)
  BY <1>1, FS_Subset
<1>3. \A c \in Containers : Weight(c) \in Nat
  BY BudgetAssumption DEF Weight, Of, Containers, Launched
<1> QED
  BY <1>2, <1>3 DEF Weighed

(* What the budget counts, of fewer containers, is no more.                  *)
LEMMA ReservedShrinks ==
    ASSUME NEW cs \in SUBSET Containers, NEW fewer \in SUBSET cs
    PROVE  Reserved(cs) \in Nat /\ Reserved(fewer) \in Nat /\ Reserved(fewer) <= Reserved(cs)
<1>1. Weighed(cs \ Unread) /\ Weighed(fewer \ Unread)
  BY AllAreWeighed
<1>2. fewer \ Unread \in SUBSET (cs \ Unread)
  OBVIOUS
<1> QED
  BY <1>1, <1>2, TotalTyped, TotalGrows, ReservedIsTotal

(* What is reserved is what two parts of the containers reserve.             *)
LEMMA ReservedParts ==
    ASSUME NEW cs \in SUBSET Containers, NEW part \in SUBSET cs
    PROVE  /\ Reserved(part) \in Nat /\ Reserved(cs \ part) \in Nat
           /\ Reserved(cs) = Reserved(part) + Reserved(cs \ part)
<1>1. Weighed(cs \ Unread) /\ Weighed(part \ Unread) /\ Weighed((cs \ part) \ Unread)
  BY AllAreWeighed
<1>2. /\ part \ Unread \in SUBSET (cs \ Unread)
      /\ (cs \ Unread) \ (part \ Unread) = (cs \ part) \ Unread
  OBVIOUS
<1>3. /\ Reserved(cs) = Total(cs \ Unread) /\ Reserved(part) = Total(part \ Unread)
      /\ Reserved(cs \ part) = Total((cs \ part) \ Unread)
  BY ReservedIsTotal
<1>4. Total(part \ Unread) \in Nat /\ Total((cs \ part) \ Unread) \in Nat
  BY <1>1, TotalTyped
<1>5. Total(cs \ Unread) = Total(part \ Unread) + Total((cs \ Unread) \ (part \ Unread))
  BY <1>1, <1>2, TotalParts
<1> QED
  BY <1>2, <1>3, <1>4, <1>5

(* And with one more, is more by no more than that one's.                    *)
LEMMA ReservedWith ==
    ASSUME NEW cs \in SUBSET Containers, NEW c \in Containers
    PROVE  /\ Share[Of(c)] \in Nat
           /\ Reserved(cs \cup {c}) <= Reserved(cs) + Share[Of(c)]
<1>1. Share[Of(c)] \in Nat
  BY BudgetAssumption DEF Of, Containers, Launched
<1>2. Reserved(cs) \in Nat
  BY ReservedShrinks
<1>3. CASE c \in cs \/ c \in Unread
  <2>1. (cs \cup {c}) \ Unread = cs \ Unread
    BY <1>3
  <2>2. Reserved(cs \cup {c}) = Reserved(cs)
    BY <2>1, ReservedIsTotal
  <2> QED
    BY <1>1, <1>2, <2>2
<1>4. CASE c \notin cs /\ c \notin Unread
  <2>1. c \in (cs \cup {c}) \ Unread /\ ((cs \cup {c}) \ Unread) \ {c} = cs \ Unread
    BY <1>4
  <2>2. Weighed((cs \cup {c}) \ Unread)
    <3>1. cs \cup {c} \in SUBSET Containers
      OBVIOUS
    <3> QED
      BY <3>1, AllAreWeighed
  <2>3. Total((cs \cup {c}) \ Unread) = Weight(c) + Total(cs \ Unread)
    BY <2>1, <2>2, TotalWith
  <2> QED
    BY <1>1, <1>2, <2>3, ReservedIsTotal DEF Weight
<1> QED
  BY <1>3, <1>4

-----------------------------------------------------------------------------
(* What a launch fits with, it fits with when there is less of it.           *)
LEMMA FitsOn ==
    ASSUME TypeOK, NEW r \in Requests, FitsFor(r),
           target'[r] = target[r],
           pc'[r] \in {"create", "start"} => pc[r] \in {"create", "start"},
           counted'[r] \subseteq counted[r], counted'[r] \subseteq Running'
    PROVE  FitsFor(r)'
<1> SUFFICES ASSUME pc'[r] \in {"create", "start"}, Share[Of(target[r])] > 0
             PROVE  Reserved(counted'[r]) + Share[Of(target[r])] <= Maximum
  BY DEF FitsFor, Of, Reserved, MapThenSumSet, MapThenFoldSet
<1>1. Reserved(counted[r]) + Share[Of(target[r])] <= Maximum
  BY DEF FitsFor
<1>2. counted[r] \in SUBSET Containers /\ target[r] \in Containers
  BY DEF TypeOK
<1>3. /\ Reserved(counted[r]) \in Nat /\ Reserved(counted'[r]) \in Nat
      /\ Reserved(counted'[r]) <= Reserved(counted[r])
  BY <1>2, ReservedShrinks
<1>4. Share[Of(target[r])] \in Nat /\ Maximum \in Nat
  BY <1>2, ReservedWith, BudgetAssumption
<1> QED
  BY <1>1, <1>3, <1>4

(* The inductive invariant of the ceiling.                                  *)
THEOREM LaunchesAddUp == Spec => []AllFit
<1>1. Init => AllFit
  BY DEF Init, AllFit, FitsFor
<1>2. TypeOK /\ RunsUnderDocker /\ AllFit /\ [Next]_vars => AllFit'
  <2> SUFFICES ASSUME TypeOK, RunsUnderDocker, AllFit, [Next]_vars, NEW q \in Requests
               PROVE  FitsFor(q)'
    BY DEF AllFit
  <2> USE DEF GoTo, Finish, Connect, docker, history
  <2>0. FitsFor(q) /\ counted[q] \subseteq Running
    BY DEF AllFit, FitsFor
  <2>1. ASSUME NEW r \in Requests, NEW o \in Operations, NEW c \in Containers, Begin(r, o, c)
        PROVE  FitsFor(q)'
    <3>1. CASE q = r
      <4>1. pc'[q] \in {"find", "get"} /\ counted'[q] \subseteq Running'
        BY <2>0, <2>1, <3>1 DEF Begin, TypeOK, Running
      <4> QED
        BY <4>1 DEF FitsFor
    <3>2. CASE q # r
      BY <2>0, <2>1, <3>2, FitsOn DEF Begin, TypeOK, Running
    <3> QED
      BY <3>1, <3>2
  <2>2. ASSUME NEW r \in Requests, Step(r)
        PROVE  FitsFor(q)'
    <3>1. CASE Find(r)
      BY <2>0, <3>1, FitsOn DEF Find, TypeOK, Running
    <3>2. CASE Budget(r)
      <4>1. CASE q = r
        <5>1. Listed = Running /\ Running' = Running /\ target'[q] = target[q]
          BY <3>2 DEF Listed, HasClient, RunsUnderDocker, Budget, Running
        <5>2. counted'[q] = Running
          BY <3>2, <4>1 DEF Budget, TypeOK
        <5>3. pc'[q] \in {"create", "start"} => Fits(q)
          BY <3>2, <4>1 DEF Budget, TypeOK
        <5>4. target[q] \in Containers /\ Share[Of(target[q])] \in Nat
          BY ReservedWith DEF TypeOK
        <5>5. pc'[q] \in {"create", "start"} /\ Share[Of(target[q])] > 0 =>
                  Reserved(Running) + Share[Of(target[q])] <= Maximum
          BY <5>1, <5>3, <5>4 DEF Fits
        <5> QED
          BY <5>1, <5>2, <5>5 DEF FitsFor, Of, Reserved, MapThenSumSet, MapThenFoldSet
      <4>2. CASE q # r
        BY <2>0, <3>2, <4>2, FitsOn DEF Budget, TypeOK, Running
      <4> QED
        BY <4>1, <4>2
    <3>3. CASE Create(r)
      <4>1. CASE state[target[r]] = "absent"
        BY <2>0, <3>3, <4>1, FitsOn, BecomesNoted DEF TypeOK, Create
      <4>2. CASE state[target[r]] # "absent"
        BY <2>0, <3>3, <4>2, FitsOn DEF TypeOK, Running, Create
      <4> QED
        BY <4>1, <4>2
    <3>4. CASE Start(r)
      <4>1. CASE state[target[r]] = "absent"
        BY <2>0, <3>4, <4>1, FitsOn DEF TypeOK, Running, Start
      <4>2. CASE state[target[r]] # "absent"
        BY <2>0, <3>4, <4>2, FitsOn, BecomesNoted DEF TypeOK, Start
      <4> QED
        BY <4>1, <4>2
    <3>5. CASE Get(r)
      BY <2>0, <3>5, FitsOn DEF Get, TypeOK, Running
    <3>6. CASE Act(r)
      <4>1. UNCHANGED target /\ pc' = [pc EXCEPT ![r] = "idle"]
        BY <3>6 DEF Act
      <4>2. CASE UNCHANGED <<state, history>>
        BY <2>0, <4>1, <4>2, FitsOn DEF TypeOK, Running
      <4>3. CASE Becomes(target[r], "exited") \/ Becomes(target[r], "running")
        BY <2>0, <4>1, <4>3, FitsOn, BecomesNoted DEF TypeOK
      <4> QED
        BY <3>6, <4>2, <4>3 DEF Act
    <3>7. CASE Fails(r)
      BY <2>0, <3>7, FitsOn DEF Fails, TypeOK, Running
    <3> QED
      BY <2>2, <3>1, <3>2, <3>3, <3>4, <3>5, <3>6, <3>7 DEF Step
  <2>3. ASSUME NEW c \in Containers, ContainerChanges(c)
        PROVE  FitsFor(q)'
    <3>1. \E s \in {"absent", "created", "running", "exited"} : Becomes(c, s)
      BY <2>3 DEF ContainerChanges
    <3> QED
      BY <2>0, <2>3, <3>1, FitsOn, BecomesNoted DEF ContainerChanges
  <2>4. CASE DaemonChanges
    <3>1. counted'[q] = {}
      BY <2>4 DEF DaemonChanges, TypeOK
    <3> QED
      BY <2>0, <2>4, <3>1, FitsOn DEF DaemonChanges
  <2>5. CASE UNCHANGED vars
    BY <2>0, <2>5, FitsOn DEF vars, Running
  <2> QED
    BY <2>1, <2>2, <2>3, <2>4, <2>5 DEF Next
<1> QED
  BY <1>1, <1>2, ContainersTypeCorrect, LaunchesLook, PTL DEF Spec

(* A launch passes the ceiling only by what raced with it, for any number of *)
(* containers and of launches at a time.                                      *)
THEOREM LaunchesFit == Spec => LaunchFits
<1>1. TypeOK /\ AllFit /\ [Next]_vars =>
          [\A r \in Requests :
              Starts(r) /\ Share[Of(target[r])] > 0 =>
                  Reserved(Running') <= Maximum + Reserved(Running \ counted[r])]_vars
  <2> SUFFICES ASSUME TypeOK, AllFit, NEW r \in Requests, Starts(r), Share[Of(target[r])] > 0
               PROVE  Reserved(Running') <= Maximum + Reserved(Running \ counted[r])
    OBVIOUS
  <2>1. Running \in SUBSET Containers /\ target[r] \in Containers
    BY DEF Running, TypeOK
  <2>2. counted[r] \in SUBSET Running /\ Reserved(counted[r]) + Share[Of(target[r])] <= Maximum
    BY DEF AllFit, FitsFor, Starts
  <2>3. Running' \in SUBSET (Running \cup {target[r]})
    BY DEF Starts, Start, Becomes, Running, TypeOK, GoTo, Finish
  <2>4. Reserved(Running \cup {target[r]}) <= Reserved(Running) + Share[Of(target[r])]
    BY <2>1, ReservedWith
  <2>5. /\ Reserved(Running') \in Nat /\ Reserved(Running \cup {target[r]}) \in Nat
        /\ Reserved(Running') <= Reserved(Running \cup {target[r]})
    <3>1. Running \cup {target[r]} \in SUBSET Containers
      BY <2>1
    <3> HIDE DEF Running
    <3> QED
      BY <2>3, <3>1, ReservedShrinks
  <2>6. /\ Reserved(counted[r]) \in Nat /\ Reserved(Running \ counted[r]) \in Nat
        /\ Reserved(Running) = Reserved(counted[r]) + Reserved(Running \ counted[r])
    BY <2>1, <2>2, ReservedParts
  <2>7. Share[Of(target[r])] \in Nat /\ Maximum \in Nat
    BY <2>1, ReservedWith, BudgetAssumption
  <2> QED
    BY <2>2, <2>4, <2>5, <2>6, <2>7
<1> QED
  BY <1>1, ContainersTypeCorrect, LaunchesAddUp, PTL DEF Spec, LaunchFits

=================================================================================
