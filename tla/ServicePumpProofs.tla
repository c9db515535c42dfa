------------------------- MODULE ServicePumpProofs -------------------------
(***************************************************************************)
(* Theorems about ServicePump, for every set of services and every number  *)
(* of threads, io_contexts, starts, calls and exceptions: its variables    *)
(* keep their types, the threads are never all gone, the services may be   *)
(* freed after the pump has stopped, and the references of the io_contexts *)
(* are exact.                                                              *)
(***************************************************************************)
EXTENDS ServicePump, FiniteSetTheorems, WellFoundedInduction, TLAPS

-----------------------------------------------------------------------------
(* The least load.                                                           *)

(* Among finitely many contexts one has the least load: of the sets of those *)
(* with less than c, for each c, one is minimal, and it is empty.            *)
LEMMA SomeLeast ==
  ASSUME NEW cs, IsFiniteSet(cs), cs # {}, NEW load, \A c \in cs : load[c] \in Int
  PROVE  \E c \in cs : \A d \in cs : load[c] <= load[d]
<1> DEFINE Below(c) == {d \in cs : load[d] < load[c]}
           T == {Below(c) : c \in cs}
<1>1. T \subseteq FiniteSubsetsOf(cs)
  BY FS_FiniteSubsetsOfFinite
<1>2. T # {}
  OBVIOUS
<1>3. PICK b \in T : \A a \in T : <<a, b>> \notin StrictSubsetOrdering(cs)
  <2> HIDE DEF T
  <2> QED BY <1>1, <1>2, FS_StrictSubsetOrderingWellFounded, WFMin
<1>4. PICK c \in cs : b = Below(c)
  OBVIOUS
<1>5. ASSUME NEW d \in cs, ~(load[c] <= load[d]) PROVE FALSE
  <2>1. load[d] < load[c]
    BY <1>5
  <2>2. Below(d) \subseteq Below(c) /\ d \in Below(c) /\ d \notin Below(d)
    BY <2>1
  <2>3. <<Below(d), Below(c)>> \in StrictSubsetOrdering(cs)
    BY <2>2 DEF StrictSubsetOrdering
  <2> QED BY <1>3, <1>4, <2>3
<1> QED BY <1>5

(* LeastOf, which assign_io_context and assign_thread share, finds it.       *)
LEMMA LeastOfIsLeast ==
  ASSUME NEW cs \in SUBSET Nat, IsFiniteSet(cs), cs # {}, NEW load, \A c \in cs : load[c] \in Int
  PROVE  LeastOf(load, cs) \in cs /\ \A d \in cs : load[LeastOf(load, cs)] <= load[d]
<1> DEFINE M == {c \in cs : \A d \in cs : load[c] <= load[d]}
           self == [c \in M |-> c]
<1>1. M # {}
  BY SomeLeast
<1>2. IsFiniteSet(M)
  BY FS_Subset
<1>3. \A c \in M : self[c] \in Int
  OBVIOUS
<1>4. \E x \in M : \A y \in M : self[x] <= self[y]
  <2> HIDE DEF M, self
  <2> QED BY <1>1, <1>2, <1>3, SomeLeast
<1>5. \E x \in M : \A y \in M : x <= y
  BY <1>4
<1>6. Min(M) \in M
  <2> HIDE DEF M
  <2> QED BY <1>5 DEF Min
<1>7. LeastOf(load, cs) = Min(M)
  BY DEF LeastOf
<1> QED BY <1>6, <1>7

(* Threads k + 1 to k + m went one by one where the fewest were.             *)
Spread(on, k, m, N) ==
  \A t \in (k + 1)..(k + m) :
     on[t] = LeastOf([c \in 1..N |-> Cardinality({u \in 1..(t - 1) : on[u] = c})], 1..N)

(* Each of the first n contexts has one of the first k threads.              *)
ServedBy(on, n, k) == \A c \in 1..n : \E t \in 1..k : on[t] = c

(* Threads created one by one, each for the context with the fewest, leave   *)
(* no context without one, if there are enough for the contexts that have    *)
(* none: a context left out would make every new thread open another one.    *)
LEMMA EveryContextHoused ==
  ASSUME NEW k \in Nat, NEW m \in Nat, NEW old \in Nat, NEW N \in Nat, N >= 1, old <= N, N <= old + m,
         NEW on, Spread(on, k, m, N), ServedBy(on, old, k)
  PROVE  ServedBy(on, N, k + m)
<1> USE DEF ServedBy
<1> DEFINE cs == 1..N
           new == (k + 1)..(k + m)
           With(t, c) == {u \in 1..(t - 1) : on[u] = c}
           load(t) == [c \in cs |-> Cardinality(With(t, c))]
<1> SUFFICES ASSUME NEW c0 \in cs, \A t \in 1..(k + m) : on[t] # c0
             PROVE  FALSE
  OBVIOUS
<1>1. \A t \in new, c \in cs : IsFiniteSet(With(t, c)) /\ load(t)[c] = Cardinality(With(t, c)) /\ load(t)[c] \in Nat
  <2> TAKE t \in new, c \in cs
  <2>1. IsFiniteSet(1..(t - 1))
    BY FS_Interval
  <2>2. IsFiniteSet(With(t, c)) /\ Cardinality(With(t, c)) \in Nat
    BY <2>1, FS_Subset, FS_CardinalityType
  <2> QED BY <2>2
<1>2. cs \in SUBSET Nat /\ IsFiniteSet(cs) /\ cs # {}
  <2>1. 1 \in Int /\ N \in Int
    OBVIOUS
  <2>2. IsFiniteSet(cs)
    BY <2>1, FS_Interval
  <2>3. 1 \in cs
    OBVIOUS
  <2>4. cs \in SUBSET Nat
    OBVIOUS
  <2> HIDE DEF cs
  <2> QED BY <2>2, <2>3, <2>4
<1>3. ASSUME NEW t \in new
      PROVE  on[t] \in cs /\ \A u \in 1..(t - 1) : on[u] # on[t]
  <2>1. on[t] = LeastOf(load(t), cs)
    BY DEF Spread
  <2>0. \A c \in cs : load(t)[c] = Cardinality(With(t, c)) /\ load(t)[c] \in Nat
    <3> HIDE DEF cs, load, With, new
    <3> QED BY <1>1
  <2>2. \A c \in cs : load(t)[c] \in Int
    <3>1. ASSUME NEW c \in cs PROVE load(t)[c] \in Int
      <4>1. load(t)[c] \in Nat
        <5> HIDE DEF cs, load, With, new
        <5> QED BY <2>0
      <4> HIDE DEF load
      <4> QED BY <4>1
    <3> QED BY <3>1
  <2>3. on[t] \in cs /\ load(t)[on[t]] <= load(t)[c0]
    <3> HIDE DEF cs, load
    <3> QED BY <1>2, <2>1, <2>2, LeastOfIsLeast
  <2>4. With(t, c0) = {}
    OBVIOUS
  <2>5. load(t)[c0] = 0
    BY <1>1, <2>4, FS_EmptySet
  <2>6. load(t)[on[t]] = 0
    <3> HIDE DEF cs, load, With, new
    <3>1. load(t)[on[t]] \in Nat
      BY <2>0, <2>3
    <3> QED BY <3>1, <2>3, <2>5
  <2>7. IsFiniteSet(With(t, on[t])) /\ Cardinality(With(t, on[t])) = 0
    BY <1>1, <2>3, <2>6
  <2>8. With(t, on[t]) = {}
    <3> HIDE DEF With
    <3> QED BY <2>7, FS_EmptySet
  <2> QED BY <2>3, <2>8
<1> DEFINE free == ((old + 1)..N) \ {c0}
           f == [t \in new |-> on[t]]
<1>4. c0 \in (old + 1)..N
  OBVIOUS
<1>5. f \in [new -> free]
  <2> SUFFICES ASSUME NEW t \in new PROVE on[t] \in free
    OBVIOUS
  <2>1. on[t] \notin 1..old
    BY <1>3
  <2> QED BY <1>3, <2>1
<1>6. IsFiniteSet(new) /\ IsFiniteSet(free) /\ Cardinality(free) < Cardinality(new)
  <2>1. IsFiniteSet(new) /\ Cardinality(new) = m
    BY FS_Interval
  <2>2. IsFiniteSet((old + 1)..N) /\ Cardinality((old + 1)..N) = N - old
    BY FS_Interval
  <2>3. IsFiniteSet(free) /\ Cardinality(free) = N - old - 1
    <3> HIDE DEF cs
    <3> QED BY <1>4, <2>2, FS_RemoveElement
  <2> QED BY <2>1, <2>3
<1>7. PICK x, y \in new : x # y /\ f[x] = f[y]
  <2> HIDE DEF new, free, f
  <2> QED BY <1>5, <1>6, FS_PigeonHole
<1>8. on[x] = on[y]
  BY <1>7
<1> QED BY <1>3, <1>7, <1>8

-----------------------------------------------------------------------------
(* The references that services hold, one by one.                            *)

Pairs(S, u) == UNION {{s} \X (1..u[s]) : s \in S}

LEMMA HeldIsPairs ==
  \A c : Held(c) = Pairs({z \in Services : home[z] = c}, uses)
BY DEF Held, Pairs

LEMMA PairsFinite ==
  ASSUME NEW S, IsFiniteSet(S), NEW u, \A s \in S : u[s] \in Nat
  PROVE  IsFiniteSet(Pairs(S, u)) /\ Cardinality(Pairs(S, u)) \in Nat
<1> DEFINE T == {{s} \X (1..u[s]) : s \in S}
           f == [s \in S |-> {s} \X (1..u[s])]
<1>1. f \in Surjection(S, T)
  BY DEF Surjection
<1>2. IsFiniteSet(T)
  <2> HIDE DEF T, f
  <2> QED BY <1>1, FS_Surjection
<1>3. \A x \in T : IsFiniteSet(x)
  <2> SUFFICES ASSUME NEW s \in S PROVE IsFiniteSet({s} \X (1..u[s]))
    OBVIOUS
  <2>0. 1 \in Int /\ u[s] \in Int
    OBVIOUS
  <2>1. IsFiniteSet({s}) /\ IsFiniteSet(1..u[s])
    BY <2>0, FS_Singleton, FS_Interval
  <2> QED BY <2>1, FS_Product
<1>4. IsFiniteSet(UNION T)
  <2> HIDE DEF T
  <2> QED BY <1>2, <1>3, FS_UNION
<1> QED BY <1>4, FS_CardinalityType DEF Pairs

LEMMA PairsSame ==
  ASSUME NEW S, NEW u, NEW v, \A s \in S : u[s] = v[s]
  PROVE  Pairs(S, u) = Pairs(S, v)
BY DEF Pairs

(* One service more.                                                         *)
LEMMA PairsAdd ==
  ASSUME NEW S, IsFiniteSet(S), NEW x, x \notin S, NEW u, \A s \in S \cup {x} : u[s] \in Nat
  PROVE  Cardinality(Pairs(S \cup {x}, u)) = Cardinality(Pairs(S, u)) + u[x]
<1> DEFINE X == {x} \X (1..u[x])
<1>1. Pairs(S \cup {x}, u) = Pairs(S, u) \cup X /\ Pairs(S, u) \cap X = {}
  BY DEF Pairs
<1>2. IsFiniteSet(Pairs(S, u)) /\ Cardinality(Pairs(S, u)) \in Nat
  BY PairsFinite
<1>3. IsFiniteSet(X) /\ Cardinality(X) = u[x]
  <2>1. IsFiniteSet({x}) /\ Cardinality({x}) = 1
    BY FS_Singleton
  <2>2. IsFiniteSet(1..u[x]) /\ Cardinality(1..u[x]) = u[x]
    BY FS_Interval
  <2>3. IsFiniteSet(X) /\ Cardinality(X) = 1 * u[x]
    BY <2>1, <2>2, FS_Product
  <2> QED BY <2>3
<1>4. Cardinality({}) = 0
  BY FS_EmptySet
<1>5. Cardinality(Pairs(S, u) \cup X) = Cardinality(Pairs(S, u)) + Cardinality(X) - Cardinality(Pairs(S, u) \cap X)
  <2> HIDE DEF X
  <2> QED BY <1>2, <1>3, FS_Union
<1>6. u[x] \in Nat
  OBVIOUS
<1> HIDE DEF X
<1>7. Cardinality(Pairs(S, u) \cap X) = 0
  BY <1>1, <1>4, Zenon
<1>8. Cardinality(Pairs(S \cup {x}, u)) = Cardinality(Pairs(S, u) \cup X)
  BY <1>1, Zenon
<1> QED BY <1>2, <1>3, <1>5, <1>6, <1>7, <1>8

(* One service that holds more or less than before.                          *)
LEMMA PairsChange ==
  ASSUME NEW S, IsFiniteSet(S), NEW x \in S, NEW u, NEW v, \A s \in S : u[s] \in Nat /\ v[s] \in Nat,
         \A s \in S \ {x} : u[s] = v[s]
  PROVE  Cardinality(Pairs(S, v)) = Cardinality(Pairs(S, u)) + v[x] - u[x]
<1> DEFINE R == S \ {x}
<1>1. S = R \cup {x} /\ x \notin R
  OBVIOUS
<1>2. IsFiniteSet(R)
  BY FS_RemoveElement
<1>3. Pairs(R, u) = Pairs(R, v)
  BY PairsSame
<1>4. Cardinality(Pairs(R, u)) \in Nat
  BY <1>2, PairsFinite
<1>5. Cardinality(Pairs(R \cup {x}, u)) = Cardinality(Pairs(R, u)) + u[x]
  <2> HIDE DEF R
  <2> QED BY <1>1, <1>2, PairsAdd
<1>6. Cardinality(Pairs(R \cup {x}, v)) = Cardinality(Pairs(R, v)) + v[x]
  <2> HIDE DEF R
  <2> QED BY <1>1, <1>2, PairsAdd
<1>7. u[x] \in Nat /\ v[x] \in Nat
  OBVIOUS
<1> HIDE DEF R
<1> QED BY <1>1, <1>3, <1>4, <1>5, <1>6, <1>7

(* Several services that hold nothing and take one each.                     *)
LEMMA PairsTake ==
  ASSUME NEW S, IsFiniteSet(S), NEW N, N \subseteq S, NEW u, NEW v, \A s \in S : u[s] \in Nat,
         \A s \in N : u[s] = 0 /\ v[s] = 1, \A s \in S \ N : v[s] = u[s]
  PROVE  Cardinality(Pairs(S, v)) = Cardinality(Pairs(S, u)) + Cardinality(N)
<1> DEFINE X == N \X {1}
<1>1. Pairs(S, v) = Pairs(S, u) \cup X /\ Pairs(S, u) \cap X = {}
  <2>1. \A s \in S : 1..v[s] = (1..u[s]) \cup (IF s \in N THEN {1} ELSE {}) /\ (s \in N => 1..u[s] = {})
    OBVIOUS
  <2> QED BY <2>1 DEF Pairs
<1>2. IsFiniteSet(Pairs(S, u)) /\ Cardinality(Pairs(S, u)) \in Nat
  BY PairsFinite
<1>3. IsFiniteSet(X) /\ Cardinality(X) = Cardinality(N)
  <2>1. IsFiniteSet({1}) /\ Cardinality({1}) = 1
    BY FS_Singleton
  <2>2. IsFiniteSet(N) /\ Cardinality(N) \in Nat
    BY FS_Subset, FS_CardinalityType
  <2>3. IsFiniteSet(X) /\ Cardinality(X) = Cardinality(N) * 1
    BY <2>1, <2>2, FS_Product
  <2> QED BY <2>2, <2>3
<1>4. Cardinality({}) = 0 /\ Cardinality(X) \in Nat
  BY <1>3, FS_EmptySet, FS_CardinalityType
<1>5. Cardinality(Pairs(S, u) \cup X) = Cardinality(Pairs(S, u)) + Cardinality(X) - Cardinality(Pairs(S, u) \cap X)
  <2> HIDE DEF X
  <2> QED BY <1>2, <1>3, FS_Union
<1> HIDE DEF X
<1>6. Cardinality(Pairs(S, u) \cap X) = 0
  BY <1>1, <1>4, Zenon
<1>7. Cardinality(Pairs(S, v)) = Cardinality(Pairs(S, u) \cup X)
  BY <1>1, Zenon
<1> QED BY <1>2, <1>3, <1>4, <1>5, <1>6, <1>7

-----------------------------------------------------------------------------
(* Types.                                                                    *)

(* A service with something outstanding has been constructed.                *)
Assigned == \A s \in Services : op[s] # "none" => home[s] # 0

LEMMA MacrosAre == macros \in Macros => macros \in [decrease : BOOLEAN, guard : BOOLEAN, multi : BOOLEAN]
BY PumpAssumption

LEMMA CreatedFinite == IsFiniteSet(Created) /\ Cardinality(Created) \in Nat
<1>1. IsFiniteSet(Threads)
  BY PumpAssumption, FS_Interval DEF Threads
<1> QED BY <1>1, FS_Subset, FS_CardinalityType DEF Created

(* Spawn gives every new thread one of the contexts.                         *)
LEMMA SpawnTypes ==
  ASSUME NEW n \in Nat, NEW N \in Nat, N >= 1, N <= MaxCtx,
         ctx \in [Threads -> 1..N], pc \in [Threads -> Pcs], Spawn(n, 1..N)
  PROVE  ctx' \in [Threads -> 1..N] /\ pc' \in [Threads -> Pcs]
<1> DEFINE k == Cardinality(Created)
           new == (k + 1)..(k + n)
           cs == 1..N
           load(t) == [c \in cs |-> Cardinality({u \in 1..(t - 1) : ctx'[u] = c})]
<1>1. k \in Nat
  BY CreatedFinite
<1>2. cs \in SUBSET Nat /\ IsFiniteSet(cs) /\ cs # {}
  <2>1. IsFiniteSet(1..N) /\ 1 \in 1..N /\ 1..N \in SUBSET Nat
    BY FS_Interval
  <2> QED BY <2>1
<1>3. ASSUME NEW t \in new PROVE ctx'[t] \in cs
  <2>1. \A c \in cs : load(t)[c] \in Int
    <3>1. ASSUME NEW c \in cs PROVE load(t)[c] \in Int
      <4>1. t - 1 \in Int
        BY <1>1
      <4>2. IsFiniteSet(1..(t - 1))
        BY <4>1, FS_Interval
      <4>3. Cardinality({u \in 1..(t - 1) : ctx'[u] = c}) \in Nat
        BY <4>2, FS_Subset, FS_CardinalityType
      <4> QED BY <4>3
    <3> QED BY <3>1
  <2>2. ctx'[t] = LeastOf(load(t), cs)
    BY DEF Spawn, ThreadContext
  <2> HIDE DEF cs, load
  <2> QED BY <1>2, <2>1, <2>2, LeastOfIsLeast
<1>4. ctx' \in [Threads -> Contexts] /\ \A t \in Threads \ new : ctx'[t] = ctx[t]
  BY DEF Spawn
<1>5. ASSUME NEW t \in Threads PROVE ctx'[t] \in 1..N
  <2> HIDE DEF new
  <2> QED BY <1>3, <1>4
<1>6. ctx' \in [Threads -> 1..N]
  <2> HIDE DEF new
  <2> QED BY <1>4, <1>5
<1>7. pc' \in [Threads -> Pcs]
  BY DEF Spawn, Pcs
<1> QED BY <1>6, <1>7

(* Handlers stop only contexts that there are.                               *)
LEMMA FinishedUsed ==
  ASSUME TypeOK, Assigned, NEW g, NEW o
  PROVE  Finished(g, o) \subseteq Used
BY DEF TypeOK, Assigned, Finished, Working, Used

TypeInv == TypeOK /\ Assigned

(* What start_service and stop_service of services do to them.               *)
LEMMA StartedTypes ==
  ASSUME TypeInv, NEW ss \in SUBSET listed, StartedNow(ss), home' = home
  PROVE  /\ started' \in [Services -> BOOLEAN] /\ op' \in [Services -> {"none", "pending", "ready"}]
         /\ uses' \in [Services -> Nat] /\ refs' \in [Contexts -> Int]
         /\ Assigned'
<1> USE DEF TypeInv
<1> DEFINE now == {s \in ss : ~started[s]}
           N(c) == {s \in now : uses[s] = 0 /\ home[s] = c}
<1>1. PICK ok \in SUBSET now :
          /\ started' = [s \in Services |-> started[s] \/ s \in ok]
          /\ op' = [s \in Services |-> IF s \in ok /\ op[s] = "none" THEN "pending" ELSE op[s]]
          /\ uses' = [s \in Services |-> IF s \in now /\ uses[s] = 0 THEN 1 ELSE uses[s]]
          /\ refs' = IF single_ctx THEN refs ELSE [c \in Contexts |-> refs[c] + Cardinality(N(c))]
  BY DEF StartedNow
<1>2. ASSUME NEW c \in Contexts PROVE Cardinality(N(c)) \in Nat
  <2>1. N(c) \in SUBSET Services
    BY DEF TypeOK
  <2> HIDE DEF N
  <2> QED BY <2>1, PumpAssumption, FS_Subset, FS_CardinalityType
<1>3. refs' \in [Contexts -> Int]
  <2>1. refs \in [Contexts -> Int]
    BY DEF TypeOK
  <2> HIDE DEF N, now
  <2> QED BY <1>1, <1>2, <2>1
<1>4. uses' \in [Services -> Nat]
  BY <1>1 DEF TypeOK
<1>5. op' \in [Services -> {"none", "pending", "ready"}]
  BY <1>1 DEF TypeOK
<1>6. started' \in [Services -> BOOLEAN]
  <2> SUFFICES ASSUME NEW s \in Services PROVE (started[s] \/ s \in ok) \in BOOLEAN
    BY <1>1, Zenon
  <2> QED OBVIOUS
<1>7. Assigned'
  BY <1>1 DEF TypeOK, Assigned
<1> QED BY <1>3, <1>4, <1>5, <1>6, <1>7

LEMMA StoppedTypes ==
  ASSUME TypeInv, NEW ss, StoppedNow(ss), home' = home
  PROVE  /\ started' \in [Services -> BOOLEAN] /\ op' \in [Services -> {"none", "pending", "ready"}]
         /\ \A s \in Services : op'[s] = "none" <=> op[s] = "none"
         /\ Assigned'
<1> USE DEF TypeInv
<1>1. started' \in [Services -> BOOLEAN]
  <2> SUFFICES ASSUME NEW s \in Services PROVE (started[s] /\ s \notin ss) \in BOOLEAN
    BY Zenon DEF StoppedNow
  <2> QED OBVIOUS
<1>2. op' \in [Services -> {"none", "pending", "ready"}] /\ \A s \in Services : op'[s] = "none" <=> op[s] = "none"
  BY DEF StoppedNow, TypeOK
<1> QED BY <1>1, <1>2 DEF Assigned

LEMMA AssignTypes ==
  ASSUME refs \in [Contexts -> Int], NEW c, NEW n \in Int, Assign(c, n)
  PROVE  refs' \in [Contexts -> Int]
<1>1. CASE c \in Contexts
  <2>1. refs[c] + n \in Int
    BY <1>1
  <2> QED BY <1>1, <2>1 DEF Assign
<1>2. CASE c \notin Contexts
  BY <1>2 DEF Assign
<1> QED BY <1>1, <1>2

LEMMA MacrosStay == [Next]_vars => macros' = macros
<1> SUFFICES ASSUME [Next]_vars PROVE macros' = macros
  OBVIOUS
<1>1. CASE App
  <2> USE DEF Counted
  <2>1. ASSUME NEW s \in Services,
               Construct(s) \/ AddRefs(s) \/ StartOne(s) \/ StopOne(s) \/ \E n \in 1..2 : SubRefs(s, n)
        PROVE  macros' = macros
    <3>1. CASE Construct(s)
      BY <3>1 DEF Construct, NotCounted
    <3>2. CASE AddRefs(s) \/ \E n \in 1..2 : SubRefs(s, n)
      BY <3>2 DEF AddRefs, SubRefs
    <3>3. CASE StartOne(s)
      BY <3>3 DEF StartOne
    <3>4. CASE StopOne(s)
      BY <3>4 DEF StopOne
    <3> QED BY <2>1, <3>1, <3>2, <3>3, <3>4
  <2>2. ASSUME NEW k \in Threads, DoServiceThreads(k) \/ \E n \in 0..1 : add_service_thread(k, n)
        PROVE  macros' = macros
    BY <2>2 DEF DoServiceThreads, add_service_thread, NotCounted
  <2>3. ASSUME NEW n \in 1..2, set_io_context_num(n) \/ del_service_thread(n) PROVE macros' = macros
    <3>1. CASE set_io_context_num(n)
      BY <3>1 DEF set_io_context_num, NotCounted
    <3>2. CASE del_service_thread(n)
      BY <3>2 DEF del_service_thread
    <3> QED BY <2>3, <3>1, <3>2
  <2>4. ASSUME NEW ss \in SUBSET Services, Remove(ss) PROVE macros' = macros
    BY <2>4 DEF Remove
  <2>5. ASSUME Stop PROVE macros' = macros
    BY <2>5 DEF Stop
  <2> QED BY <1>1, <2>1, <2>2, <2>3, <2>4, <2>5 DEF App
<1>2. CASE DoService \/ EndService \/ RunServiceWaits \/ WaitService
  BY <1>2 DEF DoService, EndService, RunServiceWaits, WaitService, NotCounted, Counted
<1>3. ASSUME NEW t \in Threads, Runs(t) PROVE macros' = macros
  <2>1. CASE RunBegin(t) \/ CheckDel(t) \/ DecDel(t) \/ UndoDel(t)
    BY <2>1 DEF RunBegin, CheckDel, DecDel, UndoDel, NotCounted
  <2>2. CASE DecReal(t) \/ UndoReal(t) \/ RunReturns(t) \/ Leave(t)
    BY <2>2 DEF DecReal, UndoReal, RunReturns, Leave, NotCounted
  <2>3. CASE \E s \in Services : Handle(t, s)
    BY <2>3 DEF Handle, NotCounted
  <2> QED BY <1>3, <2>1, <2>2, <2>3 DEF Runs
<1>4. ASSUME NEW t \in Threads, NEW s \in Services, NEW c \in BOOLEAN, Throw(t, s, c) PROVE macros' = macros
  BY <1>4 DEF Throw, NotCounted, Counted
<1>5. ASSUME NEW s \in Services, Event(s) PROVE macros' = macros
  BY <1>5 DEF Event, NotCounted, Counted
<1>6. CASE UNCHANGED vars
  BY <1>6 DEF vars
<1> QED BY <1>1, <1>2, <1>3, <1>4, <1>5, <1>6 DEF Next

LEMMA TypeStep == TypeInv /\ [Next]_vars => TypeInv'
<1> SUFFICES ASSUME TypeInv, [Next]_vars PROVE TypeInv'
  OBVIOUS
<1> USE DEF TypeInv
<1>a. macros' = macros
  BY MacrosStay
<1>b. Pcs' = Pcs /\ macros \in [decrease : BOOLEAN, guard : BOOLEAN, multi : BOOLEAN]
  BY <1>a, MacrosAre DEF Pcs, TypeOK
<1> USE DEF NotCounted, Counted, ctxVars, refVars, threadVars, svcVars
<1>1. ASSUME NEW s \in Services, Construct(s) PROVE TypeInv'
  <2>1. LeastOf(refs, Used) \in Used
    <3>0. ctx_num \in Nat /\ ctx_num >= 1 /\ ctx_num <= MaxCtx /\ MaxCtx \in Nat
      BY PumpAssumption DEF TypeOK, Contexts
    <3>1. Used \in SUBSET Nat /\ IsFiniteSet(Used) /\ 1 \in Used
      BY <3>0, FS_Interval DEF Used
    <3>2. \A c \in Used : refs[c] \in Int
      BY <3>0 DEF Used, TypeOK, Contexts
    <3> QED BY <3>1, <3>2, LeastOfIsLeast
  <2>2. 1 \in Used
    BY DEF Used, TypeOK, Contexts
  <2>3. PICK c \in Used : home' = [home EXCEPT ![s] = c] /\ Assign(c, 1)
    BY <1>1, <2>1, <2>2 DEF Construct
  <2>4. refs' \in [Contexts -> Int]
    BY <2>3, AssignTypes DEF TypeOK
  <2>5. Assigned'
    BY <1>1, <2>3 DEF Construct, TypeOK, Assigned, Used
  <2>6. late' \in BOOLEAN
    BY <1>1 DEF Construct
  <2> QED BY <1>1, <1>a, <1>b, <2>3, <2>4, <2>5, <2>6 DEF Construct, TypeOK, Used
<1>2. ASSUME NEW s \in Services, AddRefs(s) PROVE TypeInv'
  <2>1. refs' \in [Contexts -> Int]
    BY <1>2, AssignTypes DEF AddRefs, TypeOK
  <2> QED BY <1>2, <1>a, <1>b, <2>1 DEF AddRefs, TypeOK, Used, Assigned
<1>3. ASSUME NEW s \in Services, NEW n \in 1..2, SubRefs(s, n) PROVE TypeInv'
  <2>1. refs' \in [Contexts -> Int]
    BY <1>3, AssignTypes DEF SubRefs, TypeOK
  <2> QED BY <1>3, <1>a, <1>b, <2>1 DEF SubRefs, TypeOK, Used, Assigned
<1>4. ASSUME NEW n \in 1..2, set_io_context_num(n) PROVE TypeInv'
  BY <1>4, <1>a, <1>b DEF set_io_context_num, NewContexts, TypeOK, Used, Contexts, Assigned
<1>5. ASSUME NEW k \in Threads, NEW n \in 0..1, add_service_thread(k, n) PROVE TypeInv'
  <2> DEFINE N == ctx_num + n
  <2>1. N \in Nat /\ N >= 1 /\ N <= MaxCtx /\ k \in Nat /\ ctx_num' = N
    BY <1>5 DEF add_service_thread, NewContexts, TypeOK, Contexts, Threads
  <2>2. ctx \in [Threads -> 1..N] /\ pc \in [Threads -> Pcs]
    BY <2>1 DEF TypeOK, Used, Contexts
  <2>3. ctx' \in [Threads -> 1..N] /\ pc' \in [Threads -> Pcs]
    <3> HIDE DEF N
    <3>1. Spawn(k, 1..N)
      BY <1>5 DEF add_service_thread, N
    <3> QED BY <2>1, <2>2, <3>1, SpawnTypes
  <2>4. guarded' \subseteq 1..N /\ Used \subseteq 1..N /\ N \in Contexts
    BY <1>5, <2>1 DEF add_service_thread, NewContexts, TypeOK, Used, Contexts
  <2>5. single_ctx' \in BOOLEAN /\ (macros.multi => ~single_ctx')
    BY <1>5, <1>b DEF add_service_thread, TypeOK
  <2> HIDE DEF N
  <2>6. UNCHANGED <<pump, first, stopped, halted, refVars, svcVars, block, real_thread_num, del_thread_num,
                    lost, told, throws, starts>> /\ calls' \in Nat
    BY <1>5 DEF add_service_thread, TypeOK
  <2>7. Used' = 1..N
    BY <2>1 DEF Used
  <2>8. home' \in [Services -> {0} \cup 1..N] /\ stopped' \subseteq 1..N
    BY <2>4, <2>6 DEF TypeOK
  <2> QED BY <1>a, <1>b, <2>1, <2>3, <2>4, <2>5, <2>6, <2>7, <2>8 DEF TypeOK, Assigned
<1>6. ASSUME NEW n \in 1..2, del_service_thread(n) PROVE TypeInv'
  BY <1>6, <1>a, <1>b DEF del_service_thread, TypeOK, Used, Assigned
<1>7. ASSUME NEW t \in Threads, RunBegin(t) \/ CheckDel(t) \/ DecDel(t) \/ UndoDel(t) \/ DecReal(t) \/ UndoReal(t)
      PROVE  TypeInv'
  <2>1. UNCHANGED <<StepVars, starts, calls>>
    BY <1>7 DEF RunBegin, CheckDel, DecDel, UndoDel, DecReal, UndoReal
  <2>2. real_thread_num' \in Int /\ del_thread_num' \in Int
    BY <1>7 DEF RunBegin, CheckDel, DecDel, UndoDel, DecReal, UndoReal, TypeOK
  <2>3. pc' \in [Threads -> Pcs]
    BY <1>7, <1>b DEF RunBegin, CheckDel, DecDel, UndoDel, DecReal, UndoReal, TypeOK, Goto, Pcs
  <2> QED BY <1>a, <1>b, <2>1, <2>2, <2>3 DEF StepVars, TypeOK, Used, Assigned
<1>8. ASSUME NEW t \in Threads, NEW s \in Services, Handle(t, s) PROVE TypeInv'
  <2>1. refs' \in [Contexts -> Int] /\ uses' \in [Services -> Nat]
    <3>1. CASE started[s]
      BY <1>8, <3>1 DEF Handle, TypeOK
    <3>2. CASE ~started[s]
      <4>1. uses' = [uses EXCEPT ![s] = 0] /\ Assign(home[s], -uses[s]) /\ -uses[s] \in Int
        BY <1>8, <3>2 DEF Handle, TypeOK
      <4> QED BY <4>1, AssignTypes DEF TypeOK
    <3> QED BY <3>1, <3>2
  <2>2. pc' \in [Threads -> Pcs]
    BY <1>8, <1>b DEF Handle, TypeOK, Goto, Pcs
  <2>3. stopped' \subseteq Used
    BY <1>8, FinishedUsed DEF Handle, TypeOK
  <2>4. op' \in [Services -> {"none", "pending", "ready"}] /\ (\A z \in Services : op'[z] # "none" => op[z] # "none")
    BY <1>8 DEF Handle, TypeOK
  <2>5. /\ started' \in [Services -> BOOLEAN] /\ told' \subseteq Threads /\ lost' \in BOOLEAN
        /\ UNCHANGED <<pump, first, single_ctx, ctx_num, guarded, halted, late, home, listed,
                       ctx, block, real_thread_num, del_thread_num, throws, starts, calls, macros>>
    BY <1>8, <1>b DEF Handle, TypeOK, NotCounted
  <2> QED BY <1>a, <1>b, <2>1, <2>2, <2>3, <2>4, <2>5 DEF TypeOK, Used, Assigned
<1>9. ASSUME NEW t \in Threads, NEW s \in Services, NEW c \in BOOLEAN, Throw(t, s, c) PROVE TypeInv'
  <2>1. PICK next \in {"none", "pending"} : op' = [op EXCEPT ![s] = next] /\ op[s] = "ready"
    BY <1>9 DEF Throw
  <2>2. pc' \in [Threads -> Pcs]
    BY <1>9, <1>b DEF Throw, TypeOK, Goto, Pcs
  <2>3. stopped' \subseteq Used
    BY <1>9, FinishedUsed DEF Throw, TypeOK
  <2>4. op' \in [Services -> {"none", "pending", "ready"}] /\ (\A z \in Services : op'[z] # "none" => op[z] # "none")
    BY <2>1 DEF TypeOK
  <2>5. lost' \in BOOLEAN /\ told' \subseteq Threads /\ throws' \in Nat
    BY <1>9, <1>b DEF Throw, TypeOK
  <2> QED BY <1>9, <1>a, <1>b, <2>2, <2>3, <2>4, <2>5 DEF Throw, TypeOK, Used, Assigned
<1>10. ASSUME NEW t \in Threads, RunReturns(t) PROVE TypeInv'
  <2>1. pc' \in [Threads -> Pcs]
    BY <1>10, <1>b DEF RunReturns, TypeOK, Goto, Pcs
  <2>2. stopped' \subseteq Used
    BY <1>10 DEF RunReturns, TypeOK
  <2>3. UNCHANGED <<pump, first, single_ctx, ctx_num, guarded, halted, refs, uses, late, home, listed, started,
                    op, ctx, block, real_thread_num, del_thread_num, lost, told, throws, starts, calls, macros>>
    BY <1>10 DEF RunReturns, refVars, svcVars, NotCounted
  <2> QED BY <1>b, <2>1, <2>2, <2>3 DEF TypeOK, Used, Assigned
<1>11. ASSUME NEW t \in Threads, Leave(t) PROVE TypeInv'
  <2>1. pc' \in [Threads -> Pcs]
    BY <1>11, <1>b DEF Leave, TypeOK, Goto, Pcs
  <2> QED BY <1>11, <1>a, <1>b, <2>1 DEF Leave, TypeOK, Used, Assigned
<1>12. ASSUME NEW s \in Services, Event(s) PROVE TypeInv'
  BY <1>12, <1>a, <1>b DEF Event, TypeOK, Used, Assigned
<1>13. ASSUME NEW s \in Services, StartOne(s) PROVE TypeInv'
  <2>1. {s} \in SUBSET listed /\ StartedNow({s}) /\ home' = home
    BY <1>13 DEF StartOne
  <2>2. /\ started' \in [Services -> BOOLEAN] /\ op' \in [Services -> {"none", "pending", "ready"}]
        /\ uses' \in [Services -> Nat] /\ refs' \in [Contexts -> Int] /\ Assigned'
    BY <2>1, StartedTypes
  <2> QED BY <1>13, <1>a, <1>b, <2>2 DEF StartOne, TypeOK, Used
<1>14. ASSUME NEW s \in Services, StopOne(s) PROVE TypeInv'
  <2>1. /\ started' \in [Services -> BOOLEAN] /\ op' \in [Services -> {"none", "pending", "ready"}] /\ Assigned'
    BY <1>14, StoppedTypes DEF StopOne
  <2> QED BY <1>14, <1>a, <1>b, <2>1 DEF StopOne, TypeOK, Used
<1>15. ASSUME NEW ss \in SUBSET Services, Remove(ss) PROVE TypeInv'
  <2>1. /\ started' \in [Services -> BOOLEAN] /\ op' \in [Services -> {"none", "pending", "ready"}] /\ Assigned'
    BY <1>15, StoppedTypes DEF Remove
  <2> QED BY <1>15, <1>a, <1>b, <2>1 DEF Remove, TypeOK, Used
<1>16. CASE DoService
  <2>1. guarded' \subseteq Used /\ stopped' = {} /\ pump' = "starting" /\ halted' = FALSE /\ starts' \in Nat
    BY <1>16 DEF DoService, Restart, TypeOK
  <2>2. UNCHANGED <<macros, calls, first, single_ctx, ctx_num, refVars, threadVars, svcVars>>
    BY <1>16 DEF DoService
  <2>3. UNCHANGED <<first, single_ctx>> /\ Used' = Used /\ Assigned'
    BY <2>2 DEF Used, Assigned
  <2>4. first' \in BOOLEAN /\ single_ctx' \in BOOLEAN /\ (macros.multi => ~single_ctx')
    BY <2>3 DEF TypeOK
  <2> QED BY <1>a, <1>b, <2>1, <2>2, <2>3, <2>4 DEF TypeOK
<1>17. ASSUME NEW k \in Threads, DoServiceThreads(k) PROVE TypeInv'
  <2>1. /\ started' \in [Services -> BOOLEAN] /\ op' \in [Services -> {"none", "pending", "ready"}]
        /\ uses' \in [Services -> Nat] /\ refs' \in [Contexts -> Int] /\ Assigned'
    BY <1>17, StartedTypes DEF DoServiceThreads
  <2>2. ctx' \in [Threads -> 1..ctx_num] /\ pc' \in [Threads -> Pcs]
    <3>1. ctx_num \in Nat /\ ctx_num >= 1 /\ ctx_num <= MaxCtx /\ k \in Nat
      BY DEF TypeOK, Contexts, Threads
    <3>2. ctx \in [Threads -> 1..ctx_num] /\ pc \in [Threads -> Pcs] /\ Spawn(k, 1..ctx_num)
      BY <1>17 DEF TypeOK, Used, DoServiceThreads
    <3> QED BY <3>1, <3>2, SpawnTypes
  <2>3. block' \in {0} \cup Threads
    BY <1>17 DEF DoServiceThreads
  <2> QED BY <1>17, <1>a, <1>b, <2>1, <2>2, <2>3 DEF DoServiceThreads, TypeOK, Used
<1>18. CASE EndService
  <2>1. /\ started' \in [Services -> BOOLEAN] /\ op' \in [Services -> {"none", "pending", "ready"}] /\ Assigned'
    BY <1>18, StoppedTypes DEF EndService
  <2>2. stopped' \subseteq Used
    BY <1>18, FinishedUsed DEF EndService, TypeOK
  <2>3. pump' \in {"stopped", "starting", "running", "ending", "waiting", "join"}
    BY <1>18 DEF EndService
  <2> QED BY <1>18, <1>a, <1>b, <2>1, <2>2, <2>3 DEF EndService, GuardsReset, TypeOK, Used
<1>19. CASE Stop
  BY <1>19, <1>a, <1>b DEF Stop, TypeOK, Used, Assigned
<1>20. CASE RunServiceWaits
  BY <1>20, <1>a, <1>b DEF RunServiceWaits, TypeOK, Used, Assigned
<1>21. CASE WaitService
  <2>1. pc' \in [Threads -> Pcs] /\ pump' = "stopped" /\ first' = FALSE /\ block' = 0 /\ del_thread_num' = 0
    BY <1>21 DEF WaitService, Pcs
  <2>2. UNCHANGED <<single_ctx, ctx_num, guarded, stopped, halted, refVars, svcVars,
                    ctx, real_thread_num, lost, told, throws, starts, calls>>
    BY <1>21 DEF WaitService
  <2>3. Used' = Used /\ Assigned'
    BY <2>2 DEF Used, Assigned
  <2>4. first' \in BOOLEAN /\ single_ctx' \in BOOLEAN /\ (macros.multi => ~single_ctx')
    BY <2>1, <2>2 DEF TypeOK
  <2> QED BY <1>a, <1>b, <2>1, <2>2, <2>3, <2>4 DEF TypeOK
<1>22. CASE UNCHANGED vars
  BY <1>22, <1>a, <1>b DEF vars, TypeOK, Used, Assigned
<1> QED
  BY <1>1, <1>2, <1>3, <1>4, <1>5, <1>6, <1>7, <1>8, <1>9, <1>10, <1>11, <1>12, <1>13, <1>14, <1>15, <1>16,
     <1>17, <1>18, <1>19, <1>20, <1>21, <1>22 DEF Next, App, Runs

LEMMA TypeInit == Init => TypeInv
<1> SUFFICES ASSUME Init PROVE TypeInv
  OBVIOUS
<1>1. 1 \in Contexts /\ macros \in [decrease : BOOLEAN, guard : BOOLEAN, multi : BOOLEAN]
  BY PumpAssumption, MacrosAre DEF Init, Contexts
<1>2. ctx_num \in Contexts /\ ctx_num = 1 /\ Used = {1}
  BY <1>1 DEF Init, Used
<1>3. guarded \subseteq Used /\ stopped \subseteq Used /\ ctx \in [Threads -> Used]
      /\ home \in [Services -> {0} \cup Used] /\ listed \subseteq {s \in Services : home[s] # 0}
  BY <1>1, <1>2 DEF Init
<1>4. pc \in [Threads -> Pcs]
  BY DEF Init, Pcs
<1>5. first \in BOOLEAN /\ single_ctx \in BOOLEAN /\ (macros.multi => ~single_ctx)
  BY <1>1 DEF Init
<1>6. Assigned /\ refs \in [Contexts -> Int] /\ uses \in [Services -> Nat] /\ started \in [Services -> BOOLEAN]
      /\ op \in [Services -> {"none", "pending", "ready"}]
  BY DEF Init, Assigned
<1> QED BY <1>2, <1>3, <1>4, <1>5, <1>6 DEF Init, TypeInv, TypeOK

(* Every variable of the pump keeps its type; no service has anything        *)
(* outstanding before it has a context (service_pump.h:61-87, 477-487).      *)
THEOREM TypeCorrect == Spec => []TypeInv
BY TypeInit, TypeStep, PTL DEF Spec

-----------------------------------------------------------------------------
(* Threads.                                                                  *)

Resting == pump \in {"stopped", "starting"}

(* The threads that real_thread_num counts: between its increment at the     *)
(* begin of run() and whichever decrement comes.                             *)
CountedPcs == {"check", "dec_del", "undo_del", "dec_real", "run", "leave"}
CountedThreads == {t \in Threads : pc[t] \in CountedPcs}

(* No thread before do_service, nor after wait_service.                      *)
Idle == Resting => \A t \in Threads : pc[t] = "none"
(* Threads are created in turn, and each context gets one.                   *)
InTurn == \E k \in Nat : Created = 1..k
Housed == ~Resting => \A c \in Used : \E t \in Created : ctx[t] = c
RealExact == macros.decrease /\ ~lost => real_thread_num = Cardinality(CountedThreads)
(* A thread that leaves unasked leaves a stopped context, or threw.          *)
Departed == ~lost => \A t \in Threads :
                (pc[t] = "leave" \/ (pc[t] = "gone" /\ ~macros.decrease)) => ctx[t] \in stopped
(* A context that has not stopped has a thread.                              *)
Manned == (~Resting /\ ~lost /\ (macros.decrease => ctx_num = 1)) =>
              \A c \in Used \ stopped : \E t \in Threads : InLoop(t) /\ ctx[t] = c

ThreadInv == Idle /\ InTurn /\ Housed /\ RealExact /\ Departed /\ Manned

(* What touches no thread, and restarts no context, keeps all of this.       *)
LEMMA ThreadsKept ==
  ASSUME ThreadInv, UNCHANGED <<macros, pc, ctx, ctx_num, real_thread_num, lost>>,
         Resting' <=> Resting, stopped \subseteq stopped'
  PROVE  ThreadInv'
<1>1. Used' = Used /\ Created' = Created /\ CountedThreads' = CountedThreads
  BY DEF Used, Created, CountedThreads
<1>2. \A t \in Threads : InLoop(t)' <=> InLoop(t)
  BY DEF InLoop
<1>3. Idle' /\ InTurn' /\ Housed'
  BY <1>1 DEF ThreadInv, Idle, InTurn, Housed
<1>4. RealExact' /\ Departed'
  BY <1>1 DEF ThreadInv, RealExact, Departed
<1>5. Manned'
  BY <1>1, <1>2 DEF ThreadInv, Manned
<1> QED BY <1>3, <1>4, <1>5 DEF ThreadInv

LEMMA SpawnThreads ==
  ASSUME TypeInv, InTurn, NEW m \in Nat, NEW old \in Nat, NEW N \in Nat, N >= 1, old <= N, N <= old + m,
         Spawn(m, 1..N), \A c \in 1..old : \E t \in Created : ctx[t] = c
  PROVE  /\ InTurn'
         /\ Created \subseteq Created' /\ Created' \subseteq Threads
         /\ \A t \in Created : pc'[t] = pc[t] /\ ctx'[t] = ctx[t]
         /\ \A t \in Created' \ Created : pc'[t] = "begin"
         /\ \A t \in Threads \ Created' : pc'[t] = "none"
         /\ \A c \in 1..N : \E t \in Created' : ctx'[t] = c
<1>1. PICK k \in Nat : Created = 1..k
  BY DEF InTurn
<1>2. Cardinality(Created) = k
  <2>1. 1 \in Int /\ k \in Int
    OBVIOUS
  <2>2. Cardinality(1..k) = IF 1 > k THEN 0 ELSE k - 1 + 1
    BY <2>1, FS_Interval
  <2> QED BY <1>1, <2>2
<1> DEFINE new == (k + 1)..(k + m)
<1>3. /\ new \subseteq Threads
      /\ \A t \in Threads \ new : ctx'[t] = ctx[t]
      /\ pc' = [t \in Threads |-> IF t \in new THEN "begin" ELSE pc[t]]
  BY <1>2 DEF Spawn
<1>4. \A t \in new :
         ctx'[t] = LeastOf([c \in 1..N |-> Cardinality({u \in 1..(t - 1) : ctx'[u] = c})], 1..N)
  BY <1>2 DEF Spawn, ThreadContext
<1>5. Created \subseteq Threads /\ \A t \in Threads : t \in Created <=> pc[t] # "none"
  BY DEF Created
<1>6. Created' = 1..(k + m)
  <2>1. Created' = Created \cup new
    BY <1>3, <1>5 DEF Created
  <2> QED BY <1>1, <2>1
<1>7. \A t \in Created : t \notin new
  BY <1>1
<1>8. \A c \in 1..old : \E u \in 1..k : ctx'[u] = c
  BY <1>1, <1>3, <1>5, <1>7
<1>9. \A c \in 1..N : \E t \in 1..(k + m) : ctx'[t] = c
  <2>0. PICK on : on = ctx'
    OBVIOUS
  <2>1. ServedBy(on, old, k)
    BY <1>8, <2>0 DEF ServedBy
  <2>2. Spread(on, k, m, N)
    BY <1>4, <2>0 DEF Spread
  <2>3. ServedBy(on, N, k + m)
    BY <1>1, <2>1, <2>2, EveryContextHoused
  <2> QED BY <2>0, <2>3 DEF ServedBy
<1>10. InTurn'
  <2>1. k + m \in Nat
    BY <1>1
  <2> QED BY <1>6, <2>1 DEF InTurn
<1>11. Created' = Created \cup new
  BY <1>1, <1>6
<1>12. \A t \in Threads \ Created' : pc'[t] = "none"
  BY <1>3, <1>5, <1>11
<1>13. \A t \in Created : pc'[t] = pc[t] /\ ctx'[t] = ctx[t]
  BY <1>3, <1>5, <1>7
<1>14. \A t \in Created' \ Created : pc'[t] = "begin"
  BY <1>3, <1>11
<1>15. Created \subseteq Created' /\ Created' \subseteq Threads
  BY <1>3, <1>5, <1>11
<1>16. \A c \in 1..N : \E t \in Created' : ctx'[t] = c
  BY <1>6, <1>9
<1> QED BY ONLY <1>10, <1>12, <1>13, <1>14, <1>15, <1>16

(* A step of a thread that is in run(), to another place.                    *)
Moves(t, to) == /\ pc' = [pc EXCEPT ![t] = to] /\ InLoop(t) /\ to # "none"
                /\ UNCHANGED <<macros, pump, ctx, ctx_num>> /\ stopped \subseteq stopped' /\ (lost => lost')

LEMMA MovesKeep ==
  ASSUME TypeInv, ThreadInv, NEW t \in Threads, NEW to, Moves(t, to)
  PROVE  Idle' /\ InTurn' /\ Housed'
<1>1. pc \in [Threads -> Pcs]
  BY DEF TypeInv, TypeOK
<1>2. Created' = Created /\ Used' = Used /\ Resting' = Resting
  BY <1>1 DEF Moves, InLoop, Created, Used, Resting
<1>3. ~Resting
  BY DEF ThreadInv, Idle, Moves, InLoop
<1> QED BY <1>2, <1>3 DEF ThreadInv, Idle, InTurn, Housed, Moves

LEMMA MovesDepart ==
  ASSUME TypeInv, ThreadInv, NEW t \in Threads, NEW to, Moves(t, to),
         to = "leave" \/ (to = "gone" /\ ~macros.decrease) => lost' \/ ctx[t] \in stopped'
  PROVE  Departed'
<1>1. pc \in [Threads -> Pcs]
  BY DEF TypeInv, TypeOK
<1> QED BY <1>1 DEF ThreadInv, Departed, Moves

LEMMA MovesManned ==
  ASSUME TypeInv, ThreadInv, NEW t \in Threads, NEW to, Moves(t, to),
         \/ to # "gone" \/ lost' \/ ctx[t] \in stopped'
         \/ macros.decrease /\ \E u \in Threads : u # t /\ InLoop(u)
  PROVE  Manned'
<1>1. pc \in [Threads -> Pcs] /\ ctx \in [Threads -> Used] /\ Used = 1..ctx_num
  BY DEF TypeInv, TypeOK, Used
<1>2. Used' = Used /\ Resting' = Resting
  BY DEF Moves, Used, Resting
<1> SUFFICES ASSUME ~Resting', ~lost', (macros.decrease => ctx_num = 1)', NEW c \in Used' \ stopped'
             PROVE  \E u \in Threads : InLoop(u)' /\ ctx'[u] = c
  BY DEF Manned
<1>3. PICK v \in Threads : InLoop(v) /\ ctx[v] = c
  BY <1>2 DEF ThreadInv, Manned, Moves
<1>4. ctx' = ctx /\ macros' = macros /\ ctx_num' = ctx_num
  BY DEF Moves
<1>5. \A u \in Threads : u # t /\ InLoop(u) => InLoop(u)'
  BY <1>1 DEF Moves, InLoop
<1>6. CASE v # t
  BY <1>3, <1>4, <1>5, <1>6
<1>7. CASE v = t /\ to # "gone"
  BY <1>1, <1>3, <1>4, <1>7 DEF Moves, InLoop
<1>8. CASE v = t /\ to = "gone"
  <2>1. ctx[t] \notin stopped'
    BY <1>3, <1>8
  <2>2. PICK u \in Threads : u # t /\ InLoop(u) /\ ctx_num = 1
    BY <1>4, <1>8, <2>1
  <2>3. ctx[u] = 1 /\ ctx[t] = 1
    BY <1>1, <2>2
  <2> QED BY <1>3, <1>4, <1>5, <1>8, <2>2, <2>3
<1> QED BY <1>6, <1>7, <1>8

LEMMA CountedFinite == IsFiniteSet(CountedThreads) /\ Cardinality(CountedThreads) \in Nat
<1>1. IsFiniteSet(Threads)
  BY PumpAssumption, FS_Interval DEF Threads
<1> QED BY <1>1, FS_Subset, FS_CardinalityType DEF CountedThreads

(* What the counter must do when a thread moves.                             *)
Weight(place) == IF place \in CountedPcs THEN 1 ELSE 0

LEMMA MovesReal ==
  ASSUME TypeInv, ThreadInv, NEW t \in Threads, NEW to, Moves(t, to),
         macros.decrease /\ ~lost' => real_thread_num' = real_thread_num + Weight(to) - Weight(pc[t])
  PROVE  RealExact'
<1> SUFFICES ASSUME macros.decrease, ~lost'
             PROVE  real_thread_num' = Cardinality(CountedThreads')
  BY DEF RealExact, Moves
<1>1. real_thread_num = Cardinality(CountedThreads) /\ pc \in [Threads -> Pcs]
  BY DEF ThreadInv, RealExact, Moves, TypeInv, TypeOK
<1>2. IsFiniteSet(CountedThreads) /\ Cardinality(CountedThreads) \in Nat
  BY CountedFinite
<1>3. CASE to \in CountedPcs
  <2>1. CountedThreads' = CountedThreads \cup {t}
    BY <1>1, <1>3 DEF Moves, CountedThreads
  <2>2. Cardinality(CountedThreads \cup {t}) =
          IF pc[t] \in CountedPcs THEN Cardinality(CountedThreads) ELSE Cardinality(CountedThreads) + 1
    BY <1>2, FS_AddElement DEF CountedThreads
  <2> QED BY <1>1, <1>2, <1>3, <2>1, <2>2 DEF Weight
<1>4. CASE to \notin CountedPcs
  <2>1. CountedThreads' = CountedThreads \ {t}
    BY <1>1, <1>4 DEF Moves, CountedThreads
  <2>2. Cardinality(CountedThreads \ {t}) =
          IF pc[t] \in CountedPcs THEN Cardinality(CountedThreads) - 1 ELSE Cardinality(CountedThreads)
    BY <1>2, FS_RemoveElement DEF CountedThreads
  <2> QED BY <1>1, <1>2, <1>4, <2>1, <2>2 DEF Weight
<1> QED BY <1>3, <1>4

LEMMA ThreadStep == TypeInv /\ ThreadInv /\ [Next]_vars => ThreadInv'
<1> SUFFICES ASSUME TypeInv, ThreadInv, [Next]_vars PROVE ThreadInv'
  OBVIOUS
<1> USE DEF NotCounted, Counted, ctxVars, refVars, threadVars, svcVars
<1>a. macros' = macros /\ pc \in [Threads -> Pcs] /\ macros.decrease \in BOOLEAN
  BY MacrosStay, MacrosAre DEF TypeInv, TypeOK
<1>b. real_thread_num \in Int /\ lost \in BOOLEAN /\ stopped \subseteq Used /\ ctx_num \in Nat /\ ctx_num >= 1
      /\ ctx \in [Threads -> Used] /\ Used = 1..ctx_num
  BY DEF TypeInv, TypeOK, Contexts, Used
<1>c. Idle /\ InTurn /\ Housed /\ RealExact /\ Departed /\ Manned
  BY DEF ThreadInv
<1>d. IsFiniteSet(CountedThreads) /\ Cardinality(CountedThreads) \in Nat
  BY CountedFinite
<1>1. ASSUME NEW s \in Services,
             \/ Construct(s) \/ AddRefs(s) \/ (\E n \in 1..2 : SubRefs(s, n)) \/ StartOne(s) \/ StopOne(s)
             \/ Event(s)
      PROVE  ThreadInv'
  <2>1. UNCHANGED <<macros, pump, pc, ctx, ctx_num, real_thread_num, lost, stopped>>
    BY <1>1, <1>a DEF Construct, AddRefs, SubRefs, StartOne, StopOne, Event
  <2>2. Resting' <=> Resting
    BY <2>1 DEF Resting
  <2> QED BY <2>1, <2>2, ThreadsKept
<1>2. ASSUME NEW ss, Remove(ss) \/ (\E n \in 1..2 : del_service_thread(n)) PROVE ThreadInv'
  <2>1. UNCHANGED <<macros, pump, pc, ctx, ctx_num, real_thread_num, lost, stopped>>
    BY <1>2, <1>a DEF Remove, del_service_thread
  <2>2. Resting' <=> Resting
    BY <2>1 DEF Resting
  <2> QED BY <2>1, <2>2, ThreadsKept
<1>3. CASE EndService \/ Stop \/ RunServiceWaits
  <2>1. UNCHANGED <<macros, pc, ctx, ctx_num, real_thread_num, lost>> /\ stopped \subseteq stopped'
    BY <1>3, <1>a, <1>b DEF EndService, Stop, RunServiceWaits
  <2>2. ~Resting /\ ~Resting'
    BY <1>3 DEF EndService, Stop, RunServiceWaits, Resting
  <2> QED BY <2>1, <2>2, ThreadsKept
<1>4. CASE UNCHANGED vars
  <2>1. UNCHANGED <<macros, pump, pc, ctx, ctx_num, real_thread_num, lost, stopped>>
    BY <1>4 DEF vars
  <2>2. Resting' <=> Resting
    BY <2>1 DEF Resting
  <2> QED BY <2>1, <2>2, ThreadsKept
<1>5. ASSUME NEW n \in 1..2, set_io_context_num(n) PROVE ThreadInv'
  <2>1. UNCHANGED <<macros, pump, pc, ctx, real_thread_num, lost, stopped>> /\ Resting /\ ~macros.decrease
    BY <1>5 DEF set_io_context_num, Resting
  <2>2. Resting' /\ Created' = Created
    BY <2>1 DEF Resting, Created
  <2>3. \A t \in Threads : pc[t] = "none"
    BY <1>c, <2>1 DEF Idle
  <2>4. Idle' /\ InTurn' /\ Housed' /\ Manned' /\ Departed' /\ RealExact'
    BY <1>c, <2>1, <2>2, <2>3 DEF Idle, InTurn, Housed, Manned, Departed, RealExact
  <2> QED BY <2>4 DEF ThreadInv
<1>6. CASE DoService
  <2>1. UNCHANGED <<macros, pc, ctx, ctx_num, real_thread_num, lost>> /\ Resting /\ Resting'
    BY <1>6 DEF DoService, Resting
  <2>2. Created' = Created /\ CountedThreads' = CountedThreads
    BY <2>1 DEF Created, CountedThreads
  <2>3. \A t \in Threads : pc[t] = "none"
    BY <1>c, <2>1 DEF Idle
  <2>4. Idle' /\ InTurn' /\ Housed' /\ Manned' /\ Departed' /\ RealExact'
    BY <1>c, <2>1, <2>2, <2>3 DEF Idle, InTurn, Housed, Manned, Departed, RealExact
  <2> QED BY <2>4 DEF ThreadInv
<1>7. CASE WaitService
  <2>1. UNCHANGED <<macros, ctx, ctx_num, real_thread_num, lost, stopped>> /\ Resting' /\ ~Resting
        /\ pc' = [t \in Threads |-> "none"] /\ \A t \in Threads : pc[t] \in {"none", "gone"}
    BY <1>7 DEF WaitService, Resting
  <2>2. Created' = 1..0 /\ 0 \in Nat /\ CountedThreads' = CountedThreads
    BY <2>1 DEF Created, CountedThreads, CountedPcs
  <2>3. InTurn'
    BY <2>2 DEF InTurn
  <2>4. Idle' /\ Housed' /\ Manned' /\ Departed' /\ RealExact'
    BY <1>c, <2>1, <2>2 DEF Idle, Housed, Manned, Departed, RealExact
  <2> QED BY <2>3, <2>4 DEF ThreadInv
<1>8. ASSUME NEW k \in Threads, DoServiceThreads(k) PROVE ThreadInv'
  <2>1. UNCHANGED <<macros, ctx_num, real_thread_num, lost, stopped>> /\ Resting /\ ~Resting'
        /\ k >= ctx_num /\ Spawn(k, 1..ctx_num)
    BY <1>8, <1>b DEF DoServiceThreads, Resting
  <2>2. \A t \in Threads : pc[t] = "none"
    BY <1>c, <2>1 DEF Idle
  <2>3. Created = {}
    BY <2>2 DEF Created
  <2>4. /\ InTurn' /\ Created' \subseteq Threads
        /\ \A t \in Created' \ Created : pc'[t] = "begin"
        /\ \A t \in Threads \ Created' : pc'[t] = "none"
        /\ \A c \in 1..ctx_num : \E t \in Created' : ctx'[t] = c
    <3>1. 0 \in Nat /\ k \in Nat /\ 0 <= ctx_num /\ ctx_num <= 0 + k /\ \A c \in 1..0 : \E t \in Created : ctx[t] = c
      BY <1>b, <2>1 DEF Threads
    <3> QED BY <1>b, <1>c, <2>1, <3>1, SpawnThreads
  <2>5. Used' = 1..ctx_num
    BY <1>b, <2>1 DEF Used
  <2>6. Idle' /\ Housed' /\ Departed'
    BY <2>1, <2>3, <2>4, <2>5 DEF Idle, Housed, Departed
  <2>7. CountedThreads = {} /\ CountedThreads' = {}
    BY <2>2, <2>3, <2>4 DEF CountedThreads, CountedPcs
  <2>8. RealExact'
    BY <1>c, <2>1, <2>7 DEF RealExact
  <2>9. Manned'
    BY <2>3, <2>4, <2>5 DEF Manned, InLoop
  <2> QED BY <2>4, <2>6, <2>8, <2>9 DEF ThreadInv
<1>9. ASSUME NEW k \in Threads, NEW n \in 0..1, add_service_thread(k, n) PROVE ThreadInv'
  <2> DEFINE N == ctx_num + n
  <2>1. UNCHANGED <<macros, pump, real_thread_num, lost, stopped>> /\ ~Resting /\ ~Resting'
        /\ k >= n /\ Spawn(k, 1..N) /\ ctx_num' = N
    BY <1>9 DEF add_service_thread, NewContexts, Resting
  <2>2. N \in Nat /\ N >= 1 /\ ctx_num <= N /\ N <= ctx_num + k /\ k \in Nat
    BY <1>b, <2>1 DEF Threads
  <2>3. \A c \in 1..ctx_num : \E t \in Created : ctx[t] = c
    BY <1>b, <1>c, <2>1 DEF Housed
  <2>4. /\ InTurn' /\ Created \subseteq Created' /\ Created' \subseteq Threads
        /\ \A t \in Created : pc'[t] = pc[t] /\ ctx'[t] = ctx[t]
        /\ \A t \in Created' \ Created : pc'[t] = "begin"
        /\ \A t \in Threads \ Created' : pc'[t] = "none"
        /\ \A c \in 1..N : \E t \in Created' : ctx'[t] = c
    <3> HIDE DEF N
    <3> QED BY <1>b, <1>c, <2>1, <2>2, <2>3, SpawnThreads
  <2>5. Used' = 1..N /\ \A t \in Threads : t \in Created <=> pc[t] # "none"
    BY <2>1 DEF Used, Created
  <2>6. Idle' /\ Housed'
    BY <2>1, <2>4, <2>5 DEF Idle, Housed
  <2>7. Departed'
    <3> SUFFICES ASSUME ~lost, NEW t \in Threads, pc'[t] = "leave" \/ (pc'[t] = "gone" /\ ~macros.decrease)
                 PROVE  ctx'[t] \in stopped
      BY <2>1 DEF Departed
    <3>1. t \in Created
      BY <2>4
    <3> QED BY <1>c, <2>4, <3>1 DEF Departed
  <2>8. CountedThreads' = CountedThreads
    <3> HIDE DEF N
    <3> QED BY <2>4, <2>5 DEF CountedThreads, CountedPcs
  <2>9. RealExact'
    BY <1>c, <2>1, <2>8 DEF RealExact
  <2>10. Manned'
    <3> SUFFICES ASSUME ~lost, macros.decrease => N = 1, NEW c \in (1..N) \ stopped
                 PROVE  \E t \in Threads : InLoop(t)' /\ ctx'[t] = c
      BY <2>1, <2>5 DEF Manned
    <3>1. CASE c \in 1..ctx_num
      <4>1. macros.decrease => ctx_num = 1
        BY <1>b, <2>2
      <4>2. PICK t \in Threads : InLoop(t) /\ ctx[t] = c
        BY <1>b, <1>c, <2>1, <3>1, <4>1 DEF Manned
      <4>3. t \in Created
        BY <2>5, <4>2 DEF InLoop
      <4> QED BY <2>4, <4>2, <4>3 DEF InLoop
    <3>2. CASE c \notin 1..ctx_num
      <4>1. PICK t \in Created' : ctx'[t] = c
        BY <2>4
      <4>2. t \notin Created
        BY <1>b, <2>4, <2>5, <3>2, <4>1
      <4> QED BY <2>4, <4>1, <4>2 DEF InLoop
    <3> QED BY <3>1, <3>2
  <2> QED BY <2>4, <2>6, <2>7, <2>9, <2>10 DEF ThreadInv
<1>10. ASSUME NEW t \in Threads, RunBegin(t) PROVE ThreadInv'
  <2> DEFINE to == IF macros.decrease THEN "check" ELSE "run"
  <2>1. Moves(t, to) /\ lost' = lost
    BY <1>10, <1>a DEF RunBegin, StepVars, Goto, Moves, InLoop
  <2>2. to # "gone" /\ to # "leave"
    OBVIOUS
  <2>3. macros.decrease => real_thread_num' = real_thread_num + Weight(to) - Weight(pc[t])
    BY <1>10, <1>b DEF RunBegin, Weight, CountedPcs
  <2> HIDE DEF to
  <2> QED BY <2>1, <2>2, <2>3, MovesKeep, MovesDepart, MovesManned, MovesReal DEF ThreadInv
<1>11. ASSUME NEW t \in Threads, CheckDel(t) \/ DecDel(t) \/ UndoDel(t) PROVE ThreadInv'
  <2>1. PICK to \in {"dec_del", "run", "dec_real", "undo_del"} :
           Moves(t, to) /\ UNCHANGED <<lost, real_thread_num>> /\ Weight(pc[t]) = 1
    BY <1>11, <1>a DEF CheckDel, DecDel, UndoDel, StepVars, Goto, Moves, InLoop, Weight, CountedPcs
  <2>2. to # "gone" /\ to # "leave" /\ Weight(to) = 1
    BY DEF Weight, CountedPcs
  <2>3. real_thread_num' = real_thread_num + Weight(to) - Weight(pc[t])
    BY <1>b, <2>1, <2>2
  <2> QED BY <2>1, <2>2, <2>3, MovesKeep, MovesDepart, MovesManned, MovesReal DEF ThreadInv
<1>12. ASSUME NEW t \in Threads, DecReal(t) PROVE ThreadInv'
  <2> DEFINE to == IF Enough(real_thread_num') THEN "gone" ELSE "undo_real"
  <2>1. Moves(t, to) /\ lost' = lost /\ pc[t] = "dec_real" /\ real_thread_num' = real_thread_num - 1
    BY <1>12, <1>a DEF DecReal, StepVars, Goto, Moves, InLoop
  <2>2. to \in {"gone", "undo_real"} /\ macros.decrease
    BY <1>a, <2>1 DEF Pcs
  <2>3. real_thread_num' = real_thread_num + Weight(to) - Weight(pc[t])
    BY <1>b, <2>1, <2>2 DEF Weight, CountedPcs
  <2>4. \/ to # "gone" \/ lost' \/ \E u \in Threads : u # t /\ InLoop(u)
    <3> SUFFICES ASSUME to = "gone", ~lost' PROVE \E u \in Threads : u # t /\ InLoop(u)
      OBVIOUS
    <3>1. real_thread_num = Cardinality(CountedThreads) /\ real_thread_num - 1 > 0
      BY <1>c, <2>1, <2>2 DEF RealExact, Enough
    <3>2. t \in CountedThreads
      BY <2>1 DEF CountedThreads, CountedPcs
    <3>3. IsFiniteSet(CountedThreads \ {t}) /\ Cardinality(CountedThreads \ {t}) = Cardinality(CountedThreads) - 1
      BY <1>d, <3>2, FS_RemoveElement
    <3>4. CountedThreads \ {t} # {}
      <4>1. Cardinality(CountedThreads \ {t}) # 0
        BY <1>d, <3>1, <3>3
      <4> QED BY <3>3, <4>1, FS_EmptySet
    <3>5. PICK u \in CountedThreads : u # t
      BY <3>4
    <3> QED BY <3>5 DEF CountedThreads, CountedPcs, InLoop
  <2> HIDE DEF to
  <2>5. to # "leave" /\ (macros.decrease => ~(to = "gone" /\ ~macros.decrease))
    BY <2>2
  <2>6. Departed'
    BY <2>1, <2>2, <2>5, MovesDepart
  <2>7. Manned'
    BY <2>1, <2>2, <2>4, MovesManned
  <2>8. RealExact'
    BY <2>1, <2>3, MovesReal
  <2> QED BY <2>1, <2>6, <2>7, <2>8, MovesKeep DEF ThreadInv
<1>13. ASSUME NEW t \in Threads, UndoReal(t) PROVE ThreadInv'
  <2>1. Moves(t, "run") /\ lost' = lost /\ pc[t] = "undo_real" /\ real_thread_num' = real_thread_num + 1
    BY <1>13, <1>a DEF UndoReal, StepVars, Goto, Moves, InLoop
  <2>2. real_thread_num' = real_thread_num + Weight("run") - Weight(pc[t])
    BY <1>b, <2>1 DEF Weight, CountedPcs
  <2> QED BY <2>1, <2>2, MovesKeep, MovesDepart, MovesManned, MovesReal DEF ThreadInv
<1>14. ASSUME NEW t \in Threads, NEW s \in Services, Handle(t, s) PROVE ThreadInv'
  <2> DEFINE to == IF macros.decrease THEN "check" ELSE "run"
  <2>1. Moves(t, to) /\ pc[t] = "run" /\ UNCHANGED <<lost, real_thread_num>>
    BY <1>14, <1>a DEF Handle, Goto, Moves, InLoop
  <2>2. to # "gone" /\ to # "leave"
    OBVIOUS
  <2>3. real_thread_num' = real_thread_num + Weight(to) - Weight(pc[t])
    BY <1>b, <2>1 DEF Weight, CountedPcs
  <2> HIDE DEF to
  <2> QED BY <2>1, <2>2, <2>3, MovesKeep, MovesDepart, MovesManned, MovesReal DEF ThreadInv
<1>15. ASSUME NEW t \in Threads, NEW s \in Services, NEW c \in BOOLEAN, Throw(t, s, c) PROVE ThreadInv'
  <2> DEFINE to == IF ~c THEN "gone" ELSE IF macros.decrease THEN "leave" ELSE "run"
  <2>1. Moves(t, to) /\ pc[t] = "run" /\ (macros.decrease \/ ~c => lost')
    BY <1>15, <1>a DEF Throw, Goto, Moves, InLoop
  <2>2. to \in {"gone", "leave"} => lost'
    BY <2>1
  <2> HIDE DEF to
  <2>3. Departed'
    BY <2>1, <2>2, MovesDepart
  <2>4. Manned'
    BY <2>1, <2>2, MovesManned
  <2>5. RealExact'
    BY <2>1, MovesReal
  <2> QED BY <2>1, <2>3, <2>4, <2>5, MovesKeep DEF ThreadInv
<1>16. ASSUME NEW t \in Threads, RunReturns(t) PROVE ThreadInv'
  <2> DEFINE to == IF macros.decrease THEN "leave" ELSE "gone"
  <2>1. Moves(t, to) /\ pc[t] = "run" /\ UNCHANGED <<lost, real_thread_num>> /\ ctx[t] \in stopped'
    BY <1>16, <1>a DEF RunReturns, Goto, Moves, InLoop
  <2>2. macros.decrease => real_thread_num' = real_thread_num + Weight(to) - Weight(pc[t])
    BY <1>b, <2>1 DEF Weight, CountedPcs
  <2> HIDE DEF to
  <2> QED BY <2>1, <2>2, MovesKeep, MovesDepart, MovesManned, MovesReal DEF ThreadInv
<1>17. ASSUME NEW t \in Threads, Leave(t) PROVE ThreadInv'
  <2>1. Moves(t, "gone") /\ pc[t] = "leave" /\ real_thread_num' = real_thread_num - 1 /\ lost' = lost /\ stopped' = stopped
    BY <1>17, <1>a DEF Leave, Goto, Moves, InLoop
  <2>2. real_thread_num' = real_thread_num + Weight("gone") - Weight(pc[t])
    BY <1>b, <2>1 DEF Weight, CountedPcs
  <2>3. ~lost => ctx[t] \in stopped
    BY <1>c, <2>1 DEF Departed
  <2> QED BY <2>1, <2>2, <2>3, MovesKeep, MovesDepart, MovesManned, MovesReal DEF ThreadInv
<1> QED
  BY <1>1, <1>2, <1>3, <1>4, <1>5, <1>6, <1>7, <1>8, <1>9, <1>10, <1>11, <1>12, <1>13, <1>14, <1>15, <1>16, <1>17
  DEF Next, App, Runs

LEMMA ThreadInit == Init => ThreadInv
<1> SUFFICES ASSUME Init PROVE ThreadInv
  OBVIOUS
<1>1. Resting /\ \A t \in Threads : pc[t] = "none"
  BY DEF Init, Resting
<1>2. Created = 1..0 /\ 0 \in Nat /\ CountedThreads = {}
  BY <1>1 DEF Created, CountedThreads, CountedPcs
<1>3. RealExact
  BY <1>2, FS_EmptySet DEF Init, RealExact
<1>4. Idle /\ InTurn /\ Housed /\ Departed /\ Manned
  BY <1>1, <1>2 DEF Idle, InTurn, Housed, Departed, Manned
<1> QED BY <1>3, <1>4 DEF ThreadInv

(* While the pump runs, a context with work has a thread, however many       *)
(* threads del_service_thread asks for and however the accesses to its two   *)
(* counters interleave, as long as no exception has ended a thread and a     *)
(* build with ASCS_DECREASE_THREAD_AT_RUNTIME has one context                *)
(* (service_pump.h:412-425).                                                 *)
THEOREM ThreadsNeverAllGone == Spec => []NeverAllGone
<1>1. Init => TypeInv /\ ThreadInv
  BY TypeInit, ThreadInit
<1>2. TypeInv /\ ThreadInv /\ [Next]_vars => TypeInv' /\ ThreadInv'
  BY TypeStep, ThreadStep
<1>3. ThreadInv => NeverAllGone
  BY DEF ThreadInv, Manned, NeverAllGone, Resting
<1> QED BY <1>1, <1>2, <1>3, PTL DEF Spec

-----------------------------------------------------------------------------
(* Stopping.                                                                 *)

(* With ASCS_AVOID_AUTO_STOP_SERVICE every context is guarded from before    *)
(* its start to end_service, so none stops by itself.                        *)
Guarded == macros.guard /\ ((first /\ pump = "stopped") \/ pump \in {"starting", "running", "waiting"}) =>
               guarded = Used
Unstopped == macros.guard /\ ~halted /\ pump \in {"starting", "running", "waiting"} => stopped = {}
(* What is outstanding is so on a context that runs on.                      *)
Quiet == macros.guard /\ ~halted => \A s \in Services : op[s] # "none" => home[s] \notin stopped

StopInv == Guarded /\ Unstopped /\ Quiet /\ SafelyFreed

LEMMA StopKept ==
  ASSUME StopInv, UNCHANGED <<macros, pump, first, ctx_num, guarded, stopped, halted, lost, home>>,
         \A s \in Services : op'[s] # "none" => op[s] # "none"
  PROVE  StopInv'
BY DEF StopInv, Guarded, Unstopped, Quiet, SafelyFreed, Used

(* An operation that ends outside of a call to stop().                       *)
LEMMA StopHandled ==
  ASSUME TypeInv, StopInv, ~Resting, UNCHANGED <<macros, pump, first, ctx_num, guarded, halted, home>>,
         NEW s \in Services, home[s] \notin stopped, NEW next, op' = [op EXCEPT ![s] = next],
         stopped' = stopped \cup Finished(guarded, op')
  PROVE  StopInv'
<1>1. Guarded'
  BY DEF StopInv, Guarded, Used
<1>2. Unstopped'
  <2>1. Finished(guarded, op') \subseteq Used
    BY FinishedUsed DEF TypeInv
  <2>2. Finished(guarded, op') \cap guarded = {}
    BY DEF Finished, Working
  <2> QED BY <2>1, <2>2 DEF StopInv, Guarded, Unstopped
<1>3. Quiet'
  <2> SUFFICES ASSUME macros.guard, ~halted, NEW z \in Services, op'[z] # "none"
               PROVE  home[z] \notin stopped'
    BY DEF Quiet
  <2>1. home[z] \in Working(guarded, op')
    BY DEF Working
  <2>2. home[z] \notin stopped
    <3>1. CASE z = s
      BY <3>1
    <3>2. CASE z # s
      BY <3>2 DEF StopInv, Quiet, TypeInv, TypeOK
    <3> QED BY <3>1, <3>2
  <2> QED BY <2>1, <2>2 DEF Finished
<1>4. SafelyFreed'
  BY DEF SafelyFreed, Resting
<1> QED BY <1>1, <1>2, <1>3, <1>4 DEF StopInv

LEMMA StopStep == TypeInv /\ ThreadInv /\ StopInv /\ [Next]_vars => StopInv'
<1> SUFFICES ASSUME TypeInv, ThreadInv, StopInv, [Next]_vars PROVE StopInv'
  OBVIOUS
<1> USE DEF NotCounted, Counted, ctxVars, refVars, threadVars, svcVars
<1>a. macros' = macros
  BY MacrosStay
<1>b. Guarded /\ Unstopped /\ Quiet /\ SafelyFreed /\ Assigned
  BY DEF StopInv, TypeInv
<1>c. home \in [Services -> {0} \cup Used] /\ Used = 1..ctx_num /\ ctx_num \in Nat
      /\ op \in [Services -> {"none", "pending", "ready"}] /\ ctx \in [Threads -> Used]
  BY DEF TypeInv, TypeOK, Used, Contexts
<1>d. \A t \in Threads : InLoop(t) => ~Resting
  BY DEF ThreadInv, Idle, InLoop
<1>1. ASSUME NEW s \in Services, Construct(s) PROVE StopInv'
  <2>1. UNCHANGED <<macros, pump, first, ctx_num, guarded, stopped, halted, lost, op>> /\ home[s] = 0
        /\ \A z \in Services : z # s => home'[z] = home[z]
    BY <1>1, <1>a, <1>c DEF Construct
  <2>2. Guarded' /\ Unstopped' /\ SafelyFreed'
    BY <1>b, <2>1 DEF Guarded, Unstopped, SafelyFreed, Used
  <2>3. Quiet'
    BY <1>b, <2>1 DEF Quiet, Assigned
  <2> QED BY <2>2, <2>3 DEF StopInv
<1>2. ASSUME NEW s \in Services, AddRefs(s) \/ (\E n \in 1..2 : SubRefs(s, n)) \/ Event(s) PROVE StopInv'
  <2>1. UNCHANGED <<macros, pump, first, ctx_num, guarded, stopped, halted, lost, home>>
        /\ \A z \in Services : op'[z] # "none" => op[z] # "none"
    BY <1>2, <1>a, <1>c DEF AddRefs, SubRefs, Event
  <2> QED BY <2>1, StopKept
<1>3. ASSUME NEW n \in 1..2, del_service_thread(n) PROVE StopInv'
  <2>1. UNCHANGED <<macros, pump, first, ctx_num, guarded, stopped, halted, lost, home, op>>
    BY <1>3, <1>a DEF del_service_thread
  <2> QED BY <2>1, StopKept
<1>4. ASSUME NEW t \in Threads,
             RunBegin(t) \/ CheckDel(t) \/ DecDel(t) \/ UndoDel(t) \/ DecReal(t) \/ UndoReal(t) \/ Leave(t)
      PROVE  StopInv'
  <2>1. UNCHANGED <<macros, pump, first, ctx_num, guarded, stopped, halted, lost, home, op>>
    BY <1>4, <1>a DEF RunBegin, CheckDel, DecDel, UndoDel, DecReal, UndoReal, Leave, StepVars
  <2> QED BY <2>1, StopKept
<1>5. ASSUME NEW n \in 1..2, set_io_context_num(n) PROVE StopInv'
  <2>1. /\ UNCHANGED <<macros, pump, first, stopped, halted, lost, home, op>> /\ pump = "stopped" /\ ~macros.decrease
        /\ ctx_num' = ctx_num + (n - 1)
        /\ guarded' = IF macros.guard THEN guarded \cup (ctx_num + 1)..(ctx_num + (n - 1)) ELSE guarded
    BY <1>5, <1>a DEF set_io_context_num, NewContexts
  <2>2. Guarded'
    <3> SUFFICES ASSUME macros.guard, first PROVE guarded' = 1..(ctx_num + (n - 1))
      BY <2>1 DEF Guarded, Used
    <3>1. guarded = 1..ctx_num
      BY <1>b, <1>c, <2>1 DEF Guarded
    <3>2. guarded' = (1..ctx_num) \cup (ctx_num + 1)..(ctx_num + (n - 1))
      BY <2>1, <3>1
    <3> QED BY <1>c, <3>2
  <2>3. Unstopped' /\ Quiet' /\ SafelyFreed'
    BY <1>b, <2>1 DEF Unstopped, Quiet, SafelyFreed
  <2> QED BY <2>2, <2>3 DEF StopInv
<1>6. ASSUME NEW k \in Threads, NEW n \in 0..1, add_service_thread(k, n) PROVE StopInv'
  <2>1. /\ UNCHANGED <<macros, pump, first, stopped, halted, lost, home, op>> /\ pump = "running"
        /\ ctx_num' = ctx_num + n
        /\ guarded' = IF macros.guard THEN guarded \cup (ctx_num + 1)..(ctx_num + n) ELSE guarded
    BY <1>6, <1>a DEF add_service_thread, NewContexts
  <2>2. Guarded'
    <3> SUFFICES ASSUME macros.guard PROVE guarded' = 1..(ctx_num + n)
      BY <2>1 DEF Guarded, Used
    <3>1. guarded = 1..ctx_num
      BY <1>b, <1>c, <2>1 DEF Guarded
    <3>2. guarded' = (1..ctx_num) \cup (ctx_num + 1)..(ctx_num + n)
      BY <2>1, <3>1
    <3> QED BY <1>c, <3>2
  <2>3. Unstopped' /\ Quiet' /\ SafelyFreed'
    BY <1>b, <2>1 DEF Unstopped, Quiet, SafelyFreed
  <2> QED BY <2>2, <2>3 DEF StopInv
<1>7. ASSUME NEW t \in Threads, NEW s \in Services, Handle(t, s) PROVE StopInv'
  <2>1. /\ UNCHANGED <<macros, pump, first, ctx_num, guarded, halted, home>> /\ InLoop(t)
        /\ home[s] \notin stopped /\ stopped' = stopped \cup Finished(guarded, op')
    BY <1>7, <1>a DEF Handle, InLoop
  <2>2. PICK next : op' = [op EXCEPT ![s] = next]
    BY <1>7 DEF Handle
  <2> QED BY <1>d, <2>1, <2>2, StopHandled
<1>8. ASSUME NEW t \in Threads, NEW s \in Services, NEW c \in BOOLEAN, Throw(t, s, c) PROVE StopInv'
  <2>1. /\ UNCHANGED <<macros, pump, first, ctx_num, guarded, halted, home>> /\ InLoop(t)
        /\ home[s] \notin stopped /\ stopped' = stopped \cup Finished(guarded, op')
    BY <1>8, <1>a DEF Throw, InLoop
  <2>2. PICK next : op' = [op EXCEPT ![s] = next]
    BY <1>8 DEF Throw
  <2> QED BY <1>d, <2>1, <2>2, StopHandled
<1>9. ASSUME NEW t \in Threads, RunReturns(t) PROVE StopInv'
  <2>1. UNCHANGED <<macros, pump, first, ctx_num, guarded, halted, lost, home, op>> /\ ~Resting
    BY <1>9, <1>a, <1>d DEF RunReturns, InLoop
  <2>2. /\ ctx[t] \in stopped \/ ~Outstanding(ctx[t])
        /\ stopped' = stopped \cup {ctx[t]}
    BY <1>9 DEF RunReturns
  <2>3. Guarded' /\ SafelyFreed'
    BY <1>b, <2>1 DEF Guarded, SafelyFreed, Used, Resting
  <2>4. Unstopped'
    BY <1>b, <1>c, <2>1, <2>2 DEF Unstopped, Guarded, Outstanding, Working
  <2>5. Quiet'
    BY <1>b, <2>1, <2>2 DEF Quiet, Outstanding, Working
  <2> QED BY <2>3, <2>4, <2>5 DEF StopInv
<1>10. ASSUME NEW s \in Services, StartOne(s) PROVE StopInv'
  <2>1. UNCHANGED <<macros, pump, first, ctx_num, guarded, stopped, halted, lost, home>> /\ pump = "running"
    BY <1>10, <1>a DEF StartOne
  <2> QED BY <1>b, <2>1 DEF StopInv, Guarded, Unstopped, Quiet, SafelyFreed, Used
<1>11. ASSUME NEW ss, StopOne(ss) \/ Remove(ss) PROVE StopInv'
  <2>1. UNCHANGED <<macros, pump, first, ctx_num, guarded, stopped, halted, lost, home>>
    BY <1>11, <1>a DEF StopOne, Remove
  <2>2. \A z \in Services : op'[z] = "none" <=> op[z] = "none"
    BY <1>11, StoppedTypes DEF StopOne, Remove
  <2> QED BY <2>1, <2>2, StopKept
<1>12. CASE DoService
  <2>1. pump = "stopped" /\ pump' = "starting" /\ stopped' = {} /\ UNCHANGED <<macros, first, ctx_num>>
        /\ guarded' = IF macros.guard /\ ~first THEN Used ELSE guarded
    BY <1>12, <1>a DEF DoService, Restart
  <2> QED BY <1>b, <2>1 DEF StopInv, Guarded, Unstopped, Quiet, SafelyFreed, Used
<1>13. ASSUME NEW k \in Threads, DoServiceThreads(k) PROVE StopInv'
  <2>1. pump = "starting" /\ pump' = "running" /\ UNCHANGED <<macros, first, ctx_num, guarded, stopped, halted, home>>
    BY <1>13, <1>a DEF DoServiceThreads
  <2> QED BY <1>b, <2>1 DEF StopInv, Guarded, Unstopped, Quiet, SafelyFreed, Used
<1>14. CASE EndService
  <2>1. pump \in {"running", "waiting"} /\ pump' \in {"ending", "join"} /\ UNCHANGED <<macros, halted, home>>
        /\ stopped' = stopped \cup Finished(GuardsReset, op')
    BY <1>14, <1>a DEF EndService
  <2>2. Quiet'
    <3> SUFFICES ASSUME macros.guard, ~halted, NEW z \in Services, op'[z] # "none"
                 PROVE  home[z] \notin stopped'
      BY <2>1 DEF Quiet
    <3>1. home[z] \in Working(GuardsReset, op')
      BY DEF Working
    <3>2. stopped = {}
      BY <1>b, <2>1 DEF Unstopped
    <3> QED BY <2>1, <3>1, <3>2 DEF Finished
  <2> QED BY <2>1, <2>2 DEF StopInv, Guarded, Unstopped, SafelyFreed
<1>15. CASE Stop
  <2>1. pump' = pump /\ pump = "running" /\ halted' = TRUE /\ UNCHANGED <<macros, first, ctx_num, guarded>>
    BY <1>15, <1>a DEF Stop
  <2> QED BY <1>b, <2>1 DEF StopInv, Guarded, Unstopped, Quiet, SafelyFreed, Used
<1>16. CASE RunServiceWaits
  <2>1. /\ UNCHANGED <<macros, first, ctx_num, guarded, stopped, halted, home, op>>
        /\ (pump = "running" /\ pump' = "waiting") \/ (pump = "ending" /\ pump' = "join")
    BY <1>16, <1>a DEF RunServiceWaits
  <2> QED BY <1>b, <2>1 DEF StopInv, Guarded, Unstopped, Quiet, SafelyFreed, Used
<1>17. CASE WaitService
  <2>1. /\ UNCHANGED <<macros, ctx_num, guarded, stopped, halted, lost, home, op>>
        /\ pump \in {"waiting", "join"} /\ pump' = "stopped" /\ first' = FALSE
        /\ \A t \in Threads : ~InLoop(t)
    BY <1>17, <1>a DEF WaitService, InLoop
  <2>2. Guarded' /\ Unstopped' /\ Quiet'
    BY <1>b, <2>1 DEF Guarded, Unstopped, Quiet
  <2>3. SafelyFreed'
    <3> SUFFICES ASSUME macros.guard, ~halted, ~lost, macros.decrease => ctx_num = 1, NEW s \in Services
                 PROVE  op[s] = "none"
      BY <2>1 DEF SafelyFreed
    <3>1. Used \subseteq stopped
      BY <2>1 DEF ThreadInv, Manned, Resting
    <3> QED BY <1>b, <1>c, <3>1 DEF Quiet, Assigned
  <2> QED BY <2>2, <2>3 DEF StopInv
<1>18. CASE UNCHANGED vars
  <2>1. UNCHANGED <<macros, pump, first, ctx_num, guarded, stopped, halted, lost, home, op>>
    BY <1>18 DEF vars
  <2> QED BY <2>1, StopKept
<1> QED
  BY <1>1, <1>2, <1>3, <1>4, <1>5, <1>6, <1>7, <1>8, <1>9, <1>10, <1>11, <1>12, <1>13, <1>14, <1>15, <1>16, <1>17,
     <1>18
  DEF Next, App, Runs

LEMMA StopInit == Init => StopInv
<1> SUFFICES ASSUME Init PROVE StopInv
  OBVIOUS
<1>1. Guarded
  BY DEF Init, Guarded, Used
<1>2. Unstopped /\ Quiet /\ SafelyFreed
  BY DEF Init, Unstopped, Quiet, SafelyFreed
<1> QED BY <1>1, <1>2 DEF StopInv

(* After stop_service() every operation of every service has been completed  *)
(* and its handler run, so the services may be freed, with                   *)
(* ASCS_AVOID_AUTO_STOP_SERVICE, without stop() and without threads ended by *)
(* exceptions (service_pump.h:253-284).                                      *)
THEOREM FreedAfterStop == Spec => []SafelyFreed
<1>1. Init => TypeInv /\ ThreadInv /\ StopInv
  BY TypeInit, ThreadInit, StopInit
<1>2. TypeInv /\ ThreadInv /\ StopInv /\ [Next]_vars => TypeInv' /\ ThreadInv' /\ StopInv'
  BY TypeStep, ThreadStep, StopStep
<1>3. StopInv => SafelyFreed
  BY DEF StopInv
<1> QED BY <1>1, <1>2, <1>3, PTL DEF Spec

-----------------------------------------------------------------------------
(* References.                                                               *)

(* As long as there is one context no service has counted, unless late says  *)
(* so, and then the references of a context are the pairs of its services.   *)
RefsInv == ~late => /\ \A c \in Contexts : refs[c] = Cardinality(Held(c))
                    /\ single_ctx => \A s \in Services : home[s] = 0

HomeOf(c) == {z \in Services : home[z] = c}

LEMMA HeldCounts ==
  ASSUME TypeInv, NEW c
  PROVE  /\ IsFiniteSet(HomeOf(c)) /\ Held(c) = Pairs(HomeOf(c), uses)
         /\ \A s \in HomeOf(c) : uses[s] \in Nat
<1>1. HomeOf(c) \in SUBSET Services
  BY DEF HomeOf
<1>2. IsFiniteSet(HomeOf(c))
  BY <1>1, PumpAssumption, FS_Subset
<1> QED BY <1>1, <1>2 DEF HomeOf, Held, Pairs, TypeInv, TypeOK

LEMMA HeldSame ==
  ASSUME NEW c, HomeOf(c)' = HomeOf(c), \A s \in HomeOf(c) : uses'[s] = uses[s]
  PROVE  Held(c)' = Held(c)
BY DEF HomeOf, Held

LEMMA RefsKept ==
  ASSUME RefsInv, UNCHANGED <<refs, uses, home, late>>, single_ctx' => single_ctx
  PROVE  RefsInv'
BY DEF RefsInv, Held

(* One service takes or returns references of its context.                   *)
LEMMA RefsMoved ==
  ASSUME TypeInv, TypeInv', RefsInv, NEW s \in Services, home[s] # 0, NEW n \in Nat, NEW d \in Int, d = n - uses[s],
         uses' = [uses EXCEPT ![s] = n], Assign(home[s], d), UNCHANGED <<home, late, single_ctx>>
  PROVE  RefsInv'
<1> SUFFICES ASSUME ~late PROVE RefsInv'
  BY DEF RefsInv
<1>1. ~single_ctx
  BY DEF RefsInv
<1>2. refs' = [refs EXCEPT ![home[s]] = @ + d]
  BY <1>1 DEF Assign
<1>3. refs \in [Contexts -> Int] /\ home[s] \in Contexts /\ uses \in [Services -> Nat]
  <2>1. /\ refs \in [Contexts -> Int] /\ uses \in [Services -> Nat] /\ home[s] \in {0} \cup Used
        /\ ctx_num \in 1..MaxCtx
    <3>1. TypeOK
      BY DEF TypeInv
    <3>2. refs \in [Contexts -> Int] /\ uses \in [Services -> Nat] /\ ctx_num \in Contexts
      BY <3>1 DEF TypeOK
    <3>3. home \in [Services -> {0} \cup Used]
      BY <3>1 DEF TypeOK
    <3> QED BY <3>2, <3>3 DEF Contexts
  <2>2. Used \subseteq Contexts
    <3>1. MaxCtx \in Nat /\ ctx_num \in 1..MaxCtx
      BY <2>1, PumpAssumption
    <3> QED BY ONLY <3>1 DEF Used, Contexts
  <2> QED BY <2>1, <2>2
<1>4. ASSUME NEW c \in Contexts PROVE refs'[c] = Cardinality(Held(c)')
  <2>1. HomeOf(c)' = HomeOf(c)
    BY DEF HomeOf
  <2>2. refs[c] = Cardinality(Held(c))
    BY DEF RefsInv
  <2>3. CASE c # home[s]
    <3>1. Held(c)' = Held(c)
      BY <1>3, <2>1, <2>3, HeldSame DEF HomeOf
    <3>2. refs'[c] = refs[c]
      BY <1>2, <1>3, <2>3
    <3> QED BY <2>2, <3>1, <3>2
  <2>4. CASE c = home[s]
    <3> DEFINE S == HomeOf(c)
    <3>1. s \in S /\ IsFiniteSet(S) /\ \A z \in S : uses[z] \in Nat /\ uses'[z] \in Nat
      BY <1>3, <2>4, HeldCounts DEF HomeOf
    <3>2. \A z \in S \ {s} : uses[z] = uses'[z]
      BY <1>3 DEF HomeOf
    <3>3. Held(c) = Pairs(S, uses) /\ Held(c)' = Pairs(S, uses')
      BY <2>1, HeldCounts DEF Held, Pairs, HomeOf
    <3>4. Cardinality(Pairs(S, uses')) = Cardinality(Pairs(S, uses)) + uses'[s] - uses[s]
      <4>1. PICK u, v : u = uses /\ v = uses'
        OBVIOUS
      <4>2. s \in S /\ IsFiniteSet(S) /\ (\A z \in S : u[z] \in Nat /\ v[z] \in Nat) /\ \A z \in S \ {s} : u[z] = v[z]
        BY <3>1, <3>2, <4>1
      <4>3. Cardinality(Pairs(S, v)) = Cardinality(Pairs(S, u)) + v[s] - u[s]
        <5> HIDE DEF S
        <5> QED BY <4>2, PairsChange
      <4> QED BY <4>1, <4>3
    <3>5. uses'[s] = n /\ refs'[c] = refs[c] + d /\ uses[s] \in Nat
      BY <1>2, <1>3, <2>4
    <3>6. refs[c] = Cardinality(Pairs(S, uses)) /\ refs[c] \in Int
      BY <1>3, <2>2, <3>3
    <3>7. refs'[c] = Cardinality(Pairs(S, uses'))
      BY <3>4, <3>5, <3>6
    <3> QED BY <3>3, <3>7
  <2> QED BY <2>3, <2>4
<1> QED BY <1>1, <1>4 DEF RefsInv

(* Services start: those that held nothing take one reference again.         *)
LEMMA RefsStarted ==
  ASSUME TypeInv, RefsInv, NEW ss \in SUBSET listed, StartedNow(ss), UNCHANGED <<home, late, single_ctx>>
  PROVE  RefsInv'
<1> SUFFICES ASSUME ~late PROVE RefsInv'
  BY DEF RefsInv
<1> DEFINE now == {s \in ss : ~started[s]}
           N(c) == {s \in now : uses[s] = 0 /\ home[s] = c}
<1>1. /\ uses' = [s \in Services |-> IF s \in now /\ uses[s] = 0 THEN 1 ELSE uses[s]]
      /\ refs' = IF single_ctx THEN refs ELSE [c \in Contexts |-> refs[c] + Cardinality(N(c))]
  BY DEF StartedNow
<1>2. ss \subseteq Services /\ (\A s \in ss : home[s] # 0) /\ uses \in [Services -> Nat] /\ refs \in [Contexts -> Int]
  BY DEF TypeInv, TypeOK
<1>3. ASSUME NEW c \in Contexts PROVE refs'[c] = Cardinality(Held(c)')
  <2>1. HomeOf(c)' = HomeOf(c) /\ refs[c] = Cardinality(Held(c))
    BY DEF HomeOf, RefsInv
  <2>2. CASE single_ctx
    <3>1. now = {}
      BY <1>2, <2>2 DEF RefsInv
    <3>2. \A s \in Services : uses'[s] = uses[s]
      BY <1>1, <3>1
    <3>3. Held(c)' = Held(c)
      BY <2>1, <3>2, HeldSame DEF HomeOf
    <3> QED BY <1>1, <2>1, <2>2, <3>3
  <2>3. CASE ~single_ctx
    <3> DEFINE S == HomeOf(c)
    <3>1. IsFiniteSet(S) /\ \A z \in S : uses[z] \in Nat
      BY HeldCounts
    <3>2. N(c) \subseteq S
      BY <1>2 DEF HomeOf
    <3>3. (\A z \in N(c) : uses[z] = 0 /\ uses'[z] = 1) /\ \A z \in S \ N(c) : uses'[z] = uses[z]
      BY <1>1, <1>2 DEF HomeOf
    <3>4. Held(c) = Pairs(S, uses) /\ Held(c)' = Pairs(S, uses')
      BY <2>1, HeldCounts DEF Held, Pairs, HomeOf
    <3>5. Cardinality(Pairs(S, uses')) = Cardinality(Pairs(S, uses)) + Cardinality(N(c))
      <4>1. PICK u, v : u = uses /\ v = uses'
        OBVIOUS
      <4>2. /\ IsFiniteSet(S) /\ (\A z \in S : u[z] \in Nat) /\ N(c) \subseteq S
            /\ (\A z \in N(c) : u[z] = 0 /\ v[z] = 1) /\ \A z \in S \ N(c) : v[z] = u[z]
        <5> HIDE DEF S, N
        <5> QED BY <3>1, <3>2, <3>3, <4>1
      <4>3. Cardinality(Pairs(S, v)) = Cardinality(Pairs(S, u)) + Cardinality(N(c))
        <5> HIDE DEF S, N
        <5> QED BY <4>2, PairsTake
      <4> QED BY <4>1, <4>3
    <3>6. refs'[c] = refs[c] + Cardinality(N(c))
      BY <1>1, <2>3
    <3> HIDE DEF N, S
    <3> QED BY <2>1, <3>4, <3>5, <3>6
  <2> QED BY <2>2, <2>3
<1> QED BY <1>3 DEF RefsInv

LEMMA RefsConstructed ==
  ASSUME TypeInv, TypeInv', RefsInv, NEW s \in Services, Construct(s)
  PROVE  RefsInv'
<1> SUFFICES ASSUME ~late' PROVE RefsInv'
  BY DEF RefsInv
<1>1. ~late /\ ~single_ctx /\ single_ctx' = single_ctx /\ home[s] = 0
  BY DEF Construct, ctxVars
<1>2. PICK b : home' = [home EXCEPT ![s] = b] /\ Assign(b, 1)
  BY DEF Construct
<1>3. refs' = [refs EXCEPT ![b] = @ + 1] /\ uses' = [uses EXCEPT ![s] = 1]
  BY <1>1, <1>2 DEF Construct, Assign
<1>4. /\ refs \in [Contexts -> Int] /\ uses \in [Services -> Nat] /\ uses' \in [Services -> Nat]
      /\ home \in [Services -> {0} \cup Used] /\ 0 \notin Contexts
  BY DEF TypeInv, TypeOK, Contexts
<1>5. ASSUME NEW c \in Contexts PROVE refs'[c] = Cardinality(Held(c)')
  <2>1. refs[c] = Cardinality(Held(c))
    BY <1>1 DEF RefsInv
  <2>2. CASE c # b
    <3>1. HomeOf(c)' = HomeOf(c) /\ s \notin HomeOf(c)
      BY <1>1, <1>2, <1>4, <2>2 DEF HomeOf
    <3>2. Held(c)' = Held(c)
      BY <1>3, <1>4, <3>1, HeldSame DEF HomeOf
    <3>3. refs'[c] = refs[c]
      BY <1>3, <1>4, <2>2
    <3> QED BY <2>1, <3>2, <3>3
  <2>3. CASE c = b
    <3> DEFINE S == HomeOf(c)
    <3>1. HomeOf(c)' = S \cup {s} /\ s \notin S
      BY <1>1, <1>2, <1>4, <2>3 DEF HomeOf
    <3>2. IsFiniteSet(S) /\ \A z \in S : uses[z] \in Nat
      BY HeldCounts
    <3>3. (\A z \in S : uses'[z] = uses[z]) /\ uses'[s] = 1
      BY <1>3, <1>4, <3>1 DEF HomeOf
    <3>4. Held(c) = Pairs(S, uses) /\ Held(c)' = Pairs(S \cup {s}, uses')
      BY <3>1, HeldCounts DEF Held, Pairs, HomeOf
    <3>5. Cardinality(Pairs(S \cup {s}, uses')) = Cardinality(Pairs(S, uses)) + 1
      <4>1. PICK u, v : u = uses /\ v = uses'
        OBVIOUS
      <4>2. IsFiniteSet(S) /\ s \notin S /\ (\A z \in S \cup {s} : v[z] \in Nat) /\ (\A z \in S : u[z] = v[z]) /\ v[s] = 1
        <5> HIDE DEF S
        <5> QED BY <3>1, <3>2, <3>3, <4>1
      <4>3. Cardinality(Pairs(S \cup {s}, v)) = Cardinality(Pairs(S, v)) + v[s]
        <5> HIDE DEF S
        <5> QED BY <4>2, PairsAdd
      <4>4. Pairs(S, u) = Pairs(S, v)
        <5> HIDE DEF S
        <5> QED BY <4>2, PairsSame
      <4> HIDE DEF S
      <4> QED BY <4>1, <4>2, <4>3, <4>4
    <3>6. refs'[c] = refs[c] + 1
      BY <1>3, <1>4, <2>3
    <3> HIDE DEF S
    <3> QED BY <2>1, <3>4, <3>5, <3>6
  <2> QED BY <2>2, <2>3
<1> QED BY <1>1, <1>5 DEF RefsInv

LEMMA RefsStep == TypeInv /\ RefsInv /\ [Next]_vars => RefsInv'
<1> SUFFICES ASSUME TypeInv, RefsInv, [Next]_vars PROVE RefsInv'
  OBVIOUS
<1>0. TypeInv'
  BY TypeStep
<1> USE DEF NotCounted, Counted, ctxVars, refVars, threadVars, svcVars
<1>1. ASSUME NEW s \in Services, Construct(s) PROVE RefsInv'
  BY <1>0, <1>1, RefsConstructed
<1>2. ASSUME NEW s \in Services, AddRefs(s) PROVE RefsInv'
  <2>1. /\ home[s] # 0 /\ uses' = [uses EXCEPT ![s] = uses[s] + 1] /\ Assign(home[s], 1)
        /\ UNCHANGED <<home, late, single_ctx>>
    BY <1>2 DEF AddRefs
  <2>2. uses[s] \in Nat
    BY DEF TypeInv, TypeOK
  <2>3. uses[s] + 1 \in Nat /\ 1 \in Int /\ 1 = (uses[s] + 1) - uses[s]
    BY <2>2
  <2> QED BY <1>0, <2>1, <2>3, RefsMoved
<1>3. ASSUME NEW s \in Services, NEW n \in 1..2, SubRefs(s, n) PROVE RefsInv'
  <2>1. /\ home[s] # 0 /\ uses' = [uses EXCEPT ![s] = uses[s] - n] /\ Assign(home[s], -n)
        /\ uses[s] >= n /\ UNCHANGED <<home, late, single_ctx>>
    BY <1>3 DEF SubRefs
  <2>2. uses[s] \in Nat
    BY DEF TypeInv, TypeOK
  <2>3. uses[s] - n \in Nat /\ -n \in Int /\ -n = (uses[s] - n) - uses[s]
    BY <2>1, <2>2
  <2> QED BY <1>0, <2>1, <2>3, RefsMoved
<1>4. ASSUME NEW t \in Threads, NEW s \in Services, Handle(t, s) PROVE RefsInv'
  <2>1. UNCHANGED <<home, late, single_ctx>> /\ home[s] = ctx[t]
    BY <1>4 DEF Handle
  <2>2. CASE started[s]
    <3>1. UNCHANGED <<refs, uses>>
      BY <1>4, <2>2 DEF Handle
    <3> QED BY <2>1, <3>1, RefsKept
  <2>3. CASE ~started[s]
    <3>1. uses' = [uses EXCEPT ![s] = 0] /\ Assign(home[s], -uses[s])
      BY <1>4, <2>3 DEF Handle
    <3>2. uses[s] \in Nat /\ home[s] # 0
      BY <2>1 DEF TypeInv, TypeOK, Used
    <3>3. -uses[s] \in Int /\ -uses[s] = 0 - uses[s] /\ 0 \in Nat
      BY <3>2
    <3> QED BY <1>0, <2>1, <3>1, <3>2, <3>3, RefsMoved
  <2> QED BY <2>2, <2>3
<1>5. ASSUME NEW s \in Services, StartOne(s) PROVE RefsInv'
  <2>1. {s} \in SUBSET listed /\ StartedNow({s}) /\ UNCHANGED <<home, late, single_ctx>>
    BY <1>5 DEF StartOne
  <2> QED BY <2>1, RefsStarted
<1>6. ASSUME NEW k \in Threads, DoServiceThreads(k) PROVE RefsInv'
  <2>1. StartedNow(listed) /\ UNCHANGED <<home, late, single_ctx>>
    BY <1>6 DEF DoServiceThreads
  <2> QED BY <2>1, RefsStarted
<1>7. ASSUME NEW n \in 1..2, set_io_context_num(n) PROVE RefsInv'
  BY <1>7, RefsKept DEF set_io_context_num
<1>8. ASSUME NEW k \in Threads, NEW n \in 0..1, add_service_thread(k, n) PROVE RefsInv'
  BY <1>8, RefsKept DEF add_service_thread
<1>9. ASSUME NEW n \in 1..2, del_service_thread(n) PROVE RefsInv'
  BY <1>9, RefsKept DEF del_service_thread
<1>10. ASSUME NEW t \in Threads,
              \/ RunBegin(t) \/ CheckDel(t) \/ DecDel(t) \/ UndoDel(t) \/ DecReal(t) \/ UndoReal(t)
              \/ RunReturns(t) \/ Leave(t) \/ \E s \in Services, c \in BOOLEAN : Throw(t, s, c)
       PROVE  RefsInv'
  <2>1. UNCHANGED <<refs, uses, home, late, single_ctx>>
    BY <1>10 DEF RunBegin, CheckDel, DecDel, UndoDel, DecReal, UndoReal, RunReturns, Leave, Throw, StepVars
  <2> QED BY <2>1, RefsKept
<1>11. ASSUME NEW ss, Event(ss) \/ StopOne(ss) \/ Remove(ss) PROVE RefsInv'
  <2>1. UNCHANGED <<refs, uses, home, late, single_ctx>>
    BY <1>11 DEF Event, StopOne, Remove
  <2> QED BY <2>1, RefsKept
<1>12. CASE DoService \/ EndService \/ Stop \/ RunServiceWaits \/ WaitService
  <2>1. UNCHANGED <<refs, uses, home, late, single_ctx>>
    BY <1>12 DEF DoService, EndService, Stop, RunServiceWaits, WaitService
  <2> QED BY <2>1, RefsKept
<1>13. CASE UNCHANGED vars
  BY <1>13, RefsKept DEF vars
<1> QED
  BY <1>1, <1>2, <1>3, <1>4, <1>5, <1>6, <1>7, <1>8, <1>9, <1>10, <1>11, <1>12, <1>13 DEF Next, App, Runs

LEMMA RefsInit == Init => RefsInv
<1> SUFFICES ASSUME Init PROVE RefsInv
  OBVIOUS
<1>1. ASSUME NEW c \in Contexts PROVE refs[c] = Cardinality(Held(c))
  <2>1. Held(c) = {}
    BY DEF Init, Held, Contexts
  <2> QED BY <2>1, FS_EmptySet DEF Init
<1> QED BY <1>1 DEF Init, RefsInv

(* Whatever the order in which services take references, give some or all    *)
(* back and start again, and whichever contexts come later, a context counts *)
(* what its services hold (service_pump.h:147-187, timer.h:69-86).           *)
THEOREM ReferencesExact == Spec => []RefsExact
<1>1. Init => TypeInv /\ RefsInv
  BY TypeInit, RefsInit
<1>2. TypeInv /\ RefsInv /\ [Next]_vars => TypeInv' /\ RefsInv'
  BY TypeStep, RefsStep
<1>3. RefsInv => RefsExact
  BY DEF RefsInv, RefsExact
<1> QED BY <1>1, <1>2, <1>3, PTL DEF Spec
=============================================================================
