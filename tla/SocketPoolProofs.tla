-------------------------- MODULE SocketPoolProofs --------------------------
(***************************************************************************)
(* Theorems about SocketPool, for every number of objects, ids and calls,  *)
(* every size of the pool and of the accept loop, and every policy for     *)
(* objects.                                                                *)
(***************************************************************************)
EXTENDS SocketPool, FiniteSetTheorems, TLAPS

-----------------------------------------------------------------------------
(* Lists.                                                                    *)

(* Only keeps what it is to keep: the place of an element among those that   *)
(* stay is a bijection.                                                      *)
LEMMA OnlyKeeps ==
  ASSUME NEW T, NEW s \in Seq(T), NEW S
  PROVE  /\ Only(s, S) \in Seq(T)
         /\ \A o : Contains(Only(s, S), o) <=> Contains(s, o) /\ o \in S
         /\ IsInjective(s) => IsInjective(Only(s, S))
<1> DEFINE at == {k \in DOMAIN s : s[k] \in S}
           upto(k) == {j \in at : j <= k}
           place == [k \in at |-> Cardinality(upto(k))]
           N == Cardinality(at)
           from(n) == CHOOSE k \in at : place[k] = n
<1>1. at \subseteq 1..Len(s) /\ Len(s) \in Nat
  OBVIOUS
<1>2. IsFiniteSet(at) /\ N \in Nat
  <2>1. IsFiniteSet(1..Len(s))
    BY <1>1, FS_Interval
  <2> HIDE DEF at
  <2> QED BY <1>1, <2>1, FS_Subset, FS_CardinalityType
<1>3. ASSUME NEW k \in at
      PROVE  IsFiniteSet(upto(k)) /\ place[k] = Cardinality(upto(k)) /\ place[k] \in 1..N
  <2>1. upto(k) \in SUBSET at /\ k \in upto(k)
    BY <1>1, <1>3
  <2>2. IsFiniteSet(upto(k)) /\ Cardinality(upto(k)) <= N
    <3> HIDE DEF at, upto
    <3> QED BY <1>2, <2>1, FS_Subset
  <2>3. Cardinality(upto(k)) \in Nat /\ Cardinality(upto(k)) # 0
    <3> HIDE DEF at, upto
    <3> QED BY <2>1, <2>2, FS_CardinalityType, FS_EmptySet
  <2> QED BY <1>2, <1>3, <2>2, <2>3
<1>4. ASSUME NEW j \in at, NEW k \in at, j < k PROVE place[j] # place[k]
  <2>1. upto(j) \in SUBSET upto(k) /\ k \in upto(k) /\ k \notin upto(j)
    BY <1>1, <1>4
  <2>2. upto(j) # upto(k)
    BY <2>1
  <2>3. Cardinality(upto(j)) # Cardinality(upto(k))
    <3> HIDE DEF at, upto
    <3> QED BY <1>3, <2>1, <2>2, FS_Subset
  <2> QED BY <1>3, <2>3
<1>5. place \in Injection(at, 1..N)
  <2>1. place \in [at -> 1..N]
    BY <1>3
  <2>2. ASSUME NEW j \in at, NEW k \in at, place[j] = place[k] PROVE j = k
    <3>1. j \in Nat /\ k \in Nat
      BY <1>1
    <3> HIDE DEF at, place
    <3> QED BY <1>4, <2>2, <3>1
  <2> HIDE DEF at, place
  <2> QED BY <2>1, <2>2 DEF Injection, IsInjective
<1>6. ASSUME NEW n \in 1..N PROVE from(n) \in at /\ place[from(n)] = n
  <2>1. IsFiniteSet(1..N) /\ Cardinality(1..N) = N
    BY <1>2, FS_Interval
  <2>2. place \in Surjection(at, 1..N)
    <3> HIDE DEF at, place
    <3> QED BY <1>5, <2>1, FS_Injection
  <2>3. \E k \in at : place[k] = n
    <3> HIDE DEF at, place
    <3> QED BY <2>2 DEF Surjection
  <2> HIDE DEF at, place
  <2> QED BY <2>3
<1>7. Only(s, S) = [n \in 1..N |-> s[from(n)]]
  BY DEF Only
<1> HIDE DEF place, from, N
<1>8. ASSUME NEW n \in 1..N PROVE s[from(n)] \in T /\ s[from(n)] \in S
  BY <1>6
<1>9. Only(s, S) \in Seq(T) /\ Len(Only(s, S)) = N
  BY <1>2, <1>7, <1>8
<1>10. ASSUME NEW k \in at PROVE Contains(Only(s, S), s[k])
  <2>1. place[k] \in 1..N
    BY <1>3
  <2>2. from(place[k]) = k
    BY <1>5, <1>6, <2>1 DEF Injection, IsInjective
  <2> QED BY <1>7, <1>9, <2>1, <2>2 DEF Contains
<1>11. ASSUME NEW o PROVE Contains(Only(s, S), o) <=> Contains(s, o) /\ o \in S
  <2>1. ASSUME Contains(Only(s, S), o) PROVE Contains(s, o) /\ o \in S
    <3>1. PICK n \in 1..N : s[from(n)] = o
      BY <1>7, <1>9, <2>1 DEF Contains
    <3> QED BY <1>1, <1>6, <1>8, <3>1 DEF Contains
  <2>2. ASSUME Contains(s, o), o \in S PROVE Contains(Only(s, S), o)
    BY <1>10, <2>2 DEF Contains
  <2> QED BY <2>1, <2>2
<1>12. ASSUME IsInjective(s) PROVE IsInjective(Only(s, S))
  <2>1. ASSUME NEW m \in 1..N, NEW n \in 1..N, s[from(m)] = s[from(n)] PROVE m = n
    <3>1. from(m) = from(n)
      BY <1>1, <1>6, <1>12, <2>1 DEF IsInjective
    <3> QED BY <1>6, <3>1
  <2> QED BY <1>7, <2>1 DEF IsInjective
<1> QED BY <1>9, <1>11, <1>12

(* A set as a list.                                                          *)
LEMMA SetAsList ==
  ASSUME NEW T, IsFiniteSet(T)
  PROVE  /\ SetToSeq(T) \in Seq(T)
         /\ \A o : Contains(SetToSeq(T), o) <=> o \in T
         /\ IsInjective(SetToSeq(T))
<1> DEFINE N == Cardinality(T)
<1>1. N \in Nat /\ \E f \in [1..N -> T] : IsInjective(f)
  BY FS_CardinalityType DEF IsInjective, ExistsBijection, Bijection, Injection
<1>2. SetToSeq(T) \in [1..N -> T] /\ IsInjective(SetToSeq(T))
  BY <1>1 DEF SetToSeq
<1>3. SetToSeq(T) \in Seq(T) /\ Len(SetToSeq(T)) = N
  BY <1>1, <1>2
<1>4. SetToSeq(T) \in Surjection(1..N, T)
  <2>1. IsFiniteSet(1..N) /\ Cardinality(1..N) = N
    BY <1>1, FS_Interval
  <2>2. SetToSeq(T) \in Injection(1..N, T)
    BY <1>2 DEF Injection
  <2> QED BY <2>1, <2>2, FS_Injection
<1> QED BY <1>1, <1>2, <1>3, <1>4 DEF Contains, Surjection

(* Lists put together.                                                       *)
LEMMA ListConcat ==
  ASSUME NEW T, NEW s \in Seq(T), NEW t \in Seq(T)
  PROVE  /\ s \o t \in Seq(T)
         /\ \A o : Contains(s \o t, o) <=> Contains(s, o) \/ Contains(t, o)
         /\ IsInjective(s) /\ IsInjective(t) /\ (\A o : ~(Contains(s, o) /\ Contains(t, o)))
               => IsInjective(s \o t)
<1>1. s \o t \in Seq(T) /\ Len(s \o t) = Len(s) + Len(t) /\ Len(s) \in Nat /\ Len(t) \in Nat
  OBVIOUS
<1>2. \A i \in 1..(Len(s) + Len(t)) : (s \o t)[i] = IF i <= Len(s) THEN s[i] ELSE t[i - Len(s)]
  OBVIOUS
<1>3. ASSUME NEW o, Contains(s, o) PROVE Contains(s \o t, o)
  BY <1>1, <1>2, <1>3 DEF Contains
<1>4. ASSUME NEW o, Contains(t, o) PROVE Contains(s \o t, o)
  <2>1. PICK i \in 1..Len(t) : t[i] = o
    BY <1>4 DEF Contains
  <2>2. Len(s) + i \in 1..(Len(s) + Len(t)) /\ (s \o t)[Len(s) + i] = o
    BY <1>1, <1>2, <2>1
  <2> QED BY <1>1, <2>2 DEF Contains
<1>5. ASSUME NEW o, Contains(s \o t, o) PROVE Contains(s, o) \/ Contains(t, o)
  <2>1. PICK i \in 1..(Len(s) + Len(t)) : (s \o t)[i] = o
    BY <1>1, <1>5 DEF Contains
  <2>2. CASE i <= Len(s)
    BY <1>1, <1>2, <2>1, <2>2 DEF Contains
  <2>3. CASE ~(i <= Len(s))
    <3>1. i - Len(s) \in 1..Len(t) /\ t[i - Len(s)] = o
      BY <1>1, <1>2, <2>1, <2>3
    <3> QED BY <3>1 DEF Contains
  <2> QED BY <2>2, <2>3
<1>6. ASSUME IsInjective(s), IsInjective(t), \A o : ~(Contains(s, o) /\ Contains(t, o))
      PROVE  IsInjective(s \o t)
  <2>1. \A i \in 1..Len(s), j \in 1..Len(t) : s[i] # t[j]
    BY <1>6 DEF Contains
  <2> SUFFICES ASSUME NEW i \in 1..(Len(s) + Len(t)), NEW j \in 1..(Len(s) + Len(t)), (s \o t)[i] = (s \o t)[j]
               PROVE  i = j
    BY <1>1 DEF IsInjective
  <2>2. CASE i <= Len(s) /\ j <= Len(s)
    BY <1>1, <1>2, <1>6, <2>2 DEF IsInjective
  <2>3. CASE i > Len(s) /\ j > Len(s)
    <3>1. i - Len(s) \in 1..Len(t) /\ j - Len(s) \in 1..Len(t) /\ t[i - Len(s)] = t[j - Len(s)]
      BY <1>1, <1>2, <2>3
    <3>2. i - Len(s) = j - Len(s)
      BY <1>6, <3>1 DEF IsInjective
    <3> QED BY <1>1, <3>2
  <2>4. CASE i <= Len(s) /\ j > Len(s)
    <3>1. i \in 1..Len(s) /\ j - Len(s) \in 1..Len(t) /\ s[i] = t[j - Len(s)]
      BY <1>1, <1>2, <2>4
    <3> QED BY <2>1, <3>1
  <2>5. CASE i > Len(s) /\ j <= Len(s)
    <3>1. j \in 1..Len(s) /\ i - Len(s) \in 1..Len(t) /\ s[j] = t[i - Len(s)]
      BY <1>1, <1>2, <2>5
    <3> QED BY <2>1, <3>1
  <2> QED BY <1>1, <2>2, <2>3, <2>4, <2>5
<1> QED BY <1>1, <1>3, <1>4, <1>5, <1>6

(* One element more.                                                         *)
LEMMA ListAppend ==
  ASSUME NEW T, NEW s \in Seq(T), NEW e \in T
  PROVE  /\ Append(s, e) \in Seq(T)
         /\ \A o : Contains(Append(s, e), o) <=> Contains(s, o) \/ o = e
         /\ IsInjective(s) /\ ~Contains(s, e) => IsInjective(Append(s, e))
<1>1. /\ Append(s, e) \in Seq(T) /\ Len(Append(s, e)) = Len(s) + 1 /\ Len(s) \in Nat
      /\ \A i \in 1..Len(s) : Append(s, e)[i] = s[i]
      /\ Append(s, e)[Len(s) + 1] = e
  OBVIOUS
<1> QED BY <1>1 DEF Contains, IsInjective

(* One element less.                                                         *)
LEMMA ListRemove ==
  ASSUME NEW T, NEW s \in Seq(T), IsInjective(s), NEW k \in DOMAIN s
  PROVE  /\ RemoveAt(s, k) \in Seq(T)
         /\ \A o : Contains(RemoveAt(s, k), o) <=> Contains(s, o) /\ o # s[k]
         /\ IsInjective(RemoveAt(s, k))
<1> DEFINE a == SubSeq(s, 1, k - 1)
           b == SubSeq(s, k + 1, Len(s))
<1>1. k \in 1..Len(s) /\ Len(s) \in Nat
  OBVIOUS
<1>2. a \in Seq(T) /\ Len(a) = k - 1 /\ \A i \in 1..(k - 1) : a[i] = s[i]
  BY <1>1
<1>3. b \in Seq(T) /\ Len(b) = Len(s) - k /\ \A i \in 1..(Len(s) - k) : b[i] = s[k + i]
  BY <1>1
<1>7. RemoveAt(s, k) = a \o b
  BY DEF RemoveAt
<1>8. DOMAIN a = 1..(k - 1) /\ DOMAIN b = 1..(Len(s) - k)
  BY <1>2, <1>3
<1>9. \A i, j \in 1..Len(s) : s[i] = s[j] => i = j
  BY DEF IsInjective
<1>10. \A i \in 1..(k - 1) : i \in 1..Len(s) /\ i # k
  BY <1>1
<1>11. \A i \in 1..(Len(s) - k) : i \in Int /\ k + i \in 1..Len(s) /\ k + i # k
  BY <1>1
<1> HIDE DEF a, b
<1>4. ASSUME NEW o PROVE Contains(a, o) \/ Contains(b, o) <=> Contains(s, o) /\ o # s[k]
  <2>1. ASSUME Contains(s, o), o # s[k] PROVE Contains(a, o) \/ Contains(b, o)
    <3>1. PICK i \in 1..Len(s) : s[i] = o /\ i # k
      BY <2>1 DEF Contains
    <3>2. CASE i < k
      BY <1>1, <1>2, <3>1, <3>2 DEF Contains
    <3>3. CASE i > k
      <4>1. i - k \in 1..(Len(s) - k) /\ k + (i - k) = i
        BY <1>1, <3>1, <3>3
      <4>2. b[i - k] = o
        BY <1>3, <3>1, <4>1
      <4> QED BY <1>3, <4>1, <4>2 DEF Contains
    <3> QED BY <1>1, <3>1, <3>2, <3>3
  <2>2. ASSUME Contains(a, o) PROVE Contains(s, o) /\ o # s[k]
    <3>1. PICK i \in 1..(k - 1) : s[i] = o
      BY <1>2, <2>2 DEF Contains
    <3> QED BY <1>1, <1>9, <1>10, <3>1 DEF Contains
  <2>3. ASSUME Contains(b, o) PROVE Contains(s, o) /\ o # s[k]
    <3>1. PICK i \in 1..(Len(s) - k) : s[k + i] = o
      BY <1>3, <2>3 DEF Contains
    <3> QED BY <1>1, <1>9, <1>11, <3>1 DEF Contains
  <2> QED BY <2>1, <2>2, <2>3
<1>5. IsInjective(a) /\ IsInjective(b)
  <2>1. ASSUME NEW i \in 1..(Len(s) - k), NEW j \in 1..(Len(s) - k), b[i] = b[j] PROVE i = j
    <3>1. k + i = k + j
      BY <1>3, <1>9, <1>11, <2>1
    <3> QED BY <1>1, <1>11, <3>1
  <2>2. ASSUME NEW i \in 1..(k - 1), NEW j \in 1..(k - 1), a[i] = a[j] PROVE i = j
    BY <1>2, <1>9, <1>10, <2>2
  <2> QED BY <1>8, <2>1, <2>2 DEF IsInjective
<1>6. ASSUME NEW o PROVE ~(Contains(a, o) /\ Contains(b, o))
  <2> SUFFICES ASSUME NEW i \in 1..(k - 1), NEW j \in 1..(Len(s) - k), a[i] = b[j] PROVE FALSE
    BY <1>2, <1>3 DEF Contains
  <2>1. s[i] = s[k + j]
    BY <1>2, <1>3
  <2>2. i = k + j
    BY <1>9, <1>10, <1>11, <2>1
  <2>3. i < k + j
    BY <1>1, <1>11
  <2> QED BY <1>1, <1>11, <2>2, <2>3
<1> QED BY <1>2, <1>3, <1>4, <1>5, <1>6, <1>7, ListConcat

-----------------------------------------------------------------------------
(* Creation.                                                                 *)

(* Only new objects, and obsolete ones that nobody refers to, are given out. *)
Free(o) == stage[o] = "absent" \/ (Listed(o) /\ Poppable(o))
(* Creatable holds free objects only.                                        *)
LEMMA CreatableIsFree ==
  ASSUME TypeOK
  PROVE  Creatable \in Seq(Objs) /\ \A k \in 1..Len(Creatable) : Free(Creatable[k])
<1> DEFINE reused == {p \in Objs : mode = "reuse" /\ Poppable(p)}
           absent == {p \in Objs : stage[p] = "absent"}
           r == Only(invalid_object_can, reused)
           a == SetToSeq(absent)
<1>1. invalid_object_can \in Seq(Objs)
  BY DEF TypeOK
<1>2. r \in Seq(Objs) /\ \A o : Contains(r, o) <=> Listed(o) /\ o \in reused
  <2> HIDE DEF reused
  <2> QED BY <1>1, OnlyKeeps DEF Listed
<1>3. IsFiniteSet(absent)
  BY FS_Subset, PoolAssumption
<1>4. a \in Seq(absent) /\ \A o : Contains(a, o) <=> o \in absent
  <2> HIDE DEF absent
  <2> QED BY <1>3, SetAsList
<1>5. a \in Seq(Objs)
  BY <1>4
<1>6. r \o a \in Seq(Objs) /\ \A o : Contains(r \o a, o) <=> Contains(r, o) \/ Contains(a, o)
  <2> HIDE DEF r, a
  <2> QED BY <1>2, <1>5, ListConcat
<1>7. Creatable = r \o a
  BY DEF Creatable
<1>8. ASSUME NEW k \in 1..Len(Creatable) PROVE Free(Creatable[k])
  <2>1. Contains(r \o a, Creatable[k])
    BY <1>7 DEF Contains
  <2>2. CASE Contains(r, Creatable[k])
    BY <1>2, <2>2 DEF Free
  <2>3. CASE Contains(a, Creatable[k])
    BY <1>4, <2>3 DEF Free
  <2> QED BY <1>6, <2>1, <2>2, <2>3
<1> QED BY <1>6, <1>7, <1>8

(* What create_objects gives out is free.                                    *)
LEMMA CreatedAreFree ==
  ASSUME TypeOK, NEW n \in Nat, CanCreate(n)
  PROVE  /\ Created(n) \subseteq Objs
         /\ \A o \in Created(n) : Free(o)
         /\ Fresh(n) \in [Objs -> Stages]
         /\ n = 1 => NewObject \in Created(1) /\ Created(1) = {NewObject}
<1>1. \A k \in 1..n : k \in 1..Len(Creatable)
  BY CreatableIsFree DEF CanCreate
<1>2. \A k \in 1..n : Creatable[k] \in Objs /\ Free(Creatable[k])
  BY <1>1, CreatableIsFree
<1>3. Created(n) \subseteq Objs /\ \A o \in Created(n) : Free(o)
  BY <1>2 DEF Created
<1>4. Fresh(n) \in [Objs -> Stages]
  BY DEF Fresh, Stages, TypeOK
<1>5. n = 1 => NewObject \in Created(1) /\ Created(1) = {NewObject}
  BY DEF Created, NewObject
<1> QED BY <1>3, <1>4, <1>5

(* create_objects: new ids, each given once, and a list without the new ones. *)
LEMMA ObjectsCreated ==
  ASSUME TypeOK, NEW n \in Nat, create_objects(n)
  PROVE  /\ id' \in [Objs -> 0..MaxId] /\ cur_id' \in 0..MaxId /\ cur_id <= cur_id'
         /\ \A o \in Objs \ Created(n) : id'[o] = id[o]
         /\ \A o \in Created(n) : id'[o] \in Ids /\ cur_id < id'[o] /\ id'[o] <= cur_id'
         /\ \A o, p \in Created(n) : id'[o] = id'[p] => o = p
         /\ n = 1 => id'[NewObject] = cur_id + 1 /\ cur_id + 1 \in Ids
         /\ invalid_object_can' \in Seq(Objs)
         /\ \A o \in Objs : Listed(o)' <=> Listed(o) /\ o \notin Created(n)
         /\ IsInjective(invalid_object_can) => IsInjective(invalid_object_can')
<1> DEFINE at(o) == CHOOSE k \in 1..n : Creatable[k] = o
<1>1. ASSUME NEW o \in Created(n) PROVE at(o) \in 1..n /\ Creatable[at(o)] = o
  BY DEF Created
<1>2. /\ id' = [o \in Objs |-> IF o \in Created(n) THEN cur_id + at(o) ELSE id[o]]
      /\ cur_id' = cur_id + n /\ cur_id + n <= MaxId
      /\ invalid_object_can' = Only(invalid_object_can, Objs \ Created(n))
      /\ CanCreate(n)
  BY DEF create_objects, CanCreate
<1> HIDE DEF at
<1>3. Created(n) \subseteq Objs
  BY <1>2, CreatedAreFree
<1>4. cur_id \in Nat /\ id \in [Objs -> 0..MaxId] /\ MaxId \in Nat /\ invalid_object_can \in Seq(Objs)
  BY PoolAssumption DEF TypeOK
<1>5. ASSUME NEW o \in Created(n)
      PROVE  id'[o] = cur_id + at(o) /\ id'[o] \in Ids /\ cur_id < id'[o] /\ id'[o] <= cur_id'
  BY <1>1, <1>2, <1>3, <1>4 DEF Ids
<1>6. id' \in [Objs -> 0..MaxId]
  BY <1>1, <1>2, <1>4
<1>7. ASSUME NEW o \in Created(n), NEW p \in Created(n), id'[o] = id'[p] PROVE o = p
  <2>1. at(o) = at(p)
    BY <1>1, <1>4, <1>5, <1>7
  <2> QED BY <1>1, <2>1
<1>8. /\ invalid_object_can' \in Seq(Objs)
      /\ \A o \in Objs : Listed(o)' <=> Listed(o) /\ o \notin Created(n)
      /\ IsInjective(invalid_object_can) => IsInjective(invalid_object_can')
  BY <1>2, <1>4, OnlyKeeps DEF Listed
<1>9. n = 1 => id'[NewObject] = cur_id + 1 /\ cur_id + 1 \in Ids
  <2> SUFFICES ASSUME n = 1 PROVE id'[NewObject] = cur_id + 1 /\ cur_id + 1 \in Ids
    OBVIOUS
  <2>1. NewObject \in Created(n)
    BY <1>2, CreatedAreFree
  <2>2. at(NewObject) = 1
    BY <1>1, <2>1
  <2> QED BY <1>5, <2>1, <2>2
<1>10. \A o \in Objs \ Created(n) : id'[o] = id[o]
  BY <1>2, <1>4
<1>11. cur_id' \in 0..MaxId /\ cur_id <= cur_id'
  BY <1>2, <1>4
<1>12. /\ \A o \in Created(n) : id'[o] \in Ids /\ cur_id < id'[o] /\ id'[o] <= cur_id'
       /\ \A o, p \in Created(n) : id'[o] = id'[p] => o = p
  BY <1>5, <1>7
<1> QED BY <1>6, <1>8, <1>9, <1>10, <1>11, <1>12

-----------------------------------------------------------------------------
(* Types.                                                                    *)

(* Every variable has its type at the start ...                              *)
LEMMA TypeInit == Init => TypeOK
<1> SUFFICES ASSUME Init PROVE TypeOK
  OBVIOUS
<1>1. <<>> \in Seq(Objs) /\ MaxId \in Nat /\ MaxCalls \in Nat
  BY PoolAssumption
<1>2. stage \in [Objs -> Stages] /\ id \in [Objs -> 0..MaxId] /\ accept \in [Objs -> Accepts]
  BY <1>1 DEF Init, Stages, Accepts
<1>3. object_can \in [Ids -> Objs \cup {None}]
  BY DEF Init
<1>4. cur_id \in 0..MaxId /\ calls \in 0..MaxCalls
  BY <1>1 DEF Init
<1>5. restorer \in [new : Objs, old : Objs] \cup {[new |-> None, old |-> None]}
  BY DEF Init
<1> QED BY <1>1, <1>2, <1>3, <1>4, <1>5 DEF Init, TypeOK

(* The operators that change the stages of sockets.                          *)
LEMMA StageTypes ==
  ASSUME TypeOK
  PROVE  /\ \A o \in Objs : Started(o) \in [Objs -> Stages] /\ Dropped(o) \in [Objs -> Stages]
         /\ \A os : Shut(os) \in [Objs -> Stages] /\ Destroyed(os) \in [Objs -> Stages]
         /\ Cancelled \in [Objs -> Accepts]
         /\ \A i \in Ids : EraseId(object_can, i) \in [Ids -> Objs \cup {None}]
BY DEF TypeOK, Stages, Accepts, Started, Dropped, Shut, Destroyed, Cancelled, EraseId

(* start_listen.                                                             *)
LEMMA ListenTypes ==
  ASSUME TypeOK, NEW b \in BOOLEAN, start_listen(b)
  PROVE  /\ stage' \in [Objs -> Stages] /\ id' \in [Objs -> 0..MaxId] /\ cur_id' \in 0..MaxId
         /\ invalid_object_can' \in Seq(Objs) /\ accept' \in [Objs -> Accepts] /\ listening' = TRUE
<1>1. AcceptNum \in Nat /\ MaxId \in Nat /\ CanCreate(AcceptNum)
  BY PoolAssumption DEF start_listen
<1>2. CASE b
  <2>1. create_objects(AcceptNum) /\ stage' = Fresh(AcceptNum) /\ listening' = TRUE
        /\ accept' = [o \in Objs |-> IF o \in Created(AcceptNum) THEN "pending" ELSE accept[o]]
    BY <1>2 DEF start_listen
  <2>2. accept' \in [Objs -> Accepts]
    BY <2>1 DEF TypeOK, Accepts
  <2> QED BY <1>1, <2>1, <2>2, ObjectsCreated, CreatedAreFree
<1>3. CASE ~b
  <2>1. /\ stage' = Destroyed(Created(AcceptNum)) /\ UNCHANGED <<id, accept>>
        /\ cur_id' = cur_id + AcceptNum /\ listening' = TRUE
        /\ invalid_object_can' = Only(invalid_object_can, Objs \ Created(AcceptNum))
    BY <1>3 DEF start_listen
  <2>2. invalid_object_can' \in Seq(Objs)
    BY <2>1, OnlyKeeps DEF TypeOK
  <2>3. cur_id' \in 0..MaxId
    BY <1>1, <2>1 DEF TypeOK, CanCreate
  <2> QED BY <2>1, <2>2, <2>3, StageTypes DEF TypeOK
<1> QED BY <1>2, <1>3

(* ... and every step keeps it.                                              *)
LEMMA TypeStep == TypeOK /\ [Next]_vars => TypeOK'
<1> SUFFICES ASSUME TypeOK, [Next]_vars PROVE TypeOK'
  OBVIOUS
<1> USE DEF poolVars, listenVars, appVars, pumpVars, NotCounted
<1>1. CASE free_object
  <2>1. /\ invalid_object_can' \in Seq(Objs)
        /\ stage' \in [Objs -> Stages]
    BY <1>1, OnlyKeeps, StageTypes DEF free_object, TypeOK
  <2> QED BY <1>1, <2>1 DEF free_object, TypeOK
<1>2. CASE clear_obsoleted_object
  <2> DEFINE obsoleted == {o \in Managed : stage[o] = "obsolete"}
  <2>1. obsoleted \in SUBSET Objs /\ IsFiniteSet(obsoleted)
    BY FS_Subset, PoolAssumption DEF Managed
  <2>2. invalid_object_can' = invalid_object_can \o SetToSeq(obsoleted)
    BY <1>2 DEF clear_obsoleted_object
  <2>3. SetToSeq(obsoleted) \in Seq(Objs)
    <3>1. SetToSeq(obsoleted) \in Seq(obsoleted)
      <4> HIDE DEF obsoleted
      <4> QED BY <2>1, SetAsList
    <3> QED BY <2>1, <3>1
  <2>4. invalid_object_can' \in Seq(Objs)
    <3> HIDE DEF obsoleted
    <3> QED BY <2>2, <2>3, ListConcat DEF TypeOK
  <2>5. object_can' \in [Ids -> Objs \cup {None}]
    BY <1>2 DEF clear_obsoleted_object, TypeOK
  <2> QED BY <1>2, <2>4, <2>5 DEF clear_obsoleted_object, TypeOK
<1>3. ASSUME NEW o \in Objs, Break(o) \/ Connect(o) PROVE TypeOK'
  <2>1. Shut({o}) \in [Objs -> Stages]
    BY StageTypes
  <2>2. CASE Break(o)
    BY <2>1, <2>2 DEF Break, TypeOK
  <2>3. CASE Connect(o)
    <3>1. accept' \in [Objs -> Accepts]
      BY <2>3 DEF Connect, TypeOK, Accepts
    <3> QED BY <2>3, <3>1 DEF Connect, TypeOK
  <2> QED BY <1>3, <2>2, <2>3
<1>4. ASSUME NEW o \in Objs, OnCloseErase(o) PROVE TypeOK'
  <2>1. object_can' \in [Ids -> Objs \cup {None}] /\ stage' \in [Objs -> Stages]
    BY <1>4 DEF OnCloseErase, EraseSelf, EraseId, TypeOK, Stages
  <2> QED BY <1>4, <2>1 DEF OnCloseErase, TypeOK
<1>5. ASSUME NEW o \in Objs, OnClosePush(o) \/ Obsolete(o) PROVE TypeOK'
  <2>1. stage' \in [Objs -> Stages]
    BY <1>5 DEF OnClosePush, Obsolete, TypeOK, Stages
  <2>2. Append(invalid_object_can, o) \in Seq(Objs)
    BY DEF TypeOK
  <2>3. invalid_object_can' \in Seq(Objs)
    BY <1>5, <2>2 DEF OnClosePush, Obsolete, TypeOK
  <2> QED BY <1>5, <2>1, <2>3 DEF OnClosePush, Obsolete, TypeOK
<1>6. ASSUME NEW o \in Objs, AcceptAdd(o) \/ AcceptStart(o) PROVE TypeOK'
  <2>1. accept' \in [Objs -> Accepts] /\ object_can' \in [Ids -> Objs \cup {None}]
    <3>1. accept \in [Objs -> Accepts] /\ object_can \in [Ids -> Objs \cup {None}]
      BY DEF TypeOK
    <3>2. \/ accept' = [accept EXCEPT ![o] = "added"] /\ object_can' = [object_can EXCEPT ![id[o]] = o]
          \/ accept' = [accept EXCEPT ![o] = "handled"] /\ object_can' = object_can
      BY <1>6 DEF AcceptAdd, AcceptStart
    <3> QED BY <3>1, <3>2 DEF Accepts
  <2>2. stage' \in [Objs -> Stages]
    <3>1. Started(o) \in [Objs -> Stages] /\ stage \in [Objs -> Stages]
      BY StageTypes DEF TypeOK
    <3>2. stage' = stage \/ stage' = Started(o)
      BY <1>6 DEF AcceptAdd, AcceptStart
    <3> QED BY ONLY <3>1, <3>2
  <2> QED BY <1>6, <2>1, <2>2 DEF AcceptAdd, AcceptStart, TypeOK
<1>7. ASSUME NEW o \in Objs, AcceptCheck(o) \/ AcceptFailed(o) PROVE TypeOK'
  <2>1. stage' \in [Objs -> Stages]
    BY <1>7, StageTypes DEF AcceptCheck, AcceptFailed, TypeOK
  <2>2. accept' \in [Objs -> Accepts]
    <3>1. accept \in [Objs -> Accepts] /\ Cancelled \in [Objs -> Accepts]
      BY StageTypes DEF TypeOK
    <3>2. accept' \in {[accept EXCEPT ![o] = "no"], [accept EXCEPT ![o] = "next"],
                       [Cancelled EXCEPT ![o] = "no"]}
      BY <1>7 DEF AcceptCheck, AcceptFailed
    <3> QED BY ONLY <3>1, <3>2 DEF Accepts
  <2> QED BY <1>7, <2>1, <2>2 DEF AcceptCheck, AcceptFailed, TypeOK
<1>8. ASSUME NEW o \in Objs, start_next_accept(o) PROVE TypeOK'
  <2>1. create_objects(1) /\ CanCreate(1)
    BY <1>8 DEF start_next_accept, create_objects
  <2>2. stage' \in [Objs -> Stages]
    BY <1>8, <2>1, StageTypes, CreatedAreFree DEF start_next_accept
  <2>3. accept' \in [Objs -> Accepts]
    BY <1>8 DEF start_next_accept, TypeOK, Accepts, Accepting
  <2> QED BY <1>8, <2>1, <2>2, <2>3, ObjectsCreated DEF start_next_accept, TypeOK
<1>9. ASSUME NEW o \in Objs, Hold(o) \/ Release(o) PROVE TypeOK'
  <2>1. stage' \in [Objs -> Stages]
    BY <1>9, StageTypes DEF Hold, Release, TypeOK
  <2>2. held' \subseteq Objs
    BY <1>9 DEF Hold, Release, TypeOK
  <2>3. calls' \in 0..MaxCalls
    BY <1>9, PoolAssumption DEF Hold, Release, TypeOK, Counted
  <2> QED BY <1>9, <2>1, <2>2, <2>3 DEF Hold, Release, TypeOK
<1>10. ASSUME NEW o \in Objs, ShutdownHeld(o) PROVE TypeOK'
  <2>1. stage' \in [Objs -> Stages] /\ calls' \in 0..MaxCalls
    BY <1>10, StageTypes, PoolAssumption DEF ShutdownHeld, TypeOK, Counted
  <2>2. invalid_object_can' \in Seq(Objs)
    BY <1>10, ListAppend DEF ShutdownHeld, TypeOK
  <2>3. object_can' \in [Ids -> Objs \cup {None}]
    BY <1>10 DEF ShutdownHeld, EraseId, TypeOK
  <2> QED BY <1>10, <2>1, <2>2, <2>3 DEF ShutdownHeld, TypeOK
<1>11. ASSUME NEW o \in Objs, NEW i \in Ids, RestorePop(o, i) PROVE TypeOK'
  <2>1. PICK found \in DOMAIN invalid_object_can :
           /\ restorer' = [new |-> o, old |-> invalid_object_can[found]]
           /\ invalid_object_can' = RemoveAt(invalid_object_can, found)
    BY <1>11 DEF RestorePop
  <2>2. invalid_object_can' \in Seq(Objs)
    <3>1. /\ SubSeq(invalid_object_can, 1, found - 1) \in Seq(Objs)
          /\ SubSeq(invalid_object_can, found + 1, Len(invalid_object_can)) \in Seq(Objs)
      <4>1. invalid_object_can \in Seq(Objs) /\ found \in 1..Len(invalid_object_can)
        BY DEF TypeOK
      <4> QED BY ONLY <4>1
    <3> QED BY <2>1, <3>1 DEF RemoveAt
  <2>3. restorer' \in [new : Objs, old : Objs]
    BY <2>1 DEF TypeOK
  <2>4. calls' \in 0..MaxCalls
    BY <1>11, PoolAssumption DEF RestorePop, Counted, TypeOK
  <2> QED BY <1>11, <2>2, <2>3, <2>4 DEF RestorePop, TypeOK
<1>12. ASSUME NEW o \in Objs, NEW i \in Ids, RestoreAnew(o, i) PROVE TypeOK'
  <2>1. calls' \in 0..MaxCalls
    BY <1>12, PoolAssumption DEF RestoreAnew, TypeOK, Counted
  <2>2. id' \in [Objs -> 0..MaxId]
    BY <1>12, PoolAssumption DEF RestoreAnew, TypeOK, Ids
  <2>3. object_can' \in [Ids -> Objs \cup {None}]
    BY <1>12 DEF RestoreAnew, EraseOld, TypeOK
  <2> QED BY <1>12, <2>1, <2>2, <2>3 DEF RestoreAnew, TypeOK
<1>13. CASE Listen
  <2>1. start_listen(TRUE)
    BY <1>13 DEF Listen
  <2>2. calls' \in 0..MaxCalls
    BY <1>13, PoolAssumption DEF Listen, Counted, TypeOK
  <2> QED BY <1>13, <2>1, <2>2, ListenTypes DEF Listen, TypeOK
<1>14. CASE StopListen \/ EndService
  <2>1. calls' \in 0..MaxCalls
    BY <1>14, PoolAssumption DEF StopListen, EndService, Counted, TypeOK
  <2>2. accept' \in [Objs -> Accepts]
    BY <1>14, StageTypes DEF StopListen, EndService, TypeOK
  <2> QED BY <1>14, <2>1, <2>2 DEF StopListen, EndService, TypeOK
<1>15. CASE StartService
  BY <1>15 DEF StartService, TypeOK
<1>16. CASE InitServer
  <2>1. CASE \E listens \in BOOLEAN : start_listen(listens) /\ service_started' = listens
    <3>1. PICK b \in BOOLEAN : start_listen(b) /\ service_started' = b
      BY <2>1
    <3>2. UNCHANGED object_can
      BY <1>16, <3>1 DEF InitServer, start_listen
    <3> QED BY <1>16, <3>1, <3>2, ListenTypes DEF InitServer, TypeOK
  <2>2. CASE service_started' = FALSE /\ UNCHANGED <<poolVars, listenVars>>
    BY <1>16, <2>2 DEF InitServer, TypeOK
  <2> QED BY <1>16, <2>1, <2>2 DEF InitServer
<1>17. CASE InitClients
  <2>1. stage' \in [Objs -> Stages]
    BY <1>17 DEF InitClients, Started, TypeOK, Stages
  <2> QED BY <1>17, <2>1 DEF InitClients, TypeOK
<1>18. CASE UninitListen
  <2>1. accept' \in [Objs -> Accepts] /\ listening' \in BOOLEAN
    BY <1>18, StageTypes DEF UninitListen, TypeOK
  <2> QED BY <1>18, <2>1 DEF UninitListen, TypeOK
<1>19. CASE UninitShutdown
  BY <1>19, StageTypes DEF UninitShutdown, TypeOK
<1>20. CASE WaitService
  BY <1>20, StageTypes DEF WaitService, TypeOK
<1>21. CASE AddClient
  <2>1. create_objects(1) /\ CanCreate(1) /\ stage' = Fresh(1)
    BY <1>21 DEF AddClient, create_objects
  <2>2. NewObject \in Objs /\ cur_id + 1 \in Ids /\ stage' \in [Objs -> Stages]
    BY <2>1, CreatedAreFree, ObjectsCreated
  <2>3. calls' \in 0..MaxCalls
    BY <1>21, PoolAssumption DEF AddClient, TypeOK, Counted
  <2>4. object_can' \in [Ids -> Objs \cup {None}] /\ adder' \in Objs \cup {None} /\ held' \subseteq Objs
    BY <1>21, <2>2 DEF AddClient, TypeOK
  <2> QED BY <1>21, <2>1, <2>2, <2>3, <2>4, ObjectsCreated DEF AddClient, TypeOK
<1>22. CASE AddClientStart
  BY <1>22, StageTypes DEF AddClientStart, StartIfStarted, TypeOK
<1>23. CASE RestoreInit
  <2> DEFINE o == restorer.new
             i == id[restorer.old]
  <2>4. o \in Objs /\ restorer.old \in Objs /\ i \in 0..MaxId
    BY <1>23 DEF RestoreInit, TypeOK
  <2>5. \/ UNCHANGED <<object_can, id>>
        \/ object_can' = [object_can EXCEPT ![i] = o, ![id[o]] = None] /\ id' = [id EXCEPT ![o] = i]
    BY <1>23 DEF RestoreInit, EraseOld
  <2>1. object_can' \in [Ids -> Objs \cup {None}] /\ id' \in [Objs -> 0..MaxId]
    <3> HIDE DEF o, i
    <3>1. object_can \in [Ids -> Objs \cup {None}] /\ id \in [Objs -> 0..MaxId]
      BY DEF TypeOK
    <3>2. [object_can EXCEPT ![i] = o, ![id[o]] = None] \in [Ids -> Objs \cup {None}]
      BY ONLY <2>4, <3>1
    <3>3. [id EXCEPT ![o] = i] \in [Objs -> 0..MaxId]
      BY ONLY <2>4, <3>1
    <3> QED BY ONLY <2>5, <3>1, <3>2, <3>3
  <2>2. stage' \in [Objs -> Stages]
    BY <1>23, StageTypes DEF RestoreInit, TypeOK
  <2>3. invalid_object_can' \in Seq(Objs)
    <3>1. Append(invalid_object_can, restorer.old) \in Seq(Objs)
      BY <2>4 DEF TypeOK
    <3> QED BY <1>23, <3>1 DEF RestoreInit, TypeOK
  <2> QED BY <1>23, <2>1, <2>2, <2>3 DEF RestoreInit, TypeOK
<1>24. CASE UNCHANGED vars
  BY <1>24 DEF vars, TypeOK
<1> QED
  BY <1>1, <1>2, <1>3, <1>4, <1>5, <1>6, <1>7, <1>8, <1>9, <1>10, <1>11, <1>12, <1>13, <1>14, <1>15,
     <1>16, <1>17, <1>18, <1>19, <1>20, <1>21, <1>22, <1>23, <1>24 DEF Next, Handlers, App, Service

(* Every variable keeps its type.                                            *)
THEOREM TypeCorrect == Spec => []TypeOK
BY TypeInit, TypeStep, PTL DEF Spec

-----------------------------------------------------------------------------
(* The containers and the objects.                                           *)

(* An object that is in object_can is there under its id.                    *)
Keyed ==
    /\ \A o \in Objs : stage[o] # "absent" => id[o] \in Ids
    /\ \A i \in Ids : object_can[i] # None => id[object_can[i]] = i
(* An id is given once, unless ids are restored.                             *)
Numbered ==
    /\ role = "client" => mode # "restore"
    /\ mode # "restore" =>
          /\ \A o \in Objs : stage[o] # "absent" => id[o] <= cur_id
          /\ \A o, p \in Objs : stage[o] # "absent" /\ stage[p] # "absent" /\ id[o] = id[p] => o = p
(* What is referred to exists.                                               *)
Existing == \A o \in Objs : Referenced(o) => stage[o] # "absent"
(* An object is in one container at most; between its removal from one and   *)
(* its insertion into the other it is in none.                               *)
Apart ==
    /\ \A o \in Objs : Listed(o) => ~InCan(o) /\ stage[o] \notin {"absent", "fresh", "erased"}
    /\ \A o \in Objs : stage[o] = "erased" => ~InCan(o)
    /\ IsInjective(invalid_object_can)
(* An object is not started before its accept handler has added it.          *)
Accepted == \A o \in Objs :
    /\ accept[o] \in {"pending", "ok", "failed", "aborted"} => stage[o] = "fresh" /\ ~InCan(o)
    /\ accept[o] = "added" => stage[o] = "fresh" /\ InCan(o)
    /\ accept[o] # "no" => role = "server"
(* The pool keeps a client that add_socket is still busy with.               *)
Added == adder # None => role = "client" /\ (InCan(adder) \/ Listed(adder) \/ stage[adder] = "erased")
(* When ids are restored an object stays in object_can until on_close.       *)
InPlace == mode = "restore" => \A o \in Objs : stage[o] \in {"live", "closing"} => InCan(o)
(* restore_socket works on a living object and one that nobody else has.     *)
Restoring ==
    restorer.new # None =>
        /\ mode = "restore" /\ InCan(restorer.new) /\ stage[restorer.new] \in {"live", "closing"}
        /\ LET p == restorer.old
           IN  stage[p] = "obsolete" /\ ~InCan(p) /\ ~Listed(p) /\ p \notin held /\ accept[p] = "no" /\ adder # p
Sound ==
    /\ Keyed /\ Numbered /\ Existing /\ Apart
    /\ Accepted /\ Added /\ InPlace /\ Restoring /\ LiveOwned

(* What a step does to object_can, as seen by the objects.                   *)
LEMMA CanSame ==
  ASSUME UNCHANGED object_can PROVE \A o \in Objs : InCan(o)' <=> InCan(o)
BY DEF InCan

(* An object is in object_can under its id only.                             *)
LEMMA CanKey ==
  ASSUME TypeOK, Keyed, NEW o \in Objs, InCan(o)
  PROVE  id[o] \in Ids /\ object_can[id[o]] = o /\ \A i \in Ids : object_can[i] = o => i = id[o]
BY PoolAssumption DEF InCan, Keyed

(* An object is added under a free key.                                      *)
LEMMA CanGrown ==
  ASSUME TypeOK, NEW i \in Ids, object_can[i] = None, NEW o \in Objs,
         object_can' = [object_can EXCEPT ![i] = o]
  PROVE  \A p \in Objs : InCan(p)' <=> InCan(p) \/ p = o
BY PoolAssumption DEF InCan, TypeOK

(* An object is deleted by its id.                                           *)
LEMMA CanErased ==
  ASSUME TypeOK, Keyed, NEW o \in Objs, InCan(o), object_can' = EraseId(object_can, id[o])
  PROVE  /\ \A p \in Objs : InCan(p)' <=> InCan(p) /\ p # o
         /\ \A i \in Ids : object_can'[i] # None => object_can'[i] = object_can[i]
<1>1. id[o] \in Ids /\ object_can[id[o]] = o /\ \A i \in Ids : object_can[i] = o => i = id[o]
  BY CanKey
<1>2. object_can' = [object_can EXCEPT ![id[o]] = None] /\ None \notin Objs
  BY PoolAssumption DEF EraseId
<1>3. \A i \in Ids : object_can'[i] = IF i = id[o] THEN None ELSE object_can[i]
  BY <1>2 DEF TypeOK
<1> QED BY <1>1, <1>2, <1>3 DEF InCan

(* init_object_id: o moves to the free key i.                                *)
LEMMA CanMoved ==
  ASSUME TypeOK, Keyed, NEW o \in Objs, InCan(o), NEW i \in Ids, object_can[i] = None,
         object_can' = EraseOld(o, i), id' = [id EXCEPT ![o] = i]
  PROVE  /\ \A p \in Objs : InCan(p)' <=> InCan(p)
         /\ \A k \in Ids : object_can'[k] # None => id'[object_can'[k]] = k
<1>1. id[o] \in Ids /\ object_can[id[o]] = o /\ (\A k \in Ids : object_can[k] = o => k = id[o]) /\ None \notin Objs
  BY CanKey, PoolAssumption
<1>2. i # id[o] /\ object_can' = [object_can EXCEPT ![i] = o, ![id[o]] = None]
  BY <1>1 DEF EraseOld
<1>3. \A k \in Ids : object_can'[k] = IF k = id[o] THEN None ELSE IF k = i THEN o ELSE object_can[k]
  BY <1>1, <1>2 DEF TypeOK
<1>4. ASSUME NEW p \in Objs PROVE InCan(p)' <=> InCan(p)
  <2>1. CASE p = o
    BY <1>1, <1>2, <1>3, <2>1 DEF InCan
  <2>2. CASE p # o
    BY <1>1, <1>2, <1>3, <2>2 DEF InCan
  <2> QED BY <2>1, <2>2
<1>5. ASSUME NEW k \in Ids, object_can'[k] # None PROVE id'[object_can'[k]] = k
  BY <1>1, <1>2, <1>3, <1>5 DEF TypeOK, Keyed
<1> QED BY <1>4, <1>5

(* A step that moves no object and gives no id.                              *)
LEMMA InPools ==
  ASSUME TypeOK, Sound, UNCHANGED <<id, cur_id, object_can, invalid_object_can, role, mode>>,
         \A o \in Objs : stage[o] = "absent" => stage'[o] = "absent"
  PROVE  /\ Keyed' /\ Numbered' /\ IsInjective(invalid_object_can')
         /\ \A o \in Objs : (InCan(o)' <=> InCan(o)) /\ (Listed(o)' <=> Listed(o))
<1>1. Keyed' /\ Numbered'
  BY DEF Sound, Keyed, Numbered
<1>2. IsInjective(invalid_object_can')
  BY DEF Sound, Apart
<1>3. \A o \in Objs : Listed(o)' <=> Listed(o)
  BY DEF Listed
<1> QED BY <1>1, <1>2, <1>3, CanSame

(* Steps that only carry sockets and accepts on.                             *)
LEMMA OnwardSound ==
  ASSUME TypeOK, Sound,
         UNCHANGED <<role, mode, id, cur_id, object_can, invalid_object_can, held, adder, restorer>>,
         \A o \in Objs : \/ stage'[o] = stage[o]
                         \/ stage[o] = "live" /\ stage'[o] = "closing"
                         \/ stage[o] = "fresh" /\ stage'[o] = "live" /\ InCan(o) /\ accept[o] = "no",
         \A o \in Objs : \/ accept'[o] = accept[o]
                         \/ accept[o] = "pending" /\ accept'[o] \in {"ok", "failed", "aborted"}
  PROVE  Sound'
<1>1. /\ Keyed' /\ Numbered' /\ IsInjective(invalid_object_can')
      /\ \A o \in Objs : (InCan(o)' <=> InCan(o)) /\ (Listed(o)' <=> Listed(o))
  BY InPools
<1>2. Existing'
  BY <1>1 DEF Sound, Existing, Referenced
<1>3. Apart'
  BY <1>1 DEF Sound, Apart
<1>4. Accepted'
  BY <1>1 DEF Sound, Accepted
<1>5. Added'
  BY <1>1 DEF Sound, Added, TypeOK
<1>6. InPlace' /\ LiveOwned'
  BY <1>1 DEF Sound, InPlace, LiveOwned, Running
<1>7. Restoring'
  BY <1>1, PoolAssumption DEF Sound, Restoring, TypeOK
<1> QED BY <1>1, <1>2, <1>3, <1>4, <1>5, <1>6, <1>7 DEF Sound

(* A handler or a holder that drops its reference, perhaps the last one.     *)
LEMMA DropSound ==
  ASSUME TypeOK, Sound, NEW o \in Objs,
         UNCHANGED <<role, mode, id, cur_id, object_can, invalid_object_can, adder, restorer>>,
         \A p \in Objs \ {o} : stage'[p] = stage[p],
         held' \subseteq held, held \ {o} \subseteq held',
         \A p \in Objs \ {o} : \/ accept'[p] = accept[p]
                               \/ accept[p] = "pending" /\ accept'[p] = "aborted",
         accept'[o] = accept[o] \/ (accept'[o] \in {"no", "next"} /\ accept[o] \notin {"no", "added"}),
         o \in held \/ accept[o] # "no",
         \/ stage'[o] = stage[o]
         \/ /\ stage'[o] = "absent" /\ stage[o] # "erased" /\ ~InCan(o) /\ ~Listed(o)
            /\ o \notin held' /\ accept'[o] = "no"
  PROVE  Sound'
<1>1. None # o /\ (restorer.old # None => restorer.new # None)
  BY PoolAssumption DEF TypeOK
<1>2. restorer.new # None => restorer.old # o
  BY DEF Sound, Restoring
<1>3. stage'[o] # stage[o] => adder # o /\ restorer.new # o /\ restorer.old # o
  <2>1. stage'[o] # stage[o] => adder # o
    BY <1>1 DEF Sound, Added
  <2>2. stage'[o] # stage[o] => restorer.new # o
    BY <1>1 DEF Sound, Restoring
  <2> QED BY <1>1, <1>2, <2>1, <2>2
<1>4. /\ Keyed' /\ Numbered' /\ IsInjective(invalid_object_can')
      /\ \A p \in Objs : (InCan(p)' <=> InCan(p)) /\ (Listed(p)' <=> Listed(p))
  <2>1. stage[o] # "absent"
    BY DEF Sound, Existing, Referenced
  <2> QED BY <2>1, InPools
<1>5. Existing'
  BY <1>3, <1>4 DEF Sound, Existing, Referenced
<1>6. Apart'
  BY <1>4 DEF Sound, Apart
<1>7. Accepted'
  BY <1>4 DEF Sound, Accepted
<1>8. Added'
  BY <1>3, <1>4 DEF Sound, Added, TypeOK
<1>9. InPlace' /\ LiveOwned'
  BY <1>4 DEF Sound, InPlace, LiveOwned, Running
<1>10. Restoring'
  <2> SUFFICES ASSUME restorer.new # None PROVE Restoring'
    BY DEF Restoring
  <2>1. restorer.new \in Objs /\ restorer.old \in Objs
    BY DEF TypeOK
  <2>2. stage'[restorer.new] = stage[restorer.new]
    BY <1>3, <2>1
  <2> QED BY <1>2, <1>4, <2>1, <2>2 DEF Sound, Restoring
<1> QED BY <1>4, <1>5, <1>6, <1>7, <1>8, <1>9, <1>10 DEF Sound

(* free_object: what it frees is referred to by nothing.                     *)
LEMMA FreeSound ==
  ASSUME TypeOK, Sound, free_object PROVE Sound'
<1> USE DEF poolVars, listenVars, appVars, pumpVars, NotCounted
<1> DEFINE freed == {o \in Objs : Listed(o) /\ Poppable(o)}
<1>1. /\ stage' = Destroyed(freed) /\ invalid_object_can' = Only(invalid_object_can, Objs \ freed)
      /\ UNCHANGED <<id, cur_id, object_can, listenVars, appVars, pumpVars>> /\ NotCounted
  BY DEF free_object
<1>2. /\ \A o \in Objs : Listed(o)' <=> Listed(o) /\ o \notin freed
      /\ IsInjective(invalid_object_can')
  <2> HIDE DEF freed
  <2> QED BY <1>1, OnlyKeeps DEF Listed, TypeOK, Sound, Apart
<1>3. \A o \in Objs : InCan(o)' <=> InCan(o)
  BY <1>1, CanSame
<1>4. \A o \in Objs :
         /\ o \in freed => stage[o] = "obsolete" /\ stage'[o] = "absent" /\ ~Referenced(o)
         /\ o \notin freed => stage'[o] = stage[o]
  BY <1>1 DEF Destroyed, Poppable, TypeOK
<1> HIDE DEF freed
<1>5. \A o \in Objs : o \in freed => ~InCan(o) /\ accept[o] = "no" /\ adder # o /\ restorer.new # o
  BY <1>4 DEF Referenced
<1>6. Keyed'
  BY <1>1, <1>4 DEF Sound, Keyed
<1>7. Numbered'
  BY <1>1, <1>4 DEF Sound, Numbered
<1>8. Existing'
  BY <1>1, <1>3, <1>4 DEF Sound, Existing, Referenced
<1>9. Apart'
  BY <1>1, <1>2, <1>3, <1>4 DEF Sound, Apart
<1>10. Accepted' /\ InPlace'
  BY <1>1, <1>2, <1>3, <1>4, <1>5 DEF Sound, Accepted, InPlace
<1>11. LiveOwned'
  BY <1>1, <1>2, <1>3, <1>4 DEF Sound, LiveOwned, Running
<1>12. Added'
  BY <1>1, <1>2, <1>3, <1>4, <1>5 DEF Sound, Added, TypeOK
<1>13. Restoring'
  BY <1>1, <1>2, <1>3, <1>4, <1>5 DEF Sound, Restoring, TypeOK, Referenced
<1> QED BY <1>6, <1>7, <1>8, <1>9, <1>10, <1>11, <1>12, <1>13 DEF Sound

(* clear_obsoleted_object: objects go from one container to the other.       *)
LEMMA ClearSound ==
  ASSUME TypeOK, Sound, clear_obsoleted_object PROVE Sound'
<1> USE DEF poolVars, listenVars, appVars, pumpVars, NotCounted
<1> DEFINE obsoleted == {o \in Managed : stage[o] = "obsolete"}
<1>1. /\ object_can' = [i \in Ids |-> IF object_can[i] \in obsoleted THEN None ELSE object_can[i]]
      /\ invalid_object_can' = invalid_object_can \o SetToSeq(obsoleted)
      /\ mode = "clear"
      /\ UNCHANGED <<stage, id, cur_id, listenVars, appVars, pumpVars, role, mode>>
  BY DEF clear_obsoleted_object
<1>2. \A o : o \in obsoleted <=> o \in Objs /\ InCan(o) /\ stage[o] = "obsolete"
  BY DEF Managed
<1>3. obsoleted \in SUBSET Objs /\ IsFiniteSet(obsoleted)
  BY FS_Subset, PoolAssumption DEF Managed
<1> HIDE DEF obsoleted
<1>4. /\ \A o \in Objs : Listed(o)' <=> Listed(o) \/ o \in obsoleted
      /\ IsInjective(invalid_object_can')
  <2>1. /\ SetToSeq(obsoleted) \in Seq(obsoleted) /\ IsInjective(SetToSeq(obsoleted))
        /\ \A o : Contains(SetToSeq(obsoleted), o) <=> o \in obsoleted
    BY <1>3, SetAsList
  <2>2. SetToSeq(obsoleted) \in Seq(Objs) /\ invalid_object_can \in Seq(Objs)
    BY <1>3, <2>1 DEF TypeOK
  <2>3. \A o : ~(Contains(invalid_object_can, o) /\ Contains(SetToSeq(obsoleted), o))
    BY <1>2, <2>1 DEF Sound, Apart, Listed
  <2>4. IsInjective(invalid_object_can)
    BY DEF Sound, Apart
  <2> QED BY <1>1, <2>1, <2>2, <2>3, <2>4, ListConcat DEF Listed
<1>5. \A i \in Ids : object_can'[i] = IF object_can[i] \in obsoleted THEN None ELSE object_can[i]
  BY <1>1
<1>6. \A o \in Objs : InCan(o)' <=> InCan(o) /\ o \notin obsoleted
  BY <1>5, PoolAssumption DEF InCan
<1>7. Keyed'
  BY <1>1, <1>5 DEF Sound, Keyed
<1>8. Numbered'
  BY <1>1 DEF Sound, Numbered
<1>9. Existing'
  BY <1>1, <1>6 DEF Sound, Existing, Referenced
<1>10. Apart'
  BY <1>1, <1>2, <1>4, <1>6 DEF Sound, Apart
<1>11. Accepted' /\ InPlace' /\ Restoring'
  BY <1>1, <1>2, <1>6 DEF Sound, Accepted, InPlace, Restoring
<1>12. LiveOwned'
  BY <1>1, <1>2, <1>4, <1>6 DEF Sound, LiveOwned, Running
<1>13. Added'
  BY <1>1, <1>2, <1>4, <1>6 DEF Sound, Added, TypeOK
<1> QED BY <1>7, <1>8, <1>9, <1>10, <1>11, <1>12, <1>13 DEF Sound

(* on_close, first half: o leaves object_can, under its own id.              *)
LEMMA EraseSound ==
  ASSUME TypeOK, Sound, NEW o \in Objs, OnCloseErase(o) PROVE Sound'
<1> USE DEF poolVars, listenVars, appVars, pumpVars, NotCounted
<1>1. /\ stage[o] = "closing" /\ restorer.new # o
      /\ UNCHANGED <<id, cur_id, invalid_object_can, listenVars, appVars, pumpVars, role, mode>>
  BY DEF OnCloseErase
<1>2. Running(o) /\ (Listed(o) \/ InCan(o))
  BY <1>1 DEF Sound, LiveOwned, Running
<1>3. CASE mode = "clear" \/ object_can[id[o]] = None
  <2>1. stage' = [stage EXCEPT ![o] = "closed"] /\ UNCHANGED object_can
    BY <1>3 DEF OnCloseErase
  <2>2. \A p \in Objs : stage'[p] = stage[p] \/ (p = o /\ stage'[p] = "closed")
    BY <2>1 DEF TypeOK
  <2>3. /\ Keyed' /\ Numbered' /\ IsInjective(invalid_object_can')
        /\ \A p \in Objs : (InCan(p)' <=> InCan(p)) /\ (Listed(p)' <=> Listed(p))
    BY <1>1, <2>1, <2>2, InPools
  <2>4. Existing' /\ Apart' /\ Accepted'
    BY <1>1, <2>2, <2>3 DEF Sound, Existing, Referenced, Apart, Accepted
  <2>5. Added' /\ InPlace' /\ LiveOwned' /\ Restoring'
    BY <1>1, <1>2, <2>2, <2>3 DEF Sound, Added, InPlace, LiveOwned, Running, Restoring, TypeOK
  <2> QED BY <2>3, <2>4, <2>5 DEF Sound
<1>4. CASE mode # "clear" /\ object_can[id[o]] # None
  <2>1. stage' = [stage EXCEPT ![o] = "erased"] /\ object_can' = EraseId(object_can, id[o])
    BY <1>4 DEF OnCloseErase, EraseSelf
  <2>2. \A p \in Objs : stage'[p] = IF p = o THEN "erased" ELSE stage[p]
    BY <2>1 DEF TypeOK
  <2>3. InCan(o)
    <3>1. CASE mode = "restore"
      BY <1>1, <3>1 DEF Sound, InPlace
    <3>2. CASE mode # "restore"
      <4> DEFINE p == object_can[id[o]]
      <4>1. id[o] \in Ids
        BY <1>1 DEF Sound, Keyed
      <4>2. p \in Objs /\ InCan(p) /\ id[p] = id[o]
        BY <1>4, <4>1 DEF Sound, Keyed, TypeOK, InCan
      <4>3. stage[p] # "absent"
        BY <4>2 DEF Sound, Existing, Referenced
      <4>4. p = o
        BY <1>1, <3>2, <4>2, <4>3 DEF Sound, Numbered
      <4> QED BY <4>2, <4>4
    <3> QED BY <3>1, <3>2
  <2>4. /\ \A p \in Objs : InCan(p)' <=> InCan(p) /\ p # o
        /\ \A i \in Ids : object_can'[i] # None => object_can'[i] = object_can[i]
    BY <2>1, <2>3, CanErased DEF Sound
  <2>5. \A p \in Objs : Listed(p)' <=> Listed(p)
    BY <1>1 DEF Listed
  <2>6. ~Listed(o)
    BY <2>3 DEF Sound, Apart
  <2>7. Keyed'
    BY <1>1, <2>2, <2>4 DEF Sound, Keyed
  <2>8. Numbered'
    BY <1>1, <2>2 DEF Sound, Numbered
  <2>9. Existing'
    BY <1>1, <2>2, <2>4 DEF Sound, Existing, Referenced
  <2>10. Apart'
    BY <1>1, <2>2, <2>4, <2>5, <2>6 DEF Sound, Apart
  <2>11. Accepted' /\ InPlace' /\ Restoring'
    BY <1>1, <2>2, <2>4, <2>5 DEF Sound, Accepted, InPlace, Restoring, TypeOK
  <2>12. LiveOwned' /\ Added'
    BY <1>1, <2>2, <2>4, <2>5 DEF Sound, LiveOwned, Running, Added, TypeOK
  <2> QED BY <2>7, <2>8, <2>9, <2>10, <2>11, <2>12 DEF Sound
<1> QED BY <1>3, <1>4

(* on_close, second half: o enters the list.                                 *)
LEMMA PushSound ==
  ASSUME TypeOK, Sound, NEW o \in Objs, OnClosePush(o) PROVE Sound'
<1> USE DEF poolVars, listenVars, appVars, pumpVars, NotCounted
<1>1. /\ stage[o] = "erased" /\ \A p \in Objs : stage'[p] = IF p = o THEN "closed" ELSE stage[p]
      /\ invalid_object_can' = Append(invalid_object_can, o)
      /\ UNCHANGED <<id, cur_id, object_can, listenVars, appVars, pumpVars, role, mode>>
  BY DEF OnClosePush, TypeOK
<1>2. ~Listed(o) /\ ~InCan(o)
  BY <1>1 DEF Sound, Apart
<1>3. /\ \A p \in Objs : Listed(p)' <=> Listed(p) \/ p = o
      /\ IsInjective(invalid_object_can')
  BY <1>1, <1>2, ListAppend DEF Listed, TypeOK, Sound, Apart
<1>4. \A p \in Objs : InCan(p)' <=> InCan(p)
  BY <1>1, CanSame
<1>5. Keyed' /\ Numbered'
  BY <1>1 DEF Sound, Keyed, Numbered
<1>6. Existing'
  BY <1>1, <1>4 DEF Sound, Existing, Referenced
<1>7. Apart' /\ Accepted' /\ InPlace'
  BY <1>1, <1>2, <1>3, <1>4 DEF Sound, Apart, Accepted, InPlace
<1>8. LiveOwned' /\ Added' /\ Restoring'
  BY <1>1, <1>3, <1>4 DEF Sound, LiveOwned, Running, Added, Restoring, TypeOK
<1> QED BY <1>5, <1>6, <1>7, <1>8 DEF Sound

(* The last handler of o returns.                                            *)
LEMMA ObsoleteSound ==
  ASSUME TypeOK, Sound, NEW o \in Objs, Obsolete(o) PROVE Sound'
<1> USE DEF poolVars, listenVars, appVars, pumpVars, NotCounted
<1>1. /\ stage[o] = "closed" /\ \A p \in Objs : stage'[p] = IF p = o THEN "obsolete" ELSE stage[p]
      /\ UNCHANGED <<id, cur_id, object_can, invalid_object_can, listenVars, appVars, pumpVars, role, mode>>
  BY DEF Obsolete, TypeOK
<1>2. /\ Keyed' /\ Numbered' /\ IsInjective(invalid_object_can')
      /\ \A p \in Objs : (InCan(p)' <=> InCan(p)) /\ (Listed(p)' <=> Listed(p))
  BY <1>1, InPools
<1>3. Existing' /\ Apart' /\ Accepted'
  BY <1>1, <1>2 DEF Sound, Existing, Referenced, Apart, Accepted
<1>4. InPlace' /\ LiveOwned'
  BY <1>1, <1>2 DEF Sound, InPlace, LiveOwned, Running
<1>5. Added'
  BY <1>1, <1>2 DEF Sound, Added, TypeOK
<1>6. Restoring'
  BY <1>1, <1>2, PoolAssumption DEF Sound, Restoring, TypeOK
<1> QED BY <1>2, <1>3, <1>4, <1>5, <1>6 DEF Sound

(* add_object in the accept handler.                                         *)
LEMMA AddSound ==
  ASSUME TypeOK, Sound, NEW o \in Objs, AcceptAdd(o) PROVE Sound'
<1> USE DEF poolVars, listenVars, appVars, pumpVars, NotCounted
<1>1. /\ accept[o] = "ok"
      /\ UNCHANGED <<stage, id, cur_id, invalid_object_can, listening, appVars, pumpVars, role, mode>>
  BY DEF AcceptAdd
<1>2. stage[o] = "fresh" /\ ~InCan(o) /\ ~Listed(o) /\ id[o] \in Ids
  BY <1>1 DEF Sound, Accepted, Apart, Keyed
<1>3. CASE CanAdd(o) /\ object_can' = [object_can EXCEPT ![id[o]] = o] /\ accept' = [accept EXCEPT ![o] = "added"]
  <2>1. \A p \in Objs : accept'[p] = IF p = o THEN "added" ELSE accept[p]
    BY <1>3 DEF TypeOK
  <2>2. \A p \in Objs : InCan(p)' <=> InCan(p) \/ p = o
    BY <1>2, <1>3, CanGrown DEF CanAdd
  <2>3. \A p \in Objs : Listed(p)' <=> Listed(p)
    BY <1>1 DEF Listed
  <2>4. Keyed'
    BY <1>1, <1>2, <1>3 DEF Sound, Keyed, TypeOK
  <2>5. Numbered' /\ Existing'
    BY <1>1, <1>2, <2>1, <2>2 DEF Sound, Numbered, Existing, Referenced
  <2>6. Apart' /\ Accepted' /\ InPlace'
    BY <1>1, <1>2, <2>1, <2>2, <2>3 DEF Sound, Apart, Accepted, InPlace
  <2>7. LiveOwned' /\ Added' /\ Restoring'
    BY <1>1, <1>2, <2>1, <2>2, <2>3 DEF Sound, LiveOwned, Running, Added, Restoring, TypeOK
  <2> QED BY <2>4, <2>5, <2>6, <2>7 DEF Sound
<1>4. CASE UNCHANGED object_can /\ accept' = [accept EXCEPT ![o] = "handled"]
  <2>1. \A p \in Objs : accept'[p] = IF p = o THEN "handled" ELSE accept[p]
    BY <1>4 DEF TypeOK
  <2>2. /\ Keyed' /\ Numbered' /\ IsInjective(invalid_object_can')
        /\ \A p \in Objs : (InCan(p)' <=> InCan(p)) /\ (Listed(p)' <=> Listed(p))
    BY <1>1, <1>4, InPools
  <2>3. Existing' /\ Apart' /\ Accepted'
    BY <1>1, <1>2, <2>1, <2>2 DEF Sound, Existing, Referenced, Apart, Accepted
  <2>4. Added' /\ InPlace' /\ LiveOwned' /\ Restoring'
    BY <1>1, <1>2, <2>1, <2>2 DEF Sound, Added, InPlace, LiveOwned, Running, Restoring, TypeOK
  <2> QED BY <2>2, <2>3, <2>4 DEF Sound
<1> QED BY <1>3, <1>4 DEF AcceptAdd

(* The accept handler starts what it has added.                              *)
LEMMA StartSound ==
  ASSUME TypeOK, Sound, NEW o \in Objs, AcceptStart(o) PROVE Sound'
<1> USE DEF poolVars, listenVars, appVars, pumpVars, NotCounted
<1>1. /\ accept[o] = "added" /\ \A p \in Objs : accept'[p] = IF p = o THEN "handled" ELSE accept[p]
      /\ \A p \in Objs : stage'[p] = stage[p] \/ (p = o /\ stage'[p] = "live")
      /\ UNCHANGED <<id, cur_id, object_can, invalid_object_can, listening, appVars, pumpVars, role, mode>>
  BY DEF AcceptStart, Started, TypeOK
<1>2. stage[o] = "fresh" /\ InCan(o)
  BY <1>1 DEF Sound, Accepted
<1>3. /\ Keyed' /\ Numbered' /\ IsInjective(invalid_object_can')
      /\ \A p \in Objs : (InCan(p)' <=> InCan(p)) /\ (Listed(p)' <=> Listed(p))
  BY <1>1, <1>2, InPools
<1>4. Existing' /\ Apart' /\ Accepted'
  BY <1>1, <1>2, <1>3 DEF Sound, Existing, Referenced, Apart, Accepted
<1>5. Added' /\ InPlace' /\ LiveOwned' /\ Restoring'
  BY <1>1, <1>2, <1>3 DEF Sound, Added, InPlace, LiveOwned, Running, Restoring, TypeOK
<1> QED BY <1>3, <1>4, <1>5 DEF Sound

(* The application takes a reference.                                        *)
LEMMA HoldSound ==
  ASSUME TypeOK, Sound, NEW o \in Objs, Hold(o) PROVE Sound'
<1> USE DEF poolVars, listenVars, appVars, pumpVars, NotCounted
<1>1. /\ UNCHANGED <<stage, id, cur_id, object_can, invalid_object_can, accept, adder, restorer, role, mode>>
      /\ held' = held \cup {o} /\ (InCan(o) \/ Listed(o))
  BY DEF Hold
<1>2. /\ Keyed' /\ Numbered' /\ IsInjective(invalid_object_can')
      /\ \A p \in Objs : (InCan(p)' <=> InCan(p)) /\ (Listed(p)' <=> Listed(p))
  BY <1>1, InPools
<1>3. stage[o] # "absent"
  BY <1>1 DEF Sound, Existing, Referenced, Apart
<1>4. Existing' /\ Apart' /\ Accepted'
  BY <1>1, <1>2, <1>3 DEF Sound, Existing, Referenced, Apart, Accepted
<1>5. Added' /\ InPlace' /\ LiveOwned' /\ Restoring'
  BY <1>1, <1>2 DEF Sound, Added, InPlace, LiveOwned, Running, Restoring, TypeOK
<1> QED BY <1>2, <1>4, <1>5 DEF Sound

(* The accept handler looks at listening before it goes on, and ends.        *)
LEMMA CheckSound ==
  ASSUME TypeOK, Sound, NEW o \in Objs, AcceptCheck(o) PROVE Sound'
<1> USE DEF poolVars, listenVars, appVars, pumpVars, NotCounted
<1>1. /\ UNCHANGED <<role, mode, id, cur_id, object_can, invalid_object_can, held, adder, restorer>>
      /\ accept[o] = "handled"
      /\ \A p \in Objs \ {o} : accept'[p] = accept[p]
      /\ accept'[o] \in {"no", "next"}
  BY DEF AcceptCheck, TypeOK
<1>2. \A p \in Objs \ {o} : stage'[p] = stage[p]
  BY DEF AcceptCheck, Dropped, Destroyed, TypeOK
<1>3. \/ stage'[o] = stage[o]
      \/ /\ stage'[o] = "absent" /\ stage[o] # "erased" /\ ~InCan(o) /\ ~Listed(o)
         /\ o \notin held' /\ accept'[o] = "no"
  BY DEF AcceptCheck, Dropped, Destroyed, TypeOK
<1> QED BY <1>1, <1>2, <1>3, DropSound

(* An accept that fails or was cancelled.                                    *)
LEMMA FailedSound ==
  ASSUME TypeOK, Sound, NEW o \in Objs, AcceptFailed(o) PROVE Sound'
<1> USE DEF poolVars, listenVars, appVars, pumpVars, NotCounted
<1>1. /\ UNCHANGED <<role, mode, id, cur_id, object_can, invalid_object_can, held, adder, restorer>>
      /\ accept[o] \in {"failed", "aborted"} /\ stage' = Dropped(o)
  BY DEF AcceptFailed
<1>2. \A p \in Objs : IF p = o THEN accept'[p] = "no"
                      ELSE \/ accept'[p] = accept[p]
                           \/ accept[p] = "pending" /\ accept'[p] = "aborted"
  BY DEF AcceptFailed, Cancelled, TypeOK
<1>3. \A p \in Objs \ {o} : stage'[p] = stage[p]
  BY <1>1 DEF Dropped, Destroyed, TypeOK
<1>4. \/ stage'[o] = stage[o]
      \/ /\ stage'[o] = "absent" /\ stage[o] # "erased" /\ ~InCan(o) /\ ~Listed(o) /\ o \notin held'
  BY <1>1 DEF Dropped, Destroyed, TypeOK
<1> QED BY <1>1, <1>2, <1>3, <1>4, DropSound

(* The application gives a reference back.                                   *)
LEMMA ReleaseSound ==
  ASSUME TypeOK, Sound, NEW o \in Objs, Release(o) PROVE Sound'
<1> USE DEF poolVars, listenVars, appVars, pumpVars, NotCounted
<1>1. /\ UNCHANGED <<role, mode, id, cur_id, object_can, invalid_object_can, accept, adder, restorer>>
      /\ o \in held /\ held' = held \ {o}
      /\ \A p \in Objs \ {o} : stage'[p] = stage[p]
      /\ \/ stage'[o] = stage[o]
         \/ stage'[o] = "absent" /\ ~InCan(o) /\ ~Listed(o) /\ accept[o] = "no" /\ stage[o] # "erased"
  BY DEF Release, Destroyed, TypeOK
<1> QED BY <1>1, DropSound

(* Objects that are given out.                                               *)
LEMMA CreationSound ==
  ASSUME TypeOK, Sound, NEW n \in Nat, create_objects(n), UNCHANGED <<role, mode>>,
         \A o \in Objs \ Created(n) : stage[o] = "absent" => stage'[o] = "absent"
  PROVE  /\ Created(n) \subseteq Objs
         /\ \A o \in Created(n) : ~Referenced(o) /\ stage[o] \in {"absent", "obsolete"}
         /\ \A o \in Objs : stage'[o] # "absent" => id'[o] \in Ids
         /\ Numbered'
         /\ UNCHANGED object_can => Keyed'
         /\ \A o \in Objs : Listed(o)' <=> Listed(o) /\ o \notin Created(n)
         /\ IsInjective(invalid_object_can')
<1>1. Created(n) \subseteq Objs /\ \A o \in Created(n) : Free(o)
  BY CreatedAreFree DEF create_objects
<1>2. ASSUME NEW o \in Created(n) PROVE ~Referenced(o) /\ stage[o] \in {"absent", "obsolete"}
  BY <1>1 DEF Free, Poppable, Sound, Existing
<1>3. /\ cur_id <= cur_id' /\ cur_id \in Nat /\ cur_id' \in Nat /\ id \in [Objs -> Nat] /\ id' \in [Objs -> Nat]
      /\ \A o \in Objs \ Created(n) : id'[o] = id[o]
      /\ \A o \in Created(n) : id'[o] \in Ids /\ cur_id < id'[o] /\ id'[o] <= cur_id'
      /\ \A o, p \in Created(n) : id'[o] = id'[p] => o = p
  BY ObjectsCreated, PoolAssumption DEF TypeOK
<1>4. \A o \in Objs : stage'[o] # "absent" => id'[o] \in Ids
  BY <1>1, <1>3 DEF Sound, Keyed
<1>5. Numbered'
  <2>1. role' = "client" => mode' # "restore"
    BY DEF Sound, Numbered
  <2> SUFFICES ASSUME mode # "restore"
               PROVE  /\ \A o \in Objs : stage'[o] # "absent" => id'[o] <= cur_id'
                      /\ \A o, p \in Objs : stage'[o] # "absent" /\ stage'[p] # "absent" /\ id'[o] = id'[p] => o = p
    BY <2>1 DEF Numbered
  <2>2. ASSUME NEW o \in Objs \ Created(n), stage'[o] # "absent" PROVE id'[o] <= cur_id /\ stage[o] # "absent"
    BY <1>3, <2>2 DEF Sound, Numbered
  <2>3. \A o \in Objs : stage'[o] # "absent" => id'[o] <= cur_id'
    BY <1>3, <2>2
  <2>4. ASSUME NEW o \in Objs, NEW p \in Objs, stage'[o] # "absent", stage'[p] # "absent", id'[o] = id'[p]
        PROVE  o = p
    <3>1. CASE o \in Created(n) /\ p \in Created(n)
      BY <1>3, <2>4, <3>1
    <3>2. CASE o \in Created(n) /\ p \notin Created(n)
      BY <1>3, <2>2, <2>4, <3>2
    <3>3. CASE o \notin Created(n) /\ p \in Created(n)
      BY <1>3, <2>2, <2>4, <3>3
    <3>4. CASE o \notin Created(n) /\ p \notin Created(n)
      BY <1>3, <2>2, <2>4, <3>4 DEF Sound, Numbered
    <3> QED BY <3>1, <3>2, <3>3, <3>4
  <2> QED BY <2>3, <2>4
<1>6. ASSUME UNCHANGED object_can PROVE Keyed'
  <2>1. ASSUME NEW i \in Ids, object_can[i] # None PROVE id'[object_can[i]] = i
    <3>1. object_can[i] \in Objs /\ InCan(object_can[i])
      BY <2>1 DEF TypeOK, InCan
    <3>2. object_can[i] \notin Created(n)
      BY <1>2, <3>1 DEF Referenced
    <3> QED BY <1>3, <2>1, <3>1, <3>2 DEF Sound, Keyed
  <2> QED BY <1>4, <1>6, <2>1 DEF Keyed
<1>7. /\ \A o \in Objs : Listed(o)' <=> Listed(o) /\ o \notin Created(n)
      /\ IsInjective(invalid_object_can')
  BY ObjectsCreated DEF Sound, Apart
<1> QED BY <1>1, <1>2, <1>4, <1>5, <1>6, <1>7

(* start_next_accept: one object comes, the reference of the handler goes.   *)
LEMMA NextSound ==
  ASSUME TypeOK, Sound, NEW o \in Objs, start_next_accept(o) PROVE Sound'
<1> USE DEF poolVars, listenVars, appVars, pumpVars, NotCounted
<1> DEFINE c == NewObject
<1>1. /\ create_objects(1) /\ CanCreate(1) /\ accept[o] = "next"
      /\ stage' = [Fresh(1) EXCEPT ![o] = Dropped(o)[o]]
      /\ accept' = [accept EXCEPT ![o] = "no", ![c] = Accepting(listening)]
      /\ UNCHANGED <<object_can, listening, appVars, pumpVars, role, mode>>
  BY DEF start_next_accept, create_objects
<1>2. c \in Objs /\ Created(1) = {c}
  BY <1>1, CreatedAreFree
<1>3. Dropped(o)[o] = stage[o]
      \/ (Dropped(o)[o] = "absent" /\ ~InCan(o) /\ o \notin held /\ ~Listed(o) /\ stage[o] = "fresh")
  BY DEF Dropped, Destroyed, TypeOK
<1>4. \A p \in Objs : stage'[p] = IF p = o THEN Dropped(o)[o] ELSE IF p = c THEN "fresh" ELSE stage[p]
  <2>1. Fresh(1) = [p \in Objs |-> IF p \in Created(1) THEN "fresh" ELSE stage[p]]
    BY DEF Fresh
  <2> HIDE DEF c
  <2> QED BY <1>1, <1>2, <2>1
<1>5. stage[o] # "absent"
  BY <1>1 DEF Sound, Existing, Referenced
<1> HIDE DEF c
<1>6. /\ ~Referenced(c) /\ stage[c] \in {"absent", "obsolete"} /\ Numbered' /\ Keyed'
      /\ \A p \in Objs : Listed(p)' <=> Listed(p) /\ p # c
      /\ IsInjective(invalid_object_can')
  <2>1. \A p \in Objs \ Created(1) : stage[p] = "absent" => stage'[p] = "absent"
    BY <1>2, <1>4, <1>5
  <2> QED BY <1>1, <1>2, <2>1, CreationSound
<1>7. c # o /\ ~InCan(c) /\ accept[c] = "no" /\ adder # c /\ c \notin held
  BY <1>1, <1>6 DEF Referenced
<1>8. \A p \in Objs : IF p = o THEN accept'[p] = "no"
                      ELSE IF p = c THEN accept'[p] \in {"pending", "failed"} ELSE accept'[p] = accept[p]
  BY <1>1, <1>7 DEF Accepting, TypeOK
<1>9. role = "server" /\ adder = None /\ None \notin Objs
  BY <1>1, PoolAssumption DEF Sound, Accepted, Added
<1>10. \A p \in Objs : InCan(p)' <=> InCan(p)
  BY <1>1, CanSame
<1>11. restorer.old # None => restorer.new # None
  BY <1>9 DEF TypeOK
<1>12. /\ restorer.new # None => restorer.old # o /\ restorer.old # c
       /\ restorer.new = o \/ restorer.old = o => stage'[o] = stage[o]
  <2>1. restorer.new # None => restorer.old # o /\ restorer.old # c
    BY <1>1, <1>6 DEF Sound, Restoring, Referenced
  <2>2. restorer.new = o => stage'[o] = stage[o]
    BY <1>3, <1>4, <1>9 DEF Sound, Restoring
  <2> QED BY <1>9, <1>11, <2>1, <2>2
<1>13. Existing'
  <2> SUFFICES ASSUME NEW p \in Objs, Referenced(p)' PROVE stage'[p] # "absent"
    BY DEF Existing
  <2>1. CASE p = o
    <3> SUFFICES ASSUME stage'[o] # stage[o] PROVE FALSE
      BY <1>5, <2>1
    <3>1. ~InCan(o)' /\ o \notin held' /\ accept'[o] = "no" /\ adder' # o /\ stage'[o] # "erased"
      BY <1>1, <1>3, <1>4, <1>8, <1>9, <1>10
    <3>2. restorer'.new # o /\ restorer'.old # o
      BY <1>1, <1>12
    <3> QED BY <2>1, <3>1, <3>2 DEF Referenced
  <2>2. CASE p = c
    BY <1>4, <1>7, <2>2
  <2>3. CASE p # o /\ p # c
    <3>1. stage'[p] = stage[p] /\ accept'[p] = accept[p] /\ (InCan(p)' <=> InCan(p))
      BY <1>4, <1>8, <1>10, <2>3
    <3>2. Referenced(p)
      BY <1>1, <3>1 DEF Referenced
    <3> QED BY <3>1, <3>2 DEF Sound, Existing
  <2> QED BY <2>1, <2>2, <2>3
<1>14. Apart'
  BY <1>3, <1>4, <1>6, <1>7, <1>10 DEF Sound, Apart
<1>15. Accepted'
  <2>1. ASSUME NEW p \in Objs
        PROVE  /\ accept'[p] \in {"pending", "ok", "failed", "aborted"} => stage'[p] = "fresh" /\ ~InCan(p)'
               /\ accept'[p] = "added" => stage'[p] = "fresh" /\ InCan(p)'
    <3>1. CASE p = o
      BY <1>8, <3>1
    <3>2. CASE p = c
      BY <1>4, <1>7, <1>8, <1>10, <3>2
    <3>3. CASE p # o /\ p # c
      <4>1. accept'[p] = accept[p] /\ stage'[p] = stage[p] /\ (InCan(p)' <=> InCan(p))
        BY <1>4, <1>8, <1>10, <3>3
      <4> QED BY <4>1 DEF Sound, Accepted
    <3> QED BY <3>1, <3>2, <3>3
  <2>2. role' = "server"
    BY <1>1, <1>9
  <2> QED BY <2>1, <2>2 DEF Accepted
<1>16. Added'
  BY <1>1, <1>9 DEF Added
<1>17. InPlace'
  BY <1>1, <1>3, <1>4, <1>10 DEF Sound, InPlace
<1>18. LiveOwned'
  BY <1>3, <1>4, <1>6, <1>10 DEF Sound, LiveOwned, Running
<1>19. Restoring'
  <2> SUFFICES ASSUME restorer.new # None PROVE Restoring'
    BY <1>1 DEF Restoring
  <2>1. restorer.new \in Objs /\ restorer.old \in Objs
    BY DEF TypeOK
  <2>2. restorer.new # c
    BY <1>6, <1>9 DEF Referenced
  <2>3. stage'[restorer.new] = stage[restorer.new] /\ stage'[restorer.old] = stage[restorer.old]
    BY <1>4, <1>12, <2>1, <2>2
  <2> QED BY <1>1, <1>6, <1>8, <1>10, <1>12, <2>1, <2>3 DEF Sound, Restoring
<1> QED BY <1>6, <1>13, <1>14, <1>15, <1>16, <1>17, <1>18, <1>19 DEF Sound

(* start_listen: AcceptNum objects come, or are freed again when it fails.   *)
LEMMA ListenSound ==
  ASSUME TypeOK, Sound, role = "server", NEW listens \in BOOLEAN, start_listen(listens),
         UNCHANGED <<role, mode, object_can, held, adder, restorer>>
  PROVE  Sound'
<1> DEFINE C == Created(AcceptNum)
<1>1. AcceptNum \in Nat /\ CanCreate(AcceptNum) /\ None \notin Objs
  BY PoolAssumption DEF start_listen
<1>2. C \subseteq Objs /\ \A o \in C : Free(o)
  BY <1>1, CreatedAreFree
<1>3. \A o \in C : ~Referenced(o) /\ stage[o] \in {"absent", "obsolete"}
  BY <1>2 DEF Free, Poppable, Sound, Existing
<1>4. \A o \in Objs : InCan(o)' <=> InCan(o)
  BY CanSame
<1>5. /\ IF listens THEN \A o \in Objs : stage'[o] = IF o \in C THEN "fresh" ELSE stage[o]
                    ELSE \A o \in Objs : stage'[o] = IF o \in C THEN "absent" ELSE stage[o]
      /\ \A o \in Objs : accept'[o] = IF listens /\ o \in C THEN "pending" ELSE accept[o]
  BY DEF start_listen, Fresh, Destroyed, TypeOK
<1>6. /\ Keyed' /\ Numbered' /\ IsInjective(invalid_object_can')
      /\ \A o \in Objs : Listed(o)' <=> Listed(o) /\ o \notin C
  <2>1. CASE listens
    <3>1. create_objects(AcceptNum)
      BY <2>1 DEF start_listen
    <3>2. \A o \in Objs \ C : stage[o] = "absent" => stage'[o] = "absent"
      BY <1>5, <2>1
    <3> QED BY <1>1, <3>1, <3>2, CreationSound
  <2>2. CASE ~listens
    <3>1. /\ UNCHANGED id /\ cur_id' = cur_id + AcceptNum
          /\ invalid_object_can' = Only(invalid_object_can, Objs \ C)
      BY <2>2 DEF start_listen
    <3>2. IsInjective(invalid_object_can') /\ \A o \in Objs : Listed(o)' <=> Listed(o) /\ o \notin C
      <4> HIDE DEF C
      <4> QED BY <3>1, OnlyKeeps DEF Listed, TypeOK, Sound, Apart
    <3>3. cur_id \in Nat /\ cur_id <= cur_id' /\ id \in [Objs -> Nat]
      BY <1>1, <3>1, PoolAssumption DEF TypeOK
    <3>4. \A o \in Objs : stage'[o] # "absent" => stage[o] # "absent"
      BY <1>5, <2>2
    <3>5. Keyed'
      BY <3>1, <3>4 DEF Sound, Keyed
    <3>6. Numbered'
      <4>1. cur_id' \in Nat
        BY <1>1, <3>1, <3>3
      <4>2. \A o \in Objs : stage'[o] # "absent" /\ mode # "restore" => id'[o] <= cur_id'
        BY <3>1, <3>3, <3>4, <4>1 DEF Sound, Numbered
      <4> QED BY <3>1, <3>4, <4>2 DEF Sound, Numbered
    <3> QED BY <3>2, <3>5, <3>6
  <2> QED BY <2>1, <2>2
<1> HIDE DEF C
<1>7. \A o \in C : ~InCan(o) /\ accept[o] = "no" /\ o \notin held /\ adder # o /\ restorer.new # o /\ restorer.old # o
  BY <1>3 DEF Referenced
<1>8. Existing'
  BY <1>2, <1>4, <1>5, <1>7 DEF Sound, Existing, Referenced
<1>9. Apart'
  BY <1>4, <1>5, <1>6, <1>7 DEF Sound, Apart
<1>10. Accepted'
  BY <1>4, <1>5, <1>7 DEF Sound, Accepted
<1>11. Added'
  BY DEF Sound, Added
<1>12. InPlace'
  BY <1>4, <1>5 DEF Sound, InPlace
<1>13. LiveOwned'
  BY <1>4, <1>5, <1>6 DEF Sound, LiveOwned, Running
<1>14. Restoring'
  BY <1>1, <1>4, <1>5, <1>6, <1>7 DEF Sound, Restoring, TypeOK
<1> QED BY <1>6, <1>8, <1>9, <1>10, <1>11, <1>12, <1>13, <1>14 DEF Sound

(* add_socket: an object comes and is added under a key that was never used. *)
LEMMA AddClientSound ==
  ASSUME TypeOK, Sound, AddClient PROVE Sound'
<1> USE DEF poolVars, listenVars, appVars, pumpVars, NotCounted
<1> DEFINE c == NewObject
<1>1. /\ create_objects(1) /\ CanCreate(1) /\ stage' = Fresh(1) /\ role = "client" /\ adder = None
      /\ \/ /\ object_can' = [object_can EXCEPT ![cur_id + 1] = c] /\ adder' = c /\ UNCHANGED held
         \/ held' = held \cup {c} /\ UNCHANGED <<object_can, adder>>
      /\ UNCHANGED <<listenVars, restorer, role, mode>>
  BY DEF AddClient, create_objects
<1>2. c \in Objs /\ Created(1) = {c} /\ None \notin Objs
  BY <1>1, CreatedAreFree, PoolAssumption
<1>3. \A p \in Objs : stage'[p] = IF p = c THEN "fresh" ELSE stage[p]
  BY <1>1, <1>2 DEF Fresh
<1>4. cur_id + 1 \in Ids /\ id'[c] = cur_id + 1 /\ \A p \in Objs \ {c} : id'[p] = id[p]
  BY <1>1, <1>2, ObjectsCreated
<1> HIDE DEF c
<1>5. /\ ~Referenced(c) /\ stage[c] \in {"absent", "obsolete"} /\ Numbered'
      /\ \A p \in Objs : stage'[p] # "absent" => id'[p] \in Ids
      /\ UNCHANGED object_can => Keyed'
      /\ \A p \in Objs : Listed(p)' <=> Listed(p) /\ p # c
      /\ IsInjective(invalid_object_can')
  <2>1. \A p \in Objs \ Created(1) : stage[p] = "absent" => stage'[p] = "absent"
    BY <1>2, <1>3
  <2> QED BY <1>1, <1>2, <2>1, CreationSound
<1>6. ~InCan(c) /\ accept[c] = "no" /\ restorer.new = None
  BY <1>1, <1>5 DEF Referenced, Sound, Restoring, Numbered
<1>7. object_can[cur_id + 1] = None
  <2> SUFFICES ASSUME object_can[cur_id + 1] # None PROVE FALSE
    OBVIOUS
  <2> DEFINE p == object_can[cur_id + 1]
  <2>1. p \in Objs /\ InCan(p) /\ id[p] = cur_id + 1
    BY <1>4 DEF TypeOK, InCan, Sound, Keyed
  <2>2. stage[p] # "absent"
    BY <2>1 DEF Sound, Existing, Referenced
  <2>3. id[p] <= cur_id /\ cur_id \in Nat
    BY <1>1, <2>1, <2>2, PoolAssumption DEF Sound, Numbered, TypeOK
  <2> QED BY <2>1, <2>3
<1>8. Keyed' /\ \A p \in Objs : InCan(p)' <=> InCan(p) \/ (p = c /\ adder' = c)
  <2>1. CASE object_can' = [object_can EXCEPT ![cur_id + 1] = c] /\ adder' = c
    <3>1. \A p \in Objs : InCan(p)' <=> InCan(p) \/ p = c
      BY <1>2, <1>4, <1>7, <2>1, CanGrown
    <3>2. ASSUME NEW i \in Ids, object_can'[i] # None PROVE id'[object_can'[i]] = i
      <4>1. CASE i = cur_id + 1
        BY <1>4, <2>1, <4>1 DEF TypeOK
      <4>2. CASE i # cur_id + 1
        <5>1. object_can'[i] = object_can[i] /\ object_can[i] \in Objs /\ InCan(object_can[i])
          BY <2>1, <3>2, <4>2 DEF TypeOK, InCan
        <5>2. object_can[i] # c
          BY <1>6, <5>1
        <5> QED BY <1>4, <3>2, <5>1, <5>2 DEF Sound, Keyed
      <4> QED BY <4>1, <4>2
    <3> QED BY <1>5, <2>1, <3>1, <3>2 DEF Keyed
  <2>2. CASE UNCHANGED <<object_can, adder>>
    BY <1>1, <1>2, <1>5, <2>2, CanSame
  <2> QED BY <1>1, <2>1, <2>2
<1>9. Existing'
  <2>1. held' \subseteq held \cup {c} /\ adder' \in {c, None}
    BY <1>1
  <2> QED BY <1>1, <1>2, <1>3, <1>8, <2>1 DEF Sound, Existing, Referenced
<1>10. Apart'
  BY <1>3, <1>5, <1>6, <1>8 DEF Sound, Apart
<1>11. Accepted'
  BY <1>1, <1>3, <1>6, <1>8 DEF Sound, Accepted
<1>12. Added'
  BY <1>1, <1>2, <1>8 DEF Added
<1>13. InPlace'
  BY <1>1, <1>3, <1>8 DEF Sound, InPlace
<1>14. LiveOwned'
  BY <1>3, <1>5, <1>8 DEF Sound, LiveOwned, Running
<1>15. Restoring'
  BY <1>1, <1>6 DEF Restoring
<1> QED BY <1>5, <1>8, <1>9, <1>10, <1>11, <1>12, <1>13, <1>14, <1>15 DEF Sound

(* An explicit deletion: o goes from object_can to the list while it runs.   *)
LEMMA ShutdownSound ==
  ASSUME TypeOK, Sound, NEW o \in Objs, ShutdownHeld(o) PROVE Sound'
<1> USE DEF poolVars, listenVars, appVars, pumpVars, NotCounted
<1>1. /\ mode # "restore" /\ o \in held /\ InCan(o) /\ stage[o] \in {"live", "closing"}
      /\ object_can' = EraseId(object_can, id[o])
      /\ invalid_object_can' = Append(invalid_object_can, o)
      /\ UNCHANGED <<role, mode, id, cur_id, accept, held, adder, restorer>>
  BY DEF ShutdownHeld
<1>2. \A p \in Objs : IF p = o THEN stage'[p] = "closing" ELSE stage'[p] = stage[p]
  BY <1>1 DEF ShutdownHeld, Shut, TypeOK
<1>3. /\ \A p \in Objs : InCan(p)' <=> InCan(p) /\ p # o
      /\ \A i \in Ids : object_can'[i] # None => object_can'[i] = object_can[i]
  BY <1>1, CanErased DEF Sound
<1>4. /\ \A p \in Objs : Listed(p)' <=> Listed(p) \/ p = o
      /\ IsInjective(invalid_object_can')
  <2>1. ~Listed(o) /\ IsInjective(invalid_object_can) /\ invalid_object_can \in Seq(Objs)
    BY <1>1 DEF Sound, Apart, TypeOK
  <2> QED BY <1>1, <2>1, ListAppend DEF Listed
<1>5. restorer.new = None
  BY <1>1 DEF Sound, Restoring
<1>6. Keyed'
  BY <1>1, <1>2, <1>3 DEF Sound, Keyed
<1>7. Numbered'
  BY <1>1, <1>2 DEF Sound, Numbered
<1>8. Existing'
  BY <1>1, <1>2, <1>3 DEF Sound, Existing, Referenced
<1>9. Apart'
  BY <1>2, <1>3, <1>4 DEF Sound, Apart
<1>10. Accepted'
  BY <1>1, <1>2, <1>3 DEF Sound, Accepted
<1>11. Added'
  BY <1>1, <1>2, <1>3, <1>4 DEF Sound, Added, TypeOK
<1>12. InPlace' /\ Restoring'
  BY <1>1, <1>5 DEF InPlace, Restoring
<1>13. LiveOwned'
  BY <1>2, <1>3, <1>4 DEF Sound, LiveOwned, Running
<1> QED BY <1>4, <1>6, <1>7, <1>8, <1>9, <1>10, <1>11, <1>12, <1>13 DEF Sound

(* restore_socket takes an invalid object out of the list.                   *)
LEMMA PopSound ==
  ASSUME TypeOK, Sound, NEW o \in Objs, NEW i \in Ids, RestorePop(o, i) PROVE Sound'
<1> USE DEF poolVars, listenVars, appVars, pumpVars, NotCounted
<1>1. PICK found \in DOMAIN invalid_object_can :
         /\ Poppable(invalid_object_can[found])
         /\ restorer' = [new |-> o, old |-> invalid_object_can[found]]
         /\ invalid_object_can' = RemoveAt(invalid_object_can, found)
  BY DEF RestorePop
<1> DEFINE old == invalid_object_can[found]
<1>2. /\ mode = "restore" /\ stage[o] = "live" /\ InCan(o)
      /\ UNCHANGED <<role, mode, stage, id, cur_id, object_can, accept, held, adder>>
  BY DEF RestorePop
<1>3. /\ \A p \in Objs : Listed(p)' <=> Listed(p) /\ p # old
      /\ IsInjective(invalid_object_can')
  BY <1>1, ListRemove DEF Listed, Sound, Apart, TypeOK
<1>4. old \in Objs /\ stage[old] = "obsolete" /\ ~Referenced(old)
  BY <1>1 DEF TypeOK, Poppable
<1>5. restorer'.new = o /\ restorer'.old = old
  BY <1>1
<1> HIDE DEF old
<1>6. ~InCan(old) /\ old \notin held /\ accept[old] = "no" /\ adder # old
  BY <1>4 DEF Referenced
<1>7. \A p \in Objs : InCan(p)' <=> InCan(p)
  BY <1>2, CanSame
<1>8. adder = None
  BY <1>2 DEF Sound, Added, Numbered
<1>9. Keyed' /\ Numbered'
  BY <1>2 DEF Sound, Keyed, Numbered
<1>10. Existing'
  BY <1>2, <1>4, <1>5, <1>7 DEF Sound, Existing, Referenced
<1>11. Apart'
  BY <1>2, <1>3, <1>7 DEF Sound, Apart
<1>12. Accepted' /\ InPlace'
  BY <1>2, <1>7 DEF Sound, Accepted, InPlace
<1>13. Added'
  BY <1>2, <1>8 DEF Added
<1>14. LiveOwned'
  BY <1>2, <1>3, <1>4, <1>7 DEF Sound, LiveOwned, Running
<1>15. Restoring'
  BY <1>2, <1>3, <1>4, <1>5, <1>6, <1>7 DEF Restoring
<1> QED BY <1>3, <1>9, <1>10, <1>11, <1>12, <1>13, <1>14, <1>15 DEF Sound

(* restore_socket gives its id to the new object, or puts it back.           *)
LEMMA RestoreSound ==
  ASSUME TypeOK, Sound, RestoreInit PROVE Sound'
<1> USE DEF poolVars, listenVars, appVars, pumpVars, NotCounted
<1> DEFINE o == restorer.new
           old == restorer.old
           i == id[old]
<1>1. /\ o # None /\ o \in Objs /\ old \in Objs /\ mode = "restore" /\ adder = None
      /\ restorer' = [new |-> None, old |-> None] /\ None \notin Objs
      /\ UNCHANGED <<role, mode, cur_id, accept, held, adder>>
  BY PoolAssumption DEF RestoreInit, TypeOK, Sound, Restoring, Added, Numbered
<1>2. /\ InCan(o) /\ stage[o] \in {"live", "closing"}
      /\ stage[old] = "obsolete" /\ ~InCan(old) /\ ~Listed(old) /\ old \notin held /\ accept[old] = "no"
  BY <1>1 DEF Sound, Restoring
<1>3. i \in Ids
  BY <1>1, <1>2 DEF Sound, Keyed
<1>4. \/ UNCHANGED <<stage, id, object_can>> /\ invalid_object_can' = Append(invalid_object_can, old)
      \/ /\ stage' = Destroyed({old}) /\ UNCHANGED invalid_object_can
         /\ \/ UNCHANGED <<id, object_can>>
            \/ object_can[i] = None /\ object_can' = EraseOld(o, i) /\ id' = [id EXCEPT ![o] = i]
  BY DEF RestoreInit
<1>5. \A p \in Objs : stage'[p] = stage[p] \/ (p = old /\ stage'[p] = "absent" /\ UNCHANGED invalid_object_can)
  BY <1>4 DEF Destroyed, TypeOK
<1> HIDE DEF o, old, i
<1>6. /\ \A p \in Objs : InCan(p)' <=> InCan(p)
      /\ \A k \in Ids : object_can'[k] # None => id'[object_can'[k]] = k
      /\ \A p \in Objs : id'[p] = id[p] \/ id'[p] = i
  <2>1. CASE UNCHANGED <<id, object_can>>
    BY <2>1, CanSame DEF Sound, Keyed
  <2>2. CASE object_can[i] = None /\ object_can' = EraseOld(o, i) /\ id' = [id EXCEPT ![o] = i]
    <3>1. \A p \in Objs : id'[p] = id[p] \/ id'[p] = i
      BY <2>2 DEF TypeOK
    <3> QED BY <1>1, <1>2, <1>3, <2>2, <3>1, CanMoved DEF Sound
  <2> QED BY <1>4, <2>1, <2>2
<1>7. /\ IsInjective(invalid_object_can')
      /\ \/ \A p \in Objs : Listed(p)' <=> Listed(p)
         \/ (\A p \in Objs : Listed(p)' <=> Listed(p) \/ p = old) /\ stage'[old] = stage[old]
  <2>1. invalid_object_can \in Seq(Objs) /\ IsInjective(invalid_object_can)
    BY DEF TypeOK, Sound, Apart
  <2>2. CASE UNCHANGED <<stage, id, object_can>> /\ invalid_object_can' = Append(invalid_object_can, old)
    BY <1>1, <1>2, <2>1, <2>2, ListAppend DEF Listed
  <2>3. CASE UNCHANGED invalid_object_can
    BY <2>1, <2>3 DEF Listed
  <2> QED BY <1>4, <2>2, <2>3
<1>8. Keyed'
  BY <1>3, <1>5, <1>6 DEF Sound, Keyed
<1>9. Numbered'
  BY <1>1 DEF Sound, Numbered
<1>10. Existing'
  BY <1>1, <1>2, <1>5, <1>6 DEF Sound, Existing, Referenced
<1>11. Apart'
  BY <1>1, <1>2, <1>5, <1>6, <1>7 DEF Sound, Apart
<1>12. Accepted'
  BY <1>1, <1>2, <1>5, <1>6 DEF Sound, Accepted
<1>13. Added' /\ Restoring'
  BY <1>1 DEF Added, Restoring
<1>14. InPlace'
  BY <1>1, <1>5, <1>6 DEF Sound, InPlace
<1>15. LiveOwned'
  BY <1>2, <1>5, <1>6, <1>7 DEF Sound, LiveOwned, Running
<1> QED BY <1>7, <1>8, <1>9, <1>10, <1>11, <1>12, <1>13, <1>14, <1>15 DEF Sound

(* restore_socket with an id that is free.                                   *)
LEMMA AnewSound ==
  ASSUME TypeOK, Sound, NEW o \in Objs, NEW i \in Ids, RestoreAnew(o, i) PROVE Sound'
<1> USE DEF poolVars, listenVars, appVars, pumpVars, NotCounted
<1>1. /\ mode = "restore" /\ stage[o] = "live" /\ InCan(o) /\ object_can[i] = None
      /\ object_can' = EraseOld(o, i) /\ id' = [id EXCEPT ![o] = i]
      /\ UNCHANGED <<role, mode, stage, cur_id, invalid_object_can, accept, held, adder, restorer>>
  BY DEF RestoreAnew
<1>2. /\ \A p \in Objs : InCan(p)' <=> InCan(p)
      /\ \A k \in Ids : object_can'[k] # None => id'[object_can'[k]] = k
  BY <1>1, CanMoved DEF Sound
<1>3. /\ \A p \in Objs : Listed(p)' <=> Listed(p)
      /\ IsInjective(invalid_object_can')
  BY <1>1 DEF Listed, Sound, Apart
<1>4. \A p \in Objs : id'[p] = id[p] \/ id'[p] = i
  BY <1>1 DEF TypeOK
<1>5. Keyed'
  BY <1>1, <1>2, <1>4 DEF Sound, Keyed
<1>6. Numbered'
  BY <1>1 DEF Sound, Numbered
<1>7. Existing'
  BY <1>1, <1>2 DEF Sound, Existing, Referenced
<1>8. Apart' /\ Accepted' /\ InPlace'
  BY <1>1, <1>2, <1>3 DEF Sound, Apart, Accepted, InPlace
<1>9. Added'
  BY <1>1 DEF Sound, Added, Numbered
<1>10. LiveOwned'
  BY <1>1, <1>2, <1>3 DEF Sound, LiveOwned, Running
<1>11. Restoring'
  BY <1>1, <1>2, <1>3, PoolAssumption DEF Sound, Restoring, TypeOK
<1> QED BY <1>3, <1>5, <1>6, <1>7, <1>8, <1>9, <1>10, <1>11 DEF Sound

(* add_socket starts what it has added.                                      *)
LEMMA AddedSound ==
  ASSUME TypeOK, Sound, AddClientStart PROVE Sound'
<1> USE DEF poolVars, listenVars, appVars, pumpVars, NotCounted
<1>1. /\ adder \in Objs /\ adder' = None /\ None \notin Objs
      /\ UNCHANGED <<role, mode, id, cur_id, object_can, invalid_object_can, accept, held, restorer>>
  BY PoolAssumption DEF AddClientStart, TypeOK
<1>2. \A p \in Objs : \/ stage'[p] = stage[p]
                      \/ p = adder /\ stage[p] = "fresh" /\ stage'[p] = "live"
  BY DEF AddClientStart, StartIfStarted, Started, TypeOK
<1>3. stage[adder] = "fresh" => InCan(adder)
  BY <1>1 DEF Sound, Added, Apart
<1>4. role = "client" /\ restorer.new = None
  BY <1>1 DEF Sound, Added, Restoring, Numbered
<1>5. /\ Keyed' /\ Numbered' /\ IsInjective(invalid_object_can')
      /\ \A p \in Objs : (InCan(p)' <=> InCan(p)) /\ (Listed(p)' <=> Listed(p))
  BY <1>1, <1>2, InPools
<1>6. Existing'
  BY <1>1, <1>2, <1>5 DEF Sound, Existing, Referenced
<1>7. Apart'
  BY <1>2, <1>5 DEF Sound, Apart
<1>8. Accepted'
  BY <1>1, <1>4 DEF Sound, Accepted
<1>9. Added' /\ Restoring'
  BY <1>1, <1>4 DEF Added, Restoring
<1>10. InPlace' /\ LiveOwned'
  BY <1>1, <1>2, <1>3, <1>5 DEF Sound, InPlace, LiveOwned, Running
<1> QED BY <1>5, <1>6, <1>7, <1>8, <1>9, <1>10 DEF Sound

(* The service has ended: object_can is emptied.                             *)
LEMMA WaitSound ==
  ASSUME TypeOK, Sound, WaitService PROVE Sound'
<1> USE DEF poolVars, listenVars, appVars, pumpVars, NotCounted
<1>1. /\ Idle /\ adder = None /\ restorer.new = None
      /\ \A k \in Ids : object_can'[k] = None
      /\ stage' = Destroyed({o \in Managed : o \notin held /\ ~Listed(o)})
      /\ UNCHANGED <<role, mode, id, cur_id, invalid_object_can, accept, held, adder, restorer>>
  BY DEF WaitService
<1>2. \A o \in Objs : /\ accept[o] = "no" /\ ~Running(o) /\ ~InCan(o)'
                      /\ stage'[o] = stage[o] \/ (stage'[o] = "absent" /\ o \notin held /\ ~Listed(o))
  <2>1. None \notin Objs
    BY PoolAssumption
  <2> QED BY <1>1, <2>1 DEF Idle, InCan, Destroyed, TypeOK
<1>3. /\ \A o \in Objs : Listed(o)' <=> Listed(o)
      /\ IsInjective(invalid_object_can')
  BY <1>1 DEF Listed, Sound, Apart
<1>4. Keyed'
  BY <1>1, <1>2 DEF Sound, Keyed
<1>5. Numbered'
  BY <1>1, <1>2 DEF Sound, Numbered
<1>6. restorer.old = None /\ None \notin Objs
  BY <1>1, PoolAssumption DEF TypeOK
<1>7. Existing'
  BY <1>1, <1>2, <1>6 DEF Sound, Existing, Referenced, Running
<1>8. Apart' /\ Accepted'
  BY <1>1, <1>2, <1>3 DEF Sound, Apart, Accepted
<1>9. Added' /\ InPlace' /\ Restoring' /\ LiveOwned'
  BY <1>1, <1>2 DEF Added, InPlace, Restoring, LiveOwned, Running
<1> QED BY <1>3, <1>4, <1>5, <1>7, <1>8, <1>9 DEF Sound

(* Every step keeps the two containers sound.                                *)
LEMMA SoundStep == TypeOK /\ Sound /\ [Next]_vars => Sound'
<1> SUFFICES ASSUME TypeOK, Sound, [Next]_vars PROVE Sound'
  OBVIOUS
<1> USE DEF poolVars, listenVars, appVars, pumpVars, NotCounted
<1>1. CASE free_object \/ clear_obsoleted_object
  BY <1>1, FreeSound, ClearSound
<1>2. ASSUME NEW o \in Objs, Break(o) \/ Connect(o) PROVE Sound'
  <2>1. /\ UNCHANGED <<role, mode, id, cur_id, object_can, invalid_object_can, held, adder, restorer>>
        /\ \A p \in Objs : stage'[p] = stage[p] \/ (stage[p] = "live" /\ stage'[p] = "closing")
        /\ \A p \in Objs : accept'[p] = accept[p] \/ (accept[p] = "pending" /\ accept'[p] \in {"ok", "failed"})
    BY <1>2 DEF Break, Connect, Shut, TypeOK
  <2> QED BY <2>1, OnwardSound
<1>3. ASSUME NEW o \in Objs, Handlers(o) PROVE Sound'
  BY <1>3, EraseSound, PushSound, ObsoleteSound, AddSound, StartSound, CheckSound, FailedSound, NextSound
     DEF Handlers
<1>4. ASSUME NEW o \in Objs, App(o) PROVE Sound'
  BY <1>4, HoldSound, ReleaseSound, ShutdownSound, PopSound, AnewSound DEF App
<1>5. CASE Listen
  <2>1. /\ role = "server" /\ start_listen(TRUE)
        /\ UNCHANGED <<role, mode, object_can, held, adder, restorer>>
    BY <1>5 DEF Listen
  <2> QED BY <2>1, ListenSound
<1>6. CASE StopListen \/ StartService \/ EndService \/ UninitListen
  <2>1. /\ UNCHANGED <<role, mode, id, cur_id, object_can, invalid_object_can, held, adder, restorer, stage>>
        /\ \A p \in Objs : accept'[p] = accept[p] \/ (accept[p] = "pending" /\ accept'[p] = "aborted")
    BY <1>6 DEF StopListen, StartService, EndService, UninitListen, Cancelled, TypeOK
  <2> QED BY <2>1, OnwardSound
<1>7. CASE InitServer
  <2>1. role = "server" /\ UNCHANGED <<role, mode, object_can, held, adder, restorer>>
    BY <1>7 DEF InitServer
  <2>2. CASE \E listens \in BOOLEAN : start_listen(listens)
    BY <2>1, <2>2, ListenSound
  <2>3. CASE UNCHANGED <<poolVars, listenVars>>
    BY <2>1, <2>3, OnwardSound
  <2> QED BY <1>7, <2>2, <2>3 DEF InitServer
<1>8. CASE InitClients
  <2>1. /\ role = "client"
        /\ UNCHANGED <<role, mode, id, cur_id, object_can, invalid_object_can, held, adder, restorer, accept>>
        /\ \A p \in Objs : stage'[p] = stage[p] \/ (stage[p] = "fresh" /\ stage'[p] = "live" /\ InCan(p))
    BY <1>8 DEF InitClients, Started, TypeOK
  <2>2. \A p \in Objs : accept[p] = "no"
    BY <2>1 DEF Sound, Accepted
  <2> QED BY <2>1, <2>2, OnwardSound
<1>9. CASE UninitShutdown
  <2>1. /\ UNCHANGED <<role, mode, id, cur_id, object_can, invalid_object_can, held, adder, restorer, accept>>
        /\ \A p \in Objs : stage'[p] = stage[p] \/ (stage[p] = "live" /\ stage'[p] = "closing")
    BY <1>9 DEF UninitShutdown, Shut, TypeOK
  <2> QED BY <2>1, OnwardSound
<1>10. CASE WaitService \/ AddClient \/ AddClientStart \/ RestoreInit
  BY <1>10, WaitSound, AddClientSound, AddedSound, RestoreSound
<1>11. CASE UNCHANGED vars
  <2>1. UNCHANGED <<role, mode, id, cur_id, object_can, invalid_object_can, held, adder, restorer, stage, accept>>
    BY <1>11 DEF vars
  <2> QED BY <2>1, OnwardSound
<1> QED BY <1>1, <1>2, <1>3, <1>4, <1>5, <1>6, <1>7, <1>8, <1>9, <1>10, <1>11 DEF Next, Service

(* They are sound at the start, being empty.                                 *)
LEMMA SoundInit == Init => Sound
<1> SUFFICES ASSUME Init PROVE Sound
  OBVIOUS
<1>1. \A o \in Objs : ~InCan(o) /\ ~Listed(o) /\ stage[o] = "absent" /\ accept[o] = "no"
  BY PoolAssumption DEF Init, InCan, Listed, Contains
<1>2. Keyed /\ Numbered
  BY <1>1 DEF Init, Keyed, Numbered
<1>3. Existing
  BY <1>1, PoolAssumption DEF Init, Existing, Referenced
<1>4. Apart
  BY <1>1 DEF Init, Apart, IsInjective
<1>5. Accepted /\ Added /\ InPlace /\ Restoring /\ LiveOwned
  BY <1>1 DEF Init, Accepted, Added, InPlace, Restoring, LiveOwned, Running
<1> QED BY <1>2, <1>3, <1>4, <1>5 DEF Sound

(* The inductive invariant holds in every reachable state.                   *)
THEOREM PoolIsSound == Spec => [](TypeOK /\ Sound)
BY TypeInit, SoundInit, TypeStep, SoundStep, PTL DEF Spec

(* The containers agree with the objects in them, and nothing that is        *)
(* referred to is freed or reused, however accepts, closings, restorations,  *)
(* deletions and releases overlap.                                           *)
THEOREM PoolsAgree == Spec => []PoolSound
<1>1. TypeOK /\ Sound => PoolSound
  BY DEF Sound, PoolSound, Keyed, Existing, Apart
<1> QED BY <1>1, PoolIsSound, PTL

(* No socket whose handlers may still run is left without an owner.          *)
THEOREM RunningIsOwned == Spec => []LiveOwned
<1>1. Sound => LiveOwned
  BY DEF Sound
<1> QED BY <1>1, PoolIsSound, PTL

-----------------------------------------------------------------------------
(* The accept loop and the clients that are added.                           *)

(* A server that listens and is started has an accept that was not           *)
(* cancelled; only a server listens.                                         *)
Looping ==
    /\ listening => role = "server"
    /\ listening /\ service_started => \E o \in Objs : accept[o] \notin {"no", "aborted"}

(* Nothing listens at the start.                                             *)
LEMMA LoopingInit == Init => Looping
BY DEF Init, Looping

(* Each handler of the accept loop leaves a successor, or stops listening.   *)
LEMMA LoopingStep == TypeOK /\ Sound /\ Looping /\ [Next]_vars => Looping'
<1> SUFFICES ASSUME TypeOK, Sound, Looping, [Next]_vars PROVE Looping'
  OBVIOUS
<1> USE DEF poolVars, listenVars, appVars, pumpVars, NotCounted
<1>1. CASE UNCHANGED <<role, accept, listening, service_started>>
  BY <1>1 DEF Looping
<1>2. CASE listening' = FALSE
  BY <1>2 DEF Looping
<1>3. ASSUME NEW o \in Objs, accept[o] # "aborted", accept'[o] \notin {"no", "aborted"},
             \A p \in Objs \ {o} : accept'[p] = accept[p], UNCHANGED <<role, listening, service_started>>
      PROVE  Looping'
  BY <1>3 DEF Looping
<1>4. ASSUME NEW o \in Objs, Connect(o) \/ AcceptAdd(o) \/ AcceptStart(o) PROVE Looping'
  <2>1. /\ accept[o] # "aborted" /\ accept'[o] \notin {"no", "aborted"}
        /\ (\A p \in Objs \ {o} : accept'[p] = accept[p]) /\ UNCHANGED <<role, listening, service_started>>
    BY <1>4 DEF Connect, AcceptAdd, AcceptStart, TypeOK
  <2> QED BY <1>3, <2>1
<1>5. ASSUME NEW o \in Objs, AcceptCheck(o) PROVE Looping'
  <2>1. CASE listening
    <3>1. /\ accept[o] # "aborted" /\ accept'[o] \notin {"no", "aborted"}
          /\ (\A p \in Objs \ {o} : accept'[p] = accept[p]) /\ UNCHANGED <<role, listening, service_started>>
      BY <1>5, <2>1 DEF AcceptCheck, TypeOK
    <3> QED BY <1>3, <3>1
  <2>2. CASE ~listening
    BY <1>5, <2>2 DEF AcceptCheck, Looping
  <2> QED BY <2>1, <2>2
<1>6. ASSUME NEW o \in Objs, start_next_accept(o) PROVE Looping'
  <2>1. NewObject \in Objs
    BY <1>6, CreatedAreFree DEF start_next_accept, create_objects
  <2>2. accept'[NewObject] \in {"pending", "failed"}
    BY <1>6, <2>1 DEF start_next_accept, Accepting, TypeOK
  <2> QED BY <1>6, <2>1, <2>2 DEF start_next_accept, Looping
<1>7. ASSUME NEW o \in Objs, AcceptFailed(o) PROVE Looping'
  <2>1. CASE accept[o] = "failed"
    BY <1>7, <2>1 DEF AcceptFailed, Looping
  <2>2. CASE accept[o] = "aborted"
    BY <1>7, <2>2 DEF AcceptFailed, Looping, TypeOK
  <2> QED BY <1>7, <2>1, <2>2 DEF AcceptFailed
<1>8. ASSUME start_listen(TRUE), role' = "server" PROVE Looping'
  <2>1. AcceptNum \in Nat /\ CanCreate(AcceptNum) /\ 1 \in 1..AcceptNum
    BY <1>8, PoolAssumption DEF start_listen
  <2>2. Creatable[1] \in Created(AcceptNum) /\ Created(AcceptNum) \subseteq Objs
    BY <2>1, CreatedAreFree DEF Created
  <2>3. accept'[Creatable[1]] = "pending"
    BY <1>8, <2>2 DEF start_listen
  <2> QED BY <1>8, <2>2, <2>3 DEF Looping
<1>9. CASE Listen
  BY <1>8, <1>9 DEF Listen
<1>10. CASE InitServer
  <2>1. role' = "server"
    BY <1>10 DEF InitServer
  <2>2. CASE service_started' = FALSE
    BY <2>1, <2>2 DEF Looping
  <2>3. CASE start_listen(TRUE)
    BY <1>8, <2>1, <2>3
  <2> QED BY <1>10, <2>2, <2>3 DEF InitServer
<1>11. CASE InitClients
  BY <1>11 DEF InitClients, Looping
<1>12. CASE UninitListen \/ UninitShutdown
  BY <1>1, <1>12 DEF UninitListen, UninitShutdown, Looping
<1>13. CASE StopListen
  BY <1>2, <1>13 DEF StopListen
<1>14. CASE free_object \/ clear_obsoleted_object \/ StartService \/ EndService \/ WaitService
  BY <1>1, <1>14 DEF free_object, clear_obsoleted_object, StartService, EndService, WaitService
<1>15. CASE AddClient \/ AddClientStart \/ RestoreInit
  BY <1>1, <1>15 DEF AddClient, AddClientStart, RestoreInit
<1>16. ASSUME NEW o \in Objs, Break(o) \/ OnCloseErase(o) \/ OnClosePush(o) \/ Obsolete(o) PROVE Looping'
  BY <1>1, <1>16 DEF Break, OnCloseErase, OnClosePush, Obsolete
<1>17. ASSUME NEW o \in Objs, App(o) PROVE Looping'
  BY <1>1, <1>17 DEF App, Hold, Release, ShutdownHeld, RestorePop, RestoreAnew
<1>18. CASE UNCHANGED vars
  BY <1>1, <1>18 DEF vars
<1> QED
  BY <1>4, <1>5, <1>6, <1>7, <1>9, <1>10, <1>11, <1>12, <1>13, <1>14, <1>15, <1>16, <1>17, <1>18
     DEF Next, Handlers, Service

(* A server that listens never loses its accept loop.                        *)
THEOREM AcceptsGoOn == Spec => []KeepsAccepting
<1>1. Looping => KeepsAccepting
  BY DEF Looping, KeepsAccepting
<1> QED BY <1>1, LoopingInit, LoopingStep, TypeInit, TypeStep, SoundInit, SoundStep, PTL DEF Spec

(* No step leaves a client behind that is neither started nor looked after.  *)
LEMMA AddedStep == TypeOK /\ Sound /\ AddedStarts /\ [Next]_vars => AddedStarts'
<1> SUFFICES ASSUME TypeOK, Sound, AddedStarts, [Next]_vars, role' = "client", pump' = "running",
                    NEW o \in Objs, InCan(o)', stage'[o] = "fresh"
             PROVE  adder' = o
  BY DEF AddedStarts, Managed
<1> USE DEF poolVars, listenVars, appVars, pumpVars, NotCounted
<1>1. role = "client"
  BY DEF Next, free_object, clear_obsoleted_object, Break, Connect, Handlers, App, OnCloseErase, OnClosePush,
     Obsolete, AcceptAdd, AcceptStart, AcceptCheck, AcceptFailed, start_next_accept, Hold, Release, ShutdownHeld,
     RestorePop, RestoreAnew, Listen, StopListen, StartService, EndService, Service, InitServer, InitClients,
     UninitListen, UninitShutdown, WaitService, AddClient, AddClientStart, RestoreInit, vars
<1>2. /\ \A p \in Objs : accept[p] = "no"
      /\ mode # "restore" /\ restorer.new = None
  BY <1>1 DEF Sound, Accepted, Numbered, Restoring
<1>3. pump = "running" /\ InCan(o) /\ stage[o] = "fresh" => adder = o
  BY <1>1 DEF AddedStarts, Managed
<1>4. ASSUME UNCHANGED <<object_can, adder, pump>>, \A p \in Objs : stage'[p] = "fresh" => stage[p] = "fresh"
      PROVE  adder' = o
  BY <1>3, <1>4 DEF InCan
<1>5. CASE free_object
  BY <1>4, <1>5 DEF free_object, Destroyed, TypeOK
<1>6. CASE clear_obsoleted_object
  <2>1. object_can' = [i \in Ids |-> IF object_can[i] \in {p \in Managed : stage[p] = "obsolete"}
                                     THEN None ELSE object_can[i]]
    BY <1>6 DEF clear_obsoleted_object
  <2>2. InCan(o)
    BY <2>1, PoolAssumption DEF InCan
  <2> QED BY <1>3, <1>6, <2>2 DEF clear_obsoleted_object
<1>7. ASSUME NEW p \in Objs, Break(p) \/ OnClosePush(p) \/ Obsolete(p) \/ Hold(p) \/ Release(p) PROVE adder' = o
  BY <1>4, <1>7 DEF Break, Shut, OnClosePush, Obsolete, Hold, Release, Destroyed, TypeOK
<1>8. ASSUME NEW p \in Objs, Connect(p) \/ AcceptAdd(p) \/ AcceptStart(p) \/ AcceptCheck(p) \/ AcceptFailed(p)
                             \/ start_next_accept(p)
      PROVE  adder' = o
  BY <1>2, <1>8 DEF Connect, AcceptAdd, AcceptStart, AcceptCheck, AcceptFailed, start_next_accept
<1>9. ASSUME NEW p \in Objs, OnCloseErase(p) \/ ShutdownHeld(p) PROVE adder' = o
  <2>1. /\ UNCHANGED <<adder, pump>>
        /\ object_can' = object_can \/ object_can' = [object_can EXCEPT ![id[p]] = None]
        /\ \A q \in Objs : stage'[q] = "fresh" => stage[q] = "fresh"
    BY <1>9 DEF OnCloseErase, ShutdownHeld, EraseSelf, EraseId, Shut, TypeOK
  <2>2. InCan(o)
    BY <2>1, PoolAssumption DEF InCan, TypeOK
  <2> QED BY <1>3, <2>1, <2>2
<1>10. ASSUME NEW p \in Objs, NEW i \in Ids, RestorePop(p, i) \/ RestoreAnew(p, i) PROVE adder' = o
  BY <1>2, <1>10 DEF RestorePop, RestoreAnew
<1>11. CASE Listen \/ StopListen \/ InitServer \/ RestoreInit
  BY <1>1, <1>2, <1>11 DEF Listen, StopListen, InitServer, RestoreInit
<1>12. CASE StartService \/ EndService \/ UninitListen \/ UninitShutdown \/ WaitService
  BY <1>12 DEF StartService, EndService, UninitListen, UninitShutdown, WaitService
<1>13. CASE InitClients
  BY <1>13, CanSame DEF InitClients, Started, TypeOK
<1>14. CASE AddClient
  <2>1. NewObject \in Objs /\ Created(1) = {NewObject}
    BY <1>14, CreatedAreFree DEF AddClient, create_objects
  <2>2. \A p \in Objs : p # NewObject => stage'[p] = stage[p]
    BY <1>14, <2>1 DEF AddClient, Fresh
  <2>3. adder = None /\ UNCHANGED pump
    BY <1>14 DEF AddClient
  <2>4. None \notin Objs
    BY PoolAssumption
  <2>5. \/ object_can' = [object_can EXCEPT ![cur_id + 1] = NewObject] /\ adder' = NewObject
        \/ UNCHANGED object_can
    BY <1>14 DEF AddClient
  <2>6. o # NewObject => ~InCan(o)
    BY <1>3, <2>2, <2>3, <2>4
  <2>7. CASE UNCHANGED object_can
    <3>1. InCan(o)
      BY <2>7, CanSame
    <3>2. ~Referenced(NewObject)
      BY <1>14, <2>1, CreatedAreFree DEF AddClient, create_objects, Free, Poppable, Sound, Existing
    <3> QED BY <2>6, <3>1, <3>2 DEF Referenced
  <2>8. CASE object_can' = [object_can EXCEPT ![cur_id + 1] = NewObject] /\ adder' = NewObject
    <3>1. InCan(o) \/ o = NewObject
      BY <2>8 DEF InCan, TypeOK
    <3> QED BY <2>6, <2>8, <3>1
  <2> QED BY <2>5, <2>7, <2>8
<1>15. CASE AddClientStart
  <2>1. /\ UNCHANGED <<object_can, pump>> /\ adder \in Objs
        /\ stage' = Started(adder)
    BY <1>15 DEF AddClientStart, StartIfStarted, TypeOK
  <2>2. stage[o] = "fresh" /\ o # adder
    BY <2>1 DEF Started, TypeOK
  <2> QED BY <1>3, <2>1, <2>2, CanSame
<1>16. CASE UNCHANGED vars
  BY <1>4, <1>16 DEF vars
<1> QED
  BY <1>5, <1>6, <1>7, <1>8, <1>9, <1>10, <1>11, <1>12, <1>13, <1>14, <1>15, <1>16 DEF Next, Handlers, App, Service

(* A client added while the service starts is started by one of the two.     *)
THEOREM ClientsAreStarted == Spec => []AddedStarts
<1>1. Init => AddedStarts
  BY DEF Init, AddedStarts
<1> QED BY <1>1, AddedStep, TypeInit, TypeStep, SoundInit, SoundStep, PTL DEF Spec
=============================================================================
