--------------------------- MODULE LRUStoreProofs ---------------------------
(***************************************************************************)
(* The LRU store, for any keys, any capacity and entries of any size: its  *)
(* byte count, its bound, its eviction order, and that it keeps the        *)
(* promise of the port.                                                    *)
(***************************************************************************)
EXTENDS LRUStore, KeyOrderProofs

-----------------------------------------------------------------------------
(* The inductive invariants.                                               *)

(* The entries are entries, accessed in the past. *)
EntriesOK ==
    /\ entry \in [Keys -> Entry \cup {Absent}]
    /\ clock \in 0..MaxClock
    /\ \A k \in Stored : entry[k].last_accessed <= clock

(* The order holds the stored keys, once each, by last access. *)
Accessed == [k \in Keys |-> entry[k].last_accessed]
OrderOK ==
    /\ order \in Seq(Keys)
    /\ Distinct(order)
    /\ ToSet(order) = Stored
    /\ Ordered(order, Accessed)

(* The store by itself, whatever entries its callers put. *)
StoreOK == EntriesOK /\ OrderOK /\ SizeAccounting /\ WithinCapacity

(* What is stored is what was asked for. *)
AskedOK ==
    /\ asked \in [Keys -> Value \cup {Absent}]
    /\ \A k \in Stored : entry[k].swr \in Windows /\ asked[k] = ValueOf(entry[k])

LRUInv == StoreOK /\ AskedOK

-----------------------------------------------------------------------------
(* Entries.                                                                *)

(* What a stored key has. *)
LEMMA StoredEntry ==
  ASSUME entry \in [Keys -> Entry \cup {Absent}], NEW k \in Stored
  PROVE  /\ k \in Keys /\ entry[k] \in Entry
         /\ entry[k].size \in Nat
         /\ entry[k].last_accessed \in 0..MaxClock
<1>1. k \in Keys /\ entry[k] \in Entry
  BY DEF Stored
<1>2. entry[k].size \in Range(BodySize) /\ entry[k].last_accessed \in 0..MaxClock
  BY <1>1 DEF Entry
<1> QED BY <1>1, <1>2, LRUConstants DEF Range

(* The entry put is one, stamped with the time. *)
LEMMA NewEntryOK ==
  ASSUME clock \in 0..MaxClock, NEW b \in Bodies, NEW ttl \in TTLs, NEW swr \in Windows,
         NEW new, new = NewEntry(b, ttl, swr)
  PROVE  /\ new \in Entry /\ new # Absent
         /\ new.swr \in Windows /\ new.last_accessed = clock /\ new.size \in Nat
         /\ ValueOf(new) \in Value
<1>1. BodySize[b] \in Range(BodySize) /\ BodySize[b] \in Nat
  BY LRUConstants DEF Range
<1>2. new \in Entry
  BY <1>1 DEF NewEntry, Entry
<1>3. new # Absent
  BY <1>2, AbsentIsNone
<1>4. ValueOf(new) \in Value
  BY <1>3 DEF ValueOf, NewEntry, Value
<1>5. new.swr \in Windows /\ new.last_accessed = clock /\ new.size \in Nat
  BY <1>1 DEF NewEntry
<1> QED BY <1>2, <1>3, <1>4, <1>5

(* What a caller sees of a stored entry is a value. *)
LEMMA ShownValue ==
  ASSUME EntriesOK, AskedOK, NEW k \in Stored
  PROVE  ValueOf(entry[k]) \in Value
<1>1. entry[k] \in Entry /\ entry[k].swr \in Windows /\ entry[k] # Absent
  BY DEF EntriesOK, AskedOK, Stored
<1> QED BY <1>1 DEF ValueOf, Value, Entry

(* A hit stores and deletes nothing. *)
LEMMA GetKeepsStored ==
  ASSUME EntriesOK, NEW k \in Keys, Get(k)
  PROVE  Stored' = Stored
<1>1. PICK e : e = [entry[k] EXCEPT !.last_accessed = clock]
  OBVIOUS
<1>2. entry' = [entry EXCEPT ![k] = e] /\ entry[k] # Absent
  BY <1>1 DEF Get
<1>3. e \in Entry
  BY <1>1, <1>2 DEF EntriesOK, Entry
<1>4. e # Absent
  BY <1>3, AbsentIsNone
<1> QED BY <1>2, <1>4 DEF EntriesOK, Stored

(* The steps of the store, the two kinds of delete as one. *)
LEMMA NextIsOne ==
  ASSUME [Next]_vars
  PROVE  \/ \E k \in Keys : Get(k)
         \/ \E k \in Keys, b \in Bodies, ttl \in TTLs, swr \in Windows :
              Put(k, NewEntry(b, ttl, swr))
         \/ \E S \in SUBSET Keys : Delete(S)
         \/ ListKeys
         \/ Tick
         \/ UNCHANGED vars
<1>1. \A k \in Keys : {k} \in SUBSET Keys
  OBVIOUS
<1>2. \A S \in Prefixed : S \in SUBSET Keys
  BY LRUConstants
<1> QED BY <1>1, <1>2 DEF Next

-----------------------------------------------------------------------------
(* The order and the victims.                                              *)

(* The other keys of an order, and what put evicts of them: a beginning of *)
(* that order, all of it or enough to make room.                           *)
LEMMA VictimsFacts ==
  ASSUME EntriesOK, OrderOK, NEW k \in Keys, NEW needed,
         NEW s, s = Others(k), NEW n, n = Evictions(s, UsedByOthers(k), needed)
  PROVE  /\ s \in Seq(Keys) /\ Distinct(s) /\ ToSet(s) = Stored \ {k} /\ Ordered(s, Accessed)
         /\ n \in 0..Len(s)
         /\ ToSet(Victims(k, needed)) = {s[i] : i \in 1..n}
         /\ Victims(k, needed) \in Seq(Keys)
         /\ ToSet(Victims(k, needed)) \subseteq Stored \ {k}
         /\ \/ ToSet(Victims(k, needed)) = Stored \ {k}
            \/ UsedByOthers(k) - SizeOf(ToSet(Victims(k, needed))) + needed <= Capacity
<1>1. s \in Seq(Keys) /\ Distinct(s) /\ ToSet(s) = Stored \ {k} /\ Ordered(s, Accessed)
  BY WithoutSet, WithoutDistinct, WithoutOrdered DEF OrderOK, Others
<1>2. Len(s) \in Nat /\ DOMAIN s = 1..Len(s)
  BY <1>1, LenProperties
<1> DEFINE Fits(m) == UsedByOthers(k) - SizeOf({s[i] : i \in 1..m}) + needed <= Capacity
           T == {m \in 0..Len(s) : m = Len(s) \/ Fits(m)}
<1>3. n = Min(T)
  BY DEF Evictions
<1>4. n \in T
  <2>1. T \in SUBSET Nat /\ Len(s) \in T
    BY <1>2
  <2> HIDE DEF T
  <2> QED BY <1>3, <2>1, MinOfNaturals
<1>5. n \in 0..Len(s) /\ (n = Len(s) \/ Fits(n))
  BY <1>4
<1>6. /\ Victims(k, needed) \in Seq(Keys)
      /\ ToSet(Victims(k, needed)) = {s[i] : i \in 1..n}
      /\ ToSet(Victims(k, needed)) \subseteq ToSet(s)
  BY <1>1, <1>5, BeginningSet DEF Victims, EvictLRU
<1>7. n = Len(s) => ToSet(Victims(k, needed)) = ToSet(s)
  BY <1>2, <1>6 DEF ToSet
<1>8. \/ ToSet(Victims(k, needed)) = Stored \ {k}
      \/ UsedByOthers(k) - SizeOf(ToSet(Victims(k, needed))) + needed <= Capacity
  BY <1>1, <1>5, <1>6, <1>7
<1> QED BY <1>1, <1>5, <1>6, <1>8

(* In short: put evicts stored keys, never its own. *)
LEMMA VictimsStored ==
  ASSUME EntriesOK, OrderOK, NEW k \in Keys, NEW needed
  PROVE  Victims(k, needed) \in Seq(Keys) /\ ToSet(Victims(k, needed)) \subseteq Stored \ {k}
  BY VictimsFacts

(* What put leaves stored. *)
LEMMA InsertStored ==
  ASSUME EntriesOK, OrderOK, NEW k \in Keys, NEW new, new \in Entry, Insert(k, new)
  PROVE  /\ Stored' = (Stored \ ToSet(Victims(k, new.size))) \cup {k}
         /\ entry'[k] = new
         /\ \A j \in Stored' \ {k} : j \in Stored /\ entry'[j] = entry[j]
<1>1. PICK V : V = ToSet(Victims(k, new.size))
  OBVIOUS
<1>2. entry' = [j \in Keys |-> IF j = k THEN new ELSE IF j \in V THEN Absent ELSE entry[j]]
  BY <1>1 DEF Insert
<1>3. new # Absent
  BY AbsentIsNone
<1>4. V \subseteq Stored \ {k}
  BY <1>1, VictimsFacts
<1> QED BY <1>1, <1>2, <1>3, <1>4 DEF Stored

(* A step that deletes keys and changes no other entry. *)
LEMMA DeleteOrderOK ==
  ASSUME EntriesOK, OrderOK, NEW S \in SUBSET Keys, RemoveEntries(S)
  PROVE  OrderOK'
<1>1. Stored' = Stored \ S /\ \A j \in Stored' : entry'[j] = entry[j]
  BY DEF RemoveEntries, Stored
<1>2. order' \in Seq(Keys) /\ Distinct(order') /\ ToSet(order') = Stored'
      /\ Ordered(order', Accessed)
  BY <1>1, WithoutSet, WithoutDistinct, WithoutOrdered DEF RemoveEntries, OrderOK
<1>3. \A j \in ToSet(order') : Accessed'[j] = Accessed[j]
  BY <1>1, <1>2 DEF Accessed, Stored
<1>4. Ordered(order', Accessed')
  BY <1>2, <1>3, OrderedSame
<1> QED BY <1>2, <1>4 DEF OrderOK

(* A key goes to the end of an order of other keys, stamped with the time. *)
LEMMA ToEndOrderOK ==
  ASSUME EntriesOK, EntriesOK', OrderOK, NEW k \in Keys,
         NEW s \in Seq(Keys), Distinct(s), Ordered(s, Accessed), ToSet(s) = Stored' \ {k},
         k \in Stored', entry'[k].last_accessed = clock, clock' = clock,
         \A j \in ToSet(s) : entry'[j] = entry[j],
         order' = Append(s, k)
  PROVE  OrderOK'
<1>1. ToSet(s) \subseteq Keys
  BY DEF Stored
<1>2. \A j \in ToSet(s) : Accessed'[j] = Accessed[j]
  BY <1>1 DEF Accessed
<1>3. Ordered(s, Accessed')
  BY <1>2, OrderedSame
<1>4. \A j \in ToSet(s) : Accessed'[j] <= Accessed'[k]
  BY <1>1 DEF Accessed, EntriesOK
<1>5. Ordered(order', Accessed')
  BY <1>3, <1>4, AppendOrdered
<1>6. order' \in Seq(Keys) /\ Distinct(order') /\ ToSet(order') = Stored'
  <2>1. k \notin ToSet(s) /\ ToSet(s) \cup {k} = Stored'
    OBVIOUS
  <2> QED BY <2>1, AppendKey
<1> QED BY <1>5, <1>6 DEF OrderOK

-----------------------------------------------------------------------------
(* The byte count.                                                         *)

(* Finitely many keys are stored. *)
LEMMA StoredFinite ==
  ASSUME OrderOK
  PROVE  IsFiniteSet(Stored)
  BY DistinctLen DEF OrderOK

(* The bytes of two parts of what is stored add up. *)
LEMMA SizeSplit ==
  ASSUME EntriesOK, OrderOK, NEW D \in SUBSET Stored
  PROVE  /\ SizeOf(D) \in Nat /\ SizeOf(Stored \ D) \in Nat
         /\ SizeOf(Stored) = SizeOf(D) + SizeOf(Stored \ D)
<1>1. PICK w : w = [k \in Stored |-> entry[k].size]
  OBVIOUS
<1>2. \A k \in Stored : w[k] = entry[k].size /\ w[k] \in Nat
  BY <1>1, StoredEntry DEF EntriesOK
<1>3. IsFiniteSet(Stored) /\ IsFiniteSet(D) /\ IsFiniteSet(Stored \ D)
  BY StoredFinite, FS_Subset
<1>4. ASSUME NEW S \in SUBSET Stored, IsFiniteSet(S)
      PROVE  SizeOf(S) = SumFunctionOnSet(w, S)
  <2>1. PICK v : v = [k \in S |-> entry[k].size]
    OBVIOUS
  <2>2. \A k \in S : v[k] = w[k]
    BY <1>2, <2>1
  <2> QED BY <1>4, <2>1, <2>2, SumSame DEF SizeOf
<1>5. /\ SizeOf(Stored) = SumFunctionOnSet(w, Stored)
      /\ SizeOf(D) = SumFunctionOnSet(w, D)
      /\ SizeOf(Stored \ D) = SumFunctionOnSet(w, Stored \ D)
  BY <1>3, <1>4
<1>6. SumFunctionOnSet(w, Stored) = SumFunctionOnSet(w, D) + SumFunctionOnSet(w, Stored \ D)
  BY <1>2, <1>3, SumSplit
<1>7. SumFunctionOnSet(w, D) \in Nat /\ SumFunctionOnSet(w, Stored \ D) \in Nat
  BY <1>2, <1>3, SumNat
<1> QED BY <1>5, <1>6, <1>7

(* One key has the size of its entry. *)
LEMMA SizeOfOne ==
  ASSUME EntriesOK, NEW k \in Stored
  PROVE  SizeOf({k}) = entry[k].size
<1>1. PICK w : w = [j \in {k} |-> entry[j].size]
  OBVIOUS
<1>2. IsFiniteSet({k}) /\ IsFiniteSet({})
  BY FS_Singleton, FS_EmptySet
<1>3. w[k] = entry[k].size /\ w[k] \in Nat
  BY <1>1, StoredEntry DEF EntriesOK
<1>4. PICK E : E = {k} \ {k}
  OBVIOUS
<1>5. SumFunctionOnSet(w, {k}) = w[k] + SumFunctionOnSet(w, E)
  BY <1>2, <1>3, <1>4, SumRemove
<1>6. E = {} /\ IsFiniteSet(E)
  BY <1>2, <1>4
<1>7. SumFunctionOnSet(w, {k}) = w[k]
  <2>1. SumFunctionOnSet(w, E) = 0
    BY <1>6, SumUnfold
  <2> QED BY <1>3, <1>5, <2>1
<1> QED BY <1>1, <1>3, <1>7 DEF SizeOf

(* Entries that a step leaves alone, or only stamps, keep their bytes. *)
LEMMA SizeKept ==
  ASSUME NEW S, IsFiniteSet(S), \A k \in S : entry'[k].size = entry[k].size
  PROVE  SizeOf(S)' = SizeOf(S)
<1>1. PICK w : w = [k \in S |-> entry[k].size]
  OBVIOUS
<1>2. PICK v : v = [k \in S |-> entry'[k].size]
  OBVIOUS
<1>3. SumFunctionOnSet(w, S) = SumFunctionOnSet(v, S)
  BY <1>1, <1>2, SumSame
<1> QED BY <1>1, <1>2, <1>3 DEF SizeOf

(* Deleting entries takes their bytes off. *)
LEMMA RemoveSize ==
  ASSUME EntriesOK, OrderOK, SizeAccounting, WithinCapacity,
         NEW D \in SUBSET Stored, RemoveEntries(D)
  PROVE  SizeAccounting' /\ WithinCapacity'
<1>1. PICK S : S = Stored \ D
  OBVIOUS
<1>2. Stored' = S /\ \A k \in S : entry'[k] = entry[k]
  BY <1>1 DEF RemoveEntries, Stored
<1>3. /\ SizeOf(D) \in Nat /\ SizeOf(S) \in Nat
      /\ current_size = SizeOf(D) + SizeOf(S)
  BY <1>1, SizeSplit DEF SizeAccounting
<1>4. current_size' = SizeOf(S)
  <2>1. current_size' = current_size - SizeOf(D)
    BY DEF RemoveEntries
  <2> QED BY <1>3, <2>1
<1>5. SizeOf(S)' = SizeOf(S)
  <2>1. IsFiniteSet(S)
    BY <1>1, StoredFinite, FS_Subset
  <2> QED BY <1>2, <2>1, SizeKept
<1>6. SizeAccounting'
  BY <1>2, <1>4, <1>5 DEF SizeAccounting
<1>7. WithinCapacity'
  <2>1. CASE current_size <= Capacity
    <3>1. current_size' <= Capacity
      BY <1>3, <1>4, <2>1, LRUConstants
    <3> QED BY <3>1 DEF WithinCapacity
  <2>2. CASE Cardinality(Stored) = 1
    <3>1. PICK x : Stored = {x}
      BY <2>2, StoredFinite, FS_Singleton
    <3>2. CASE D = {}
      <4>1. Stored' = Stored
        BY <1>1, <1>2, <3>2
      <4> QED BY <2>2, <4>1 DEF WithinCapacity
    <3>3. CASE D # {}
      <4>1. S = {}
        BY <1>1, <3>1, <3>3
      <4>2. SizeOf({}) = 0
        BY FS_EmptySet, SumUnfold DEF SizeOf
      <4>3. current_size' = 0
        BY <1>4, <4>1, <4>2
      <4>4. current_size' <= Capacity
        BY <4>3, LRUConstants
      <4> QED BY <4>4 DEF WithinCapacity
    <3> QED BY <3>2, <3>3
  <2> QED BY <2>1, <2>2 DEF WithinCapacity
<1> QED BY <1>6, <1>7

(* The bytes of the other keys, when put overwrites one. *)
LEMMA UsedByOthersIs ==
  ASSUME EntriesOK, OrderOK, SizeAccounting, NEW k \in Keys
  PROVE  UsedByOthers(k) = SizeOf(Stored \ {k}) /\ SizeOf(Stored \ {k}) \in Nat
<1>1. CASE k \in Stored
  <2>1. SizeOf(Stored) = SizeOf({k}) + SizeOf(Stored \ {k})
        /\ SizeOf({k}) \in Nat /\ SizeOf(Stored \ {k}) \in Nat
    <3>1. {k} \in SUBSET Stored
      BY <1>1
    <3> QED BY <3>1, SizeSplit
  <2>2. SizeOf({k}) = entry[k].size /\ entry[k] # Absent
    BY <1>1, SizeOfOne DEF Stored
  <2>3. UsedByOthers(k) = SizeOf(Stored) - SizeOf({k})
    BY <2>2 DEF UsedByOthers, SizeAccounting
  <2> QED BY <2>1, <2>3
<1>2. CASE k \notin Stored
  <2>1. entry[k] = Absent /\ Stored \ {k} = Stored /\ Stored \ {} = Stored
    BY <1>2 DEF Stored
  <2>2. SizeOf(Stored) \in Nat
    <3>1. {} \in SUBSET Stored
      OBVIOUS
    <3> QED BY <2>1, <3>1, SizeSplit
  <2>3. UsedByOthers(k) = SizeOf(Stored)
    BY <2>1, <2>2 DEF UsedByOthers, SizeAccounting
  <2> QED BY <2>1, <2>2, <2>3
<1> QED BY <1>1, <1>2

(* Putting an entry counts it, and counts off what it replaces and evicts. *)
LEMMA InsertSize ==
  ASSUME EntriesOK, EntriesOK', OrderOK, OrderOK', SizeAccounting,
         NEW k \in Keys, NEW new \in Entry, Insert(k, new)
  PROVE  SizeAccounting' /\ WithinCapacity'
<1>1. PICK V : V = ToSet(Victims(k, new.size))
  OBVIOUS
<1>2. /\ V \subseteq Stored \ {k}
      /\ V = Stored \ {k} \/ UsedByOthers(k) - SizeOf(V) + new.size <= Capacity
  BY <1>1, VictimsFacts
<1>3. /\ Stored' = (Stored \ V) \cup {k}
      /\ entry'[k] = new
      /\ \A j \in Stored' \ {k} : j \in Stored /\ entry'[j] = entry[j]
  BY <1>1, InsertStored
<1>4. PICK R : R = (Stored \ {k}) \ V
  OBVIOUS
<1>5. R \subseteq Stored /\ IsFiniteSet(R) /\ Stored' \ {k} = R /\ k \in Stored'
  BY <1>3, <1>4, StoredFinite, FS_Subset
<1>6. SizeOf(Stored \ {k}) = SizeOf(V) + SizeOf(R) /\ SizeOf(V) \in Nat /\ SizeOf(R) \in Nat
  <2>1. PICK w : w = [j \in Stored |-> entry[j].size]
    OBVIOUS
  <2>2. \A j \in Stored : w[j] = entry[j].size /\ w[j] \in Nat
    BY <2>1, StoredEntry DEF EntriesOK
  <2>3. ASSUME NEW S \in SUBSET Stored, IsFiniteSet(S)
        PROVE  SizeOf(S) = SumFunctionOnSet(w, S) /\ SizeOf(S) \in Nat
    <3>1. PICK v : v = [j \in S |-> entry[j].size]
      OBVIOUS
    <3>2. \A j \in S : v[j] = w[j] /\ w[j] \in Nat
      BY <2>2, <3>1
    <3>3. SumFunctionOnSet(v, S) = SumFunctionOnSet(w, S) /\ SumFunctionOnSet(w, S) \in Nat
      BY <2>3, <3>2, SumSame, SumNat
    <3> QED BY <3>1, <3>3 DEF SizeOf
  <2>4. IsFiniteSet(Stored \ {k}) /\ IsFiniteSet(V)
    BY <1>2, StoredFinite, FS_Subset
  <2>5. SumFunctionOnSet(w, Stored \ {k}) = SumFunctionOnSet(w, V) + SumFunctionOnSet(w, R)
    BY <1>2, <1>4, <2>2, <2>4, SumSplit
  <2> QED BY <1>2, <1>5, <2>3, <2>4, <2>5
<1>7. UsedByOthers(k) = SizeOf(Stored \ {k})
  BY UsedByOthersIs
<1>8. current_size' = UsedByOthers(k) - SizeOf(V) + new.size
  BY <1>1 DEF Insert
<1>9. new.size \in Nat
  <2>1. new.size \in Range(BodySize)
    BY DEF Entry
  <2> QED BY <2>1, LRUConstants DEF Range
<1>10. current_size' = SizeOf(R) + new.size
  BY <1>6, <1>7, <1>8, <1>9
<1>11. SizeOf(Stored)' = SizeOf(R) + new.size
  <2>1. PICK S : S = Stored'
    OBVIOUS
  <2>2. PICK w : w = [j \in S |-> entry'[j].size]
    OBVIOUS
  <2>3. PICK v : v = [j \in R |-> entry[j].size]
    OBVIOUS
  <2>4. IsFiniteSet(S) /\ k \in S /\ S \ {k} = R /\ w[k] = new.size
    <3>1. S = R \cup {k} /\ k \in S
      BY <1>3, <1>4, <1>5, <2>1
    <3>2. IsFiniteSet(S)
      BY <1>5, <3>1, FS_AddElement
    <3> QED BY <1>3, <1>5, <2>1, <2>2, <3>1, <3>2
  <2>5. \A j \in R : w[j] = v[j] /\ w[j] \in Nat
    <3>1. \A j \in R : entry[j].size \in Nat
      BY <1>5, StoredEntry DEF EntriesOK
    <3>2. \A j \in R : j \in S /\ entry'[j] = entry[j]
      BY <1>3, <1>5, <2>1
    <3> QED BY <2>2, <2>3, <3>1, <3>2
  <2>6. \A j \in S : w[j] \in Nat
    BY <1>9, <2>4, <2>5
  <2>7. SumFunctionOnSet(w, S) = w[k] + SumFunctionOnSet(w, R)
    BY <2>4, <2>6, SumRemove
  <2>8. SumFunctionOnSet(w, R) = SumFunctionOnSet(v, R)
    BY <1>5, <2>5, SumSame
  <2>9. SizeOf(Stored)' = SumFunctionOnSet(w, S)
    BY <2>1, <2>2 DEF SizeOf
  <2>10. SizeOf(R) = SumFunctionOnSet(v, R)
    BY <2>3 DEF SizeOf
  <2> QED BY <1>6, <1>9, <2>4, <2>7, <2>8, <2>9, <2>10
<1>12. SizeAccounting'
  BY <1>10, <1>11 DEF SizeAccounting
<1>13. WithinCapacity'
  <2>1. CASE V = Stored \ {k}
    <3>1. Stored' = {k}
      BY <1>3, <2>1
    <3>2. Cardinality(Stored') = 1
      BY <3>1, FS_Singleton
    <3> QED BY <3>2 DEF WithinCapacity
  <2>2. CASE UsedByOthers(k) - SizeOf(V) + new.size <= Capacity
    BY <1>8, <2>2 DEF WithinCapacity
  <2> QED BY <1>2, <2>1, <2>2
<1> QED BY <1>12, <1>13

-----------------------------------------------------------------------------
(* The store, operation by operation.                                      *)

(* An empty store. *)
LEMMA EmptyStoreOK ==
  order = <<>> /\ entry = [k \in Keys |-> Absent] /\ current_size = 0 /\ clock \in 0..MaxClock
    => StoreOK
<1> SUFFICES ASSUME order = <<>>, entry = [k \in Keys |-> Absent], current_size = 0,
                    clock \in 0..MaxClock
             PROVE  StoreOK
  OBVIOUS
<1>1. Stored = {}
  BY DEF Stored
<1>2. EntriesOK
  BY <1>1 DEF EntriesOK
<1>3. OrderOK
  BY <1>1 DEF OrderOK, Distinct, Ordered, ToSet
<1>4. SizeOf({}) = 0
  BY FS_EmptySet, SumUnfold DEF SizeOf
<1>5. SizeAccounting /\ WithinCapacity
  BY <1>1, <1>4, LRUConstants DEF SizeAccounting, WithinCapacity
<1> QED BY <1>2, <1>3, <1>5 DEF StoreOK

(* The types follow. *)
LEMMA StoreTypes ==
  ASSUME StoreOK
  PROVE  TypeOK
<1>1. ToSet(order) = Stored /\ Len(order) = Cardinality(ToSet(order))
  BY DistinctLen DEF StoreOK, OrderOK
<1>2. current_size \in Nat
  <2>1. {} \in SUBSET Stored /\ Stored \ {} = Stored
    OBVIOUS
  <2> QED BY <2>1, SizeSplit DEF StoreOK, SizeAccounting
<1> QED BY <1>1, <1>2 DEF StoreOK, EntriesOK, TypeOK, Stored

(* get: a hit. *)
LEMMA GetKeeps ==
  ASSUME StoreOK, NEW k \in Keys, Get(k)
  PROVE  StoreOK'
<1> USE DEF StoreOK
<1>1. PICK e : e = [entry[k] EXCEPT !.last_accessed = clock]
  OBVIOUS
<1>2. entry' = [entry EXCEPT ![k] = e] /\ entry[k] # Absent
      /\ clock' = clock /\ current_size' = current_size
  BY <1>1 DEF Get
<1>3. entry[k] \in Entry /\ k \in Stored
  BY <1>2 DEF EntriesOK, Stored
<1>4. e \in Entry /\ e.size = entry[k].size /\ e.last_accessed = clock
  BY <1>1, <1>3 DEF EntriesOK, Entry
<1>5. Stored' = Stored
  BY GetKeepsStored
<1>6. entry'[k] = e /\ \A j \in Stored \ {k} : entry'[j] = entry[j]
  BY <1>2 DEF EntriesOK, Stored
<1>7. EntriesOK'
  <2>1. entry' \in [Keys -> Entry \cup {Absent}]
    BY <1>2, <1>4 DEF EntriesOK
  <2>2. \A j \in Stored : entry'[j].last_accessed <= clock
    BY <1>4, <1>6, LRUConstants DEF EntriesOK
  <2> QED BY <1>2, <1>5, <2>1, <2>2 DEF EntriesOK
<1>8. OrderOK'
  <2>1. PICK s : s = Without(order, {k})
    OBVIOUS
  <2>2. s \in Seq(Keys) /\ Distinct(s) /\ Ordered(s, Accessed) /\ ToSet(s) = Stored \ {k}
    BY <2>1, WithoutSet, WithoutDistinct, WithoutOrdered DEF OrderOK
  <2>3. order' = Append(s, k)
    BY <2>1 DEF Get, MoveToEnd
  <2> QED BY <1>2, <1>3, <1>4, <1>5, <1>6, <1>7, <2>2, <2>3, ToEndOrderOK
<1>9. SizeAccounting' /\ WithinCapacity'
  <2>1. PICK S : S = Stored
    OBVIOUS
  <2>2. Stored' = S /\ \A j \in S : entry'[j].size = entry[j].size
    BY <1>4, <1>5, <1>6, <2>1
  <2>3. SizeOf(S)' = SizeOf(S)
    BY <2>1, <2>2, StoredFinite, SizeKept
  <2> QED BY <1>2, <2>1, <2>2, <2>3 DEF SizeAccounting, WithinCapacity
<1> QED BY <1>7, <1>8, <1>9

(* put, of any entry stamped with the time. *)
LEMMA InsertKeeps ==
  ASSUME StoreOK, NEW k \in Keys, NEW new \in Entry, new.last_accessed = clock,
         Insert(k, new), clock' = clock
  PROVE  StoreOK'
<1> USE DEF StoreOK
<1>1. PICK V : V = ToSet(Victims(k, new.size))
  OBVIOUS
<1>2. entry' = [j \in Keys |-> IF j = k THEN new ELSE IF j \in V THEN Absent ELSE entry[j]]
  BY <1>1 DEF Insert
<1>3. /\ Stored' = (Stored \ V) \cup {k}
      /\ entry'[k] = new
      /\ \A j \in Stored' \ {k} : j \in Stored /\ entry'[j] = entry[j]
  BY <1>1, InsertStored
<1>4. EntriesOK'
  <2>1. entry' \in [Keys -> Entry \cup {Absent}]
    BY <1>2 DEF EntriesOK
  <2>2. \A j \in Stored' : entry'[j].last_accessed <= clock
    BY <1>3, LRUConstants DEF EntriesOK
  <2> QED BY <2>1, <2>2 DEF EntriesOK
<1>5. OrderOK'
  <2>1. PICK s : s = Without(Others(k), V)
    OBVIOUS
  <2>2. /\ Others(k) \in Seq(Keys) /\ Distinct(Others(k)) /\ ToSet(Others(k)) = Stored \ {k}
        /\ Ordered(Others(k), Accessed)
    BY VictimsFacts
  <2>3. s \in Seq(Keys) /\ Distinct(s) /\ Ordered(s, Accessed) /\ ToSet(s) = (Stored \ {k}) \ V
    BY <2>1, <2>2, WithoutSet, WithoutDistinct, WithoutOrdered
  <2>4. order' = Append(s, k)
    BY <1>1, <2>1 DEF Insert
  <2>5. ToSet(s) = Stored' \ {k}
    BY <1>3, <2>3
  <2> QED BY <1>3, <1>4, <2>3, <2>4, <2>5, ToEndOrderOK
<1>6. SizeAccounting' /\ WithinCapacity'
  BY <1>4, <1>5, InsertSize
<1> QED BY <1>4, <1>5, <1>6

(* delete, delete_by_prefix and the pruning of keys(). *)
LEMMA RemoveKeeps ==
  ASSUME StoreOK, NEW D \in SUBSET Stored, RemoveEntries(D), clock' = clock
  PROVE  StoreOK'
<1> USE DEF StoreOK
<1>1. \A j \in Stored' : j \in Stored /\ entry'[j] = entry[j]
  BY DEF RemoveEntries, Stored
<1>2. entry' \in [Keys -> Entry \cup {Absent}]
  BY DEF RemoveEntries, EntriesOK
<1>3. EntriesOK'
  BY <1>1, <1>2 DEF EntriesOK
<1>4. D \in SUBSET Keys
  BY DEF Stored
<1>5. OrderOK'
  BY <1>4, DeleteOrderOK
<1>6. SizeAccounting' /\ WithinCapacity'
  BY RemoveSize
<1> QED BY <1>3, <1>5, <1>6

(* Time passes. *)
LEMMA TickKeeps ==
  ASSUME StoreOK, clock' \in 0..MaxClock, clock <= clock', UNCHANGED <<order, entry, current_size>>
  PROVE  StoreOK'
<1> USE DEF StoreOK
<1>1. Stored' = Stored
  BY DEF Stored
<1>2. EntriesOK'
  <2>1. \A k \in Stored : entry[k].last_accessed <= clock'
    BY StoredEntry, LRUConstants DEF EntriesOK
  <2> QED BY <1>1, <2>1 DEF EntriesOK
<1>3. OrderOK'
  BY <1>1 DEF OrderOK, Accessed
<1>4. SizeAccounting' /\ WithinCapacity'
  BY <1>1 DEF SizeAccounting, WithinCapacity, SizeOf
<1> QED BY <1>2, <1>3, <1>4

(* Every step keeps the store. *)
LEMMA NextStoreOK ==
  ASSUME StoreOK, [Next]_vars
  PROVE  StoreOK'
<1>1. ASSUME NEW k \in Keys, Get(k) PROVE StoreOK'
  BY <1>1, GetKeeps
<1>2. ASSUME NEW k \in Keys, NEW b \in Bodies, NEW ttl \in TTLs, NEW swr \in Windows,
             Put(k, NewEntry(b, ttl, swr))
      PROVE  StoreOK'
  <2>1. PICK new : new = NewEntry(b, ttl, swr)
    OBVIOUS
  <2>2. new \in Entry /\ new.last_accessed = clock
    BY <2>1, NewEntryOK DEF StoreOK, EntriesOK
  <2>3. Insert(k, new) /\ clock' = clock
    BY <1>2, <2>1 DEF Put
  <2> QED BY <2>2, <2>3, InsertKeeps
<1>3. ASSUME NEW S \in SUBSET Keys, Delete(S) PROVE StoreOK'
  <2>1. {k \in S : entry[k] # Absent} \in SUBSET Stored
    BY DEF Stored
  <2> QED BY <1>3, <2>1, RemoveKeeps DEF Delete
<1>4. CASE ListKeys
  <2>1. {k \in Keys : entry[k] # Absent /\ IsExpired(entry[k])} \in SUBSET Stored
    BY DEF Stored
  <2> QED BY <1>4, <2>1, RemoveKeeps DEF ListKeys
<1>5. CASE Tick
  <2>1. clock' \in 0..MaxClock /\ clock <= clock'
    BY <1>5, LRUConstants DEF Tick, StoreOK, EntriesOK
  <2> QED BY <1>5, <2>1, TickKeeps DEF Tick
<1>6. CASE UNCHANGED vars
  <2>1. clock' \in 0..MaxClock /\ clock <= clock'
    BY <1>6, LRUConstants DEF vars, StoreOK, EntriesOK
  <2> QED BY <1>6, <2>1, TickKeeps DEF vars
<1> QED BY <1>1, <1>2, <1>3, <1>4, <1>5, <1>6, NextIsOne

-----------------------------------------------------------------------------
(* What was asked for.                                                     *)

(* Nothing is asked for at first. *)
LEMMA InitAskedOK == Init => AskedOK
  BY DEF Init, AskedOK, Stored

(* Every step keeps what is stored what was asked for. *)
LEMMA NextAskedOK ==
  ASSUME EntriesOK, AskedOK, [Next]_vars
  PROVE  AskedOK'
<1>1. ASSUME NEW k \in Keys, Get(k) PROVE AskedOK'
  <2>1. PICK e : e = [entry[k] EXCEPT !.last_accessed = clock]
    OBVIOUS
  <2>2. entry' = [entry EXCEPT ![k] = e] /\ entry[k] # Absent /\ asked' = asked
    BY <1>1, <2>1 DEF Get
  <2>3. entry[k] \in Entry /\ k \in Stored
    BY <2>2 DEF EntriesOK, Stored
  <2>4. e \in Entry /\ e.swr = entry[k].swr
        /\ e.content = entry[k].content /\ e.ttl = entry[k].ttl
        /\ e.created_at = entry[k].created_at
    BY <2>1, <2>3 DEF EntriesOK, Entry
  <2>5. ValueOf(e) = ValueOf(entry[k])
    BY <2>2, <2>4, AbsentIsNone DEF ValueOf
  <2>6. ASSUME NEW j \in Stored'
        PROVE  entry'[j].swr \in Windows /\ asked'[j] = ValueOf(entry'[j])
    <3>1. CASE j = k
      BY <2>2, <2>3, <2>4, <2>5, <3>1 DEF EntriesOK, AskedOK
    <3>2. CASE j # k
      BY <2>2, <2>6, <3>2 DEF EntriesOK, AskedOK, Stored
    <3> QED BY <3>1, <3>2
  <2> QED BY <2>2, <2>6 DEF AskedOK
<1>2. ASSUME NEW k \in Keys, NEW b \in Bodies, NEW ttl \in TTLs, NEW swr \in Windows,
             Put(k, NewEntry(b, ttl, swr))
      PROVE  AskedOK'
  <2>1. PICK new : new = NewEntry(b, ttl, swr)
    OBVIOUS
  <2>2. new # Absent /\ new.swr \in Windows /\ ValueOf(new) \in Value
    BY <2>1, NewEntryOK DEF EntriesOK
  <2>3. PICK evicted : entry' = [j \in Keys |-> IF j = k THEN new
                                               ELSE IF j \in evicted THEN Absent ELSE entry[j]]
    BY <1>2, <2>1 DEF Put, Insert
  <2>4. asked' = [asked EXCEPT ![k] = ValueOf(new)]
    BY <1>2, <2>1 DEF Put
  <2>5. asked' \in [Keys -> Value \cup {Absent}]
    BY <2>2, <2>4 DEF AskedOK
  <2>6. ASSUME NEW j \in Stored'
        PROVE  entry'[j].swr \in Windows /\ asked'[j] = ValueOf(entry'[j])
    <3>1. CASE j = k
      BY <2>2, <2>3, <2>4, <3>1 DEF AskedOK
    <3>2. CASE j # k
      BY <2>3, <2>4, <2>6, <3>2 DEF AskedOK, Stored
    <3> QED BY <3>1, <3>2
  <2> QED BY <2>5, <2>6 DEF AskedOK
<1>3. ASSUME NEW S \in SUBSET Keys, Delete(S) PROVE AskedOK'
  <2>1. \A j \in Stored' : j \in Stored /\ entry'[j] = entry[j] /\ asked'[j] = asked[j]
    BY <1>3 DEF Delete, RemoveEntries, Stored
  <2>2. asked' \in [Keys -> Value \cup {Absent}]
    BY <1>3 DEF Delete, AskedOK
  <2> QED BY <2>1, <2>2 DEF AskedOK
<1>4. CASE ListKeys
  <2>1. \A j \in Stored' : j \in Stored /\ entry'[j] = entry[j]
    BY <1>4 DEF ListKeys, RemoveEntries, Stored
  <2> QED BY <1>4, <2>1 DEF ListKeys, AskedOK
<1>5. CASE UNCHANGED <<entry, asked>>
  BY <1>5 DEF AskedOK, Stored
<1> QED BY <1>1, <1>2, <1>3, <1>4, <1>5, NextIsOne DEF Tick, vars

-----------------------------------------------------------------------------
(* The theorems.                                                           *)

(* The invariant of the store, through every overwrite, eviction, delete   *)
(* and prune.                                                              *)
THEOREM LRUInvariant == Spec => []LRUInv
<1>1. Init => LRUInv
  <2> SUFFICES ASSUME Init PROVE StoreOK
    BY InitAskedOK DEF LRUInv
  <2>1. clock \in 0..MaxClock
    BY LRUConstants DEF Init
  <2> QED BY <2>1, EmptyStoreOK DEF Init
<1>2. LRUInv /\ [Next]_vars => LRUInv'
  BY NextStoreOK, NextAskedOK DEF LRUInv, StoreOK
<1> QED BY <1>1, <1>2, PTL DEF Spec

(* The types: the keys of the order are those that have an entry, once     *)
(* each, and the byte count is never negative.                             *)
THEOREM LRUTypeCorrect == Spec => []TypeOK
<1>1. LRUInv => TypeOK
  BY StoreTypes DEF LRUInv
<1> QED BY <1>1, LRUInvariant, PTL

(* _current_size_bytes is the sum of the sizes of what is stored. *)
THEOREM SizeIsAccounted == Spec => []SizeAccounting
<1>1. LRUInv => SizeAccounting
  BY DEF LRUInv, StoreOK
<1> QED BY <1>1, LRUInvariant, PTL

(* The store is within max_size_bytes, or holds one oversized entry alone. *)
THEOREM CapacityHolds == Spec => []WithinCapacity
<1>1. LRUInv => WithinCapacity
  BY DEF LRUInv, StoreOK
<1> QED BY <1>1, LRUInvariant, PTL

(* The dictionary is ordered by last access: popitem(last=False) pops a    *)
(* least recently used key.                                                *)
THEOREM OrderIsRecency == Spec => []RecencyOrder
<1>1. LRUInv => RecencyOrder
  <2> SUFFICES ASSUME LRUInv, NEW i \in DOMAIN order, NEW j \in DOMAIN order, i < j
               PROVE  entry[order[i]].last_accessed <= entry[order[j]].last_accessed
    BY DEF RecencyOrder
  <2>1. order[i] \in Keys /\ order[j] \in Keys
    BY DEF LRUInv, StoreOK, OrderOK
  <2>2. Accessed[order[i]] <= Accessed[order[j]]
    BY DEF LRUInv, StoreOK, OrderOK, Ordered
  <2> QED BY <2>1, <2>2 DEF Accessed
<1> QED BY <1>1, LRUInvariant, PTL

(* Making room never sacrifices an entry while a less recently used one    *)
(* survives: the keys put evicts are a beginning of the order of access.   *)
THEOREM LeastRecentFirst == Spec => EvictsLeastRecent
<1> DEFINE Fair == \A j, k \in Stored :
         (j \notin Stored' /\ asked'[j] = asked[j] /\ clock' = clock /\ ~IsExpired(entry[j])
            /\ k \in Stored' /\ entry'[k] = entry[k])
         => entry[j].last_accessed <= entry[k].last_accessed
<1>1. LRUInv /\ [Next]_vars => [Fair]_vars
  <2> SUFFICES ASSUME LRUInv, Next,
                      NEW j \in Stored, NEW k \in Stored, j \notin Stored', asked'[j] = asked[j],
                      ~IsExpired(entry[j]), k \in Stored', entry'[k] = entry[k]
               PROVE  entry[j].last_accessed <= entry[k].last_accessed
    OBVIOUS
  <2>0. EntriesOK /\ OrderOK /\ AskedOK /\ j \in Keys /\ k \in Keys
    BY DEF LRUInv, StoreOK, Stored
  <2>1. ASSUME NEW p \in Keys, Get(p) PROVE FALSE
    BY <2>0, <2>1, GetKeepsStored
  <2>2. ASSUME NEW p \in Keys, NEW b \in Bodies, NEW ttl \in TTLs, NEW swr \in Windows,
               Put(p, NewEntry(b, ttl, swr))
        PROVE  entry[j].last_accessed <= entry[k].last_accessed
    <3>1. PICK new : new = NewEntry(b, ttl, swr)
      OBVIOUS
    <3>2. new \in Entry /\ new.last_accessed = clock
      BY <2>0, <3>1, NewEntryOK DEF EntriesOK
    <3>3. Insert(p, new)
      BY <2>2, <3>1 DEF Put
    <3>4. PICK V : V = ToSet(Victims(p, new.size))
      OBVIOUS
    <3>5. Stored' = (Stored \ V) \cup {p} /\ entry'[p] = new
      BY <2>0, <3>2, <3>3, <3>4, InsertStored
    <3>6. CASE k = p
      BY <2>0, <3>2, <3>5, <3>6 DEF EntriesOK
    <3>7. CASE k # p
      <4>1. PICK s : s = Others(p)
        OBVIOUS
      <4>2. PICK n : n = Evictions(s, UsedByOthers(p), new.size)
        OBVIOUS
      <4>3. /\ s \in Seq(Keys) /\ ToSet(s) = Stored \ {p} /\ Ordered(s, Accessed)
            /\ n \in 0..Len(s) /\ V = {s[i] : i \in 1..n}
        BY <2>0, <3>4, <4>1, <4>2, VictimsFacts
      <4>4. j \in V /\ k \in ToSet(s) /\ k \notin V
        BY <3>5, <3>7, <4>3
      <4>5. Len(s) \in Nat /\ DOMAIN s = 1..Len(s)
        BY <4>3, LenProperties
      <4>6. PICK x \in 1..n : j = s[x]
        BY <4>3, <4>4
      <4>7. PICK y \in 1..Len(s) : k = s[y]
        BY <4>4, <4>5 DEF ToSet
      <4>8. x \in 1..Len(s) /\ x < y
        BY <4>3, <4>4, <4>5, <4>6, <4>7
      <4>9. Accessed[j] <= Accessed[k]
        BY <4>3, <4>6, <4>7, <4>8 DEF Ordered
      <4> QED BY <2>0, <4>9 DEF Accessed
    <3> QED BY <3>6, <3>7
  <2>3. ASSUME NEW S \in SUBSET Keys, Delete(S) PROVE FALSE
    <3>1. j \in S
      BY <2>0, <2>3 DEF Delete, RemoveEntries, Stored
    <3>2. asked'[j] = Absent
      BY <2>0, <2>3, <3>1 DEF Delete
    <3>3. asked[j] \in Value
      BY <2>0, ShownValue DEF AskedOK
    <3> QED BY <3>2, <3>3, AbsentIsNone
  <2>4. ASSUME ListKeys PROVE FALSE
    BY <2>0, <2>4 DEF ListKeys, RemoveEntries, Stored
  <2>5. ASSUME Tick PROVE FALSE
    BY <2>5 DEF Tick, Stored
  <2>6. ~ UNCHANGED vars
    BY DEF vars, Stored
  <2> QED BY <2>1, <2>2, <2>3, <2>4, <2>5, <2>6, NextIsOne
<1> QED BY <1>1, LRUInvariant, PTL DEF Spec, EvictsLeastRecent

-----------------------------------------------------------------------------
(* The promise of the port.                                                *)

(* A step maps to a step of the port, or to none that a caller sees. *)
LEMMA StepRefines ==
  ASSUME EntriesOK, AskedOK, AskedOK', [Next]_vars
  PROVE  [Abstract!Next]_(Abstract!vars)
<1>1. PICK c : c = [k \in Keys |-> ValueOf(entry[k])]
  OBVIOUS
<1>2. PICK d : d = [k \in Keys |-> ValueOf(entry'[k])]
  OBVIOUS
<1> DEFINE Maps == [Keys -> Value \cup {Absent}]
           Forgets(T) == \A k \in Keys \ T : d[k] \in {c[k], Absent}
<1>3. c \in Maps /\ d \in Maps
  <2>1. \A k \in Keys : ValueOf(entry[k]) \in Value \cup {Absent}
    BY ShownValue DEF Stored, ValueOf
  <2>2. \A k \in Keys : ValueOf(entry'[k]) \in Value \cup {Absent}
    <3> SUFFICES ASSUME NEW k \in Keys PROVE ValueOf(entry'[k]) \in Value \cup {Absent}
      OBVIOUS
    <3>1. CASE entry'[k] = Absent
      BY <3>1 DEF ValueOf
    <3>2. CASE entry'[k] # Absent
      <4>1. k \in Stored'
        BY <3>2 DEF Stored
      <4>2. asked'[k] = ValueOf(entry'[k])
        BY <4>1 DEF AskedOK
      <4>3. asked'[k] \in Value \cup {Absent}
        BY DEF AskedOK
      <4> QED BY <4>2, <4>3
    <3> QED BY <3>1, <3>2
  <2> QED BY <1>1, <1>2, <2>1, <2>2
<1>4. \A k \in Keys : entry'[k] = Absent => d[k] = Absent
  BY <1>2 DEF ValueOf
<1>5. \A k \in Keys : entry'[k] = entry[k] => d[k] = c[k]
  BY <1>1, <1>2
<1>6. ASSUME asked' = asked, Forgets({}) PROVE Abstract!Next
  BY <1>1, <1>2, <1>3, <1>6 DEF Abstract!Next, Abstract!Drop, Abstract!Maps, Abstract!MayDrop
<1>7. ASSUME NEW k \in Keys, NEW v \in Value, asked' = [asked EXCEPT ![k] = v],
             d[k] = v, Forgets({k})
      PROVE  Abstract!Next
  <2>1. Abstract!Put(k, v)
    BY <1>1, <1>2, <1>3, <1>7 DEF Abstract!Put, Abstract!Maps, Abstract!MayDrop
  <2> QED BY <2>1 DEF Abstract!Next
<1>8. ASSUME NEW S \in SUBSET Keys, Delete(S) PROVE Abstract!Next
  <2>1. asked' = [k \in Keys |-> IF k \in S THEN Absent ELSE asked[k]]
    BY <1>8 DEF Delete
  <2>2. \A k \in Keys : IF k \in S THEN entry'[k] = Absent ELSE entry'[k] = entry[k]
    BY <1>8 DEF Delete, RemoveEntries
  <2>3. d = [k \in Keys |-> IF k \in S THEN Absent ELSE c[k]]
    BY <1>3, <1>4, <1>5, <2>2
  <2>4. Abstract!Delete(S)
    BY <1>1, <1>2, <2>1, <2>3 DEF Abstract!Delete
  <2> QED BY <2>4 DEF Abstract!Next
<1>9. ASSUME NEW k \in Keys, Get(k) PROVE Abstract!Next
  <2>1. asked' = asked
    BY <1>9 DEF Get
  <2>2. Stored' = Stored
    BY <1>9, GetKeepsStored
  <2>3. \A j \in Keys : d[j] = c[j]
    <3> SUFFICES ASSUME NEW j \in Keys PROVE d[j] = c[j]
      OBVIOUS
    <3>1. CASE j \in Stored
      BY <1>1, <1>2, <2>1, <2>2, <3>1 DEF AskedOK
    <3>2. CASE j \notin Stored
      <4>1. entry[j] = Absent /\ entry'[j] = Absent
        BY <2>2, <3>2 DEF Stored
      <4> QED BY <1>5, <4>1
    <3> QED BY <3>1, <3>2
  <2> QED BY <1>6, <2>1, <2>3
<1>10. ASSUME NEW k \in Keys, NEW b \in Bodies, NEW ttl \in TTLs, NEW swr \in Windows,
              Put(k, NewEntry(b, ttl, swr))
       PROVE  Abstract!Next
  <2>1. PICK new : new = NewEntry(b, ttl, swr)
    OBVIOUS
  <2>2. ValueOf(new) \in Value
    BY <2>1, NewEntryOK DEF EntriesOK
  <2>3. PICK evicted : entry' = [j \in Keys |-> IF j = k THEN new
                                               ELSE IF j \in evicted THEN Absent ELSE entry[j]]
    BY <1>10, <2>1 DEF Put, Insert
  <2>4. asked' = [asked EXCEPT ![k] = ValueOf(new)]
    BY <1>10, <2>1 DEF Put
  <2>5. entry'[k] = new /\ \A j \in Keys \ {k} : entry'[j] \in {entry[j], Absent}
    BY <2>3
  <2>6. d[k] = ValueOf(new)
    BY <1>2, <2>5
  <2>7. Forgets({k})
    BY <1>4, <1>5, <2>5
  <2> QED BY <1>7, <2>2, <2>4, <2>6, <2>7
<1>11. CASE ListKeys
  <2>1. \A k \in Keys : entry'[k] \in {entry[k], Absent}
    BY <1>11 DEF ListKeys, RemoveEntries
  <2>2. Forgets({})
    BY <1>4, <1>5, <2>1
  <2> QED BY <1>6, <1>11, <2>2 DEF ListKeys
<1>12. CASE UNCHANGED <<entry, asked>>
  <2>1. c = d
    BY <1>1, <1>2, <1>12
  <2> QED BY <1>1, <1>2, <1>12, <2>1 DEF Abstract!vars
<1> QED BY <1>8, <1>9, <1>10, <1>11, <1>12, NextIsOne DEF Tick, vars

(* The store keeps the promise of the port, for any capacity: it may       *)
(* forget, it never invents, and what it is told to delete is gone.        *)
THEOREM KeepsThePromise == Spec => ImplementsCacheStore
<1>1. Init => Abstract!Init
  BY DEF Init, Abstract!Init, ValueOf
<1>2. LRUInv /\ LRUInv' /\ [Next]_vars => [Abstract!Next]_(Abstract!vars)
  BY StepRefines DEF LRUInv, StoreOK
<1> QED BY <1>1, <1>2, LRUInvariant, PTL DEF Spec, ImplementsCacheStore, Abstract!Spec
=============================================================================
