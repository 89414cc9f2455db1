------------------------- MODULE TieredStoreProofs -------------------------
(***************************************************************************)
(* The two-tier store, for any keys, any capacity and entries of any size: *)
(* across demotions, promotions, failed writes and crashes of the process  *)
(* a key is in one tier at most; and for the keys alone in their           *)
(* directory, whatever the others do in theirs, what lies on disk is one   *)
(* put, and the store keeps the promise of the port.                       *)
(***************************************************************************)
EXTENDS TieredStore, KeyOrderProofs

(* What is proved of the LRU store, for the hot tier. *)
Lru == INSTANCE LRUStoreProofs WITH
    Bodies   <- Bodies \cup {Torn},
    BodySize <- [b \in Bodies \cup {Torn} |-> IF b = Torn THEN 0 ELSE BodySize[b]]

-----------------------------------------------------------------------------
(* The inductive invariant.                                                *)

(* The types of the tier on disk and of what the callers asked for. *)
TypesOK ==
    /\ cold \in [Dirs -> Files \cup {Absent}]
    /\ asked \in [Keys -> Value \cup {Absent}]
    /\ \A k \in Keys : entry[k] # Absent => entry[k].size \in Range(BodySize)

(* The metadata in a directory names a key of that directory. *)
MetaAtHome == \A d \in Dirs : HasMeta(d) => DirOf[cold[d].meta.key] = d

(* The content c, whole or torn, and the lifetime are those of the value a. *)
Matches(a, c, ttl, time) ==
    a \in Value /\ c \in {Torn, a.content} /\ ttl = a.ttl /\ time = a.created_at

(* What is in memory under a key alone in its directory is the last put. *)
HotSame == \A k \in Alone : entry[k] # Absent =>
    Matches(asked[k], entry[k].content, entry[k].ttl, entry[k].created_at)

(* The directory f of k names k, and both its files are of the last put. *)
Holds(k, a, f) == f # Absent /\ IsMeta(f.meta) =>
    /\ f.meta.key = k
    /\ f.data # Absent => Matches(a, f.data, f.meta.ttl, f.meta.created_at)
ColdSame == \A k \in Alone : Holds(k, asked[k], cold[DirOf[k]])

TieredInv == Lru!StoreOK /\ TypesOK /\ MetaAtHome /\ HotNotCold /\ HotSame /\ ColdSame

-----------------------------------------------------------------------------
(* The hot tier is an LRU store.                                           *)

(* It satisfies the assumptions under which the LRU store is proved. *)
LEMMA HotAssumptions ==
  LET bodies == Bodies \cup {Torn}
      sizes  == [b \in bodies |-> IF b = Torn THEN 0 ELSE BodySize[b]]
  IN  /\ Capacity \in Nat /\ MaxClock \in Nat
      /\ sizes \in [bodies -> Nat] /\ TTLs \subseteq Nat /\ Windows \subseteq Nat
      /\ Prefixed \subseteq SUBSET Keys
      /\ Absent \notin Lru!Entry /\ Absent \notin Lru!Value
<1>1. Lru!Entry = Hot!Entry /\ Lru!Value = Hot!Value
  BY DEF Lru!Entry, Hot!Entry, Lru!Value, Hot!Value, Lru!Range, Hot!Range
<1> QED BY <1>1, TieredConstants, AbsentIsNone

(* The operators of the hot tier are those the lemmas of the LRU store are *)
(* about: its deletion from the order,                                     *)
LEMMA HotWithout ==
  ASSUME NEW s, NEW S
  PROVE  Hot!Without(s, S) = Lru!Without(s, S)
  BY DEF Hot!Without, Lru!Without

(* its sum of sizes, *)
LEMMA HotSize ==
  ASSUME NEW S
  PROVE  Hot!SizeOf(S) = Lru!SizeOf(S)
  BY DEF Hot!SizeOf, Lru!SizeOf, Hot!SumFunctionOnSet, Lru!SumFunctionOnSet,
         Hot!FoldFunctionOnSet, Lru!FoldFunctionOnSet, Hot!MapThenFoldSet, Lru!MapThenFoldSet

(* its choice of victims, *)
LEMMA HotVictims ==
  ASSUME NEW k, NEW n
  PROVE  Hot!Victims(k, n) = Lru!Victims(k, n)
<1>1. Hot!Others(k) = Lru!Others(k)
  BY HotWithout DEF Hot!Others, Lru!Others
<1>2. Hot!UsedByOthers(k) = Lru!UsedByOthers(k)
  BY DEF Hot!UsedByOthers, Lru!UsedByOthers
<1>3. ASSUME NEW s, NEW u PROVE Hot!Evictions(s, u, n) = Lru!Evictions(s, u, n)
  BY HotSize DEF Hot!Evictions, Lru!Evictions, Hot!Min, Lru!Min
<1> QED BY <1>1, <1>2, <1>3 DEF Hot!Victims, Lru!Victims, Hot!EvictLRU, Lru!EvictLRU

(* its insertion, *)
LEMMA HotInsert ==
  ASSUME NEW k, NEW e, Hot!Insert(k, e)
  PROVE  Lru!Insert(k, e)
<1>1. PICK V : V = ToSet(Hot!Victims(k, e.size))
  OBVIOUS
<1>2. Hot!ToSet(Hot!Victims(k, e.size)) = V /\ Lru!ToSet(Lru!Victims(k, e.size)) = V
  BY <1>1, HotVictims DEF ToSet, Hot!ToSet, Lru!ToSet
<1>3. Hot!Others(k) = Lru!Others(k)
  BY HotWithout DEF Hot!Others, Lru!Others
<1>4. Hot!UsedByOthers(k) = Lru!UsedByOthers(k)
  BY DEF Hot!UsedByOthers, Lru!UsedByOthers
<1>5. Hot!SizeOf(V) = Lru!SizeOf(V)
  BY HotSize
<1>6. Hot!Without(Hot!Others(k), V) = Lru!Without(Lru!Others(k), V)
  BY <1>3, HotWithout
<1> QED BY <1>2, <1>4, <1>5, <1>6 DEF Hot!Insert, Lru!Insert

(* its lookup, *)
LEMMA HotGet ==
  ASSUME NEW k, Hot!Get(k)
  PROVE  Lru!Get(k)
<1>1. Hot!MoveToEnd(k) = Lru!MoveToEnd(k)
  BY HotWithout DEF Hot!MoveToEnd, Lru!MoveToEnd
<1> QED BY <1>1 DEF Hot!Get, Lru!Get

(* and its removal. *)
LEMMA HotRemove ==
  ASSUME NEW S, Hot!RemoveEntries(S)
  PROVE  Lru!RemoveEntries(S)
<1>1. Hot!Without(order, S) = Lru!Without(order, S) /\ Hot!SizeOf(S) = Lru!SizeOf(S)
  BY HotWithout, HotSize
<1> QED BY <1>1 DEF Hot!RemoveEntries, Lru!RemoveEntries

(* An empty hot tier. *)
LEMMA EmptyHot ==
  order = <<>> /\ entry = [k \in Keys |-> Absent] /\ current_size = 0 /\ clock \in 0..MaxClock
    => Lru!StoreOK
  BY HotAssumptions, Lru!EmptyStoreOK

(* What a put of n bytes demotes: keys of the hot tier, not the one put. *)
LEMMA Demoted ==
  ASSUME Lru!StoreOK, NEW k \in Keys, NEW n
  PROVE  /\ Hot!Victims(k, n) \in Seq(Keys)
         /\ k \notin ToSet(Hot!Victims(k, n))
         /\ \A j \in ToSet(Hot!Victims(k, n)) : j \in Keys /\ entry[j] # Absent
<1>1. /\ Lru!Victims(k, n) \in Seq(Keys)
      /\ Lru!ToSet(Lru!Victims(k, n)) \subseteq Lru!Stored \ {k}
  BY HotAssumptions, Lru!VictimsStored DEF Lru!StoreOK
<1>2. Lru!ToSet(Lru!Victims(k, n)) = ToSet(Hot!Victims(k, n))
  BY HotVictims DEF ToSet, Lru!ToSet
<1> QED BY <1>1, <1>2, HotVictims DEF Lru!Stored

(* What a put leaves in the hot tier. *)
LEMMA Inserted ==
  ASSUME NEW k \in Keys, NEW e, Hot!Insert(k, e)
  PROVE  \A j \in Keys : entry'[j] = IF j = k THEN e
                                    ELSE IF j \in ToSet(Hot!Victims(k, e.size)) THEN Absent
                                    ELSE entry[j]
<1>1. PICK V : V = ToSet(Hot!Victims(k, e.size))
  OBVIOUS
<1>2. Hot!ToSet(Hot!Victims(k, e.size)) = V
  BY <1>1 DEF ToSet, Hot!ToSet
<1>3. entry' = [j \in Keys |-> IF j = k THEN e ELSE IF j \in V THEN Absent ELSE entry[j]]
  BY <1>2 DEF Hot!Insert
<1> QED BY <1>1, <1>3

-----------------------------------------------------------------------------
(* The directories.                                                        *)

(* What a step that is interrupted may leave of the directory f. *)
Relics(f) == {Absent, f} \cup
    (IF f = Absent THEN {} ELSE [meta : {f.meta, Absent}, data : {f.data, Absent}])

(* What a demotion of j may leave, finished or not, of an empty directory. *)
Remains(j) == {Absent} \cup
    [meta : {Absent, Torn, Meta(j)}, data : {Absent, Torn, entry[j].content}]

(* What a step that demotes the keys V may leave of the directory d that   *)
(* held f, whoever shares it: files of before, torn ones, or files of the  *)
(* demoted keys of that directory.                                         *)
Mixed(V, d, f) == {Absent} \cup
    [meta : {Absent, Torn, File(f, "meta")} \cup {Meta(j) : j \in {i \in V : DirOf[i] = d}},
     data : {Absent, Torn, File(f, "data")}
              \cup {entry[j].content : j \in {i \in V : DirOf[i] = d}}]

(* A key alone in its directory. *)
LEMMA AloneIs ==
  /\ Alone \subseteq Keys
  /\ \A k \in Alone, j \in Keys : DirOf[j] = DirOf[k] => j = k
  BY DEF Alone

(* Every directory is that of a key. *)
LEMMA DirsAreKeys == (\A k \in Keys : DirOf[k] \in Dirs) /\ \A d \in Dirs : \E k \in Keys : d = DirOf[k]
<1>1. DOMAIN DirOf = Keys
  BY DEF DirOf
<1> HIDE DEF DirOf
<1> QED BY <1>1 DEF Dirs, Range

(* Deleting directories. *)
LEMMA Erased ==
  ASSUME NEW D
  PROVE  \A k \in Keys : Erase(D)[DirOf[k]] = IF DirOf[k] \in D THEN Absent ELSE cold[DirOf[k]]
  BY DirsAreKeys DEF Erase

(* Writing the demoted keys: one alone in its directory has it to itself, *)
LEMMA Written ==
  ASSUME NEW c, NEW keys \in Seq(Keys), NEW j \in Alone
  PROVE  ColdWrite(c, keys)[DirOf[j]] =
           IF j \in ToSet(keys) THEN [meta |-> Meta(j), data |-> entry[j].content]
           ELSE c[DirOf[j]]
<1>1. PICK d : d = DirOf[j]
  OBVIOUS
<1>2. PICK at : at = {i \in DOMAIN keys : DirOf[keys[i]] = d}
  OBVIOUS
<1>3. Len(keys) \in Nat /\ DOMAIN keys = 1..Len(keys) /\ \A i \in 1..Len(keys) : keys[i] \in Keys
  BY LenProperties
<1>4. \A i \in at : keys[i] = j
  BY <1>1, <1>2, <1>3, AloneIs
<1>5. ColdWrite(c, keys)[d] =
        IF at = {} THEN c[d]
        ELSE [meta |-> Meta(keys[Max(at)]), data |-> entry[keys[Max(at)]].content]
  <2>1. d \in Dirs
    BY <1>1, DirsAreKeys, AloneIs
  <2> QED BY <1>2, <2>1 DEF ColdWrite
<1>6. CASE at = {}
  <2>1. j \notin ToSet(keys)
    BY <1>1, <1>2, <1>6 DEF ToSet
  <2> QED BY <1>1, <1>5, <1>6, <2>1
<1>7. CASE at # {}
  <2>1. at \in SUBSET (0..Len(keys))
    BY <1>2, <1>3
  <2>2. Max(at) \in at
    BY <1>3, <1>7, <2>1, MaxOfNaturals
  <2>3. keys[Max(at)] = j /\ j \in ToSet(keys)
    BY <1>2, <1>4, <2>2 DEF ToSet
  <2> QED BY <1>1, <1>5, <1>7, <2>3
<1> QED BY <1>6, <1>7

(* and any directory is left alone or has both files of a demoted key. *)
LEMMA WrittenAny ==
  ASSUME NEW c, NEW keys \in Seq(Keys), NEW d \in Dirs
  PROVE  \/ ColdWrite(c, keys)[d] = c[d]
         \/ \E j \in ToSet(keys) : /\ DirOf[j] = d
                                   /\ ColdWrite(c, keys)[d] = [meta |-> Meta(j), data |-> entry[j].content]
<1>1. PICK at : at = {i \in DOMAIN keys : DirOf[keys[i]] = d}
  OBVIOUS
<1>2. Len(keys) \in Nat /\ DOMAIN keys = 1..Len(keys)
  BY LenProperties
<1>3. ColdWrite(c, keys)[d] =
        IF at = {} THEN c[d]
        ELSE [meta |-> Meta(keys[Max(at)]), data |-> entry[keys[Max(at)]].content]
  BY <1>1 DEF ColdWrite
<1>4. CASE at # {}
  <2>1. at \in SUBSET (0..Len(keys))
    BY <1>1, <1>2
  <2>2. Max(at) \in at
    BY <1>2, <1>4, <2>1, MaxOfNaturals
  <2>3. DirOf[keys[Max(at)]] = d /\ keys[Max(at)] \in ToSet(keys)
    BY <1>1, <2>2 DEF ToSet
  <2> QED BY <1>3, <1>4, <2>3
<1> QED BY <1>3, <1>4

(* Both files of a demoted key, or what was there, are such a mixture. *)
LEMMA WrittenIsMixed ==
  ASSUME NEW V, NEW d, NEW f
  PROVE  /\ \A j \in V : DirOf[j] = d => [meta |-> Meta(j), data |-> entry[j].content] \in Mixed(V, d, f)
         /\ \A m, b : f = Absent \/ f = [meta |-> m, data |-> b] => f \in Mixed(V, d, f)
<1>1. \A j \in V : DirOf[j] = d => [meta |-> Meta(j), data |-> entry[j].content] \in Mixed(V, d, f)
  BY DEF Mixed
<1>2. ASSUME NEW m, NEW b, f # Absent, f = [meta |-> m, data |-> b] PROVE f \in Mixed(V, d, f)
  <2>1. File(f, "meta") = m /\ File(f, "data") = b
    BY <1>2 DEF File
  <2> QED BY <1>2, <2>1 DEF Mixed
<1>3. f = Absent => f \in Mixed(V, d, f)
  BY DEF Mixed
<1> QED BY <1>1, <1>2, <1>3

(* So writing the demoted keys leaves such mixtures everywhere. *)
LEMMA WrittenIsMixture ==
  ASSUME NEW c, NEW keys \in Seq(Keys), NEW d \in Dirs,
         c[d] = Absent \/ \E m, b : c[d] = [meta |-> m, data |-> b]
  PROVE  ColdWrite(c, keys)[d] \in Mixed(ToSet(keys), d, c[d])
<1>1. PICK V : V = ToSet(keys)
  OBVIOUS
<1>2. PICK g : g = ColdWrite(c, keys)[d]
  OBVIOUS
<1>3. g = c[d] \/ \E j \in V : DirOf[j] = d /\ g = [meta |-> Meta(j), data |-> entry[j].content]
  BY <1>1, <1>2, WrittenAny
<1>4. CASE g = c[d]
  <2>1. c[d] \in Mixed(V, d, c[d])
    BY WrittenIsMixed
  <2> QED BY <1>1, <1>2, <1>4, <2>1
<1>5. ASSUME NEW j \in V, DirOf[j] = d, g = [meta |-> Meta(j), data |-> entry[j].content]
      PROVE  g \in Mixed(V, d, c[d])
  BY <1>5, WrittenIsMixed
<1> QED BY <1>1, <1>2, <1>3, <1>4, <1>5

(* Every directory holds its two files, there or not. *)
Shaped(c) == \A d \in Dirs : c[d] = Absent \/ \E m, b : c[d] = [meta |-> m, data |-> b]

(* Flushing the demotions, to the end or to an OSError or a crash, over    *)
(* directories that hold nothing of the demoted keys alone in theirs.      *)
LEMMA Flushed ==
  ASSUME NEW c, NEW keys \in Seq(Keys),
         Shaped(c), \A j \in ToSet(keys) : j \in Alone => c[DirOf[j]] = Absent,
         NEW x \in {ColdWrite(c, keys)} \cup Interrupted(c, keys), NEW V, V = ToSet(keys)
  PROVE  /\ DOMAIN x = Dirs /\ x = [d \in Dirs |-> x[d]]
         /\ \A d \in Dirs : x[d] \in Mixed(V, d, c[d])
         /\ \A j \in Alone : IF j \in V THEN x[DirOf[j]] \in Remains(j)
                             ELSE x[DirOf[j]] = c[DirOf[j]]
<1>1. ASSUME NEW j \in Keys PROVE [meta |-> Meta(j), data |-> entry[j].content] \in Remains(j)
  BY DEF Remains
<1>2. CASE x = ColdWrite(c, keys)
  <2>1. DOMAIN x = Dirs /\ x = [d \in Dirs |-> x[d]]
    BY <1>2 DEF ColdWrite
  <2>2. ASSUME NEW d \in Dirs PROVE x[d] \in Mixed(V, d, c[d])
    BY <1>2, WrittenIsMixture DEF Shaped
  <2>3. ASSUME NEW j \in Alone
        PROVE  IF j \in V THEN x[DirOf[j]] \in Remains(j) ELSE x[DirOf[j]] = c[DirOf[j]]
    <3>1. x[DirOf[j]] = IF j \in V THEN [meta |-> Meta(j), data |-> entry[j].content]
                        ELSE c[DirOf[j]]
      BY <1>2, Written
    <3> QED BY <1>1, <3>1, AloneIs
  <2> QED BY <2>1, <2>2, <2>3
<1>3. CASE x \in Interrupted(c, keys)
  <2>0. Len(keys) \in Nat /\ DOMAIN keys = 1..Len(keys) /\ \A i \in 1..Len(keys) : keys[i] \in Keys
    BY LenProperties
  <2>1. PICK n \in DOMAIN keys :
          LET done == ColdWrite(c, SubSeq(keys, 1, n - 1))
              dir  == DirOf[keys[n]]
          IN  x \in {[done EXCEPT ![dir] = f] : f \in HalfWritten(keys[n], done[dir])}
    BY <1>3 DEF Interrupted
  <2>2. PICK first : first = SubSeq(keys, 1, n - 1)
    OBVIOUS
  <2>3. PICK p : p = keys[n]
    OBVIOUS
  <2>4. PICK done : done = ColdWrite(c, first)
    OBVIOUS
  <2>5. PICK f \in HalfWritten(p, done[DirOf[p]]) : x = [done EXCEPT ![DirOf[p]] = f]
    BY <2>1, <2>2, <2>3, <2>4
  <2>6. p \in Keys /\ p \in ToSet(keys) /\ DirOf[p] \in Dirs
    BY <2>0, <2>1, <2>3, DirsAreKeys DEF ToSet
  <2>7. first \in Seq(Keys) /\ ToSet(first) \subseteq ToSet(keys)
    <3>1. n - 1 \in 0..Len(keys)
      BY <2>0, <2>1
    <3> QED BY <2>2, <3>1, BeginningSet
  <2>8. DOMAIN done = Dirs /\ done = [d \in Dirs |-> done[d]]
    BY <2>4 DEF ColdWrite
  <2>9. \A j \in Alone : done[DirOf[j]] =
          IF j \in ToSet(first) THEN [meta |-> Meta(j), data |-> entry[j].content]
          ELSE c[DirOf[j]]
    BY <2>4, <2>7, Written
  <2>10. \A j \in ToSet(keys) : j \in Alone => done[DirOf[j]] \in Remains(j)
    BY <1>1, <2>9, AloneIs DEF Remains
  <2>11. PICK g : g = done[DirOf[p]]
    OBVIOUS
  <2>12. PICK m : m = Meta(p)
    OBVIOUS
  <2>13. PICK b : b = entry[p].content
    OBVIOUS
  <2>14. f \in [meta : {File(g, "meta"), Torn, m}, data : {File(g, "data"), Torn}]
    BY <2>5, <2>11, <2>12 DEF HalfWritten
  <2>15. p \in Alone => f \in Remains(p)
    <3> SUFFICES ASSUME p \in Alone PROVE f \in Remains(p)
      OBVIOUS
    <3>1. g \in Remains(p)
      BY <2>6, <2>10, <2>11
    <3>2. g = Absent \/ g \in [meta : {Absent, Torn, m}, data : {Absent, Torn, b}]
      BY <2>12, <2>13, <3>1 DEF Remains
    <3>3. File(g, "meta") \in {Absent, Torn, m} /\ File(g, "data") \in {Absent, Torn, b}
      BY <3>2 DEF File
    <3>4. f \in [meta : {Absent, Torn, m}, data : {Absent, Torn, b}]
      BY <2>14, <3>3
    <3> QED BY <2>12, <2>13, <3>4 DEF Remains
  <2>16. ASSUME NEW d \in Dirs PROVE done[d] \in Mixed(V, d, c[d])
    <3>1. done[d] \in Mixed(ToSet(first), d, c[d])
      BY <2>4, <2>7, WrittenIsMixture DEF Shaped
    <3> QED BY <2>7, <3>1 DEF Mixed
  <2>17. f \in Mixed(V, DirOf[p], c[DirOf[p]])
    <3>1. PICK d : d = DirOf[p]
      OBVIOUS
    <3>2. PICK M : M = {Absent, Torn, File(c[d], "meta")} \cup {Meta(j) : j \in {i \in ToSet(keys) : DirOf[i] = d}}
      OBVIOUS
    <3>3. PICK B : B = {Absent, Torn, File(c[d], "data")}
                         \cup {entry[j].content : j \in {i \in ToSet(keys) : DirOf[i] = d}}
      OBVIOUS
    <3>4. Mixed(V, d, c[d]) = {Absent} \cup [meta : M, data : B]
      BY <3>2, <3>3 DEF Mixed
    <3>5. g = Absent \/ g \in [meta : M, data : B]
      BY <2>6, <2>11, <2>16, <3>1, <3>4
    <3>6. Absent \in M /\ Torn \in M /\ Absent \in B /\ Torn \in B
      BY <3>2, <3>3
    <3>7. m \in M
      BY <2>6, <2>12, <3>1, <3>2
    <3>8. File(g, "meta") \in M /\ File(g, "data") \in B
      BY <3>5, <3>6 DEF File
    <3>9. f \in [meta : M, data : B]
      BY <2>14, <3>6, <3>7, <3>8
    <3> QED BY <3>1, <3>4, <3>9
  <2>18. DOMAIN x = Dirs /\ x = [d \in Dirs |-> x[d]]
    BY <2>5, <2>8
  <2>19. \A d \in Dirs : x[d] = IF d = DirOf[p] THEN f ELSE done[d]
    BY <2>5, <2>8
  <2>20. \A d \in Dirs : x[d] \in Mixed(V, d, c[d])
    BY <2>16, <2>17, <2>19
  <2>21. ASSUME NEW j \in Alone
         PROVE  IF j \in V THEN x[DirOf[j]] \in Remains(j)
                ELSE x[DirOf[j]] = c[DirOf[j]]
    <3>1. CASE j = p
      BY <2>6, <2>15, <2>19, <3>1
    <3>2. CASE j # p
      <4>1. DirOf[j] # DirOf[p] /\ DirOf[j] \in Dirs
        BY <2>6, <3>2, DirsAreKeys, AloneIs
      <4>2. x[DirOf[j]] = done[DirOf[j]]
        BY <2>19, <4>1
      <4> QED BY <2>7, <2>9, <2>10, <4>2
    <3> QED BY <3>1, <3>2
  <2> QED BY <2>18, <2>20, <2>21
<1> QED BY <1>2, <1>3

(* A deletion that is interrupted. *)
LEMMA Partly ==
  ASSUME NEW D \in SUBSET Dirs, NEW x \in PartlyErased(D)
  PROVE  /\ DOMAIN x = Dirs /\ x = [d \in Dirs |-> x[d]]
         /\ \A d \in Dirs : x[d] \in Relics(cold[d])
<1>1. ASSUME NEW G
      PROVE  /\ DOMAIN Erase(G) = Dirs /\ Erase(G) = [d \in Dirs |-> Erase(G)[d]]
             /\ \A d \in Dirs : Erase(G)[d] \in {Absent, cold[d]}
  BY DEF Erase
<1>2. CASE \E G \in SUBSET D : x = Erase(G)
  BY <1>1, <1>2 DEF Relics
<1>3. CASE \E G \in SUBSET D, d \in {d \in D : cold[d] # Absent}, left \in SUBSET {"meta", "data"} :
             x = [Erase(G) EXCEPT ![d] = [meta |-> IF "meta" \in left THEN cold[d].meta ELSE Absent,
                                          data |-> IF "data" \in left THEN cold[d].data ELSE Absent]]
  <2>1. PICK G \in SUBSET D, p \in {d \in D : cold[d] # Absent}, left \in SUBSET {"meta", "data"} :
             x = [Erase(G) EXCEPT ![p] = [meta |-> IF "meta" \in left THEN cold[p].meta ELSE Absent,
                                          data |-> IF "data" \in left THEN cold[p].data ELSE Absent]]
    BY <1>3
  <2>2. PICK f : f = [meta |-> IF "meta" \in left THEN cold[p].meta ELSE Absent,
                      data |-> IF "data" \in left THEN cold[p].data ELSE Absent]
    OBVIOUS
  <2>3. f \in Relics(cold[p])
    BY <2>1, <2>2 DEF Relics
  <2>4. PICK e : e = Erase(G)
    OBVIOUS
  <2>5. x = [e EXCEPT ![p] = f] /\ p \in Dirs
    BY <2>1, <2>2, <2>4
  <2>6. DOMAIN e = Dirs /\ e = [d \in Dirs |-> e[d]] /\ \A d \in Dirs : e[d] \in {Absent, cold[d]}
    BY <1>1, <2>4
  <2>7. \A d \in Dirs : e[d] \in Relics(cold[d])
    BY <2>6 DEF Relics
  <2>8. DOMAIN x = Dirs /\ x = [d \in Dirs |-> x[d]] /\ \A d \in Dirs : x[d] = IF d = p THEN f ELSE e[d]
    BY <2>5, <2>6
  <2> QED BY <2>3, <2>7, <2>8
<1> QED BY <1>2, <1>3 DEF PartlyErased

-----------------------------------------------------------------------------
(* What every step does to the directories.                                *)

(* A directory is kept, loses files, or receives demotions of keys in V;   *)
(* that of a key alone in it receives no other.                            *)
DiskStep(V) ==
    /\ V \subseteq {k \in Keys : entry[k] # Absent}
    /\ cold' = [d \in Dirs |-> cold'[d]]
    /\ \A d \in Dirs : cold'[d] \in Mixed(V, d, cold[d])
    /\ \A j \in Alone : \/ cold'[DirOf[j]] \in Relics(cold[DirOf[j]])
                        \/ j \in V /\ cold'[DirOf[j]] \in Remains(j)

(* A directory holds its two files, there or not. *)
LEMMA ColdShape ==
  ASSUME TypesOK, NEW d \in Dirs
  PROVE  cold[d] = Absent \/ \E m, b : cold[d] = [meta |-> m, data |-> b]
  BY DEF TypesOK, Files

(* What is kept of a directory is such a mixture, and a mixture over an    *)
(* emptied directory is one over the directory.                            *)
LEMMA LessIsMixed ==
  ASSUME NEW V, NEW d, NEW f, NEW m, NEW b, f = Absent \/ f = [meta |-> m, data |-> b]
  PROVE  Relics(f) \subseteq Mixed(V, d, f) /\ Mixed(V, d, Absent) \subseteq Mixed(V, d, f)
<1>1. Mixed(V, d, Absent) \subseteq Mixed(V, d, f)
  BY DEF Mixed, File
<1>2. CASE f # Absent
  <2>1. File(f, "meta") = m /\ File(f, "data") = b
    BY <1>2 DEF File
  <2> QED BY <1>1, <1>2, <2>1 DEF Mixed, Relics
<1>3. CASE f = Absent
  BY <1>3 DEF Mixed, Relics
<1> QED BY <1>1, <1>2, <1>3

(* A step that only loses files. *)
LEMMA LossIsDiskStep ==
  ASSUME TypesOK, cold' = [d \in Dirs |-> cold'[d]], \A d \in Dirs : cold'[d] \in Relics(cold[d])
  PROVE  DiskStep({})
<1>1. ASSUME NEW d \in Dirs PROVE cold'[d] \in Mixed({}, d, cold[d])
  BY <1>1, ColdShape, LessIsMixed
<1> QED BY <1>1, DirsAreKeys, AloneIs DEF DiskStep

(* What an entry of the hot tier has. *)
LEMMA HotEntry ==
  ASSUME Lru!StoreOK, NEW k \in Keys, entry[k] # Absent
  PROVE  /\ entry[k] \in Lru!Entry
         /\ entry[k].content \in Bodies \cup {Torn}
         /\ entry[k].ttl \in TTLs /\ entry[k].created_at \in 0..MaxClock
<1>1. entry[k] \in Lru!Entry
  BY DEF Lru!StoreOK, Lru!EntriesOK
<1> QED BY <1>1 DEF Lru!Entry

(* Deleting directories is such a step. *)
LEMMA EraseIsDiskStep ==
  ASSUME TypesOK, NEW D, cold' = Erase(D)
  PROVE  DiskStep({})
<1>1. cold' = [d \in Dirs |-> cold'[d]]
  BY DEF Erase
<1>2. \A d \in Dirs : cold'[d] \in Relics(cold[d])
  BY DEF Relics, Erase
<1> QED BY <1>1, <1>2, LossIsDiskStep

(* So is leaving them alone. *)
LEMMA KeptIsDiskStep ==
  ASSUME TypesOK, cold' = cold
  PROVE  DiskStep({})
<1>1. cold' = [d \in Dirs |-> cold'[d]]
  BY DEF TypesOK
<1>2. \A d \in Dirs : cold'[d] \in Relics(cold[d])
  BY DEF Relics
<1> QED BY <1>1, <1>2, LossIsDiskStep

(* Deleting some directories and flushing the demotions of some keys, to   *)
(* the end or not.                                                         *)
LEMMA FlushIsDiskStep ==
  ASSUME TieredInv, NEW keys \in Seq(Keys),
         \A j \in ToSet(keys) : j \in Keys /\ entry[j] # Absent,
         NEW c, \A d \in Dirs : c[d] = Absent \/ c[d] = cold[d], cold' \in {ColdWrite(c, keys)} \cup Interrupted(c, keys),
         NEW V, V = ToSet(keys)
  PROVE  /\ DiskStep(V)
         /\ \A d \in Dirs : cold'[d] \in Mixed(V, d, c[d])
         /\ \A j \in Alone \ V : cold'[DirOf[j]] = c[DirOf[j]]
<1>1. V = ToSet(keys)
  OBVIOUS
<1>2. TypesOK
  BY DEF TieredInv
<1>3. \A d \in Dirs : c[d] = Absent \/ c[d] = cold[d]
  OBVIOUS
<1>4. Shaped(c)
  BY <1>2, <1>3, ColdShape DEF Shaped
<1>5. \A j \in V : j \in Alone => c[DirOf[j]] = Absent
  BY <1>1, <1>3, DirsAreKeys, AloneIs DEF TieredInv, HotNotCold
<1>6. PICK x : x = cold'
  OBVIOUS
<1>7. /\ x \in {ColdWrite(c, keys)} \cup Interrupted(c, keys)
      /\ \A j \in ToSet(keys) : j \in Alone => c[DirOf[j]] = Absent
  BY <1>1, <1>5, <1>6
<1>8. /\ x = [d \in Dirs |-> x[d]]
      /\ \A d \in Dirs : x[d] \in Mixed(V, d, c[d])
      /\ \A j \in Alone : IF j \in V THEN x[DirOf[j]] \in Remains(j)
                          ELSE x[DirOf[j]] = c[DirOf[j]]
  BY <1>1, <1>4, <1>7, Flushed
<1>9. ASSUME NEW d \in Dirs PROVE x[d] \in Mixed(V, d, cold[d])
  <2>1. cold[d] = Absent \/ \E m, b : cold[d] = [meta |-> m, data |-> b]
    BY <1>2, ColdShape
  <2>2. Mixed(V, d, Absent) \subseteq Mixed(V, d, cold[d])
    BY <2>1, LessIsMixed
  <2> QED BY <1>3, <1>8, <2>2
<1>10. ASSUME NEW j \in Alone
      PROVE  \/ x[DirOf[j]] \in Relics(cold[DirOf[j]])
             \/ j \in V /\ x[DirOf[j]] \in Remains(j)
  <2>1. CASE j \in V
    BY <1>8, <2>1
  <2>2. CASE j \notin V
    <3>1. x[DirOf[j]] \in {Absent, cold[DirOf[j]]}
      BY <1>3, <1>8, <2>2, DirsAreKeys, AloneIs
    <3> QED BY <3>1 DEF Relics
  <2> QED BY <2>1, <2>2
<1>11. DiskStep(V)
  BY <1>1, <1>6, <1>8, <1>9, <1>10 DEF DiskStep
<1> QED BY <1>1, <1>6, <1>8, <1>11

(* A put or a promotion of k: what its directory held is gone, those of    *)
(* the demoted keys receive them, the others are kept.                     *)
LEMMA MovedDisk ==
  ASSUME TieredInv, NEW k \in Keys, NEW e, MoveIn(k, e),
         NEW V, V = ToSet(Hot!Victims(k, e.size))
  PROVE  /\ DiskStep(V) /\ k \notin V
         /\ cold'[DirOf[k]] \in Mixed(V, DirOf[k], Absent)
         /\ k \in Alone => cold'[DirOf[k]] = Absent
         /\ \A j \in Alone \ (V \cup {k}) : cold'[DirOf[j]] = cold[DirOf[j]]
<1>1. PICK keys : keys = Hot!Victims(k, e.size)
  OBVIOUS
<1>2. /\ keys \in Seq(Keys) /\ k \notin ToSet(keys)
      /\ \A j \in ToSet(keys) : j \in Keys /\ entry[j] # Absent
  BY <1>1, Demoted DEF TieredInv
<1>3. PICK c : c = Erase({DirOf[k]})
  OBVIOUS
<1>4. /\ cold' \in {ColdWrite(c, keys)} \cup Interrupted(c, keys)
      /\ \A d \in Dirs : c[d] = Absent \/ c[d] = cold[d]
  BY <1>1, <1>3 DEF MoveIn, TakeOut, Erase
<1>5. /\ DiskStep(V)
      /\ \A d \in Dirs : cold'[d] \in Mixed(V, d, c[d])
      /\ \A j \in Alone \ V : cold'[DirOf[j]] = c[DirOf[j]]
  BY <1>1, <1>2, <1>4, FlushIsDiskStep
<1>6. \A j \in Keys : c[DirOf[j]] = IF DirOf[j] = DirOf[k] THEN Absent ELSE cold[DirOf[j]]
  BY <1>3, Erased
<1>7. cold'[DirOf[k]] \in Mixed(V, DirOf[k], Absent)
  BY <1>5, <1>6, DirsAreKeys
<1>8. k \in Alone => cold'[DirOf[k]] = Absent
  BY <1>1, <1>2, <1>5, <1>6
<1>9. \A j \in Alone \ (V \cup {k}) : cold'[DirOf[j]] = cold[DirOf[j]]
  BY <1>5, <1>6, AloneIs
<1> QED BY <1>1, <1>2, <1>5, <1>7, <1>8, <1>9

(* So is what any crash leaves. *)
LEMMA CrashIsDiskStep ==
  ASSUME TieredInv, cold' \in LeftByCrash
  PROVE  \E V : DiskStep(V)
<1>1. ASSUME NEW D \in SUBSET Dirs, NEW keys \in Seq(Keys), cold' \in LeftBy(D, keys),
             \A j \in ToSet(keys) : j \in Keys /\ entry[j] # Absent
      PROVE  \E V : DiskStep(V)
  <2>1. CASE cold' \in PartlyErased(D)
    <3>1. PICK x : x = cold'
      OBVIOUS
    <3>2. x = [d \in Dirs |-> x[d]] /\ \A d \in Dirs : x[d] \in Relics(cold[d])
      BY <2>1, <3>1, Partly
    <3>3. DiskStep({})
      BY <3>1, <3>2, LossIsDiskStep DEF TieredInv
    <3> QED BY <3>3
  <2>2. CASE cold' \in Interrupted(Erase(D), keys)
    <3>1. PICK c : c = Erase(D)
      OBVIOUS
    <3>2. PICK V : V = ToSet(keys)
      OBVIOUS
    <3>3. \A d \in Dirs : c[d] = Absent \/ c[d] = cold[d]
      BY <3>1 DEF Erase
    <3>4. DiskStep(V)
      BY <1>1, <2>2, <3>1, <3>2, <3>3, FlushIsDiskStep
    <3> QED BY <3>4
  <2> QED BY <1>1, <2>1, <2>2 DEF LeftBy
<1>2. CASE \E k \in Keys, b \in Bodies : cold' \in LeftBy({DirOf[k]}, Hot!Victims(k, BodySize[b]))
  <2>1. PICK k \in Keys, b \in Bodies : cold' \in LeftBy({DirOf[k]}, Hot!Victims(k, BodySize[b]))
    BY <1>2
  <2>2. PICK keys : keys = Hot!Victims(k, BodySize[b])
    OBVIOUS
  <2>3. keys \in Seq(Keys) /\ \A j \in ToSet(keys) : j \in Keys /\ entry[j] # Absent
    BY <2>2, Demoted DEF TieredInv
  <2>4. {DirOf[k]} \in SUBSET Dirs
    BY DirsAreKeys
  <2> QED BY <1>1, <2>1, <2>2, <2>3, <2>4
<1>3. CASE \E D \in {DirsWithPrefix(S) : S \in Prefixed} \cup {ExpiredDirs} : cold' \in LeftBy(D, <<>>)
  <2>1. PICK D \in {DirsWithPrefix(S) : S \in Prefixed} \cup {ExpiredDirs} : cold' \in LeftBy(D, <<>>)
    BY <1>3
  <2>2. D \in SUBSET Dirs
    BY <2>1 DEF DirsWithPrefix, ExpiredDirs
  <2>3. <<>> \in Seq(Keys) /\ ToSet(<<>>) = {}
    BY DEF ToSet
  <2> QED BY <1>1, <2>1, <2>2, <2>3
<1>4. CASE cold' \in UNION {LeftBy(D, <<>>) : D \in {DirsWithPrefix(S) : S \in Prefixed}
                                                 \cup {ExpiredDirs}}
  BY <1>3, <1>4
<1>5. CASE cold' \in UNION {UNION {LeftBy({DirOf[k]}, Hot!Victims(k, BodySize[b])) : b \in Bodies}
                            : k \in Keys}
  <2>1. PICK k \in Keys : cold' \in UNION {LeftBy({DirOf[k]}, Hot!Victims(k, BodySize[b])) : b \in Bodies}
    BY <1>5
  <2> QED BY <1>2, <2>1
<1> QED BY <1>4, <1>5 DEF LeftByCrash

(* What a mixture holds: files of the store's kinds, and metadata of       *)
(* before or of a demoted key of that directory.                           *)
LEMMA MixedIs ==
  ASSUME TieredInv, NEW V, V \subseteq {k \in Keys : entry[k] # Absent},
         NEW d, NEW f \in Files \cup {Absent}, NEW g \in Mixed(V, d, f)
  PROVE  /\ g \in Files \cup {Absent}
         /\ g # Absent /\ IsMeta(g.meta) =>
              \/ f # Absent /\ g.meta = f.meta
              \/ g.meta.key \in V /\ DirOf[g.meta.key] = d
<1>1. PICK F : F = {i \in V : DirOf[i] = d}
  OBVIOUS
<1>2. PICK M : M = {Meta(j) : j \in F}
  OBVIOUS
<1>3. PICK B : B = {entry[j].content : j \in F}
  OBVIOUS
<1>4. g = Absent \/ g \in [meta : {Absent, Torn, File(f, "meta")} \cup M,
                           data : {Absent, Torn, File(f, "data")} \cup B]
  BY <1>1, <1>2, <1>3 DEF Mixed
<1>5. ASSUME NEW j \in F PROVE Meta(j) \in Metas /\ Meta(j).key = j /\ entry[j].content \in Bodies \cup {Torn}
  <2>1. j \in Keys /\ entry[j] # Absent
    BY <1>1
  <2>2. /\ entry[j].content \in Bodies \cup {Torn} /\ entry[j].ttl \in TTLs
        /\ entry[j].created_at \in 0..MaxClock /\ entry[j].size \in Range(BodySize)
    BY <2>1, HotEntry DEF TieredInv, TypesOK
  <2> QED BY <2>1, <2>2 DEF Meta, Metas
<1>6. M \subseteq Metas /\ B \subseteq Bodies \cup {Torn} /\ \A m \in M : m.key \in V /\ DirOf[m.key] = d
  BY <1>1, <1>2, <1>3, <1>5
<1>7. /\ File(f, "meta") \in Metas \cup {Absent, Torn} /\ File(f, "data") \in Bodies \cup {Absent, Torn}
      /\ File(f, "meta") = Absent \/ (f # Absent /\ File(f, "meta") = f.meta)
  BY DEF File, Files
<1>8. g \in Files \cup {Absent}
  BY <1>4, <1>6, <1>7 DEF Files
<1>9. ASSUME g # Absent, IsMeta(g.meta)
      PROVE  \/ f # Absent /\ g.meta = f.meta
             \/ g.meta.key \in V /\ DirOf[g.meta.key] = d
  <2>1. g.meta \in {Absent, Torn, File(f, "meta")} \cup M
    BY <1>4, <1>9
  <2>2. g.meta # Absent /\ g.meta # Torn
    BY <1>9 DEF IsMeta
  <2> QED BY <1>6, <1>7, <2>1, <2>2
<1> QED BY <1>8, <1>9

(* No such step mixes two puts in the directory of a key alone in it, and  *)
(* the metadata it leaves anywhere is of before or of a demoted key.       *)
LEMMA DiskSame ==
  ASSUME TieredInv, NEW V, DiskStep(V), asked' \in [Keys -> Value \cup {Absent}],
         \A j \in Alone : \/ asked'[j] = asked[j]
                         \/ cold'[DirOf[j]] = Absent
                         \/ ~ IsMeta(cold'[DirOf[j]].meta)
  PROVE  /\ cold' \in [Dirs -> Files \cup {Absent}] /\ ColdSame' /\ MetaAtHome'
         /\ \A d \in Dirs : HasMeta(d)' =>
              \/ HasMeta(d) /\ cold'[d].meta = cold[d].meta
              \/ cold'[d].meta.key \in V
<1>1. ASSUME NEW d \in Dirs
      PROVE  /\ cold'[d] \in Files \cup {Absent}
             /\ HasMeta(d)' => \/ HasMeta(d) /\ cold'[d].meta = cold[d].meta
                               \/ cold'[d].meta.key \in V /\ DirOf[cold'[d].meta.key] = d
  <2>1. PICK f : f = cold[d]
    OBVIOUS
  <2>2. PICK g : g = cold'[d]
    OBVIOUS
  <2>3. f \in Files \cup {Absent}
    BY <2>1 DEF TieredInv, TypesOK
  <2>4. g \in Mixed(V, d, f) /\ V \subseteq {k \in Keys : entry[k] # Absent}
    BY <2>1, <2>2 DEF DiskStep
  <2>5. /\ g \in Files \cup {Absent}
        /\ g # Absent /\ IsMeta(g.meta) => \/ f # Absent /\ g.meta = f.meta
                                           \/ g.meta.key \in V /\ DirOf[g.meta.key] = d
    BY <2>3, <2>4, MixedIs
  <2> QED BY <2>1, <2>2, <2>5 DEF HasMeta
<1>2. ASSUME NEW j \in Alone PROVE Holds(j, asked[j], cold'[DirOf[j]])
  <2>1. PICK f : f = cold[DirOf[j]]
    OBVIOUS
  <2>2. PICK g : g = cold'[DirOf[j]]
    OBVIOUS
  <2>3. f \in Files \cup {Absent} /\ Holds(j, asked[j], f)
    BY <2>1, DirsAreKeys, AloneIs DEF TieredInv, TypesOK, ColdSame
  <2>4. CASE g \in Relics(f)
    <3>1. g = Absent \/ g = f \/ (f # Absent /\ g \in [meta : {f.meta, Absent}, data : {f.data, Absent}])
      BY <2>4 DEF Relics
    <3>2. Holds(j, asked[j], g)
      BY <2>3, <3>1 DEF Holds, IsMeta
    <3> QED BY <2>2, <3>2
  <2>5. CASE j \in V /\ g \in Remains(j)
    <3>1. PICK m : m = Meta(j)
      OBVIOUS
    <3>2. PICK b : b = entry[j].content
      OBVIOUS
    <3>3. g = Absent \/ g \in [meta : {Absent, Torn, m}, data : {Absent, Torn, b}]
      BY <2>5, <3>1, <3>2 DEF Remains
    <3>4. m.key = j /\ m.ttl = entry[j].ttl /\ m.created_at = entry[j].created_at
      BY <3>1 DEF Meta
    <3>5. entry[j] # Absent
      BY <2>5 DEF DiskStep
    <3>6. Matches(asked[j], b, m.ttl, m.created_at) /\ Matches(asked[j], Torn, m.ttl, m.created_at)
      BY <3>2, <3>4, <3>5 DEF TieredInv, HotSame, Matches
    <3>7. Holds(j, asked[j], g)
      BY <3>3, <3>4, <3>6 DEF Holds, IsMeta
    <3> QED BY <2>2, <3>7
  <2> QED BY <2>1, <2>2, <2>4, <2>5 DEF DiskStep
<1>3. cold' \in [Dirs -> Files \cup {Absent}]
  BY <1>1 DEF DiskStep
<1>4. \A j \in Alone : Holds(j, asked'[j], cold'[DirOf[j]])
  BY <1>2 DEF Holds
<1>5. MetaAtHome'
  BY <1>1 DEF TieredInv, MetaAtHome
<1> QED BY <1>1, <1>3, <1>4, <1>5 DEF ColdSame

-----------------------------------------------------------------------------
(* The invariant, step by step.                                            *)

(* What a get may change of an entry is not what it holds. *)
SameValue(e, f) ==
    e.content = f.content /\ e.size = f.size /\ e.ttl = f.ttl /\ e.created_at = f.created_at

(* A step that demotes the keys V and brings nothing new into the hot      *)
(* tier, and has the callers ask for nothing new but deletions.            *)
QuietStep(V) ==
    /\ \A j \in Keys : entry'[j] # Absent =>
         /\ entry[j] # Absent /\ SameValue(entry'[j], entry[j]) /\ j \notin V
         /\ j \in Alone => cold'[DirOf[j]] = Absent
    /\ \A j \in Alone : \/ asked'[j] = asked[j]
                        \/ entry'[j] = Absent /\ cold'[DirOf[j]] = Absent
                        \/ entry'[j] = Absent /\ ~ IsMeta(cold'[DirOf[j]].meta)

(* Such a step keeps the invariant, if the disk step does. *)
LEMMA QuietKeeps ==
  ASSUME TieredInv, Lru!StoreOK', NEW V, DiskStep(V),
         asked' \in [Keys -> Value \cup {Absent}], QuietStep(V)
  PROVE  TieredInv'
<1> USE DEF QuietStep
<1>1. /\ cold' \in [Dirs -> Files \cup {Absent}] /\ ColdSame' /\ MetaAtHome'
      /\ \A d \in Dirs : HasMeta(d)' => \/ HasMeta(d) /\ cold'[d].meta = cold[d].meta
                                        \/ cold'[d].meta.key \in V
  BY DiskSame
<1>2. \A j \in Keys : entry'[j] # Absent => entry'[j].size \in Range(BodySize)
  BY DEF TieredInv, TypesOK, SameValue
<1>3. TypesOK'
  BY <1>1, <1>2 DEF TypesOK
<1>4. HotNotCold'
  <2>1. ASSUME NEW j \in Keys, entry'[j] # Absent, NEW d \in Dirs, HasMeta(d)'
        PROVE  cold'[d].meta.key # j
    <3>1. entry[j] # Absent /\ j \notin V
      BY <2>1
    <3>2. HasMeta(d) => cold[d].meta.key # j
      BY <3>1 DEF TieredInv, HotNotCold
    <3> QED BY <1>1, <2>1, <3>1, <3>2
  <2> QED BY <2>1 DEF HotNotCold
<1>5. HotSame'
  <2>1. ASSUME NEW j \in Alone, entry'[j] # Absent
        PROVE  Matches(asked'[j], entry'[j].content, entry'[j].ttl, entry'[j].created_at)
    <3>1. entry[j] # Absent /\ SameValue(entry'[j], entry[j]) /\ asked'[j] = asked[j]
      BY <2>1, AloneIs
    <3>2. Matches(asked[j], entry[j].content, entry[j].ttl, entry[j].created_at)
      BY <3>1 DEF TieredInv, HotSame
    <3> QED BY <3>1, <3>2 DEF SameValue
  <2> QED BY <2>1 DEF HotSame
<1> QED BY <1>1, <1>3, <1>4, <1>5 DEF TieredInv

(* A put or a promotion. *)
LEMMA MoveInKeeps ==
  ASSUME TieredInv, NEW k \in Keys, NEW e \in Lru!Entry,
         e.last_accessed = clock, e.size \in Range(BodySize), MoveIn(k, e), clock' = clock,
         asked' \in [Keys -> Value \cup {Absent}],
         \A j \in Keys \ {k} : asked'[j] = asked[j],
         k \in Alone => Matches(asked'[k], e.content, e.ttl, e.created_at)
  PROVE  TieredInv'
<1>1. PICK V : V = ToSet(Hot!Victims(k, e.size))
  OBVIOUS
<1>2. \A j \in Keys : entry'[j] = IF j = k THEN e ELSE IF j \in V THEN Absent ELSE entry[j]
  BY <1>1, Inserted DEF MoveIn
<1>3. /\ DiskStep(V) /\ k \notin V
      /\ cold'[DirOf[k]] \in Mixed(V, DirOf[k], Absent)
      /\ k \in Alone => cold'[DirOf[k]] = Absent
      /\ \A j \in Alone \ (V \cup {k}) : cold'[DirOf[j]] = cold[DirOf[j]]
  BY <1>1, MovedDisk
<1>4. Lru!StoreOK'
  <2>1. Lru!Insert(k, e)
    BY HotInsert DEF MoveIn
  <2> QED BY <2>1, HotAssumptions, Lru!InsertKeeps DEF TieredInv
<1>5. /\ cold' \in [Dirs -> Files \cup {Absent}] /\ ColdSame' /\ MetaAtHome'
      /\ \A d \in Dirs : HasMeta(d)' => \/ HasMeta(d) /\ cold'[d].meta = cold[d].meta
                                        \/ cold'[d].meta.key \in V
  BY <1>3, AloneIs, DiskSame
<1>6. TypesOK'
  <2>1. \A j \in Keys : entry'[j] # Absent => entry'[j].size \in Range(BodySize)
    BY <1>2 DEF TieredInv, TypesOK
  <2> QED BY <1>5, <2>1 DEF TypesOK
<1>7. HotNotCold'
  <2>1. ASSUME NEW j \in Keys, entry'[j] # Absent, j # k, NEW d \in Dirs, HasMeta(d)'
        PROVE  cold'[d].meta.key # j
    <3>1. entry[j] # Absent /\ j \notin V
      BY <1>2, <2>1
    <3>2. HasMeta(d) => cold[d].meta.key # j
      BY <3>1 DEF TieredInv, HotNotCold
    <3> QED BY <1>5, <2>1, <3>1, <3>2
  <2>2. ASSUME NEW d \in Dirs, HasMeta(d)' PROVE cold'[d].meta.key # k
    <3>1. CASE d = DirOf[k]
      <4>1. PICK g : g = cold'[d]
        OBVIOUS
      <4>2. g # Absent /\ IsMeta(g.meta) /\ g \in Mixed(V, d, Absent)
        BY <1>3, <2>2, <3>1, <4>1 DEF HasMeta
      <4>3. V \subseteq {i \in Keys : entry[i] # Absent}
        BY <1>3 DEF DiskStep
      <4>4. g.meta.key \in V
        BY <4>2, <4>3, MixedIs
      <4> QED BY <1>3, <4>1, <4>4
    <3>2. CASE d # DirOf[k]
      BY <1>5, <2>2, <3>2 DEF MetaAtHome
    <3> QED BY <3>1, <3>2
  <2>3. ASSUME NEW j \in Alone, entry'[j] # Absent PROVE cold'[DirOf[j]] = Absent
    BY <1>2, <1>3, <2>3, AloneIs DEF TieredInv, HotNotCold
  <2> QED BY <2>1, <2>2, <2>3 DEF HotNotCold
<1>8. HotSame'
  <2>1. ASSUME NEW j \in Alone, entry'[j] # Absent, j # k
        PROVE  Matches(asked'[j], entry'[j].content, entry'[j].ttl, entry'[j].created_at)
    BY <1>2, <2>1, AloneIs DEF TieredInv, HotSame
  <2>2. k \in Alone => Matches(asked'[k], entry'[k].content, entry'[k].ttl, entry'[k].created_at)
    BY <1>2
  <2> QED BY <2>1, <2>2 DEF HotSame
<1> QED BY <1>4, <1>5, <1>6, <1>7, <1>8 DEF TieredInv

(* What _cold_read returns is an entry: of the last put, if the key is     *)
(* alone in its directory.                                                 *)
LEMMA ReadIs ==
  ASSUME TieredInv, NEW k \in Keys, NEW e, e = ColdRead(k),
         HasMeta(DirOf[k]), cold[DirOf[k]].data # Absent
  PROVE  /\ e \in Lru!Entry /\ e # Absent
         /\ e.content = cold[DirOf[k]].data /\ e.last_accessed = clock /\ e.size \in Range(BodySize)
         /\ k \in Alone => Matches(asked[k], e.content, e.ttl, e.created_at)
         /\ e.ttl = cold[DirOf[k]].meta.ttl /\ e.created_at = cold[DirOf[k]].meta.created_at
<1>1. PICK f : f = cold[DirOf[k]]
  OBVIOUS
<1>2. /\ f # Absent /\ IsMeta(f.meta) /\ f.data # Absent
      /\ e = [content |-> f.data, size |-> f.meta.size, ttl |-> f.meta.ttl, swr |-> 0,
              created_at |-> f.meta.created_at, last_accessed |-> clock]
  BY <1>1 DEF ColdRead, HasMeta
<1>3. f \in Files
  BY <1>1, <1>2, DirsAreKeys DEF TieredInv, TypesOK
<1>4. f.meta \in Metas /\ f.data \in Bodies \cup {Torn}
  BY <1>2, <1>3 DEF Files, IsMeta
<1>5. k \in Alone => Matches(asked[k], e.content, e.ttl, e.created_at)
  <2>1. k \in Alone => Holds(k, asked[k], f)
    BY <1>1 DEF TieredInv, ColdSame
  <2> QED BY <1>2, <2>1 DEF Holds
<1>6. e.size \in Range(BodySize) /\ e.last_accessed = clock /\ e.content = f.data
      /\ e.ttl = f.meta.ttl /\ e.created_at = f.meta.created_at
  BY <1>2, <1>4 DEF Metas
<1>7. e \in Lru!Entry
  <2>1. f.meta.size \in Lru!Range([b \in Bodies \cup {Torn} |-> IF b = Torn THEN 0 ELSE BodySize[b]])
    <3>1. PICK b \in Bodies : f.meta.size = BodySize[b]
      BY <1>2, <1>6, TieredConstants DEF Range
    <3>2. b # Torn
      BY AbsentIsNone
    <3> QED BY <3>1, <3>2 DEF Lru!Range
  <2>2. clock \in 0..MaxClock
    BY DEF TieredInv, Lru!StoreOK, Lru!EntriesOK
  <2> QED BY <1>2, <1>4, <2>1, <2>2 DEF Lru!Entry, Metas
<1>8. e # Absent
  BY <1>7, HotAssumptions
<1> QED BY <1>1, <1>5, <1>6, <1>7, <1>8

(* A new entry: an entry of the hot tier, whole. *)
LEMMA NewIs ==
  ASSUME TieredInv, NEW b \in Bodies, NEW ttl \in TTLs, NEW swr \in Windows,
         NEW e, e = Hot!NewEntry(b, ttl, swr)
  PROVE  /\ e \in Lru!Entry /\ e.last_accessed = clock /\ e.size \in Range(BodySize)
         /\ ValueOf(e) \in Value
         /\ Matches(ValueOf(e), e.content, e.ttl, e.created_at)
<1>1. e = [content |-> b, size |-> BodySize[b], ttl |-> ttl, swr |-> swr,
           created_at |-> clock, last_accessed |-> clock]
  BY AbsentIsNone DEF Hot!NewEntry
<1>2. clock \in 0..MaxClock
  BY DEF TieredInv, Lru!StoreOK, Lru!EntriesOK
<1>3. BodySize[b] \in Range(BodySize)
  BY TieredConstants DEF Range
<1>4. BodySize[b] \in Lru!Range([x \in Bodies \cup {Torn} |-> IF x = Torn THEN 0 ELSE BodySize[x]])
  BY AbsentIsNone DEF Lru!Range
<1>5. e \in Lru!Entry
  BY <1>1, <1>2, <1>4 DEF Lru!Entry
<1>6. e # Absent
  BY <1>5, HotAssumptions
<1>7. ValueOf(e) = [content |-> b, ttl |-> ttl, created_at |-> clock]
  BY <1>1, <1>6 DEF ValueOf
<1>8. ValueOf(e) \in Value
  BY <1>2, <1>7 DEF Value
<1> QED BY <1>1, <1>3, <1>5, <1>7, <1>8 DEF Matches

(* The directories a deletion of the keys S goes through, as far as keys   *)
(* alone in theirs are concerned: they are of keys in S, and no other      *)
(* directory is read as one.                                               *)
Covers(S, D) == \A j \in Alone :
    IF j \in S THEN DirOf[j] \in D \/ ~ HasMeta(DirOf[j]) ELSE DirOf[j] \notin D

(* delete and purge_by_prefix go through directories of that kind. *)
LEMMA DeletesCover ==
  ASSUME TieredInv
  PROVE  /\ \A k \in Keys : Covers({k}, {DirOf[k]})
         /\ \A S \in SUBSET Keys : Covers(S, DirsWithPrefix(S))
<1>1. \A k \in Keys : Covers({k}, {DirOf[k]})
  BY AloneIs DEF Covers
<1>2. ASSUME NEW S \in SUBSET Keys PROVE Covers(S, DirsWithPrefix(S))
  <2>1. \A j \in Alone : HasMeta(DirOf[j]) => cold[DirOf[j]].meta.key = j
    BY DEF TieredInv, ColdSame, Holds, HasMeta
  <2> QED BY <2>1, DirsAreKeys, AloneIs DEF DirsWithPrefix, Covers
<1> QED BY <1>1, <1>2

(* delete and delete_by_prefix. *)
LEMMA DeleteKeeps ==
  ASSUME TieredInv, NEW S \in SUBSET Keys, NEW D, Covers(S, D), DeleteBoth(S, D)
  PROVE  /\ TieredInv'
         /\ \A j \in S : entry'[j] = Absent /\ asked'[j] = Absent
         /\ \A j \in Keys \ S : entry'[j] = entry[j] /\ asked'[j] = asked[j]
<1>1. Hot!Delete(S) /\ cold' = Erase(D)
  BY DEF DeleteBoth
<1>2. PICK G : G = {k \in S : entry[k] # Absent}
  OBVIOUS
<1>3. Hot!RemoveEntries(G) /\ clock' = clock
      /\ asked' = [k \in Keys |-> IF k \in S THEN Absent ELSE asked[k]]
  BY <1>1, <1>2 DEF Hot!Delete
<1>4. entry' = [k \in Keys |-> IF k \in G THEN Absent ELSE entry[k]]
  BY <1>3 DEF Hot!RemoveEntries
<1>5. /\ \A j \in S : entry'[j] = Absent /\ asked'[j] = Absent
      /\ \A j \in Keys \ S : entry'[j] = entry[j] /\ asked'[j] = asked[j]
  BY <1>2, <1>3, <1>4
<1>6. Lru!StoreOK'
  <2>1. Lru!RemoveEntries(G) /\ G \in SUBSET Lru!Stored
    BY <1>2, <1>3, HotRemove DEF Lru!Stored
  <2> QED BY <1>3, <2>1, HotAssumptions, Lru!RemoveKeeps DEF TieredInv
<1>7. DiskStep({})
  BY <1>1, EraseIsDiskStep DEF TieredInv
<1>8. asked' \in [Keys -> Value \cup {Absent}]
  BY <1>3 DEF TieredInv, TypesOK
<1>9. \A j \in Keys : cold'[DirOf[j]] = IF DirOf[j] \in D THEN Absent ELSE cold[DirOf[j]]
  BY <1>1, Erased
<1>10. \A j \in Alone : \/ asked'[j] = asked[j]
                        \/ entry'[j] = Absent /\ cold'[DirOf[j]] = Absent
                        \/ entry'[j] = Absent /\ ~ IsMeta(cold'[DirOf[j]].meta)
  BY <1>5, <1>9, AloneIs DEF Covers, HasMeta
<1>11. \A j \in Keys : entry'[j] # Absent =>
         /\ entry[j] # Absent /\ SameValue(entry'[j], entry[j])
         /\ j \in Alone => cold'[DirOf[j]] = Absent
  BY <1>5, <1>9 DEF TieredInv, HotNotCold, SameValue
<1>12. TieredInv'
  <2>1. QuietStep({})
    BY <1>10, <1>11 DEF QuietStep
  <2> QED BY <1>6, <1>7, <1>8, <2>1, QuietKeeps
<1> QED BY <1>5, <1>12

(* A hit in the hot tier: the entry is stamped. *)
LEMMA HotHitKeeps ==
  ASSUME TieredInv, NEW k \in Keys, HotHit(k)
  PROVE  /\ TieredInv'
         /\ \A j \in Keys : entry'[j] # Absent <=> entry[j] # Absent
<1>1. Hot!Get(k) /\ cold' = cold
  BY DEF HotHit
<1>2. Lru!Get(k)
  BY <1>1, HotGet
<1>3. Lru!StoreOK'
  BY <1>2, HotAssumptions, Lru!GetKeeps DEF TieredInv
<1>4. PICK e : e = [entry[k] EXCEPT !.last_accessed = clock]
  OBVIOUS
<1>5. entry[k] # Absent /\ entry' = [entry EXCEPT ![k] = e] /\ asked' = asked
  BY <1>1, <1>4 DEF Hot!Get
<1>6. entry[k] \in Lru!Entry /\ clock \in 0..MaxClock /\ entry \in [Keys -> Lru!Entry \cup {Absent}]
  BY <1>5 DEF TieredInv, Lru!StoreOK, Lru!EntriesOK
<1>7. e \in Lru!Entry /\ SameValue(e, entry[k])
  BY <1>4, <1>6 DEF Lru!Entry, SameValue
<1>8. e # Absent
  BY <1>7, HotAssumptions
<1>9. \A j \in Keys : entry'[j] = IF j = k THEN e ELSE entry[j]
  BY <1>5, <1>6
<1>10. \A j \in Keys : entry'[j] # Absent =>
         /\ entry[j] # Absent /\ SameValue(entry'[j], entry[j])
         /\ j \in Alone => cold'[DirOf[j]] = Absent
  BY <1>1, <1>5, <1>7, <1>9 DEF TieredInv, HotNotCold, SameValue
<1>11. DiskStep({})
  BY <1>1, KeptIsDiskStep DEF TieredInv
<1>12. asked' \in [Keys -> Value \cup {Absent}] /\ \A j \in Keys : asked'[j] = asked[j]
  BY <1>5 DEF TieredInv, TypesOK
<1>13. TieredInv'
  <2>1. QuietStep({})
    BY <1>10, <1>12, AloneIs DEF QuietStep
  <2> QED BY <1>3, <1>11, <1>12, <2>1, QuietKeeps
<1> QED BY <1>5, <1>8, <1>9, <1>13

(* A step that changes no answer of the hot tier: it forgets what it may,  *)
(* or nothing.                                                             *)
LEMMA ForgetKeeps ==
  ASSUME TieredInv, Lru!StoreOK', NEW V, DiskStep(V), asked' = asked,
         \A j \in Keys : entry'[j] \in {entry[j], Absent},
         \A j \in Keys : entry'[j] # Absent => j \notin V,
         \A j \in Alone : entry'[j] # Absent => cold'[DirOf[j]] = Absent
  PROVE  TieredInv'
<1>1. asked' \in [Keys -> Value \cup {Absent}] /\ \A j \in Keys : asked'[j] = asked[j]
  BY DEF TieredInv, TypesOK
<1>2. \A j \in Keys : entry'[j] # Absent => entry[j] # Absent /\ SameValue(entry'[j], entry[j])
  BY DEF SameValue
<1>3. QuietStep(V)
  BY <1>1, <1>2, AloneIs DEF QuietStep
<1> QED BY <1>1, <1>3, QuietKeeps

(* keys(): both tiers are pruned. *)
LEMMA ListKeysKeeps ==
  ASSUME TieredInv, ListKeys
  PROVE  /\ TieredInv' /\ DiskStep({}) /\ UNCHANGED <<clock, asked>>
         /\ \A j \in Keys : entry'[j] \in {entry[j], Absent}
<1>1. PICK G : G = {k \in Keys : entry[k] # Absent /\ Hot!IsExpired(entry[k])}
  OBVIOUS
<1>2. Hot!RemoveEntries(G) /\ UNCHANGED <<clock, asked>> /\ cold' = Erase(ExpiredDirs)
  BY <1>1 DEF ListKeys, Hot!ListKeys
<1>3. \A j \in Keys : entry'[j] \in {entry[j], Absent}
  BY <1>2 DEF Hot!RemoveEntries
<1>4. Lru!StoreOK'
  <2>1. Lru!RemoveEntries(G) /\ G \in SUBSET Lru!Stored
    BY <1>1, <1>2, HotRemove DEF Lru!Stored
  <2> QED BY <1>2, <2>1, HotAssumptions, Lru!RemoveKeeps DEF TieredInv
<1>5. DiskStep({})
  BY <1>2, EraseIsDiskStep DEF TieredInv
<1>6. \A j \in Alone : entry'[j] # Absent => cold'[DirOf[j]] = Absent
  BY <1>2, <1>3, Erased, AloneIs DEF TieredInv, HotNotCold
<1>7. TieredInv'
  BY <1>2, <1>3, <1>4, <1>5, <1>6, ForgetKeeps
<1> QED BY <1>2, <1>3, <1>5, <1>7

(* A cold entry found expired. *)
LEMMA ColdExpiredKeeps ==
  ASSUME TieredInv, NEW k \in Keys, ColdExpired(k)
  PROVE  TieredInv' /\ DiskStep({})
<1>1. UNCHANGED <<order, entry, current_size, clock, asked>> /\ cold' = Erase({DirOf[k]})
  BY DEF ColdExpired, hot
<1>2. Lru!StoreOK'
  <2>1. clock' \in 0..MaxClock /\ clock <= clock'
    BY <1>1, TieredConstants DEF TieredInv, Lru!StoreOK, Lru!EntriesOK
  <2> QED BY <1>1, <2>1, HotAssumptions, Lru!TickKeeps DEF TieredInv
<1>3. DiskStep({})
  BY <1>1, EraseIsDiskStep DEF TieredInv
<1>4. \A j \in Alone : entry'[j] # Absent => cold'[DirOf[j]] = Absent
  BY <1>1, Erased, AloneIs DEF TieredInv, HotNotCold
<1>5. TieredInv'
  BY <1>1, <1>2, <1>3, <1>4, ForgetKeeps
<1> QED BY <1>3, <1>5

(* Time passes, or nothing happens. *)
LEMMA TickKeepsBoth ==
  ASSUME TieredInv, UNCHANGED <<order, entry, current_size, cold, asked>>,
         clock' \in 0..MaxClock, clock <= clock'
  PROVE  TieredInv' /\ DiskStep({})
<1>1. Lru!StoreOK'
  BY HotAssumptions, Lru!TickKeeps DEF TieredInv
<1>2. DiskStep({})
  BY KeptIsDiskStep DEF TieredInv
<1>3. \A j \in Alone : entry'[j] # Absent => cold'[DirOf[j]] = Absent
  BY AloneIs DEF TieredInv, HotNotCold
<1>4. TieredInv'
  BY <1>1, <1>2, <1>3, ForgetKeeps
<1> QED BY <1>2, <1>4

(* A crash: the hot tier is empty, and the directories hold what is left. *)
LEMMA CrashKeeps ==
  ASSUME TieredInv, Crash
  PROVE  TieredInv' /\ \E V : DiskStep(V)
<1>1. /\ order' = <<>> /\ entry' = [k \in Keys |-> Absent] /\ current_size' = 0
      /\ cold' \in LeftByCrash /\ clock' = clock /\ asked' = asked
  BY DEF Crash
<1>2. Lru!StoreOK'
  <2>1. (order = <<>> /\ entry = [k \in Keys |-> Absent] /\ current_size = 0
           /\ clock \in 0..MaxClock => Lru!StoreOK)'
    BY EmptyHot, PTL
  <2>2. clock' \in 0..MaxClock
    BY <1>1 DEF TieredInv, Lru!StoreOK, Lru!EntriesOK
  <2> QED BY <1>1, <2>1, <2>2
<1>3. PICK V : DiskStep(V)
  BY <1>1, CrashIsDiskStep
<1>4. (\A j \in Keys : entry'[j] = Absent) /\ \A j \in Alone : entry'[j] = Absent
  BY <1>1, AloneIs
<1>5. TieredInv'
  BY <1>1, <1>2, <1>3, <1>4, ForgetKeeps
<1> QED BY <1>3, <1>5

(* put. *)
LEMMA PutKeeps ==
  ASSUME TieredInv, NEW k \in Keys, NEW b \in Bodies, NEW ttl \in TTLs,
         NEW swr \in Windows, Put(k, Hot!NewEntry(b, ttl, swr))
  PROVE  TieredInv'
<1>1. PICK e : e = Hot!NewEntry(b, ttl, swr)
  OBVIOUS
<1>2. MoveIn(k, e) /\ clock' = clock /\ asked' = [asked EXCEPT ![k] = ValueOf(e)]
  BY <1>1 DEF Put
<1>3. /\ e \in Lru!Entry /\ e.last_accessed = clock /\ e.size \in Range(BodySize)
      /\ ValueOf(e) \in Value /\ Matches(ValueOf(e), e.content, e.ttl, e.created_at)
  BY <1>1, NewIs
<1>4. asked \in [Keys -> Value \cup {Absent}]
  BY DEF TieredInv, TypesOK
<1>5. /\ asked' \in [Keys -> Value \cup {Absent}]
      /\ asked'[k] = ValueOf(e) /\ \A j \in Keys \ {k} : asked'[j] = asked[j]
  BY <1>2, <1>3, <1>4
<1> QED BY <1>2, <1>3, <1>5, MoveInKeeps

(* A promotion. *)
LEMMA PromoteKeeps ==
  ASSUME TieredInv, NEW k \in Keys, Promote(k)
  PROVE  /\ TieredInv'
         /\ HasMeta(DirOf[k]) /\ cold[DirOf[k]].data # Absent
<1>1. PICK e : e = ColdRead(k)
  OBVIOUS
<1>2. e # Absent /\ MoveIn(k, e) /\ clock' = clock /\ asked' = asked
  BY <1>1 DEF Promote
<1>3. HasMeta(DirOf[k]) /\ cold[DirOf[k]].data # Absent
  BY <1>1, <1>2 DEF ColdRead
<1>4. /\ e \in Lru!Entry /\ e.last_accessed = clock /\ e.size \in Range(BodySize)
      /\ k \in Alone => Matches(asked[k], e.content, e.ttl, e.created_at)
  BY <1>1, <1>3, ReadIs
<1>5. asked \in [Keys -> Value \cup {Absent}]
  BY DEF TieredInv, TypesOK
<1>6. TieredInv'
  BY <1>2, <1>4, <1>5, MoveInKeeps
<1> QED BY <1>3, <1>6

(* Every step keeps the invariant. *)
LEMMA NextTiered ==
  ASSUME TieredInv, [Next]_vars
  PROVE  TieredInv'
<1>1. ASSUME NEW k \in Keys, NEW b \in Bodies, NEW ttl \in TTLs, NEW swr \in Windows,
             Put(k, Hot!NewEntry(b, ttl, swr))
      PROVE  TieredInv'
  BY <1>1, PutKeeps
<1>2. ASSUME NEW k \in Keys, HotHit(k) PROVE TieredInv'
  BY <1>2, HotHitKeeps
<1>3. ASSUME NEW k \in Keys, Promote(k) PROVE TieredInv'
  BY <1>3, PromoteKeeps
<1>4. ASSUME NEW k \in Keys, ColdExpired(k) PROVE TieredInv'
  BY <1>4, ColdExpiredKeeps
<1>5. ASSUME NEW k \in Keys, Delete(k) PROVE TieredInv'
  <2>1. {k} \in SUBSET Keys /\ Covers({k}, {DirOf[k]})
    BY DeletesCover
  <2> QED BY <1>5, <2>1, DeleteKeeps DEF Delete
<1>6. ASSUME NEW S \in Prefixed, DeleteByPrefix(S) PROVE TieredInv'
  <2>1. S \in SUBSET Keys
    BY TieredConstants
  <2>2. Covers(S, DirsWithPrefix(S))
    BY <2>1, DeletesCover
  <2> QED BY <1>6, <2>1, <2>2, DeleteKeeps DEF DeleteByPrefix
<1>7. CASE ListKeys
  BY <1>7, ListKeysKeeps
<1>8. CASE Crash
  BY <1>8, CrashKeeps
<1>9. CASE Tick
  <2>1. clock' \in 0..MaxClock /\ clock <= clock'
    BY <1>9, TieredConstants DEF Tick, Hot!Tick, TieredInv, Lru!StoreOK, Lru!EntriesOK
  <2> QED BY <1>9, <2>1, TickKeepsBoth DEF Tick, Hot!Tick
<1>10. CASE UNCHANGED vars
  <2>1. clock' \in 0..MaxClock /\ clock <= clock'
    BY <1>10, TieredConstants DEF vars, TieredInv, Lru!StoreOK, Lru!EntriesOK
  <2> QED BY <1>10, <2>1, TickKeepsBoth DEF vars
<1> QED BY <1>1, <1>2, <1>3, <1>4, <1>5, <1>6, <1>7, <1>8, <1>9, <1>10 DEF Next

(* What is found of the last put, whole or torn, stands for it. *)
LEMMA TornOrWhole ==
  ASSUME TypesOK, NEW k \in Keys, NEW c, NEW ttl, NEW time, Matches(asked[k], c, ttl, time)
  PROVE  UpToTearing(k, [content |-> c, ttl |-> ttl, created_at |-> time]) = asked[k]
<1>1. PICK a : a = asked[k]
  OBVIOUS
<1>2. PICK e : e = [content |-> c, ttl |-> ttl, created_at |-> time]
  OBVIOUS
<1>3. a \in Value /\ c \in {Torn, a.content} /\ ttl = a.ttl /\ time = a.created_at
  BY <1>1 DEF Matches
<1>4. a = [content |-> a.content, ttl |-> a.ttl, created_at |-> a.created_at] /\ a.content \in Bodies
      /\ a.ttl \in TTLs /\ a.created_at \in 0..MaxClock
  BY <1>3 DEF Value
<1>5. e \in [content : Bodies \cup {Torn}, ttl : TTLs, created_at : 0..MaxClock]
  BY <1>2, <1>3, <1>4
<1>6. e # Absent
  BY <1>5, AbsentIsNone
<1>7. a # Absent
  <2>1. a \in [content : Bodies \cup {Torn}, ttl : TTLs, created_at : 0..MaxClock]
    BY <1>4
  <2> QED BY <2>1, AbsentIsNone
<1>8. CASE c = Torn
  <2>1. UpToTearing(k, e) = [e EXCEPT !.content = a.content]
    BY <1>1, <1>2, <1>6, <1>7, <1>8 DEF UpToTearing
  <2>2. [e EXCEPT !.content = a.content] = a
    BY <1>2, <1>3, <1>4
  <2> QED BY <1>1, <1>2, <2>1, <2>2
<1>9. CASE c # Torn
  <2>1. UpToTearing(k, e) = e
    BY <1>2, <1>9 DEF UpToTearing
  <2>2. e = a
    BY <1>2, <1>3, <1>4, <1>9
  <2> QED BY <1>1, <1>2, <2>1, <2>2
<1> QED BY <1>8, <1>9

-----------------------------------------------------------------------------
(* The theorems.                                                           *)

(* The invariant of the two tiers, across demotions, promotions, failed    *)
(* writes, interrupted deletions and crashes.                              *)
THEOREM TieredInvariant == Spec => []TieredInv
<1>1. Init => TieredInv
  <2> SUFFICES ASSUME Init PROVE TieredInv
    OBVIOUS
  <2>1. Lru!StoreOK
    <3>1. clock \in 0..MaxClock
      BY TieredConstants DEF Init
    <3> QED BY <3>1, EmptyHot DEF Init
  <2>2. (\A k \in Keys : entry[k] = Absent /\ cold[DirOf[k]] = Absent) /\ \A d \in Dirs : cold[d] = Absent
    BY DirsAreKeys DEF Init
  <2>3. TypesOK
    BY <2>2 DEF Init, TypesOK
  <2>4. MetaAtHome
    BY <2>2 DEF MetaAtHome, HasMeta
  <2> QED BY <2>1, <2>2, <2>3, <2>4, AloneIs DEF TieredInv, HotNotCold, HotSame, ColdSame, Holds
<1>2. TieredInv /\ [Next]_vars => TieredInv'
  BY NextTiered
<1> QED BY <1>1, <1>2, PTL DEF Spec

(* The types of both tiers: the byte count of the hot one is never         *)
(* negative, its order holds its keys once each, and a directory holds     *)
(* files of the kinds the store writes.                                    *)
THEOREM TieredTypeCorrect == Spec => []TypeOK
<1>1. TieredInv => TypeOK
  <2> SUFFICES ASSUME TieredInv PROVE TypeOK
    OBVIOUS
  <2>1. Lru!TypeOK
    BY HotAssumptions, Lru!StoreTypes DEF TieredInv
  <2>2. Hot!TypeOK
    BY <2>1 DEF Lru!TypeOK, Hot!TypeOK, Lru!Entry, Hot!Entry, Lru!ToSet, Hot!ToSet,
                Lru!Range, Hot!Range, Lru!Cardinality, Hot!Cardinality
  <2> QED BY <2>2 DEF TieredInv, TypesOK, TypeOK
<1> QED BY <1>1, TieredInvariant, PTL

(* A key in memory has no metadata on disk, and one alone in its directory *)
(* has nothing there.                                                      *)
THEOREM OneTierAtMost == Spec => []HotNotCold
<1>1. TieredInv => HotNotCold
  BY DEF TieredInv
<1> QED BY <1>1, TieredInvariant, PTL

(* No interrupted write or deletion pairs the lifetime of one put with the *)
(* content of another: what lies on disk under a key alone in its          *)
(* directory is the last put of that key, whatever the other keys do.      *)
THEOREM OnePutPerDirectory == Spec => []SameEntry
<1>1. TieredInv => SameEntry
  <2> SUFFICES ASSUME TieredInv, NEW d \in Dirs, HasMeta(d), cold[d].data # Absent,
                      cold[d].meta.key \in Alone
               PROVE  asked[cold[d].meta.key]
                        = UpToTearing(cold[d].meta.key,
                                      [content |-> cold[d].data, ttl |-> cold[d].meta.ttl,
                                       created_at |-> cold[d].meta.created_at])
    BY DEF SameEntry
  <2>1. PICK k \in Alone : cold[d].meta.key = k /\ d = DirOf[k]
    BY DEF TieredInv, MetaAtHome
  <2>2. Holds(k, asked[k], cold[d])
    BY <2>1 DEF TieredInv, ColdSame
  <2>3. cold[d].meta.key = k
        /\ Matches(asked[k], cold[d].data, cold[d].meta.ttl, cold[d].meta.created_at)
    BY <2>2 DEF Holds, HasMeta
  <2> QED BY <2>3, TornOrWhole, AloneIs DEF TieredInv
<1> QED BY <1>1, TieredInvariant, PTL

-----------------------------------------------------------------------------
(* The promise of the port.                                                *)

(* get(k) finds something: in memory, or on disk and not expired. *)
OnDisk(k) == HasMeta(DirOf[k]) /\ cold[DirOf[k]].data # Absent
Expired(k) == clock - cold[DirOf[k]].meta.created_at > cold[DirOf[k]].meta.ttl
Visible(k) == entry[k] # Absent \/ (OnDisk(k) /\ ~ Expired(k))

(* What get of a key alone in its directory returns is then the last put,  *)
(* up to tearing.                                                          *)
LEMMA ContentsAre ==
  TieredInv => [k \in Alone |-> UpToTearing(k, Found(k))]
                 = [k \in Alone |-> IF Visible(k) THEN asked[k] ELSE Absent]
<1> SUFFICES ASSUME TieredInv, NEW k \in Alone
             PROVE  UpToTearing(k, Found(k)) = IF Visible(k) THEN asked[k] ELSE Absent
  OBVIOUS
<1>0. TypesOK /\ k \in Keys
  BY AloneIs DEF TieredInv
<1>1. PICK e : e = ColdRead(k)
  OBVIOUS
<1>2. Found(k) = IF entry[k] # Absent THEN ValueOf(entry[k])
                 ELSE IF e # Absent /\ ~Hot!IsExpired(e) THEN ValueOf(e) ELSE Absent
  BY <1>1 DEF Found
<1>3. CASE entry[k] # Absent
  <2>1. Matches(asked[k], entry[k].content, entry[k].ttl, entry[k].created_at)
    BY <1>3 DEF TieredInv, HotSame
  <2>2. ValueOf(entry[k]) = [content |-> entry[k].content, ttl |-> entry[k].ttl,
                             created_at |-> entry[k].created_at]
    BY <1>3 DEF ValueOf
  <2>3. UpToTearing(k, ValueOf(entry[k])) = asked[k]
    BY <1>0, <2>1, <2>2, TornOrWhole
  <2> QED BY <1>2, <1>3, <2>3 DEF Visible
<1>4. CASE entry[k] = Absent /\ OnDisk(k)
  <2>1. /\ e # Absent /\ Matches(asked[k], e.content, e.ttl, e.created_at)
        /\ e.ttl = cold[DirOf[k]].meta.ttl /\ e.created_at = cold[DirOf[k]].meta.created_at
    BY <1>0, <1>1, <1>4, ReadIs DEF OnDisk
  <2>2. ValueOf(e) = [content |-> e.content, ttl |-> e.ttl, created_at |-> e.created_at]
    BY <2>1 DEF ValueOf
  <2>3. UpToTearing(k, ValueOf(e)) = asked[k]
    BY <1>0, <2>1, <2>2, TornOrWhole
  <2>4. Hot!IsExpired(e) <=> Expired(k)
    BY <2>1 DEF Hot!IsExpired, Expired
  <2>5. UpToTearing(k, Absent) = Absent
    BY DEF UpToTearing
  <2> QED BY <1>2, <1>4, <2>1, <2>3, <2>4, <2>5 DEF Visible
<1>5. CASE entry[k] = Absent /\ ~ OnDisk(k)
  <2>1. e = Absent
    BY <1>1, <1>5 DEF ColdRead, OnDisk
  <2>2. UpToTearing(k, Absent) = Absent
    BY DEF UpToTearing
  <2> QED BY <1>2, <1>5, <2>1, <2>2 DEF Visible
<1> QED BY <1>3, <1>4, <1>5

(* No step makes a key alone in its directory readable on disk that get    *)
(* did not find before: a deleted, overwritten or expired entry does not   *)
(* come back.                                                              *)
LEMMA NothingComesBack ==
  ASSUME TieredInv, NEW V, DiskStep(V), clock' \in 0..MaxClock, clock <= clock',
         NEW j \in Alone, OnDisk(j)', ~ Expired(j)'
  PROVE  Visible(j)
<1>1. PICK f : f = cold[DirOf[j]]
  OBVIOUS
<1>2. PICK g : g = cold'[DirOf[j]]
  OBVIOUS
<1>3. g # Absent /\ IsMeta(g.meta) /\ g.data # Absent /\ ~ (clock' - g.meta.created_at > g.meta.ttl)
  BY <1>2 DEF OnDisk, Expired, HasMeta
<1>4. CASE g \in Relics(f)
  <2>1. g.meta # Absent
    BY <1>3 DEF IsMeta
  <2>2. f # Absent /\ g.meta = f.meta /\ g.data = f.data
    BY <1>3, <1>4, <2>1 DEF Relics
  <2>3. f \in Files
    BY <1>1, <2>2, DirsAreKeys, AloneIs DEF TieredInv, TypesOK
  <2>4. f.meta \in Metas
    BY <1>3, <2>2, <2>3 DEF Files, IsMeta
  <2>5. f.meta.created_at \in Nat /\ f.meta.ttl \in Nat /\ clock \in Nat /\ clock' \in Nat
    <3>1. f.meta.created_at \in 0..MaxClock /\ f.meta.ttl \in TTLs
      BY <2>4 DEF Metas
    <3>2. clock \in 0..MaxClock
      BY DEF TieredInv, Lru!StoreOK, Lru!EntriesOK
    <3>3. MaxClock \in Nat /\ \A n \in 0..MaxClock : n \in Nat
      BY TieredConstants
    <3>4. f.meta.ttl \in Nat
      BY <3>1, TieredConstants
    <3> QED BY <3>1, <3>2, <3>3, <3>4
  <2>6. ~ (clock - f.meta.created_at > f.meta.ttl)
    <3>1. ~ (clock' - f.meta.created_at > f.meta.ttl)
      BY <1>3, <2>2
    <3> QED BY <2>5, <3>1
  <2> QED BY <1>1, <1>3, <2>2, <2>6 DEF Visible, OnDisk, Expired, HasMeta
<1>5. CASE entry[j] # Absent
  BY <1>5 DEF Visible
<1> QED BY <1>1, <1>2, <1>4, <1>5 DEF DiskStep

(* A put or a promotion of k shows no other key that was not shown. *)
LEMMA MoveInShows ==
  ASSUME TieredInv, NEW k \in Keys, NEW e, MoveIn(k, e), clock' = clock
  PROVE  \A j \in Alone \ {k} : Visible(j)' => Visible(j)
<1>0. PICK V : V = ToSet(Hot!Victims(k, e.size))
  OBVIOUS
<1>1. DiskStep(V)
  BY <1>0, MovedDisk
<1>2. clock' \in 0..MaxClock /\ clock <= clock'
  BY TieredConstants DEF TieredInv, Lru!StoreOK, Lru!EntriesOK
<1>3. ASSUME NEW j \in Alone \ {k}, Visible(j)' PROVE Visible(j)
  <2>1. CASE entry'[j] # Absent
    <3>1. entry[j] # Absent
      BY <2>1, Inserted, AloneIs DEF MoveIn
    <3> QED BY <3>1 DEF Visible
  <2>2. CASE OnDisk(j)' /\ ~ Expired(j)'
    BY <1>1, <1>2, <2>2, NothingComesBack
  <2> QED BY <1>3, <2>1, <2>2 DEF Visible
<1> QED BY <1>3

(* A step maps to a step of the port, or to none that a caller sees. *)
LEMMA TieredRefines ==
  ASSUME TieredInv, TieredInv', [Next]_vars
  PROVE  [Abstract!Next]_(Abstract!vars)
<1>0. Alone \subseteq Keys
  BY AloneIs
<1>1. PICK c : c = [k \in Alone |-> IF Visible(k) THEN asked[k] ELSE Absent]
  OBVIOUS
<1>2. PICK d : d = [k \in Alone |-> IF Visible(k)' THEN asked'[k] ELSE Absent]
  OBVIOUS
<1>3. [k \in Alone |-> UpToTearing(k, Found(k))] = c
  BY <1>1, ContentsAre
<1>4. [k \in Alone |-> UpToTearing(k, Found(k))]' = d
  <2>1. (TieredInv => [k \in Alone |-> UpToTearing(k, Found(k))]
                        = [k \in Alone |-> IF Visible(k) THEN asked[k] ELSE Absent])'
    BY ContentsAre, PTL
  <2> QED BY <1>2, <2>1
<1>5. asked \in [Keys -> Value \cup {Absent}] /\ asked' \in [Keys -> Value \cup {Absent}]
  BY DEF TieredInv, TypesOK
<1>6. c \in [Alone -> Value \cup {Absent}] /\ d \in [Alone -> Value \cup {Absent}]
  BY <1>0, <1>1, <1>2, <1>5
<1>7. clock \in 0..MaxClock
  BY DEF TieredInv, Lru!StoreOK, Lru!EntriesOK
<1>8. ASSUME \A j \in Alone : asked'[j] = asked[j], \A j \in Alone : Visible(j)' => Visible(j)
      PROVE  Abstract!Next
  <2>1. \A j \in Alone : d[j] \in {c[j], Absent}
    BY <1>1, <1>2, <1>8
  <2>2. [k \in Alone |-> asked[k]]' = [k \in Alone |-> asked[k]]
    BY <1>8
  <2>3. Abstract!Drop
    BY <1>3, <1>4, <1>6, <2>1, <2>2 DEF Abstract!Drop, Abstract!Maps, Abstract!MayDrop
  <2> QED BY <2>3 DEF Abstract!Next
<1>9. ASSUME NEW V, DiskStep(V), asked' = asked, clock' = clock,
             \A j \in Keys : entry'[j] # Absent => entry[j] # Absent
      PROVE  Abstract!Next
  <2>1. clock' \in 0..MaxClock /\ clock <= clock'
    BY <1>7, <1>9, TieredConstants
  <2>2. ASSUME NEW j \in Alone, Visible(j)' PROVE Visible(j)
    <3>1. CASE entry'[j] # Absent
      BY <1>0, <1>9, <3>1 DEF Visible
    <3>2. CASE OnDisk(j)' /\ ~ Expired(j)'
      BY <1>9, <2>1, <3>2, NothingComesBack
    <3> QED BY <2>2, <3>1, <3>2 DEF Visible
  <2> QED BY <1>8, <1>9, <2>2
<1>10. ASSUME NEW S \in SUBSET Keys, NEW D, Covers(S, D), DeleteBoth(S, D) PROVE Abstract!Next
  <2>1. /\ \A j \in S : entry'[j] = Absent /\ asked'[j] = Absent
        /\ \A j \in Keys \ S : entry'[j] = entry[j] /\ asked'[j] = asked[j]
    BY <1>10, DeleteKeeps
  <2>2. cold' = Erase(D) /\ clock' = clock
    BY <1>10 DEF DeleteBoth, Hot!Delete
  <2>3. \A j \in Keys : cold'[DirOf[j]] = IF DirOf[j] \in D THEN Absent ELSE cold[DirOf[j]]
    BY <2>2, Erased
  <2>4. ASSUME NEW j \in Alone \ S PROVE d[j] = c[j]
    <3>1. entry'[j] = entry[j] /\ asked'[j] = asked[j] /\ cold'[DirOf[j]] = cold[DirOf[j]]
      BY <1>0, <1>10, <2>1, <2>3 DEF Covers
    <3>2. Visible(j)' <=> Visible(j)
      BY <2>2, <3>1 DEF Visible, OnDisk, Expired, HasMeta
    <3> QED BY <1>1, <1>2, <3>1, <3>2
  <2>5. ASSUME NEW j \in Alone \cap S PROVE d[j] = Absent
    <3>1. asked'[j] = Absent
      BY <2>1
    <3> QED BY <1>2, <3>1
  <2>6. PICK T : T = Alone \cap S
    OBVIOUS
  <2>7. d = [k \in Alone |-> IF k \in T THEN Absent ELSE c[k]]
    BY <1>6, <2>4, <2>5, <2>6
  <2>8. [k \in Alone |-> asked[k]]' = [k \in Alone |-> IF k \in T THEN Absent ELSE [j \in Alone |-> asked[j]][k]]
    BY <1>0, <2>1, <2>6
  <2>9. Abstract!Delete(T) /\ T \in SUBSET Alone
    BY <1>3, <1>4, <2>6, <2>7, <2>8 DEF Abstract!Delete
  <2> QED BY <2>9 DEF Abstract!Next
<1>11. ASSUME NEW k \in Keys, NEW b \in Bodies, NEW ttl \in TTLs, NEW swr \in Windows,
              Put(k, Hot!NewEntry(b, ttl, swr))
       PROVE  Abstract!Next
  <2>1. PICK e : e = Hot!NewEntry(b, ttl, swr)
    OBVIOUS
  <2>2. MoveIn(k, e) /\ clock' = clock /\ asked' = [asked EXCEPT ![k] = ValueOf(e)]
    BY <1>11, <2>1 DEF Put
  <2>3. e \in Lru!Entry /\ ValueOf(e) \in Value
    BY <2>1, NewIs
  <2>4. e # Absent
    BY <2>3, HotAssumptions
  <2>5. entry'[k] = e
    BY <2>2, Inserted DEF MoveIn
  <2>6. \A j \in Alone \ {k} : asked'[j] = asked[j] /\ (Visible(j)' => Visible(j))
    BY <1>0, <1>5, <2>2, MoveInShows
  <2>7. CASE k \in Alone
    <3>1. asked'[k] = ValueOf(e) /\ d[k] = ValueOf(e)
      BY <1>2, <1>5, <2>2, <2>4, <2>5, <2>7 DEF Visible
    <3>2. \A j \in Alone \ {k} : d[j] \in {c[j], Absent}
      BY <1>1, <1>2, <2>6
    <3>3. [j \in Alone |-> asked[j]]' = [[j \in Alone |-> asked[j]] EXCEPT ![k] = ValueOf(e)]
      BY <2>6, <3>1
    <3>4. Abstract!Put(k, ValueOf(e))
      BY <1>3, <1>4, <1>6, <3>1, <3>2, <3>3 DEF Abstract!Put, Abstract!Maps, Abstract!MayDrop
    <3> QED BY <2>3, <2>7, <3>4 DEF Abstract!Next
  <2>8. CASE k \notin Alone
    BY <1>8, <2>6, <2>8
  <2> QED BY <2>7, <2>8
<1>12. ASSUME NEW k \in Keys, Promote(k) PROVE Abstract!Next
  <2>1. PICK e : e = ColdRead(k)
    OBVIOUS
  <2>2. MoveIn(k, e) /\ clock' = clock /\ asked' = asked /\ ~ Hot!IsExpired(e)
    BY <1>12, <2>1 DEF Promote
  <2>3. OnDisk(k)
    BY <1>12, PromoteKeeps DEF OnDisk
  <2>4. e.ttl = cold[DirOf[k]].meta.ttl /\ e.created_at = cold[DirOf[k]].meta.created_at
    BY <2>1, <2>3, ReadIs DEF OnDisk
  <2>5. Visible(k)
    BY <2>2, <2>3, <2>4 DEF Visible, Expired, Hot!IsExpired
  <2>6. \A j \in Alone \ {k} : Visible(j)' => Visible(j)
    BY <2>2, MoveInShows
  <2> QED BY <1>8, <2>2, <2>5, <2>6
<1>13. ASSUME NEW k \in Keys, HotHit(k) PROVE Abstract!Next
  <2>1. \A j \in Keys : entry'[j] # Absent => entry[j] # Absent
    BY <1>13, HotHitKeeps
  <2>2. UNCHANGED <<cold, clock, asked>>
    BY <1>13 DEF HotHit, Hot!Get
  <2>3. DiskStep({})
    BY <2>2, KeptIsDiskStep DEF TieredInv
  <2> QED BY <1>9, <2>1, <2>2, <2>3
<1>14. ASSUME NEW k \in Keys, ColdExpired(k) PROVE Abstract!Next
  <2>1. UNCHANGED <<entry, clock, asked>>
    BY <1>14 DEF ColdExpired, hot
  <2> QED BY <1>9, <1>14, <2>1, ColdExpiredKeeps
<1>15. CASE ListKeys
  <2>1. \A j \in Keys : entry'[j] # Absent => entry[j] # Absent
    BY <1>15, ListKeysKeeps
  <2> QED BY <1>9, <1>15, <2>1, ListKeysKeeps
<1>16. CASE Crash
  <2>1. UNCHANGED <<clock, asked>> /\ \A j \in Keys : entry'[j] = Absent
    BY <1>16 DEF Crash
  <2>2. PICK V : DiskStep(V)
    BY <1>16, CrashKeeps
  <2> QED BY <1>9, <2>1, <2>2
<1>17. CASE Tick
  <2>1. UNCHANGED <<order, entry, current_size, cold, asked>> /\ clock < MaxClock /\ clock' = clock + 1
    BY <1>17 DEF Tick, Hot!Tick
  <2>2. clock' \in 0..MaxClock /\ clock <= clock'
    BY <1>7, <2>1, TieredConstants
  <2>3. DiskStep({})
    BY <2>1, KeptIsDiskStep DEF TieredInv
  <2>4. ASSUME NEW j \in Alone, Visible(j)' PROVE Visible(j)
    <3>1. CASE entry'[j] # Absent
      BY <2>1, <3>1 DEF Visible
    <3>2. CASE OnDisk(j)' /\ ~ Expired(j)'
      BY <2>2, <2>3, <3>2, NothingComesBack
    <3> QED BY <2>4, <3>1, <3>2 DEF Visible
  <2> QED BY <1>8, <2>1, <2>4
<1>18. CASE UNCHANGED vars
  <2>1. c = d
    BY <1>1, <1>2, <1>18 DEF vars, Visible, OnDisk, Expired, HasMeta
  <2>2. [k \in Alone |-> asked[k]]' = [k \in Alone |-> asked[k]]
    BY <1>18 DEF vars
  <2> QED BY <1>3, <1>4, <2>1, <2>2 DEF Abstract!vars
<1>19. ASSUME NEW k \in Keys, Delete(k) PROVE Abstract!Next
  <2>1. {k} \in SUBSET Keys /\ Covers({k}, {DirOf[k]})
    BY DeletesCover
  <2> QED BY <1>10, <1>19, <2>1 DEF Delete
<1>20. ASSUME NEW S \in Prefixed, DeleteByPrefix(S) PROVE Abstract!Next
  <2>1. S \in SUBSET Keys
    BY TieredConstants
  <2>2. Covers(S, DirsWithPrefix(S))
    BY <2>1, DeletesCover
  <2> QED BY <1>10, <1>20, <2>1, <2>2 DEF DeleteByPrefix
<1> QED BY <1>11, <1>12, <1>13, <1>14, <1>15, <1>16, <1>17, <1>18, <1>19, <1>20 DEF Next

(* For the keys alone in their directory, whatever is put, read and        *)
(* deleted under any others, the two-tier store keeps the promise of the   *)
(* port across demotions, promotions, expiry, failed writes and crashes of *)
(* the process: it may forget, but get(k) never returns anything but the   *)
(* last put(k), whole or torn, nor what was deleted.                       *)
THEOREM TieredKeepsThePromise == Spec => ImplementsCacheStore
<1>1. TieredInv /\ Init => Abstract!Init
  <2> SUFFICES ASSUME TieredInv, Init PROVE Abstract!Init
    OBVIOUS
  <2>1. \A k \in Alone : ~ Visible(k)
    BY DirsAreKeys, AloneIs DEF Init, Visible, OnDisk, HasMeta
  <2>2. [k \in Alone |-> UpToTearing(k, Found(k))]
          = [k \in Alone |-> IF Visible(k) THEN asked[k] ELSE Absent]
    BY ContentsAre
  <2>3. [k \in Alone |-> UpToTearing(k, Found(k))] = [k \in Alone |-> Absent]
    BY <2>1, <2>2
  <2>4. [k \in Alone |-> asked[k]] = [k \in Alone |-> Absent]
    BY AloneIs DEF Init
  <2> QED BY <2>3, <2>4 DEF Abstract!Init
<1>2. TieredInv /\ TieredInv' /\ [Next]_vars => [Abstract!Next]_(Abstract!vars)
  BY TieredRefines
<1> QED BY <1>1, <1>2, TieredInvariant, PTL DEF Spec, ImplementsCacheStore, Abstract!Spec
=============================================================================
