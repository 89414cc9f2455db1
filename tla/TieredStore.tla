---------------------------- MODULE TieredStore ----------------------------
(***************************************************************************)
(* The two-tier store (infrastructure/cache/tiered_store.py): an LRU store *)
(* in memory over directories on disk.                                     *)
(*                                                                         *)
(* Both locks are only held over code that never suspends, and the file    *)
(* operations are synchronous, so each method is one step of the process,  *)
(* demotions included: _pending_demotions is empty between methods.  What  *)
(* can come between two file operations is a crash, or an OSError out of a *)
(* demotion.  A crash here is one of the process: it loses the hot tier    *)
(* and leaves every write made so far, which the restarted process finds.  *)
(* A crash of the host is not modelled: nothing is synced to disk, so it   *)
(* may lose or reorder writes that were made.                              *)
(*                                                                         *)
(* Keys that differ in unsafe characters only share a directory, and one   *)
(* of them overwrites, answers for or deletes the other on disk.  What is  *)
(* stated of a key's own entry is stated of the keys that are alone in     *)
(* their directory, in the company of any others; OwnEntry is what fails   *)
(* for those that are not.                                                 *)
(*                                                                         *)
(* A definition just before the one it resembles is a mutant of it.        *)
(***************************************************************************)
EXTENDS Integers, Sequences, SequencesExt, FiniteSetsExt

CONSTANTS
    Keys,       \* cache keys, sequences of characters
    Unsafe,     \* the characters _url_safe_key replaces
    Prefixed,   \* the sets of keys some prefix selects
    Capacity,   \* hot_max_size_bytes
    Bodies, BodySize, TTLs, Windows,    \* as in LRUStore
    MaxClock,   \* bound: last tick of the clock
    Absent,     \* None, no file, no directory
    Torn        \* a file opened for writing and not completely written

(* The files of a directory, and what the callers see of an entry. *)
Metas == [key : Keys, size : Range(BodySize), ttl : TTLs, created_at : 0..MaxClock]
Files == [meta : Metas \cup {Absent, Torn}, data : Bodies \cup {Absent, Torn}]
Value == [content : Bodies, ttl : TTLs, created_at : 0..MaxClock]

ASSUME TieredConstants ==
    /\ Capacity \in Nat /\ MaxClock \in Nat
    /\ BodySize \in [Bodies -> Nat] /\ TTLs \subseteq Nat /\ Windows \subseteq Nat
    /\ Prefixed \subseteq SUBSET Keys

VARIABLES
    order, entry, current_size,     \* the hot tier: the variables of LRUStore
    cold,       \* cold[d]: the two files of directory d, or Absent
    clock,      \* time.time()
    asked       \* history: what the callers last put and have not deleted

vars == <<order, entry, current_size, cold, clock, asked>>
hot == <<order, entry, current_size>>

(* The hot tier may be handed what is left of a torn data.bin. *)
Hot == INSTANCE LRUStore WITH
    Bodies   <- Bodies \cup {Torn},
    BodySize <- [b \in Bodies \cup {Torn} |-> IF b = Torn THEN 0 ELSE BodySize[b]]

(* None is no record; a content is neither None nor torn. *)
ASSUME AbsentIsNone ==
    /\ Absent \notin Hot!Entry \cup Hot!Value \cup Files \cup Bodies
    /\ Absent \notin [content : Bodies \cup {Torn}, ttl : TTLs, created_at : 0..MaxClock]
    /\ Torn \notin Bodies

-----------------------------------------------------------------------------
(* The encoding of keys as directory names.                                *)

(* Unsafe characters become underscores, runs of underscores one, and none *)
(* is left at either end.                                                  *)
UrlSafeKey(key) ==
    LET safe    == [i \in DOMAIN key |-> IF key[i] \in Unsafe THEN "_" ELSE key[i]]
        Kept(i) == \/ safe[i] # "_"
                   \/ /\ i > 1 /\ safe[i - 1] # "_"
                      /\ \E j \in DOMAIN key : j > i /\ safe[j] # "_"
        kept    == SetToSortSeq({i \in DOMAIN key : Kept(i)}, <)
    IN  IF kept = <<>> THEN <<"_", "e", "m", "p", "t", "y", "_">>
        ELSE [n \in DOMAIN kept |-> safe[kept[n]]]

DirOf == [k \in Keys |-> UrlSafeKey(k)]
Dirs == Range(DirOf)

(* The keys whose directory no other key has. *)
Alone == {k \in Keys : \A j \in Keys : DirOf[j] = DirOf[k] => j = k}

-----------------------------------------------------------------------------
(* The cold tier.  meta.json holds the key and the lifetime; it does not   *)
(* hold stale_while_revalidate or vary_headers.                            *)

Meta(k) == [key |-> k, size |-> entry[k].size, ttl |-> entry[k].ttl,
            created_at |-> entry[k].created_at]

IsMeta(m) == m \notin {Absent, Torn}
HasMeta(d) == cold[d] # Absent /\ IsMeta(cold[d].meta)

(* _cold_read, with the touch of a promotion. *)
ReadWithoutData(k) ==
    LET f == cold[DirOf[k]]
    IN  IF HasMeta(DirOf[k])
        THEN [content |-> f.data, size |-> f.meta.size, ttl |-> f.meta.ttl, swr |-> 0,
              created_at |-> f.meta.created_at, last_accessed |-> clock]
        ELSE Absent
ColdRead(k) ==
    LET f == cold[DirOf[k]]
    IN  IF HasMeta(DirOf[k]) /\ f.data # Absent
        THEN [content |-> f.data, size |-> f.meta.size, ttl |-> f.meta.ttl, swr |-> 0,
              created_at |-> f.meta.created_at, last_accessed |-> clock]
        ELSE Absent

(* _cold_delete of the directories D. *)
Erase(D) == [d \in Dirs |-> IF d \in D THEN Absent ELSE cold[d]]

(* _cold_write of the demoted keys, in order, over the directories c. *)
ColdWrite(c, keys) ==
    [d \in Dirs |->
        LET at == {i \in DOMAIN keys : DirOf[keys[i]] = d}
        IN  IF at = {} THEN c[d]
            ELSE [meta |-> Meta(keys[Max(at)]), data |-> entry[keys[Max(at)]].content]]

(* What _cold_write of k leaves in a directory that held f when it is      *)
(* interrupted: after mkdir, opening meta.json, closing it, opening        *)
(* data.bin.                                                               *)
File(f, name) == IF f = Absent THEN Absent ELSE f[name]
HalfWritten(k, f) ==
    {[meta |-> m, data |-> File(f, "data")] : m \in {File(f, "meta"), Torn, Meta(k)}}
    \cup {[meta |-> Meta(k), data |-> Torn]}

(* The directories an interrupted flush of the demotions may leave. *)
Interrupted(c, keys) ==
    UNION {LET done == ColdWrite(c, SubSeq(keys, 1, n - 1))
               dir  == DirOf[keys[n]]
           IN  {[done EXCEPT ![dir] = f] : f \in HalfWritten(keys[n], done[dir])}
           : n \in DOMAIN keys}

(* The directories an interrupted deletion of D may leave: some are gone,  *)
(* and one may have lost any of its files, in the order iterdir gave.      *)
PartlyErased(D) ==
    {Erase(gone) : gone \in SUBSET D} \cup
    {[Erase(gone) EXCEPT ![d] = [meta |-> IF "meta" \in left THEN cold[d].meta ELSE Absent,
                                 data |-> IF "data" \in left THEN cold[d].data ELSE Absent]]
     : gone \in SUBSET D, d \in {d \in D : cold[d] # Absent}, left \in SUBSET {"meta", "data"}}

-----------------------------------------------------------------------------
(* Every key hot and cold keeps: the value without what a demotion loses.  *)
ValueOf(e) == IF e = Absent THEN Absent
              ELSE [content |-> e.content, ttl |-> e.ttl, created_at |-> e.created_at]

Init ==
    /\ order = <<>> /\ entry = [k \in Keys |-> Absent] /\ current_size = 0
    /\ cold = [d \in Dirs |-> Absent]
    /\ clock = 0
    /\ asked = [k \in Keys |-> Absent]

(* put and promotion: out of the cold tier, into the hot one, then flush   *)
(* what that evicted.  An OSError in the flush leaves the rest unwritten.  *)
KeepOld(k) == cold
TakeOut(k) == Erase({DirOf[k]})
MoveIn(k, e) ==
    LET demoted == Hot!Victims(k, e.size)
    IN  /\ Hot!Insert(k, e)
        /\ cold' \in {ColdWrite(TakeOut(k), demoted)} \cup Interrupted(TakeOut(k), demoted)

Put(k, e) ==
    /\ MoveIn(k, e)
    /\ asked' = [asked EXCEPT ![k] = ValueOf(e)]
    /\ UNCHANGED clock

(* get: the hot tier, else promote what the cold tier has, unless it is    *)
(* expired: then it is deleted.                                            *)
HotHit(k) == Hot!Get(k) /\ UNCHANGED cold

Promote(k) ==
    /\ entry[k] = Absent
    /\ ColdRead(k) # Absent /\ ~Hot!IsExpired(ColdRead(k))
    /\ MoveIn(k, ColdRead(k))
    /\ UNCHANGED <<clock, asked>>

ColdExpired(k) ==
    /\ entry[k] = Absent
    /\ ColdRead(k) # Absent /\ Hot!IsExpired(ColdRead(k))
    /\ cold' = Erase({DirOf[k]})
    /\ UNCHANGED <<hot, clock, asked>>

(* delete and delete_by_prefix, which knows a directory by its meta.json.  *)
DirsWithPrefix(S) == {d \in Dirs : HasMeta(d) /\ cold[d].meta.key \in S}

DeleteHot(S, D) == Hot!Delete(S) /\ UNCHANGED cold
DeleteBoth(S, D) == Hot!Delete(S) /\ cold' = Erase(D)
Delete(k) == DeleteBoth({k}, {DirOf[k]})
DeleteByPrefix(S) == DeleteBoth(S, DirsWithPrefix(S))

(* keys(): prunes both tiers. *)
ExpiredDirs == {d \in Dirs : HasMeta(d) /\ Hot!IsExpired(cold[d].meta)}
ListKeys == Hot!ListKeys /\ cold' = Erase(ExpiredDirs)

(* A crash in the middle of a method, or between two: the methods delete   *)
(* directories D and then write the demoted keys.  What a crashed delete,  *)
(* get or promotion leaves, a crashed put of the same key leaves too.      *)
LeftBy(D, demoted) == PartlyErased(D) \cup Interrupted(Erase(D), demoted)
LeftByCrash ==
    (UNION {UNION {LeftBy({DirOf[k]}, Hot!Victims(k, BodySize[b])) : b \in Bodies} : k \in Keys})
    \cup (UNION {LeftBy(D, <<>>) : D \in {DirsWithPrefix(S) : S \in Prefixed} \cup {ExpiredDirs}})

Crash ==
    /\ order' = <<>> /\ entry' = [k \in Keys |-> Absent] /\ current_size' = 0
    /\ cold' \in LeftByCrash
    /\ UNCHANGED <<clock, asked>>

Tick == Hot!Tick /\ UNCHANGED cold

Next ==
    \/ \E k \in Keys, b \in Bodies, ttl \in TTLs, swr \in Windows :
         Put(k, Hot!NewEntry(b, ttl, swr))
    \/ \E k \in Keys : HotHit(k) \/ Promote(k) \/ ColdExpired(k) \/ Delete(k)
    \/ \E S \in Prefixed : DeleteByPrefix(S)
    \/ ListKeys
    \/ Crash
    \/ Tick

Spec == Init /\ [][Next]_vars

-----------------------------------------------------------------------------
(* One type invariant. *)
TypeOK ==
    /\ Hot!TypeOK
    /\ cold \in [Dirs -> Files \cup {Absent}]

(* A key in memory has no metadata on disk, and a key alone in its         *)
(* directory has nothing there: a crash cannot bring back what it          *)
(* overwrote, and delete and keys need not choose between two values.      *)
HotNotCold == \A k \in Keys : entry[k] # Absent =>
    /\ \A d \in Dirs : HasMeta(d) => cold[d].meta.key # k
    /\ k \in Alone => cold[DirOf[k]] = Absent

(* _cold_read cannot tell a torn data.bin from a complete one.  What the   *)
(* store promises it promises up to that: a torn file stands for the       *)
(* content it is the beginning of.                                         *)
UpToTearing(k, e) ==
    IF e # Absent /\ e.content = Torn /\ asked[k] # Absent
    THEN [e EXCEPT !.content = asked[k].content] ELSE e

(* What lies on disk with metadata and data, expired or not, is the last   *)
(* put of the key its metadata names, if that key is alone in its          *)
(* directory: no interrupted write or deletion ever pairs the lifetime of  *)
(* one put with the content of another.                                    *)
SameEntry ==
    \A d \in Dirs : HasMeta(d) /\ cold[d].data # Absent /\ cold[d].meta.key \in Alone =>
        LET k == cold[d].meta.key
        IN  asked[k] = UpToTearing(k, [content |-> cold[d].data, ttl |-> cold[d].meta.ttl,
                                       created_at |-> cold[d].meta.created_at])

(* What get(k) returns now. *)
Found(k) ==
    LET c == ColdRead(k)
    IN  IF entry[k] # Absent THEN ValueOf(entry[k])
        ELSE IF c # Absent /\ ~Hot!IsExpired(c) THEN ValueOf(c) ELSE Absent

(* For the keys that are alone in their directory the store keeps the      *)
(* promise of the port across demotions, promotions, expiry and crashes,   *)
(* whatever the other keys do: it forgets, but get(k) never returns        *)
(* anything but the last put(k), whole or torn, nor what was deleted.      *)
Abstract == INSTANCE CacheStore WITH
    Keys     <- Alone,
    Values   <- Value,
    asked    <- [k \in Alone |-> asked[k]],
    contents <- [k \in Alone |-> UpToTearing(k, Found(k))]

ImplementsCacheStore == Abstract!Spec

-----------------------------------------------------------------------------
(* What the store does not keep.  TLC refutes each of these as an          *)
(* INVARIANT of the run of this module.                                    *)

(* The port's "The cached entry, or None if no entry exists for key", for  *)
(* every key: a complete entry that get(k) finds is the last put(k).       *)
(* _url_safe_key gives keys of different files one directory.              *)
OwnEntry == \A k \in Keys :
    Found(k) # Absent /\ Found(k).content # Torn => Found(k) = asked[k]

(* The same for the keys that are alone in their directory, and whole:     *)
(* what _cold_read returns was completely written.                         *)
WholeEntry == \A k \in Alone : Found(k) \in {asked[k], Absent}
=============================================================================
