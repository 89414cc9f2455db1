------------------------------ MODULE LRUStore ------------------------------
(***************************************************************************)
(* The in-memory LRU store (infrastructure/cache/lru_store.py).            *)
(*                                                                         *)
(* Every method runs under an asyncio.Lock and awaits nothing inside it,   *)
(* so each is one step.  The OrderedDict is its key order, least recently  *)
(* used first, beside the entry of each key.  An entry keeps its content,  *)
(* its lifetime and what the store reads; headers, etag and status travel  *)
(* with the content.  The counters behind stats() are left out: nothing in *)
(* the store reads them.                                                   *)
(*                                                                         *)
(* A definition just before the one it resembles is a mutant of it.        *)
(***************************************************************************)
EXTENDS Integers, Sequences, SequencesExt, FiniteSetsExt, KeyOrder

CONSTANTS
    Keys,       \* cache keys
    Prefixed,   \* the sets of keys some prefix selects
    Capacity,   \* max_size_bytes
    Bodies,     \* contents of the entries put
    BodySize,   \* BodySize[b]: length of content b in bytes
    TTLs,       \* their ttl, in ticks
    Windows,    \* their stale_while_revalidate, in ticks
    MaxClock,   \* bound: last tick of the clock
    Absent      \* None

ASSUME LRUConstants ==
    /\ Capacity \in Nat /\ MaxClock \in Nat
    /\ BodySize \in [Bodies -> Nat] /\ TTLs \subseteq Nat /\ Windows \subseteq Nat
    /\ Prefixed \subseteq SUBSET Keys

VARIABLES
    order,          \* keys of _store, least recently used first
    entry,          \* entry[k]: the CacheEntry of k, or Absent
    current_size,   \* _current_size_bytes
    clock,          \* time.time()
    asked           \* history: what the callers last put and have not deleted

vars == <<order, entry, current_size, clock, asked>>

Entry == [content : Bodies, size : Range(BodySize), ttl : TTLs, swr : Windows \cup {0},
          created_at : 0..MaxClock, last_accessed : 0..MaxClock]

(* The CacheEntry _do_fetch_and_cache builds: sized and stamped now. *)
NewEntry(body, ttl, swr) ==
    [content |-> body, size |-> BodySize[body], ttl |-> ttl, swr |-> swr,
     created_at |-> clock, last_accessed |-> clock]

(* What a caller sees of an entry: everything but the bookkeeping. *)
Value == [content : Bodies, ttl : TTLs, swr : Windows, created_at : 0..MaxClock]
ValueOf(e) == IF e = Absent THEN Absent
              ELSE [content |-> e.content, ttl |-> e.ttl, swr |-> e.swr,
                    created_at |-> e.created_at]

ASSUME AbsentIsNone == Absent \notin Entry /\ Absent \notin Value

(* One type invariant: the keys of the order are those that have an entry, once each. *)
TypeOK ==
    /\ entry \in [Keys -> Entry \cup {Absent}]
    /\ ToSet(order) = {k \in Keys : entry[k] # Absent}
    /\ Len(order) = Cardinality(ToSet(order))
    /\ current_size \in Nat
    /\ clock \in 0..MaxClock

Init ==
    /\ order = <<>>
    /\ entry = [k \in Keys |-> Absent]
    /\ current_size = 0
    /\ clock = 0
    /\ asked = [k \in Keys |-> Absent]

-----------------------------------------------------------------------------
SizeOf(S) == SumFunctionOnSet([k \in S |-> entry[k].size], S)

(* _remove_entry for every key of S: out of the order and out of the sum. *)
RemoveEntries(S) ==
    /\ order' = Without(order, S)
    /\ entry' = [k \in Keys |-> IF k \in S THEN Absent ELSE entry[k]]
    /\ current_size' = current_size - SizeOf(S)

(* _is_expired and CacheEntry.is_expired: strictly older than its ttl. *)
IsExpired(e) == clock - e.created_at > e.ttl

(* get: a hit moves the key to the most recently used end.  An expired     *)
(* entry is returned too: CacheService decides what to do with it.  A miss *)
(* changes nothing.                                                        *)
MoveNowhere(k) == order
MoveToEnd(k) == Append(Without(order, {k}), k)
Get(k) ==
    /\ entry[k] # Absent
    /\ order' = MoveToEnd(k)
    /\ entry' = [entry EXCEPT ![k].last_accessed = clock]
    /\ UNCHANGED <<current_size, clock, asked>>

(* The eviction loop of put, over the other keys in order: how many times  *)
(* _evict_lru pops the first before `needed` fits or nothing is left.      *)
EvictOneTooFew(others, used, needed) ==
    IF used + needed > Capacity /\ others # <<>> THEN 1 ELSE 0
Evictions(others, used, needed) ==
    Min({n \in 0..Len(others) :
           \/ n = Len(others)
           \/ used - SizeOf({others[i] : i \in 1..n}) + needed <= Capacity})

(* The keys _evict_lru pops, from the least recently used end. *)
EvictNewest(others, n) == SubSeq(others, Len(others) - n + 1, Len(others))
EvictLRU(others, n) == SubSeq(others, 1, n)

(* What _remove_entry leaves when put overwrites k: the other keys, in     *)
(* order, and the bytes they use.                                          *)
OthersWithOwn(k) == order
Others(k) == Without(order, {k})
UsedWithOwn(k) == current_size
UsedByOthers(k) == current_size - (IF entry[k] = Absent THEN 0 ELSE entry[k].size)

(* The keys put(k) evicts to make room for `needed` bytes, in order. *)
Victims(k, needed) == EvictLRU(Others(k), Evictions(Others(k), UsedByOthers(k), needed))

(* put: replace the key's own entry, make room, append. *)
Insert(k, new) ==
    LET evicted == ToSet(Victims(k, new.size))
    IN  /\ order' = Append(Without(Others(k), evicted), k)
        /\ entry' = [j \in Keys |-> IF j = k THEN new
                                   ELSE IF j \in evicted THEN Absent ELSE entry[j]]
        /\ current_size' = UsedByOthers(k) - SizeOf(evicted) + new.size

Put(k, new) ==
    /\ Insert(k, new)
    /\ asked' = [asked EXCEPT ![k] = ValueOf(new)]
    /\ UNCHANGED clock

(* delete(k) of a stored key, and delete_by_prefix for the keys S that     *)
(* start with the prefix.                                                  *)
DeleteUnexpired(S) ==
    /\ RemoveEntries({k \in S : entry[k] # Absent /\ ~IsExpired(entry[k])})
    /\ asked' = [k \in Keys |-> IF k \in S THEN Absent ELSE asked[k]]
    /\ UNCHANGED clock
Delete(S) ==
    /\ RemoveEntries({k \in S : entry[k] # Absent})
    /\ asked' = [k \in Keys |-> IF k \in S THEN Absent ELSE asked[k]]
    /\ UNCHANGED clock

(* keys(): listing the keys prunes the expired entries. *)
ListKeys ==
    /\ RemoveEntries({k \in Keys : entry[k] # Absent /\ IsExpired(entry[k])})
    /\ UNCHANGED <<clock, asked>>

Tick ==
    /\ clock < MaxClock
    /\ clock' = clock + 1
    /\ UNCHANGED <<order, entry, current_size, asked>>

Next ==
    \/ \E k \in Keys : Get(k) \/ Delete({k})
    \/ \E k \in Keys, b \in Bodies, ttl \in TTLs, swr \in Windows : Put(k, NewEntry(b, ttl, swr))
    \/ \E S \in Prefixed : Delete(S)
    \/ ListKeys
    \/ Tick

Spec == Init /\ [][Next]_vars

-----------------------------------------------------------------------------
Stored == {k \in Keys : entry[k] # Absent}

(* The running byte count equals the sizes of what is stored, through      *)
(* every overwrite, eviction, delete and prune.                            *)
SizeAccounting == current_size = SizeOf(Stored)

(* The store is within its capacity, unless a single entry larger than the *)
(* whole capacity is all it holds.                                         *)
WithinCapacity == current_size <= Capacity \/ Cardinality(Stored) = 1

(* The order of the dictionary is the order of last access, which is what  *)
(* makes popping its first item evict the least recently used.             *)
RecencyOrder == \A i, j \in DOMAIN order :
    i < j => entry[order[i]].last_accessed <= entry[order[j]].last_accessed

(* Making room never sacrifices an entry while a less recently used one    *)
(* survives.                                                               *)
EvictsLeastRecent ==
    [][\A j, k \in Stored :
         (j \notin Stored' /\ asked'[j] = asked[j] /\ clock' = clock /\ ~IsExpired(entry[j])
            /\ k \in Stored' /\ entry'[k] = entry[k])
         => entry[j].last_accessed <= entry[k].last_accessed]_vars

(* The LRU store keeps the promise of the port: it forgets, never invents, *)
(* and forgets what it was told to delete.                                 *)
Abstract == INSTANCE CacheStore WITH
    Values   <- Value,
    contents <- [k \in Keys |-> ValueOf(entry[k])]

ImplementsCacheStore == Abstract!Spec
=============================================================================
