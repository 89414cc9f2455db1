---------------------------- MODULE CacheService ----------------------------
(***************************************************************************)
(* The edge's cache service (application/cache_service.py): lookup, stale- *)
(* while-revalidate, request coalescing and origin fetches through the     *)
(* circuit breaker, over a store that keeps the promise of CacheStore.     *)
(*                                                                         *)
(* One event loop runs every task, so a task is atomic between two awaits  *)
(* that really suspend.  There are three: waiting for the leader's event,  *)
(* waiting for the origin, and the start of a background task.  Store and  *)
(* breaker calls do not suspend (their locks are never held across an      *)
(* await).  A handler therefore is the steps from one suspension point to  *)
(* the next, each with the breaker's own action as a conjunct.             *)
(*                                                                         *)
(* Content is a version number that the origin increases.  The age of a    *)
(* stored entry is its phase: "fresh" within its ttl, "stale" within its   *)
(* stale-while-revalidate window, "expired" beyond.                        *)
(*                                                                         *)
(* A definition just before the one it resembles is a mutant of it.        *)
(***************************************************************************)
EXTENDS Integers, FiniteSets

CONSTANTS
    Keys,               \* cache keys
    Requests,           \* slots for client requests in progress
    Revals,             \* bound: slots for background revalidations in progress
    MaxVersion,         \* bound: last version of any content at the origin
    FailureThreshold, RecoveryTimeout, HalfOpenMaxCalls, SuccessThreshold,
    NoTask, NoKey, Absent

Tasks == Requests \cup Revals
Versions == 0..MaxVersion
NoVersion == -1

ASSUME ServiceConstants ==
    /\ IsFiniteSet(Requests) /\ IsFiniteSet(Revals)
    /\ Requests \cap Revals = {}
    /\ NoTask \notin Tasks
    /\ NoKey \notin Keys
    /\ MaxVersion \in Nat

VARIABLES
    \* the circuit breaker (CircuitBreaker.tla); call[t]: task t is inside `async with`
    cb_state, failure_count, success_count, since_failure, half_open_calls, call,
    \* the cache store: store[k] is the entry of k or Absent
    store,
    \* CacheService._inflight: the leader whose event is registered for k, or NoTask
    inflight,
    \* the tasks and their local variables
    task,
    \* the origin: its current version of each key
    origin,
    \* history: origin[k] at the last purge of k that found no answer of the
    \* origin for k still on its way
    barrier

breaker == <<cb_state, failure_count, success_count, since_failure, half_open_calls, call>>
vars == <<breaker, store, inflight, task, origin, barrier>>

CB == INSTANCE CircuitBreaker WITH Callers <- Tasks

(* swr: a stale-while-revalidate window is still to come. *)
Entry == [ver : Versions, phase : {"fresh", "stale", "expired"}, swr : BOOLEAN]

(* pc: where the task is suspended.  role: which path of get_or_fetch (or  *)
(* _revalidate) called _do_fetch_and_cache.  cached: version of the entry  *)
(* the task saw in its lookup.  leader: whose event it waits for.  ver:    *)
(* the version in the origin's answer on its way.                          *)
TaskState == [pc : {"idle", "waiting", "woken", "scheduled", "fetching", "responding"},
              role : {"none", "leader", "follower", "reval"},
              key : Keys \cup {NoKey},
              cached : Versions \cup {NoVersion},
              leader : Requests \cup {NoTask},
              ver : Versions \cup {NoVersion}]

Idle == [pc |-> "idle", role |-> "none", key |-> NoKey, cached |-> NoVersion,
         leader |-> NoTask, ver |-> NoVersion]

(* One type invariant for the service's own state. *)
TypeOK ==
    /\ store \in [Keys -> Entry \cup {Absent}]
    /\ inflight \in [Keys -> Requests \cup {NoTask}]
    /\ task \in [Tasks -> TaskState]
    /\ origin \in [Keys -> Versions]
    /\ barrier \in [Keys -> Versions]

Init ==
    /\ CB!Init
    /\ store = [k \in Keys |-> Absent]
    /\ inflight = [k \in Keys |-> NoTask]
    /\ task = [t \in Tasks |-> Idle]
    /\ origin = [k \in Keys |-> 0]
    /\ barrier = [k \in Keys |-> 0]

-----------------------------------------------------------------------------
(* The lookup at the start of get_or_fetch. *)
IsFresh(k) == store[k] # Absent /\ store[k].phase = "fresh"
IsStaleServable(k) == store[k] # Absent /\ store[k].phase = "stale"
MustFetch(k) == ~IsFresh(k) /\ ~IsStaleServable(k)
CachedVersion(k) == IF store[k] = Absent THEN NoVersion ELSE store[k].ver

Fetching(t) == task[t].pc \in {"fetching", "responding"}

(* The task enters the breaker and suspends on the origin's answer. *)
BeginFetch(t, role, k, cached) ==
    /\ CB!Admit(t)
    /\ task' = [task EXCEPT ![t] = [Idle EXCEPT !.pc = "fetching", !.role = role,
                                                !.key = k, !.cached = cached]]

(* get_or_fetch answers at once: a fresh hit; an expired entry or 503 with *)
(* the circuit open; the same when the breaker refuses the leader, whose   *)
(* event is registered and popped within this step.  A stale hit while a   *)
(* leader is in flight schedules nothing.                                  *)
AnswerNow(r, k) ==
    /\ task[r] = Idle
    /\ \/ IsFresh(k)
       \/ IsStaleServable(k) /\ inflight[k] # NoTask
       \/ MustFetch(k) /\ CB!state = "open"
       \/ MustFetch(k) /\ CB!state # "open" /\ inflight[k] = NoTask /\ CB!Refuses
    /\ UNCHANGED vars

(* Stale-while-revalidate: answer with the stale entry and create a        *)
(* background task, which has not started when the answer leaves.          *)
ServeStale(r, k, v) ==
    /\ task[r] = Idle
    /\ IsStaleServable(k)
    /\ inflight[k] = NoTask
    /\ task[v] = Idle
    /\ task' = [task EXCEPT ![v] = [Idle EXCEPT !.pc = "scheduled", !.role = "reval",
                                               !.key = k, !.cached = store[k].ver]]
    /\ UNCHANGED <<breaker, store, inflight, origin, barrier>>

(* Request coalescing: another request is fetching the key; wait for it. *)
Coalesce(r, k) ==
    /\ task[r] = Idle
    /\ MustFetch(k)
    /\ CB!state # "open"
    /\ inflight[k] # NoTask
    /\ task' = [task EXCEPT ![r] = [Idle EXCEPT !.pc = "waiting", !.key = k,
                                               !.cached = CachedVersion(k),
                                               !.leader = inflight[k]]]
    /\ UNCHANGED <<breaker, store, inflight, origin, barrier>>

(* The leader path: register the event and fetch. *)
Lead(r, k) ==
    /\ task[r] = Idle
    /\ MustFetch(k)
    /\ CB!state # "open"
    /\ inflight[k] = NoTask
    /\ BeginFetch(r, "leader", k, CachedVersion(k))
    /\ inflight' = [inflight EXCEPT ![k] = r]
    /\ UNCHANGED <<store, origin, barrier>>

(* A woken waiter looks again: whatever is stored now is the answer;       *)
(* otherwise it fetches for itself, registering nothing.                   *)
WakeToEntry(r) ==
    /\ task[r].pc = "woken"
    /\ store[task[r].key] # Absent
    /\ task' = [task EXCEPT ![r] = Idle]
    /\ UNCHANGED <<breaker, store, inflight, origin, barrier>>

WakeToFetch(r) ==
    /\ task[r].pc = "woken"
    /\ store[task[r].key] = Absent
    /\ BeginFetch(r, "follower", task[r].key, task[r].cached)
    /\ UNCHANGED <<store, inflight, origin, barrier>>

(* On this path nothing catches the breaker's CircuitOpenError. *)
WakeRefused(r) ==
    /\ task[r].pc = "woken"
    /\ store[task[r].key] = Absent
    /\ CB!Refuses
    /\ task' = [task EXCEPT ![r] = Idle]
    /\ UNCHANGED <<breaker, store, inflight, origin, barrier>>

(* The background task starts; a refusal is logged and ends it. *)
StartReval(v) ==
    /\ task[v].pc = "scheduled"
    /\ \/ BeginFetch(v, "reval", task[v].key, task[v].cached)
       \/ CB!Refuses /\ task' = [task EXCEPT ![v] = Idle] /\ UNCHANGED breaker
    /\ UNCHANGED <<store, inflight, origin, barrier>>

-----------------------------------------------------------------------------
(* The origin answers with its current version.  The answer is then on its *)
(* way, and the content may change before it arrives.                      *)
OriginAnswers(t) ==
    /\ task[t].pc = "fetching"
    /\ task' = [task EXCEPT ![t].pc = "responding", ![t].ver = origin[task[t].key]]
    /\ UNCHANGED <<breaker, store, inflight, origin, barrier>>

(* What the finished task leaves: the finally block of the leader path     *)
(* sets its event, which makes every waiter on it ready to run, and pops   *)
(* the key; followers and revalidations have neither.                      *)
EventNotSet(t) ==
    /\ task' = [task EXCEPT ![t] = Idle]
    /\ inflight' = IF task[t].role = "leader"
                     THEN [inflight EXCEPT ![task[t].key] = NoTask] ELSE inflight
KeyNotPopped(t) ==
    /\ task' = [s \in Tasks |->
                  IF s = t THEN Idle
                  ELSE IF task[s].pc = "waiting" /\ task[s].leader = t
                    THEN [task[s] EXCEPT !.pc = "woken", !.leader = NoTask]
                    ELSE task[s]]
    /\ UNCHANGED inflight
Settle(t) ==
    /\ task' = [s \in Tasks |->
                  IF s = t THEN Idle
                  ELSE IF task[s].pc = "waiting" /\ task[s].leader = t
                    THEN [task[s] EXCEPT !.pc = "woken", !.leader = NoTask]
                    ELSE task[s]]
    /\ inflight' = IF task[t].role = "leader"
                     THEN [inflight EXCEPT ![task[t].key] = NoTask] ELSE inflight

(* The answer is a 304 only if the task had an entry to validate and the   *)
(* origin's version was that entry's; even then it may be a 200 (an entry  *)
(* without entity tag).                                                    *)
Always304(t) == TRUE
MayBe304(t) == task[t].cached = task[t].ver

(* no-store and private are not stored.  A 304 puts the entry the task saw *)
(* at its lookup back, whatever the store holds now; a 200 puts the new    *)
(* content, under the key or, when the origin's Vary names other headers,  *)
(* under a key no lookup uses.  A put may evict any other keys.            *)
DropKeys(S) == [k \in Keys |-> IF k \in S THEN Absent ELSE store[k]]

StoreUnder(k, ver, swr, dropped) ==
    store' = [DropKeys(dropped) EXCEPT ![k] = [ver |-> ver, phase |-> "fresh", swr |-> swr]]

Refresh(t, swr, dropped) ==
    /\ MayBe304(t)
    /\ StoreUnder(task[t].key, task[t].cached, swr, dropped)

Store(t, swr, dropped) == StoreUnder(task[t].key, task[t].ver, swr, dropped)

StoreElsewhere(dropped) == store' = DropKeys(dropped)

LeaveUnreported(t) == UNCHANGED breaker
LeaveOk(t) == CB!ExitOk(t)
LeaveErr(t) == CB!ExitErr(t)

(* The answer arrives: _do_fetch_and_cache leaves the breaker, stores what *)
(* it may, and the caller's path ends.                                     *)
Deliver(t) ==
    /\ task[t].pc = "responding"
    /\ LeaveOk(t)
    /\ Settle(t)
    /\ \/ UNCHANGED store
       \/ \E swr \in BOOLEAN, dropped \in SUBSET (Keys \ {task[t].key}) :
            Refresh(t, swr, dropped) \/ Store(t, swr, dropped)
       \/ \E dropped \in SUBSET Keys : StoreElsewhere(dropped)
    /\ UNCHANGED <<origin, barrier>>

(* Retries exhausted, a lost connection or a cancelled task: the exception *)
(* passes the breaker, the finally block and, for a request, get_or_fetch  *)
(* itself; a revalidation swallows it.                                     *)
FetchFails(t) ==
    /\ Fetching(t)
    /\ LeaveErr(t)
    /\ Settle(t)
    /\ UNCHANGED <<store, origin, barrier>>

-----------------------------------------------------------------------------
(* Around the service: content changes, entries age, operators purge, time *)
(* passes for the breaker.                                                 *)
OriginUpdate(k) ==
    /\ origin[k] < MaxVersion
    /\ origin' = [origin EXCEPT ![k] = @ + 1]
    /\ UNCHANGED <<breaker, store, inflight, task, barrier>>

Age(k) ==
    /\ store[k] # Absent
    /\ store[k].phase # "expired"
    /\ store' = [store EXCEPT ![k].phase = IF store[k].swr THEN "stale" ELSE "expired",
                              ![k].swr = FALSE]
    /\ UNCHANGED <<breaker, inflight, task, origin, barrier>>

(* DELETE /internal/purge: removes the entries, touches no task. *)
AnswersOnTheWay(k) == \E t \in Tasks : task[t].pc = "responding" /\ task[t].key = k

PurgeStaleOnly(S) == [k \in Keys |-> IF k \in S /\ ~IsFresh(k) THEN Absent ELSE store[k]]
Purged(S) == [k \in Keys |-> IF k \in S THEN Absent ELSE store[k]]

Purge(S) ==
    /\ store' = Purged(S)
    /\ barrier' = [k \in Keys |-> IF k \in S /\ ~AnswersOnTheWay(k) THEN origin[k] ELSE barrier[k]]
    /\ UNCHANGED <<breaker, inflight, task, origin>>

BreakerTick == CB!Tick /\ UNCHANGED <<store, inflight, task, origin, barrier>>

Next ==
    \/ \E r \in Requests, k \in Keys :
         \/ AnswerNow(r, k) \/ Coalesce(r, k) \/ Lead(r, k)
         \/ \E v \in Revals : ServeStale(r, k, v)
    \/ \E r \in Requests : WakeToEntry(r) \/ WakeToFetch(r) \/ WakeRefused(r)
    \/ \E v \in Revals : StartReval(v)
    \/ \E t \in Tasks : OriginAnswers(t) \/ Deliver(t) \/ FetchFails(t)
    \/ \E k \in Keys : OriginUpdate(k) \/ Age(k)
    \/ \E S \in {{k} : k \in Keys} \cup {Keys} : Purge(S)
    \/ BreakerTick

Spec == Init /\ [][Next]_vars

(* The event loop runs every ready task, and the origin client's timeout   *)
(* and bounded retries end every fetch.  No client, operator or origin is  *)
(* assumed to do anything.                                                 *)
Fairness ==
    /\ \A r \in Requests : WF_vars(WakeToEntry(r) \/ WakeToFetch(r) \/ WakeRefused(r))
    /\ \A v \in Revals : WF_vars(StartReval(v))
    /\ \A t \in Tasks : WF_vars(Deliver(t) \/ FetchFails(t))

FairSpec == Spec /\ Fairness

-----------------------------------------------------------------------------
(* The registry and the leaders agree: an event is registered for a key    *)
(* exactly while one request leads a fetch of it.  A leak would make every *)
(* later request for the key wait for ever; a loss would start a second    *)
(* leader.                                                                 *)
InflightIsLeader ==
    \A r \in Requests, k \in Keys :
        inflight[k] = r <=> Fetching(r) /\ task[r].role = "leader" /\ task[r].key = k

(* No lost wakeup: the event a request waits for belongs to a request that *)
(* is still leading the fetch of the same key, and so will set it.         *)
NoLostWakeup ==
    \A r \in Requests : task[r].pc = "waiting" =>
        /\ inflight[task[r].key] = task[r].leader
        /\ task[r].leader \in Requests

(* Every path into and out of an origin fetch passes the breaker once:     *)
(* exactly the tasks at the origin are inside it.                          *)
InsideBreakerWhileFetching ==
    \A t \in Tasks : call[t] # "idle" <=> Fetching(t)

(* A purge that found no answer on its way is a barrier: nothing older     *)
(* than the origin's content at that moment is ever stored again, by       *)
(* leaders, followers, revalidations or 304s that began before it.         *)
PurgeIsBarrier ==
    \A k \in Keys : store[k] # Absent => store[k].ver >= barrier[k]

(* Every request, waiting or fetching, and every revalidation ends.        *)
TasksEnd == \A t \in Tasks : task[t] # Idle ~> task[t] = Idle

-----------------------------------------------------------------------------
(* README.md:188 promises one origin fetch for concurrent requests of an   *)
(* uncached key.  When the leader fails or its answer may not be stored,   *)
(* every waiter fetches for itself, at the same time.                      *)
OneFetchPerKey ==
    \A k \in Keys : Cardinality({r \in Requests : Fetching(r) /\ task[r].key = k}) <= 1

(* cache_service.py:80 promises stale content or 503 when the circuit is   *)
(* open.  A woken waiter that the breaker refuses raises instead: no step  *)
(* should let CircuitOpenError leave get_or_fetch.                         *)
CircuitOpenIsAnswered == [][\A r \in Requests : ~WakeRefused(r)]_vars
=============================================================================
