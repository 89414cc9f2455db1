------------------------- MODULE CacheServiceProofs -------------------------
(***************************************************************************)
(* Coalescing, breaker use and purge of the cache service, for any number  *)
(* of keys, requests, revalidations and versions.                          *)
(***************************************************************************)
EXTENDS CacheService, TLAPS

CallStates == {"idle", "through", "probe"}

(* What every task's local variables look like at its suspension point. *)
TaskShape ==
    \A t \in Tasks :
        /\ task[t].pc # "idle" => task[t].key \in Keys
        /\ task[t].pc = "responding" => task[t].ver \in Versions
        /\ task[t].pc \in {"waiting", "woken"} => t \in Requests
        /\ task[t].role = "leader" => t \in Requests

(* The typing part of the inductive invariant. *)
TypeInv == TypeOK /\ TaskShape /\ call \in [Tasks -> CallStates]

(* The idle state of a task is a task state. *)
LEMMA IdleType == Idle \in TaskState /\ Idle.pc = "idle" /\ Idle.role = "none"
  BY DEF Idle, TaskState, NoVersion, Versions

(* Entering the breaker marks exactly the entering task. *)
LEMMA AdmitMarks ==
  ASSUME NEW t \in Tasks, CB!Admit(t)
  PROVE  /\ call[t] = "idle"
         /\ \E how \in {"through", "probe"} : call' = [call EXCEPT ![t] = how]
  BY DEF CB!Admit

(* Leaving it, either way, unmarks exactly the leaving task. *)
LEMMA LeaveUnmarks ==
  ASSUME NEW t \in Tasks, LeaveOk(t) \/ LeaveErr(t)
  PROVE  call' = [call EXCEPT ![t] = "idle"]
  BY DEF LeaveOk, LeaveErr, CB!ExitOk, CB!ExitErr, CB!Leave

(* The state a fetch starts in is well formed. *)
LEMMA BeginFetchType ==
  ASSUME TypeInv, NEW t \in Tasks, NEW role \in {"leader", "follower", "reval"},
         role = "leader" => t \in Requests,
         NEW k \in Keys, NEW cached \in Versions \cup {NoVersion},
         BeginFetch(t, role, k, cached)
  PROVE  /\ task' \in [Tasks -> TaskState]
         /\ TaskShape'
         /\ call' \in [Tasks -> CallStates]
<1>1. task' \in [Tasks -> TaskState] /\ TaskShape'
  BY DEF TypeInv, TypeOK, TaskShape, BeginFetch, TaskState, Idle, Tasks
<1>2. call' \in [Tasks -> CallStates]
  BY AdmitMarks DEF BeginFetch, TypeInv, CallStates
<1> QED BY <1>1, <1>2

(* So is what a finished fetch leaves behind. *)
LEMMA SettleType ==
  ASSUME TypeInv, NEW t \in Tasks, Fetching(t), Settle(t), LeaveOk(t) \/ LeaveErr(t)
  PROVE  /\ task' \in [Tasks -> TaskState]
         /\ TaskShape'
         /\ inflight' \in [Keys -> Requests \cup {NoTask}]
         /\ call' \in [Tasks -> CallStates]
<1> DEFINE woken(s) == [task[s] EXCEPT !.pc = "woken", !.leader = NoTask]
<1>w. ASSUME NEW s \in Tasks
      PROVE  /\ woken(s) \in TaskState
             /\ woken(s).pc = "woken"
             /\ woken(s).key = task[s].key
             /\ woken(s).role = task[s].role
  BY <1>w DEF TypeInv, TypeOK, TaskState
<1> HIDE DEF woken
<1>s. task' = [s \in Tasks |-> IF s = t THEN Idle
                               ELSE IF task[s].pc = "waiting" /\ task[s].leader = t
                                 THEN woken(s) ELSE task[s]]
  BY DEF Settle, woken
<1>1. task' \in [Tasks -> TaskState] /\ TaskShape'
  <2>0. task \in [Tasks -> TaskState] /\ Idle \in TaskState
    BY IdleType DEF TypeInv, TypeOK
  <2>1. task' \in [Tasks -> TaskState]
    <3> SUFFICES ASSUME NEW s \in Tasks PROVE task'[s] \in TaskState
      BY <1>s
    <3>1. woken(s) \in TaskState
      BY <1>w
    <3> QED BY <1>s, <2>0, <3>1
  <2>2. TaskShape'
    BY <1>w, <1>s, IdleType DEF TypeInv, TypeOK, TaskShape
  <2> QED BY <2>1, <2>2
<1>2. inflight' \in [Keys -> Requests \cup {NoTask}]
  BY DEF TypeInv, TypeOK, Settle
<1>3. call' \in [Tasks -> CallStates]
  BY LeaveUnmarks DEF TypeInv, CallStates
<1> QED BY <1>1, <1>2, <1>3

(* The invariant's typing part holds initially. *)
LEMMA InitTypeInv == Init => TypeInv
<1> SUFFICES ASSUME Init PROVE TypeInv
  OBVIOUS
<1>1. 0 \in Versions
  BY ServiceConstants DEF Versions
<1>2. TypeOK
  BY <1>1, IdleType DEF Init, TypeOK
<1>3. TaskShape
  BY DEF Init, TaskShape, Idle
<1>4. call \in [Tasks -> CallStates]
  BY DEF Init, CB!Init, CallStates
<1> QED BY <1>2, <1>3, <1>4 DEF TypeInv

(* The version a lookup hands on is a version or none. *)
LEMMA CachedVersionType ==
  ASSUME TypeInv, NEW k \in Keys
  PROVE  CachedVersion(k) \in Versions \cup {NoVersion}
  BY DEF TypeInv, TypeOK, CachedVersion, Entry

(* Every step preserves the typing part. *)
LEMMA NextTypeInv == TypeInv /\ [Next]_vars => TypeInv'
<1> SUFFICES ASSUME TypeInv, [Next]_vars PROVE TypeInv'
  OBVIOUS
<1>0. CASE UNCHANGED vars
  BY <1>0 DEF vars, breaker, TypeInv, TypeOK, TaskShape
<1>1. ASSUME NEW r \in Requests, NEW k \in Keys, Coalesce(r, k) PROVE TypeInv'
  <2>1. CachedVersion(k) \in Versions \cup {NoVersion}
    BY CachedVersionType
  <2>2. task' \in [Tasks -> TaskState]
    BY <1>1, <2>1 DEF Coalesce, TypeInv, TypeOK, TaskState, Idle, Tasks
  <2>3. TaskShape'
    BY <1>1, <2>1 DEF Coalesce, TypeInv, TypeOK, TaskShape, TaskState, Idle, Tasks
  <2> QED BY <1>1, <2>2, <2>3 DEF Coalesce, TypeInv, TypeOK, breaker
<1>2. ASSUME NEW r \in Requests, NEW k \in Keys, Lead(r, k) PROVE TypeInv'
  <2>1. /\ task' \in [Tasks -> TaskState]
        /\ TaskShape'
        /\ call' \in [Tasks -> CallStates]
    BY <1>2, BeginFetchType, CachedVersionType DEF Lead, Tasks
  <2> QED BY <1>2, <2>1 DEF Lead, TypeInv, TypeOK
<1>3. ASSUME NEW r \in Requests, NEW k \in Keys, NEW v \in Revals, ServeStale(r, k, v)
      PROVE TypeInv'
  <2>1. store[k].ver \in Versions
    BY <1>3 DEF ServeStale, IsStaleServable, TypeInv, TypeOK, Entry
  <2>2. task' \in [Tasks -> TaskState]
    BY <1>3, <2>1 DEF ServeStale, TypeInv, TypeOK, TaskState, Idle, Tasks
  <2>3. TaskShape'
    BY <1>3, <2>1 DEF ServeStale, TypeInv, TypeOK, TaskShape, TaskState, Idle, Tasks
  <2> QED BY <1>3, <2>2, <2>3 DEF ServeStale, TypeInv, TypeOK, breaker
<1>4. ASSUME NEW t \in Tasks, task' = [task EXCEPT ![t] = Idle],
             UNCHANGED <<breaker, store, inflight, origin, barrier>>
      PROVE TypeInv'
  <2>1. task' \in [Tasks -> TaskState]
    BY <1>4, IdleType DEF TypeInv, TypeOK
  <2>2. TaskShape'
    BY <1>4, IdleType DEF TypeInv, TypeOK, TaskShape
  <2> QED BY <1>4, <2>1, <2>2 DEF TypeInv, TypeOK, breaker
<1>5. ASSUME NEW r \in Requests, WakeToFetch(r) PROVE TypeInv'
  <2>1. task[r].key \in Keys /\ task[r].cached \in Versions \cup {NoVersion}
    BY <1>5 DEF WakeToFetch, TypeInv, TypeOK, TaskShape, TaskState, Tasks
  <2>2. /\ task' \in [Tasks -> TaskState]
        /\ TaskShape'
        /\ call' \in [Tasks -> CallStates]
    BY <1>5, <2>1, BeginFetchType DEF WakeToFetch, Tasks
  <2> QED BY <1>5, <2>2 DEF WakeToFetch, TypeInv, TypeOK
<1>6. ASSUME NEW v \in Revals, StartReval(v) PROVE TypeInv'
  <2>1. CASE BeginFetch(v, "reval", task[v].key, task[v].cached)
    <3>1. task[v].key \in Keys /\ task[v].cached \in Versions \cup {NoVersion}
      BY <1>6 DEF StartReval, TypeInv, TypeOK, TaskShape, TaskState, Tasks
    <3>2. /\ task' \in [Tasks -> TaskState]
          /\ TaskShape'
          /\ call' \in [Tasks -> CallStates]
      BY <2>1, <3>1, BeginFetchType DEF Tasks
    <3> QED BY <1>6, <3>2 DEF StartReval, TypeInv, TypeOK
  <2>2. CASE task' = [task EXCEPT ![v] = Idle] /\ UNCHANGED breaker
    BY <1>6, <2>2, <1>4 DEF StartReval, Tasks
  <2> QED BY <1>6, <2>1, <2>2 DEF StartReval
<1>7. ASSUME NEW t \in Tasks, OriginAnswers(t) PROVE TypeInv'
  <2>1. origin[task[t].key] \in Versions
    BY <1>7 DEF OriginAnswers, TypeInv, TypeOK, TaskShape
  <2> DEFINE answered == [task[t] EXCEPT !.pc = "responding", !.ver = origin[task[t].key]]
  <2>a. /\ answered \in TaskState
        /\ answered.pc = "responding" /\ answered.role = task[t].role
        /\ answered.key = task[t].key /\ answered.ver = origin[task[t].key]
    BY <2>1 DEF TypeInv, TypeOK, TaskState
  <2>b. task' = [task EXCEPT ![t] = answered]
    BY <1>7 DEF OriginAnswers, TypeInv, TypeOK, TaskState
  <2> HIDE DEF answered
  <2>2. task' \in [Tasks -> TaskState]
    BY <2>a, <2>b DEF TypeInv, TypeOK
  <2>3. TaskShape'
    BY <1>7, <2>1, <2>a, <2>b DEF OriginAnswers, TypeInv, TypeOK, TaskShape
  <2> QED BY <1>7, <2>2, <2>3 DEF OriginAnswers, TypeInv, TypeOK, breaker
<1>8. ASSUME NEW t \in Tasks, Deliver(t) PROVE TypeInv'
  <2>1. /\ task' \in [Tasks -> TaskState]
        /\ TaskShape'
        /\ inflight' \in [Keys -> Requests \cup {NoTask}]
        /\ call' \in [Tasks -> CallStates]
    BY <1>8, SettleType DEF Deliver, Fetching
  <2>2. task[t].key \in Keys /\ task[t].ver \in Versions
    BY <1>8 DEF Deliver, TypeInv, TaskShape
  <2>3. store' \in [Keys -> Entry \cup {Absent}]
    <3>1. store \in [Keys -> Entry \cup {Absent}]
      BY DEF TypeInv, TypeOK
    <3>2. ASSUME NEW S PROVE DropKeys(S) \in [Keys -> Entry \cup {Absent}]
      BY <3>1 DEF DropKeys
    <3>3. ASSUME NEW swr \in BOOLEAN
          PROVE  [ver |-> task[t].ver, phase |-> "fresh", swr |-> swr] \in Entry
      BY <2>2 DEF Entry
    <3>4. ASSUME NEW swr \in BOOLEAN, NEW dropped, Refresh(t, swr, dropped) \/ Store(t, swr, dropped)
          PROVE  store' \in [Keys -> Entry \cup {Absent}]
      BY <3>2, <3>3, <3>4 DEF Refresh, Store, StoreUnder, MayBe304
    <3>5. ASSUME NEW dropped, StoreElsewhere(dropped)
          PROVE  store' \in [Keys -> Entry \cup {Absent}]
      BY <3>2, <3>5 DEF StoreElsewhere
    <3> QED BY <1>8, <3>1, <3>4, <3>5 DEF Deliver
  <2> QED BY <1>8, <2>1, <2>3 DEF Deliver, TypeInv, TypeOK
<1>9. ASSUME NEW t \in Tasks, FetchFails(t) PROVE TypeInv'
  <2>1. /\ task' \in [Tasks -> TaskState]
        /\ TaskShape'
        /\ inflight' \in [Keys -> Requests \cup {NoTask}]
        /\ call' \in [Tasks -> CallStates]
    BY <1>9, SettleType DEF FetchFails
  <2> QED BY <1>9, <2>1 DEF FetchFails, TypeInv, TypeOK
<1>10. ASSUME NEW k \in Keys, OriginUpdate(k) PROVE TypeInv'
  <2>1. origin' \in [Keys -> Versions]
    BY <1>10, ServiceConstants DEF OriginUpdate, TypeInv, TypeOK, Versions
  <2> QED BY <1>10, <2>1 DEF OriginUpdate, TypeInv, TypeOK, TaskShape, breaker
<1>11. ASSUME NEW k \in Keys, Age(k) PROVE TypeInv'
  <2>1. store' \in [Keys -> Entry \cup {Absent}]
    <3> DEFINE aged == [store[k] EXCEPT !.phase = IF store[k].swr THEN "stale" ELSE "expired",
                                        !.swr = FALSE]
    <3>1. aged \in Entry
      BY <1>11 DEF Age, TypeInv, TypeOK, Entry
    <3>2. store' = [store EXCEPT ![k] = aged]
      BY <1>11 DEF Age, TypeInv, TypeOK, Entry
    <3> QED BY <3>1, <3>2 DEF TypeInv, TypeOK
  <2> QED BY <1>11, <2>1 DEF Age, TypeInv, TypeOK, TaskShape, breaker
<1>12. ASSUME NEW S, Purge(S) PROVE TypeInv'
  BY <1>12 DEF Purge, Purged, TypeInv, TypeOK, TaskShape, breaker
<1>13. CASE BreakerTick
  BY <1>13 DEF BreakerTick, CB!Tick, TypeInv, TypeOK, TaskShape
<1>14. ASSUME NEW r \in Requests, WakeToEntry(r) \/ WakeRefused(r) PROVE TypeInv'
  BY <1>14, <1>4 DEF WakeToEntry, WakeRefused, Tasks
<1>15. ASSUME NEW r \in Requests, NEW k \in Keys, AnswerNow(r, k) PROVE TypeInv'
  BY <1>15, <1>0 DEF AnswerNow
<1> QED
  BY <1>0, <1>1, <1>2, <1>3, <1>5, <1>6, <1>7, <1>8, <1>9, <1>10, <1>11, <1>12, <1>13,
     <1>14, <1>15 DEF Next

(* The service's state keeps its type through every handler. *)
THEOREM TypeCorrect == Spec => []TypeOK
<1>1. TypeInv => TypeOK
  BY DEF TypeInv
<1> QED BY <1>1, InitTypeInv, NextTypeInv, PTL DEF Spec

-----------------------------------------------------------------------------
(* Coalescing: the registry names the leaders, and waiters wait for them.  *)
Coalescing == InflightIsLeader /\ NoLostWakeup

(* The two parts at one task, the form the steps below use. *)
LeaderAt(r, k) == Fetching(r) /\ task[r].role = "leader" /\ task[r].key = k

(* Initially no key is registered and nobody waits. *)
LEMMA InitCoalescing == Init => Coalescing
<1> SUFFICES ASSUME Init PROVE Coalescing
  OBVIOUS
<1>1. \A t \in Tasks : task[t].pc = "idle"
  BY IdleType DEF Init
<1>2. InflightIsLeader
  BY <1>1, ServiceConstants DEF Init, InflightIsLeader, Fetching, Tasks
<1>3. NoLostWakeup
  BY <1>1 DEF NoLostWakeup, Tasks
<1> QED BY <1>2, <1>3 DEF Coalescing

(* A step that leaves the registry alone and changes one task that neither *)
(* leads nor will, and does not make it wait, keeps coalescing intact.     *)
LEMMA OtherTaskCoalescing ==
  ASSUME TypeInv, Coalescing, NEW t \in Tasks, NEW new \in TaskState,
         task' = [task EXCEPT ![t] = new], UNCHANGED inflight,
         t \in Requests => (Fetching(t) => task[t].role # "leader"),
         new.role # "leader", new.pc # "waiting"
  PROVE  Coalescing'
<1>1. InflightIsLeader'
  BY DEF Coalescing, InflightIsLeader, Fetching, Tasks, TypeInv, TypeOK
<1>2. NoLostWakeup'
  BY DEF Coalescing, NoLostWakeup, Tasks, TypeInv, TypeOK
<1> QED BY <1>1, <1>2 DEF Coalescing

(* The finally block: the leader's key is popped and its waiters are woken *)
(* in the same step; the end of any other fetch wakes nobody.              *)
LEMMA SettleCoalescing ==
  ASSUME TypeInv, Coalescing, NEW t \in Tasks, Fetching(t), Settle(t)
  PROVE  Coalescing'
<1> DEFINE woken(s) == [task[s] EXCEPT !.pc = "woken", !.leader = NoTask]
<1>w. ASSUME NEW s \in Tasks PROVE woken(s).pc = "woken"
  BY DEF TypeInv, TypeOK, TaskState
<1> HIDE DEF woken
<1>s. task' = [s \in Tasks |-> IF s = t THEN Idle
                               ELSE IF task[s].pc = "waiting" /\ task[s].leader = t
                                 THEN woken(s) ELSE task[s]]
  BY DEF Settle, woken
<1>k. task[t].key \in Keys /\ (task[t].role = "leader" => t \in Requests)
  BY DEF TypeInv, TaskShape, Fetching
<1>l. task[t].role = "leader" => inflight[task[t].key] = t
  BY <1>k DEF Coalescing, InflightIsLeader
<1>f. inflight' = IF task[t].role = "leader"
                    THEN [inflight EXCEPT ![task[t].key] = NoTask] ELSE inflight
  BY DEF Settle
<1>i. inflight \in [Keys -> Requests \cup {NoTask}]
  BY DEF TypeInv, TypeOK
<1>1. InflightIsLeader'
  <2> SUFFICES ASSUME NEW r \in Requests, NEW k \in Keys
               PROVE  inflight'[k] = r <=> LeaderAt(r, k)'
    BY DEF InflightIsLeader, LeaderAt, Fetching
  <2>0. r \in Tasks /\ r # NoTask
    BY ServiceConstants DEF Tasks
  <2>1. inflight[k] = r <=> LeaderAt(r, k)
    BY DEF Coalescing, InflightIsLeader, LeaderAt, Fetching
  <2>2. CASE r = t
    <3>1. task'[r] = Idle
      BY <2>2, <1>s, <2>0
    <3>2. ~LeaderAt(r, k)'
      BY <3>1, IdleType DEF LeaderAt
    <3>3. inflight'[k] # r
      <4>1. CASE task[t].role = "leader" /\ k = task[t].key
        BY <4>1, <1>f, <1>i, <2>0
      <4>2. CASE ~(task[t].role = "leader" /\ k = task[t].key)
        BY <4>2, <1>f, <1>i, <2>1, <2>2 DEF LeaderAt
      <4> QED BY <4>1, <4>2
    <3> QED BY <3>2, <3>3
  <2>3. CASE r # t /\ task[r].pc = "waiting" /\ task[r].leader = t
    <3>1. task'[r] = woken(r)
      BY <2>3, <1>s, <2>0
    <3>2. ~LeaderAt(r, k)' /\ ~LeaderAt(r, k)
      BY <3>1, <1>w, <2>0, <2>3 DEF LeaderAt, Fetching
    <3>3. inflight'[k] # r
      BY <1>f, <1>i, <2>0, <2>1, <3>2
    <3> QED BY <3>2, <3>3
  <2>4. CASE r # t /\ ~(task[r].pc = "waiting" /\ task[r].leader = t)
    <3>1. task'[r] = task[r]
      BY <2>4, <1>s, <2>0
    <3>2. LeaderAt(r, k)' <=> LeaderAt(r, k)
      BY <3>1 DEF LeaderAt, Fetching
    <3>3. inflight'[k] = r <=> inflight[k] = r
      BY <1>f, <1>i, <1>l, <2>0, <2>4
    <3> QED BY <2>1, <3>2, <3>3
  <2> QED BY <2>2, <2>3, <2>4
<1>2. NoLostWakeup'
  <2> SUFFICES ASSUME NEW r \in Requests, task'[r].pc = "waiting"
               PROVE  inflight'[task'[r].key] = task'[r].leader /\ task'[r].leader \in Requests
    BY DEF NoLostWakeup
  <2>0. r \in Tasks
    BY DEF Tasks
  <2>1. task'[r] = task[r] /\ task[r].leader # t
    BY <1>s, <1>w, <2>0, IdleType
  <2>2. /\ inflight[task[r].key] = task[r].leader
        /\ task[r].leader \in Requests
        /\ task[r].key \in Keys
    BY <2>0, <2>1 DEF Coalescing, NoLostWakeup, TypeInv, TaskShape
  <2>3. inflight'[task[r].key] = inflight[task[r].key]
    BY <1>f, <1>i, <1>l, <2>1, <2>2
  <2> QED BY <2>1, <2>2, <2>3
<1> QED BY <1>1, <1>2 DEF Coalescing

(* Every step preserves coalescing. *)
LEMMA NextCoalescing == TypeInv /\ Coalescing /\ [Next]_vars => Coalescing'
<1> SUFFICES ASSUME TypeInv, Coalescing, [Next]_vars PROVE Coalescing'
  OBVIOUS
<1>0. CASE UNCHANGED <<task, inflight>>
  BY <1>0 DEF Coalescing, InflightIsLeader, NoLostWakeup, Fetching
<1>i. inflight \in [Keys -> Requests \cup {NoTask}] /\ task \in [Tasks -> TaskState]
  BY DEF TypeInv, TypeOK
<1>1. ASSUME NEW r \in Requests, NEW k \in Keys, Coalesce(r, k) PROVE Coalescing'
  <2>0. r \in Tasks /\ task[r].pc = "idle" /\ inflight' = inflight /\ inflight[k] \in Requests
    BY <1>1, <1>i, IdleType DEF Coalesce, Tasks
  <2>1. /\ task'[r].pc = "waiting" /\ task'[r].key = k /\ task'[r].leader = inflight[k]
        /\ \A s \in Tasks \ {r} : task'[s] = task[s]
    BY <1>1, <1>i, <2>0 DEF Coalesce, Idle
  <2>2. InflightIsLeader'
    BY <2>0, <2>1 DEF Coalescing, InflightIsLeader, Fetching, Tasks
  <2>3. NoLostWakeup'
    BY <2>0, <2>1 DEF Coalescing, NoLostWakeup, Tasks
  <2> QED BY <2>2, <2>3 DEF Coalescing
<1>2. ASSUME NEW r \in Requests, NEW k \in Keys, Lead(r, k) PROVE Coalescing'
  <2>0. r \in Tasks /\ task[r].pc = "idle" /\ inflight[k] = NoTask /\ r # NoTask
    BY <1>2, IdleType, ServiceConstants DEF Lead, Tasks
  <2>1. /\ task'[r].pc = "fetching" /\ task'[r].role = "leader" /\ task'[r].key = k
        /\ \A s \in Tasks \ {r} : task'[s] = task[s]
    BY <1>2, <1>i, <2>0 DEF Lead, BeginFetch, Idle
  <2>2. inflight' = [inflight EXCEPT ![k] = r]
    BY <1>2 DEF Lead
  <2>3. InflightIsLeader'
    <3> SUFFICES ASSUME NEW q \in Requests, NEW j \in Keys
                 PROVE  inflight'[j] = q <=> LeaderAt(q, j)'
      BY DEF InflightIsLeader, LeaderAt, Fetching
    <3>1. inflight[j] = q <=> LeaderAt(q, j)
      BY DEF Coalescing, InflightIsLeader, LeaderAt, Fetching
    <3>2. CASE q = r
      BY <3>1, <3>2, <1>i, <2>0, <2>1, <2>2 DEF LeaderAt, Fetching
    <3>3. CASE q # r
      <4>1. LeaderAt(q, j)' <=> LeaderAt(q, j)
        BY <3>3, <2>1 DEF LeaderAt, Fetching, Tasks
      <4>2. q # NoTask
        BY ServiceConstants DEF Tasks
      <4> QED BY <3>1, <3>3, <4>1, <4>2, <1>i, <2>0, <2>2
    <3> QED BY <3>2, <3>3
  <2>4. NoLostWakeup'
    <3> SUFFICES ASSUME NEW q \in Requests, task'[q].pc = "waiting"
                 PROVE  inflight'[task'[q].key] = task'[q].leader /\ task'[q].leader \in Requests
      BY DEF NoLostWakeup
    <3>1. q \in Tasks /\ q # r /\ task'[q] = task[q]
      BY <2>1 DEF Tasks
    <3>2. /\ inflight[task[q].key] = task[q].leader
          /\ task[q].leader \in Requests
          /\ task[q].key \in Keys
      BY <3>1 DEF Coalescing, NoLostWakeup, TypeInv, TaskShape
    <3>3. task[q].key # k
      BY <3>2, <2>0, ServiceConstants DEF Tasks
    <3> QED BY <3>1, <3>2, <3>3, <2>2, <1>i
  <2> QED BY <2>3, <2>4 DEF Coalescing
<1>3. ASSUME NEW r \in Requests, NEW k \in Keys, NEW v \in Revals, ServeStale(r, k, v)
      PROVE Coalescing'
  <2>1. v \in Tasks /\ v \notin Requests
    BY ServiceConstants DEF Tasks
  <2>2. task'[v].pc = "scheduled" /\ \A s \in Tasks \ {v} : task'[s] = task[s]
    BY <1>3, <1>i, <2>1 DEF ServeStale, Idle
  <2>3. inflight' = inflight
    BY <1>3 DEF ServeStale
  <2>4. \A s \in Requests : task'[s] = task[s]
    BY <2>1, <2>2 DEF Tasks
  <2> QED BY <2>3, <2>4 DEF Coalescing, InflightIsLeader, NoLostWakeup, Fetching
<1>4. ASSUME NEW r \in Requests, WakeToEntry(r) \/ WakeRefused(r) PROVE Coalescing'
  BY <1>4, IdleType, OtherTaskCoalescing DEF WakeToEntry, WakeRefused, Tasks, Fetching
<1>5. ASSUME NEW r \in Requests, WakeToFetch(r) PROVE Coalescing'
  <2> DEFINE new == [Idle EXCEPT !.pc = "fetching", !.role = "follower",
                                 !.key = task[r].key, !.cached = task[r].cached]
  <2>0. task[r] \in TaskState
    BY <1>i DEF Tasks
  <2>1. new \in TaskState /\ new.role # "leader" /\ new.pc # "waiting"
    BY <2>0 DEF Idle, TaskState
  <2>2. task' = [task EXCEPT ![r] = new] /\ UNCHANGED inflight /\ ~Fetching(r)
    BY <1>5 DEF WakeToFetch, BeginFetch, Fetching
  <2> HIDE DEF new
  <2> QED BY <2>1, <2>2, OtherTaskCoalescing DEF Tasks
<1>6. ASSUME NEW v \in Revals, StartReval(v) PROVE Coalescing'
  <2>1. v \in Tasks /\ v \notin Requests
    BY ServiceConstants DEF Tasks
  <2>2. (\A s \in Tasks \ {v} : task'[s] = task[s]) /\ inflight' = inflight
    BY <1>6, <1>i, <2>1 DEF StartReval, BeginFetch
  <2>3. \A s \in Requests : task'[s] = task[s]
    BY <2>1, <2>2 DEF Tasks
  <2> QED BY <2>2, <2>3 DEF Coalescing, InflightIsLeader, NoLostWakeup, Fetching
<1>7. ASSUME NEW t \in Tasks, OriginAnswers(t) PROVE Coalescing'
  <2>1. /\ task[t].pc = "fetching" /\ task'[t].pc = "responding"
        /\ task'[t].role = task[t].role /\ task'[t].key = task[t].key
        /\ \A s \in Tasks \ {t} : task'[s] = task[s]
    BY <1>7, <1>i DEF OriginAnswers, TaskState
  <2>2. inflight' = inflight
    BY <1>7 DEF OriginAnswers
  <2>3. InflightIsLeader'
    <3> SUFFICES ASSUME NEW r \in Requests, NEW k \in Keys
                 PROVE  LeaderAt(r, k)' <=> LeaderAt(r, k)
      BY <2>2 DEF Coalescing, InflightIsLeader, LeaderAt, Fetching
    <3> QED BY <2>1 DEF LeaderAt, Fetching, Tasks
  <2>4. NoLostWakeup'
    BY <2>1, <2>2 DEF Coalescing, NoLostWakeup, Tasks
  <2> QED BY <2>3, <2>4 DEF Coalescing
<1>8. ASSUME NEW t \in Tasks, Deliver(t) \/ FetchFails(t) PROVE Coalescing'
  BY <1>8, SettleCoalescing DEF Deliver, FetchFails, Fetching
<1>9. ASSUME NEW r \in Requests, NEW k \in Keys, AnswerNow(r, k) PROVE Coalescing'
  BY <1>9, <1>0 DEF AnswerNow, vars
<1>10. ASSUME NEW k \in Keys, OriginUpdate(k) \/ Age(k) PROVE Coalescing'
  BY <1>10, <1>0 DEF OriginUpdate, Age
<1>11. ASSUME NEW S, Purge(S) PROVE Coalescing'
  BY <1>11, <1>0 DEF Purge
<1>12. CASE BreakerTick
  BY <1>12, <1>0 DEF BreakerTick
<1>13. CASE UNCHANGED vars
  BY <1>13, <1>0 DEF vars
<1> QED
  BY <1>1, <1>2, <1>3, <1>4, <1>5, <1>6, <1>7, <1>8, <1>9, <1>10, <1>11, <1>12, <1>13 DEF Next

(* The coalescing registry is exact: no key is ever left registered, or    *)
(* registered twice, whatever way the leader's fetch ends.                 *)
THEOREM RegistryIsExact == Spec => []InflightIsLeader
<1>1. Coalescing => InflightIsLeader
  BY DEF Coalescing
<1> QED BY <1>1, InitTypeInv, NextTypeInv, InitCoalescing, NextCoalescing, PTL DEF Spec

(* A waiter's event always belongs to a leader that will set it.           *)
THEOREM NoWakeupIsLost == Spec => []NoLostWakeup
<1>1. Coalescing => NoLostWakeup
  BY DEF Coalescing
<1> QED BY <1>1, InitTypeInv, NextTypeInv, InitCoalescing, NextCoalescing, PTL DEF Spec

-----------------------------------------------------------------------------
(* Whoever starts a fetch was outside the breaker and not fetching; whoever *)
(* ends one was fetching.  One lemma for each kind of step.                *)
LEMMA BeginFetchBreaker ==
  ASSUME TypeInv, InsideBreakerWhileFetching, NEW t \in Tasks, NEW role, NEW k, NEW cached,
         BeginFetch(t, role, k, cached)
  PROVE  InsideBreakerWhileFetching'
<1>0. task \in [Tasks -> TaskState] /\ call \in [Tasks -> CallStates]
  BY DEF TypeInv, TypeOK
<1>1. PICK how \in {"through", "probe"} : call' = [call EXCEPT ![t] = how]
  BY AdmitMarks DEF BeginFetch
<1>2. call'[t] # "idle" /\ \A s \in Tasks \ {t} : call'[s] = call[s]
  BY <1>0, <1>1
<1>3. task'[t].pc = "fetching" /\ \A s \in Tasks \ {t} : task'[s] = task[s]
  BY <1>0 DEF BeginFetch, Idle
<1> QED BY <1>2, <1>3 DEF InsideBreakerWhileFetching, Fetching

(* The end of a fetch takes its task, and no other, out of the breaker. *)
LEMMA SettleBreaker ==
  ASSUME TypeInv, InsideBreakerWhileFetching, NEW t \in Tasks, Fetching(t), Settle(t),
         LeaveOk(t) \/ LeaveErr(t)
  PROVE  InsideBreakerWhileFetching'
<1>0. task \in [Tasks -> TaskState] /\ call \in [Tasks -> CallStates]
  BY DEF TypeInv, TypeOK
<1>1. call'[t] = "idle" /\ \A s \in Tasks \ {t} : call'[s] = call[s]
  BY <1>0, LeaveUnmarks
<1>2. ~Fetching(t)'
  BY IdleType DEF Settle, Fetching
<1>3. ASSUME NEW s \in Tasks \ {t} PROVE Fetching(s)' <=> Fetching(s)
  <2>1. CASE task[s].pc = "waiting" /\ task[s].leader = t
    <3>1. task'[s].pc = "woken"
      BY <1>0, <2>1, <1>3 DEF Settle, TaskState
    <3> QED BY <2>1, <3>1 DEF Fetching
  <2>2. CASE ~(task[s].pc = "waiting" /\ task[s].leader = t)
    <3>1. task'[s] = task[s]
      BY <2>2, <1>3 DEF Settle
    <3> QED BY <3>1 DEF Fetching
  <2> QED BY <2>1, <2>2
<1> QED BY <1>1, <1>2, <1>3 DEF InsideBreakerWhileFetching

(* A step that leaves every call alone and neither starts nor ends a fetch. *)
LEMMA OutsideBreaker ==
  ASSUME TypeInv, InsideBreakerWhileFetching, UNCHANGED call,
         \A t \in Tasks : Fetching(t)' <=> Fetching(t)
  PROVE  InsideBreakerWhileFetching'
  BY DEF InsideBreakerWhileFetching

(* Every step preserves the correspondence of fetches and breaker calls. *)
LEMMA NextInsideBreaker ==
  TypeInv /\ InsideBreakerWhileFetching /\ [Next]_vars => InsideBreakerWhileFetching'
<1> SUFFICES ASSUME TypeInv, InsideBreakerWhileFetching, [Next]_vars
             PROVE  InsideBreakerWhileFetching'
  OBVIOUS
<1>0. task \in [Tasks -> TaskState]
  BY DEF TypeInv, TypeOK
<1>1. CASE UNCHANGED <<task, call>>
  BY <1>1, OutsideBreaker DEF Fetching
<1>2. ASSUME NEW r \in Requests, NEW k \in Keys, Coalesce(r, k)
      PROVE InsideBreakerWhileFetching'
  <2>1. task[r].pc = "idle" /\ task'[r].pc = "waiting" /\ UNCHANGED call
    BY <1>2, <1>0 DEF Coalesce, Idle, Tasks, breaker
  <2>2. \A s \in Tasks \ {r} : task'[s] = task[s]
    BY <1>2, <1>0 DEF Coalesce
  <2> QED BY <2>1, <2>2, OutsideBreaker DEF Fetching
<1>3. ASSUME NEW r \in Requests, NEW k \in Keys, Lead(r, k)
      PROVE InsideBreakerWhileFetching'
  BY <1>3, BeginFetchBreaker DEF Lead, Tasks
<1>4. ASSUME NEW r \in Requests, NEW k \in Keys, NEW v \in Revals, ServeStale(r, k, v)
      PROVE InsideBreakerWhileFetching'
  <2>1. task[v].pc = "idle" /\ task'[v].pc = "scheduled" /\ UNCHANGED call
    BY <1>4, <1>0 DEF ServeStale, Idle, Tasks, breaker
  <2>2. \A s \in Tasks \ {v} : task'[s] = task[s]
    BY <1>4, <1>0 DEF ServeStale
  <2> QED BY <2>1, <2>2, OutsideBreaker DEF Fetching
<1>5. ASSUME NEW t \in Tasks, ~Fetching(t), task' = [task EXCEPT ![t] = Idle], UNCHANGED call
      PROVE InsideBreakerWhileFetching'
  <2>1. ~Fetching(t)' /\ \A s \in Tasks \ {t} : task'[s] = task[s]
    BY <1>5, <1>0, IdleType DEF Fetching
  <2> QED BY <1>5, <2>1, OutsideBreaker DEF Fetching
<1>6. ASSUME NEW r \in Requests, WakeToEntry(r) \/ WakeRefused(r)
      PROVE InsideBreakerWhileFetching'
  BY <1>6, <1>5 DEF WakeToEntry, WakeRefused, Tasks, Fetching, breaker
<1>7. ASSUME NEW r \in Requests, WakeToFetch(r) PROVE InsideBreakerWhileFetching'
  BY <1>7, BeginFetchBreaker DEF WakeToFetch, Tasks
<1>8. ASSUME NEW v \in Revals, StartReval(v) PROVE InsideBreakerWhileFetching'
  <2>1. CASE BeginFetch(v, "reval", task[v].key, task[v].cached)
    BY <2>1, BeginFetchBreaker DEF Tasks
  <2>2. CASE task' = [task EXCEPT ![v] = Idle] /\ UNCHANGED breaker
    BY <1>8, <2>2, <1>5 DEF StartReval, Tasks, Fetching, breaker
  <2> QED BY <1>8, <2>1, <2>2 DEF StartReval
<1>9. ASSUME NEW t \in Tasks, OriginAnswers(t) PROVE InsideBreakerWhileFetching'
  <2>1. task[t].pc = "fetching" /\ task'[t].pc = "responding" /\ UNCHANGED call
    BY <1>9, <1>0 DEF OriginAnswers, TaskState, breaker
  <2>2. \A s \in Tasks \ {t} : task'[s] = task[s]
    BY <1>9, <1>0 DEF OriginAnswers
  <2> QED BY <2>1, <2>2, OutsideBreaker DEF Fetching
<1>10. ASSUME NEW t \in Tasks, Deliver(t) \/ FetchFails(t) PROVE InsideBreakerWhileFetching'
  BY <1>10, SettleBreaker DEF Deliver, FetchFails, Fetching
<1>11. ASSUME NEW r \in Requests, NEW k \in Keys, AnswerNow(r, k)
       PROVE InsideBreakerWhileFetching'
  BY <1>11, <1>1 DEF AnswerNow, vars, breaker
<1>12. ASSUME NEW k \in Keys, OriginUpdate(k) \/ Age(k) PROVE InsideBreakerWhileFetching'
  BY <1>12, <1>1 DEF OriginUpdate, Age, breaker
<1>13. ASSUME NEW S, Purge(S) PROVE InsideBreakerWhileFetching'
  BY <1>13, <1>1 DEF Purge, breaker
<1>14. CASE BreakerTick
  BY <1>14, <1>1 DEF BreakerTick, CB!Tick
<1>15. CASE UNCHANGED vars
  BY <1>15, <1>1 DEF vars, breaker
<1> QED
  BY <1>2, <1>3, <1>4, <1>6, <1>7, <1>8, <1>9, <1>10, <1>11, <1>12, <1>13, <1>14, <1>15 DEF Next

(* Exactly the tasks at the origin are inside the breaker: every fetch     *)
(* enters it once and reports once, on every path of get_or_fetch and of a *)
(* revalidation.                                                           *)
THEOREM BreakerIsBalanced == Spec => []InsideBreakerWhileFetching
<1>1. Init => InsideBreakerWhileFetching
  BY IdleType DEF Init, CB!Init, InsideBreakerWhileFetching, Fetching
<1> QED BY <1>1, InitTypeInv, NextTypeInv, NextInsideBreaker, PTL DEF Spec

-----------------------------------------------------------------------------
(* The purge barrier alone is not inductive: what is stored next depends   *)
(* on the answers on their way, and those on the origin.                   *)
AnswersAreRecent ==
    \A t \in Tasks : task[t].pc = "responding" => task[t].ver >= barrier[task[t].key]

BarrierInv ==
    /\ \A k \in Keys : barrier[k] <= origin[k]
    /\ AnswersAreRecent
    /\ PurgeIsBarrier

(* A step that changes no content and puts no answer on its way. *)
LEMMA NoAnswerBarrier ==
  ASSUME BarrierInv, UNCHANGED <<store, origin, barrier>>,
         \A t \in Tasks : task'[t].pc = "responding" => task'[t] = task[t]
  PROVE  BarrierInv'
<1>1. AnswersAreRecent'
  BY DEF BarrierInv, AnswersAreRecent
<1> QED BY <1>1 DEF BarrierInv, PurgeIsBarrier

(* Starting a fetch puts no answer on its way; ending one removes one. *)
LEMMA FetchStepsAnswers ==
  ASSUME TypeInv, NEW t \in Tasks,
         \/ \E role, k, cached : BeginFetch(t, role, k, cached)
         \/ Settle(t)
         \/ task' = [task EXCEPT ![t] = Idle]
  PROVE  \A s \in Tasks : task'[s].pc = "responding" => task'[s] = task[s]
<1> SUFFICES ASSUME NEW s \in Tasks, task'[s].pc = "responding" PROVE task'[s] = task[s]
  OBVIOUS
<1>0. task \in [Tasks -> TaskState]
  BY DEF TypeInv, TypeOK
<1>1. ASSUME NEW role, NEW k, NEW cached, BeginFetch(t, role, k, cached) PROVE task'[s] = task[s]
  <2>1. task'[t].pc = "fetching"
    BY <1>0, <1>1 DEF BeginFetch, Idle
  <2> QED BY <1>0, <1>1, <2>1 DEF BeginFetch
<1>2. CASE Settle(t)
  <2>1. s # t
    BY <1>2, IdleType DEF Settle
  <2>2. CASE task[s].pc = "waiting" /\ task[s].leader = t
    <3>1. task'[s].pc = "woken"
      BY <1>0, <1>2, <2>1, <2>2 DEF Settle, TaskState
    <3> QED BY <3>1
  <2>3. CASE ~(task[s].pc = "waiting" /\ task[s].leader = t)
    BY <1>2, <2>1, <2>3 DEF Settle
  <2> QED BY <2>2, <2>3
<1>3. CASE task' = [task EXCEPT ![t] = Idle]
  BY <1>0, <1>3, IdleType
<1> QED BY <1>1, <1>2, <1>3

(* What a delivered answer stores is not older than the barrier. *)
LEMMA DeliverBarrier ==
  ASSUME TypeInv, BarrierInv, NEW t \in Tasks, Deliver(t)
  PROVE  BarrierInv'
<1>0. /\ task[t].key \in Keys
      /\ task[t].ver >= barrier[task[t].key]
      /\ store \in [Keys -> Entry \cup {Absent}]
  BY DEF Deliver, TypeInv, TypeOK, TaskShape, BarrierInv, AnswersAreRecent
<1>1. origin' = origin /\ barrier' = barrier
  BY DEF Deliver
<1>2. \A s \in Tasks : task'[s].pc = "responding" => task'[s] = task[s]
  BY FetchStepsAnswers DEF Deliver
<1>3. AnswersAreRecent'
  BY <1>1, <1>2 DEF BarrierInv, AnswersAreRecent
<1>4. ASSUME NEW k \in Keys, store'[k] # Absent PROVE store'[k].ver >= barrier[k]
  <2>1. CASE store'[k] = store[k]
    BY <1>4, <2>1 DEF BarrierInv, PurgeIsBarrier
  <2>2. CASE k = task[t].key /\ store'[k].ver = task[t].ver
    BY <1>0, <2>2
  <2>3. ASSUME NEW swr \in BOOLEAN, NEW dropped, Refresh(t, swr, dropped) \/ Store(t, swr, dropped)
        PROVE  store'[k] = store[k] \/ (k = task[t].key /\ store'[k].ver = task[t].ver)
    <3> DEFINE new == [ver |-> task[t].ver, phase |-> "fresh", swr |-> swr]
    <3>1. store' = [DropKeys(dropped) EXCEPT ![task[t].key] = new]
      BY <2>3 DEF Refresh, Store, StoreUnder, MayBe304
    <3>2. new.ver = task[t].ver
      OBVIOUS
    <3> HIDE DEF new
    <3>3. CASE k = task[t].key
      BY <3>1, <3>2, <3>3 DEF DropKeys
    <3>4. CASE k # task[t].key
      BY <1>4, <3>1, <3>4 DEF DropKeys
    <3> QED BY <3>3, <3>4
  <2>4. ASSUME NEW dropped, StoreElsewhere(dropped) PROVE store'[k] = store[k]
    BY <1>4, <2>4 DEF StoreElsewhere, DropKeys
  <2> QED BY <2>1, <2>2, <2>3, <2>4 DEF Deliver
<1> QED BY <1>1, <1>3, <1>4 DEF BarrierInv, PurgeIsBarrier

(* Every step preserves the barrier. *)
LEMMA NextBarrier == TypeInv /\ BarrierInv /\ [Next]_vars => BarrierInv'
<1> SUFFICES ASSUME TypeInv, BarrierInv, [Next]_vars PROVE BarrierInv'
  OBVIOUS
<1>0. task \in [Tasks -> TaskState]
  BY DEF TypeInv, TypeOK
<1>1. ASSUME NEW r \in Requests, NEW k \in Keys, Coalesce(r, k) PROVE BarrierInv'
  <2>1. task'[r].pc = "waiting" /\ \A s \in Tasks \ {r} : task'[s] = task[s]
    BY <1>1, <1>0 DEF Coalesce, Idle, Tasks
  <2> QED BY <1>1, <2>1, NoAnswerBarrier DEF Coalesce
<1>2. ASSUME NEW r \in Requests, NEW k \in Keys, Lead(r, k) PROVE BarrierInv'
  <2>1. r \in Tasks /\ BeginFetch(r, "leader", k, CachedVersion(k))
    BY <1>2 DEF Lead, Tasks
  <2>2. \A s \in Tasks : task'[s].pc = "responding" => task'[s] = task[s]
    BY <2>1, FetchStepsAnswers
  <2> QED BY <1>2, <2>2, NoAnswerBarrier DEF Lead
<1>3. ASSUME NEW r \in Requests, NEW k \in Keys, NEW v \in Revals, ServeStale(r, k, v)
      PROVE BarrierInv'
  <2>1. task'[v].pc = "scheduled" /\ \A s \in Tasks \ {v} : task'[s] = task[s]
    BY <1>3, <1>0 DEF ServeStale, Idle, Tasks
  <2> QED BY <1>3, <2>1, NoAnswerBarrier DEF ServeStale
<1>4. ASSUME NEW r \in Requests, WakeToEntry(r) \/ WakeRefused(r) PROVE BarrierInv'
  BY <1>4, FetchStepsAnswers, NoAnswerBarrier DEF WakeToEntry, WakeRefused, Tasks
<1>5. ASSUME NEW r \in Requests, WakeToFetch(r) PROVE BarrierInv'
  BY <1>5, FetchStepsAnswers, NoAnswerBarrier DEF WakeToFetch, Tasks
<1>6. ASSUME NEW v \in Revals, StartReval(v) PROVE BarrierInv'
  BY <1>6, FetchStepsAnswers, NoAnswerBarrier DEF StartReval, Tasks
<1>7. ASSUME NEW t \in Tasks, OriginAnswers(t) PROVE BarrierInv'
  <2>1. /\ task'[t].key = task[t].key /\ task'[t].ver = origin[task[t].key]
        /\ \A s \in Tasks \ {t} : task'[s] = task[s]
    BY <1>7, <1>0 DEF OriginAnswers, TaskState
  <2>2. task[t].key \in Keys
    BY <1>7 DEF OriginAnswers, TypeInv, TaskShape
  <2>3. store' = store /\ origin' = origin /\ barrier' = barrier
    BY <1>7 DEF OriginAnswers
  <2>4. origin[task[t].key] >= barrier[task[t].key]
    BY <2>2, ServiceConstants DEF BarrierInv, TypeInv, TypeOK, Versions
  <2>5. AnswersAreRecent'
    BY <2>1, <2>3, <2>4 DEF BarrierInv, AnswersAreRecent
  <2> QED BY <2>3, <2>5 DEF BarrierInv, PurgeIsBarrier
<1>8. ASSUME NEW t \in Tasks, Deliver(t) PROVE BarrierInv'
  BY <1>8, DeliverBarrier
<1>9. ASSUME NEW t \in Tasks, FetchFails(t) PROVE BarrierInv'
  BY <1>9, FetchStepsAnswers, NoAnswerBarrier DEF FetchFails
<1>10. ASSUME NEW k \in Keys, OriginUpdate(k) PROVE BarrierInv'
  <2>1. \A j \in Keys : barrier[j] <= origin'[j]
    BY <1>10, ServiceConstants DEF OriginUpdate, BarrierInv, TypeInv, TypeOK, Versions
  <2> QED BY <1>10, <2>1 DEF OriginUpdate, BarrierInv, AnswersAreRecent, PurgeIsBarrier
<1>11. ASSUME NEW k \in Keys, Age(k) PROVE BarrierInv'
  <2>1. \A j \in Keys : store'[j] # Absent => store[j] # Absent /\ store'[j].ver = store[j].ver
    BY <1>11 DEF Age, TypeInv, TypeOK, Entry
  <2> QED BY <1>11, <2>1 DEF Age, BarrierInv, AnswersAreRecent, PurgeIsBarrier
<1>12. ASSUME NEW S, Purge(S) PROVE BarrierInv'
  <2>1. \A k \in Keys : barrier'[k] <= origin'[k]
    BY <1>12, ServiceConstants DEF Purge, BarrierInv, TypeInv, TypeOK, Versions
  <2>2. AnswersAreRecent'
    <3> SUFFICES ASSUME NEW t \in Tasks, task[t].pc = "responding"
                 PROVE  task[t].ver >= barrier'[task[t].key]
      BY <1>12 DEF Purge, AnswersAreRecent
    <3>1. task[t].key \in Keys /\ AnswersOnTheWay(task[t].key)
      BY DEF TypeInv, TaskShape, AnswersOnTheWay
    <3>2. barrier'[task[t].key] = barrier[task[t].key]
      BY <1>12, <3>1 DEF Purge
    <3> QED BY <3>2 DEF BarrierInv, AnswersAreRecent
  <2>3. PurgeIsBarrier'
    <3> SUFFICES ASSUME NEW k \in Keys, store'[k] # Absent
                 PROVE  store'[k].ver >= barrier'[k]
      BY DEF PurgeIsBarrier
    <3>1. k \notin S /\ store'[k] = store[k] /\ barrier'[k] = barrier[k]
      BY <1>12 DEF Purge, Purged
    <3> QED BY <3>1 DEF BarrierInv, PurgeIsBarrier
  <2> QED BY <2>1, <2>2, <2>3 DEF BarrierInv
<1>13. CASE BreakerTick
  BY <1>13, NoAnswerBarrier DEF BreakerTick
<1>14. CASE UNCHANGED vars
  BY <1>14, NoAnswerBarrier DEF vars
<1>15. ASSUME NEW r \in Requests, NEW k \in Keys, AnswerNow(r, k) PROVE BarrierInv'
  BY <1>15, <1>14 DEF AnswerNow
<1> QED
  BY <1>1, <1>2, <1>3, <1>4, <1>5, <1>6, <1>7, <1>8, <1>9, <1>10, <1>11, <1>12, <1>13, <1>14,
     <1>15 DEF Next

(* A purge that finds no answer of the origin on its way holds for good:   *)
(* no fetch that was already running puts older content back.              *)
THEOREM PurgeHolds == Spec => []PurgeIsBarrier
<1>1. Init => BarrierInv
  BY IdleType DEF Init, BarrierInv, AnswersAreRecent, PurgeIsBarrier
<1>2. BarrierInv => PurgeIsBarrier
  BY DEF BarrierInv
<1> QED BY <1>1, <1>2, InitTypeInv, NextTypeInv, NextBarrier, PTL DEF Spec
=============================================================================
