------------------------------ MODULE EdgeApp ------------------------------
(***************************************************************************)
(* The edge process from its first request to its shutdown                 *)
(* (presentation/edge/app.py), with CacheService.shutdown and the retries  *)
(* of the origin client (infrastructure/http/origin_client.py; the shield  *)
(* client's fetch is the same code).                                       *)
(*                                                                         *)
(* The shutdown handler, the requests and the background revalidations are *)
(* tasks of one event loop: a step runs from one await that suspends to    *)
(* the next.  What a request does in the cache is CacheService's subject;  *)
(* here it ends at once, schedules a revalidation, or fetches.  The server *)
(* (external) may deliver requests until the handler has returned.         *)
(*                                                                         *)
(* A definition just before the one it resembles is a mutant of it.        *)
(***************************************************************************)
EXTENDS Integers, FiniteSets

CONSTANTS
    Files,      \* requests for content; each returns after it ended
    Healths,    \* requests for /health
    Revals,     \* bound: background revalidations at one time
    MaxRetries  \* max_retries: attempts of one fetch

ASSUME EdgeConstants ==
    /\ IsFiniteSet(Files) /\ IsFiniteSet(Healths)
    /\ MaxRetries \in Nat \ {0}
    /\ Files \cap Healths = {} /\ (Files \cup Healths) \cap Revals = {}

Requests == Files \cup Healths
Fetchers == Files \cup Revals

VARIABLES
    phase,              \* where the shutdown handler is
    active_requests,    \* _active_requests
    drain_event,        \* _drain_event.is_set()
    timed_out,          \* the drain ended by its timeout
    pc,                 \* pc[t]: the suspension point of task t
    attempt,            \* attempt[t]: loop variable of the client's fetch
    tasks               \* _revalidation_tasks

handler == <<phase, drain_event, timed_out>>
vars == <<phase, active_requests, drain_event, timed_out, pc, attempt, tasks>>

(* running: not called yet.  draining: in wait_for.  cancelling: in gather. *)
(* closing: in the client's aclose.  closed: returned.                      *)
Phases == {"running", "draining", "cancelling", "closing", "closed"}
shutting_down == phase # "running"
client_closed == phase \in {"closing", "closed"}

Init ==
    /\ phase = "running"
    /\ active_requests = 0
    /\ drain_event = TRUE
    /\ timed_out = FALSE
    /\ pc = [t \in Requests \cup Revals |-> "idle"]
    /\ attempt = [t \in Fetchers |-> 0]
    /\ tasks = {}

-----------------------------------------------------------------------------
(* graceful_shutdown_middleware.                                           *)

(* A request enters, unless it is refused with 503, which changes nothing. *)
EnterAnyway(r) ==
    /\ pc[r] = "idle" /\ phase # "closed"
    /\ active_requests' = active_requests + 1
    /\ pc' = [pc EXCEPT ![r] = "serving"]
    /\ UNCHANGED <<handler, attempt, tasks>>
Enter(r) ==
    /\ pc[r] = "idle" /\ phase # "closed"
    /\ shutting_down => r \in Healths
    /\ active_requests' = active_requests + 1
    /\ pc' = [pc EXCEPT ![r] = "serving"]
    /\ UNCHANGED <<handler, attempt, tasks>>

(* The finally block. *)
ForgetEvent ==
    /\ active_requests' = active_requests - 1
    /\ UNCHANGED drain_event
CountTwice ==
    /\ active_requests' = active_requests - (IF shutting_down THEN 2 ELSE 1)
    /\ drain_event' = (drain_event \/ (shutting_down /\ active_requests' = 0))
Leave ==
    /\ active_requests' = active_requests - 1
    /\ drain_event' = (drain_event \/ (shutting_down /\ active_requests' = 0))

(* The handler answered without going to the origin. *)
AnswerNow(r) ==
    /\ pc[r] = "serving"
    /\ pc' = [pc EXCEPT ![r] = "idle"]
    /\ Leave
    /\ UNCHANGED <<phase, timed_out, attempt, tasks>>

(* A stale hit: answered, and _schedule_background_revalidation made a     *)
(* task, which runs from the next turn of the loop.                        *)
ServeStale(r, v) ==
    /\ r \in Files /\ pc[r] = "serving"
    /\ pc[v] = "idle" /\ v \notin tasks
    /\ pc' = [pc EXCEPT ![r] = "idle", ![v] = "scheduled"]
    /\ tasks' = tasks \cup {v}
    /\ Leave
    /\ UNCHANGED <<phase, timed_out, attempt>>

-----------------------------------------------------------------------------
(* fetch of the origin client, for a request or a revalidation.            *)

(* The fetch is over: the request leaves, the revalidation's finally block *)
(* takes its task out of the registry.                                     *)
Return(t) ==
    /\ pc' = [pc EXCEPT ![t] = "idle"]
    /\ attempt' = [attempt EXCEPT ![t] = 0]
    /\ \/ t \in Files /\ Leave /\ UNCHANGED tasks
       \/ t \in Revals /\ tasks' = tasks \ {t} /\ UNCHANGED <<active_requests, drain_event>>
    /\ UNCHANGED <<phase, timed_out>>

(* The next turn of the retry loop: a closed client raises RuntimeError,   *)
(* which is not retried.                                                   *)
Ask(t) ==
    /\ pc[t] \in {"serving", "scheduled", "backoff"}
    /\ \/ /\ ~client_closed
          /\ pc' = [pc EXCEPT ![t] = "asking"]
          /\ UNCHANGED <<phase, active_requests, drain_event, timed_out, attempt, tasks>>
       \/ client_closed /\ Return(t)

(* Below 500: the answer. *)
Answered(t) == pc[t] = "asking" /\ Return(t)

(* 5xx, or a connection, network or timeout error, as after the client is  *)
(* closed: sleep before the next attempt, or give up after the last.       *)
NextAttempt(t) == attempt
CountAttempt(t) == [attempt EXCEPT ![t] = @ + 1]
Failed(t) ==
    /\ pc[t] = "asking"
    /\ \/ /\ attempt[t] < MaxRetries - 1
          /\ pc' = [pc EXCEPT ![t] = "backoff"]
          /\ attempt' = CountAttempt(t)
          /\ UNCHANGED <<handler, active_requests, tasks>>
       \/ attempt[t] = MaxRetries - 1 /\ Return(t)

-----------------------------------------------------------------------------
(* _on_shutdown.                                                           *)

(* CacheService.shutdown up to gather: every task of the registry is told  *)
(* to cancel.                                                              *)
CancelTasks ==
    /\ phase' = "cancelling"
    /\ pc' = [t \in DOMAIN pc |->
                IF t \notin tasks THEN pc[t]
                ELSE IF pc[t] = "scheduled" THEN "unstarted" ELSE "cancelled"]

(* The flag is set; without active requests there is nothing to drain. *)
BeginShutdown ==
    /\ phase = "running"
    /\ \/ /\ active_requests > 0
          /\ phase' = "draining"
          /\ drain_event' = FALSE
          /\ UNCHANGED pc
       \/ /\ active_requests = 0
          /\ CancelTasks
          /\ UNCHANGED drain_event
    /\ UNCHANGED <<active_requests, timed_out, attempt, tasks>>

(* wait_for returns with the event, or after its 30 seconds: then also if  *)
(* the event was set in the same turn of the loop.                         *)
Drained ==
    /\ phase = "draining" /\ drain_event
    /\ CancelTasks
    /\ UNCHANGED <<active_requests, drain_event, timed_out, attempt, tasks>>

WaitAgain ==
    /\ phase = "draining"
    /\ UNCHANGED vars
DrainTimesOut ==
    /\ phase = "draining"
    /\ timed_out' = TRUE
    /\ CancelTasks
    /\ UNCHANGED <<active_requests, drain_event, attempt, tasks>>

(* CancelledError reaches the task at its next turn.  A task that had not  *)
(* started ends without its finally block: it stays in the registry.       *)
Cancelled(v) ==
    /\ pc[v] \in {"cancelled", "unstarted"}
    /\ pc' = [pc EXCEPT ![v] = "idle"]
    /\ attempt' = [attempt EXCEPT ![v] = 0]
    /\ tasks' = IF pc[v] = "cancelled" THEN tasks \ {v} ELSE tasks
    /\ UNCHANGED <<handler, active_requests>>

(* gather returns when all the cancelled tasks ended; the registry is      *)
(* emptied and the client closed.                                          *)
Gathered ==
    /\ phase = "cancelling"
    /\ \A v \in Revals : pc[v] \notin {"cancelled", "unstarted"}
    /\ phase' = "closing"
    /\ tasks' = {}
    /\ UNCHANGED <<active_requests, drain_event, timed_out, pc, attempt>>

ShutDown ==
    /\ phase = "closing"
    /\ phase' = "closed"
    /\ UNCHANGED <<active_requests, drain_event, timed_out, pc, attempt, tasks>>

-----------------------------------------------------------------------------
Handler == Drained \/ DrainTimesOut \/ Gathered \/ ShutDown
Step(t) ==
    \/ t \in Requests /\ (AnswerNow(t) \/ \E v \in Revals : ServeStale(t, v))
    \/ t \in Fetchers /\ (Ask(t) \/ Answered(t) \/ Failed(t))
    \/ t \in Revals /\ Cancelled(t)

Next ==
    \/ \E r \in Requests : Enter(r)
    \/ \E t \in Requests \cup Revals : Step(t)
    \/ BeginShutdown
    \/ Handler

Spec == Init /\ [][Next]_vars

(* The loop runs ready tasks, attempts end by the client's timeout, and    *)
(* wait_for by its own.  Nobody has to send a request or stop the edge.    *)
FairSpec == Spec /\ WF_vars(Handler) /\ \A t \in Requests \cup Revals : WF_vars(Step(t))

-----------------------------------------------------------------------------
Inside == {r \in Requests : pc[r] # "idle"}

(* One type invariant; the counter is exactly the requests inside, so it   *)
(* can neither keep the drain waiting nor end it early.                    *)
TypeOK ==
    /\ phase \in Phases
    /\ drain_event \in BOOLEAN /\ timed_out \in BOOLEAN
    /\ pc \in [Requests \cup Revals ->
                 {"idle", "serving", "scheduled", "asking", "backoff", "cancelled", "unstarted"}]
    /\ attempt \in [Fetchers -> 0..(MaxRetries - 1)]
    /\ tasks \subseteq Revals
    /\ active_requests = Cardinality(Inside)

(* The drain event is not lost: when the last request left during the      *)
(* drain, the handler is woken and does not sit out its timeout.           *)
DrainNotLost == phase = "draining" /\ active_requests = 0 => drain_event

(* Unless the drain timed out, nothing that uses the client outlives it:   *)
(* no request is cut off in its fetch, no revalidation is left running or  *)
(* registered.                                                             *)
DrainedIsQuiet ==
    client_closed /\ ~timed_out =>
        tasks = {} /\ \A t \in Fetchers : pc[t] = "idle"

(* The edge stops, whatever its requests and the origin do. *)
ShutdownEnds == shutting_down ~> phase = "closed"

(* Every task ends: retries are bounded, also over a closed client. *)
TasksEnd == \A t \in Requests \cup Revals : pc[t] # "idle" ~> pc[t] = "idle"
=============================================================================
