----------------------------- MODULE EdgeProofs -----------------------------
(***************************************************************************)
(* The edge: the drain of the process (EdgeApp), for any number of         *)
(* requests, revalidations and attempts, and one request through it        *)
(* (EdgeRequest), for any header, file, range and lifetime.                *)
(***************************************************************************)
EXTENDS EdgeApp, EdgeRequest, KeyOrderProofs

-----------------------------------------------------------------------------
(* The inductive invariant, in three parts: the types, sharper than TypeOK *)
(* about the kind of a task; the event; and what may still run in each     *)
(* phase.                                                                  *)

PcOK ==
    /\ pc \in [Requests \cup Revals ->
                 {"idle", "serving", "scheduled", "asking", "backoff", "cancelled", "unstarted"}]
    /\ \A f \in Files : pc[f] \in {"idle", "serving", "asking", "backoff"}
    /\ \A h \in Healths : pc[h] \in {"idle", "serving"}
    /\ \A v \in Revals : pc[v] # "serving"

StateOK ==
    /\ phase \in Phases
    /\ drain_event \in BOOLEAN /\ timed_out \in BOOLEAN
    /\ attempt \in [Fetchers -> 0..(MaxRetries - 1)]
    /\ tasks \subseteq Revals

Counted == active_requests = Cardinality(Inside)

(* Once the event is set in the drain, and in every later phase that was   *)
(* not reached by the timeout, no request for content is inside.           *)
FilesGone ==
    (phase = "draining" /\ drain_event) \/ (phase \notin {"running", "draining"} /\ ~timed_out)
        => \A f \in Files : pc[f] = "idle"

(* Until they are cancelled the revalidations under way are those in the   *)
(* registry; after an orderly drain only cancelled ones are left, and none *)
(* once they are gathered.                                                 *)
RevalsKnown ==
    /\ phase \in {"running", "draining"} =>
         \A v \in Revals : /\ v \in tasks <=> pc[v] # "idle"
                           /\ pc[v] \notin {"cancelled", "unstarted"}
    /\ phase = "cancelling" /\ ~timed_out =>
         \A v \in Revals : pc[v] \in {"idle", "cancelled", "unstarted"}
    /\ client_closed /\ ~timed_out => tasks = {} /\ \A v \in Revals : pc[v] = "idle"

DrainInv == PcOK /\ StateOK /\ Counted /\ DrainNotLost /\ FilesGone /\ RevalsKnown

-----------------------------------------------------------------------------
(* The counter.                                                            *)

(* The requests inside can be counted, and the count is zero exactly when  *)
(* there are none.                                                         *)
LEMMA InsideFinite ==
  /\ IsFiniteSet(Inside)
  /\ Cardinality(Inside) \in Nat
  /\ Cardinality(Inside) = 0 <=> Inside = {}
<1>1. IsFiniteSet(Requests)
  BY EdgeConstants, FS_Union DEF Requests
<1>2. Inside \subseteq Requests
  BY DEF Inside
<1>3. IsFiniteSet(Inside)
  BY <1>1, <1>2, FS_Subset
<1> QED BY <1>3, FS_CardinalityType, FS_EmptySet

(* A request that enters is counted. *)
LEMMA EnterCounted ==
  ASSUME PcOK, Counted, NEW r \in Requests, Enter(r)
  PROVE  Counted'
<1>1. Inside' = Inside \cup {r} /\ r \notin Inside
  BY DEF Enter, Inside, PcOK
<1>2. Cardinality(Inside') = Cardinality(Inside) + 1
  BY <1>1, InsideFinite, FS_AddElement
<1> QED BY <1>2 DEF Counted, Enter

(* A request that leaves is counted off, and sees zero exactly when it was *)
(* the last.                                                               *)
LEMMA LeaveCounted ==
  ASSUME Counted, NEW r \in Inside, Inside' = Inside \ {r},
         active_requests' = active_requests - 1
  PROVE  Counted' /\ (active_requests' = 0 <=> Inside' = {})
<1>1. IsFiniteSet(Inside \ {r}) /\ Cardinality(Inside \ {r}) = Cardinality(Inside) - 1
  BY InsideFinite, FS_RemoveElement
<1>2. Cardinality(Inside \ {r}) = 0 <=> Inside \ {r} = {}
  BY <1>1, FS_EmptySet
<1> QED BY <1>1, <1>2 DEF Counted

(* Where nobody's pc moves in or out of idle among the requests, the count *)
(* stands.                                                                 *)
LEMMA SameInside ==
  ASSUME Counted, UNCHANGED active_requests,
         \A r \in Requests : pc'[r] = "idle" <=> pc[r] = "idle"
  PROVE  Counted'
<1>1. Inside' = Inside
  BY DEF Inside
<1> QED BY <1>1 DEF Counted

-----------------------------------------------------------------------------
(* One lemma for every action: it preserves the invariant.                 *)

(* The process starts with nothing inside and nothing scheduled. *)
LEMMA InitDrainInv == Init => DrainInv
<1> SUFFICES ASSUME Init PROVE DrainInv
  OBVIOUS
<1>1. Inside = {}
  BY DEF Init, Inside
<1>2. Counted
  BY <1>1, InsideFinite DEF Init, Counted
<1>3. PcOK /\ FilesGone /\ RevalsKnown
  BY DEF Init, PcOK, FilesGone, RevalsKnown, client_closed, Requests
<1>4. StateOK /\ DrainNotLost
  <2>1. attempt \in [Fetchers -> 0..(MaxRetries - 1)]
    BY EdgeConstants DEF Init
  <2>2. drain_event \in BOOLEAN /\ timed_out \in BOOLEAN
    BY DEF Init
  <2> QED BY <2>1, <2>2 DEF Init, StateOK, DrainNotLost, Phases
<1> QED BY <1>2, <1>3, <1>4 DEF DrainInv

(* The middleware lets a request in. *)
LEMMA EnterDrainInv ==
  ASSUME DrainInv, NEW r \in Requests, Enter(r)
  PROVE  DrainInv'
<1> USE DEF DrainInv
<1>1. PcOK'
  BY EdgeConstants DEF Enter, PcOK, Requests
<1>2. StateOK'
  BY DEF Enter, handler, StateOK
<1>3. Counted'
  BY EnterCounted
<1>4. DrainNotLost'
  BY InsideFinite DEF Enter, handler, Counted, DrainNotLost
<1>5. FilesGone'
  BY EdgeConstants DEF Enter, handler, FilesGone, PcOK, Requests, shutting_down
<1>6. RevalsKnown'
  BY EdgeConstants DEF Enter, handler, RevalsKnown, PcOK, Requests, client_closed
<1> QED BY <1>1, <1>2, <1>3, <1>4, <1>5, <1>6

(* What the finally block of the middleware owes the drain: a request that *)
(* leaves keeps the count and the event right, and when it sets the event  *)
(* nobody is inside.                                                       *)
LEMMA LeaveKeepsDrain ==
  ASSUME DrainInv, NEW r \in Requests, pc[r] # "idle", pc'[r] = "idle",
         \A q \in Requests \ {r} : pc'[q] = pc[q],
         Leave, UNCHANGED <<phase, timed_out>>
  PROVE  Counted' /\ DrainNotLost' /\ FilesGone' /\ drain_event' \in BOOLEAN
<1> USE DEF DrainInv
<1>1. r \in Inside /\ Inside' = Inside \ {r}
  BY DEF Inside
<1>2. Counted' /\ (active_requests' = 0 <=> Inside' = {})
  BY <1>1, LeaveCounted DEF Leave
<1>3. drain_event' \in BOOLEAN
  BY DEF Leave, StateOK
<1>4. DrainNotLost'
  BY DEF Leave, DrainNotLost, shutting_down
<1>5. FilesGone'
  <2>1. SUFFICES ASSUME (phase' = "draining" /\ drain_event')
                           \/ (phase' \notin {"running", "draining"} /\ ~timed_out'),
                        NEW f \in Files
                 PROVE  pc'[f] = "idle"
    BY DEF FilesGone
  <2>2. f \in Requests
    BY DEF Requests
  <2>3. CASE active_requests' = 0
    BY <1>2, <2>2, <2>3 DEF Inside
  <2>4. CASE active_requests' # 0
    <3>1. (phase = "draining" /\ drain_event)
             \/ (phase \notin {"running", "draining"} /\ ~timed_out)
      BY <2>1, <2>4 DEF Leave
    <3>2. pc[f] = "idle"
      BY <3>1 DEF FilesGone
    <3> QED BY <3>2, <2>2
  <2> QED BY <2>3, <2>4
<1> QED BY <1>2, <1>3, <1>4, <1>5

(* A request is answered without a fetch. *)
LEMMA AnswerNowDrainInv ==
  ASSUME DrainInv, NEW r \in Requests, AnswerNow(r)
  PROVE  DrainInv'
<1> USE DEF DrainInv
<1>1. PcOK'
  BY EdgeConstants DEF AnswerNow, PcOK, Requests
<1>2. Counted' /\ DrainNotLost' /\ FilesGone' /\ drain_event' \in BOOLEAN
  BY LeaveKeepsDrain DEF AnswerNow, PcOK
<1>3. StateOK'
  BY <1>2 DEF AnswerNow, StateOK
<1>4. RevalsKnown'
  BY EdgeConstants DEF AnswerNow, RevalsKnown, PcOK, Requests, client_closed
<1> QED BY <1>1, <1>2, <1>3, <1>4

(* A request is answered stale and leaves a revalidation behind. *)
LEMMA ServeStaleDrainInv ==
  ASSUME DrainInv, NEW r \in Requests, NEW v \in Revals, ServeStale(r, v)
  PROVE  DrainInv'
<1> USE DEF DrainInv
<1>0. /\ r # v /\ v \notin Requests
      /\ pc' = [pc EXCEPT ![r] = "idle", ![v] = "scheduled"]
  BY EdgeConstants DEF ServeStale, Requests
<1>1. PcOK'
  BY <1>0, EdgeConstants DEF PcOK, Requests
<1>2. Counted' /\ DrainNotLost' /\ FilesGone' /\ drain_event' \in BOOLEAN
  BY <1>0, LeaveKeepsDrain DEF ServeStale, PcOK
<1>3. StateOK'
  BY <1>2 DEF ServeStale, StateOK
<1>4. RevalsKnown'
  <2>1. phase' \in {"running", "draining"} \/ timed_out'
    BY DEF ServeStale, FilesGone
  <2> QED BY <1>0, <2>1, EdgeConstants
          DEF ServeStale, RevalsKnown, PcOK, Requests, client_closed
<1> QED BY <1>1, <1>2, <1>3, <1>4

(* A fetch ends. *)
LEMMA ReturnDrainInv ==
  ASSUME DrainInv, NEW t \in Fetchers, Return(t),
         pc[t] \in {"serving", "scheduled", "asking", "backoff"}
  PROVE  DrainInv'
<1> USE DEF DrainInv
<1>1. PcOK'
  BY EdgeConstants DEF Return, PcOK, Requests, Fetchers
<1>2. CASE t \in Files
  <2>1. t \notin Revals /\ t \in Requests
    BY <1>2, EdgeConstants DEF Requests
  <2>2. Leave /\ UNCHANGED <<phase, timed_out, tasks>>
    BY <2>1 DEF Return
  <2>3. Counted' /\ DrainNotLost' /\ FilesGone' /\ drain_event' \in BOOLEAN
    BY <2>1, <2>2, LeaveKeepsDrain DEF Return, PcOK
  <2>4. StateOK'
    BY <2>2, <2>3, EdgeConstants DEF Return, StateOK, Fetchers
  <2>5. RevalsKnown'
    BY <2>1, <2>2 DEF Return, RevalsKnown, PcOK, client_closed
  <2> QED BY <1>1, <2>3, <2>4, <2>5
<1>3. CASE t \in Revals
  <2>1. t \notin Requests
    BY <1>3, EdgeConstants DEF Requests
  <2>2. tasks' = tasks \ {t} /\ UNCHANGED <<phase, timed_out, active_requests, drain_event>>
    BY <2>1 DEF Return, Requests
  <2>3. \A q \in Requests : pc'[q] = pc[q]
    BY <2>1 DEF Return, PcOK
  <2>4. Counted'
    BY <2>2, <2>3, SameInside
  <2>5. DrainNotLost' /\ FilesGone'
    BY <2>2, <2>3 DEF DrainNotLost, FilesGone, Requests
  <2>6. StateOK'
    BY <2>2, EdgeConstants DEF Return, StateOK, Fetchers
  <2>7. RevalsKnown'
    BY <2>2 DEF Return, RevalsKnown, PcOK, client_closed
  <2> QED BY <1>1, <2>4, <2>5, <2>6, <2>7
<1> QED BY <1>2, <1>3 DEF Fetchers

(* A fetch sends its request or waits before the next: the task stays      *)
(* under way.                                                              *)
LEMMA UnderWayDrainInv ==
  ASSUME DrainInv, NEW t \in Fetchers, NEW p \in {"asking", "backoff"},
         pc[t] \in {"serving", "scheduled", "asking", "backoff"},
         pc' = [pc EXCEPT ![t] = p],
         attempt' \in [Fetchers -> 0..(MaxRetries - 1)],
         UNCHANGED <<phase, active_requests, drain_event, timed_out, tasks>>
  PROVE  DrainInv'
<1> USE DEF DrainInv
<1>1. PcOK'
  BY EdgeConstants DEF PcOK, Requests, Fetchers
<1>2. StateOK'
  BY DEF StateOK
<1>3. Counted'
  <2>1. \A q \in Requests : pc'[q] = "idle" <=> pc[q] = "idle"
    BY DEF PcOK
  <2> QED BY <2>1, SameInside
<1>4. DrainNotLost'
  BY DEF DrainNotLost
<1>5. FilesGone'
  BY DEF FilesGone, PcOK, Requests
<1>6. RevalsKnown'
  BY DEF RevalsKnown, PcOK, client_closed
<1> QED BY <1>1, <1>2, <1>3, <1>4, <1>5, <1>6

(* The fetch's three steps. *)
LEMMA FetchDrainInv ==
  ASSUME DrainInv, NEW t \in Fetchers, Ask(t) \/ Answered(t) \/ Failed(t)
  PROVE  DrainInv'
<1>0. attempt \in [Fetchers -> 0..(MaxRetries - 1)]
  BY DEF DrainInv, StateOK
<1>1. CASE Ask(t)
  <2>1. CASE ~client_closed
    BY <1>0, <1>1, <2>1, UnderWayDrainInv DEF Ask
  <2>2. CASE client_closed
    BY <1>1, <2>2, ReturnDrainInv DEF Ask
  <2> QED BY <2>1, <2>2
<1>2. CASE Answered(t)
  BY <1>2, ReturnDrainInv DEF Answered
<1>3. CASE Failed(t)
  <2>1. CASE attempt[t] < MaxRetries - 1 /\ attempt' = CountAttempt(t)
             /\ pc' = [pc EXCEPT ![t] = "backoff"]
             /\ UNCHANGED <<handler, active_requests, tasks>>
    <3>1. attempt' \in [Fetchers -> 0..(MaxRetries - 1)]
      BY <1>0, <2>1, EdgeConstants DEF CountAttempt
    <3>2. UNCHANGED <<phase, active_requests, drain_event, timed_out, tasks>>
      BY <2>1 DEF handler
    <3> QED BY <1>3, <2>1, <3>1, <3>2, UnderWayDrainInv DEF Failed
  <2>2. CASE Return(t)
    BY <1>3, <2>2, ReturnDrainInv DEF Failed
  <2> QED BY <1>3, <2>1, <2>2 DEF Failed
<1> QED BY <1>1, <1>2, <1>3

(* The registry is told to cancel, with no request for content inside or   *)
(* after the timeout.                                                      *)
LEMMA CancelDrainInv ==
  ASSUME DrainInv, CancelTasks, phase \in {"running", "draining"},
         timed_out' \in BOOLEAN, ~timed_out' => \A f \in Files : pc[f] = "idle",
         UNCHANGED <<active_requests, drain_event, attempt, tasks>>
  PROVE  DrainInv'
<1> USE DEF DrainInv
<1>0. \A q \in Requests : pc'[q] = pc[q]
  BY EdgeConstants DEF CancelTasks, StateOK, PcOK, Requests
<1>1. PcOK'
  BY EdgeConstants DEF CancelTasks, PcOK, StateOK, Requests
<1>2. StateOK'
  BY DEF CancelTasks, StateOK, Phases
<1>3. Counted'
  BY <1>0, SameInside
<1>4. DrainNotLost'
  BY DEF CancelTasks, DrainNotLost
<1>5. FilesGone'
  BY <1>0 DEF CancelTasks, FilesGone, Requests
<1>6. RevalsKnown'
  BY DEF CancelTasks, RevalsKnown, PcOK, client_closed
<1> QED BY <1>1, <1>2, <1>3, <1>4, <1>5, <1>6

(* The shutdown handler is called. *)
LEMMA BeginShutdownDrainInv ==
  ASSUME DrainInv, BeginShutdown
  PROVE  DrainInv'
<1> USE DEF DrainInv
<1>1. CASE active_requests > 0
  <2>1. phase' = "draining" /\ drain_event' = FALSE
        /\ UNCHANGED <<pc, active_requests, timed_out, attempt, tasks>>
    BY <1>1, InsideFinite DEF BeginShutdown, Counted
  <2>2. PcOK' /\ StateOK'
    BY <2>1 DEF PcOK, StateOK, Phases
  <2>3. Counted'
    BY <2>1, SameInside
  <2>4. DrainNotLost' /\ FilesGone'
    BY <1>1, <2>1 DEF DrainNotLost, FilesGone
  <2>5. RevalsKnown'
    BY <2>1 DEF RevalsKnown, client_closed, BeginShutdown
  <2> QED BY <2>2, <2>3, <2>4, <2>5
<1>2. CASE active_requests = 0
  <2>1. \A f \in Files : pc[f] = "idle"
    BY <1>2, InsideFinite DEF Counted, Inside, Requests
  <2> QED BY <1>2, <2>1, CancelDrainInv DEF BeginShutdown, StateOK
<1> QED BY <1>1, <1>2, InsideFinite DEF Counted, BeginShutdown

(* The handler after the drain. *)
LEMMA HandlerDrainInv ==
  ASSUME DrainInv, Handler
  PROVE  DrainInv'
<1> USE DEF DrainInv
<1>1. CASE Drained
  <2>1. \A f \in Files : pc[f] = "idle"
    BY <1>1 DEF Drained, FilesGone
  <2> QED BY <1>1, <2>1, CancelDrainInv DEF Drained, StateOK
<1>2. CASE DrainTimesOut
  BY <1>2, CancelDrainInv DEF DrainTimesOut
<1>3. CASE Gathered
  <2>1. PcOK' /\ StateOK' /\ DrainNotLost'
    BY <1>3 DEF Gathered, PcOK, StateOK, DrainNotLost, Phases
  <2>2. Counted'
    BY <1>3, SameInside DEF Gathered
  <2>3. FilesGone'
    BY <1>3 DEF Gathered, FilesGone
  <2>4. RevalsKnown'
    BY <1>3 DEF Gathered, RevalsKnown, client_closed
  <2> QED BY <2>1, <2>2, <2>3, <2>4
<1>4. CASE ShutDown
  <2>1. PcOK' /\ StateOK' /\ DrainNotLost'
    BY <1>4 DEF ShutDown, PcOK, StateOK, DrainNotLost, Phases
  <2>2. Counted'
    BY <1>4, SameInside DEF ShutDown
  <2>3. FilesGone'
    BY <1>4 DEF ShutDown, FilesGone
  <2>4. RevalsKnown'
    BY <1>4 DEF ShutDown, RevalsKnown, client_closed
  <2> QED BY <2>1, <2>2, <2>3, <2>4
<1> QED BY <1>1, <1>2, <1>3, <1>4 DEF Handler

(* A cancelled revalidation ends. *)
LEMMA CancelledDrainInv ==
  ASSUME DrainInv, NEW v \in Revals, Cancelled(v)
  PROVE  DrainInv'
<1> USE DEF DrainInv
<1>1. v \notin Requests /\ v \in Fetchers
  BY EdgeConstants DEF Requests, Fetchers
<1>2. \A q \in Requests : pc'[q] = pc[q]
  BY <1>1 DEF Cancelled, PcOK
<1>3. PcOK'
  BY <1>1, EdgeConstants DEF Cancelled, PcOK, Requests
<1>4. StateOK'
  BY <1>1, EdgeConstants DEF Cancelled, handler, StateOK
<1>5. Counted'
  BY <1>2, SameInside DEF Cancelled
<1>6. DrainNotLost' /\ FilesGone'
  BY <1>2 DEF Cancelled, handler, DrainNotLost, FilesGone, Requests
<1>7. RevalsKnown'
  BY DEF Cancelled, handler, RevalsKnown, PcOK, client_closed
<1> QED BY <1>3, <1>4, <1>5, <1>6, <1>7

(* Every step preserves the invariant. *)
LEMMA NextDrainInv == DrainInv /\ [Next]_vars => DrainInv'
<1> SUFFICES ASSUME DrainInv, [Next]_vars PROVE DrainInv'
  OBVIOUS
<1>1. ASSUME NEW r \in Requests, Enter(r) PROVE DrainInv'
  BY <1>1, EnterDrainInv
<1>2. ASSUME NEW t \in Requests \cup Revals, Step(t) PROVE DrainInv'
  BY <1>2, AnswerNowDrainInv, ServeStaleDrainInv, FetchDrainInv, CancelledDrainInv DEF Step
<1>3. CASE BeginShutdown
  BY <1>3, BeginShutdownDrainInv
<1>4. CASE Handler
  BY <1>4, HandlerDrainInv
<1>5. CASE UNCHANGED vars
  <2>1. PcOK' /\ StateOK' /\ DrainNotLost' /\ FilesGone'
    BY <1>5 DEF vars, DrainInv, PcOK, StateOK, DrainNotLost, FilesGone
  <2>2. Counted'
    BY <1>5, SameInside DEF vars, DrainInv
  <2>3. RevalsKnown'
    BY <1>5 DEF vars, DrainInv, RevalsKnown, client_closed
  <2> QED BY <2>1, <2>2, <2>3 DEF DrainInv
<1> QED BY <1>1, <1>2, <1>3, <1>4, <1>5 DEF Next

-----------------------------------------------------------------------------
(* The invariant holds in every reachable state. *)
THEOREM DrainCorrect == Spec => []DrainInv
  BY InitDrainInv, NextDrainInv, PTL DEF Spec

(* Every variable keeps its type, and _active_requests is at all times the *)
(* number of requests between the middleware's try and its finally.        *)
THEOREM EdgeTypeCorrect == Spec => []TypeOK
<1>1. DrainInv => TypeOK
  BY DEF DrainInv, PcOK, StateOK, Counted, TypeOK
<1> QED BY <1>1, DrainCorrect, PTL

(* _drain_event is set whenever the handler waits and nobody is inside.    *)
THEOREM DrainWakes == Spec => []DrainNotLost
<1>1. DrainInv => DrainNotLost
  BY DEF DrainInv
<1> QED BY <1>1, DrainCorrect, PTL

(* The client is closed under no fetch, unless the drain timed out.        *)
THEOREM NothingOutlivesTheClient == Spec => []DrainedIsQuiet
<1>1. DrainInv => DrainedIsQuiet
  BY DEF DrainInv, FilesGone, RevalsKnown, DrainedIsQuiet, client_closed, Fetchers
<1> QED BY <1>1, DrainCorrect, PTL

-----------------------------------------------------------------------------
(* One request through the edge.                                           *)

(* What the first n tokens of header h say about directive d. *)
Valid(h, n, d) == {i \in 1..n : h[i].key = d /\ h[i].value # None}
Says(ds, h, n) ==
    /\ DOMAIN ds = Numeric \cup Flags
    /\ \A d \in Flags : ds[d] = \E i \in 1..n : h[i].key = d
    /\ \A d \in Numeric :
         \/ Valid(h, n, d) = {} /\ ds[d] = None
         \/ \E m \in Valid(h, n, d) : (\A i \in Valid(h, n, d) : i <= m) /\ ds[d] = h[m].value

(* The parser has read n tokens, and holds what they say. *)
ReadUpTo(n, h) ==
    /\ unread \in Seq(Token)
    /\ Len(unread) = Len(h) - n
    /\ \A i \in 1..Len(unread) : unread[i] = h[n + i]
    /\ Says(directives, h, n)

(* The case is one of the inputs. *)
CaseOK == input \in Inputs

(* At every turn of its loop the parser is somewhere in the header of the  *)
(* answer it reads, which is in full or "not modified".                    *)
ParserOK ==
    /\ CaseOK
    /\ reply # None =>
         /\ reply \in {FullReply, NotModified}
         /\ \E n \in 0..Len(reply.header) : ReadUpTo(n, reply.header)

(* Every header the upstream may send is a list of tokens. *)
LEMMA Header ==
  ASSUME CaseOK, NEW h \in {input.header, input.header304}
  PROVE  h \in Seq(Token) /\ Len(h) \in Nat
  BY InputsOK, LenProperties DEF CaseOK

LEMMA ReplyHeader ==
  ASSUME NEW r \in {FullReply, NotModified}
  PROVE  r.header \in {input.header, input.header304}
  BY DEF FullReply, NotModified

(* Reading one more token. *)
LEMMA OneMoreToken ==
  ASSUME NEW h \in Seq(Token), NEW n \in Nat, n + 1 \in 1..Len(h), NEW ds, Says(ds, h, n)
  PROVE  Says(ReadToken(ds, h[n + 1]), h, n + 1)
<1>0. PICK t, es : t = h[n + 1] /\ es = ReadToken(ds, t)
  OBVIOUS
<1>1. \A i \in 1..(n + 1) : i \in 1..n \/ i = n + 1
  OBVIOUS
<1>2. 1..n \subseteq 1..(n + 1) /\ n + 1 \in 1..(n + 1) /\ \A i \in 1..n : i <= n + 1
  OBVIOUS
<1>3. Numeric \cap Flags = {}
  BY DEF Numeric, Flags
<1>4. DOMAIN es = Numeric \cup Flags
  BY <1>0 DEF Says, ReadToken
<1>5. ASSUME NEW d \in Flags PROVE es[d] = \E i \in 1..(n + 1) : h[i].key = d
  <2>1. es[d] = (ds[d] \/ t.key = d)
    <3>1. CASE t.key = d
      BY <1>0, <3>1 DEF Says, ReadToken
    <3>2. CASE t.key # d
      <4>1. es[d] = ds[d]
        BY <1>0, <1>3, <3>2 DEF Says, ReadToken
      <4> QED BY <3>2, <4>1 DEF Says
    <3> QED BY <3>1, <3>2
  <2>2. ds[d] = \E i \in 1..n : h[i].key = d
    BY DEF Says
  <2>3. (\E i \in 1..(n + 1) : h[i].key = d) <=> (\E i \in 1..n : h[i].key = d) \/ h[n + 1].key = d
    BY <1>1, <1>2
  <2>4. es[d] \in BOOLEAN /\ ds[d] \in BOOLEAN
    BY <2>1, <2>2
  <2> QED BY <1>0, <2>1, <2>2, <2>3
<1>6. ASSUME NEW d \in Numeric
      PROVE  \/ Valid(h, n + 1, d) = {} /\ es[d] = None
             \/ \E m \in Valid(h, n + 1, d) :
                  (\A i \in Valid(h, n + 1, d) : i <= m) /\ es[d] = h[m].value
  <2>1. CASE t.key = d /\ t.value # None
    <3>1. es[d] = t.value
      BY <1>0, <1>3, <2>1 DEF Says, ReadToken
    <3>2. n + 1 \in Valid(h, n + 1, d)
      BY <1>0, <1>2, <2>1 DEF Valid
    <3>3. \A i \in Valid(h, n + 1, d) : i <= n + 1
      BY DEF Valid
    <3> QED BY <1>0, <3>1, <3>2, <3>3
  <2>2. CASE ~ (t.key = d /\ t.value # None)
    <3>1. es[d] = ds[d]
      BY <1>0, <1>3, <2>2 DEF Says, ReadToken
    <3>2. Valid(h, n + 1, d) = Valid(h, n, d)
      BY <1>0, <1>1, <1>2, <2>2 DEF Valid
    <3> QED BY <3>1, <3>2 DEF Says
  <2> QED BY <2>1, <2>2
<1>7. Says(es, h, n + 1)
  BY <1>4, <1>5, <1>6 DEF Says
<1> QED BY <1>0, <1>7

(* No parser runs initially. *)
LEMMA ParserInit == RequestInit => ParserOK
  BY DEF RequestInit, ParserOK, CaseOK

(* A fetch starts the parser at the first token, a turn of its loop moves  *)
(* it on by one, and nothing else touches it.                              *)
LEMMA ParserStep == ParserOK /\ [RequestNext]_requestVars => ParserOK'
<1> SUFFICES ASSUME ParserOK, [RequestNext]_requestVars PROVE ParserOK'
  OBVIOUS
<1>0. CaseOK /\ CaseOK' /\ input' = input
  BY DEF CaseOK, ParserOK, RequestNext, requestVars, Hit, HitStale,
         CircuitOpen, Fetch, RangeError, Parse, StoreAndAnswer,
         Tick
<1>1. FullReply' = FullReply /\ NotModified' = NotModified
  BY <1>0 DEF FullReply, NotModified, Status, Content, LengthOf, Fields, NoFields
<1>2. ASSUME NEW r, r \in {FullReply, NotModified}
      PROVE  r.header \in Seq(Token) /\ Len(r.header) \in Nat
  BY <1>0, <1>2, ReplyHeader, Header
<1>3. CASE BeginFetch
  <2>1. PICK h : h = reply'.header
    OBVIOUS
  <2>2. /\ reply' \in {FullReply, NotModified}
        /\ unread' = h /\ directives' = NoDirectives
    BY <1>3, <2>1 DEF BeginFetch, Replies
  <2>3. Says(NoDirectives, h, 0)
    <3>1. 1..0 = {}
      OBVIOUS
    <3> QED BY <3>1 DEF Says, Valid, NoDirectives, Numeric, Flags
  <2>4. h \in Seq(Token) /\ Len(h) \in Nat
    BY <1>2, <2>1, <2>2
  <2>5. ReadUpTo(0, h)'
    BY <2>2, <2>3, <2>4 DEF ReadUpTo
  <2>6. 0 \in 0..Len(h)
    BY <2>4
  <2> QED BY <1>0, <1>1, <2>1, <2>2, <2>5, <2>6 DEF ParserOK
<1>4. CASE Parse
  <2>0. PICK h : h = reply.header
    OBVIOUS
  <2>1. PICK n \in 0..Len(h) : ReadUpTo(n, h)
    BY <1>4, <2>0 DEF ParserOK, Parse
  <2> reply \in {FullReply, NotModified} /\ h \in Seq(Token) /\ Len(h) \in Nat
    BY <1>2, <1>4, <2>0 DEF ParserOK, Parse
  <2>2. unread \in Seq(Token) /\ unread # <<>>
    BY <2>1, <1>4 DEF ReadUpTo, Parse
  <2>3. /\ Head(unread) = unread[1] /\ Tail(unread) \in Seq(Token)
        /\ Len(Tail(unread)) = Len(unread) - 1 /\ Len(unread) \in Nat \ {0}
        /\ \A i \in 1..Len(Tail(unread)) : Tail(unread)[i] = unread[i + 1]
    BY <2>2, HeadTailProperties, LenProperties, EmptySeq
  <2>4. PICK m : m = n + 1
    OBVIOUS
  <2>5. m \in 1..Len(h) /\ n \in Nat /\ m \in 0..Len(h)
    BY <2>1, <2>3, <2>4 DEF ReadUpTo
  <2>6. Head(unread) = h[m]
    BY <2>1, <2>3, <2>4 DEF ReadUpTo
  <2>7. Says(directives', h, m)
    BY <1>4, <2>1, <2>4, <2>5, <2>6, OneMoreToken DEF Parse, ReadUpTo
  <2>8. PICK u, l : u = Tail(unread) /\ l = Len(unread)
    OBVIOUS
  <2>9. \A i \in 1..(l - 1) : u[i] = h[m + i]
    <3>1. ASSUME NEW i \in 1..(l - 1) PROVE u[i] = h[m + i]
      <4>1. i + 1 \in 1..l /\ n + (i + 1) = m + i /\ i \in 1..Len(u)
        BY <2>3, <2>4, <2>5, <2>8
      <4>2. i + 1 \in 1..Len(unread)
        BY <2>8, <4>1
      <4>3. unread[i + 1] = h[n + (i + 1)]
        BY <2>1, <4>2 DEF ReadUpTo
      <4>4. u[i] = unread[i + 1]
        BY <2>3, <2>8, <4>1
      <4> QED BY <4>1, <4>3, <4>4
    <3> QED BY <3>1
  <2>10. l - 1 = Len(h) - m
    BY <2>1, <2>3, <2>4, <2>5, <2>8 DEF ReadUpTo
  <2>11. ReadUpTo(m, h)'
    BY <1>4, <2>3, <2>7, <2>8, <2>9, <2>10 DEF ReadUpTo, Parse
  <2>12. reply' = reply
    BY <1>4 DEF Parse
  <2> QED BY <1>0, <1>1, <2>0, <2>5, <2>11, <2>12 DEF ParserOK
<1>5. CASE reply' = None
  BY <1>0, <1>5 DEF ParserOK
<1>6. CASE UNCHANGED <<unread, directives, reply>>
  BY <1>0, <1>1, <1>6 DEF ParserOK, ReadUpTo
<1> QED
  BY <1>3, <1>4, <1>5, <1>6
     DEF RequestNext, requestVars, Hit, HitStale, CircuitOpen, Fetch,
         RangeError, StoreAndAnswer, Tick

(* When nothing is left to read, the directives are the header's. *)
LEMMA ParsedAll ==
  ASSUME ParserOK, reply # None, unread = <<>>, NEW h, h = reply.header
  PROVE  /\ DOMAIN directives = Numeric \cup Flags
         /\ \A d \in Flags : directives[d] = Has(h, d)
         /\ \A d \in Numeric : directives[d] = LastValue(h, d)
<1>1. h \in {input.header, input.header304}
  BY ReplyHeader DEF ParserOK
<1>2. h \in Seq(Token) /\ Len(h) \in Nat /\ DOMAIN h = 1..Len(h)
  BY <1>1, Header, LenProperties DEF ParserOK
<1>3. PICK n \in 0..Len(h) : ReadUpTo(n, h)
  BY DEF ParserOK
<1>4. n = Len(h)
  <2>1. Len(unread) = Len(h) - n
    BY <1>3 DEF ReadUpTo
  <2>2. Len(unread) = 0
    OBVIOUS
  <2>3. PICK l \in Nat : l = Len(h)
    BY <1>2
  <2>4. l - n = 0 /\ n \in 0..l
    BY <2>1, <2>2, <2>3
  <2> QED BY <2>3, <2>4
<1>5. Says(directives, h, Len(h))
  BY <1>3, <1>4 DEF ReadUpTo
<1>6. ASSUME NEW d \in Numeric PROVE directives[d] = LastValue(h, d)
  <2>1. PICK V : V = Valid(h, Len(h), d)
    OBVIOUS
  <2>2. V \subseteq Int /\ LastValue(h, d) = IF V = {} THEN None ELSE h[Max(V)].value
    BY <1>2, <2>1 DEF LastValue, Valid
  <2>3. CASE V = {}
    BY <1>5, <2>1, <2>2, <2>3 DEF Says
  <2>4. CASE V # {}
    <3>1. PICK m \in V : (\A i \in V : i <= m) /\ directives[d] = h[m].value
      BY <1>5, <2>1, <2>4 DEF Says
    <3>2. Max(V) = m
      <4>1. \A x \in V : (\A y \in V : x >= y) <=> x = m
        BY <2>2, <3>1
      <4> QED BY <2>2, <3>1, <4>1 DEF Max
    <3> QED BY <2>2, <3>1, <3>2
  <2> QED BY <2>3, <2>4
<1>7. ASSUME NEW d \in Flags PROVE directives[d] = Has(h, d)
  BY <1>2, <1>5 DEF Says, Has
<1> QED BY <1>5, <1>6, <1>7 DEF Says

(* A number the header gives is a number. *)
LEMMA LastIsNumber ==
  ASSUME CaseOK, NEW h \in {input.header, input.header304}, NEW d
  PROVE  LastValue(h, d) \in Nat \cup {None}
<1>2. h \in Seq(Token) /\ Len(h) \in Nat /\ DOMAIN h = 1..Len(h)
  BY Header, LenProperties
<1>3. PICK V : V = {i \in 1..Len(h) : h[i].key = d /\ h[i].value # None}
  OBVIOUS
<1>4. LastValue(h, d) = IF V = {} THEN None ELSE h[Max(V)].value
  BY <1>2, <1>3 DEF LastValue
<1>5. ASSUME V # {} PROVE Max(V) \in V
  <2>1. V \in SUBSET (0..Len(h))
    BY <1>2, <1>3
  <2>2. Max(V) \in V
    BY <1>2, <1>5, <2>1, MaxOfNaturals
  <2> QED BY <2>2 DEF Max, Max
<1>6. \A i \in V : h[i].value \in Nat
  <2>1. \A i \in 1..Len(h) : h[i] \in Token
    BY <1>2, LenProperties
  <2> QED BY <1>3, <2>1 DEF Token
<1> QED BY <1>4, <1>5, <1>6

(* A shared cache may keep what comes with this header. *)
Storable(h) == ~ Has(h, "no_store") /\ ~ Has(h, "private")

(* What is stored at time t under the header h, and what a refresh makes   *)
(* of it.                                                                  *)
StoredAs(h, t) ==
    [status |-> Status, content |-> Content, fields |-> FullReply.fields,
     etag |-> FullReply.etag, created_at |-> t, ttl |-> Lifetime(h), swr |-> Window(h),
     header |-> h]

(* The entry is the file under some header the upstream sent, which allows *)
(* it, as the one it first came with did; a 304 comes only with an entry.  *)
EntryOK ==
    /\ clock \in Nat
    /\ reply # None /\ reply.status = 304 => entry # None
    /\ entry # None =>
         /\ Storable(input.header)
         /\ \E h \in {input.header, input.header304}, t \in Nat :
              entry = StoredAs(h, t) /\ Storable(h)

(* Lifetime and window are numbers. *)
LEMMA LifetimeIsNumber ==
  ASSUME CaseOK, NEW h \in {input.header, input.header304}
  PROVE  Lifetime(h) \in Nat /\ Window(h) \in Nat
  BY InputsOK, LastIsNumber DEF CaseOK, Lifetime, Window

(* A 304 is no answer in full. *)
LEMMA TwoReplies == FullReply.status # 304 /\ NotModified.status = 304
  BY DEF FullReply, NotModified, Status

(* What the parser found decides the lifetime and whether to store. *)
LEMMA HeaderDecides ==
  ASSUME ParserOK, reply # None, unread = <<>>, NEW h, h = reply.header
  PROVE  /\ EffectiveTTL(directives) = Lifetime(h)
         /\ EffectiveSWR(directives) = Window(h)
         /\ IsCacheable(directives) <=> Storable(h)
<1>1. /\ DOMAIN directives = Numeric \cup Flags
      /\ \A d \in Flags : directives[d] = Has(h, d)
      /\ \A d \in Numeric : directives[d] = LastValue(h, d)
  BY ParsedAll
<1>2. /\ directives["no_cache"] = Has(h, "no_cache")
      /\ directives["no_store"] = Has(h, "no_store")
      /\ directives["private"] = Has(h, "private")
      /\ directives["s_maxage"] = LastValue(h, "s_maxage")
      /\ directives["max_age"] = LastValue(h, "max_age")
      /\ directives["stale_while_revalidate"] = LastValue(h, "stale_while_revalidate")
  BY <1>1 DEF Flags, Numeric
<1>3. /\ EffectiveTTL(directives) = Lifetime(h)
      /\ EffectiveSWR(directives) = Window(h)
  BY <1>2 DEF EffectiveTTL, EffectiveSWR, Lifetime, Window
<1>4. IsCacheable(directives) <=> Storable(h)
  BY <1>2 DEF IsCacheable, Storable
<1> QED BY <1>3, <1>4

(* A stored answer and a refreshed one have what their header says, and    *)
(* nothing else touches the entry.                                         *)
LEMMA EntryStep == ParserOK /\ EntryOK /\ [RequestNext]_requestVars => EntryOK'
<1> SUFFICES ASSUME ParserOK, EntryOK, [RequestNext]_requestVars PROVE EntryOK'
  OBVIOUS
<1>0. input' = input
  BY DEF RequestNext, requestVars, Hit, HitStale, CircuitOpen, Fetch, RangeError,
         Parse, StoreAndAnswer, Tick
<1>1. /\ \A h, t : StoredAs(h, t)' = StoredAs(h, t)
      /\ FullReply' = FullReply
  BY <1>0 DEF StoredAs, FullReply, Status, Content, LengthOf, Fields, NoFields,
      Lifetime, Window
<1>2. CASE StoreAndAnswer
  <2>1. PICK h : h = reply.header
    OBVIOUS
  <2>2. /\ reply \in {FullReply, NotModified} /\ h \in {input.header, input.header304}
        /\ clock' = clock /\ clock \in Nat /\ reply' = None
    BY <1>2, <2>1, ReplyHeader DEF StoreAndAnswer, ParserOK, EntryOK
  <2>3. /\ EffectiveTTL(directives) = Lifetime(h)
        /\ EffectiveSWR(directives) = Window(h)
        /\ IsCacheable(directives) <=> Storable(h)
    BY <1>2, <2>1, HeaderDecides DEF StoreAndAnswer
  <2>5. CASE StoreNew
    <3>1. reply = FullReply /\ h = input.header
      BY <2>1, <2>2, <2>5, TwoReplies DEF StoreNew, FullReply
    <3>2. entry' = StoredAs(h, clock)
      BY <2>1, <2>3, <2>5, <3>1 DEF StoreNew, StoredAs, FullReply
    <3>3. Storable(h)
      BY <2>3, <2>5 DEF StoreNew
    <3> QED BY <1>0, <1>1, <2>2, <3>1, <3>2, <3>3 DEF EntryOK, Storable
  <2>6. CASE Refresh
    <3>1. entry # None
      BY <1>2, <2>6 DEF Refresh, StoreAndAnswer, EntryOK
    <3>2. PICK g, t : entry = StoredAs(g, t)
      BY <3>1 DEF EntryOK
    <3>3. entry' = StoredAs(h, clock)
      BY <2>1, <2>3, <2>6, <3>2 DEF Refresh, StoredAs
    <3>4. Storable(h) /\ Storable(input.header)
      BY <2>3, <2>6, <3>1 DEF Refresh, EntryOK
    <3> QED BY <1>0, <1>1, <2>2, <3>3, <3>4 DEF EntryOK, Storable
  <2>7. CASE PassOn
    BY <1>0, <1>1, <2>2, <2>7 DEF PassOn, EntryOK, Storable
  <2> QED BY <1>2, <2>5, <2>6, <2>7 DEF StoreAndAnswer
<1>3. CASE BeginFetch /\ UNCHANGED <<entry, clock>>
  <2>1. reply'.status = 304 => entry # None
    BY <1>3, TwoReplies DEF BeginFetch, Replies
  <2> QED BY <1>0, <1>1, <1>3, <2>1 DEF EntryOK, Storable
<1>4. CASE UNCHANGED <<entry, reply>> /\ clock' \in {clock, clock + 1}
  BY <1>0, <1>1, <1>4 DEF EntryOK, Storable
<1> QED
  BY <1>2, <1>3, <1>4 DEF RequestNext, requestVars, Hit, HitStale, CircuitOpen,
      Fetch, RangeError, Parse, Tick

(* The answer a is serve_file's with the whole file, as the upstream first *)
(* sent it: status, bytes, the fields sent on and those the edge adds.     *)
Served(a) ==
    LET b == Serve(FullReply, a.via, a.age)
    IN  /\ a.status = b.status /\ a.content = b.content /\ a.coding = b.coding
        /\ a.fields = b.fields /\ a.own = b.own

(* What comes from the cache has a header that allows it, and a hit is no  *)
(* older than that header says, or is stale within a window of no-cache.   *)
Obeyed(a) ==
    a.via \in {"hit", "circuit_open"} =>
        /\ Storable(a.header) /\ Storable(input.header)
        /\ a.via = "hit" => a.age <= Allowed(a.header) \/ StaleDespiteNoCache(a)

(* Every answer is of that form, but for the 503 of an open circuit, the   *)
(* 304 handed on and the 500 for a range that does not parse.              *)
AnswerOK ==
    answer # None =>
        /\ Obeyed(answer)
        /\ answer.via \notin {"unavailable", "not_modified"} =>
             FromHeaderFails(input.range) \/ Served(answer)

(* serve_file answers in that form with whatever has the file's status,    *)
(* content and fields.                                                     *)
LEMMA ServeOK ==
  ASSUME NEW r, NEW via, NEW age,
         r.status = Status, r.content = Content, r.fields = FullReply.fields
  PROVE  Served(Serve(r, via, age))
<1> DEFINE a == Serve(r, via, age)
           b == Serve(FullReply, a.via, a.age)
<1>1. FullReply.status = Status /\ FullReply.content = Content
  BY DEF FullReply
<1>2. /\ a.status = b.status /\ a.content = b.content /\ a.coding = b.coding
      /\ a.fields = b.fields /\ a.own = b.own
  BY <1>1 DEF Serve
<1> QED BY <1>2 DEF Served

LEMMA ServeMarks ==
  ASSUME NEW r, NEW via, NEW age
  PROVE  LET a == Serve(r, via, age) IN a.via = via /\ a.age = age /\ a.header = r.header
  BY DEF Serve

(* An answer made from the entry. *)
LEMMA FromEntry ==
  ASSUME ParserOK, EntryOK, entry # None, NEW via, NEW age \in Int,
         via = "hit" => age <= entry.ttl + entry.swr
  PROVE  LET a == Serve(entry, via, age) IN Served(a) /\ Obeyed(a)
<1>1. PICK h \in {input.header, input.header304}, t \in Nat :
         entry = StoredAs(h, t) /\ Storable(h)
  BY DEF EntryOK
<1>2. /\ entry.status = Status /\ entry.content = Content
      /\ entry.fields = FullReply.fields /\ entry.header = h
      /\ entry.ttl = Lifetime(h) /\ entry.swr = Window(h)
  BY <1>1 DEF StoredAs
<1>3. PICK a : a = Serve(entry, via, age)
  OBVIOUS
<1>4. a.via = via /\ a.age = age /\ a.header = h
  BY <1>2, <1>3, ServeMarks
<1>5. Served(a)
  BY <1>2, <1>3, ServeOK
<1>6. ASSUME via = "hit"
      PROVE  age <= Allowed(h) \/ StaleDespiteNoCache(a)
  <2>1. PICK l, w : l = Lifetime(h) /\ w = Window(h)
    OBVIOUS
  <2>2. l \in Nat /\ w \in Nat /\ age <= l + w
    BY <1>1, <1>2, <1>6, <2>1, LifetimeIsNumber DEF ParserOK
  <2>3. CASE Has(h, "no_cache")
    <3>1. l = 0 /\ Allowed(h) = 0
      BY <2>1, <2>3 DEF Lifetime, Allowed
    <3> QED BY <1>4, <2>1, <2>2, <2>3, <3>1 DEF StaleDespiteNoCache
  <2>4. CASE ~ Has(h, "no_cache")
    BY <2>1, <2>2, <2>4 DEF Allowed
  <2> QED BY <2>3, <2>4
<1>7. Obeyed(a)
  BY <1>1, <1>2, <1>4, <1>6 DEF Obeyed, EntryOK
<1> QED BY <1>3, <1>5, <1>7

(* Every step that answers keeps this up, as the file does not change. *)
LEMMA AnswerStep ==
  ParserOK /\ EntryOK /\ AnswerOK /\ [RequestNext]_requestVars => AnswerOK'
<1> SUFFICES ASSUME ParserOK, EntryOK, AnswerOK, [RequestNext]_requestVars PROVE AnswerOK'
  OBVIOUS
<1>0. input' = input
  BY DEF RequestNext, requestVars, Hit, HitStale, CircuitOpen, Fetch,
         RangeError, Parse, StoreAndAnswer, Tick
<1>1. /\ FromHeaderFails(input.range)' = FromHeaderFails(input.range)
      /\ Served(answer)' <=> Served(answer')
      /\ Obeyed(answer)' <=> Obeyed(answer')
  <2>1. FullReply' = FullReply
    BY <1>0 DEF FullReply, Status, Content, LengthOf, Fields
  <2>2. \A r, via, age : Serve(r, via, age)' = Serve(r, via, age)
    BY <1>0 DEF Serve, Slice, Resolve, ContentRange, Encoding, CompressesStatus, LengthOf,
        NoRange
  <2>3. Served(answer)' <=> Served(answer')
    BY <2>1, <2>2 DEF Served
  <2>4. Obeyed(answer)' <=> Obeyed(answer')
    BY <1>0 DEF Obeyed, Storable, Allowed, StaleDespiteNoCache, Lifetime, Window
  <2> QED BY <1>0, <2>3, <2>4 DEF FromHeaderFails
<1>2. ASSUME Served(answer') /\ Obeyed(answer') PROVE AnswerOK'
  BY <1>1, <1>2 DEF AnswerOK
<1>3. ASSUME answer' = None \/ answer' = answer PROVE AnswerOK'
  BY <1>1, <1>3 DEF AnswerOK
<1>4. ASSUME NEW r, NEW via \in {"unavailable", "not_modified"}, answer' = Serve(r, via, 0)
      PROVE  AnswerOK'
  <2>1. answer'.via = via
    BY <1>4, ServeMarks
  <2>2. Obeyed(answer')
    BY <2>1 DEF Obeyed
  <2> QED BY <1>1, <1>4, <2>1, <2>2 DEF AnswerOK
<1>5. CASE RangeError
  <2>1. FromHeaderFails(input.range) /\ answer'.via = "error"
    BY <1>5 DEF RangeError
  <2>2. Obeyed(answer')
    BY <2>1 DEF Obeyed
  <2> QED BY <1>1, <2>1, <2>2 DEF AnswerOK
<1>6. ASSUME entry # None
      PROVE  /\ Age \in Int /\ entry.ttl \in Nat /\ entry.swr \in Nat
  <2>1. PICK h \in {input.header, input.header304}, t \in Nat : entry = StoredAs(h, t)
    BY <1>6 DEF EntryOK
  <2>2. entry.created_at \in Nat /\ entry.ttl = Lifetime(h) /\ entry.swr = Window(h)
    BY <2>1 DEF StoredAs
  <2>3. clock \in Nat /\ Lifetime(h) \in Nat /\ Window(h) \in Nat
    BY LifetimeIsNumber DEF EntryOK, ParserOK
  <2> QED BY <2>2, <2>3 DEF Age
<1>7. CASE Hit \/ HitStale
  <2>1. /\ entry # None /\ Age <= entry.ttl + entry.swr
        /\ answer' = Serve(entry, "hit", Age)
    BY <1>6, <1>7 DEF Hit, HitStale, Fresh, StaleServable
  <2> QED BY <1>2, <1>6, <2>1, FromEntry
<1>8. CASE CircuitOpen
  <2>1. CASE entry # None
    <3>1. answer' = Serve(entry, "circuit_open", Age)
      BY <1>8, <2>1 DEF CircuitOpen
    <3> QED BY <1>2, <1>6, <2>1, <3>1, FromEntry
  <2>2. CASE entry = None
    <3>1. answer' = Serve(Unavailable, "unavailable", 0)
      BY <1>8, <2>2 DEF CircuitOpen
    <3> QED BY <1>4, <3>1
  <2> QED BY <2>1, <2>2
<1>9. CASE StoreAndAnswer /\ answer = None
  <2>1. ASSUME NEW r, answer' = Serve(r, "miss", 0), r.status = Status,
               r.content = Content, r.fields = FullReply.fields
        PROVE  AnswerOK'
    <3>1. answer'.via = "miss"
      BY <2>1, ServeMarks
    <3>2. Obeyed(answer')
      BY <3>1 DEF Obeyed
    <3> QED BY <1>2, <2>1, <3>2, ServeOK
  <2>2. reply \in {FullReply, NotModified}
    BY <1>9 DEF StoreAndAnswer, ParserOK
  <2>3. /\ FullReply.status = Status /\ FullReply.content = Content
        /\ reply.status # 304 => reply = FullReply
    BY <2>2, TwoReplies DEF FullReply
  <2>4. CASE PassOn
    <3>1. CASE reply.status = 304
      BY <1>4, <1>9, <2>4, <3>1 DEF PassOn, AnswerFetch
    <3>2. CASE reply.status # 304
      <4>1. answer' = Serve(FullReply, "miss", 0)
        BY <1>9, <2>3, <2>4, <3>2 DEF PassOn, AnswerFetch
      <4> QED BY <2>1, <2>3, <4>1
    <3> QED BY <3>1, <3>2
  <2>5. CASE StoreNew
    <3>1. answer' = Serve(FullReply, "miss", 0)
      BY <1>9, <2>3, <2>5 DEF StoreNew, AnswerFetch
    <3> QED BY <2>1, <2>3, <3>1
  <2>6. CASE Refresh
    <3>1. PICK g, t : entry = StoredAs(g, t)
      BY <1>9, <2>6 DEF Refresh, StoreAndAnswer, EntryOK
    <3>2. /\ entry'.status = Status /\ entry'.content = Content
          /\ entry'.fields = FullReply.fields
      BY <2>6, <3>1 DEF Refresh, StoredAs
    <3>3. answer' = Serve(entry', "miss", 0)
      BY <1>9, <2>6 DEF Refresh, AnswerFetch
    <3> QED BY <2>1, <3>2, <3>3
  <2> QED BY <1>9, <2>4, <2>5, <2>6 DEF StoreAndAnswer
<1>10. CASE StoreAndAnswer /\ answer # None
  BY <1>3, <1>10 DEF StoreAndAnswer, PassOn, Refresh, StoreNew, AnswerFetch
<1>11. CASE Fetch \/ Parse \/ Tick \/ UNCHANGED requestVars
  BY <1>3, <1>11 DEF Fetch, Parse, Tick, requestVars
<1> QED BY <1>5, <1>7, <1>8, <1>9, <1>10, <1>11 DEF RequestNext

(* The inductive invariant. *)
RequestInv == ParserOK /\ EntryOK /\ AnswerOK

(* It holds for every set of well-formed cases, whatever a coding makes of *)
(* a length.                                                               *)
THEOREM RequestInvariant == RequestSpec => []RequestInv
<1>1. RequestInit => RequestInv
  BY ParserInit DEF RequestInit, RequestInv, EntryOK, AnswerOK
<1>2. RequestInv /\ [RequestNext]_requestVars => RequestInv'
  BY ParserStep, EntryStep, AnswerStep DEF RequestInv
<1> QED BY <1>1, <1>2, PTL DEF RequestSpec

(* The parser's loop computes what the header says, for headers of any     *)
(* length: of a numeric directive the last valid value, of a flag whether  *)
(* it occurs (infrastructure/cache_control.py).                            *)
THEOREM HeaderIsRead == RequestSpec => []ParsedAsDirected
<1>1. RequestInv => ParsedAsDirected
  <2> SUFFICES ASSUME RequestInv, reply # None, unread = <<>>,
                      NEW d \in DOMAIN directives
               PROVE  directives[d] = IF d \in Flags THEN Has(reply.header, d)
                                      ELSE LastValue(reply.header, d)
    BY DEF ParsedAsDirected
  <2>1. /\ DOMAIN directives = Numeric \cup Flags
        /\ \A e \in Flags : directives[e] = Has(reply.header, e)
        /\ \A e \in Numeric : directives[e] = LastValue(reply.header, e)
    BY ParsedAll DEF RequestInv
  <2> QED BY <2>1
<1> QED BY <1>1, RequestInvariant, PTL

(* The origin resolves a range it can satisfy as the edge does. *)
LEMMA SameResolution ==
  ASSUME NEW part \in Part, ~ (part.start = None /\ part.end = None), NEW total \in Nat
  PROVE  OriginResolve(part, total) = Resolve(part, total)
<1>1. \A x \in Int : Min({x, x}) = x
  BY DEF Min
<1>2. CASE part.start = None
  BY <1>1, <1>2 DEF OriginResolve, Resolve
<1>3. CASE part.start # None /\ part.end = None
  BY <1>1, <1>3 DEF OriginResolve, Resolve
<1>4. CASE part.start # None /\ part.end # None
  BY <1>4 DEF OriginResolve, Resolve
<1> QED BY <1>2, <1>3, <1>4

(* The coding chosen is one the client names. *)
LEMMA EncodingAccepted ==
  ASSUME NEW content, NEW accept, NEW compressible
  PROVE  Encoding(content, accept, compressible) \in accept \cup {None}
  BY DEF Encoding

(* What serve_file makes of the whole file, apart from its status and      *)
(* bytes.                                                                  *)
LEMMA FieldsOK ==
  ASSUME NEW a, Served(a)
  PROVE  /\ a.coding \in input.accept \cup {None}
         /\ a.status = 206 => a.coding = None
         /\ a.own.length \in {None, LengthOf(a.content, a.coding)}
         /\ a.own.coding = a.coding
         /\ input.coding = None /\ a.coding = None /\ input.range = NoRange => Framed(a)
<1> DEFINE b == Serve(FullReply, a.via, a.age)
<1>0. /\ a.status = b.status /\ a.content = b.content /\ a.coding = b.coding
      /\ a.fields = b.fields /\ a.own = b.own
  BY DEF Served
<1>1. b.coding \in input.accept \cup {None} /\ (b.status = 206 => b.coding = None)
  BY EncodingAccepted DEF Serve, CompressesStatus
<1>2. b.own.length \in {None, LengthOf(b.content, b.coding)} /\ b.own.coding = b.coding
  BY DEF Serve
<1>3. ASSUME input.coding = None, b.coding = None, input.range = NoRange
      PROVE  Framed(b)
  <2>1. /\ b.content = Content /\ b.fields = Fields(LengthOf(Content, None), None)
        /\ b.own = [length |-> None, coding |-> None, range |-> None]
    BY <1>3 DEF Serve, FullReply, LengthOf
  <2> QED BY <1>3, <2>1 DEF Framed, Lengths, Fields
<1>4. Framed(b) => Framed(a)
  BY <1>0 DEF Framed, Lengths
<1> QED BY <1>0, <1>1, <1>2, <1>3, <1>4

(* Where the origin would answer with content, the edge answers with the   *)
(* same status and bytes, for files of any size and any range and through  *)
(* any hits, misses and refreshes: under a coding the client names and     *)
(* never with a coded part, and with the length and coding of the body in  *)
(* the fields it writes (serve_file of both, get_or_fetch,                 *)
(* _do_fetch_and_cache, handle_range_request, compress_response).          *)
THEOREM EdgeAnswersLikeOrigin == RequestSpec => []AnswersLikeOrigin
<1>1. RequestInv => AnswersLikeOrigin
  <2> SUFFICES ASSUME RequestInv, answer # None,
                      answer.via \notin {"unavailable", "not_modified"},
                      OriginServe.status \in {200, 206}
               PROVE  /\ answer.status = OriginServe.status
                      /\ answer.content = OriginServe.body
                      /\ answer.coding \in input.accept \cup {None}
                      /\ answer.status = 206 => answer.coding = None
                      /\ answer.own.length \in {None, LengthOf(answer.content, answer.coding)}
                      /\ answer.own.coding = answer.coding
                      /\ input.coding = None /\ answer.coding = None /\ answer.status = 200
                            => Framed(answer)
    BY DEF AnswersLikeOrigin
  <2>0. input \in Inputs /\ input.range \in Seq(Part) /\ input.size \in Nat
    BY InputsOK DEF RequestInv, ParserOK, CaseOK
  <2>1. input.found
    BY DEF OriginServe
  <2>2. Status = 200 /\ Content = [i \in 1..input.size |-> i]
    BY <2>1 DEF Status, Content
  <2>3. ~ FromHeaderFails(input.range)
    BY <2>1 DEF OriginServe, NoRange, FromHeaderFails
  <2>4. Served(answer)
    BY <2>3 DEF RequestInv, AnswerOK
  <2>5. PICK b : b = Serve(FullReply, answer.via, answer.age)
    OBVIOUS
  <2>6. answer.status = b.status /\ answer.content = b.content
    BY <2>4, <2>5 DEF Served
  <2>7. answer.status = OriginServe.status /\ answer.content = OriginServe.body
    <3>1. CASE input.range = NoRange
      <4>1. OriginServe = [status |-> 200, body |-> Content]
        BY <2>1, <3>1 DEF OriginServe
      <4>2. b.status = Status /\ b.content = Content
        BY <2>5, <3>1 DEF Serve, FullReply
      <4> QED BY <2>2, <2>6, <4>1, <4>2
    <3>2. CASE input.range # NoRange
      <4>1. PICK c : c = OriginResolve(input.range[1], input.size)
        OBVIOUS
      <4>2. OriginServe = [status |-> 206, body |-> Slice(Content, c)]
        BY <2>1, <3>2, <4>1 DEF OriginServe
      <4>3. 1 \in DOMAIN input.range /\ input.range[1] \in Part
        BY <2>0, <3>2, LenProperties, EmptySeq DEF NoRange
      <4>4. c = Resolve(input.range[1], input.size)
        BY <2>0, <2>3, <4>1, <4>3, SameResolution DEF FromHeaderFails
      <4>5. Len(Content) = input.size
        BY <2>0, <2>2
      <4>6. b.status = 206 /\ b.content = Slice(Content, c)
        BY <2>5, <3>2, <4>4, <4>5 DEF Serve, FullReply
      <4> QED BY <2>6, <4>2, <4>6
    <3> QED BY <3>1, <3>2
  <2>8. answer.status = 200 => input.range = NoRange
    <3>1. input.range # NoRange => b.status = 206
      BY <2>5 DEF Serve
    <3> QED BY <2>6, <3>1
  <2> QED BY <2>4, <2>7, <2>8, FieldsOK
<1> QED BY <1>1, RequestInvariant, PTL

(* Nothing forbidden to a shared cache is served from it, and no hit is    *)
(* older than the last header that made or refreshed its entry allows, but *)
(* for the stale hits within the window of one with no-cache               *)
(* (get_or_fetch, _do_fetch_and_cache).                                    *)
THEOREM CacheObeysHeader == RequestSpec => []ServedAsDirected
<1>1. RequestInv => ServedAsDirected
  BY DEF RequestInv, AnswerOK, Obeyed, Storable, ServedAsDirected
<1> QED BY <1>1, RequestInvariant, PTL
=============================================================================
