------------------------------- MODULE Router -------------------------------
(***************************************************************************)
(* The router: health checks (application/health_service.py), the edge     *)
(* status they share with routing (application/routing_service.py), and    *)
(* the proxy with ordered failover (presentation/router/routes.py).        *)
(*                                                                         *)
(* Health checks of one edge may overlap, since the loop never waits for   *)
(* them; a proxied request keeps the list of edges it computed at its      *)
(* start.  An edge is "up" while it answers in time.                       *)
(*                                                                         *)
(* A definition just before the one it resembles is a mutant of it.        *)
(***************************************************************************)
EXTENDS RoutingService

CONSTANTS
    Requests,               \* slots for proxied requests in progress
    CheckSlots,             \* bound: overlapping checks of one edge
    ClientRegions,          \* values of X-Client-Region
    MaxFailures,            \* max_failures
    MaxFailoverAttempts,    \* MAX_FAILOVER_ATTEMPTS
    NoEdge                  \* None

ASSUME RouterConstants ==
    /\ MaxFailures \in Nat \ {0}
    /\ MaxFailoverAttempts \in Nat
    /\ NoEdge \notin Edges

VARIABLES
    status,     \* RoutingService._edge_status, and EdgeNode.healthy with it
    fails,      \* HealthService._failure_counts, saturating at MaxFailures
    check,      \* check[e][s]: health check of e in slot s
    request,    \* request[r]: the edges it may try, nearest first, and the one it tries
    up          \* up[e]: edge e answers

vars == <<status, fails, check, request, up>>

(* A check is waiting for the answer, has one on its way, or has recorded  *)
(* the status it got and is closing its HTTP client, within the timeout.   *)
CheckStates == {"none", "sent", "ok", "bad", "closing"}

Idle == [order |-> <<>>, i |-> 0]

(* One type invariant. *)
TypeOK ==
    /\ status \in [Edges -> BOOLEAN]
    /\ fails \in [Edges -> 0..MaxFailures]
    /\ check \in [Edges -> [CheckSlots -> CheckStates]]
    /\ \A r \in Requests : request[r] = Idle \/ request[r].i \in DOMAIN request[r].order
    /\ up \in [Edges -> BOOLEAN]

Init ==
    /\ status = [e \in Edges |-> TRUE]
    /\ fails = [e \in Edges |-> 0]
    /\ check = [e \in Edges |-> [s \in CheckSlots |-> "none"]]
    /\ request = [r \in Requests |-> Idle]
    /\ up = [e \in Edges |-> TRUE]

-----------------------------------------------------------------------------
MarkUnhealthy(e) == status' = [status EXCEPT ![e] = FALSE]

MarkHealthyKeepingCount(e) ==
    /\ status' = [status EXCEPT ![e] = TRUE]
    /\ UNCHANGED fails
ResetCountOnly(e) ==
    /\ fails' = [fails EXCEPT ![e] = 0]
    /\ UNCHANGED status
(* A 200 resets the counter and marks the edge healthy in one step. *)
MarkHealthy(e) ==
    /\ fails' = [fails EXCEPT ![e] = 0]
    /\ status' = [status EXCEPT ![e] = TRUE]

(* _record_failure: count, and mark unhealthy once the threshold is met. *)
RecordWithoutMarking(e) ==
    /\ fails' = [fails EXCEPT ![e] = IF @ = MaxFailures THEN @ ELSE @ + 1]
    /\ UNCHANGED status
RecordFailure(e) ==
    /\ fails' = [fails EXCEPT ![e] = IF @ = MaxFailures THEN @ ELSE @ + 1]
    /\ IF fails'[e] >= MaxFailures THEN MarkUnhealthy(e) ELSE UNCHANGED status

(* One turn of _health_loop: a new check of every edge, finished or not    *)
(* the ones before.                                                        *)
HealthRound ==
    \E slot \in [Edges -> CheckSlots] :
        /\ \A e \in Edges : check[e][slot[e]] = "none"
        /\ check' = [e \in Edges |-> [check[e] EXCEPT ![slot[e]] = "sent"]]
        /\ UNCHANGED <<status, fails, request, up>>

SetCheck(e, s, c) == check' = [check EXCEPT ![e][s] = c]

(* The edge answers 200, or something else comes back: another status, a   *)
(* refused connection, a name that does not resolve.                       *)
EdgeAnswersCheck(e, s) ==
    /\ check[e][s] = "sent"
    /\ SetCheck(e, s, IF up[e] THEN "ok" ELSE "bad")
    /\ UNCHANGED <<status, fails, request, up>>

(* _check_edge: 200.  The client is closed after the outcome is applied. *)
CheckOk(e, s) ==
    /\ check[e][s] = "ok"
    /\ MarkHealthy(e)
    /\ SetCheck(e, s, "closing")
    /\ UNCHANGED <<request, up>>

(* Any other outcome is counted.  Another status leaves the client to be   *)
(* closed; an exception has closed it already, a failed lookup never       *)
(* opened one.                                                             *)
CheckBad(e, s) ==
    /\ check[e][s] = "bad"
    /\ RecordFailure(e)
    /\ \E rest \in {"closing", "none"} : SetCheck(e, s, rest)
    /\ UNCHANGED <<request, up>>

(* wait_for expires before the answer; or closing the client takes past    *)
(* the timeout or fails, and the check records a second outcome.           *)
CheckTimeout(e, s) ==
    /\ \/ check[e][s] = "sent" /\ ~up[e]
       \/ check[e][s] = "closing"
    /\ RecordFailure(e)
    /\ SetCheck(e, s, "none")
    /\ UNCHANGED <<request, up>>

CheckEnds(e, s) ==
    /\ check[e][s] = "closing"
    /\ SetCheck(e, s, "none")
    /\ UNCHANGED <<status, fails, request, up>>

-----------------------------------------------------------------------------
(* _proxy_to_edge: the list of edges is computed once, and cut to the      *)
(* attempts allowed.  With none healthy the answer is 503 at once.         *)
Attempts(order) == IF Len(order) < MaxFailoverAttempts + 1
                     THEN Len(order) ELSE MaxFailoverAttempts + 1

Route(r, region) ==
    LET order == OrderedEdges(region, status)
    IN  /\ request[r] = Idle
        /\ order # <<>>
        /\ request' = [request EXCEPT ![r] =
                         [order |-> SubSeq(order, 1, Attempts(order)), i |-> 1]]
        /\ UNCHANGED <<status, fails, check, up>>

Trying(r) == IF request[r] = Idle THEN NoEdge ELSE request[r].order[request[r].i]

(* Any HTTP response is passed on. *)
EdgeResponds(r) ==
    /\ Trying(r) # NoEdge
    /\ up[Trying(r)]
    /\ request' = [request EXCEPT ![r] = Idle]
    /\ UNCHANGED <<status, fails, check, up>>

StayOnEdge(r) == request[r]
FailOverPastEnd(r) == IF request[r].i <= Len(request[r].order)
                        THEN [request[r] EXCEPT !.i = @ + 1] ELSE Idle
(* The next edge of the list, or 503 after the last. *)
FailOver(r) == IF request[r].i < Len(request[r].order)
                 THEN [request[r] EXCEPT !.i = @ + 1] ELSE Idle

(* An exception - refused, timed out, also by an edge that is merely slow  *)
(* - marks the edge unhealthy at once and fails over.                      *)
EdgeFails(r) ==
    /\ Trying(r) # NoEdge
    /\ MarkUnhealthy(Trying(r))
    /\ request' = [request EXCEPT ![r] = FailOver(r)]
    /\ UNCHANGED <<fails, check, up>>

(* Edges stop and start answering. *)
EdgeChanges(e) ==
    /\ up' = [up EXCEPT ![e] = ~@]
    /\ UNCHANGED <<status, fails, check, request>>

CheckStep(e, s) ==
    \/ EdgeAnswersCheck(e, s) \/ CheckOk(e, s) \/ CheckBad(e, s)
    \/ CheckTimeout(e, s) \/ CheckEnds(e, s)

Next ==
    \/ HealthRound
    \/ \E e \in Edges, s \in CheckSlots : CheckStep(e, s)
    \/ \E r \in Requests, region \in ClientRegions : Route(r, region)
    \/ \E r \in Requests : EdgeResponds(r) \/ EdgeFails(r)
    \/ \E e \in Edges : EdgeChanges(e)

Spec == Init /\ [][Next]_vars

(* The loop keeps turning, every check ends within its timeout and every   *)
(* proxied attempt within the client's.  Edges and clients are free.       *)
Fairness ==
    /\ WF_vars(HealthRound)
    /\ \A e \in Edges, s \in CheckSlots : WF_vars(CheckStep(e, s))
    /\ \A r \in Requests : WF_vars(EdgeResponds(r) \/ EdgeFails(r))

FairSpec == Spec /\ Fairness

-----------------------------------------------------------------------------
(* Routing agrees with the proximity reference in every health state.      *)
RoutesByProximity == \A region \in ClientRegions : WalkIsByProximity(region, status, NoEdge)

(* The counter and the status agree: an edge at the failure threshold is   *)
(* marked unhealthy, so it is in no list computed from then on, whatever   *)
(* order overlapping checks and proxied requests report in.  A request may *)
(* still try it from the list it computed before.                          *)
ThresholdMeansUnhealthy == \A e \in Edges : fails[e] >= MaxFailures => ~status[e]

(* Every proxied request is answered within its attempts. *)
RequestsEnd == \A r \in Requests : request[r] # Idle ~> request[r] = Idle

(* An edge that stays down is taken out for good, also past the last late  *)
(* check that saw it up.                                                   *)
DownIsNoticed == \A e \in Edges : <>[](~up[e]) => <>[](~status[e])

(* An edge that stays up is always put back, whatever proxied requests     *)
(* that timed out said about it.                                           *)
UpIsNoticed == \A e \in Edges : <>[](up[e]) => []<>(status[e])

=============================================================================
