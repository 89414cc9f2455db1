-------------------------------- MODULE Cdn --------------------------------
(***************************************************************************)
(* Purging and warming a network of edges (application/purge_service.py,   *)
(* application/warm_service.py, presentation/management/routes.py, the     *)
(* edges' purge route), some of which fetch through a shield node          *)
(* (infrastructure/http/shield_client.py): an edge like the others, whose  *)
(* own fetches go to the origin.                                           *)
(*                                                                         *)
(* Content is the version of its path.  Fetches, purge calls, changes of   *)
(* content and requests of clients interleave; what happens inside one     *)
(* edge is CacheService's subject, so here a node has at most one fetch of *)
(* a key and the requests for it share its outcome.                        *)
(*                                                                         *)
(* Keys and URLs are sequences of the pieces they are put together from.   *)
(* A definition just before the one it resembles is a mutant of it.        *)
(***************************************************************************)
EXTENDS Integers, Sequences, SequencesExt, FiniteSets

CONSTANTS
    Nodes,          \* edges and shields
    Edges,          \* the nodes clients are routed to
    Upstream,       \* Upstream[n]: the node n fetches from, or Origin
    EdgeUrls,       \* the management API's list of nodes
    Paths,          \* paths of files: sequences of pieces
    Accepts,        \* values of Accept-Encoding, or None
    HttpxDefault,   \* the one httpx sends by itself
    Targets,        \* what operators purge: [by : {"url", "prefix"}, text : Seq]
    MaxVersion,     \* bound: changes of each file
    MaxFlights,     \* bound: fetches in flight in the whole network
    Origin, None

ASSUME CdnConstants ==
    /\ Edges \subseteq Nodes /\ EdgeUrls \in Seq(Nodes)
    /\ Upstream \in [Nodes -> Nodes \cup {Origin}] /\ Origin \notin Nodes
    /\ HttpxDefault \in Accepts
    /\ \A p \in Paths : p \in Seq(STRING) /\ "|vary=" \notin Range(p)
    /\ \A t \in Targets : t.by \in {"url", "prefix"} /\ t.text \in Seq(STRING)
    /\ MaxVersion \in Nat /\ MaxFlights \in Nat

(* CacheKey.from_request with the Accept-Encoding of the request, if any.  *)
(* (The digest of the varying headers is taken to be injective.)           *)
Key(p, a) == <<"GET:">> \o p \o IF a = None THEN <<>> ELSE <<"|vary=", a>>

Keys == {Key(p, a) : p \in Paths, a \in Accepts}
PathOf == [k \in Keys |-> CHOOSE p \in Paths : \E a \in Accepts : k = Key(p, a)]
Versions == 0..MaxVersion

VARIABLES
    origin,     \* origin[p]: version of the file at path p
    store,      \* store[n][k]: version node n holds under key k, or None
    flight,     \* flight[n][k]: NoFlight, Asking, or the version answered
    target,     \* what the running purge names, or None
    next,       \* position in EdgeUrls of its next call
    results,    \* results[n]: whether node n acknowledged the last purge
    since,      \* history: origin when the last purge began
    clean       \* history: clean[n]: keys the last purge settled at node n

vars == <<origin, store, flight, target, next, results, since, clean>>
purge == <<target, next, results, since, clean>>

NoFlight == -1
Asking == -2
InFlight == {f \in Nodes \X Keys : flight[f[1]][f[2]] # NoFlight}

Init ==
    /\ origin = [p \in Paths |-> 0]
    /\ store = [n \in Nodes |-> [k \in Keys |-> None]]
    /\ flight = [n \in Nodes |-> [k \in Keys |-> NoFlight]]
    /\ target = None /\ next = 1
    /\ results = [n \in Nodes |-> FALSE]
    /\ since = origin
    /\ clean = [n \in Nodes |-> {}]

-----------------------------------------------------------------------------
(* Requests and fetches.                                                   *)

(* A request for p that finds neither an entry nor a fetch of its key. *)
Request(n, k) ==
    /\ store[n][k] = None /\ flight[n][k] = NoFlight
    /\ Cardinality(InFlight) < MaxFlights
    /\ flight' = [flight EXCEPT ![n][k] = Asking]
    /\ UNCHANGED <<origin, store, purge>>

(* Warming is a GET by httpx, with its own Accept-Encoding. *)
WarmSingle(n, p) == n \in Range(EdgeUrls) /\ Request(n, Key(p, HttpxDefault))

(* The client of a node sends its own headers, not those of the request,   *)
(* so this is the key of node n's fetch of k at its shield.                *)
ShieldKey(k) == Key(PathOf[k], HttpxDefault)

AskOrigin(n, k) ==
    /\ flight[n][k] = Asking /\ Upstream[n] = Origin
    /\ flight' = [flight EXCEPT ![n][k] = origin[PathOf[k]]]
    /\ UNCHANGED <<origin, store, purge>>

(* The shield has the file, or fetches it itself. *)
AskShield(n, k) ==
    /\ flight[n][k] = Asking /\ Upstream[n] # Origin
    /\ LET s == Upstream[n]
       IN  \/ /\ store[s][ShieldKey(k)] # None
              /\ flight' = [flight EXCEPT ![n][k] = store[s][ShieldKey(k)]]
              /\ UNCHANGED <<origin, store, purge>>
           \/ Request(s, ShieldKey(k))

(* The answer arrives and is stored; a shield passes it on to the nodes    *)
(* that asked.                                                             *)
Answered(n, k) == flight[n][k] \in Versions
AnsweredOrAsking(n, k) == flight[n][k] # NoFlight
MayStore(n, k) == Answered(n, k)

Deliver(n, k) ==
    /\ MayStore(n, k)
    /\ store' = [store EXCEPT ![n][k] = flight[n][k]]
    /\ flight' = [m \in Nodes |-> [j \in Keys |->
                    IF m = n /\ j = k THEN NoFlight
                    ELSE IF Upstream[m] = n /\ flight[m][j] = Asking /\ ShieldKey(j) = k
                      THEN flight[n][k] ELSE flight[m][j]]]
    /\ UNCHANGED <<origin, purge>>

(* The retries are exhausted, or the answer may not be stored. *)
Fail(n, k) ==
    /\ flight[n][k] # NoFlight
    /\ flight' = [flight EXCEPT ![n][k] = NoFlight]
    /\ UNCHANGED <<origin, store, purge>>

(* Expired or evicted. *)
Forget(n, k) ==
    /\ store[n][k] # None
    /\ store' = [store EXCEPT ![n][k] = None]
    /\ UNCHANGED <<origin, flight, purge>>

Publish(p) ==
    /\ origin[p] < MaxVersion
    /\ origin' = [origin EXCEPT ![p] = @ + 1]
    /\ UNCHANGED <<store, flight, purge>>

-----------------------------------------------------------------------------
(* purge_cache of the management API, and purge_url and purge_prefix.      *)

BeginPurge(t) ==
    /\ target = None
    /\ target' = t /\ next' = 1
    /\ results' = [n \in Nodes |-> FALSE]
    /\ since' = origin
    /\ clean' = [n \in Nodes |-> {}]
    /\ UNCHANGED <<origin, store, flight>>

(* The edge's purge route: delete of the exact key, or delete_by_prefix. *)
Selected(t) == {k \in Keys : IF t.by = "url" THEN k = t.text ELSE IsPrefix(t.text, k)}

(* The keys the operator means: those whose own text, or whose URL, is     *)
(* named.                                                                  *)
Url(p) == <<"/files/">> \o p
Meant(t) == Selected(t) \cup
    {k \in Keys : IF t.by = "url" THEN Url(PathOf[k]) = t.text
                  ELSE IsPrefix(t.text, Url(PathOf[k]))}

(* What the call's outcome is reported as. *)
AnyOutcome(outcome) == TRUE
Success(outcome) == outcome = "acknowledged"

(* A purge settles key k at a node that acknowledges it, when no fetch of  *)
(* k is in flight there and its shield, if any, is settled.                *)
Settled(n) ==
    {k \in Meant(target) : /\ flight[n][k] = NoFlight
                           /\ Upstream[n] = Origin \/ ShieldKey(k) \in clean[Upstream[n]]}

(* One turn of the loop over the edges: the call is acknowledged, or its   *)
(* answer is lost, or it never arrives.  A failure is noted and the loop   *)
(* goes on.                                                                *)
RetryFailed(outcome) == IF Success(outcome) THEN next + 1 ELSE next
GoOn(outcome) == next + 1

PurgeCall(outcome) ==
    LET n == EdgeUrls[next]
    IN  /\ target # None /\ next <= Len(EdgeUrls)
        /\ store' = IF outcome = "unreached" THEN store
                    ELSE [store EXCEPT ![n] = [k \in Keys |->
                            IF k \in Selected(target) THEN None ELSE store[n][k]]]
        /\ results' = [results EXCEPT ![n] = Success(outcome)]
        /\ clean' = IF Success(outcome) THEN [clean EXCEPT ![n] = Settled(n)] ELSE clean
        /\ next' = GoOn(outcome)
        /\ UNCHANGED <<origin, flight, target, since>>

PurgeReturns ==
    /\ target # None /\ next > Len(EdgeUrls)
    /\ target' = None
    /\ UNCHANGED <<origin, store, flight, next, results, since, clean>>

-----------------------------------------------------------------------------
Next ==
    \/ \E n \in Edges, k \in Keys : Request(n, k)
    \/ \E n \in Nodes, p \in Paths : WarmSingle(n, p)
    \/ \E n \in Nodes, k \in Keys : \/ AskOrigin(n, k) \/ AskShield(n, k)
                                    \/ Deliver(n, k) \/ Fail(n, k) \/ Forget(n, k)
    \/ \E p \in Paths : Publish(p)
    \/ \E t \in Targets : BeginPurge(t)
    \/ \E outcome \in {"acknowledged", "lost", "unreached"} : PurgeCall(outcome)
    \/ PurgeReturns

Spec == Init /\ [][Next]_vars

(* Each call of the fan-out ends, by its answer or its timeout. *)
FairSpec ==
    /\ Spec
    /\ WF_vars(\/ \E outcome \in {"acknowledged", "lost", "unreached"} : PurgeCall(outcome)
               \/ PurgeReturns)

-----------------------------------------------------------------------------
(* One type invariant: what is stored or answered is a version that its    *)
(* path has had.                                                           *)
TypeOK ==
    /\ origin \in [Paths -> Versions] /\ since \in [Paths -> Versions]
    /\ \A n \in Nodes, k \in Keys :
         /\ store[n][k] \in 0..origin[PathOf[k]] \cup {None}
         /\ flight[n][k] \in 0..origin[PathOf[k]] \cup {NoFlight, Asking}
    /\ target \in Targets \cup {None} /\ next \in 1..(Len(EdgeUrls) + 1)
    /\ results \in [Nodes -> BOOLEAN] /\ clean \in [Nodes -> SUBSET Keys]

(* A purge that a shield and then an edge acknowledged, without a fetch    *)
(* under way at either, is final: whatever requests, warming, lost calls   *)
(* and failures follow at any node, no content older than the purge comes  *)
(* back at that edge under any key the operator meant.                     *)
PurgedIsGone ==
    \A n \in Nodes : \A k \in clean[n] :
        store[n][k] = None \/ store[n][k] >= since[PathOf[k]]

(* What does not hold of a purge that every node has acknowledged: "Next   *)
(* request returns fresh content", that is no edge holds an older version  *)
(* of what the operator meant.  A fetch that was under way stores what it  *)
(* was answered before the purge, or an edge purged before its shield      *)
(* refills itself there.  (TLC refutes it as an INVARIANT of the run.)     *)
AllAcknowledged ==
    /\ target # None /\ next > Len(EdgeUrls)
    /\ \A n \in Range(EdgeUrls) : results[n]
PurgeLeavesFresh ==
    AllAcknowledged =>
        \A n \in Edges, k \in Meant(target) :
            store[n][k] = None \/ store[n][k] >= since[PathOf[k]]

(* The management API answers although edges do not. *)
PurgeEnds == target # None ~> target = None
=============================================================================
