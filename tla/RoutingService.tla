--------------------------- MODULE RoutingService ---------------------------
(***************************************************************************)
(* Choosing edges for a client region                                      *)
(* (application/routing_service.py): the configured edges, in config       *)
(* order, walked region by region along the proximity table.               *)
(***************************************************************************)
EXTENDS KeyOrder, SequencesExt, FiniteSets

CONSTANTS
    EdgeList,       \* _edges: the configured edges, in order
    RegionOf,       \* RegionOf[e]: the region of edge e
    RegionPriority, \* REGION_PRIORITY: region -> sequence of regions
    DefaultRegion   \* DEFAULT_REGION

Edges == ToSet(EdgeList)

Regions == UNION {ToSet(RegionPriority[region]) : region \in DOMAIN RegionPriority}

(* No edge is configured twice; regions may be. *)
ASSUME RoutingConstants ==
    /\ EdgeList \in Seq(Edges)
    /\ \A i, j \in 1..Len(EdgeList) : EdgeList[i] = EdgeList[j] => i = j
    /\ DOMAIN RegionOf = Edges
    /\ \A region \in DOMAIN RegionPriority : RegionPriority[region] \in Seq(Regions)

(* The proximity list of a client region; an unknown region uses the       *)
(* default one, and without that there is no preference.                   *)
Preferred(region) ==
    IF region \in DOMAIN RegionPriority THEN RegionPriority[region]
    ELSE IF DefaultRegion \in DOMAIN RegionPriority THEN RegionPriority[DefaultRegion]
    ELSE <<>>

(* The edges of a set, in config order. *)
InConfigOrder(S) == Without(EdgeList, Edges \ S)

Healthy(status) == {e \in Edges : status[e]}
HealthyIn(region, status) == {e \in Healthy(status) : RegionOf[e] = region}

(* get_ordered_edges: the preferred regions in turn, each adding the       *)
(* healthy edges not seen before, then the healthy edges that are left.    *)
OrderedByConfig(region, status) == InConfigOrder(Healthy(status))
OrderedEdges(region, status) ==
    LET preferred == Preferred(region)
        Unseen(S, ordered) == InConfigOrder(S \ ToSet(ordered))
        walk[i \in 0..Len(preferred)] ==
            IF i = 0 THEN <<>>
            ELSE walk[i - 1] \o Unseen(HealthyIn(preferred[i], status), walk[i - 1])
        nearby == walk[Len(preferred)]
    IN  nearby \o Unseen(Healthy(status), nearby)

(* get_nearest_edge: the first healthy edge of the first preferred region  *)
(* that has one, else the first healthy edge, else None.                   *)
NearestEdge(region, status, none) ==
    LET preferred == Preferred(region)
        i == SelectInSeq(preferred, LAMBDA p : HealthyIn(p, status) # {})
    IN  IF i # 0 THEN Head(InConfigOrder(HealthyIn(preferred[i], status)))
        ELSE IF Healthy(status) # {} THEN Head(InConfigOrder(Healthy(status))) ELSE none

-----------------------------------------------------------------------------
(* How near an edge is, the reference the walk is compared with: position  *)
(* of its region in the proximity list, past the end when it is not there. *)
Rank(region, e) ==
    LET i == SelectInSeq(Preferred(region), LAMBDA p : p = RegionOf[e])
    IN  IF i = 0 THEN Len(Preferred(region)) + 1 ELSE i

Position(e) == SelectInSeq(EdgeList, LAMBDA f : f = e)

Nearer(region, e, f) ==
    \/ Rank(region, e) < Rank(region, f)
    \/ Rank(region, e) = Rank(region, f) /\ Position(e) < Position(f)

(* The walk lists every healthy edge once and no other, nearest first, and *)
(* both lookups agree on the nearest.                                      *)
WalkIsByProximity(region, status, none) ==
    LET o == OrderedEdges(region, status)
    IN  /\ ToSet(o) = Healthy(status)
        /\ \A i, j \in DOMAIN o : i < j => Nearer(region, o[i], o[j])
        /\ NearestEdge(region, status, none) = IF o = <<>> THEN none ELSE Head(o)
=============================================================================
