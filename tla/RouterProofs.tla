---------------------------- MODULE RouterProofs ----------------------------
(***************************************************************************)
(* The health state of the router, proved for every list of edges, every   *)
(* failure threshold and any number of overlapping checks and requests.    *)
(***************************************************************************)
EXTENDS Router, KeyOrderProofs

(* The part of TypeOK that the health state needs. *)
HealthTypeOK ==
    /\ status \in [Edges -> BOOLEAN]
    /\ fails \in [Edges -> 0..MaxFailures]

(* The inductive invariant. *)
HealthInv == HealthTypeOK /\ ThresholdMeansUnhealthy

health == <<status, fails>>

-----------------------------------------------------------------------------
(* Marking an edge unhealthy is always safe, counted failures or not. *)
LEMMA MarkUnhealthyKeeps ==
    ASSUME NEW e, HealthInv, MarkUnhealthy(e), UNCHANGED fails
    PROVE  HealthInv'
  BY DEF HealthInv, HealthTypeOK, ThresholdMeansUnhealthy, MarkUnhealthy

(* Counting a failure marks the edge in the step that meets the threshold. *)
LEMMA RecordFailureKeeps ==
    ASSUME NEW e \in Edges, HealthInv, RecordFailure(e)
    PROVE  HealthInv'
  <1>1. fails' \in [Edges -> 0..MaxFailures]
    BY RouterConstants DEF HealthInv, HealthTypeOK, RecordFailure
  <1>2. CASE fails'[e] >= MaxFailures
    <2>1. status' = [status EXCEPT ![e] = FALSE]
      BY <1>2 DEF RecordFailure, MarkUnhealthy
    <2>2. \A f \in Edges \ {e} : fails'[f] = fails[f] /\ status'[f] = status[f]
      BY <2>1 DEF HealthInv, HealthTypeOK, RecordFailure
    <2> QED
      BY <1>1, <2>1, <2>2 DEF HealthInv, HealthTypeOK, ThresholdMeansUnhealthy
  <1>3. CASE ~(fails'[e] >= MaxFailures)
    <2>1. status' = status
      BY <1>3 DEF RecordFailure
    <2>2. \A f \in Edges \ {e} : fails'[f] = fails[f]
      BY DEF HealthInv, HealthTypeOK, RecordFailure
    <2> QED
      BY <1>1, <1>3, <2>1, <2>2 DEF HealthInv, HealthTypeOK, ThresholdMeansUnhealthy
  <1> QED
    BY <1>2, <1>3

(* A 200 resets the counter in the step that puts the edge back. *)
LEMMA MarkHealthyKeeps ==
    ASSUME NEW e \in Edges, HealthInv, MarkHealthy(e)
    PROVE  HealthInv'
  <1>1. fails' \in [Edges -> 0..MaxFailures] /\ status' \in [Edges -> BOOLEAN]
    BY RouterConstants DEF HealthInv, HealthTypeOK, MarkHealthy
  <1>2. fails'[e] = 0 /\ ~(fails'[e] >= MaxFailures)
    BY RouterConstants DEF HealthInv, HealthTypeOK, MarkHealthy
  <1>3. \A f \in Edges \ {e} : fails'[f] = fails[f] /\ status'[f] = status[f]
    BY DEF HealthInv, HealthTypeOK, MarkHealthy
  <1> QED
    BY <1>1, <1>2, <1>3 DEF HealthInv, HealthTypeOK, ThresholdMeansUnhealthy

(* The health state starts out right. *)
LEMMA HealthInit == Init => HealthInv
  BY RouterConstants DEF Init, HealthInv, HealthTypeOK, ThresholdMeansUnhealthy

(* A step that leaves the health state alone keeps it right. *)
LEMMA HealthUnchanged == HealthInv /\ UNCHANGED health => HealthInv'
  BY DEF HealthInv, HealthTypeOK, ThresholdMeansUnhealthy, health

(* So does every other step. *)
LEMMA HealthStep == HealthInv /\ [Next]_vars => HealthInv'
  <1> SUFFICES ASSUME HealthInv, [Next]_vars PROVE HealthInv'
    OBVIOUS
  <1>1. CASE HealthRound
    BY <1>1, HealthUnchanged DEF HealthRound, health
  <1>2. ASSUME NEW e \in Edges, NEW s \in CheckSlots, CheckStep(e, s) PROVE HealthInv'
    <2>1. CASE EdgeAnswersCheck(e, s)
      BY <2>1, HealthUnchanged DEF EdgeAnswersCheck, health
    <2>2. CASE CheckOk(e, s)
      BY <2>2, MarkHealthyKeeps DEF CheckOk
    <2>3. CASE CheckBad(e, s)
      BY <2>3, RecordFailureKeeps DEF CheckBad
    <2>4. CASE CheckTimeout(e, s)
      BY <2>4, RecordFailureKeeps DEF CheckTimeout
    <2>5. CASE CheckEnds(e, s)
      BY <2>5, HealthUnchanged DEF CheckEnds, health
    <2> QED
      BY <1>2, <2>1, <2>2, <2>3, <2>4, <2>5 DEF CheckStep
  <1>3. ASSUME NEW r \in Requests, NEW region \in ClientRegions, Route(r, region)
        PROVE  HealthInv'
    BY <1>3, HealthUnchanged DEF Route, health
  <1>4. ASSUME NEW r \in Requests, EdgeResponds(r) PROVE HealthInv'
    BY <1>4, HealthUnchanged DEF EdgeResponds, health
  <1>5. ASSUME NEW r \in Requests, EdgeFails(r) PROVE HealthInv'
    BY <1>5, MarkUnhealthyKeeps DEF EdgeFails
  <1>6. ASSUME NEW e \in Edges, EdgeChanges(e) PROVE HealthInv'
    BY <1>6, HealthUnchanged DEF EdgeChanges, health
  <1>7. CASE UNCHANGED vars
    BY <1>7, HealthUnchanged DEF vars, health
  <1> QED
    BY <1>1, <1>2, <1>3, <1>4, <1>5, <1>6, <1>7 DEF Next

(* An edge at the failure threshold is marked unhealthy, whatever order    *)
(* overlapping checks and failing requests report in (health_service.py,   *)
(* routing_service.py); a list of edges computed earlier may still have it.*)
THEOREM CounterAgreesWithStatus == Spec => []ThresholdMeansUnhealthy
  <1>1. HealthInv => ThresholdMeansUnhealthy
    BY DEF HealthInv
  <1> QED
    BY HealthInit, HealthStep, <1>1, PTL DEF Spec

-----------------------------------------------------------------------------
(* Where edges are looked for.                                             *)

(* The list of preferred regions is a list. *)
LEMMA PreferredList ==
    ASSUME NEW region
    PROVE  Preferred(region) \in Seq(Regions) /\ Len(Preferred(region)) \in Nat
  <1>1. Preferred(region) \in Seq(Regions)
    BY RoutingConstants DEF Preferred
  <1> QED
    BY <1>1, LenProperties

(* The position of an edge is the one place it stands at. *)
LEMMA PositionIs ==
    ASSUME NEW i \in 1..Len(EdgeList)
    PROVE  Position(EdgeList[i]) = i
  <1> DEFINE I == {j \in 1..Len(EdgeList) : EdgeList[j] = EdgeList[i]}
  <1>1. Len(EdgeList) \in Nat
    BY RoutingConstants, LenProperties
  <1>2. I = {i}
    BY RoutingConstants
  <1>3. Min({i}) = i
    BY <1>1, MinOfNaturals
  <1> QED
    BY <1>2, <1>3 DEF Position, SelectInSeq

(* InConfigOrder lists the edges of S, by position. *)
LEMMA ConfigOrder ==
    ASSUME NEW S \in SUBSET Edges, NEW t, t = InConfigOrder(S)
    PROVE  /\ t \in Seq(Edges)
           /\ ToSet(t) = S
           /\ \A a, b \in 1..Len(t) : a < b => Position(t[a]) < Position(t[b])
  <1>0. EdgeList \in Seq(Edges)
    BY RoutingConstants
  <1>1. t \in Seq(Edges) /\ ToSet(t) = S
    <2>1. t \in Seq(Edges) /\ ToSet(t) = ToSet(EdgeList) \ (Edges \ S)
      BY <1>0, WithoutSet DEF InConfigOrder
    <2> QED
      BY <2>1 DEF Edges
  <1>2. Collected(t, Len(EdgeList), EdgeList, Edges \ S, Edges)
    BY <1>0, WithoutCollected DEF InConfigOrder
  <1>3. ASSUME NEW a \in 1..Len(t), NEW b \in 1..Len(t), a < b
        PROVE  Position(t[a]) < Position(t[b])
    <2>1. PICK c \in 1..Len(EdgeList), d \in 1..Len(EdgeList) :
               c < d /\ EdgeList[c] = t[a] /\ EdgeList[d] = t[b]
      BY <1>2, <1>3 DEF Collected
    <2> QED
      BY <2>1, PositionIs
  <1> QED
    BY <1>1, <1>3

(* The rank of an edge is the first place its region has in the list of    *)
(* preferred regions, or the one past the end.                             *)
LEMMA RankIs ==
    ASSUME NEW region, NEW e
    PROVE  LET p == Preferred(region)
               k == Rank(region, e)
           IN  /\ k \in 1..(Len(p) + 1)
               /\ k # Len(p) + 1 => p[k] = RegionOf[e]
               /\ \A i \in 1..Len(p) : p[i] = RegionOf[e] => k <= i
  <1> DEFINE p == Preferred(region)
             I == {i \in 1..Len(p) : p[i] = RegionOf[e]}
  <1>0. Len(p) \in Nat
    BY PreferredList
  <1>1. Rank(region, e) = IF (IF I # {} THEN Min(I) ELSE 0) = 0
                            THEN Len(p) + 1 ELSE (IF I # {} THEN Min(I) ELSE 0)
    BY DEF Rank, SelectInSeq
  <1>2. I \in SUBSET Nat
    BY <1>0
  <1> HIDE DEF p
  <1>3. CASE I = {}
    BY <1>0, <1>1, <1>3 DEF p
  <1>4. CASE I # {}
    <2>1. Min(I) \in I /\ \A n \in I : Min(I) <= n
      <3> HIDE DEF I
      <3> QED
        BY <1>2, <1>4, MinOfNaturals
    <2>2. Min(I) \in 1..Len(p) /\ p[Min(I)] = RegionOf[e] /\ Min(I) # 0
      BY <2>1, <1>0
    <2>3. Rank(region, e) = Min(I)
      BY <1>1, <1>4, <2>2
    <2>4. \A i \in 1..Len(p) : p[i] = RegionOf[e] => Min(I) <= i
      BY <2>1
    <2> HIDE DEF I
    <2> QED
      BY <1>0, <2>2, <2>3, <2>4 DEF p
  <1> QED
    BY <1>3, <1>4

-----------------------------------------------------------------------------
(* The walk.                                                               *)

(* The healthy edges of rank up to n, nearest first. *)
ByRank(o, n, region, health_of) ==
    /\ o \in Seq(Edges)
    /\ ToSet(o) = {e \in Healthy(health_of) : Rank(region, e) <= n}
    /\ \A i, j \in 1..Len(o) : i < j => Nearer(region, o[i], o[j])

(* Appending the healthy edges of the next rank, in config order. *)
LEMMA NextRank ==
    ASSUME NEW region, NEW h, NEW n \in Nat, NEW o, ByRank(o, n, region, h),
           NEW S, S = {e \in Healthy(h) : Rank(region, e) = n + 1},
           NEW t, t = InConfigOrder(S), NEW u, Joined(u, o, t, Edges)
    PROVE  ByRank(u, n + 1, region, h)
  <1>0. \A e : Rank(region, e) \in Nat
    BY RankIs, PreferredList
  <1>1. S \in SUBSET Edges
    BY DEF Healthy
  <1>2. /\ t \in Seq(Edges) /\ ToSet(t) = S
        /\ \A i, j \in 1..Len(t) : i < j => Position(t[i]) < Position(t[j])
    BY <1>1, ConfigOrder
  <1>3. o \in Seq(Edges)
    BY DEF ByRank
  <1>4. PICK m \in Nat, k \in Nat :
          /\ m = Len(o) /\ k = Len(t)
          /\ u \in Seq(Edges) /\ Len(u) = m + k
          /\ \A i \in 1..m : u[i] = o[i]
          /\ \A i \in 1..k : u[m + i] = t[i]
          /\ \A i \in 1..(m + k) : i \in 1..m \/ \E j \in 1..k : i = m + j
          /\ ToSet(u) = ToSet(o) \cup ToSet(t)
    BY DEF Joined
  <1>5. \A i \in 1..m : Rank(region, o[i]) <= n
    <2>1. \A i \in 1..m : o[i] \in ToSet(o)
      BY <1>3, <1>4, LenProperties DEF ToSet
    <2> QED
      BY <2>1 DEF ByRank
  <1>6. \A i \in 1..k : Rank(region, t[i]) = n + 1
    <2>1. \A i \in 1..k : t[i] \in ToSet(t)
      <3>1. t \in Seq(Edges) /\ k = Len(t)
        BY <1>2, <1>4
      <3> QED
        BY <3>1, LenProperties DEF ToSet
    <2> QED
      BY <2>1, <1>2
  <1>7. ToSet(u) = {e \in Healthy(h) : Rank(region, e) <= n + 1}
    <2>1. ASSUME NEW e
          PROVE  Rank(region, e) <= n + 1 <=> Rank(region, e) <= n \/ Rank(region, e) = n + 1
      BY <1>0
    <2> QED
      BY <2>1, <1>2, <1>4 DEF ByRank
  <1>8. ASSUME NEW i \in 1..(m + k), NEW j \in 1..(m + k), i < j
         PROVE  Nearer(region, u[i], u[j])
    <2>1. CASE i \in 1..m /\ j \in 1..m
      BY <2>1, <1>4, <1>8 DEF ByRank
    <2>2. CASE i \in 1..m /\ j \notin 1..m
      <3>1. PICK b \in 1..k : j = m + b
        BY <2>2, <1>4
      <3>2. u[i] = o[i] /\ u[j] = t[b]
        BY <2>2, <3>1, <1>4
      <3> QED
        <4>1. Rank(region, u[i]) <= n /\ Rank(region, u[j]) = n + 1 /\ Rank(region, u[i]) \in Nat
          BY <2>2, <3>2, <1>0, <1>5, <1>6, Zenon
        <4> QED
          BY <4>1 DEF Nearer
    <2>3. CASE i \notin 1..m
      <3>1. PICK a \in 1..k : i = m + a
        BY <2>3, <1>4
      <3>2. j \notin 1..m
        <4>1. m \in Nat /\ k \in Nat
          BY <1>4
        <4>2. i \in Nat /\ j \in Nat /\ i > m
          BY <4>1, <2>3
        <4> QED
          BY <4>1, <4>2, <1>8
      <3>3. PICK b \in 1..k : j = m + b
        BY <3>2, <1>4
      <3>4. a < b /\ u[i] = t[a] /\ u[j] = t[b]
        BY <3>1, <3>3, <1>4, <1>8
      <3> QED
        <4>1. Position(u[i]) < Position(u[j])
          BY <3>4, <1>2, <1>4
        <4>2. Rank(region, u[i]) = Rank(region, u[j])
          BY <3>4, <1>6
        <4> QED
          BY <4>1, <4>2 DEF Nearer
    <2> QED
      BY <2>1, <2>2, <2>3
  <1> QED
    BY <1>4, <1>7, <1>8 DEF ByRank

(* F is the function OrderedEdges iterates, over the first n regions of p. *)
Walks(F, n, p, health_of) ==
    F = [i \in 0..n |->
           IF i = 0 THEN <<>>
           ELSE F[i - 1] \o InConfigOrder(HealthyIn(p[i], health_of) \ ToSet(F[i - 1]))]

(* There is such a function. *)
LEMMA WalksExists ==
    ASSUME NEW p, NEW h, NEW n \in Nat
    PROVE  \E F : Walks(F, n, p, h)
  <1> DEFINE T == {m \in Nat : ~ \E F : Walks(F, m, p, h)}
             More(o, i) == o \o InConfigOrder(HealthyIn(p[i], h) \ ToSet(o))
  <1> SUFFICES ASSUME T # {} PROVE FALSE
    OBVIOUS
  <1>1. PICK m \in T : \A k \in T : m <= k
    BY LeastNatural
  <1>2. CASE m = 0
    <2>1. Walks([i \in 0..0 |-> <<>>], 0, p, h)
      BY DEF Walks
    <2> QED
      BY <1>1, <1>2, <2>1
  <1>3. CASE m # 0
    <2>1. m \in Nat /\ m - 1 \in Nat /\ m - 1 \notin T
      BY <1>1, <1>3
    <2>2. PICK F : Walks(F, m - 1, p, h)
      BY <2>1
    <2> DEFINE G == [i \in 0..m |-> IF i = m THEN More(F[m - 1], m) ELSE F[i]]
    <2>3. \A i \in 0..(m - 1) : G[i] = F[i]
      BY <2>1
    <2>4. ASSUME NEW i \in 0..m PROVE G[i] = IF i = 0 THEN <<>> ELSE More(G[i - 1], i)
      <3>1. CASE i = m
        <4>1. G[m] = More(F[m - 1], m) /\ G[m - 1] = F[m - 1]
          BY <2>1, <2>3
        <4> QED
          BY <3>1, <4>1, <1>3
      <3>2. CASE i # m
        <4>1. i \in 0..(m - 1) /\ (i # 0 => i - 1 \in 0..(m - 1))
          BY <2>1, <3>2
        <4>2. F[i] = IF i = 0 THEN <<>> ELSE More(F[i - 1], i)
          BY <2>2, <4>1 DEF Walks
        <4> HIDE DEF G
        <4> QED
          BY <2>3, <4>1, <4>2
      <3> QED
        BY <3>1, <3>2
    <2>5. G = [i \in 0..m |-> G[i]]
      OBVIOUS
    <2> HIDE DEF G
    <2>6. Walks(G, m, p, h)
      BY <2>4, <2>5 DEF Walks
    <2> QED
      BY <1>1, <2>6
  <1> QED
    BY <1>2, <1>3

(* After i regions the walk has the healthy edges of rank up to i. *)
LEMMA WalkByRank ==
    ASSUME NEW region, NEW h, NEW F, NEW p, p = Preferred(region), Walks(F, Len(p), p, h),
           NEW n \in 0..Len(p)
    PROVE  ByRank(F[n], n, region, h)
  <1> DEFINE T == {i \in 0..Len(p) : ~ ByRank(F[i], i, region, h)}
  <1>0. Len(p) \in Nat
    BY PreferredList
  <1>1. \A i \in 0..Len(p) :
          F[i] = IF i = 0 THEN <<>>
                 ELSE F[i - 1] \o InConfigOrder(HealthyIn(p[i], h) \ ToSet(F[i - 1]))
    BY DEF Walks
  <1>r. \A e : /\ Rank(region, e) \in 1..(Len(p) + 1)
               /\ Rank(region, e) # Len(p) + 1 => p[Rank(region, e)] = RegionOf[e]
               /\ \A i \in 1..Len(p) : p[i] = RegionOf[e] => Rank(region, e) <= i
    BY RankIs
  <1> SUFFICES ASSUME T # {} PROVE FALSE
    OBVIOUS
  <1>2. PICK m \in T : \A k \in T : m <= k
    <2>1. T \in SUBSET Nat
      BY <1>0
    <2> HIDE DEF T
    <2> QED
      BY <2>1, LeastNatural
  <1>3. CASE m = 0
    <2>1. F[0] = <<>>
      <3>1. 0 \in 0..Len(p)
        BY <1>0
      <3> QED
        BY <3>1, <1>1, Zenon
    <2>2. ByRank(<<>>, 0, region, h)
      <3>1. <<>> \in Seq(Edges) /\ ToSet(<<>>) = {} /\ Len(<<>>) = 0
        BY DEF ToSet
      <3>2. \A e : ~ (Rank(region, e) <= 0)
        BY <1>r, <1>0
      <3> QED
        BY <3>1, <3>2 DEF ByRank
    <2> QED
      BY <1>2, <1>3, <2>1, <2>2
  <1>4. CASE m # 0
    <2>1. m \in 1..Len(p) /\ m - 1 \in 0..Len(p) /\ m - 1 \in Nat /\ ~ (m <= m - 1)
          /\ (m - 1) + 1 = m
      BY <1>0, <1>2, <1>4
    <2>2. PICK o, S, t, u :
            /\ o = F[m - 1] /\ S = HealthyIn(p[m], h) \ ToSet(F[m - 1])
            /\ t = InConfigOrder(S) /\ u = F[m]
      OBVIOUS
    <2>3. ByRank(o, m - 1, region, h)
      BY <1>2, <2>1, <2>2
    <2>4. S = {e \in Healthy(h) : Rank(region, e) = m}
      <3>1. ASSUME NEW e \in Healthy(h)
            PROVE  e \in S <=> Rank(region, e) = m
        <4>1. e \in S <=> RegionOf[e] = p[m] /\ ~ (Rank(region, e) <= m - 1)
          BY <2>2, <2>3 DEF HealthyIn, ByRank
        <4>2. RegionOf[e] = p[m] => Rank(region, e) <= m
          BY <1>r, <2>1
        <4>3. Rank(region, e) = m => RegionOf[e] = p[m]
          BY <1>r, <2>1, <1>0
        <4>4. Rank(region, e) \in Nat /\ m \in Nat
          BY <1>r, <1>0, <2>1
        <4> QED
          BY <4>1, <4>2, <4>3, <4>4
      <3>2. S \subseteq Healthy(h)
        BY <2>2 DEF HealthyIn
      <3> QED
        BY <3>1, <3>2
    <2>5. u = o \o t
      BY <1>1, <1>2, <1>4, <2>2
    <2>6. o \in Seq(Edges) /\ t \in Seq(Edges)
      <3>1. S \in SUBSET Edges
        BY <2>4 DEF Healthy
      <3>2. t \in Seq(Edges)
        BY <3>1, <2>2, ConfigOrder
      <3> QED
        BY <3>2, <2>3 DEF ByRank
    <2>7. Joined(u, o, t, Edges)
      BY <2>5, <2>6, Concatenated
    <2>8. ByRank(u, m, region, h)
      <3>1. S = {e \in Healthy(h) : Rank(region, e) = (m - 1) + 1}
        BY <2>1, <2>4
      <3>2. ByRank(u, (m - 1) + 1, region, h)
        BY <2>1, <2>2, <2>3, <2>7, <3>1, NextRank
      <3> QED
        BY <2>1, <3>2
    <2> QED
      BY <1>2, <2>2, <2>8
  <1> QED
    BY <1>3, <1>4

(* The whole walk lists the healthy edges, nearest first. *)
LEMMA OrderedByRank ==
    ASSUME NEW region, NEW h
    PROVE  ByRank(OrderedEdges(region, h), Len(Preferred(region)) + 1, region, h)
  <1> DEFINE p == Preferred(region)
             n == Len(p)
             F == CHOOSE f : Walks(f, n, p, h)
             o == F[n]
             t == InConfigOrder(Healthy(h) \ ToSet(o))
  <1>0. n \in Nat
    BY PreferredList
  <1>1. Walks(F, n, p, h)
    <2> HIDE DEF n, p
    <2> QED
      BY <1>0, WalksExists
  <1>2. OrderedEdges(region, h) = o \o t
    BY DEF OrderedEdges, Walks
  <1> HIDE DEF F, n
  <1>3. ByRank(o, n, region, h)
    BY <1>0, <1>1, WalkByRank DEF n
  <1> HIDE DEF o
  <1>4. Healthy(h) \ ToSet(o) = {e \in Healthy(h) : Rank(region, e) = n + 1}
    <2>1. \A e : Rank(region, e) \in 1..(n + 1)
      BY RankIs DEF n
    <2>2. \A e : ~ (Rank(region, e) <= n) <=> Rank(region, e) = n + 1
      BY <1>0, <2>1
    <2> QED
      BY <1>3, <2>2 DEF ByRank
  <1>5. PICK S : S = Healthy(h) \ ToSet(o)
    OBVIOUS
  <1>6. o \in Seq(Edges) /\ t \in Seq(Edges) /\ t = InConfigOrder(S)
    <2>1. S \in SUBSET Edges
      BY <1>5 DEF Healthy
    <2>2. t = InConfigOrder(S)
      BY <1>5
    <2> HIDE DEF t
    <2>3. t \in Seq(Edges)
      BY <2>1, <2>2, ConfigOrder
    <2> QED
      BY <1>3, <2>2, <2>3 DEF ByRank
  <1> HIDE DEF t
  <1>7. Joined(o \o t, o, t, Edges)
    BY <1>6, Concatenated
  <1>8. ByRank(o \o t, n + 1, region, h)
    BY <1>0, <1>3, <1>4, <1>5, <1>6, <1>7, NextRank
  <1> QED
    BY <1>2, <1>8 DEF n

-----------------------------------------------------------------------------
(* The nearest edge.                                                       *)

(* Two edges are never each nearer than the other. *)
LEMMA NearerOneWay ==
    ASSUME NEW region, NEW e \in Edges, NEW f \in Edges,
           Nearer(region, e, f), Nearer(region, f, e)
    PROVE  FALSE
  <1>1. Rank(region, e) \in Nat /\ Rank(region, f) \in Nat
    BY RankIs, PreferredList
  <1>2. Position(e) \in Nat /\ Position(f) \in Nat
    <2>1. DOMAIN EdgeList = 1..Len(EdgeList) /\ Len(EdgeList) \in Nat
      BY RoutingConstants, LenProperties
    <2>2. PICK i \in 1..Len(EdgeList), j \in 1..Len(EdgeList) : e = EdgeList[i] /\ f = EdgeList[j]
      BY <2>1 DEF Edges, ToSet
    <2> QED
      BY <2>1, <2>2, PositionIs
  <1> QED
    BY <1>1, <1>2 DEF Nearer

(* The first of the edges of S in config order comes before the others. *)
LEMMA FirstInConfigOrder ==
    ASSUME NEW S \in SUBSET Edges, S # {}, NEW f, f = Head(InConfigOrder(S))
    PROVE  f \in S /\ \A e \in S \ {f} : Position(f) < Position(e)
  <1>0. PICK t : t = InConfigOrder(S)
    OBVIOUS
  <1>1. /\ t \in Seq(Edges) /\ ToSet(t) = S
        /\ \A a, b \in 1..Len(t) : a < b => Position(t[a]) < Position(t[b])
    BY <1>0, ConfigOrder
  <1>2. Len(t) \in Nat /\ DOMAIN t = 1..Len(t)
    BY <1>1, LenProperties
  <1>3. \A e : e \in S <=> \E i \in 1..Len(t) : t[i] = e
    BY <1>1, <1>2 DEF ToSet
  <1>4. 1 \in 1..Len(t)
    BY <1>2, <1>3
  <1>5. f = t[1]
    <2>1. t # <<>>
      BY <1>2, <1>4
    <2> QED
      BY <1>0, <1>1, <2>1, HeadTailProperties
  <1>6. ASSUME NEW e \in S \ {f} PROVE Position(f) < Position(e)
    <2>1. PICK i \in 1..Len(t) : t[i] = e
      BY <1>3
    <2>2. 1 < i
      BY <1>2, <1>5, <1>6, <2>1
    <2> QED
      BY <1>1, <1>4, <1>5, <2>1, <2>2
  <1> QED
    BY <1>3, <1>4, <1>5, <1>6

(* get_nearest_edge returns a healthy edge nearer than every other, if any *)
(* is healthy.                                                             *)
LEMMA NearestIsNearest ==
    ASSUME NEW region, NEW h, NEW none, Healthy(h) # {},
           NEW f, f = NearestEdge(region, h, none)
    PROVE  f \in Healthy(h) /\ \A e \in Healthy(h) \ {f} : Nearer(region, f, e)
  <1>0. PICK p, n : p = Preferred(region) /\ n = Len(p)
    OBVIOUS
  <1>1. n \in Nat
    BY <1>0, PreferredList
  <1>r. \A e : /\ Rank(region, e) \in 1..(n + 1)
               /\ Rank(region, e) # n + 1 => p[Rank(region, e)] = RegionOf[e]
               /\ \A i \in 1..n : p[i] = RegionOf[e] => Rank(region, e) <= i
    BY <1>0, RankIs
  <1> DEFINE I == {i \in 1..n : HealthyIn(p[i], h) # {}}
  <1>2. f = IF (IF I # {} THEN Min(I) ELSE 0) # 0
              THEN Head(InConfigOrder(HealthyIn(p[IF I # {} THEN Min(I) ELSE 0], h)))
              ELSE Head(InConfigOrder(Healthy(h)))
    BY <1>0 DEF NearestEdge, SelectInSeq
  <1>3. I \in SUBSET Nat /\ \A i \in I : i \in 1..n /\ HealthyIn(p[i], h) # {}
    BY <1>1
  <1>4. \A i \in 1..n : HealthyIn(p[i], h) # {} => i \in I
    OBVIOUS
  <1> HIDE DEF I
  <1>5. \A e \in Healthy(h) : Rank(region, e) # n + 1 => Rank(region, e) \in I
    <2>1. ASSUME NEW e \in Healthy(h), Rank(region, e) # n + 1 PROVE Rank(region, e) \in I
      <3>1. Rank(region, e) \in 1..n
        BY <1>r, <1>1, <2>1
      <3>2. e \in HealthyIn(p[Rank(region, e)], h)
        BY <1>r, <2>1 DEF HealthyIn
      <3> QED
        BY <1>4, <3>1, <3>2
    <2> QED
      BY <2>1
  <1>6. CASE I = {}
    <2>1. f = Head(InConfigOrder(Healthy(h)))
      BY <1>2, <1>6
    <2>2. f \in Healthy(h) /\ \A e \in Healthy(h) \ {f} : Position(f) < Position(e)
      BY <2>1, FirstInConfigOrder DEF Healthy
    <2>3. \A e \in Healthy(h) : Rank(region, e) = n + 1
      BY <1>5, <1>6
    <2> QED
      BY <2>2, <2>3 DEF Nearer
  <1>7. CASE I # {}
    <2>1. PICK m : m = Min(I)
      OBVIOUS
    <2>2. m \in I /\ \A i \in I : m <= i
      BY <1>3, <1>7, <2>1, MinOfNaturals
    <2>3. m \in 1..n /\ m # 0 /\ HealthyIn(p[m], h) # {}
      BY <1>1, <1>3, <2>2
    <2>4. f = Head(InConfigOrder(HealthyIn(p[m], h)))
      BY <1>2, <1>7, <2>1, <2>3, Zenon
    <2>5. f \in HealthyIn(p[m], h) /\ \A e \in HealthyIn(p[m], h) \ {f} : Position(f) < Position(e)
      <3>1. HealthyIn(p[m], h) \in SUBSET Edges
        BY DEF HealthyIn, Healthy
      <3> QED
        BY <3>1, <2>3, <2>4, FirstInConfigOrder
    <2>6. ASSUME NEW e \in Healthy(h)
          PROVE  /\ Rank(region, e) \in Nat /\ m <= Rank(region, e)
                 /\ Rank(region, e) = m <=> e \in HealthyIn(p[m], h)
      <3>1. Rank(region, e) \in Nat /\ m <= Rank(region, e)
        BY <1>r, <1>1, <1>5, <2>2, <2>3
      <3>2. e \in HealthyIn(p[m], h) => Rank(region, e) <= m
        BY <1>r, <2>3 DEF HealthyIn
      <3>3. Rank(region, e) = m => e \in HealthyIn(p[m], h)
        BY <1>r, <1>1, <2>3 DEF HealthyIn
      <3> QED
        BY <3>1, <3>2, <3>3, <2>3
    <2>7. f \in Healthy(h)
      BY <2>5 DEF HealthyIn
    <2>8. Rank(region, f) = m
      BY <2>5, <2>6, <2>7
    <2>9. ASSUME NEW e \in Healthy(h) \ {f} PROVE Nearer(region, f, e)
      <3>1. CASE Rank(region, e) = m
        BY <2>5, <2>6, <2>8, <3>1 DEF Nearer
      <3>2. CASE Rank(region, e) # m
        <4>1. m < Rank(region, e)
          BY <2>3, <2>6, <3>2
        <4> QED
          BY <2>8, <4>1 DEF Nearer
      <3> QED
        BY <3>1, <3>2
    <2> QED
      BY <2>7, <2>9
  <1> QED
    BY <1>6, <1>7

(* The walk is by proximity whatever the health of the edges. *)
LEMMA WalkCorrect ==
    ASSUME NEW region, NEW h, NEW none
    PROVE  WalkIsByProximity(region, h, none)
  <1>0. PICK o : o = OrderedEdges(region, h)
    OBVIOUS
  <1>1. ByRank(o, Len(Preferred(region)) + 1, region, h)
    BY <1>0, OrderedByRank
  <1>2. o \in Seq(Edges) /\ DOMAIN o = 1..Len(o) /\ Len(o) \in Nat
    BY <1>1, LenProperties DEF ByRank
  <1>3. ToSet(o) = Healthy(h)
    <2>1. \A e : Rank(region, e) <= Len(Preferred(region)) + 1
      BY RankIs, PreferredList
    <2> QED
      BY <1>1, <2>1 DEF ByRank
  <1>4. \A i, j \in DOMAIN o : i < j => Nearer(region, o[i], o[j])
    BY <1>1, <1>2 DEF ByRank
  <1>5. NearestEdge(region, h, none) = IF o = <<>> THEN none ELSE Head(o)
    <2>1. CASE o = <<>>
      <3>1. Healthy(h) = {}
        <4>1. ToSet(<<>>) = {}
          BY DEF ToSet
        <4> QED
          BY <1>3, <2>1, <4>1
      <3>2. \A r : HealthyIn(r, h) = {}
        BY <3>1 DEF HealthyIn
      <3>3. NearestEdge(region, h, none) = none
        BY <3>1, <3>2 DEF NearestEdge, SelectInSeq
      <3> QED
        BY <2>1, <3>3
    <2>2. CASE o # <<>>
      <3>1. 1 \in 1..Len(o) /\ Head(o) = o[1]
        BY <1>2, <2>2, HeadTailProperties, EmptySeq
      <3>2. PICK f : f = NearestEdge(region, h, none)
        OBVIOUS
      <3>3. Head(o) \in Healthy(h)
        BY <1>2, <1>3, <3>1 DEF ToSet
      <3>4. f \in Healthy(h) /\ \A e \in Healthy(h) \ {f} : Nearer(region, f, e)
        BY <3>2, <3>3, NearestIsNearest
      <3>5. ASSUME f # Head(o) PROVE FALSE
        <4>1. PICK i \in 1..Len(o) : o[i] = f
          BY <1>2, <1>3, <3>4 DEF ToSet
        <4>2. 1 < i
          BY <1>2, <3>1, <3>5, <4>1
        <4>3. Nearer(region, Head(o), f)
          BY <1>2, <1>4, <3>1, <4>1, <4>2
        <4>4. Nearer(region, f, Head(o))
          BY <3>3, <3>4, <3>5
        <4>5. f \in Edges /\ Head(o) \in Edges
          BY <3>3, <3>4 DEF Healthy
        <4> QED
          BY <4>3, <4>4, <4>5, NearerOneWay
      <3> QED
        BY <2>2, <3>2, <3>5
    <2> QED
      BY <2>1, <2>2
  <1> QED
    BY <1>0, <1>3, <1>4, <1>5 DEF WalkIsByProximity

(* The edges a request may try are the healthy ones, each once, nearest    *)
(* first along the proximity table, and get_nearest_edge agrees with the   *)
(* walk of get_ordered_edges, for every table, list of edges and health    *)
(* state (routing_service.py).                                             *)
THEOREM RoutingIsByProximity == Spec => []RoutesByProximity
  <1>1. RoutesByProximity
    BY WalkCorrect DEF RoutesByProximity
  <1> QED
    BY <1>1, PTL

-----------------------------------------------------------------------------
(* Requests stay on their list.                                            *)

(* A request holds a list of configured edges and its place on it. *)
OnList(q) == q = Idle \/ q.i \in 1..Len(q.order)

RequestOK ==
    /\ request \in [Requests -> [order : Seq(Edges), i : Nat]]
    /\ \A r \in Requests : OnList(request[r])

(* The inductive invariant. *)
RouterInv ==
    /\ HealthInv
    /\ check \in [Edges -> [CheckSlots -> CheckStates]]
    /\ up \in [Edges -> BOOLEAN]
    /\ RequestOK

(* The list a new request gets is not empty and it starts at its head. *)
LEMMA NewRequest ==
    ASSUME NEW region, NEW h, NEW order, order = OrderedEdges(region, h), order # <<>>,
           NEW q, q = [order |-> SubSeq(order, 1, Attempts(order)), i |-> 1]
    PROVE  q \in [order : Seq(Edges), i : Nat] /\ OnList(q)
  <1>1. order \in Seq(Edges)
    BY OrderedByRank DEF ByRank
  <1>2. Len(order) \in Nat /\ Len(order) # 0
    BY <1>1, LenProperties, EmptySeq
  <1>3. Attempts(order) \in 1..Len(order)
    BY <1>2, RouterConstants DEF Attempts
  <1>4. PICK n, t : n = Attempts(order) /\ t = SubSeq(order, 1, n)
    OBVIOUS
  <1>5. t \in Seq(Edges) /\ Len(t) = n
    BY <1>1, <1>2, <1>3, <1>4, SubSeqProperties
  <1>6. q.order = t /\ q.i = 1 /\ q \in [order : Seq(Edges), i : Nat]
    BY <1>4, <1>5
  <1> QED
    BY <1>3, <1>4, <1>5, <1>6 DEF OnList

(* Failing over stays on the list. *)
LEMMA FailOverOnList ==
    ASSUME RequestOK, NEW r \in Requests
    PROVE  FailOver(r) \in [order : Seq(Edges), i : Nat] /\ OnList(FailOver(r))
  <1>0. PICK q : q = request[r]
    OBVIOUS
  <1>1. q \in [order : Seq(Edges), i : Nat] /\ Len(q.order) \in Nat /\ OnList(q)
    BY <1>0, LenProperties DEF RequestOK
  <1>2. Idle \in [order : Seq(Edges), i : Nat] /\ OnList(Idle)
    BY DEF Idle, OnList
  <1>3. CASE q.i < Len(q.order)
    <2>1. PICK s : s = [q EXCEPT !.i = q.i + 1]
      OBVIOUS
    <2>2. s \in [order : Seq(Edges), i : Nat] /\ s.order = q.order /\ s.i = q.i + 1
      BY <1>1, <2>1
    <2>3. OnList(s)
      BY <1>1, <1>3, <2>2 DEF OnList
    <2>4. FailOver(r) = s
      BY <1>0, <1>3, <2>1 DEF FailOver
    <2> QED
      BY <2>2, <2>3, <2>4
  <1>4. CASE ~ (q.i < Len(q.order))
    BY <1>0, <1>2, <1>4 DEF FailOver
  <1> QED
    BY <1>3, <1>4

(* Replacing one request by another on its list keeps this up. *)
LEMMA RequestReplaced ==
    ASSUME RequestOK, NEW r \in Requests, NEW q \in [order : Seq(Edges), i : Nat], OnList(q),
           request' = [request EXCEPT ![r] = q]
    PROVE  RequestOK'
  <1>1. request' \in [Requests -> [order : Seq(Edges), i : Nat]]
    BY DEF RequestOK
  <1>2. ASSUME NEW x \in Requests PROVE OnList(request'[x])
    BY DEF RequestOK
  <1>3. \A x \in Requests : OnList(request[x])'
    BY <1>2 DEF OnList, Idle
  <1> QED
    BY <1>1, <1>3 DEF RequestOK

(* Recording the state of a check keeps checks typed. *)
LEMMA SetCheckTyped ==
    ASSUME check \in [Edges -> [CheckSlots -> CheckStates]],
           NEW e \in Edges, NEW s \in CheckSlots, NEW c \in CheckStates, SetCheck(e, s, c)
    PROVE  check' \in [Edges -> [CheckSlots -> CheckStates]]
  BY DEF SetCheck

(* Every action that leaves requests alone leaves them on their lists. *)
LEMMA RequestKept == RequestOK /\ UNCHANGED request => RequestOK'
  BY DEF RequestOK, OnList, Idle

(* The invariant holds initially. *)
LEMMA RouterInit == Init => RouterInv
  <1> SUFFICES ASSUME Init PROVE RouterInv
    OBVIOUS
  <1>1. Idle \in [order : Seq(Edges), i : Nat]
    BY DEF Idle
  <1>2. RequestOK
    BY <1>1 DEF Init, RequestOK, OnList
  <1>3. check \in [Edges -> [CheckSlots -> CheckStates]] /\ up \in [Edges -> BOOLEAN]
    BY DEF Init, CheckStates
  <1> QED
    BY <1>2, <1>3, HealthInit DEF RouterInv

(* Every step keeps it. *)
LEMMA RouterStep == RouterInv /\ [Next]_vars => RouterInv'
  <1> SUFFICES ASSUME RouterInv, [Next]_vars PROVE RouterInv'
    OBVIOUS
  <1> DEFINE Checks == [Edges -> [CheckSlots -> CheckStates]]
  <1>0. /\ HealthInv /\ RequestOK
        /\ check \in Checks /\ up \in [Edges -> BOOLEAN]
    BY DEF RouterInv
  <1>h. HealthInv'
    BY <1>0, HealthStep
  <1>k. ASSUME check' \in Checks, UNCHANGED <<request, up>> PROVE RouterInv'
    BY <1>0, <1>h, <1>k, RequestKept DEF RouterInv
  <1>q. ASSUME RequestOK', UNCHANGED <<check, up>> PROVE RouterInv'
    BY <1>0, <1>h, <1>q DEF RouterInv
  <1>1. CASE HealthRound
    <2>1. PICK slot \in [Edges -> CheckSlots] :
            /\ check' = [e \in Edges |-> [check[e] EXCEPT ![slot[e]] = "sent"]]
            /\ UNCHANGED <<request, up>>
      BY <1>1 DEF HealthRound
    <2>2. check' \in Checks
      BY <1>0, <2>1 DEF CheckStates
    <2> QED
      BY <1>k, <2>1, <2>2
  <1>2. ASSUME NEW e \in Edges, NEW s \in CheckSlots, CheckStep(e, s) PROVE RouterInv'
    <2>1. \E c \in CheckStates : SetCheck(e, s, c)
      BY <1>2 DEF CheckStep, EdgeAnswersCheck, CheckOk, CheckBad, CheckTimeout, CheckEnds,
                  CheckStates
    <2>2. UNCHANGED <<request, up>>
      BY <1>2 DEF CheckStep, EdgeAnswersCheck, CheckOk, CheckBad, CheckTimeout, CheckEnds
    <2>3. check' \in Checks
      BY <1>0, <2>1, SetCheckTyped
    <2> QED
      BY <1>k, <2>2, <2>3
  <1>3. ASSUME NEW r \in Requests, NEW region \in ClientRegions, Route(r, region)
        PROVE  RouterInv'
    <2>1. PICK order, q :
            /\ order = OrderedEdges(region, status) /\ order # <<>>
            /\ q = [order |-> SubSeq(order, 1, Attempts(order)), i |-> 1]
            /\ request' = [request EXCEPT ![r] = q]
            /\ UNCHANGED <<check, up>>
      BY <1>3 DEF Route
    <2>2. q \in [order : Seq(Edges), i : Nat] /\ OnList(q)
      BY <2>1, NewRequest
    <2>3. RequestOK'
      BY <1>0, <2>1, <2>2, RequestReplaced
    <2> QED
      BY <1>q, <2>1, <2>3
  <1>4. ASSUME NEW r \in Requests, EdgeResponds(r) PROVE RouterInv'
    <2>1. Idle \in [order : Seq(Edges), i : Nat] /\ OnList(Idle)
      BY DEF Idle, OnList
    <2>2. RequestOK'
      BY <1>0, <1>4, <2>1, RequestReplaced DEF EdgeResponds
    <2> QED
      BY <1>q, <1>4, <2>2 DEF EdgeResponds
  <1>5. ASSUME NEW r \in Requests, EdgeFails(r) PROVE RouterInv'
    <2>1. FailOver(r) \in [order : Seq(Edges), i : Nat] /\ OnList(FailOver(r))
      BY <1>0, FailOverOnList
    <2>2. RequestOK'
      BY <1>0, <1>5, <2>1, RequestReplaced DEF EdgeFails
    <2> QED
      BY <1>q, <1>5, <2>2 DEF EdgeFails
  <1>6. ASSUME NEW e \in Edges, EdgeChanges(e) PROVE RouterInv'
    <2>1. RequestOK'
      BY <1>0, <1>6, RequestKept DEF EdgeChanges
    <2>2. check' \in Checks /\ up' \in [Edges -> BOOLEAN]
      BY <1>0, <1>6 DEF EdgeChanges
    <2> QED
      BY <1>h, <2>1, <2>2 DEF RouterInv
  <1>7. CASE UNCHANGED vars
    BY <1>0, <1>k, <1>7 DEF vars
  <1> QED
    BY <1>1, <1>2, <1>3, <1>4, <1>5, <1>6, <1>7 DEF Next

(* The router's state keeps its types: a proxied request never runs off    *)
(* the end of the list it computed at its start, whatever becomes of the   *)
(* edges on it meanwhile (router/routes.py, _proxy_to_edge).               *)
THEOREM RouterTypeCorrect == Spec => []TypeOK
  <1>1. RouterInv => TypeOK
    <2> SUFFICES ASSUME RouterInv PROVE TypeOK
      OBVIOUS
    <2>1. ASSUME NEW r \in Requests
          PROVE  request[r] = Idle \/ request[r].i \in DOMAIN request[r].order
      <3>1. request[r].order \in Seq(Edges) /\ OnList(request[r])
        BY DEF RouterInv, RequestOK
      <3> QED
        BY <3>1, LenProperties DEF OnList
    <2> QED
      BY <2>1 DEF RouterInv, HealthInv, HealthTypeOK, TypeOK
  <1> QED
    BY RouterInit, RouterStep, <1>1, PTL DEF Spec
=============================================================================
