----------------------------- MODULE CdnProofs -----------------------------
(***************************************************************************)
(* What a purge guarantees in a network of any shape: any nodes, behind    *)
(* any shields (also shields behind shields), any list of URLs to call,    *)
(* any files and any number of their versions.                             *)
(***************************************************************************)
EXTENDS Cdn, SequenceTheorems, TLAPS

-----------------------------------------------------------------------------
(* The inductive invariants.                                               *)

(* store and flight are functions: TypeOK speaks of their values only. *)
Shapes ==
    /\ store \in [Nodes -> [Keys -> Versions \cup {None}]]
    /\ flight \in [Nodes -> [Keys -> Versions \cup {NoFlight, Asking}]]

CdnTypeInv ==
    /\ Shapes
    /\ TypeOK
    /\ \A p \in Paths : since[p] <= origin[p]

(* What node n holds, and what it is about to store, is not older than the *)
(* purge.                                                                  *)
Fresh(n, k) ==
    /\ store[n][k] = None \/ store[n][k] >= since[PathOf[k]]
    /\ flight[n][k] \in {NoFlight, Asking} \/ flight[n][k] >= since[PathOf[k]]

(* The settled keys are part of a set of fresh ones that is closed under   *)
(* fetching: whatever a member may be fetched from is the origin or again  *)
(* a member.  (The settled keys themselves are not closed: a second call   *)
(* to a shield that is fetching by then unsettles its key.)                *)
FreshSet(H) ==
    /\ \A n \in Nodes : \A k \in clean[n] : <<n, k>> \in H
    /\ \A n \in Nodes, k \in Keys : <<n, k>> \in H =>
         /\ Fresh(n, k)
         /\ Upstream[n] = Origin \/ <<Upstream[n], ShieldKey(k)>> \in H

PurgeInv == \E H \in SUBSET (Nodes \X Keys) : FreshSet(H)

-----------------------------------------------------------------------------
(* Keys and paths.                                                         *)

(* What stands where in a key: the path after the first piece, the mark of *)
(* the varying headers after the path.                                     *)
LEMMA KeyPieces ==
  ASSUME NEW p \in Paths, NEW a \in Accepts
  PROVE  /\ Len(Key(p, a)) = IF a = None THEN Len(p) + 1 ELSE Len(p) + 3
         /\ \A i \in 1..Len(p) : Key(p, a)[i + 1] = p[i]
         /\ a # None => Key(p, a)[Len(p) + 2] = "|vary="
<1> DEFINE S == STRING \cup {"GET:", "|vary=", a}
           head == <<"GET:">>
           start == head \o p
           end == IF a = None THEN <<>> ELSE <<"|vary=", a>>
<1>1. p \in Seq(S) /\ Len(p) \in Nat
  BY CdnConstants, SeqMonotonic, LenProperties
<1>s. "GET:" \in S /\ "|vary=" \in S /\ a \in S
  OBVIOUS
<1> HIDE DEF S
<1>2. head \in Seq(S) /\ Len(head) = 1
  BY <1>s
<1>3. /\ end \in Seq(S)
      /\ a # None => Len(end) = 2 /\ end[1] = "|vary="
      /\ a = None => Len(end) = 0
  <2>1. CASE a = None
    BY <2>1
  <2>2. CASE a # None
    <3>1. end = <<"|vary=", a>>
      BY <2>2
    <3>2. <<"|vary=", a>> \in Seq(S)
      BY <1>s
    <3> QED BY <2>2, <3>1, <3>2
  <2> QED BY <2>1, <2>2
<1>4. Key(p, a) = start \o end
  BY DEF Key
<1> HIDE DEF head, end
<1>5. /\ start \in Seq(S)
      /\ Len(start) = Len(p) + 1
      /\ \A i \in 1..(Len(p) + 1) : start[i] = IF i <= 1 THEN head[i] ELSE p[i - 1]
  BY <1>1, <1>2, ConcatProperties
<1> HIDE DEF start
<1>6. /\ Len(start \o end) = Len(start) + Len(end)
      /\ \A i \in 1..(Len(start) + Len(end)) :
           (start \o end)[i] = IF i <= Len(start) THEN start[i] ELSE end[i - Len(start)]
  BY <1>3, <1>5, ConcatProperties
<1>7. Len(end) \in Nat
  BY <1>3, LenProperties
<1>8. ASSUME NEW i \in 1..Len(p) PROVE Key(p, a)[i + 1] = p[i]
  <2>1. i + 1 \in 1..(Len(p) + 1) /\ i + 1 \in 1..(Len(start) + Len(end))
        /\ i + 1 <= Len(start) /\ ~ (i + 1 <= 1) /\ (i + 1) - 1 = i
    BY <1>1, <1>5, <1>7
  <2>2. start[i + 1] = p[i]
    BY <1>5, <2>1
  <2> QED BY <1>4, <1>6, <2>1, <2>2
<1>9. ASSUME a # None PROVE Key(p, a)[Len(p) + 2] = "|vary="
  <2>1. Len(end) = 2 /\ end[1] = "|vary="
    BY <1>3, <1>9
  <2>2. Len(p) + 2 \in 1..(Len(start) + Len(end)) /\ ~ (Len(p) + 2 <= Len(start))
        /\ (Len(p) + 2) - Len(start) = 1
    BY <1>1, <1>5, <2>1
  <2> QED BY <1>4, <1>6, <2>1, <2>2
<1>10. Len(Key(p, a)) = IF a = None THEN Len(p) + 1 ELSE Len(p) + 3
  <2>1. CASE a = None
    <3>1. Len(end) = 0
      BY <1>3, <2>1
    <3>2. Len(Key(p, a)) = Len(p) + 1
      BY <1>1, <1>4, <1>5, <1>6, <3>1
    <3> QED BY <2>1, <3>2
  <2>2. CASE a # None
    <3>1. Len(end) = 2
      BY <1>3, <2>2
    <3>2. Len(Key(p, a)) = Len(p) + 3
      BY <1>1, <1>4, <1>5, <1>6, <3>1
    <3> QED BY <2>2, <3>2
  <2> QED BY <2>1, <2>2
<1> QED BY <1>8, <1>9, <1>10

(* No two paths share a key: no path contains the mark. *)
LEMMA KeyNamesPath ==
  ASSUME NEW p \in Paths, NEW a \in Accepts, NEW q \in Paths, NEW b \in Accepts,
         Key(p, a) = Key(q, b)
  PROVE  p = q
<1>0. /\ p \in Seq(STRING) /\ \A i \in 1..Len(p) : p[i] # "|vary="
      /\ q \in Seq(STRING) /\ \A i \in 1..Len(q) : q[i] # "|vary="
  BY CdnConstants DEF Range
<1>1. Len(p) \in Nat /\ Len(q) \in Nat
  BY <1>0
<1>2. Len(p) = Len(q)
  <2>1. a # None /\ b = None => FALSE
    <3> SUFFICES ASSUME a # None, b = None PROVE FALSE
      OBVIOUS
    <3>1. Len(q) = Len(p) + 2
      BY <1>1, KeyPieces
    <3>2. q[Len(p) + 1] = "|vary="
      BY <1>1, <3>1, KeyPieces
    <3> QED BY <1>0, <1>1, <3>1, <3>2
  <2>2. b # None /\ a = None => FALSE
    <3> SUFFICES ASSUME b # None, a = None PROVE FALSE
      OBVIOUS
    <3>1. Len(p) = Len(q) + 2
      BY <1>1, KeyPieces
    <3>2. p[Len(q) + 1] = "|vary="
      BY <1>1, <3>1, KeyPieces
    <3> QED BY <1>0, <1>1, <3>1, <3>2
  <2> QED BY <1>1, <2>1, <2>2, KeyPieces
<1>3. \A i \in 1..Len(p) : p[i] = q[i]
  BY <1>2, KeyPieces
<1> QED BY <1>0, <1>2, <1>3, SeqEqual

(* PathOf is the inverse of Key. *)
LEMMA PathOfKey ==
  ASSUME NEW p \in Paths, NEW a \in Accepts
  PROVE  Key(p, a) \in Keys /\ PathOf[Key(p, a)] = p
<1>1. Key(p, a) \in Keys
  BY DEF Keys
<1>2. \E q \in Paths : \E b \in Accepts : Key(p, a) = Key(q, b)
  OBVIOUS
<1>3. \A q \in Paths : (\E b \in Accepts : Key(p, a) = Key(q, b)) => q = p
  BY KeyNamesPath
<1> QED BY <1>1, <1>2, <1>3 DEF PathOf

(* Every key has a path, and a node asks its shield for the same path. *)
LEMMA ShieldKeySamePath ==
  ASSUME NEW k \in Keys
  PROVE  /\ PathOf[k] \in Paths
         /\ ShieldKey(k) \in Keys
         /\ PathOf[ShieldKey(k)] = PathOf[k]
<1>1. PICK p \in Paths, a \in Accepts : k = Key(p, a)
  BY DEF Keys
<1>2. PathOf[k] = p
  BY <1>1, PathOfKey
<1> QED BY <1>2, PathOfKey, CdnConstants DEF ShieldKey

(* The targets an operator may give: any text that is put together like a  *)
(* cache key, in whole or as a prefix.                                     *)
TargetsNameKeys == \A t \in Targets : t.text # <<>> => t.text[1] = "GET:"

(* Under such a target, what is meant is what the edge selects. *)
LEMMA MeantIsSelected ==
  ASSUME TargetsNameKeys, NEW t \in Targets
  PROVE  Meant(t) \subseteq Selected(t)
<1> SUFFICES ASSUME NEW k \in Keys, k \notin Selected(t),
                    IF t.by = "url" THEN Url(PathOf[k]) = t.text
                                    ELSE IsPrefix(t.text, Url(PathOf[k]))
             PROVE  FALSE
  BY DEF Meant
<1> DEFINE p == PathOf[k]
           S == STRING \cup {"/files/"}
<1>1. p \in Seq(S)
  BY ShieldKeySamePath, CdnConstants, SeqMonotonic
<1> HIDE DEF p, S
<1>2. Url(p)[1] = "/files/" /\ Len(Url(p)) = Len(p) + 1 /\ Len(p) \in Nat /\ Url(p) \in Seq(S)
  <2>1. <<"/files/">> \in Seq(S) /\ Len(<<"/files/">>) = 1 /\ <<"/files/">>[1] = "/files/"
    BY DEF S
  <2>2. Len(p) \in Nat
    BY <1>1, LenProperties
  <2> QED BY <1>1, <2>1, <2>2, ConcatProperties DEF Url
<1>3. t.text \in Seq(STRING) /\ Len(t.text) \in Nat
  BY CdnConstants, LenProperties
<1>4. CASE t.by = "url"
  <2>1. t.text[1] = "/files/" /\ t.text # <<>>
    BY <1>2, <1>4 DEF p
  <2> QED BY <2>1 DEF TargetsNameKeys
<1>5. CASE t.by # "url"
  <2>1. IsPrefix(t.text, Url(p))
    BY <1>5 DEF p
  <2>2. CASE t.text = <<>>
    <3>1. IsPrefix(<<>>, k)
      <4>1. PICK q \in Paths, a \in Accepts : k = Key(q, a)
        BY DEF Keys
      <4>2. Len(q) \in Nat
        BY CdnConstants, LenProperties
      <4>3. Len(k) \in Nat
        BY <4>1, <4>2, KeyPieces
      <4> QED BY <4>3, SubSeqEmpty DEF IsPrefix
    <3> QED BY <1>5, <2>2, <3>1 DEF Selected
  <2>3. CASE t.text # <<>>
    <3>1. Len(t.text) >= 1 /\ t.text[1] = "GET:"
      BY <1>3, <2>3 DEF TargetsNameKeys
    <3>2. SubSeq(t.text, 1, Len(t.text))[1] = t.text[1]
      BY <1>3, <3>1
    <3>3. SubSeq(Url(p), 1, Len(t.text))[1] = Url(p)[1]
      BY <1>2, <1>3, <2>1, <3>1 DEF IsPrefix
    <3> QED BY <1>2, <2>1, <3>1, <3>2, <3>3 DEF IsPrefix
  <2> QED BY <2>2, <2>3
<1> QED BY <1>4, <1>5

-----------------------------------------------------------------------------
(* Types.                                                                  *)


(* No node holds or fetches anything at first. *)
LEMMA InitCdnTypeInv == Init => CdnTypeInv
<1> SUFFICES ASSUME Init PROVE CdnTypeInv
  OBVIOUS
<1>1. Shapes
  BY DEF Init, Shapes
<1>2. origin \in [Paths -> Versions] /\ since \in [Paths -> Versions]
  BY CdnConstants DEF Init, Versions
<1>3. \A n \in Nodes, k \in Keys : store[n][k] = None /\ flight[n][k] = NoFlight
  BY DEF Init
<1>4. next \in 1..(Len(EdgeUrls) + 1)
  BY CdnConstants DEF Init
<1>5. \A p \in Paths : since[p] <= origin[p]
  BY DEF Init
<1>6. target \in Targets \cup {None} /\ results \in [Nodes -> BOOLEAN]
      /\ clean \in [Nodes -> SUBSET Keys]
  BY DEF Init
<1> QED BY <1>1, <1>2, <1>3, <1>4, <1>5, <1>6 DEF CdnTypeInv, TypeOK

(* The part of the type invariant that speaks of content. *)
ValuesOK ==
    /\ Shapes
    /\ origin \in [Paths -> Versions]
    /\ \A n \in Nodes, k \in Keys :
         /\ store[n][k] \in 0..origin[PathOf[k]] \cup {None}
         /\ flight[n][k] \in 0..origin[PathOf[k]] \cup {NoFlight, Asking}

(* A step that changes content alone has only that part to keep. *)
LEMMA ContentStep ==
  ASSUME CdnTypeInv, ValuesOK', UNCHANGED <<origin, purge>>
  PROVE  CdnTypeInv'
  BY DEF CdnTypeInv, TypeOK, ValuesOK, purge

(* Setting one entry of one node's fetches to a value of its type. *)
LEMMA SetFlight ==
  ASSUME CdnTypeInv, NEW n \in Nodes, NEW k \in Keys,
         NEW v \in 0..origin[PathOf[k]] \cup {NoFlight, Asking},
         flight' = [flight EXCEPT ![n][k] = v], UNCHANGED <<origin, store, purge>>
  PROVE  CdnTypeInv'
<1>1. origin[PathOf[k]] \in 0..MaxVersion /\ MaxVersion \in Nat
  BY ShieldKeySamePath, CdnConstants DEF CdnTypeInv, TypeOK, Versions
<1>2. v \in Versions \cup {NoFlight, Asking}
  BY <1>1 DEF Versions
<1>3. Shapes'
  BY <1>2 DEF CdnTypeInv, Shapes
<1>4. \A m \in Nodes, j \in Keys : flight'[m][j] = IF m = n /\ j = k THEN v ELSE flight[m][j]
  BY DEF CdnTypeInv, Shapes
<1>5. ValuesOK'
  BY <1>3, <1>4 DEF CdnTypeInv, TypeOK, ValuesOK
<1> QED BY <1>5, ContentStep

(* A request starts a fetch. *)
LEMMA RequestCdnTypeInv ==
  ASSUME CdnTypeInv, NEW n \in Nodes, NEW k \in Keys, Request(n, k)
  PROVE  CdnTypeInv'
  BY SetFlight DEF Request

(* The origin answers with the version it has. *)
LEMMA AskOriginCdnTypeInv ==
  ASSUME CdnTypeInv, NEW n \in Nodes, NEW k \in Keys, AskOrigin(n, k)
  PROVE  CdnTypeInv'
<1>1. origin[PathOf[k]] \in 0..origin[PathOf[k]]
  BY ShieldKeySamePath, CdnConstants DEF CdnTypeInv, TypeOK, Versions
<1> QED BY <1>1, SetFlight DEF AskOrigin

(* The shield answers with the version it holds of the same path, or       *)
(* starts a fetch.                                                         *)
LEMMA AskShieldCdnTypeInv ==
  ASSUME CdnTypeInv, NEW n \in Nodes, NEW k \in Keys, AskShield(n, k)
  PROVE  CdnTypeInv'
<1>1. Upstream[n] \in Nodes
  BY CdnConstants DEF AskShield
<1>2. CASE Request(Upstream[n], ShieldKey(k))
  BY <1>1, <1>2, ShieldKeySamePath, RequestCdnTypeInv
<1>3. CASE /\ store[Upstream[n]][ShieldKey(k)] # None
           /\ flight' = [flight EXCEPT ![n][k] = store[Upstream[n]][ShieldKey(k)]]
           /\ UNCHANGED <<origin, store, purge>>
  <2>1. store[Upstream[n]][ShieldKey(k)] \in 0..origin[PathOf[k]]
    BY <1>1, <1>3, ShieldKeySamePath DEF CdnTypeInv, TypeOK
  <2> QED BY <1>3, <2>1, SetFlight
<1> QED BY <1>2, <1>3 DEF AskShield

(* What Deliver leaves in flight. *)
LEMMA DeliverFlight ==
  ASSUME Shapes, NEW n \in Nodes, NEW k \in Keys, Deliver(n, k),
         NEW m \in Nodes, NEW j \in Keys
  PROVE  /\ store'[m][j] = IF m = n /\ j = k THEN flight[n][k] ELSE store[m][j]
         /\ \/ flight'[m][j] = NoFlight
            \/ flight'[m][j] = flight[m][j]
            \/ /\ flight'[m][j] = flight[n][k]
               /\ Upstream[m] = n /\ ShieldKey(j) = k
<1>1. store'[m][j] = IF m = n /\ j = k THEN flight[n][k] ELSE store[m][j]
  BY DEF Deliver, Shapes
<1>2. flight'[m][j] = IF m = n /\ j = k THEN NoFlight
                      ELSE IF Upstream[m] = n /\ flight[m][j] = Asking /\ ShieldKey(j) = k
                        THEN flight[n][k] ELSE flight[m][j]
  BY DEF Deliver
<1> QED BY <1>1, <1>2

(* The answer is stored, and passed on to those who asked for this path. *)
LEMMA DeliverCdnTypeInv ==
  ASSUME CdnTypeInv, NEW n \in Nodes, NEW k \in Keys, Deliver(n, k)
  PROVE  CdnTypeInv'
<1>1. flight[n][k] \in Versions /\ flight[n][k] \in 0..origin[PathOf[k]]
  <2>1. flight[n][k] \in Versions
    BY DEF Deliver, MayStore, Answered
  <2>2. flight[n][k] # NoFlight /\ flight[n][k] # Asking
    BY <2>1 DEF Versions, NoFlight, Asking
  <2>3. flight[n][k] \in 0..origin[PathOf[k]] \cup {NoFlight, Asking}
    BY DEF CdnTypeInv, TypeOK
  <2> QED BY <2>1, <2>2, <2>3
<1>2. store' \in [Nodes -> [Keys -> Versions \cup {None}]]
  BY <1>1 DEF CdnTypeInv, Shapes, Deliver
<1>3. ASSUME NEW m \in Nodes, NEW j \in Keys
      PROVE  /\ store'[m][j] \in 0..origin[PathOf[j]] \cup {None}
             /\ flight'[m][j] \in 0..origin[PathOf[j]] \cup {NoFlight, Asking}
             /\ flight'[m][j] \in Versions \cup {NoFlight, Asking}
  <2>1. ShieldKey(j) = k => PathOf[j] = PathOf[k]
    BY ShieldKeySamePath
  <2> QED BY <1>1, <2>1, DeliverFlight DEF CdnTypeInv, TypeOK, Shapes
<1>4. flight' \in [Nodes -> [Keys -> Versions \cup {NoFlight, Asking}]]
  <2> DEFINE g(m, j) == IF m = n /\ j = k THEN NoFlight
                    ELSE IF Upstream[m] = n /\ flight[m][j] = Asking /\ ShieldKey(j) = k
                      THEN flight[n][k] ELSE flight[m][j]
  <2>1. flight' = [m \in Nodes |-> [j \in Keys |-> g(m, j)]]
    BY DEF Deliver
  <2>2. \A m \in Nodes, j \in Keys : flight'[m][j] = g(m, j)
    BY <2>1
  <2> HIDE DEF g
  <2> QED BY <1>3, <2>1, <2>2
<1>5. UNCHANGED <<origin, purge>>
  BY DEF Deliver
<1>6. ValuesOK'
  BY <1>2, <1>3, <1>4, <1>5 DEF CdnTypeInv, TypeOK, ValuesOK, Shapes
<1> QED BY <1>5, <1>6, ContentStep

(* An entry goes. *)
LEMMA ForgetCdnTypeInv ==
  ASSUME CdnTypeInv, NEW n \in Nodes, NEW k \in Keys, Forget(n, k)
  PROVE  CdnTypeInv'
<1>1. Shapes'
  BY DEF CdnTypeInv, Shapes, Forget
<1>2. \A m \in Nodes, j \in Keys : store'[m][j] = None \/ store'[m][j] = store[m][j]
  BY DEF CdnTypeInv, Shapes, Forget
<1>3. ValuesOK'
  BY <1>1, <1>2 DEF CdnTypeInv, TypeOK, ValuesOK, Forget
<1> QED BY <1>3, ContentStep DEF Forget

(* A file changes: what is held of it is older, and still a version of it. *)
LEMMA PublishCdnTypeInv ==
  ASSUME CdnTypeInv, NEW p \in Paths, Publish(p)
  PROVE  CdnTypeInv'
<1>1. origin' \in [Paths -> Versions]
  BY CdnConstants DEF CdnTypeInv, TypeOK, Publish, Versions
<1>2. \A q \in Paths : origin[q] \in Nat /\ origin'[q] \in Nat /\ origin[q] <= origin'[q]
  BY CdnConstants DEF CdnTypeInv, TypeOK, Publish, Versions
<1>3. UNCHANGED <<store, flight, target, next, results, since, clean>>
  BY DEF Publish, purge
<1>4. \A n \in Nodes, k \in Keys :
         /\ store'[n][k] \in 0..origin'[PathOf[k]] \cup {None}
         /\ flight'[n][k] \in 0..origin'[PathOf[k]] \cup {NoFlight, Asking}
  BY <1>2, <1>3, ShieldKeySamePath DEF CdnTypeInv, TypeOK
<1>5. \A q \in Paths : since'[q] <= origin'[q]
  BY <1>2, <1>3, CdnConstants DEF CdnTypeInv, TypeOK, Versions
<1> QED BY <1>1, <1>3, <1>4, <1>5 DEF CdnTypeInv, TypeOK, Shapes

(* The management API's steps. *)
LEMMA BeginPurgeCdnTypeInv ==
  ASSUME CdnTypeInv, NEW t \in Targets, BeginPurge(t)
  PROVE  CdnTypeInv'
<1>1. next' \in 1..(Len(EdgeUrls) + 1)
  BY CdnConstants DEF BeginPurge
<1>2. \A p \in Paths : since'[p] <= origin'[p]
  BY CdnConstants DEF BeginPurge, CdnTypeInv, TypeOK, Versions
<1>3. results' \in [Nodes -> BOOLEAN] /\ clean' \in [Nodes -> SUBSET Keys]
  BY DEF BeginPurge
<1> QED BY <1>1, <1>2, <1>3 DEF BeginPurge, CdnTypeInv, TypeOK, Shapes

(* The node of a call, and what the call changes there. *)
LEMMA PurgeCallEffect ==
  ASSUME CdnTypeInv, NEW outcome, PurgeCall(outcome)
  PROVE  /\ target \in Targets /\ next \in 1..Len(EdgeUrls)
         /\ EdgeUrls[next] \in Nodes
         /\ \A m \in Nodes, j \in Keys :
              store'[m][j] = IF m = EdgeUrls[next] /\ j \in Selected(target)
                                /\ outcome # "unreached"
                               THEN None ELSE store[m][j]
         /\ store' \in [Nodes -> [Keys -> Versions \cup {None}]]
<1>1. target \in Targets /\ next \in 1..Len(EdgeUrls)
  BY CdnConstants DEF PurgeCall, CdnTypeInv, TypeOK
<1>2. EdgeUrls[next] \in Nodes
  BY <1>1, CdnConstants
<1>3. CASE outcome = "unreached"
  BY <1>1, <1>2, <1>3 DEF PurgeCall, CdnTypeInv, Shapes
<1>4. CASE outcome # "unreached"
  <2> DEFINE row == [k \in Keys |-> IF k \in Selected(target) THEN None
                                    ELSE store[EdgeUrls[next]][k]]
  <2>1. store' = [store EXCEPT ![EdgeUrls[next]] = row]
    BY <1>4 DEF PurgeCall
  <2>2. row \in [Keys -> Versions \cup {None}]
    BY <1>2 DEF CdnTypeInv, Shapes
  <2>3. \A j \in Keys : row[j] = IF j \in Selected(target) THEN None
                                 ELSE store[EdgeUrls[next]][j]
    OBVIOUS
  <2> HIDE DEF row
  <2> QED BY <1>1, <1>2, <1>4, <2>1, <2>2, <2>3 DEF CdnTypeInv, Shapes
<1> QED BY <1>3, <1>4

(* One call of the fan-out. *)
LEMMA PurgeCallCdnTypeInv ==
  ASSUME CdnTypeInv, NEW outcome, PurgeCall(outcome)
  PROVE  CdnTypeInv'
<1>1. next' \in 1..(Len(EdgeUrls) + 1)
  <2>1. next' = next + 1
    BY DEF PurgeCall, GoOn
  <2>2. next \in 1..Len(EdgeUrls) /\ Len(EdgeUrls) \in Nat
    BY PurgeCallEffect, CdnConstants, LenProperties
  <2> QED BY <2>1, <2>2
<1>2. results' \in [Nodes -> BOOLEAN]
  <2>1. Success(outcome) \in BOOLEAN
    BY DEF Success
  <2> QED BY <2>1, PurgeCallEffect DEF PurgeCall, CdnTypeInv, TypeOK
<1>3. Settled(EdgeUrls[next]) \subseteq Keys
  BY DEF Settled, Meant, Selected
<1>4. clean' \in [Nodes -> SUBSET Keys]
  BY <1>3, PurgeCallEffect DEF PurgeCall, CdnTypeInv, TypeOK
<1>5. UNCHANGED <<origin, flight, target, since>>
  BY DEF PurgeCall
<1>6. \A m \in Nodes, j \in Keys : store'[m][j] \in 0..origin'[PathOf[j]] \cup {None}
  BY <1>5, PurgeCallEffect DEF CdnTypeInv, TypeOK
<1> QED BY <1>1, <1>2, <1>4, <1>5, <1>6, PurgeCallEffect DEF CdnTypeInv, TypeOK, Shapes

(* Every step preserves the type invariant. *)
LEMMA NextCdnTypeInv == CdnTypeInv /\ [Next]_vars => CdnTypeInv'
<1> SUFFICES ASSUME CdnTypeInv, [Next]_vars PROVE CdnTypeInv'
  OBVIOUS
<1>1. ASSUME NEW n \in Edges, NEW k \in Keys, Request(n, k) PROVE CdnTypeInv'
  BY <1>1, CdnConstants, RequestCdnTypeInv
<1>2. ASSUME NEW n \in Nodes, NEW p \in Paths, WarmSingle(n, p) PROVE CdnTypeInv'
  BY <1>2, CdnConstants, PathOfKey, RequestCdnTypeInv DEF WarmSingle
<1>3. ASSUME NEW n \in Nodes, NEW k \in Keys,
             AskOrigin(n, k) \/ AskShield(n, k) \/ Deliver(n, k) PROVE CdnTypeInv'
  BY <1>3, AskOriginCdnTypeInv, AskShieldCdnTypeInv, DeliverCdnTypeInv
<1>4. ASSUME NEW n \in Nodes, NEW k \in Keys, Fail(n, k) PROVE CdnTypeInv'
  BY <1>4, SetFlight DEF Fail
<1>5. ASSUME NEW n \in Nodes, NEW k \in Keys, Forget(n, k) PROVE CdnTypeInv'
  BY <1>5, ForgetCdnTypeInv
<1>6. ASSUME NEW p \in Paths, Publish(p) PROVE CdnTypeInv'
  BY <1>6, PublishCdnTypeInv
<1>7. ASSUME NEW t \in Targets, BeginPurge(t) PROVE CdnTypeInv'
  BY <1>7, BeginPurgeCdnTypeInv
<1>8. ASSUME NEW outcome, PurgeCall(outcome) PROVE CdnTypeInv'
  BY <1>8, PurgeCallCdnTypeInv
<1>9. CASE PurgeReturns
  BY <1>9 DEF PurgeReturns, CdnTypeInv, TypeOK, Shapes
<1>10. CASE UNCHANGED vars
  BY <1>10 DEF vars, CdnTypeInv, TypeOK, Shapes
<1> QED BY <1>1, <1>2, <1>3, <1>4, <1>5, <1>6, <1>7, <1>8, <1>9, <1>10 DEF Next

(* Every node holds and answers with versions its files have had. *)
THEOREM CdnTypeInvariant == Spec => []CdnTypeInv
  BY InitCdnTypeInv, NextCdnTypeInv, PTL DEF Spec

(* The type invariant that the run checks. *)
THEOREM CdnTypeCorrect == Spec => []TypeOK
<1>1. CdnTypeInv => TypeOK
  BY DEF CdnTypeInv
<1> QED BY <1>1, CdnTypeInvariant, PTL
-----------------------------------------------------------------------------
(* Purges.                                                                 *)

(* No purge has settled anything at first. *)
LEMMA InitPurgeInv == Init => PurgeInv
<1> SUFFICES ASSUME Init PROVE PurgeInv
  OBVIOUS
<1>1. FreshSet({})
  BY DEF Init, FreshSet
<1> QED BY <1>1 DEF PurgeInv

(* A step outside the purge keeps a set of fresh keys if it keeps each     *)
(* member fresh, for which it may use that the others are.                 *)
LEMMA FreshStep ==
  ASSUME NEW H \in SUBSET (Nodes \X Keys), FreshSet(H), UNCHANGED purge,
         ASSUME NEW m \in Nodes, NEW j \in Keys, <<m, j>> \in H PROVE Fresh(m, j)'
  PROVE  PurgeInv'
<1>1. FreshSet(H)'
  BY DEF FreshSet, purge
<1> QED BY <1>1 DEF PurgeInv

(* One entry of one node's fetches changes: to nothing newer than was      *)
(* known, or to something fresh if the entry is in the set.                *)
LEMMA FreshFlight ==
  ASSUME CdnTypeInv, NEW H \in SUBSET (Nodes \X Keys), FreshSet(H),
         NEW n \in Nodes, NEW k \in Keys, NEW v,
         <<n, k>> \in H => v \in {NoFlight, Asking} \/ v >= since[PathOf[k]],
         flight' = [flight EXCEPT ![n][k] = v], UNCHANGED <<origin, store, purge>>
  PROVE  PurgeInv'
<1>1. ASSUME NEW m \in Nodes, NEW j \in Keys, <<m, j>> \in H PROVE Fresh(m, j)'
  <2>1. flight'[m][j] = IF m = n /\ j = k THEN v ELSE flight[m][j]
    BY DEF CdnTypeInv, Shapes
  <2>2. Fresh(m, j)
    BY <1>1 DEF FreshSet
  <2>3. UNCHANGED <<store, since>>
    BY DEF purge
  <2> QED BY <1>1, <2>1, <2>2, <2>3 DEF Fresh
<1> QED BY <1>1, FreshStep DEF purge

(* A request starts a fetch, which has no content yet. *)
LEMMA RequestPurgeInv ==
  ASSUME CdnTypeInv, PurgeInv, NEW n \in Nodes, NEW k \in Keys, Request(n, k)
  PROVE  PurgeInv'
<1>1. PICK H \in SUBSET (Nodes \X Keys) : FreshSet(H)
  BY DEF PurgeInv
<1> QED BY <1>1, FreshFlight DEF Request

(* The origin is never older than a purge that began. *)
LEMMA AskOriginPurgeInv ==
  ASSUME CdnTypeInv, PurgeInv, NEW n \in Nodes, NEW k \in Keys, AskOrigin(n, k)
  PROVE  PurgeInv'
<1>1. PICK H \in SUBSET (Nodes \X Keys) : FreshSet(H)
  BY DEF PurgeInv
<1>2. origin[PathOf[k]] >= since[PathOf[k]]
  BY ShieldKeySamePath, CdnConstants DEF CdnTypeInv, TypeOK, Versions
<1> QED BY <1>1, <1>2, FreshFlight DEF AskOrigin

(* A fresh key has a fresh shield. *)
LEMMA AskShieldPurgeInv ==
  ASSUME CdnTypeInv, PurgeInv, NEW n \in Nodes, NEW k \in Keys, AskShield(n, k)
  PROVE  PurgeInv'
<1>1. PICK H \in SUBSET (Nodes \X Keys) : FreshSet(H)
  BY DEF PurgeInv
<1>2. Upstream[n] \in Nodes /\ Upstream[n] # Origin
  BY CdnConstants DEF AskShield
<1>3. CASE Request(Upstream[n], ShieldKey(k))
  BY <1>2, <1>3, ShieldKeySamePath, RequestPurgeInv
<1>4. CASE /\ store[Upstream[n]][ShieldKey(k)] # None
           /\ flight' = [flight EXCEPT ![n][k] = store[Upstream[n]][ShieldKey(k)]]
           /\ UNCHANGED <<origin, store, purge>>
  <2>1. ASSUME <<n, k>> \in H
        PROVE  store[Upstream[n]][ShieldKey(k)] >= since[PathOf[k]]
    <3>1. <<Upstream[n], ShieldKey(k)>> \in H
      BY <1>1, <1>2, <2>1 DEF FreshSet
    <3>2. Fresh(Upstream[n], ShieldKey(k))
      BY <1>1, <1>2, <3>1, ShieldKeySamePath DEF FreshSet
    <3> QED BY <1>4, <3>2, ShieldKeySamePath DEF Fresh
  <2> QED BY <1>1, <1>4, <2>1, FreshFlight
<1> QED BY <1>3, <1>4 DEF AskShield

(* What is stored was in flight; what a shield passes on goes to nodes     *)
(* whose keys are fresh only if the shield's is.                           *)
LEMMA DeliverPurgeInv ==
  ASSUME CdnTypeInv, PurgeInv, NEW n \in Nodes, NEW k \in Keys, Deliver(n, k)
  PROVE  PurgeInv'
<1>1. PICK H \in SUBSET (Nodes \X Keys) : FreshSet(H)
  BY DEF PurgeInv
<1>2. flight[n][k] \notin {NoFlight, Asking}
  BY DEF Deliver, MayStore, Answered, Versions, NoFlight, Asking
<1>3. UNCHANGED <<origin, purge>> /\ UNCHANGED since
  BY DEF Deliver, purge
<1>4. ASSUME <<n, k>> \in H PROVE flight[n][k] >= since[PathOf[k]]
  BY <1>1, <1>2, <1>4 DEF FreshSet, Fresh
<1>5. ASSUME NEW m \in Nodes, NEW j \in Keys, <<m, j>> \in H PROVE Fresh(m, j)'
  <2>1. Fresh(m, j)
    BY <1>1, <1>5 DEF FreshSet
  <2>2. store'[m][j] = IF m = n /\ j = k THEN flight[n][k] ELSE store[m][j]
    BY DeliverFlight DEF CdnTypeInv
  <2>3. store'[m][j] = None \/ store'[m][j] >= since[PathOf[j]]
    BY <1>4, <1>5, <2>1, <2>2 DEF Fresh
  <2>4. ASSUME Upstream[m] = n, ShieldKey(j) = k
        PROVE  flight[n][k] >= since[PathOf[j]]
    <3>1. <<n, k>> \in H /\ PathOf[k] = PathOf[j]
      BY <1>1, <1>5, <2>4, CdnConstants, ShieldKeySamePath DEF FreshSet
    <3> QED BY <1>4, <3>1
  <2>5. flight'[m][j] \in {NoFlight, Asking} \/ flight'[m][j] >= since[PathOf[j]]
    BY <2>1, <2>4, DeliverFlight DEF CdnTypeInv, Fresh
  <2> QED BY <1>3, <2>3, <2>5 DEF Fresh
<1> QED BY <1>1, <1>3, <1>5, FreshStep

(* An entry goes. *)
LEMMA ForgetPurgeInv ==
  ASSUME CdnTypeInv, PurgeInv, NEW n \in Nodes, NEW k \in Keys, Forget(n, k)
  PROVE  PurgeInv'
<1>1. PICK H \in SUBSET (Nodes \X Keys) : FreshSet(H)
  BY DEF PurgeInv
<1>2. ASSUME NEW m \in Nodes, NEW j \in Keys, <<m, j>> \in H PROVE Fresh(m, j)'
  <2>1. Fresh(m, j)
    BY <1>1, <1>2 DEF FreshSet
  <2>2. store'[m][j] = None \/ store'[m][j] = store[m][j]
    BY DEF CdnTypeInv, Shapes, Forget
  <2> QED BY <2>1, <2>2 DEF Fresh, Forget, purge
<1> QED BY <1>1, <1>2, FreshStep DEF Forget

(* A new purge has settled nothing. *)
LEMMA BeginPurgePurgeInv ==
  ASSUME NEW t \in Targets, BeginPurge(t)
  PROVE  PurgeInv'
<1>1. FreshSet({})'
  BY DEF BeginPurge, FreshSet
<1> QED BY <1>1 DEF PurgeInv

(* A call clears what it selects, and settles keys whose shield is fresh   *)
(* already.                                                                *)
LEMMA PurgeCallPurgeInv ==
  ASSUME TargetsNameKeys, CdnTypeInv, PurgeInv, NEW outcome, PurgeCall(outcome)
  PROVE  PurgeInv'
<1>1. PICK H \in SUBSET (Nodes \X Keys) : FreshSet(H)
  BY DEF PurgeInv
<1>2. PICK n \in Nodes : n = EdgeUrls[next] /\ target \in Targets
  BY PurgeCallEffect
<1>3. Settled(n) \subseteq Selected(target) /\ Settled(n) \subseteq Keys
  BY <1>2, MeantIsSelected DEF Settled, Meant, Selected
<1>4. UNCHANGED <<flight, since>>
  BY DEF PurgeCall
<1>5. ASSUME NEW m \in Nodes, NEW j \in Keys
      PROVE  store'[m][j] = None \/ store'[m][j] = store[m][j]
  BY PurgeCallEffect
<1>6. ASSUME NEW m \in Nodes, NEW j \in Keys, <<m, j>> \in H PROVE Fresh(m, j)'
  BY <1>1, <1>4, <1>5, <1>6 DEF FreshSet, Fresh
<1>7. CASE ~ Success(outcome)
  <2>1. clean' = clean
    BY <1>7 DEF PurgeCall
  <2>2. FreshSet(H)'
    BY <1>1, <1>6, <2>1 DEF FreshSet
  <2> QED BY <2>2 DEF PurgeInv
<1>8. CASE Success(outcome)
  <2>1. PICK G \in SUBSET (Nodes \X Keys) : G = H \cup {<<n, k>> : k \in Settled(n)}
    <3> DEFINE G == H \cup {<<n, k>> : k \in Settled(n)}
    <3>1. G \in SUBSET (Nodes \X Keys)
      BY <1>3
    <3> QED BY <3>1
  <2>2. clean' = [clean EXCEPT ![n] = Settled(n)]
    BY <1>2, <1>8 DEF PurgeCall
  <2>3. ASSUME NEW m \in Nodes, NEW k \in clean'[m] PROVE <<m, k>> \in G
    <3>1. CASE m = n
      BY <2>1, <2>2, <2>3, <3>1 DEF CdnTypeInv, TypeOK
    <3>2. CASE m # n
      BY <1>1, <2>1, <2>2, <2>3, <3>2 DEF CdnTypeInv, TypeOK, FreshSet
    <3> QED BY <3>1, <3>2
  <2>4. ASSUME NEW k \in Settled(n)
        PROVE  /\ k \in Keys
               /\ Fresh(n, k)'
               /\ Upstream[n] = Origin \/ <<Upstream[n], ShieldKey(k)>> \in G
    <3>1. k \in Keys /\ k \in Selected(target)
      BY <1>3
    <3>2. store'[n][k] = None
      BY <1>2, <1>8, <3>1, PurgeCallEffect DEF Success
    <3>3. flight'[n][k] = NoFlight
      BY <1>4 DEF Settled
    <3>4. Upstream[n] = Origin \/ ShieldKey(k) \in clean[Upstream[n]]
      BY DEF Settled
    <3>5. Upstream[n] = Origin \/ <<Upstream[n], ShieldKey(k)>> \in H
      BY <1>1, <1>2, <3>4, CdnConstants DEF FreshSet
    <3> QED BY <2>1, <3>1, <3>2, <3>3, <3>5 DEF Fresh
  <2>5. ASSUME NEW m \in Nodes, NEW j \in Keys, <<m, j>> \in G
        PROVE  /\ Fresh(m, j)'
               /\ Upstream[m] = Origin \/ <<Upstream[m], ShieldKey(j)>> \in G
    <3>1. CASE <<m, j>> \in H
      BY <1>1, <1>6, <2>1, <3>1 DEF FreshSet
    <3>2. CASE <<m, j>> \notin H
      <4>1. m = n /\ j \in Settled(n)
        BY <2>1, <2>5, <3>2
      <4> QED BY <2>4, <4>1
    <3> QED BY <3>1, <3>2
  <2>6. FreshSet(G)'
    BY <2>3, <2>5 DEF FreshSet
  <2> QED BY <2>1, <2>6 DEF PurgeInv
<1> QED BY <1>7, <1>8

(* Every step preserves the purge's invariant. *)
LEMMA NextPurgeInv ==
  ASSUME TargetsNameKeys
  PROVE  CdnTypeInv /\ PurgeInv /\ [Next]_vars => PurgeInv'
<1> SUFFICES ASSUME CdnTypeInv, PurgeInv, [Next]_vars PROVE PurgeInv'
  OBVIOUS
<1>0. PICK H \in SUBSET (Nodes \X Keys) : FreshSet(H)
  BY DEF PurgeInv
<1>1. ASSUME NEW n \in Edges, NEW k \in Keys, Request(n, k) PROVE PurgeInv'
  BY <1>1, CdnConstants, RequestPurgeInv
<1>2. ASSUME NEW n \in Nodes, NEW p \in Paths, WarmSingle(n, p) PROVE PurgeInv'
  BY <1>2, CdnConstants, PathOfKey, RequestPurgeInv DEF WarmSingle
<1>3. ASSUME NEW n \in Nodes, NEW k \in Keys,
             AskOrigin(n, k) \/ AskShield(n, k) \/ Deliver(n, k) PROVE PurgeInv'
  BY <1>3, AskOriginPurgeInv, AskShieldPurgeInv, DeliverPurgeInv
<1>4. ASSUME NEW n \in Nodes, NEW k \in Keys, Fail(n, k) PROVE PurgeInv'
  BY <1>0, <1>4, FreshFlight DEF Fail
<1>5. ASSUME NEW n \in Nodes, NEW k \in Keys, Forget(n, k) PROVE PurgeInv'
  BY <1>5, ForgetPurgeInv
<1>6. ASSUME NEW p \in Paths, Publish(p) PROVE PurgeInv'
  <2>1. FreshSet(H)'
    BY <1>0, <1>6 DEF Publish, purge, FreshSet, Fresh
  <2> QED BY <2>1 DEF PurgeInv
<1>7. ASSUME NEW t \in Targets, BeginPurge(t) PROVE PurgeInv'
  BY <1>7, BeginPurgePurgeInv
<1>8. ASSUME NEW outcome, PurgeCall(outcome) PROVE PurgeInv'
  BY <1>8, PurgeCallPurgeInv
<1>9. CASE PurgeReturns
  <2>1. FreshSet(H)'
    BY <1>0, <1>9 DEF PurgeReturns, FreshSet, Fresh
  <2> QED BY <2>1 DEF PurgeInv
<1>10. CASE UNCHANGED vars
  <2>1. FreshSet(H)'
    BY <1>0, <1>10 DEF vars, FreshSet, Fresh
  <2> QED BY <2>1 DEF PurgeInv
<1> QED BY <1>1, <1>2, <1>3, <1>4, <1>5, <1>6, <1>7, <1>8, <1>9, <1>10 DEF Next

(* A purge whose target names cache keys is final where it is settled: in  *)
(* any network, no content older than it comes back to a node under a key  *)
(* that the node and its shields settled.                                  *)
THEOREM PurgeIsFinal ==
  ASSUME TargetsNameKeys
  PROVE  Spec => []PurgedIsGone
<1>1. CdnTypeInv /\ PurgeInv => PurgedIsGone
  <2> SUFFICES ASSUME CdnTypeInv, PurgeInv, NEW n \in Nodes, NEW k \in clean[n]
               PROVE  store[n][k] = None \/ store[n][k] >= since[PathOf[k]]
    BY DEF PurgedIsGone
  <2>1. PICK H \in SUBSET (Nodes \X Keys) : FreshSet(H)
    BY DEF PurgeInv
  <2>2. k \in Keys
    BY DEF CdnTypeInv, TypeOK
  <2> QED BY <2>1, <2>2 DEF FreshSet, Fresh
<1>2. CdnTypeInv /\ PurgeInv /\ [Next]_vars => PurgeInv'
  BY NextPurgeInv
<1> QED BY <1>1, <1>2, InitPurgeInv, CdnTypeInvariant, PTL DEF Spec
=============================================================================
