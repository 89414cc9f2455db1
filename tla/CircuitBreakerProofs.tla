------------------------ MODULE CircuitBreakerProofs ------------------------
(***************************************************************************)
(* The safety invariants of the circuit breaker, for any finite set of     *)
(* callers and any positive thresholds.                                    *)
(***************************************************************************)
EXTENDS CircuitBreaker, FiniteSetTheorems, TLAPS

(* What the breaker's own fields say, without the calls in flight: enough  *)
(* to be inductive, since no action but Leave looks at `call`.             *)
FieldInv ==
    /\ TypeOK
    /\ CleanEpisodes
    /\ TrippedByThreshold
    /\ cb_state # "closed" => since_failure # Never

(* The fields' invariant holds initially. *)
LEMMA InitFieldInv == Init => FieldInv
  BY ThresholdsPositive
     DEF Init, FieldInv, TypeOK, CleanEpisodes, TrippedByThreshold, Never

(* Closing the circuit, by enough successes or by reset, re-establishes it. *)
LEMMA CloseFieldInv ==
  ASSUME FieldInv, Close, call' \in [Callers -> {"idle", "through", "probe"}]
  PROVE  FieldInv'
  BY ThresholdsPositive
     DEF FieldInv, Close, TypeOK, CleanEpisodes, TrippedByThreshold, Never

(* record_success preserves it. *)
LEMMA RecordSuccessFieldInv ==
  ASSUME FieldInv, RecordSuccess, call' \in [Callers -> {"idle", "through", "probe"}]
  PROVE  FieldInv'
<1>1. CASE cb_state = "half_open" /\ success_count + 1 >= SuccessThreshold /\ Close
  BY <1>1, CloseFieldInv
<1>2. CASE ~ (cb_state = "half_open" /\ success_count + 1 >= SuccessThreshold /\ Close)
  BY <1>2, ThresholdsPositive
     DEF FieldInv, RecordSuccess, SlotReleased, TypeOK, CleanEpisodes,
         TrippedByThreshold, Never
<1> QED BY <1>1, <1>2

(* record_failure preserves it. *)
LEMMA RecordFailureFieldInv ==
  ASSUME FieldInv, RecordFailure, call' \in [Callers -> {"idle", "through", "probe"}]
  PROVE  FieldInv'
<1>1. CASE cb_state = "half_open"
  BY <1>1, ThresholdsPositive
     DEF FieldInv, RecordFailure, StampFailure, Trip, TypeOK, CleanEpisodes,
         TrippedByThreshold, Never
<1>2. CASE cb_state # "half_open"
  BY <1>2, ThresholdsPositive
     DEF FieldInv, RecordFailure, StampFailure, Counted, Trip, TypeOK, CleanEpisodes,
         TrippedByThreshold, Never
<1> QED BY <1>1, <1>2

(* Every step preserves the fields' invariant. *)
LEMMA NextFieldInv == FieldInv /\ [Next]_vars => FieldInv'
<1> SUFFICES ASSUME FieldInv, [Next]_vars PROVE FieldInv'
  OBVIOUS
<1>1. ASSUME NEW c \in Callers, Admit(c) PROVE FieldInv'
  BY <1>1, ThresholdsPositive
     DEF FieldInv, Admit, Refuses, state, TypeOK, CleanEpisodes, TrippedByThreshold, Never
<1>2. ASSUME NEW c \in Callers, ExitOk(c) PROVE FieldInv'
  BY <1>2, RecordSuccessFieldInv DEF ExitOk, Leave, FieldInv, TypeOK
<1>3. ASSUME NEW c \in Callers, ExitErr(c) PROVE FieldInv'
  BY <1>3, RecordFailureFieldInv DEF ExitErr, Leave, FieldInv, TypeOK
<1>4. CASE Reset
  BY <1>4, CloseFieldInv DEF Reset, FieldInv, TypeOK
<1>5. CASE Tick
  BY <1>5, ThresholdsPositive
     DEF FieldInv, Tick, TypeOK, CleanEpisodes, TrippedByThreshold, Never
<1>6. CASE UNCHANGED vars
  BY <1>6 DEF vars, FieldInv, TypeOK, CleanEpisodes, TrippedByThreshold, Never
<1> QED BY <1>1, <1>2, <1>3, <1>4, <1>5, <1>6 DEF Next

(* The breaker's fields keep their types and agree with each other in      *)
(* every reachable state.                                                  *)
THEOREM FieldsCorrect == Spec => []FieldInv
  BY InitFieldInv, NextFieldInv, PTL DEF Spec

(* __aenter__, __aexit__, reset and time keep every field in its type.     *)
THEOREM TypeCorrect == Spec => []TypeOK
<1>1. FieldInv => TypeOK
  BY DEF FieldInv
<1> QED BY <1>1, FieldsCorrect, PTL

(* The circuit is closed exactly below the failure threshold               *)
(* (record_failure, record_success, reset).                                *)
THEOREM StateFollowsCounter == Spec => []TrippedByThreshold
<1>1. FieldInv => TrippedByThreshold
  BY DEF FieldInv
<1> QED BY <1>1, FieldsCorrect, PTL

(* No slot and no success of one half-open phase is left for the next.     *)
THEOREM PhasesStartClean == Spec => []CleanEpisodes
<1>1. FieldInv => CleanEpisodes
  BY DEF FieldInv
<1> QED BY <1>1, FieldsCorrect, PTL

(* The two `assert self._last_failure_time is not None` of __aenter__ hold. *)
THEOREM AssertionsNeverFail == Spec => []AssertionsHold
<1>1. FieldInv => AssertionsHold
  BY DEF FieldInv, AssertionsHold, Refuses, state, TypeOK
<1> QED BY <1>1, FieldsCorrect, PTL

-----------------------------------------------------------------------------
(* The number of probes in flight is a natural number. *)
LEMMA ProbesFinite == IsFiniteSet(Probes) /\ Cardinality(Probes) \in Nat
  BY CallersFinite, FS_Subset, FS_CardinalityType DEF Probes

(* Admitting a probe adds one to the probes in flight. *)
LEMMA AdmitAddsProbe ==
  ASSUME TypeOK, NEW c \in Callers, call[c] = "idle", call' = [call EXCEPT ![c] = "probe"]
  PROVE  Cardinality(Probes') = Cardinality(Probes) + 1
<1>1. Probes' = Probes \cup {c} /\ c \notin Probes
  BY DEF Probes, TypeOK
<1> QED BY <1>1, ProbesFinite, FS_AddElement

(* A call that leaves takes at most one probe with it. *)
LEMMA LeaveRemovesAtMostOne ==
  ASSUME TypeOK, NEW c \in Callers, Leave(c)
  PROVE  /\ Cardinality(Probes') \in Nat
         /\ Cardinality(Probes') >= Cardinality(Probes) - 1
<1>1. Probes' = Probes \ {c}
  BY DEF Probes, Leave, TypeOK
<1>2. CASE c \in Probes
  <2>1. IsFiniteSet(Probes') /\ Cardinality(Probes') = Cardinality(Probes) - 1
    BY <1>1, <1>2, ProbesFinite, FS_RemoveElement
  <2>2. Cardinality(Probes') \in Nat
    BY <2>1, FS_CardinalityType
  <2> QED BY <2>1, <2>2, ProbesFinite
<1>3. CASE c \notin Probes
  <2>1. Probes' = Probes
    BY <1>1, <1>3
  <2> QED BY <2>1, ProbesFinite
<1> QED BY <1>2, <1>3

(* The slot invariant is inductive relative to the fields' invariant. *)
LEMMA NextProbeSlotsHeld == FieldInv /\ ProbeSlotsHeld /\ [Next]_vars => ProbeSlotsHeld'
<1> SUFFICES ASSUME FieldInv, ProbeSlotsHeld, [Next]_vars PROVE ProbeSlotsHeld'
  OBVIOUS
<1>t. /\ TypeOK
      /\ cb_state # "half_open" => half_open_calls = 0
      /\ half_open_calls \in Nat
  BY DEF FieldInv, TypeOK, CleanEpisodes
<1>n. Cardinality(Probes) \in Nat
  BY ProbesFinite
<1>0. ASSUME half_open_calls' = 0, Cardinality(Probes') \in Nat PROVE ProbeSlotsHeld'
  BY <1>0 DEF ProbeSlotsHeld
<1>1. ASSUME NEW c \in Callers, Admit(c) PROVE ProbeSlotsHeld'
  <2>1. CASE state = "half_open"
    <3>1. Cardinality(Probes') = Cardinality(Probes) + 1
      BY <1>1, <2>1, <1>t, AdmitAddsProbe DEF Admit
    <3>2. half_open_calls' <= half_open_calls + 1
      BY <1>1, <2>1, <1>t DEF Admit
    <3>3. half_open_calls' \in Nat
      BY <1>1, <2>1, <1>t DEF Admit
    <3> QED BY <3>1, <3>2, <3>3, <1>t, <1>n DEF ProbeSlotsHeld
  <2>2. CASE state # "half_open"
    <3>1. Probes' = Probes
      BY <1>1, <2>2, <1>t DEF Admit, Probes, TypeOK
    <3>2. half_open_calls' = half_open_calls
      BY <1>1, <2>2 DEF Admit
    <3> QED BY <3>1, <3>2 DEF ProbeSlotsHeld
  <2> QED BY <2>1, <2>2
<1>2. ASSUME NEW c \in Callers, ExitOk(c) PROVE ProbeSlotsHeld'
  <2>1. /\ Cardinality(Probes') \in Nat
        /\ Cardinality(Probes') >= Cardinality(Probes) - 1
    BY <1>2, <1>t, LeaveRemovesAtMostOne DEF ExitOk
  <2>2. half_open_calls' = 0 \/ half_open_calls' = half_open_calls - 1
    BY <1>2, <1>t DEF ExitOk, RecordSuccess, Close, SlotReleased, FieldInv, TypeOK
  <2> QED BY <2>1, <2>2, <1>t, <1>n, <1>0 DEF ProbeSlotsHeld
<1>3. ASSUME NEW c \in Callers, ExitErr(c) PROVE ProbeSlotsHeld'
  <2>1. Cardinality(Probes') \in Nat
    BY <1>3, <1>t, LeaveRemovesAtMostOne DEF ExitErr
  <2>2. half_open_calls' = 0
    BY <1>3, <1>t DEF ExitErr, RecordFailure, Trip
  <2> QED BY <2>1, <2>2, <1>0
<1>4. CASE UNCHANGED call /\ (half_open_calls' = half_open_calls \/ half_open_calls' = 0)
  <2>1. Probes' = Probes
    BY <1>4 DEF Probes
  <2> QED BY <1>4, <2>1, <1>n DEF ProbeSlotsHeld
<1>5. Reset \/ Tick \/ UNCHANGED vars => 
        UNCHANGED call /\ (half_open_calls' = half_open_calls \/ half_open_calls' = 0)
  BY DEF Reset, Close, Tick, vars
<1> QED BY <1>1, <1>2, <1>3, <1>4, <1>5 DEF Next

(* No slot of a half-open circuit leaks: whatever calls were in flight     *)
(* across trips, closes and resets, each counted slot has a probe that     *)
(* will still report.                                                      *)
THEOREM SlotsNeverLeak == Spec => []ProbeSlotsHeld
<1>1. Init => ProbeSlotsHeld
  <2> SUFFICES ASSUME Init PROVE ProbeSlotsHeld
    OBVIOUS
  <2>1. half_open_calls = 0
    BY DEF Init
  <2> QED BY <2>1, ProbesFinite DEF ProbeSlotsHeld
<1> QED BY <1>1, NextProbeSlotsHeld, FieldsCorrect, PTL DEF Spec
=============================================================================
