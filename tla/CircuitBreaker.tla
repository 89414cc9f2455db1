--------------------------- MODULE CircuitBreaker ---------------------------
(***************************************************************************)
(* The circuit breaker in front of the origin                              *)
(* (infrastructure/circuit_breaker.py).                                    *)
(*                                                                         *)
(* A caller wraps its origin fetch in `async with breaker`: __aenter__     *)
(* admits it or raises CircuitOpenError, __aexit__ reports the outcome.    *)
(* The asyncio.Lock of the class is never held across an await, so each of *)
(* the two is one atomic step; between them any number of other calls may  *)
(* enter and leave, and the breaker may change state under a call in       *)
(* flight.  That is the behaviour this module is about.                    *)
(*                                                                         *)
(* Time is the age of _last_failure_time in ticks.  It is only ever        *)
(* compared with the recovery timeout, so the age stops there; likewise    *)
(* _failure_count is only compared with the failure threshold.             *)
(*                                                                         *)
(* A definition just before the one it resembles, named for what it drops  *)
(* or keeps by mistake, is a mutant of it: a bug the properties must find. *)
(***************************************************************************)
EXTENDS Integers, FiniteSets

CONSTANTS
    Callers,            \* the tasks that may use the breaker at one time
    FailureThreshold,   \* failure_threshold
    RecoveryTimeout,    \* recovery_timeout, in ticks
    HalfOpenMaxCalls,   \* half_open_max_calls
    SuccessThreshold    \* success_threshold

ASSUME CallersFinite == IsFiniteSet(Callers)
ASSUME ThresholdsPositive ==
    /\ FailureThreshold \in Nat \ {0}
    /\ SuccessThreshold \in Nat \ {0}
    /\ HalfOpenMaxCalls \in Nat \ {0}
    /\ RecoveryTimeout \in Nat

VARIABLES
    cb_state,           \* _state
    failure_count,      \* _failure_count, saturating at FailureThreshold
    success_count,      \* _success_count
    since_failure,      \* age of _last_failure_time, Never for None
    half_open_calls,    \* _half_open_calls
    call                \* call[c]: how caller c was admitted, "idle" if it is not inside

vars == <<cb_state, failure_count, success_count, since_failure, half_open_calls, call>>

Never == -1

(* One type invariant: the breaker's fields and where each caller is. *)
TypeOK ==
    /\ cb_state \in {"closed", "open", "half_open"}
    /\ failure_count \in 0..FailureThreshold
    /\ success_count \in Nat
    /\ since_failure \in {Never} \cup (0..RecoveryTimeout)
    /\ half_open_calls \in Nat
    /\ call \in [Callers -> {"idle", "through", "probe"}]

Init ==
    /\ cb_state = "closed"
    /\ failure_count = 0
    /\ success_count = 0
    /\ since_failure = Never
    /\ half_open_calls = 0
    /\ call = [c \in Callers |-> "idle"]

-----------------------------------------------------------------------------
(* The `state` property: OPEN reads as HALF_OPEN once the timeout elapsed. *)
state == IF cb_state = "open" /\ since_failure = RecoveryTimeout
           THEN "half_open" ELSE cb_state

(* __aenter__ raises CircuitOpenError. *)
Refuses == \/ state = "open"
           \/ state = "half_open" /\ half_open_calls >= HalfOpenMaxCalls

(* __aenter__ up to its return: in half-open the call takes a probe slot,  *)
(* and the first one turns the internal state.                             *)
Admit(c) ==
    /\ call[c] = "idle"
    /\ ~Refuses
    /\ IF state = "half_open"
         THEN /\ cb_state' = "half_open"
              /\ success_count' = IF cb_state = "open" THEN 0 ELSE success_count
              /\ half_open_calls' = IF cb_state = "open" THEN 1 ELSE half_open_calls + 1
              /\ call' = [call EXCEPT ![c] = "probe"]
         ELSE /\ call' = [call EXCEPT ![c] = "through"]
              /\ UNCHANGED <<cb_state, success_count, half_open_calls>>
    /\ UNCHANGED <<failure_count, since_failure>>

(* The slot a success gives back in half-open: max(0, _half_open_calls - 1). *)
SlotNotReleased == half_open_calls
SlotUnchecked == half_open_calls - 1
SlotReleased == IF half_open_calls = 0 THEN 0 ELSE half_open_calls - 1

(* The circuit closes, after enough successes or by reset: all is forgotten. *)
CloseKeepingFailures ==
    /\ cb_state' = "closed"
    /\ success_count' = 0
    /\ half_open_calls' = 0
    /\ since_failure' = Never
    /\ UNCHANGED failure_count
Close ==
    /\ cb_state' = "closed"
    /\ failure_count' = 0
    /\ success_count' = 0
    /\ half_open_calls' = 0
    /\ since_failure' = Never

(* record_success: it does not know how the reporting call was admitted. *)
RecordSuccess ==
    \/ /\ cb_state = "half_open"
       /\ success_count + 1 >= SuccessThreshold
       /\ Close
    \/ /\ cb_state = "half_open"
       /\ success_count + 1 < SuccessThreshold
       /\ success_count' = success_count + 1
       /\ half_open_calls' = SlotReleased
       /\ UNCHANGED <<cb_state, failure_count, since_failure>>
    \/ /\ cb_state = "closed"
       /\ failure_count' = 0
       /\ UNCHANGED <<cb_state, success_count, since_failure, half_open_calls>>
    \/ /\ cb_state = "open"
       /\ UNCHANGED <<cb_state, failure_count, success_count, since_failure, half_open_calls>>

(* _failure_count after one more failure outside half-open. *)
Counted == IF failure_count = FailureThreshold THEN failure_count ELSE failure_count + 1

(* The moment of the failure is remembered in every state. *)
StampOnlyInHalfOpen == since_failure' = IF cb_state = "half_open" THEN 0 ELSE since_failure
StampFailure == since_failure' = 0

TripKeepingSlots == cb_state' = "open" /\ success_count' = 0 /\ UNCHANGED half_open_calls
Trip == cb_state' = "open" /\ success_count' = 0 /\ half_open_calls' = 0

(* record_failure: any failure trips a half-open circuit; otherwise it is  *)
(* counted, in CLOSED and in OPEN alike, and restarts the recovery clock.  *)
RecordFailure ==
    /\ StampFailure
    /\ \/ /\ cb_state = "half_open"
          /\ Trip
          /\ UNCHANGED failure_count
       \/ /\ cb_state # "half_open"
          /\ failure_count' = Counted
          /\ IF Counted >= FailureThreshold
               THEN Trip ELSE UNCHANGED <<cb_state, success_count, half_open_calls>>

(* __aexit__: without an exception a success; with one - a failed fetch or *)
(* the cancellation of the task - a failure.                               *)
Leave(c) == call[c] # "idle" /\ call' = [call EXCEPT ![c] = "idle"]

ExitOk(c) == Leave(c) /\ RecordSuccess

ExitErr(c) == Leave(c) /\ RecordFailure

(* reset: back to CLOSED by hand, whatever is in flight. *)
Reset == Close /\ UNCHANGED call

(* The monotonic clock advances. *)
Tick ==
    /\ since_failure \in 0..(RecoveryTimeout - 1)
    /\ since_failure' = since_failure + 1
    /\ UNCHANGED <<cb_state, failure_count, success_count, half_open_calls, call>>

Next ==
    \/ \E c \in Callers : Admit(c) \/ ExitOk(c) \/ ExitErr(c)
    \/ Reset
    \/ Tick

Spec == Init /\ [][Next]_vars

(* Time passes, every admitted call ends (fetches time out), and there is  *)
(* always another request: someone tries to enter again and again.  Nobody *)
(* is assumed to call reset.                                               *)
Fairness ==
    /\ WF_vars(Tick)
    /\ \A c \in Callers : WF_vars(ExitOk(c) \/ ExitErr(c))
    /\ WF_vars(\E c \in Callers : Admit(c))

FairSpec == Spec /\ Fairness

-----------------------------------------------------------------------------
Probes == {c \in Callers : call[c] = "probe"}

(* The two assertions of __aenter__ never fail: whenever a call is refused *)
(* there is a last failure to compute recovery_at from.                    *)
AssertionsHold == Refuses => since_failure # Never

(* No probe slot leaks: every slot counted in _half_open_calls is held by  *)
(* a probe still in flight, so a half-open circuit that refuses calls is   *)
(* waiting for one that will report.                                       *)
ProbeSlotsHeld == half_open_calls <= Cardinality(Probes)

(* The failure counter and the state agree across every path that sets     *)
(* either: the circuit is closed exactly while the threshold has not been  *)
(* reached since the last close, reset or success.                         *)
TrippedByThreshold == cb_state = "closed" <=> failure_count < FailureThreshold

(* Outside half-open no slot is taken and no success is remembered, so a   *)
(* new half-open phase always starts from zero.                            *)
CleanEpisodes ==
    /\ cb_state # "half_open" => half_open_calls = 0 /\ success_count = 0
    /\ success_count < SuccessThreshold

(* Once the origin stops failing the circuit closes, and keeps returning   *)
(* to CLOSED: a half-open circuit is never wedged.                         *)
Recovers ==
    <>[][\A c \in Callers : ~ExitErr(c)]_vars => <>[](cb_state = "closed")

-----------------------------------------------------------------------------
(* The class documentation (circuit_breaker.py:35) promises a limit on the *)
(* concurrent probes of a half-open circuit.  The code does not keep it: a *)
(* call admitted before the trip gives back a slot it never took.          *)
HalfOpenLimit == cb_state = "half_open" => Cardinality(Probes) <= HalfOpenMaxCalls
=============================================================================
