--------------------------- MODULE CircuitBreaker ---------------------------
(***************************************************************************)
(* The circuit breaker in front of model inference, one per worker process *)
(* and shared by its requests.  Deciding whether a call may start and      *)
(* recording how it ended are critical sections; between them the call     *)
(* awaits the dependency, so calls that started in one state of the        *)
(* circuit end in another.  The formulas that every specification has are  *)
(* named CBInit, CBNext, ... so that a module can extend this one and      *)
(* another.                                                                *)
(***************************************************************************)
EXTENDS Naturals

CONSTANTS
  Callers,      \* tasks of the event loop that call, again and again
  Cancellable,  \* callers whose task may be cancelled while it awaits
  Threshold,    \* failure_threshold
  MaxFailures   \* bounds the failures counter (bounds the model)

ASSUME ThresholdAssumption ==
  /\ Threshold \in Nat \ {0} /\ MaxFailures \in Nat /\ Threshold <= MaxFailures
  /\ Cancellable \subseteq Callers

VARIABLES
  state,     \* _state
  failures,  \* _consecutive_failures
  cooled,    \* recovery_seconds have passed since _opened_at
  call,      \* where each caller is
  healthy,   \* the dependency has recovered for good
  stragglers \* history: the calls under way that started before it last opened

circuit == <<state, failures, cooled, call, healthy, stragglers>>

States == {"closed", "open", "half_open"}

CBInit ==
  /\ state = "closed" /\ failures = 0
  /\ cooled = TRUE
  /\ call = [c \in Callers |-> "idle"]
  /\ healthy = FALSE
  /\ stragglers = {}

\* (mutant) In the half-open state only the call that half-opened may run; the
\* others are rejected.
EnterOnce(c) ==
  /\ call[c] = "idle"
  /\ (state = "open" => cooled)
  /\ IF state = "half_open" THEN UNCHANGED circuit
     ELSE /\ state' = IF state = "open" THEN "half_open" ELSE state
          /\ call' = [call EXCEPT ![c] = "running"]
          /\ UNCHANGED <<failures, cooled, healthy, stragglers>>

\* (mutant) An open circuit admits a trial call without waiting for the cool-down.
EnterTooEarly(c) ==
  /\ call[c] = "idle"
  /\ state' = IF state = "open" THEN "half_open" ELSE state
  /\ call' = [call EXCEPT ![c] = "running"]
  /\ UNCHANGED <<failures, cooled, healthy, stragglers>>

\* The call starts; the first one after the cool-down half-opens the circuit.
Enter(c) ==
  /\ call[c] = "idle"
  /\ (state = "open" => cooled)
  /\ state' = IF state = "open" THEN "half_open" ELSE state
  /\ call' = [call EXCEPT ![c] = "running"]
  /\ UNCHANGED <<failures, cooled, healthy, stragglers>>

\* CircuitOpenError: the caller goes on with the fallback.
Reject(c) ==
  /\ call[c] = "idle"
  /\ state = "open" /\ ~cooled
  /\ UNCHANGED circuit

End(c) == call' = [call EXCEPT ![c] = "idle"] /\ UNCHANGED healthy

\* The dependency answers: _record_success.
Succeed(c) ==
  /\ call[c] = "running"
  /\ state' = "closed" /\ failures' = 0
  /\ stragglers' = stragglers \ {c}
  /\ UNCHANGED cooled
  /\ End(c)

\* The dependency raises: _record_failure.
Fail(c) ==
  /\ call[c] = "running" /\ ~healthy
  /\ failures < MaxFailures
  /\ failures' = failures + 1
  /\ IF state = "half_open" \/ failures' >= Threshold
     THEN /\ state' = "open" /\ cooled' = FALSE
          /\ stragglers' = {d \in Callers \ {c} : call[d] = "running"}
     ELSE /\ stragglers' = stragglers \ {c}
          /\ UNCHANGED <<state, cooled>>
  /\ End(c)

\* CancelledError is no Exception: nothing is recorded.
Cancel(c) ==
  /\ c \in Cancellable /\ call[c] = "running"
  /\ stragglers' = stragglers \ {c}
  /\ UNCHANGED <<state, failures, cooled>>
  /\ End(c)

\* recovery_seconds pass.
CoolDown ==
  /\ state = "open" /\ ~cooled
  /\ cooled' = TRUE
  /\ UNCHANGED <<state, failures, call, healthy, stragglers>>

Recover ==
  /\ ~healthy
  /\ healthy' = TRUE
  /\ UNCHANGED <<state, failures, cooled, call, stragglers>>

CBNext ==
  \/ \E c \in Callers : Enter(c) \/ Reject(c) \/ Succeed(c) \/ Fail(c) \/ Cancel(c)
  \/ CoolDown
  \/ Recover

\* Time passes, a caller's task is scheduled, and a dependency that has recovered
\* answers.
CBFairness ==
  /\ WF_circuit(CoolDown)
  /\ \A c \in Callers : WF_circuit(Enter(c)) /\ WF_circuit(healthy /\ Succeed(c))

CBSpec == CBInit /\ [][CBNext]_circuit /\ CBFairness

-----------------------------------------------------------------------------
\* Properties

\* Every variable has its type.
CBTypeOK ==
  /\ state \in States
  /\ failures \in 0..MaxFailures
  /\ cooled \in BOOLEAN /\ healthy \in BOOLEAN
  /\ call \in [Callers -> {"idle", "running"}]
  /\ stragglers \subseteq Callers

\* While the cool-down runs no call starts ("callers fail fast until a cool-down
\* elapses", resilience.py:5-7) and the circuit stays open, failures of stragglers
\* included -- except that the success of a straggler, a call from before the
\* circuit opened, closes it at once (resilience.py:99): the sentence quoted does
\* not provide for that, and the calls that follow do not wait for the cool-down.
NoEarlyCall ==
  state = "open" /\ ~cooled =>
    \/ /\ state' = "open"
       /\ \A c \in Callers : call'[c] = "running" => call[c] = "running"
    \/ /\ state' = "closed"
       /\ \E c \in stragglers : call[c] = "running" /\ call'[c] = "idle"
FailsFast == [][NoEarlyCall]_circuit

\* What is under way during the cool-down are stragglers.
OnlyStragglers ==
  state = "open" /\ ~cooled => \A c \in Callers : call[c] = "running" => c \in stragglers

\* The circuit is closed exactly while the counter is below the threshold, so that
\* a straggler's failure, which is only counted, leaves it open.
Counted == state = "closed" <=> failures < Threshold

\* The inductive invariant behind the theorem.
CBInv == CBTypeOK /\ Counted /\ OnlyStragglers

\* Once the dependency has recovered the circuit closes and stays closed, even if
\* the trial call was cancelled and recorded nothing.
Recovers == healthy ~> [](state = "closed")
=============================================================================
