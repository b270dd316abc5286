---------------------------- MODULE BreakerRules ----------------------------
(***************************************************************************)
(* The circuit breaker of resilience/circuit_breaker.py, one per           *)
(* dependency, as operations on a record                                   *)
(*   [state, failures, openFor]                                            *)
(* failures counts up to Threshold, beyond which the code's comparison     *)
(* does not change, and openFor is the time since the breaker last opened, *)
(* up to ResetAfter for the same reason.                                   *)
(***************************************************************************)
EXTENDS Integers

CONSTANTS
  Threshold,   \* BREAKER_FAILURE_THRESHOLD
  ResetAfter   \* BREAKER_RESET_SECONDS, in ticks

ASSUME BreakerAssumption == Threshold \in Nat \ {0} /\ ResetAfter \in Nat

AtMost(n, top) == IF n < top THEN n ELSE top

NewBreaker == [state |-> "closed", failures |-> 0, openFor |-> 0]
Breakers == [state : {"closed", "open", "half-open"},
             failures : 0 .. Threshold, openFor : 0 .. ResetAfter]

\* Mutant: a refused call starts the reset window again.
ObservedRestarting(b) ==
  IF b.state = "open" /\ b.openFor >= ResetAfter
    THEN [b EXCEPT !.state = "half-open"]
    ELSE [b EXCEPT !.openFor = 0]

\* The state property: reading it is what moves open to half-open.
Observed(b) ==
  IF b.state = "open" /\ b.openFor >= ResetAfter
    THEN [b EXCEPT !.state = "half-open"] ELSE b

Refuses(b) == Observed(b).state = "open"

\* Mutant: a success takes one failure off the count.
SucceededByOne(b) == [NewBreaker EXCEPT !.failures = b.failures - 1]

\* _record_success.
Succeeded(b) == NewBreaker

\* Mutant: opening the breaker forgets the failures that opened it.
FailedForgetting(b) ==
  IF b.failures + 1 >= Threshold
    THEN [state |-> "open", failures |-> 0, openFor |-> 0]
    ELSE [b EXCEPT !.failures = @ + 1]

\* _record_failure.
Failed(b) ==
  IF b.failures + 1 >= Threshold
    THEN [state |-> "open", failures |-> Threshold, openFor |-> 0]
    ELSE [b EXCEPT !.failures = @ + 1]

AgedBreaker(b) == [b EXCEPT !.openFor = AtMost(@ + 1, ResetAfter)]
=============================================================================
