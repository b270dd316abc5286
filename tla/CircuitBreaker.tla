--------------------------- MODULE CircuitBreaker ---------------------------
(***************************************************************************)
(* A circuit breaker in use: one caller, as the class requires, that calls *)
(* a dependency through it again and again.  The dependency goes down and  *)
(* comes back when it likes.  streak and quiet are what a caller sees, and *)
(* say nothing of the breaker's own fields: failures since the last        *)
(* success (up to Threshold) and the time since the last failure (up to    *)
(* ResetAfter).                                                            *)
(***************************************************************************)
EXTENDS BreakerRules

VARIABLES breaker, calling, down, streak, quiet

bvars == <<breaker, calling, down, streak, quiet>>

Init ==
  /\ breaker = NewBreaker
  /\ calling = FALSE
  /\ down \in BOOLEAN
  /\ streak = 0
  /\ quiet = 0

\* call, up to the operation: refused at once, or started.
Call ==
  /\ ~ calling
  /\ breaker' = Observed(breaker)
  /\ calling' = ~ Refuses(breaker)
  /\ UNCHANGED <<down, streak, quiet>>

CallSucceeds ==
  /\ calling /\ ~ down
  /\ calling' = FALSE
  /\ breaker' = Succeeded(breaker)
  /\ streak' = 0
  /\ UNCHANGED <<down, quiet>>

CallFails ==
  /\ calling /\ down
  /\ calling' = FALSE
  /\ breaker' = Failed(breaker)
  /\ streak' = AtMost(streak + 1, Threshold)
  /\ quiet' = 0
  /\ UNCHANGED down

DependencyTurns ==
  /\ down' = ~ down
  /\ UNCHANGED <<breaker, calling, streak, quiet>>

Tick ==
  /\ breaker' = AgedBreaker(breaker)
  /\ quiet' = AtMost(quiet + 1, ResetAfter)
  /\ UNCHANGED <<calling, down, streak>>

Next == Call \/ CallSucceeds \/ CallFails \/ DependencyTurns \/ Tick

Spec == Init /\ [][Next]_bvars

\* The caller keeps calling, a call returns, time passes; nothing is said of
\* the dependency.
FairSpec == /\ Spec
            /\ WF_bvars(Call) /\ WF_bvars(CallSucceeds \/ CallFails)
            /\ WF_bvars(Tick)

-----------------------------------------------------------------------------
FlagsOK == calling \in BOOLEAN /\ down \in BOOLEAN
CountsOK ==
  /\ breaker \in Breakers
  /\ streak \in 0 .. Threshold
  /\ quiet \in 0 .. ResetAfter

TypeOK == FlagsOK /\ CountsOK

\* NFR-16: a call is refused in an outage, and in nothing else: exactly when
\* the last Threshold calls failed and the last of them was less than
\* ResetAfter ago.  A failed probe therefore closes the window again at once.
RefusesExactlyInOutage ==
  Refuses(breaker) <=> streak = Threshold /\ quiet < ResetAfter

\* NFR-16: once the dependency is back for good, so is the breaker.
RecoversAfterOutage == <>[](~ down) => <>[](breaker.state = "closed")
=============================================================================
