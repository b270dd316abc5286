------------------------ MODULE CircuitBreakerProofs ------------------------
(***************************************************************************)
(* A breaker refuses in an outage and in nothing else, for every threshold *)
(* and every reset window.                                                 *)
(***************************************************************************)
EXTENDS CircuitBreaker, TLAPS

\* What the breaker's fields say of what its caller has seen.  The count
\* survives the half-open state, so a failed probe opens the breaker again
\* whatever the threshold; and the window is counted from the last failure.
FieldsTellHistory ==
  /\ breaker.failures = streak
  /\ breaker.state = "closed" <=> streak < Threshold
  /\ breaker.state = "open" => breaker.openFor = quiet
  /\ breaker.state = "half-open" => quiet = ResetAfter

BInv == CountsOK /\ FieldsTellHistory

\* A new breaker has seen nothing.
LEMMA BreakerInit == Init => BInv
BY BreakerAssumption DEF Init, BInv, CountsOK, FieldsTellHistory, NewBreaker, Breakers

\* Reading the state moves an open breaker on only when its window is over.
LEMMA CallKeeps == BInv /\ Call => BInv'
BY BreakerAssumption
   DEF Call, BInv, CountsOK, FieldsTellHistory, Observed, Refuses, Breakers

\* A success leaves the breaker as new.
LEMMA SuccessKeeps == BInv /\ CallSucceeds => BInv'
BY BreakerAssumption
   DEF CallSucceeds, BInv, CountsOK, FieldsTellHistory, Succeeded, NewBreaker, Breakers

\* A failure counts, and opens the breaker at the threshold and past it.
LEMMA FailureKeeps == BInv /\ CallFails => BInv'
<1>. SUFFICES ASSUME BInv, CallFails PROVE BInv'
  OBVIOUS
<1>. USE BreakerAssumption DEF BInv, CountsOK, FieldsTellHistory, CallFails, Failed,
                               AtMost, Breakers
<1>1. CASE breaker.failures + 1 >= Threshold
  <2>1. /\ breaker' = [state |-> "open", failures |-> Threshold, openFor |-> 0]
        /\ streak' = Threshold
    BY <1>1
  <2>. QED BY <2>1
<1>2. CASE ~ (breaker.failures + 1 >= Threshold)
  <2>1. /\ breaker' = [breaker EXCEPT !.failures = @ + 1]
        /\ streak' = streak + 1
    BY <1>2
  <2>. QED BY <1>2, <2>1
<1>. QED BY <1>1, <1>2

\* Time passes for the breaker and for its caller alike.
LEMMA TickKeeps == BInv /\ Tick => BInv'
BY BreakerAssumption
   DEF Tick, BInv, CountsOK, FieldsTellHistory, AgedBreaker, AtMost, Breakers

\* The fields tell the history in every reachable state.
THEOREM BreakerInvariant == Spec => []BInv
<1>1. BInv /\ [Next]_bvars => BInv'
  <2>. SUFFICES ASSUME BInv, [Next]_bvars PROVE BInv'
    OBVIOUS
  <2>1. CASE DependencyTurns
    BY <2>1 DEF DependencyTurns, BInv, CountsOK, FieldsTellHistory
  <2>2. CASE UNCHANGED bvars
    BY <2>2 DEF bvars, BInv, CountsOK, FieldsTellHistory
  <2>. QED BY <2>1, <2>2, CallKeeps, SuccessKeeps, FailureKeeps, TickKeeps DEF Next
<1>. QED BY <1>1, BreakerInit, PTL DEF Spec

\* The two flags are flags, and the counts stay in range.
THEOREM BreakerTypeCorrect == Spec => []TypeOK
<1>1. Init => FlagsOK
  BY Zenon DEF Init, FlagsOK
<1>2. FlagsOK /\ [Next]_bvars => FlagsOK'
  <2>. SUFFICES ASSUME FlagsOK, [Next]_bvars PROVE FlagsOK'
    OBVIOUS
  <2>1. CASE Call
    <3>1. calling' \in BOOLEAN
      BY <2>1 DEF Call
    <3>. QED BY <2>1, <3>1, Zenon DEF Call, FlagsOK
  <2>2. CASE CallSucceeds
    BY <2>2, Zenon DEF CallSucceeds, FlagsOK
  <2>3. CASE CallFails
    BY <2>3, Zenon DEF CallFails, FlagsOK
  <2>4. CASE DependencyTurns
    <3>1. down' \in BOOLEAN
      BY <2>4 DEF DependencyTurns
    <3>. QED BY <2>4, <3>1, Zenon DEF DependencyTurns, FlagsOK
  <2>5. CASE Tick
    BY <2>5 DEF Tick, FlagsOK
  <2>6. CASE UNCHANGED bvars
    BY <2>6 DEF bvars, FlagsOK
  <2>. QED BY <2>1, <2>2, <2>3, <2>4, <2>5, <2>6 DEF Next
<1>3. Spec => []FlagsOK
  BY <1>1, <1>2, PTL DEF Spec
<1>4. BInv => CountsOK
  BY DEF BInv
<1>. QED BY <1>3, <1>4, BreakerInvariant, PTL DEF TypeOK

\* NFR-16, for every threshold and window: the breaker refuses a call exactly
\* when the last Threshold calls failed, the last one within the window.
THEOREM BreakerRefusesInOutage == Spec => []RefusesExactlyInOutage
<1>1. BInv => RefusesExactlyInOutage
  BY BreakerAssumption
     DEF BInv, CountsOK, FieldsTellHistory, RefusesExactlyInOutage, Refuses, Observed,
         Breakers
<1>. QED BY <1>1, BreakerInvariant, PTL
=============================================================================
