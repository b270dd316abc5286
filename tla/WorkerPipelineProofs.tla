------------------------ MODULE WorkerPipelineProofs ------------------------
(***************************************************************************)
(* What a record may send, say and spend, for every setting of the         *)
(* timeouts, the retries and the breaker.                                  *)
(***************************************************************************)
EXTENDS WorkerPipeline, TLAPS

Active == run.pc # "idle"

\* Where the main thread may stand, and which outcomes come from where.
Placed ==
  /\ run.pc \in {"calling", "sleeping"} => run.stage \in Deps
  /\ run.pc = "sleeping" => run.attempt < MaxRetries
  /\ run.pc = "noticing" => run.stage = "size"
  /\ run.pc \in {"idle", "at", "calling", "sleeping", "noticing"} => run.outcome = "none"
  /\ run.outcome = "oversize" => run.stage = "size"
  /\ run.outcome = "safety-refuse" => run.stage = "scan"
  /\ run.outcome = "budget-deny" => run.stage = "budget"
  /\ run.outcome = "answer" => run.stage = "compose"
  /\ PaidForIsPosted

\* All that was fetched is held, or the question alone, and the asker knows.
Complete == holding = input.parts \/ (holding = {Extracted} /\ told)

\* What is held, scanned and sent at each stage.
Handled ==
  /\ OnlyScannedLeaves
  /\ Active /\ run.stage \in {"slack", "size", "scan", "budget"} => sent = {}
  /\ Active /\ run.stage \in {"budget", "mcp", "inference", "compose"}
       => scanned = holding /\ holding \cap input.flagged = {}
  /\ Active /\ run.stage # "slack" => Complete
  /\ verdict = "answer" => Complete
  /\ verdict # "none" => run.pc = "idle"

\* The heartbeat thread is gone when the join is over: the join outlasts the
\* post in flight, and a stopped thread does not start another.
Beating ==
  /\ beat.pc = "posting" => beat.spent <= SlackTimeout
  /\ run.pc = "joining" => /\ stop
                           /\ run.spent <= SlackTimeout
                           /\ beat.pc = "posting" => run.spent <= beat.spent
  /\ run.pc \in {"idle", "posting", "killed"} => beat.pc = "off"

-----------------------------------------------------------------------------
(* The breakers and the run are what they should be after each change.       *)

\* Whatever happens to a breaker, it is a breaker.
LEMMA BreakerTyped ==
  ASSUME NEW b \in Breakers
  PROVE  /\ Observed(b) \in Breakers /\ Succeeded(b) \in Breakers
         /\ Failed(b) \in Breakers /\ AgedBreaker(b) \in Breakers
<1>. USE BreakerAssumption DEF Breakers
<1>1. Observed(b) \in Breakers
  BY DEF Observed
<1>2. Succeeded(b) \in Breakers
  BY DEF Succeeded, NewBreaker
<1>3. Failed(b) \in Breakers
  BY DEF Failed
<1>4. AgedBreaker(b) \in Breakers
  BY DEF AgedBreaker, AtMost
<1>. QED BY <1>1, <1>2, <1>3, <1>4

\* The next stage of the pipeline is a stage of it.
LEMMA NextStageTyped == \A stage \in Stages : NextStage(stage) \in Stages
BY DEF NextStage, Stages, Deps

\* A run that goes on is a run, and nothing else of it changes.
LEMMA AdvancedTyped ==
  ASSUME run \in Runs
  PROVE  /\ Advanced \in Runs
         /\ Advanced.pc = "at" /\ Advanced.stage = NextStage(run.stage)
         /\ Advanced.attempt = 0 /\ Advanced.spent = 0
         /\ Advanced.age = run.age /\ Advanced.outcome = run.outcome
<1> DEFINE at == [run EXCEPT !.pc = "at"]
           on == [at EXCEPT !.stage = NextStage(@)]
           first == [on EXCEPT !.attempt = 0]
           fresh == [first EXCEPT !.spent = 0]
<1>1. at \in Runs /\ at.pc = "at" /\ at.stage = run.stage /\ at.age = run.age
      /\ at.outcome = run.outcome
  BY DEF Runs
<1>2. Advanced = [fresh EXCEPT !.hint = 0]
  BY DEF Advanced
<1> HIDE DEF at
<1>3. on \in Runs /\ on.pc = "at" /\ on.stage = NextStage(run.stage)
      /\ on.age = run.age /\ on.outcome = run.outcome
  <2>1. NextStage(at.stage) \in Stages
    BY <1>1, NextStageTyped DEF Runs
  <2>. QED BY <1>1, <2>1 DEF Runs
<1> HIDE DEF on
<1>4. first \in Runs /\ first.pc = "at" /\ first.stage = NextStage(run.stage)
      /\ first.attempt = 0 /\ first.age = run.age /\ first.outcome = run.outcome
  BY <1>3, TimesAssumption DEF Runs
<1> HIDE DEF first
<1>5. fresh \in Runs /\ fresh.pc = "at" /\ fresh.stage = NextStage(run.stage)
      /\ fresh.attempt = 0 /\ fresh.spent = 0 /\ fresh.age = run.age
      /\ fresh.outcome = run.outcome
  BY <1>4 DEF Runs
<1> HIDE DEF fresh
<1>. QED BY <1>2, <1>5, TimesAssumption DEF Runs

\* A run that leaves the pipeline keeps its stage and its age.
LEMMA LeavingTyped ==
  ASSUME run \in Runs, NEW outcome \in Outcomes
  PROVE  /\ Leaving(outcome) \in Runs
         /\ Leaving(outcome).pc = "stopping" /\ Leaving(outcome).stage = run.stage
         /\ Leaving(outcome).outcome = outcome /\ Leaving(outcome).age = run.age
         /\ Leaving(outcome).spent = 0
<1> DEFINE stopping == [run EXCEPT !.pc = "stopping"]
           ended == [stopping EXCEPT !.outcome = outcome]
           fresh == [ended EXCEPT !.spent = 0]
<1>1. stopping \in Runs /\ stopping.pc = "stopping" /\ stopping.stage = run.stage
      /\ stopping.age = run.age
  BY DEF Runs
<1>2. Leaving(outcome) = [fresh EXCEPT !.hint = 0]
  BY DEF Leaving
<1> HIDE DEF stopping
<1>3. ended \in Runs /\ ended.pc = "stopping" /\ ended.stage = run.stage
      /\ ended.age = run.age /\ ended.outcome = outcome
  BY <1>1 DEF Runs
<1> HIDE DEF ended
<1>4. fresh \in Runs /\ fresh.pc = "stopping" /\ fresh.stage = run.stage
      /\ fresh.age = run.age /\ fresh.outcome = outcome /\ fresh.spent = 0
  BY <1>3 DEF Runs
<1> HIDE DEF fresh
<1>. QED BY <1>2, <1>4, TimesAssumption DEF Runs

\* A run at rest is a run.
LEMMA NoRunTyped == NoRun \in Runs
BY TimesAssumption DEF NoRun, Runs, Stages, Deps, Outcomes

\* A run that moves to a call, a join or a post.
LEMMA MovedTyped ==
  ASSUME run \in Runs, NEW pc \in {"calling", "joining", "posting"},
         run' = [run EXCEPT !.pc = pc, !.spent = 0]
  PROVE  /\ run' \in Runs
         /\ run'.pc = pc /\ run'.stage = run.stage /\ run'.attempt = run.attempt
         /\ run'.age = run.age /\ run'.spent = 0 /\ run'.outcome = run.outcome
BY DEF Runs

\* A run that sleeps, with what the server asked for.
LEMMA SleepingTyped ==
  ASSUME run \in Runs, NEW hint \in RetryAfters,
         run' = [run EXCEPT !.pc = "sleeping", !.spent = 0, !.hint = hint]
  PROVE  /\ run' \in Runs
         /\ run'.pc = "sleeping" /\ run'.stage = run.stage /\ run'.attempt = run.attempt
         /\ run'.age = run.age /\ run'.spent = 0 /\ run'.outcome = run.outcome
BY DEF Runs

\* A run that tries again, once more than before.
LEMMA AwakeTyped ==
  ASSUME run \in Runs, run.attempt < MaxRetries, SleepEnds
  PROVE  /\ run' \in Runs
         /\ run'.pc = "calling" /\ run'.stage = run.stage
         /\ run'.attempt = run.attempt + 1
         /\ run'.age = run.age /\ run'.spent = 0 /\ run'.outcome = run.outcome
<1> DEFINE calling == [run EXCEPT !.pc = "calling"]
           again == [calling EXCEPT !.attempt = @ + 1]
           fresh == [again EXCEPT !.spent = 0]
<1>1. calling \in Runs /\ calling.pc = "calling" /\ calling.stage = run.stage
      /\ calling.attempt = run.attempt /\ calling.age = run.age
      /\ calling.outcome = run.outcome
  BY DEF Runs
<1>2. run' = [fresh EXCEPT !.hint = 0]
  BY DEF SleepEnds
<1> HIDE DEF calling
<1>3. again \in Runs /\ again.pc = "calling" /\ again.stage = run.stage
      /\ again.attempt = run.attempt + 1 /\ again.age = run.age
      /\ again.outcome = run.outcome
  BY <1>1, TimesAssumption DEF Runs
<1> HIDE DEF again
<1>4. fresh \in Runs /\ fresh.pc = "calling" /\ fresh.stage = run.stage
      /\ fresh.attempt = run.attempt + 1 /\ fresh.age = run.age /\ fresh.spent = 0
      /\ fresh.outcome = run.outcome
  BY <1>3 DEF Runs
<1> HIDE DEF fresh
<1>. QED BY <1>2, <1>4, TimesAssumption DEF Runs

\* A run that posts a notice, or is killed, is otherwise as it was.
LEMMA PlacedTyped ==
  ASSUME run \in Runs, NEW pc \in {"noticing", "killed"},
         run' = [run EXCEPT !.pc = pc]
  PROVE  /\ run' \in Runs
         /\ run'.pc = pc /\ run'.stage = run.stage /\ run'.attempt = run.attempt
         /\ run'.age = run.age /\ run'.spent = run.spent /\ run'.outcome = run.outcome
BY DEF Runs

\* Time passes for a run.
LEMMA TickTyped ==
  ASSUME run \in Runs, Tick
  PROVE  /\ run' \in Runs
         /\ run'.pc = run.pc /\ run'.stage = run.stage /\ run'.attempt = run.attempt
         /\ run'.age = run.age + 1 /\ run'.spent = run.spent + 1
         /\ run'.outcome = run.outcome
<1> DEFINE older == [run EXCEPT !.age = @ + 1]
<1>1. /\ run.age \in 0 .. LambdaTimeout /\ run.age < LambdaTimeout
      /\ run.spent \in Nat /\ LambdaTimeout \in Nat
  BY TimesAssumption DEF Runs, Tick
<1>2. older \in Runs /\ older.pc = run.pc /\ older.stage = run.stage
      /\ older.attempt = run.attempt /\ older.age = run.age + 1
      /\ older.spent = run.spent /\ older.outcome = run.outcome
  BY <1>1 DEF Runs
<1>3. run' = [older EXCEPT !.spent = @ + 1]
  BY DEF Tick
<1> HIDE DEF older
<1>. QED BY <1>1, <1>2, <1>3 DEF Runs

-----------------------------------------------------------------------------
(* The main thread's types and places.                                       *)

\* GuardedCall starts its call, or leaves for want of time or of a dependency.
LEMMA GuardedCallMoves ==
  ASSUME run \in Runs, GuardedCall
  PROVE  /\ run' \in Runs /\ run'.stage = run.stage /\ run'.age = run.age
         /\ \/ /\ run'.pc = "calling" /\ run'.outcome = run.outcome
               /\ run'.attempt = run.attempt /\ run'.spent = 0
               /\ run.age < Budget
            \/ /\ run'.pc = "stopping" /\ run'.outcome \in {"timeout", "dependency"}
               /\ run'.spent = 0
<1>1. CASE BudgetSpent(run.age)
  BY <1>1, LeavingTyped DEF GuardedCall, Outcomes, Causes
<1>2. CASE ~ BudgetSpent(run.age) /\ Refuses(breakers[run.stage])
  BY <1>2, LeavingTyped DEF GuardedCall, Outcomes, Causes
<1>3. CASE ~ BudgetSpent(run.age) /\ ~ Refuses(breakers[run.stage])
  <2>1. run' = [run EXCEPT !.pc = "calling", !.spent = 0]
    BY <1>3 DEF GuardedCall
  <2>2. run.age < Budget
    BY <1>3, TimesAssumption DEF BudgetSpent, Runs
  <2>. QED BY <2>1, <2>2, MovedTyped
<1>. QED BY <1>1, <1>2, <1>3

\* A call that fails for good leaves the pipeline.
LEMMA FailureMoves ==
  ASSUME run \in Runs, RetriesExhausted \/ CallRaises
  PROVE  /\ run' \in Runs /\ run'.stage = run.stage /\ run'.age = run.age
         /\ run'.pc = "stopping" /\ run'.outcome \in {"dependency", "raised"}
         /\ run'.spent = 0
BY LeavingTyped DEF RetriesExhausted, CallRaises, GivesUp, Outcomes, Causes

\* A call that goes on, or a gate that lets the record pass.
LEMMA AdvanceMoves ==
  ASSUME run \in Runs, run' = Advanced
  PROVE  /\ run' \in Runs /\ run'.pc = "at" /\ run'.stage = NextStage(run.stage)
         /\ run'.attempt = 0 /\ run'.spent = 0 /\ run'.age = run.age
         /\ run'.outcome = run.outcome
BY AdvancedTyped

\* A gate or the composer that ends the record leaves the pipeline.
LEMMA LeaveMoves ==
  ASSUME run \in Runs, NEW outcome \in Outcomes, run' = Leaving(outcome)
  PROVE  /\ run' \in Runs /\ run'.pc = "stopping" /\ run'.stage = run.stage
         /\ run'.outcome = outcome /\ run'.age = run.age /\ run'.spent = 0
BY LeavingTyped

\* An answer as composed validates: a structured type has its trade-offs, and
\* it is grounded exactly when it cites.
LEMMA ComposedValidates ==
  \A type \in AnswerTypes, tradeOffs \in BOOLEAN, sources \in BOOLEAN :
    Validates([type |-> ComposedType(type, tradeOffs), tradeOffs |-> tradeOffs,
               cited |-> sources, grounded |-> sources])
<1>. SUFFICES ASSUME NEW type \in AnswerTypes, NEW tradeOffs \in BOOLEAN,
                     NEW sources \in BOOLEAN
              PROVE  RequiresTradeOffs(ComposedType(type, tradeOffs)) => tradeOffs
  BY DEF Validates
<1>1. CASE tradeOffs
  BY <1>1
<1>2. CASE ~ tradeOffs
  BY <1>2 DEF ComposedType, RequiresTradeOffs
<1>. QED BY <1>1, <1>2

\* The main thread stays within its type, and stands only where it should.
LEMMA RunKept == (run \in Runs /\ Placed) /\ [Next]_vars => (run \in Runs /\ Placed)'
<1>. SUFFICES ASSUME run \in Runs, Placed, [Next]_vars
              PROVE  run' \in Runs /\ Placed'
  OBVIOUS
<1>. USE DEF Placed, PaidForIsPosted
<1>o. run.outcome \in Outcomes
  BY DEF Runs
<1>1. CASE Begin
  <2>1. run' = [NoRun EXCEPT !.pc = "at"]
    BY <1>1 DEF Begin
  <2>2. run' \in Runs /\ run'.pc = "at" /\ run'.outcome = "none"
    BY <2>1, NoRunTyped DEF NoRun, Runs
  <2>. QED BY <2>2
<1>2. CASE GuardedCall
  <2>1. run.pc = "at" /\ run.stage \in Deps
    BY <1>2 DEF GuardedCall, At
  <2>. QED BY <1>2, <2>1, GuardedCallMoves
<1>3. CASE CallSucceeds
  <2>1. run.pc = "calling" /\ run' = Advanced
    BY <1>3 DEF CallSucceeds, At
  <2>. QED BY <2>1, AdvanceMoves
<1>4. CASE CallRetries
  <2>1. run.pc = "calling" /\ run.attempt < MaxRetries
    BY <1>4 DEF CallRetries, At
  <2>. QED BY <1>4, <2>1, SleepingTyped DEF CallRetries
<1>5. CASE RetriesExhausted \/ CallRaises
  <2>1. run.pc = "calling" /\ run.stage \in Deps
    BY <1>5 DEF RetriesExhausted, CallRaises, At
  <2>. QED BY <1>5, <2>1, FailureMoves DEF Deps
<1>6. CASE SleepEnds
  <2>1. run.pc = "sleeping"
    BY <1>6 DEF SleepEnds, At
  <2>. QED BY <1>6, <2>1, AwakeTyped
<1>7. CASE SizeGate
  <2>1. run.pc = "at" /\ run.stage = "size"
    BY <1>7 DEF SizeGate, AtStage
  <2>2. CASE run' = Advanced
    BY <2>1, <2>2, AdvanceMoves
  <2>3. CASE run' = Leaving("oversize")
    BY <2>1, <2>3, LeaveMoves DEF Outcomes, Causes
  <2>4. CASE run' = [run EXCEPT !.pc = "noticing"]
    BY <2>1, <2>4, PlacedTyped
  <2>. QED BY <1>7, <2>2, <2>3, <2>4 DEF SizeGate
<1>8. CASE TrimNotice
  <2>1. run.pc = "noticing" /\ run' = Advanced
    BY <1>8 DEF TrimNotice, At
  <2>. QED BY <2>1, AdvanceMoves
<1>9. CASE TrimNoticeFails
  <2>1. run.pc = "noticing" /\ run' = Leaving("raised")
    BY <1>9 DEF TrimNoticeFails, At
  <2>. QED BY <2>1, LeaveMoves DEF Outcomes
<1>10. CASE ScanGate
  <2>1. run.pc = "at" /\ run.stage = "scan"
    BY <1>10 DEF ScanGate, AtStage
  <2>2. run' = Leaving("safety-refuse") \/ run' = Advanced
    BY <1>10 DEF ScanGate
  <2>. QED BY <2>1, <2>2, AdvanceMoves, LeaveMoves DEF Outcomes, Causes
<1>11. CASE BudgetGate
  <2>1. run.pc = "at" /\ run.stage = "budget"
    BY <1>11 DEF BudgetGate, AtStage
  <2>2. run' = Advanced \/ run' = Leaving("budget-deny") \/ run' = Leaving("raised")
    BY <1>11 DEF BudgetGate
  <2>. QED BY <2>1, <2>2, AdvanceMoves, LeaveMoves DEF Outcomes, Causes
<1>12. CASE Compose
  <2>1. run.pc = "at" /\ run.stage = "compose"
    BY <1>12 DEF Compose, AtStage
  <2>2. run' = Leaving("answer")
    BY <1>12, ComposedValidates DEF Compose
  <2>. QED BY <2>1, <2>2, LeaveMoves DEF Outcomes
<1>13. CASE StopHeartbeat
  <2>1. run.pc = "stopping"
    BY <1>13 DEF StopHeartbeat, At
  <2>. QED BY <1>13, <2>1, MovedTyped DEF StopHeartbeat
<1>14. CASE Joined
  <2>1. run.pc = "joining"
    BY <1>14 DEF Joined, At
  <2>2. CASE run' = NoRun
    BY <2>2, NoRunTyped DEF NoRun
  <2>3. CASE run' = [run EXCEPT !.pc = "posting", !.spent = 0]
    BY <2>1, <2>3, MovedTyped
  <2>. QED BY <1>14, <2>2, <2>3 DEF Joined
<1>15. CASE PostVerdict \/ Replaced
  BY <1>15, NoRunTyped DEF PostVerdict, Replaced, NoRun
<1>16. CASE Tick
  BY <1>16, TickTyped
<1>17. CASE Killed
  BY <1>17, PlacedTyped DEF Killed
<1>18. CASE BeatStep \/ UNCHANGED vars
  BY <1>18 DEF BeatStep, BeatDue, BeatPosted, BeatStops, vars
<1>. QED
  BY <1>1, <1>2, <1>3, <1>4, <1>5, <1>6, <1>7, <1>8, <1>9, <1>10, <1>11, <1>12,
     <1>13, <1>14, <1>15, <1>16, <1>17, <1>18 DEF Next, MainStep

-----------------------------------------------------------------------------
(* The types of the rest.                                                    *)

\* Every fetch brings what _extract_question then takes for the question.
LEMMA QuestionFetched == input \in Inputs => Extracted \in input.parts /\ Extracted \in Parts
BY DEF Inputs, Fetched, Extracted, Parts

\* No action takes a variable out of its type.
LEMMA TypesKept == TypeOK /\ Placed /\ [Next]_vars => TypeOK'
<1>. SUFFICES ASSUME TypeOK, Placed, [Next]_vars PROVE TypeOK'
  OBVIOUS
<1>r. run' \in Runs
  BY RunKept DEF TypeOK
<1>1. input' \in Inputs
  BY DEF TypeOK, Next, vars, Begin, MainStep, BeatStep, GuardedCall, CallSucceeds,
     CallRetries, RetriesExhausted, CallRaises, GivesUp, SleepEnds, SizeGate,
     TrimNotice, TrimNoticeFails, ScanGate, BudgetGate, Compose, StopHeartbeat,
     Joined, PostVerdict, BeatDue, BeatPosted, BeatStops, Tick, Killed, Replaced
<1>2. {holding', scanned', sent'} \subseteq SUBSET Parts
  <2>1. holding \subseteq Parts /\ scanned \subseteq Parts /\ sent \subseteq Parts
    BY DEF TypeOK
  <2>2. input.parts \subseteq Parts /\ Extracted \in Parts
    BY QuestionFetched DEF TypeOK, Inputs, Fetched, Parts
  <2>3. CASE Begin
    BY <2>3 DEF Begin
  <2>4. CASE GuardedCall
    BY <2>1, <2>2, <2>4 DEF GuardedCall
  <2>5. CASE CallSucceeds
    BY <2>1, <2>2, <2>5 DEF CallSucceeds
  <2>6. CASE TrimNotice
    BY <2>1, <2>2, <2>6 DEF TrimNotice
  <2>7. CASE ScanGate
    BY <2>1, <2>7 DEF ScanGate
  <2>8. CASE UNCHANGED <<holding, scanned, sent>>
    BY <2>1, <2>8
  <2>. QED
    BY <2>3, <2>4, <2>5, <2>6, <2>7, <2>8 DEF Next, vars, MainStep, BeatStep,
       CallRetries, RetriesExhausted, CallRaises, GivesUp, SleepEnds, SizeGate,
       TrimNoticeFails, BudgetGate, Compose, StopHeartbeat, Joined, PostVerdict,
       BeatDue, BeatPosted, BeatStops, Tick, Killed, Replaced
<1>3. told' \in BOOLEAN
  <2>1. told' = told \/ told' = TRUE \/ told' = FALSE
    BY DEF Next, vars, Begin, MainStep, BeatStep, GuardedCall, CallSucceeds,
       CallRetries, RetriesExhausted, CallRaises, GivesUp, SleepEnds, SizeGate,
       TrimNotice, TrimNoticeFails, ScanGate, BudgetGate, Compose, StopHeartbeat,
       Joined, PostVerdict, BeatDue, BeatPosted, BeatStops, Tick, Killed, Replaced
  <2>. QED BY <2>1 DEF TypeOK
<1>4. stop' \in BOOLEAN
  <2>1. stop' = stop \/ stop' = TRUE \/ stop' = FALSE
    BY DEF Next, vars, Begin, MainStep, BeatStep, GuardedCall, CallSucceeds,
       CallRetries, RetriesExhausted, CallRaises, GivesUp, SleepEnds, SizeGate,
       TrimNotice, TrimNoticeFails, ScanGate, BudgetGate, Compose, StopHeartbeat,
       Joined, PostVerdict, BeatDue, BeatPosted, BeatStops, Tick, Killed, Replaced
  <2>. QED BY <2>1 DEF TypeOK
<1>5. verdict' \in {"none", "answer", "failure"}
  BY DEF TypeOK, Next, vars, Begin, MainStep, BeatStep, GuardedCall, CallSucceeds,
     CallRetries, RetriesExhausted, CallRaises, GivesUp, SleepEnds, SizeGate,
     TrimNotice, TrimNoticeFails, ScanGate, BudgetGate, Compose, StopHeartbeat,
     Joined, PostVerdict, BeatDue, BeatPosted, BeatStops, Tick, Killed, Replaced
<1>6. beat' \in Beats
  <2>1. beat \in Beats
    BY DEF TypeOK
  <2>2. CASE Tick
    BY <2>1, <2>2 DEF Tick, Beats
  <2>3. CASE beat' \in {beat, NoBeat, [NoBeat EXCEPT !.pc = "waiting"],
                        [pc |-> "posting", spent |-> 0], [pc |-> "waiting", spent |-> 0]}
    BY <2>1, <2>3 DEF Beats, NoBeat
  <2>. QED
    BY <2>2, <2>3 DEF Next, vars, Begin, MainStep, BeatStep, GuardedCall, CallSucceeds,
       CallRetries, RetriesExhausted, CallRaises, GivesUp, SleepEnds, SizeGate,
       TrimNotice, TrimNoticeFails, ScanGate, BudgetGate, Compose, StopHeartbeat,
       Joined, PostVerdict, BeatDue, BeatPosted, BeatStops, Killed, Replaced
<1>7. breakers' \in [Deps -> Breakers]
  <2>1. breakers \in [Deps -> Breakers]
    BY DEF TypeOK
  <2>2. CASE Begin
    <3>1. NewBreaker \in Breakers
      BY BreakerAssumption DEF NewBreaker, Breakers
    <3>. QED BY <2>2, <3>1 DEF Begin
  <2>3. CASE GuardedCall
    BY <2>1, <2>3, BreakerTyped DEF GuardedCall
  <2>4. CASE CallSucceeds
    BY <2>1, <2>4, BreakerTyped DEF CallSucceeds
  <2>5. CASE RetriesExhausted \/ CallRaises
    <3>1. breakers' = [breakers EXCEPT ![run.stage] = Failed(@)]
      BY <2>5 DEF RetriesExhausted, CallRaises, GivesUp
    <3>. QED BY <2>1, <3>1, BreakerTyped
  <2>6. CASE Tick
    BY <2>1, <2>6, BreakerTyped DEF Tick
  <2>7. CASE UNCHANGED breakers
    BY <2>1, <2>7
  <2>. QED
    BY <2>2, <2>3, <2>4, <2>5, <2>6, <2>7 DEF Next, vars, MainStep, BeatStep,
       CallRetries, SleepEnds, SizeGate, TrimNotice, TrimNoticeFails, ScanGate,
       BudgetGate, Compose, StopHeartbeat, Joined, PostVerdict, BeatDue,
       BeatPosted, BeatStops, Killed, Replaced
<1>8. streak' \in [Deps -> 0 .. Threshold]
  <2>1. streak \in [Deps -> 0 .. Threshold]
    BY DEF TypeOK
  <2>2. CASE CallSucceeds
    <3>1. 0 \in 0 .. Threshold
      BY BreakerAssumption
    <3>2. streak' = [streak EXCEPT ![run.stage] = 0]
      BY <2>2 DEF CallSucceeds
    <3>. QED BY <2>1, <3>1, <3>2
  <2>3. CASE RetriesExhausted \/ CallRaises
    <3>1. streak' = [streak EXCEPT ![run.stage] = AtMost(@ + 1, Threshold)]
      BY <2>3 DEF RetriesExhausted, CallRaises, GivesUp
    <3>2. \A n \in 0 .. Threshold : AtMost(n + 1, Threshold) \in 0 .. Threshold
      BY BreakerAssumption DEF AtMost
    <3>. QED BY <2>1, <3>1, <3>2
  <2>4. CASE UNCHANGED streak
    BY <2>1, <2>4
  <2>. QED
    BY <2>2, <2>3, <2>4 DEF Next, vars, Begin, MainStep, BeatStep, GuardedCall,
       CallRetries, SleepEnds, SizeGate, TrimNotice, TrimNoticeFails, ScanGate,
       BudgetGate, Compose, StopHeartbeat, Joined, PostVerdict, BeatDue,
       BeatPosted, BeatStops, Tick, Killed, Replaced
<1>. QED BY <1>r, <1>1, <1>2, <1>3, <1>4, <1>5, <1>6, <1>7, <1>8 DEF TypeOK

-----------------------------------------------------------------------------
(* What is held, scanned, sent and said.                                     *)

\* A step that keeps to its stage, and to what was held and said, changes
\* nothing of what may be said of them.
LEMMA HandledElsewhere ==
  ASSUME Handled, UNCHANGED <<input, holding, scanned, sent, told, verdict>>,
         run'.stage = run.stage, Active, Active' \/ verdict = "none"
  PROVE  Handled'
<1>1. OnlyScannedLeaves' /\ Complete' = Complete
  BY DEF Handled, OnlyScannedLeaves, Complete, Extracted
<1>. QED BY <1>1 DEF Handled, Active

\* A record at rest only keeps its verdict.
LEMMA HandledAtRest ==
  ASSUME Handled, UNCHANGED <<input, holding, scanned, sent, told, verdict>>,
         run'.pc = "idle"
  PROVE  Handled'
<1>1. OnlyScannedLeaves' /\ Complete' = Complete
  BY DEF Handled, OnlyScannedLeaves, Complete, Extracted
<1>. QED BY <1>1 DEF Handled, Active

\* Only the scan lets anything past it, the calls send what was scanned, and
\* what is held is all of it or the question with the notice.
LEMMA HandledKept == TypeOK /\ Placed /\ Handled /\ [Next]_vars => Handled'
<1>. SUFFICES ASSUME TypeOK, Placed, Handled, [Next]_vars PROVE Handled'
  OBVIOUS
<1>r. run \in Runs /\ run' \in Runs
  BY RunKept DEF TypeOK
<1>q. Extracted \in input.parts
  BY QuestionFetched DEF TypeOK
<1>1. CASE Begin
  BY <1>1 DEF Begin, Handled, OnlyScannedLeaves, Complete, Active, NoRun
<1>2. CASE GuardedCall
  <2>1. /\ run.pc = "at" /\ run.stage \in Deps /\ Active /\ verdict = "none"
        /\ UNCHANGED <<input, holding, scanned, told, verdict>>
    BY <1>2 DEF GuardedCall, At, Active, Handled
  <2>2. run'.stage = run.stage /\ run'.pc # "idle"
    BY <1>2, <1>r, GuardedCallMoves
  <2>3. CASE sent' = sent
    BY <2>1, <2>2, <2>3, HandledElsewhere DEF Active
  <2>4. CASE sent' # sent
    <3>1. run.stage \in {"mcp", "inference"}
      BY <1>2, <2>1, <2>4 DEF GuardedCall, Deps
    <3>2. sent' \subseteq sent \cup holding
      <4>1. sent' \in {sent, sent \cup {Extracted}, sent \cup holding}
        BY <1>2 DEF GuardedCall
      <4>2. Extracted \in holding
        BY <1>q, <2>1, <3>1 DEF Handled, Complete
      <4>. QED BY <4>1, <4>2
    <3>3. scanned = holding /\ holding \cap input.flagged = {}
      BY <2>1, <3>1 DEF Handled
    <3>4. Complete'
      <4>1. Complete
        BY <2>1, <3>1 DEF Handled
      <4>. QED BY <2>1, <4>1 DEF Complete, Extracted
    <3>. QED BY <2>1, <2>2, <3>1, <3>2, <3>3, <3>4 DEF Handled, OnlyScannedLeaves, Active
  <2>. QED BY <2>3, <2>4
<1>3. CASE CallSucceeds
  <2>1. /\ run.pc = "calling" /\ run.stage \in Deps /\ Active /\ verdict = "none"
        /\ UNCHANGED <<input, scanned, sent, told, verdict>>
        /\ holding' = IF run.stage = "slack" THEN input.parts ELSE holding
    BY <1>3 DEF CallSucceeds, At, Active, Handled, Placed
  <2>2. run'.stage = NextStage(run.stage) /\ run'.pc = "at"
    BY <1>3, <1>r, AdvanceMoves DEF CallSucceeds
  <2>3. CASE run.stage = "slack"
    <3>1. run'.stage = "size" /\ Complete'
      BY <2>1, <2>2, <2>3 DEF NextStage, Complete
    <3>. QED BY <2>1, <2>2, <2>3, <3>1 DEF Handled, OnlyScannedLeaves, Active
  <2>4. CASE run.stage \in {"mcp", "inference"}
    <3>1. run'.stage \in {"inference", "compose"}
      BY <2>2, <2>4 DEF NextStage
    <3>2. Complete'
      BY <2>1, <2>4 DEF Handled, Complete, Extracted
    <3>. QED BY <2>1, <2>2, <2>4, <3>1, <3>2 DEF Handled, OnlyScannedLeaves, Active
  <2>. QED BY <2>1, <2>3, <2>4 DEF Deps
<1>4. CASE CallRetries \/ RetriesExhausted \/ CallRaises
  <2>1. /\ run.pc = "calling"
        /\ UNCHANGED <<input, holding, scanned, sent, told, verdict>>
    BY <1>4 DEF CallRetries, RetriesExhausted, CallRaises, GivesUp, At
  <2>2. run'.stage = run.stage /\ run'.pc # "idle"
    BY <1>4, <1>r, SleepingTyped, FailureMoves DEF CallRetries
  <2>. QED BY <2>1, <2>2, HandledElsewhere DEF Active
<1>5. CASE SleepEnds
  <2>1. /\ run.pc = "sleeping" /\ run.attempt < MaxRetries
        /\ UNCHANGED <<input, holding, scanned, sent, told, verdict>>
    BY <1>5 DEF SleepEnds, At, Placed
  <2>. QED BY <1>5, <1>r, <2>1, AwakeTyped, HandledElsewhere DEF Active
<1>6. CASE SizeGate
  <2>1. /\ run.pc = "at" /\ run.stage = "size" /\ Active
        /\ UNCHANGED <<input, holding, scanned, sent, told, verdict>>
    BY <1>6 DEF SizeGate, AtStage, Active
  <2>2. CASE run' = Advanced
    <3>1. run'.stage = "scan" /\ run'.pc = "at"
      BY <1>r, <2>1, <2>2, AdvanceMoves DEF NextStage
    <3>2. Complete'
      BY <2>1 DEF Handled, Complete, Extracted
    <3>. QED BY <2>1, <3>1, <3>2 DEF Handled, OnlyScannedLeaves, Active
  <2>3. CASE run' = Leaving("oversize")
    BY <1>r, <2>1, <2>3, LeaveMoves, HandledElsewhere DEF Outcomes, Causes, Active
  <2>4. CASE run' = [run EXCEPT !.pc = "noticing"]
    BY <1>r, <2>1, <2>4, PlacedTyped, HandledElsewhere DEF Active
  <2>. QED BY <1>6, <2>2, <2>3, <2>4 DEF SizeGate
<1>7. CASE TrimNotice
  <2>1. /\ run.pc = "noticing" /\ run.stage = "size" /\ Active /\ verdict = "none"
        /\ told' /\ holding' = {Extracted} /\ run' = Advanced
        /\ UNCHANGED <<input, scanned, sent, verdict>>
    BY <1>7 DEF TrimNotice, At, Placed, Active, Handled
  <2>2. run'.stage = "scan" /\ run'.pc = "at"
    BY <1>r, <2>1, AdvanceMoves DEF NextStage
  <2>3. Complete'
    BY <2>1 DEF Complete, Extracted
  <2>. QED BY <2>1, <2>2, <2>3 DEF Handled, OnlyScannedLeaves, Active
<1>8. CASE TrimNoticeFails
  <2>1. /\ run.pc = "noticing" /\ run' = Leaving("raised")
        /\ UNCHANGED <<input, holding, scanned, sent, told, verdict>>
    BY <1>8 DEF TrimNoticeFails, At
  <2>. QED BY <1>r, <2>1, LeaveMoves, HandledElsewhere DEF Outcomes, Active
<1>9. CASE ScanGate
  <2>1. /\ run.pc = "at" /\ run.stage = "scan" /\ Active /\ sent = {}
        /\ scanned' = holding
        /\ UNCHANGED <<input, holding, sent, told, verdict>>
    BY <1>9 DEF ScanGate, AtStage, Active, Handled
  <2>2. Complete'
    BY <2>1 DEF Handled, Complete, Extracted
  <2>3. CASE run' = Leaving("safety-refuse")
    <3>1. run'.stage = "scan" /\ run'.pc = "stopping"
      BY <1>r, <2>1, <2>3, LeaveMoves DEF Outcomes, Causes
    <3>. QED BY <2>1, <2>2, <3>1 DEF Handled, OnlyScannedLeaves, Active
  <2>4. CASE holding \cap input.flagged = {} /\ run' = Advanced
    <3>1. run'.stage = "budget" /\ run'.pc = "at"
      BY <1>r, <2>1, <2>4, AdvanceMoves DEF NextStage
    <3>. QED BY <2>1, <2>2, <2>4, <3>1 DEF Handled, OnlyScannedLeaves, Active
  <2>. QED BY <1>9, <2>3, <2>4 DEF ScanGate
<1>10. CASE BudgetGate
  <2>1. /\ run.pc = "at" /\ run.stage = "budget" /\ Active
        /\ UNCHANGED <<input, holding, scanned, sent, told, verdict>>
    BY <1>10 DEF BudgetGate, AtStage, Active
  <2>2. CASE run' = Advanced
    <3>1. run'.stage = "mcp" /\ run'.pc = "at"
      BY <1>r, <2>1, <2>2, AdvanceMoves DEF NextStage
    <3>2. Complete'
      BY <2>1 DEF Handled, Complete, Extracted
    <3>. QED BY <2>1, <3>1, <3>2 DEF Handled, OnlyScannedLeaves, Active
  <2>3. CASE run' = Leaving("budget-deny") \/ run' = Leaving("raised")
    BY <1>r, <2>1, <2>3, LeaveMoves, HandledElsewhere DEF Outcomes, Causes, Active
  <2>. QED BY <1>10, <2>2, <2>3 DEF BudgetGate
<1>11. CASE Compose
  <2>1. /\ run.pc = "at" /\ run' = Leaving("answer")
        /\ UNCHANGED <<input, holding, scanned, sent, told, verdict>>
    BY <1>11, ComposedValidates DEF Compose, AtStage
  <2>. QED BY <1>r, <2>1, LeaveMoves, HandledElsewhere DEF Outcomes, Active
<1>12. CASE StopHeartbeat
  <2>1. /\ run.pc = "stopping" /\ run' = [run EXCEPT !.pc = "joining", !.spent = 0]
        /\ UNCHANGED <<input, holding, scanned, sent, told, verdict>>
    BY <1>12 DEF StopHeartbeat, At
  <2>. QED BY <1>r, <2>1, MovedTyped, HandledElsewhere DEF Active
<1>13. CASE Joined
  <2>1. /\ run.pc = "joining"
        /\ UNCHANGED <<input, holding, scanned, sent, told, verdict>>
    BY <1>13 DEF Joined, At
  <2>2. CASE run' = NoRun
    BY <2>1, <2>2, HandledAtRest DEF NoRun
  <2>3. CASE run' = [run EXCEPT !.pc = "posting", !.spent = 0]
    BY <1>r, <2>1, <2>3, MovedTyped, HandledElsewhere DEF Active
  <2>. QED BY <1>13, <2>2, <2>3 DEF Joined
<1>14. CASE PostVerdict
  <2>1. /\ run.pc = "posting" /\ run'.pc = "idle" /\ Active
        /\ verdict' = "answer" => run.outcome = "answer"
        /\ UNCHANGED <<input, holding, scanned, sent, told>>
    BY <1>14 DEF PostVerdict, At, NoRun, Active
  <2>2. verdict' = "answer" => Complete'
    <3>1. run.outcome = "answer" => Complete
      BY <2>1 DEF Placed, Handled
    <3>. QED BY <2>1, <3>1 DEF Complete, Extracted
  <2>. QED BY <2>1, <2>2 DEF Handled, OnlyScannedLeaves, Active
<1>15. CASE Tick
  <2>1. UNCHANGED <<input, holding, scanned, sent, told, verdict>>
    BY <1>15 DEF Tick
  <2>2. Active
    BY <1>15, <1>r, TimesAssumption DEF Tick, MainLimit, At, Active, Runs
  <2>. QED BY <1>15, <1>r, <2>1, <2>2, TickTyped, HandledElsewhere DEF Active
<1>16. CASE Killed
  <2>1. /\ run.pc # "idle" /\ run' = [run EXCEPT !.pc = "killed"]
        /\ UNCHANGED <<input, holding, scanned, sent, told, verdict>>
    BY <1>16 DEF Killed
  <2>. QED BY <1>r, <2>1, PlacedTyped, HandledElsewhere DEF Active
<1>17. CASE Replaced
  BY <1>17, HandledAtRest DEF Replaced, NoRun
<1>18. CASE BeatStep \/ UNCHANGED vars
  BY <1>18 DEF BeatStep, BeatDue, BeatPosted, BeatStops, vars, Handled,
     OnlyScannedLeaves, Complete, Extracted, Active
<1>. QED
  BY <1>1, <1>2, <1>3, <1>4, <1>5, <1>6, <1>7, <1>8, <1>9, <1>10, <1>11, <1>12,
     <1>13, <1>14, <1>15, <1>16, <1>17, <1>18 DEF Next, MainStep

-----------------------------------------------------------------------------
(* The heartbeat thread against the join.                                    *)

\* While the main thread joins, a post in flight is older than the join; it
\* ends first, and the stopped thread waits for nothing after it.
LEMMA BeatingKept == TypeOK /\ Placed /\ Beating /\ [Next]_vars => Beating'
<1>. SUFFICES ASSUME TypeOK, Placed, Beating, [Next]_vars PROVE Beating'
  OBVIOUS
<1>r. run \in Runs /\ run' \in Runs
  BY RunKept DEF TypeOK
<1>b. beat \in Beats /\ SlackTimeout \in Nat
  BY TimesAssumption DEF TypeOK
<1>1. CASE Begin
  <2>1. run'.pc = "at" /\ beat'.pc = "waiting"
    BY <1>1 DEF Begin, NoRun, NoBeat
  <2>. QED BY <2>1 DEF Beating
<1>2. CASE /\ UNCHANGED <<beat, stop>>
           /\ run'.pc \notin {"joining", "idle", "posting", "killed"}
  BY <1>2 DEF Beating
<1>3. CASE GuardedCall
  BY <1>2, <1>3, <1>r, GuardedCallMoves DEF GuardedCall
<1>4. CASE CallSucceeds \/ TrimNotice
  BY <1>2, <1>4, <1>r, AdvanceMoves DEF CallSucceeds, TrimNotice
<1>5. CASE CallRetries \/ RetriesExhausted \/ CallRaises
  <2>1. UNCHANGED <<beat, stop>>
    BY <1>5 DEF CallRetries, RetriesExhausted, CallRaises, GivesUp
  <2>. QED BY <1>2, <1>5, <1>r, <2>1, SleepingTyped, FailureMoves DEF CallRetries
<1>6. CASE SleepEnds
  <2>1. run.attempt < MaxRetries
    BY <1>6 DEF SleepEnds, At, Placed
  <2>. QED BY <1>2, <1>6, <1>r, <2>1, AwakeTyped DEF SleepEnds
<1>7. CASE SizeGate
  <2>1. UNCHANGED <<beat, stop>>
    BY <1>7 DEF SizeGate
  <2>2. CASE run' = Advanced \/ run' = Leaving("oversize")
    BY <1>2, <1>r, <2>1, <2>2, AdvanceMoves, LeaveMoves DEF Outcomes, Causes
  <2>3. CASE run' = [run EXCEPT !.pc = "noticing"]
    BY <1>2, <1>r, <2>1, <2>3, PlacedTyped
  <2>. QED BY <1>7, <2>2, <2>3 DEF SizeGate
<1>8. CASE TrimNoticeFails \/ ScanGate \/ BudgetGate \/ Compose
  <2>1. UNCHANGED <<beat, stop>>
    BY <1>8 DEF TrimNoticeFails, ScanGate, BudgetGate, Compose
  <2>2. run' = Advanced \/ \E outcome \in Outcomes : run' = Leaving(outcome)
    BY <1>8, ComposedValidates
       DEF TrimNoticeFails, ScanGate, BudgetGate, Compose, Outcomes, Causes
  <2>. QED BY <1>2, <1>r, <2>1, <2>2, AdvanceMoves, LeaveMoves
<1>9. CASE StopHeartbeat
  <2>1. run' = [run EXCEPT !.pc = "joining", !.spent = 0] /\ stop' /\ beat' = beat
    BY <1>9 DEF StopHeartbeat
  <2>2. run'.pc = "joining" /\ run'.spent = 0
    BY <1>r, <2>1, MovedTyped
  <2>. QED BY <1>b, <2>1, <2>2 DEF Beating, Beats
<1>10. CASE Joined
  <2>1. run.pc = "joining" /\ JoinOver /\ UNCHANGED <<beat, stop>>
    BY <1>10 DEF Joined, At
  <2>2. beat.pc = "off"
    <3>1. CASE run.spent = Interval + JoinMargin
      BY <1>b, <2>1, <3>1, JoinAssumption, TimesAssumption DEF Beating
    <3>. QED BY <2>1, <3>1 DEF JoinOver
  <2>3. run'.pc # "joining"
    BY <1>10, <1>r, MovedTyped DEF Joined, NoRun
  <2>. QED BY <2>1, <2>2, <2>3 DEF Beating
<1>11. CASE PostVerdict \/ Replaced
  BY <1>11 DEF PostVerdict, Replaced, At, Beating, NoRun
<1>12. CASE Killed
  <2>1. run'.pc = "killed" /\ beat'.pc = "off"
    BY <1>12, <1>r, PlacedTyped DEF Killed, NoBeat
  <2>. QED BY <2>1 DEF Beating
<1>13. CASE BeatDue
  BY <1>13, <1>b DEF BeatDue, Beating
<1>14. CASE BeatPosted
  BY <1>14 DEF BeatPosted, Beating
<1>15. CASE BeatStops
  BY <1>15 DEF BeatStops, Beating, NoBeat
<1>16. CASE Tick
  <2>1. /\ run'.pc = run.pc /\ run'.spent = run.spent + 1 /\ run.spent \in Nat
        /\ stop' = stop
    BY <1>16, <1>r, TickTyped DEF Tick, Runs
  <2>2. CASE beat.pc = "off"
    <3>1. beat' = beat
      BY <1>16, <2>2 DEF Tick
    <3>2. run.pc # "joining"
      BY <1>16, <2>1, <2>2 DEF Tick, MainLimit, At
    <3>. QED BY <2>1, <2>2, <3>1, <3>2 DEF Beating
  <2>3. CASE beat.pc # "off"
    <3>1. /\ beat.spent < BeatLimit /\ beat.spent \in Nat
          /\ beat'.pc = beat.pc /\ beat'.spent = beat.spent + 1
      BY <1>16, <1>b, <2>3 DEF Tick, Beats
    <3>2. CASE beat.pc = "posting"
      <4>1. BeatLimit = SlackTimeout
        BY <3>2 DEF BeatLimit
      <4>. QED BY <1>b, <2>1, <3>1, <3>2, <4>1 DEF Beating
    <3>3. CASE beat.pc = "waiting"
      <4>1. ~ stop
        BY <3>1, <3>3 DEF BeatLimit
      <4>. QED BY <2>1, <3>1, <3>3, <4>1 DEF Beating
    <3>. QED BY <1>b, <2>3, <3>2, <3>3 DEF Beats
  <2>. QED BY <2>2, <2>3
<1>17. CASE UNCHANGED vars
  BY <1>17 DEF vars, Beating
<1>. QED
  BY <1>1, <1>3, <1>4, <1>5, <1>6, <1>7, <1>8, <1>9, <1>10, <1>11, <1>12,
     <1>13, <1>14, <1>15, <1>16, <1>17 DEF Next, MainStep, BeatStep

-----------------------------------------------------------------------------
(* Theorems.                                                                 *)

IInv == TypeOK /\ Placed /\ Handled /\ Beating

\* Nothing runs, nothing is held, nothing was said.
LEMMA InitHolds == Init => IInv
<1>. SUFFICES ASSUME Init PROVE IInv
  OBVIOUS
<1>1. TypeOK
  <2>1. NewBreaker \in Breakers /\ 0 \in 0 .. Threshold
    BY BreakerAssumption DEF NewBreaker, Breakers
  <2>2. NoBeat \in Beats
    BY DEF NoBeat, Beats
  <2>. QED BY <2>1, <2>2, NoRunTyped DEF Init, TypeOK
<1>2. Placed /\ Handled /\ Beating
  BY DEF Init, NoRun, NoBeat, Placed, PaidForIsPosted, Handled, OnlyScannedLeaves,
     Complete, Active, Beating
<1>. QED BY <1>1, <1>2 DEF IInv

\* What may be said of every record at every moment.
THEOREM PipelineInvariant == Spec => []IInv
<1>1. IInv /\ [Next]_vars => IInv'
  BY RunKept, TypesKept, HandledKept, BeatingKept DEF IInv, TypeOK
<1>. QED BY <1>1, InitHolds, PTL DEF Spec

\* Every variable of the pipeline keeps its type.
THEOREM PipelineTypeCorrect == Spec => []TypeOK
<1>1. IInv => TypeOK
  BY DEF IInv
<1>. QED BY <1>1, PipelineInvariant, PTL

\* CS-4: only what the scan saw and found clean leaves, however the input was
\* cut down and whatever was retried.
THEOREM ScannedBeforeSent == Spec => []OnlyScannedLeaves
<1>1. IInv => OnlyScannedLeaves
  BY DEF IInv, Handled
<1>. QED BY <1>1, PipelineInvariant, PTL

\* BR-007, BR-008, BR-012: what a gate turned down was sent nowhere.
THEOREM RefusedBeforeSpending == Spec => []TurnedDownUnspent
<1>1. IInv => TurnedDownUnspent
  <2>. SUFFICES ASSUME IInv, run.outcome \in {"oversize", "safety-refuse", "budget-deny"}
                PROVE  sent = {}
    BY DEF TurnedDownUnspent
  <2>1. Active /\ run.stage \in {"size", "scan", "budget"}
    BY DEF IInv, Placed, Active
  <2>. QED BY <2>1 DEF IInv, Handled
<1>. QED BY <1>1, PipelineInvariant, PTL

\* BR-007: an answer that saw less than was fetched comes with the notice.
THEOREM TrimmedWithNotice == Spec => []NeverTrimmedSilently
<1>1. IInv => NeverTrimmedSilently
  <2>. SUFFICES ASSUME IInv, verdict = "answer"
                PROVE  /\ holding # input.parts => told
                       /\ "question" \in input.parts => "question" \in holding
    BY DEF NeverTrimmedSilently
  <2>1. Complete
    BY DEF IInv, Handled
  <2>. QED BY <2>1 DEF Complete, Extracted
<1>. QED BY <1>1, PipelineInvariant, PTL

\* BR-015, BR-016: no answer fails its validator after the inference was paid.
THEOREM ComposedIsPosted == Spec => []PaidForIsPosted
<1>1. IInv => PaidForIsPosted
  BY DEF IInv, Placed
<1>. QED BY <1>1, PipelineInvariant, PTL

\* BR-013: no heartbeat follows a verdict, for every interval that outlasts a
\* post in flight.
THEOREM SilentAfterVerdict == Spec => []NoBeatAfterVerdict
<1>1. IInv => NoBeatAfterVerdict
  BY DEF IInv, Handled, Beating, NoBeatAfterVerdict
<1>. QED BY <1>1, PipelineInvariant, PTL

-----------------------------------------------------------------------------
(* The pipeline implements OneVerdict.                                       *)

\* The heartbeat's stop is only set once the pipeline is left.
Unstopped == stop => run.pc \in {"joining", "posting", "idle", "killed"}

\* From the first call to the MCP server on, something was sent.
Sending ==
  /\ run.pc \in {"at", "calling", "sleeping"}
  /\ run.stage \in {"inference", "compose"} \/ (run.stage = "mcp" /\ run.pc # "at")
Asked == Sending => sent # {}

\* What is handed back to the queue is not posted.
HandedBack == run.pc = "posting" => run.outcome # "raised"

Kept == Unstopped /\ Asked /\ HandedBack

\* Calls, sleeps and the gates in between leave the stop unset.
LEMMA UnstoppedKept == IInv /\ Unstopped /\ [Next]_vars => Unstopped'
<1>. SUFFICES ASSUME IInv, Unstopped, [Next]_vars PROVE Unstopped'
  OBVIOUS
<1>r. run \in Runs /\ run' \in Runs /\ Placed
  BY RunKept DEF IInv, TypeOK
<1>1. CASE Begin
  BY <1>1 DEF Begin, Unstopped
<1>2. CASE run.pc \in {"at", "calling", "sleeping", "noticing", "stopping"} /\ stop' = stop
  BY <1>2 DEF Unstopped
<1>3. CASE MainStep /\ stop' = stop
  <2>1. CASE Joined
    <3>1. run'.pc \in {"idle", "posting"}
      BY <1>r, <2>1, MovedTyped DEF Joined, NoRun
    <3>. QED BY <3>1 DEF Unstopped
  <2>2. CASE PostVerdict
    BY <2>2 DEF PostVerdict, NoRun, Unstopped
  <2>3. CASE StopHeartbeat
    BY <1>2, <1>3, <2>3 DEF StopHeartbeat, At
  <2>4. CASE run.pc \in {"at", "calling", "sleeping", "noticing"}
    BY <1>2, <1>3, <2>4
  <2>. QED
    BY <1>3, <2>1, <2>2, <2>3, <2>4 DEF MainStep, GuardedCall, CallSucceeds,
       CallRetries, RetriesExhausted, CallRaises, SleepEnds, SizeGate, TrimNotice,
       TrimNoticeFails, ScanGate, BudgetGate, Compose, At, AtStage
<1>4. CASE StopHeartbeat
  <2>1. run'.pc = "joining"
    BY <1>4, <1>r, MovedTyped DEF StopHeartbeat
  <2>. QED BY <2>1 DEF Unstopped
<1>5. CASE MainStep /\ ~ StopHeartbeat
  <2>1. stop' = stop
    BY <1>5 DEF MainStep, GuardedCall, CallSucceeds, CallRetries, RetriesExhausted,
       CallRaises, GivesUp, SleepEnds, SizeGate, TrimNotice, TrimNoticeFails,
       ScanGate, BudgetGate, Compose, Joined, PostVerdict
  <2>. QED BY <1>3, <1>5, <2>1
<1>6. CASE Tick
  BY <1>6, <1>r, TickTyped DEF Tick, Unstopped
<1>7. CASE Killed
  BY <1>7, <1>r, PlacedTyped DEF Killed, Unstopped
<1>8. CASE Replaced
  BY <1>8 DEF Replaced, NoRun, Unstopped
<1>9. CASE BeatStep \/ UNCHANGED vars
  BY <1>9 DEF BeatStep, BeatDue, BeatPosted, BeatStops, vars, Unstopped
<1>. QED BY <1>1, <1>4, <1>5, <1>6, <1>7, <1>8, <1>9 DEF Next

\* The call to the MCP server sends the question; the stages after it are only
\* reached through it.
LEMMA AskedKept == IInv /\ Asked /\ [Next]_vars => Asked'
<1>. SUFFICES ASSUME IInv, Asked, [Next]_vars, Sending' PROVE (sent # {})'
  BY DEF Asked
<1>r. run \in Runs /\ run' \in Runs /\ Placed
  BY RunKept DEF IInv, TypeOK
<1>1. CASE Begin
  BY <1>1 DEF Begin, NoRun, Sending
<1>2. CASE Sending /\ sent' = sent
  BY <1>2 DEF Asked
<1>3. CASE GuardedCall
  <2>1. run.pc = "at" /\ run.stage \in Deps
    BY <1>3 DEF GuardedCall, At
  <2>2. run'.pc = "calling" /\ run'.stage = run.stage
    BY <1>3, <1>r, GuardedCallMoves DEF Sending
  <2>3. CASE run.stage = "mcp"
    <3>1. ~ BudgetSpent(run.age) /\ ~ Refuses(breakers[run.stage])
      <4>1. "timeout" \in Outcomes /\ "dependency" \in Outcomes
        BY DEF Outcomes, Causes
      <4>2. BudgetSpent(run.age) => run'.pc = "stopping"
        BY <1>3, <1>r, <4>1, LeavingTyped DEF GuardedCall
      <4>3. ~ BudgetSpent(run.age) /\ Refuses(breakers[run.stage]) => run'.pc = "stopping"
        BY <1>3, <1>r, <4>1, LeavingTyped DEF GuardedCall
      <4>. QED BY <2>2, <4>2, <4>3
    <3>2. sent' = sent \cup {Extracted}
      BY <1>3, <2>3, <3>1 DEF GuardedCall
    <3>. QED BY <3>2
  <2>4. CASE run.stage = "inference"
    <3>1. Sending
      BY <2>1, <2>4 DEF Sending
    <3>2. sent \subseteq sent'
      BY <1>3 DEF GuardedCall
    <3>. QED BY <3>1, <3>2 DEF Asked
  <2>. QED BY <2>1, <2>2, <2>3, <2>4 DEF Sending, Deps
<1>4. CASE CallSucceeds
  <2>1. run.pc = "calling" /\ run.stage \in Deps /\ sent' = sent
    BY <1>4, <1>r DEF CallSucceeds, At, Placed
  <2>2. run'.pc = "at" /\ run'.stage = NextStage(run.stage)
    BY <1>4, <1>r, AdvanceMoves DEF CallSucceeds
  <2>3. run.stage # "slack"
    BY <2>2 DEF Sending, NextStage
  <2>. QED BY <1>2, <2>1, <2>3 DEF Sending, Deps
<1>5. CASE CallRetries
  <2>1. run.pc = "calling" /\ sent' = sent
    BY <1>5 DEF CallRetries, At
  <2>2. run'.stage = run.stage
    BY <1>5, <1>r, SleepingTyped DEF CallRetries
  <2>. QED BY <1>2, <2>1, <2>2 DEF Sending
<1>6. CASE SleepEnds
  <2>1. run.pc = "sleeping" /\ sent' = sent /\ run'.stage = run.stage
    BY <1>6, <1>r, AwakeTyped DEF SleepEnds, At, Placed
  <2>. QED BY <1>2, <2>1 DEF Sending
<1>7. CASE RetriesExhausted \/ CallRaises
  BY <1>7, <1>r, FailureMoves DEF Sending
<1>8. CASE SizeGate \/ TrimNotice \/ TrimNoticeFails \/ ScanGate \/ BudgetGate \/ Compose
  <2>1. /\ run.stage \in {"size", "scan", "budget", "compose"}
        /\ run.pc \in {"at", "noticing"}
    BY <1>8, <1>r DEF SizeGate, TrimNotice, TrimNoticeFails, ScanGate, BudgetGate,
       Compose, At, AtStage, Placed
  <2>2. \/ run' = Advanced /\ run.stage # "compose"
        \/ \E outcome \in Outcomes : run' = Leaving(outcome)
        \/ run' = [run EXCEPT !.pc = "noticing"]
    BY <1>8, <1>r, ComposedValidates DEF SizeGate, TrimNotice, TrimNoticeFails, ScanGate,
       BudgetGate, Compose, At, AtStage, Placed, Outcomes, Causes
  <2>3. run'.pc = "at" /\ run' = Advanced /\ run.stage # "compose"
    BY <1>r, <2>2, AdvanceMoves, LeaveMoves, PlacedTyped DEF Sending
  <2>4. run'.stage = NextStage(run.stage)
    BY <1>r, <2>3, AdvanceMoves
  <2>. QED BY <2>1, <2>3, <2>4 DEF Sending, NextStage
<1>9. CASE StopHeartbeat \/ Joined
  <2>1. run'.pc \in {"joining", "idle", "posting"}
    BY <1>9, <1>r, MovedTyped DEF StopHeartbeat, Joined, NoRun
  <2>. QED BY <2>1 DEF Sending
<1>10. CASE PostVerdict \/ Replaced
  BY <1>10 DEF PostVerdict, Replaced, NoRun, Sending
<1>11. CASE Tick
  <2>1. run'.pc = run.pc /\ run'.stage = run.stage /\ sent' = sent
    BY <1>11, <1>r, TickTyped DEF Tick
  <2>. QED BY <1>2, <2>1 DEF Sending
<1>12. CASE Killed
  BY <1>12, <1>r, PlacedTyped DEF Killed, Sending
<1>13. CASE BeatStep \/ UNCHANGED vars
  <2>1. UNCHANGED <<run, sent>>
    BY <1>13 DEF BeatStep, BeatDue, BeatPosted, BeatStops, vars
  <2>. QED BY <1>2, <2>1 DEF Sending
<1>. QED
  BY <1>1, <1>3, <1>4, <1>5, <1>6, <1>7, <1>8, <1>9, <1>10, <1>11, <1>12, <1>13
     DEF Next, MainStep

\* Only the join leads to the post, and not with an exception on its way.
LEMMA HandedBackKept == IInv /\ HandedBack /\ [Next]_vars => HandedBack'
<1>. SUFFICES ASSUME IInv, HandedBack, [Next]_vars, run'.pc = "posting"
              PROVE  run'.outcome # "raised"
  BY DEF HandedBack
<1>r. run \in Runs /\ run' \in Runs /\ Placed
  BY RunKept DEF IInv, TypeOK
<1>1. CASE Joined
  BY <1>1, <1>r, MovedTyped DEF Joined, NoRun
<1>2. CASE Tick
  BY <1>2, <1>r, TickTyped DEF HandedBack
<1>3. CASE UNCHANGED run
  BY <1>3 DEF HandedBack
<1>4. CASE Begin \/ PostVerdict \/ Replaced \/ Killed \/ StopHeartbeat
  <2>1. CASE Begin
    BY <2>1 DEF Begin, NoRun
  <2>2. CASE PostVerdict \/ Replaced
    BY <2>2 DEF PostVerdict, Replaced, NoRun
  <2>3. CASE Killed
    BY <1>r, <2>3, PlacedTyped DEF Killed
  <2>4. CASE StopHeartbeat
    BY <1>r, <2>4, MovedTyped DEF StopHeartbeat
  <2>. QED BY <1>4, <2>1, <2>2, <2>3, <2>4
<1>5. CASE GuardedCall \/ CallRetries \/ SleepEnds \/ RetriesExhausted \/ CallRaises
  <2>1. SleepEnds => run.attempt < MaxRetries
    BY <1>r DEF SleepEnds, At, Placed
  <2>2. CASE CallRetries
    BY <1>r, <2>2, SleepingTyped DEF CallRetries
  <2>. QED BY <1>5, <1>r, <2>1, <2>2, GuardedCallMoves, AwakeTyped, FailureMoves
<1>6. CASE CallSucceeds \/ TrimNotice \/ SizeGate \/ TrimNoticeFails \/ ScanGate
           \/ BudgetGate \/ Compose
  <2>1. \/ run' = Advanced \/ run' = [run EXCEPT !.pc = "noticing"]
        \/ \E outcome \in Outcomes : run' = Leaving(outcome)
    BY <1>6, ComposedValidates DEF CallSucceeds, TrimNotice, SizeGate, TrimNoticeFails,
       ScanGate, BudgetGate, Compose, Outcomes, Causes
  <2>. QED BY <1>r, <2>1, AdvanceMoves, LeaveMoves, PlacedTyped
<1>. QED
  BY <1>1, <1>2, <1>3, <1>4, <1>5, <1>6 DEF Next, MainStep, BeatStep, BeatDue,
     BeatPosted, BeatStops, vars

\* The main thread at rest, at work, and past its ending.
Phase == IF AtRest THEN "idle" ELSE IF Concluded THEN "concluded" ELSE "working"
Ending == IF AtRest THEN "none" ELSE run.outcome

\* A step of the main thread, or of the time, that the promise does not see.
LEMMA Unseen ==
  ASSUME UNCHANGED <<Phase, Ending, sent, verdict>>, beat'.pc = beat.pc
  PROVE  UNCHANGED Promise!promise
BY DEF Promise!promise, Phase, Ending

\* A step within the pipeline sends something, or is not seen.
LEMMA WorkIsAsking ==
  ASSUME run.pc \in {"at", "calling", "sleeping", "noticing"}, run.outcome = "none",
         run'.pc \in {"at", "calling", "sleeping", "noticing"}, run'.outcome = "none",
         UNCHANGED <<beat, verdict>>, sent \subseteq sent'
  PROVE  [Promise!Next]_(Promise!promise)
<1>1. Phase = "working" /\ Phase' = "working" /\ Ending = "none" /\ Ending' = "none"
  BY DEF Phase, Ending, AtRest, Concluded
<1>2. CASE sent' = sent
  BY <1>1, <1>2, Unseen
<1>3. CASE sent' # sent
  <2>1. Promise!Ask
    BY <1>1, <1>3 DEF Promise!Ask, Phase, Ending
  <2>. QED BY <2>1 DEF Promise!Next
<1>. QED BY <1>2, <1>3

\* To leave the pipeline is to conclude, with what it came to.
LEMMA LeavingConcludes ==
  ASSUME run.pc \in {"at", "calling", "sleeping", "noticing"}, run.outcome = "none",
         run'.pc = "stopping", run'.outcome \in Outcomes \ {"none"},
         run'.outcome \in {"oversize", "safety-refuse", "budget-deny"} => sent = {},
         run'.outcome = "answer" => sent # {},
         UNCHANGED <<beat, verdict, sent>>
  PROVE  Promise!Next
<1>1. Phase = "working" /\ Phase' = "concluded" /\ Ending' = run'.outcome
  BY DEF Phase, Ending, AtRest, Concluded
<1>2. Promise!Conclude(run'.outcome)
  BY <1>1 DEF Promise!Conclude, Phase, Ending
<1>. QED BY <1>2 DEF Promise!Next

\* A record at rest is one that the worker told of or gave up.
LEMMA RestGivesUp ==
  ASSUME run.pc \notin {"idle", "killed"}, run'.pc \in {"idle", "killed"},
         beat'.pc = "off", UNCHANGED <<sent, verdict>>
  PROVE  Promise!Next
<1>1. Phase # "idle" /\ Phase' = "idle" /\ Ending' = "none"
  BY DEF Phase, Ending, AtRest, Concluded
<1>2. Promise!GiveUp
  BY <1>1 DEF Promise!GiveUp, Phase, Ending
<1>. QED BY <1>2 DEF Promise!Next

\* Every step of the pipeline is a step of the promise, or is not seen.
LEMMA StepIsPromised ==
  IInv /\ Kept /\ [Next]_vars => [Promise!Next]_(Promise!promise)
<1>. SUFFICES ASSUME IInv, Kept, [Next]_vars
              PROVE  [Promise!Next]_(Promise!promise)
  OBVIOUS
<1>r. run \in Runs /\ run' \in Runs /\ Placed /\ Beating /\ Beating'
  BY RunKept, BeatingKept DEF IInv, TypeOK
<1>1. CASE Begin
  <2>1. /\ run.pc = "idle" /\ run'.pc = "at" /\ run'.outcome = "none"
        /\ sent' = {} /\ beat'.pc = "waiting" /\ verdict' = "none"
    BY <1>1 DEF Begin, At, NoRun, NoBeat
  <2>2. Promise!Begin
    BY <2>1 DEF Promise!Begin, AtRest, Concluded
  <2>. QED BY <2>2 DEF Promise!Next
<1>2. CASE GuardedCall
  <2>1. run.pc = "at" /\ run.outcome = "none" /\ UNCHANGED <<beat, verdict>>
    BY <1>2, <1>r DEF GuardedCall, At, Placed
  <2>2. CASE run'.pc = "calling" /\ run'.outcome = run.outcome
    <3>1. sent \subseteq sent'
      BY <1>2 DEF GuardedCall
    <3>. QED BY <2>1, <2>2, <3>1, WorkIsAsking
  <2>3. CASE run'.pc = "stopping" /\ run'.outcome \in {"timeout", "dependency"}
    <3>1. BudgetSpent(run.age) \/ Refuses(breakers[run.stage])
      BY <1>2, <1>r, <2>3, MovedTyped DEF GuardedCall
    <3>2. sent' = sent
      BY <1>2, <3>1 DEF GuardedCall
    <3>. QED BY <2>1, <2>3, <3>2, LeavingConcludes DEF Outcomes, Causes
  <2>. QED BY <1>2, <1>r, <2>2, <2>3, GuardedCallMoves
<1>3. CASE CallSucceeds \/ TrimNotice
  <2>1. /\ run.pc \in {"calling", "noticing"} /\ run.outcome = "none"
        /\ run' = Advanced /\ UNCHANGED <<beat, verdict, sent>>
    BY <1>3, <1>r DEF CallSucceeds, TrimNotice, At, Placed
  <2>. QED BY <1>r, <2>1, AdvanceMoves, WorkIsAsking
<1>4. CASE CallRetries
  <2>1. run.pc = "calling" /\ run.outcome = "none" /\ UNCHANGED <<beat, verdict, sent>>
    BY <1>4, <1>r DEF CallRetries, At, Placed
  <2>2. run'.pc = "sleeping" /\ run'.outcome = run.outcome
    BY <1>4, <1>r, SleepingTyped DEF CallRetries
  <2>. QED BY <2>1, <2>2, WorkIsAsking
<1>5. CASE SleepEnds
  <2>1. run.pc = "sleeping" /\ run.outcome = "none" /\ run.attempt < MaxRetries
        /\ UNCHANGED <<beat, verdict, sent>>
    BY <1>5, <1>r DEF SleepEnds, At, Placed
  <2>2. run'.pc = "calling" /\ run'.outcome = run.outcome
    BY <1>5, <1>r, <2>1, AwakeTyped
  <2>. QED BY <2>1, <2>2, WorkIsAsking
<1>6. CASE RetriesExhausted \/ CallRaises
  <2>1. run.pc = "calling" /\ run.outcome = "none" /\ UNCHANGED <<beat, verdict, sent>>
    BY <1>6, <1>r DEF RetriesExhausted, CallRaises, GivesUp, At, Placed
  <2>2. run'.pc = "stopping" /\ run'.outcome \in {"dependency", "raised"}
    BY <1>6, <1>r, FailureMoves
  <2>. QED BY <2>1, <2>2, LeavingConcludes DEF Outcomes, Causes
<1>7. CASE SizeGate \/ TrimNoticeFails \/ ScanGate \/ BudgetGate \/ Compose
  <2>1. /\ run.pc \in {"at", "noticing"} /\ run.outcome = "none" /\ run.pc # "idle"
        /\ run.stage \in {"size", "scan", "budget", "compose"}
        /\ UNCHANGED <<beat, verdict, sent>>
    BY <1>7, <1>r DEF SizeGate, TrimNoticeFails, ScanGate, BudgetGate, Compose,
       At, AtStage, Placed
  <2>2. CASE run' = Advanced
    BY <1>r, <2>1, <2>2, AdvanceMoves, WorkIsAsking
  <2>3. CASE run' = [run EXCEPT !.pc = "noticing"]
    BY <1>r, <2>1, <2>3, PlacedTyped, WorkIsAsking
  <2>4. ASSUME NEW outcome \in Outcomes \ {"none", "answer"}, run' = Leaving(outcome),
               outcome \in {"oversize", "safety-refuse", "budget-deny"} => ~ Compose
        PROVE  Promise!Next
    <3>1. run'.pc = "stopping" /\ run'.outcome = outcome
      BY <1>r, <2>4, LeaveMoves
    <3>2. ~ Compose => sent = {}
      <4>1. ~ Compose => run.stage \in {"size", "scan", "budget"}
        BY <1>7, <1>r DEF SizeGate, TrimNoticeFails, ScanGate, BudgetGate,
           At, AtStage, Placed
      <4>. QED BY <2>1, <4>1 DEF IInv, Handled, Active
    <3>. QED BY <2>1, <2>4, <3>1, <3>2, LeavingConcludes
  <2>5. CASE Compose
    <3>1. run' = Leaving("answer") /\ run.pc = "at" /\ run.stage = "compose"
      BY <2>5, ComposedValidates DEF Compose, AtStage
    <3>2. sent # {}
      BY <3>1 DEF Kept, Asked, Sending
    <3>3. run'.pc = "stopping" /\ run'.outcome = "answer"
      BY <1>r, <3>1, LeaveMoves DEF Outcomes
    <3>. QED BY <2>1, <3>2, <3>3, LeavingConcludes DEF Outcomes
  <2>6. CASE ~ Compose
    <3>1. \/ run' = Advanced \/ run' = [run EXCEPT !.pc = "noticing"]
          \/ \E outcome \in Outcomes \ {"none", "answer"} : run' = Leaving(outcome)
      BY <1>7, <2>6 DEF SizeGate, TrimNoticeFails, ScanGate, BudgetGate, Outcomes, Causes
    <3>. QED BY <2>2, <2>3, <2>4, <2>6, <3>1
  <2>. QED BY <2>5, <2>6
<1>8. CASE StopHeartbeat
  <2>1. run.pc = "stopping" /\ UNCHANGED <<beat, verdict, sent>>
    BY <1>8 DEF StopHeartbeat, At
  <2>2. run'.pc = "joining" /\ run'.outcome = run.outcome
    BY <1>8, <1>r, MovedTyped DEF StopHeartbeat
  <2>3. Phase' = Phase /\ Ending' = Ending
    BY <2>1, <2>2 DEF Phase, Ending, AtRest, Concluded
  <2>. QED BY <2>1, <2>3, Unseen
<1>9. CASE Joined
  <2>1. run.pc = "joining" /\ UNCHANGED <<beat, verdict, sent>>
    BY <1>9 DEF Joined, At
  <2>2. CASE run' = NoRun
    <3>1. run'.pc = "idle" /\ beat'.pc = "off"
      BY <1>r, <2>2 DEF NoRun, Beating
    <3>. QED BY <2>1, <3>1, RestGivesUp
  <2>3. CASE run' = [run EXCEPT !.pc = "posting", !.spent = 0]
    <3>1. run'.pc = "posting" /\ run'.outcome = run.outcome
      BY <1>r, <2>3, MovedTyped
    <3>2. Phase' = Phase /\ Ending' = Ending
      BY <2>1, <3>1 DEF Phase, Ending, AtRest, Concluded
    <3>. QED BY <2>1, <3>2, Unseen
  <2>. QED BY <1>9, <2>2, <2>3 DEF Joined
<1>10. CASE PostVerdict
  <2>1. /\ run.pc = "posting" /\ run'.pc = "idle" /\ UNCHANGED <<beat, sent>>
        /\ beat.pc = "off" /\ verdict = "none" /\ run.outcome # "raised"
        /\ verdict' \in {"none", IF run.outcome = "answer" THEN "answer" ELSE "failure"}
    BY <1>10, <1>r DEF PostVerdict, At, NoRun, Beating, IInv, Handled, Kept, HandedBack
  <2>2. CASE verdict' = "none"
    BY <2>1, <2>2, RestGivesUp
  <2>3. CASE verdict' = IF run.outcome = "answer" THEN "answer" ELSE "failure"
    <3>1. Phase = "concluded" /\ Ending = run.outcome /\ Phase' = "idle" /\ Ending' = "none"
      BY <2>1 DEF Phase, Ending, AtRest, Concluded
    <3>2. Promise!Tell
      BY <2>1, <2>3, <3>1 DEF Promise!Tell, Phase, Ending
    <3>. QED BY <3>2 DEF Promise!Next
  <2>. QED BY <2>1, <2>2, <2>3
<1>11. CASE Killed
  BY <1>11, <1>r, PlacedTyped, RestGivesUp DEF Killed, NoBeat
<1>12. CASE Replaced
  <2>1. run.pc = "killed" /\ run'.pc = "idle" /\ UNCHANGED <<beat, verdict, sent>>
    BY <1>12 DEF Replaced, At, NoRun
  <2>2. Phase' = Phase /\ Ending' = Ending
    BY <2>1 DEF Phase, Ending, AtRest
  <2>. QED BY <2>1, <2>2, Unseen
<1>13. CASE Tick
  <2>1. /\ run'.pc = run.pc /\ run'.outcome = run.outcome
        /\ UNCHANGED <<verdict, sent>>
    BY <1>13, <1>r, TickTyped DEF Tick
  <2>2. beat'.pc = beat.pc
    BY <1>13 DEF Tick, IInv, TypeOK, Beats
  <2>3. Phase' = Phase /\ Ending' = Ending
    BY <2>1 DEF Phase, Ending, AtRest, Concluded
  <2>. QED BY <2>1, <2>2, <2>3, Unseen
<1>14. CASE BeatDue \/ BeatPosted
  <2>1. UNCHANGED <<run, sent, verdict>> /\ beat.pc # "off" /\ beat'.pc # "off"
    BY <1>14 DEF BeatDue, BeatPosted
  <2>2. UNCHANGED Promise!promise
    BY <2>1 DEF Promise!promise, AtRest, Concluded
  <2>. QED BY <2>2
<1>15. CASE BeatStops
  <2>1. /\ UNCHANGED <<run, sent, verdict>> /\ stop
        /\ beat.pc = "waiting" /\ beat'.pc = "off"
    BY <1>15 DEF BeatStops, NoBeat
  <2>2. run.pc = "joining"
    BY <1>r, <2>1 DEF Kept, Unstopped, Beating
  <2>3. Promise!FallSilent
    BY <2>1, <2>2 DEF Promise!FallSilent, AtRest, Concluded
  <2>. QED BY <2>3 DEF Promise!Next
<1>16. CASE UNCHANGED vars
  <2>1. UNCHANGED <<run, sent, beat, verdict>>
    BY <1>16 DEF vars
  <2>2. UNCHANGED Promise!promise
    BY <2>1 DEF Promise!promise, AtRest, Concluded
  <2>. QED BY <2>2
<1>. QED
  BY <1>1, <1>2, <1>3, <1>4, <1>5, <1>6, <1>7, <1>8, <1>9, <1>10, <1>11, <1>12,
     <1>13, <1>14, <1>15, <1>16 DEF Next, MainStep, BeatStep

\* FR-17, BR-012, BR-013: whatever is slow, fails, is retried or killed, a run
\* of the pipeline is one of OneVerdict.
THEOREM KeepsItsPromise == Spec => GivesOneVerdict
<1>1. Init => Promise!Init /\ Kept
  BY DEF Init, NoRun, NoBeat, Promise!Init, AtRest, Kept, Unstopped, Asked, Sending,
     HandedBack
<1>2. IInv /\ Kept /\ [Next]_vars => Kept'
  BY UnstoppedKept, AskedKept, HandedBackKept DEF Kept
<1>3. IInv /\ Kept /\ [Next]_vars => [Promise!Next]_(Promise!promise)
  BY StepIsPromised
<1>. QED
  BY <1>1, <1>2, <1>3, PipelineInvariant, PTL DEF Spec, GivesOneVerdict, Promise!Spec

-----------------------------------------------------------------------------
(* NFR-17: which settings are enough for the worker to end by itself.        *)

\* n requests that failed, and a sleep after each.
Tries(n, d, delay) == n * (RequestTimeout[d] + delay)

\* The age at which a guarded call of d is over, however it went.
CallOver(d, delay) == Budget + Tries(MaxRetries, d, delay) + RequestTimeout[d]

\* No sleep is longer than delay; every call begun within the budget, and the
\* trim notice after the fetch, is over before last; a heartbeat in flight and
\* the verdict's post still fit.
Enough(delay, last) ==
  /\ 0 < Budget
  /\ \A attempt \in 0 .. MaxRetries, hint \in RetryAfters :
       LongestDelay(attempt, hint) \in 0 .. delay
  /\ \A d \in Deps : CallOver(d, delay) <= last
  /\ CallOver("slack", delay) + SlackTimeout <= last
  /\ last + SlackTimeout + SlackTimeout <= LambdaTimeout

EnoughTime == \E delay \in Nat, last \in Nat : Enough(delay, last)

\* How old the run is at most, where it stands.
Timely(delay, last) ==
  /\ NeverTimedOut
  /\ run.pc = "at" => /\ run.spent = 0 /\ run.age < last
                      /\ run.stage = "slack" => run.age < Budget
                      /\ run.stage = "size" => run.age + SlackTimeout < last
  /\ run.pc = "calling" =>
       /\ run.spent <= RequestTimeout[run.stage]
       /\ run.age < Budget + Tries(run.attempt, run.stage, delay) + run.spent
  /\ run.pc = "sleeping" =>
       /\ run.spent <= delay
       /\ run.age < Budget + Tries(run.attempt, run.stage, delay)
                      + RequestTimeout[run.stage] + run.spent
  /\ run.pc = "noticing" => /\ run.spent <= SlackTimeout
                            /\ run.age + SlackTimeout < last + run.spent
  /\ run.pc = "stopping" => run.age < last
  /\ run.pc = "joining" => run.age < last + run.spent
  /\ run.pc = "posting" => /\ run.spent <= SlackTimeout
                           /\ run.age < last + SlackTimeout + run.spent

\* One try more takes a request and a sleep more, and fewer take no longer.
LEMMA TriesGrow ==
  ASSUME NEW d \in Deps, NEW delay \in Nat, NEW n \in 0 .. MaxRetries
  PROVE  /\ RequestTimeout[d] \in Nat /\ Tries(n, d, delay) \in Nat
         /\ Tries(0, d, delay) = 0
         /\ Tries(n + 1, d, delay) = Tries(n, d, delay) + RequestTimeout[d] + delay
         /\ Tries(n, d, delay) <= Tries(MaxRetries, d, delay)
<1>1. RequestTimeout[d] \in Nat
  BY TimesAssumption DEF RequestTimeout, Deps
<1>2. \A p, m, k \in Nat : /\ m * p \in Nat /\ 0 * p = 0
                           /\ (m + 1) * p = m * p + p
                           /\ (m + k) * p = m * p + k * p
  OBVIOUS
<1>3. n \in Nat /\ MaxRetries \in Nat /\ MaxRetries - n \in Nat
      /\ MaxRetries = n + (MaxRetries - n)
  BY TimesAssumption
<1> DEFINE p == RequestTimeout[d] + delay
<1>4. p \in Nat
  BY <1>1
<1>5. MaxRetries * p = n * p + (MaxRetries - n) * p /\ (MaxRetries - n) * p \in Nat
  <2> HIDE DEF p
  <2>. QED BY <1>2, <1>3, <1>4
<1>6. n * p <= MaxRetries * p
  <2>1. n * p \in Nat
    BY <1>2, <1>3, <1>4
  <2> HIDE DEF p
  <2>. QED BY <1>5, <2>1
<1>7. n * p \in Nat /\ 0 * p = 0 /\ (n + 1) * p = n * p + p
  BY <1>2, <1>3, <1>4
<1>. QED BY <1>1, <1>6, <1>7 DEF Tries

\* A call that is over leaves the time it was given.
LEMMA OverInTime ==
  ASSUME NEW delay \in Nat, NEW last \in Nat, Enough(delay, last),
         run \in Runs, Placed, Timely(delay, last), run.pc = "calling"
  PROVE  /\ run.age < last
         /\ run.stage = "slack" => run.age + SlackTimeout < last
<1> DEFINE T == RequestTimeout[run.stage]
           tries == Tries(run.attempt, run.stage, delay)
           all == Tries(MaxRetries, run.stage, delay)
<1>1. run.stage \in Deps /\ run.attempt \in 0 .. MaxRetries /\ run.age \in Nat
      /\ run.spent \in Nat
  BY TimesAssumption DEF Placed, Runs
<1>2. T \in Nat /\ tries \in Nat /\ tries <= all
  BY <1>1, TriesGrow
<1>3. all \in Nat
  <2>1. MaxRetries \in 0 .. MaxRetries
    BY TimesAssumption
  <2>. QED BY <1>1, <2>1, TriesGrow
<1>4. run.spent <= T /\ run.age < Budget + tries + run.spent
  BY DEF Timely
<1>5. /\ Budget + all + T <= last
      /\ run.stage = "slack" => Budget + all + T + SlackTimeout <= last
  BY <1>1 DEF Enough, CallOver
<1>6. Budget \in Nat /\ SlackTimeout \in Nat
  BY TimesAssumption
<1> HIDE DEF T, tries, all
<1>. QED BY <1>1, <1>2, <1>3, <1>4, <1>5, <1>6

\* No step takes a run past what its place allows.
LEMMA TimelyKept ==
  ASSUME NEW delay \in Nat, NEW last \in Nat, Enough(delay, last)
  PROVE  IInv /\ Timely(delay, last) /\ [Next]_vars => Timely(delay, last)'
<1>. SUFFICES ASSUME IInv, Timely(delay, last), [Next]_vars
              PROVE  Timely(delay, last)'
  OBVIOUS
<1>p. TypeOK /\ Placed /\ Beating /\ run \in Runs
  BY DEF IInv, TypeOK
<1>r. run' \in Runs
  BY <1>p, RunKept
<1>n. /\ Budget \in Nat /\ SlackTimeout \in Nat /\ LambdaTimeout \in Nat
      /\ run.age \in Nat /\ run.spent \in Nat /\ run'.age \in Nat /\ run'.spent \in Nat
      /\ run.attempt \in 0 .. MaxRetries
  BY <1>p, <1>r, TimesAssumption DEF Runs
<1>l. 0 < Budget /\ Budget <= last /\ last <= LambdaTimeout
      /\ Budget + SlackTimeout <= last
      /\ last + SlackTimeout + SlackTimeout <= LambdaTimeout
  <2>1. "slack" \in Deps /\ MaxRetries \in 0 .. MaxRetries
    BY TimesAssumption DEF Deps
  <2>2. RequestTimeout["slack"] \in Nat /\ Tries(MaxRetries, "slack", delay) \in Nat
    BY <2>1, TriesGrow
  <2>. QED BY <1>n, <2>2 DEF Enough, CallOver
<1>a. run.pc # "idle" => run.age < LambdaTimeout
  BY DEF Timely, NeverTimedOut
<1>s. ASSUME run'.pc = "stopping", run'.age = run.age, run.age < last
      PROVE  Timely(delay, last)'
  BY <1>l, <1>n, <1>s DEF Timely, NeverTimedOut
<1>v. ASSUME run'.pc = "at", run'.age = run.age, run.age < last, run'.spent = 0,
             run'.stage \notin {"slack", "size"}
      PROVE  Timely(delay, last)'
  BY <1>l, <1>n, <1>v DEF Timely, NeverTimedOut
<1>i. ASSUME run'.pc = "idle"
      PROVE  Timely(delay, last)'
  BY <1>i DEF Timely, NeverTimedOut
<1>1. CASE Begin
  <2>1. run'.pc = "at" /\ run'.stage = "slack" /\ run'.spent = 0 /\ run'.age = 0
    BY <1>1 DEF Begin, NoRun
  <2>. QED BY <1>l, <1>n, <2>1 DEF Timely, NeverTimedOut
<1>2. CASE GuardedCall
  <2>1. run.pc = "at" /\ run.age < last /\ run.stage \in Deps
    BY <1>2 DEF GuardedCall, At, Timely
  <2>2. run'.stage = run.stage /\ run'.age = run.age
    BY <1>2, <1>p, GuardedCallMoves
  <2>3. CASE run'.pc = "stopping"
    BY <1>s, <2>1, <2>2, <2>3
  <2>4. CASE run'.pc = "calling" /\ run'.spent = 0 /\ run.age < Budget
    <3>1. run'.attempt \in 0 .. MaxRetries
      BY <1>r DEF Runs
    <3>2. RequestTimeout[run'.stage] \in Nat /\ Tries(run'.attempt, run'.stage, delay) \in Nat
      BY <2>1, <2>2, <3>1, TriesGrow
    <3>. QED BY <1>l, <1>n, <2>2, <2>4, <3>2 DEF Timely, NeverTimedOut
  <2>. QED BY <1>2, <1>p, <2>3, <2>4, GuardedCallMoves
<1>3. CASE CallSucceeds
  <2>1. run.pc = "calling" /\ run.stage \in Deps /\ run' = Advanced
    BY <1>3, <1>p DEF CallSucceeds, At, Placed
  <2>2. /\ run'.pc = "at" /\ run'.stage = NextStage(run.stage)
        /\ run'.spent = 0 /\ run'.age = run.age
    BY <1>p, <2>1, AdvanceMoves
  <2>3. run.age < last /\ (run.stage = "slack" => run.age + SlackTimeout < last)
    BY <1>p, <2>1, OverInTime
  <2>4. CASE run.stage = "slack"
    <3>1. run'.stage = "size"
      BY <2>2, <2>4 DEF NextStage
    <3>. QED BY <1>l, <1>n, <2>2, <2>3, <2>4, <3>1 DEF Timely, NeverTimedOut
  <2>5. CASE run.stage # "slack"
    <3>1. run'.stage \notin {"slack", "size"}
      BY <2>1, <2>2, <2>5 DEF NextStage, Deps
    <3>. QED BY <1>v, <2>2, <2>3, <3>1
  <2>. QED BY <2>4, <2>5
<1>4. CASE CallRetries
  <2>1. run.pc = "calling" /\ run.stage \in Deps
    BY <1>4, <1>p DEF CallRetries, At, Placed
  <2>2. /\ run'.pc = "sleeping" /\ run'.stage = run.stage /\ run'.attempt = run.attempt
        /\ run'.spent = 0 /\ run'.age = run.age
    BY <1>4, <1>p, SleepingTyped DEF CallRetries
  <2>3. /\ RequestTimeout[run.stage] \in Nat
        /\ Tries(run.attempt, run.stage, delay) \in Nat
    BY <1>n, <2>1, TriesGrow
  <2>4. /\ run.spent <= RequestTimeout[run.stage]
        /\ run.age < Budget + Tries(run.attempt, run.stage, delay) + run.spent
    BY <2>1 DEF Timely
  <2>. QED BY <1>a, <1>n, <2>1, <2>2, <2>3, <2>4 DEF Timely, NeverTimedOut
<1>5. CASE RetriesExhausted \/ CallRaises
  <2>1. run.pc = "calling"
    BY <1>5 DEF RetriesExhausted, CallRaises, At
  <2>. QED BY <1>5, <1>p, <1>s, <2>1, OverInTime, FailureMoves
<1>6. CASE SleepEnds
  <2>1. run.pc = "sleeping" /\ run.stage \in Deps /\ run.attempt < MaxRetries
    BY <1>6, <1>p DEF SleepEnds, At, Placed
  <2>2. /\ run'.pc = "calling" /\ run'.stage = run.stage
        /\ run'.attempt = run.attempt + 1
        /\ run'.spent = 0 /\ run'.age = run.age
    BY <1>6, <1>p, <2>1, AwakeTyped
  <2>3. /\ RequestTimeout[run.stage] \in Nat
        /\ Tries(run.attempt, run.stage, delay) \in Nat
        /\ Tries(run.attempt + 1, run.stage, delay)
             = Tries(run.attempt, run.stage, delay) + RequestTimeout[run.stage] + delay
    BY <1>n, <2>1, TriesGrow
  <2>4. /\ run.spent <= delay
        /\ run.age < Budget + Tries(run.attempt, run.stage, delay)
                       + RequestTimeout[run.stage] + run.spent
    BY <2>1 DEF Timely
  <2>. QED BY <1>a, <1>n, <2>1, <2>2, <2>3, <2>4 DEF Timely, NeverTimedOut
<1>7. CASE SizeGate
  <2>1. /\ run.pc = "at" /\ run.stage = "size" /\ run.spent = 0 /\ run.age < last
        /\ run.age + SlackTimeout < last
    BY <1>7 DEF SizeGate, AtStage, Timely
  <2>2. CASE run' = Advanced
    <3>1. /\ run'.pc = "at" /\ run'.stage = "scan" /\ run'.spent = 0
          /\ run'.age = run.age
      BY <1>p, <2>1, <2>2, AdvanceMoves DEF NextStage
    <3>. QED BY <1>v, <2>1, <3>1
  <2>3. CASE run' = Leaving("oversize")
    BY <1>p, <1>s, <2>1, <2>3, LeaveMoves DEF Outcomes, Causes
  <2>4. CASE run' = [run EXCEPT !.pc = "noticing"]
    <3>1. run'.pc = "noticing" /\ run'.age = run.age /\ run'.spent = run.spent
      BY <1>p, <2>4, PlacedTyped
    <3>. QED BY <1>l, <1>n, <2>1, <3>1 DEF Timely, NeverTimedOut
  <2>. QED BY <1>7, <2>2, <2>3, <2>4 DEF SizeGate
<1>8. CASE TrimNotice \/ TrimNoticeFails
  <2>1. run.pc = "noticing" /\ run.stage = "size" /\ run.age < last
    <3>1. run.pc = "noticing" /\ run.stage = "size"
      BY <1>8, <1>p DEF TrimNotice, TrimNoticeFails, At, Placed
    <3>. QED BY <1>n, <3>1 DEF Timely
  <2>2. CASE run' = Advanced
    <3>1. /\ run'.pc = "at" /\ run'.stage = "scan" /\ run'.spent = 0
          /\ run'.age = run.age
      BY <1>p, <2>1, <2>2, AdvanceMoves DEF NextStage
    <3>. QED BY <1>v, <2>1, <3>1
  <2>3. CASE run' = Leaving("raised")
    BY <1>p, <1>s, <2>1, <2>3, LeaveMoves DEF Outcomes
  <2>. QED BY <1>8, <2>2, <2>3 DEF TrimNotice, TrimNoticeFails
<1>9. CASE ScanGate \/ BudgetGate \/ Compose
  <2>1. run.pc = "at" /\ run.stage \in {"scan", "budget", "compose"} /\ run.age < last
    BY <1>9 DEF ScanGate, BudgetGate, Compose, AtStage, Timely
  <2>2. CASE run' = Advanced
    <3>1. /\ run'.pc = "at" /\ run'.stage = NextStage(run.stage) /\ run'.spent = 0
          /\ run'.age = run.age
      BY <1>p, <2>2, AdvanceMoves
    <3>2. run'.stage \notin {"slack", "size"}
      BY <2>1, <3>1 DEF NextStage
    <3>. QED BY <1>v, <2>1, <3>1, <3>2
  <2>3. CASE \E outcome \in Outcomes : run' = Leaving(outcome)
    BY <1>p, <1>s, <2>1, <2>3, LeaveMoves
  <2>4. run' = Advanced \/ \E outcome \in Outcomes : run' = Leaving(outcome)
    BY <1>9, ComposedValidates DEF ScanGate, BudgetGate, Compose, Outcomes, Causes
  <2>. QED BY <2>2, <2>3, <2>4
<1>10. CASE StopHeartbeat
  <2>1. run.pc = "stopping" /\ run' = [run EXCEPT !.pc = "joining", !.spent = 0]
    BY <1>10 DEF StopHeartbeat, At
  <2>2. run'.pc = "joining" /\ run'.spent = 0 /\ run'.age = run.age
    BY <1>p, <2>1, MovedTyped
  <2>. QED BY <1>l, <1>n, <2>1, <2>2 DEF Timely, NeverTimedOut
<1>11. CASE Joined
  <2>1. run.pc = "joining"
    BY <1>11 DEF Joined, At
  <2>2. run.age < last + SlackTimeout
    BY <1>l, <1>n, <1>p, <2>1 DEF Timely, Beating
  <2>3. CASE run' = [run EXCEPT !.pc = "posting", !.spent = 0]
    <3>1. run'.pc = "posting" /\ run'.spent = 0 /\ run'.age = run.age
      BY <1>p, <2>3, MovedTyped
    <3>. QED BY <1>l, <1>n, <2>2, <3>1 DEF Timely, NeverTimedOut
  <2>. QED BY <1>11, <1>i, <2>3 DEF Joined, NoRun
<1>12. CASE PostVerdict \/ Replaced
  BY <1>12, <1>i DEF PostVerdict, Replaced, NoRun
<1>13. CASE Killed
  <2>1. run.pc # "idle" /\ run'.pc = "killed" /\ run'.age = run.age
    BY <1>13, <1>p, PlacedTyped DEF Killed
  <2>. QED BY <1>a, <2>1 DEF Timely, NeverTimedOut
<1>14. CASE BeatStep \/ UNCHANGED vars
  <2>1. run' = run
    BY <1>14 DEF BeatStep, BeatDue, BeatPosted, BeatStops, vars
  <2>. QED BY <2>1 DEF Timely, NeverTimedOut
<1>15. CASE Tick
  <2>1. /\ run'.pc = run.pc /\ run'.stage = run.stage /\ run'.attempt = run.attempt
        /\ run'.age = run.age + 1 /\ run'.spent = run.spent + 1
    BY <1>15, <1>p, TickTyped
  <2>2. run.spent < MainLimit
    BY <1>15 DEF Tick
  <2>3. CASE run.pc = "calling"
    <3>1. run.stage \in Deps /\ MainLimit = RequestTimeout[run.stage]
      BY <1>p, <2>3 DEF Placed, MainLimit, At
    <3>2. /\ RequestTimeout[run.stage] \in Nat
          /\ Tries(run.attempt, run.stage, delay) \in Nat
          /\ Tries(run.attempt, run.stage, delay) <= Tries(MaxRetries, run.stage, delay)
      BY <1>n, <3>1, TriesGrow
    <3>3. Tries(MaxRetries, run.stage, delay) \in Nat
      <4>1. MaxRetries \in 0 .. MaxRetries
        BY TimesAssumption
      <4>. QED BY <3>1, <4>1, TriesGrow
    <3>4. Budget + Tries(MaxRetries, run.stage, delay) + RequestTimeout[run.stage] <= last
      BY <3>1 DEF Enough, CallOver
    <3>5. run.age < Budget + Tries(run.attempt, run.stage, delay) + run.spent
      BY <2>3 DEF Timely
    <3>6. run'.age < LambdaTimeout
      BY <1>l, <1>n, <2>1, <2>2, <3>1, <3>2, <3>3, <3>4, <3>5
    <3>. QED BY <1>n, <2>1, <2>2, <2>3, <3>1, <3>2, <3>5, <3>6 DEF Timely, NeverTimedOut
  <2>4. CASE run.pc = "sleeping"
    <3>1. run.stage \in Deps /\ run.attempt < MaxRetries
          /\ MainLimit = LongestDelay(run.attempt, run.hint) /\ run.hint \in RetryAfters
      BY <1>p, <2>4 DEF Placed, MainLimit, At, Runs
    <3>2. MainLimit \in 0 .. delay
      BY <1>n, <3>1, TimesAssumption DEF Enough
    <3>3. run.spent + 1 <= delay
      BY <1>n, <2>2, <3>2
    <3>4. /\ RequestTimeout[run.stage] \in Nat
          /\ Tries(run.attempt, run.stage, delay) \in Nat
          /\ Tries(run.attempt + 1, run.stage, delay)
               = Tries(run.attempt, run.stage, delay) + RequestTimeout[run.stage] + delay
          /\ Tries(run.attempt + 1, run.stage, delay)
               <= Tries(MaxRetries, run.stage, delay)
      <4>1. run.attempt + 1 \in 0 .. MaxRetries
        BY <1>n, <3>1, TimesAssumption
      <4>. QED BY <1>n, <3>1, <4>1, TriesGrow
    <3>5. Tries(MaxRetries, run.stage, delay) \in Nat
      <4>1. MaxRetries \in 0 .. MaxRetries
        BY TimesAssumption
      <4>. QED BY <3>1, <4>1, TriesGrow
    <3>6. Budget + Tries(MaxRetries, run.stage, delay) + RequestTimeout[run.stage] <= last
      BY <3>1 DEF Enough, CallOver
    <3>7. run.age < Budget + Tries(run.attempt, run.stage, delay)
                      + RequestTimeout[run.stage] + run.spent
      BY <2>4 DEF Timely
    <3>8. run'.age < LambdaTimeout
      BY <1>l, <1>n, <2>1, <3>3, <3>4, <3>5, <3>6, <3>7
    <3>. QED BY <1>n, <2>1, <2>4, <3>3, <3>4, <3>7, <3>8 DEF Timely, NeverTimedOut
  <2>5. CASE run.pc \in {"noticing", "posting"}
    <3>1. MainLimit = SlackTimeout
      BY <2>5 DEF MainLimit, At
    <3>. QED BY <1>l, <1>n, <2>1, <2>2, <2>5, <3>1 DEF Timely, NeverTimedOut
  <2>6. CASE run.pc = "joining"
    <3>1. run'.spent <= SlackTimeout
      <4>1. Beating'
        BY <1>p, BeatingKept
      <4>. QED BY <2>1, <2>6, <4>1 DEF Beating
    <3>. QED BY <1>l, <1>n, <2>1, <2>6, <3>1 DEF Timely, NeverTimedOut
  <2>7. run.pc \in {"calling", "sleeping", "noticing", "posting", "joining"}
    BY <1>n, <2>2 DEF MainLimit, At
  <2>. QED BY <2>3, <2>4, <2>5, <2>6, <2>7
<1>. QED
  BY <1>1, <1>2, <1>3, <1>4, <1>5, <1>6, <1>7, <1>8, <1>9, <1>10, <1>11, <1>12,
     <1>13, <1>14, <1>15 DEF Next, MainStep

\* NFR-17: with a Lambda timeout above the budget, one call's retries and two
\* posts, the worker always ends by itself.  The deployed settings are not
\* such: a call begun within the budget may last longer than what is left.
THEOREM EndsByItself == EnoughTime => (Spec => []NeverTimedOut)
<1>. SUFFICES ASSUME EnoughTime PROVE Spec => []NeverTimedOut
  OBVIOUS
<1>1. PICK delay \in Nat, last \in Nat : Enough(delay, last)
  BY DEF EnoughTime
<1>2. Init => Timely(delay, last)
  BY DEF Init, NoRun, Timely, NeverTimedOut
<1>3. IInv /\ Timely(delay, last) /\ [Next]_vars => Timely(delay, last)'
  BY <1>1, TimelyKept
<1>4. Timely(delay, last) => NeverTimedOut
  BY DEF Timely
<1>. QED BY <1>2, <1>3, <1>4, PipelineInvariant, PTL DEF Spec
=============================================================================
