-------------------------- MODULE SlackEventsProofs --------------------------
(***************************************************************************)
(* The intake Lambda does what its two halves do: every behaviour of the   *)
(* composition is one of Intake and one of Feedback, so that what is       *)
(* proved of each holds of the whole.                                      *)
(***************************************************************************)
EXTENDS SlackEvents, IntakeProofs, FeedbackProofs

\* Each step of the whole is a step of one half, and a stutter of the other.
LEMMA StepsOfBoth ==
  [EventsNext]_allVars => [Next]_vars /\ [AnswerPosted \/ FeedbackStep]_feedbackVars
<1>. SUFFICES ASSUME [EventsNext]_allVars
              PROVE  [Next]_vars /\ [AnswerPosted \/ FeedbackStep]_feedbackVars
  OBVIOUS
<1>1. CASE MessageEvent
  BY <1>1 DEF MessageEvent
<1>2. CASE QueuedAnswered
  BY <1>2 DEF QueuedAnswered
<1>3. CASE ReactionEvent
  BY <1>3 DEF ReactionEvent
<1>4. CASE UNCHANGED allVars
  BY <1>4 DEF allVars, vars, feedbackVars
<1>. QED BY <1>1, <1>2, <1>3, <1>4 DEF EventsNext

\* dispatch_slack_event: the composition implements both of its halves.
THEOREM DispatchImplementsBoth == EventsSpec => Spec /\ FeedbackSpec
<1>1. EventsInit => Init /\ FeedbackInit
  BY DEF EventsInit
<1>2. [EventsNext]_allVars => [Next]_vars
  BY StepsOfBoth
<1>3. [EventsNext]_allVars => [AnswerPosted \/ FeedbackStep]_feedbackVars
  BY StepsOfBoth
<1>. QED BY <1>1, <1>2, <1>3, PTL DEF EventsSpec, Spec, FeedbackSpec

\* BR-002, BR-004, BR-010 for the whole Lambda: a question is queued once,
\* behind its job, a bot's message leads to nothing, only faults lose a
\* question, and all its deliveries are one intake to the lifecycle.
THEOREM MessagesAnsweredOnce ==
  EventsSpec => /\ [](QueuedOnceBehindTheJob /\ BotsGetNothing /\ LostOnlyByFaults)
                /\ IntakeIsOver
BY DispatchImplementsBoth, QueuedOnce, NothingForBots, OnlyFaultsLose,
   DeliveriesAreOneIntake, PTL

\* BR-018, BR-020 for the whole Lambda: no vote on an indexed answer is passed
\* over, no row is overwritten, and the tally follows Slack.
THEOREM ReactionsCounted ==
  EventsSpec => [](SeenOnceIndexed /\ TallyFollowsSlack) /\ RowsAreForever
BY DispatchImplementsBoth, NoVotePassedOver, TallyIsSlacks, RowsOnlyGrow, PTL
=============================================================================
