----------------------------- MODULE SlackEvents -----------------------------
(***************************************************************************)
(* The intake Lambda behind dispatch_slack_event: message events go to     *)
(* Intake, reaction events to Feedback.  The two meet in the job: what     *)
(* Intake queues is answered by a worker, and the answer is reacted to.    *)
(***************************************************************************)
EXTENDS Intake, Feedback, TLC

allVars == <<message, allowlist, delivery, job, thread, queued, faults,
             answer, events, calls, rows, clock>>

EventsInit == Init /\ FeedbackInit

MessageEvent == Next /\ UNCHANGED feedbackVars

\* A bound: only one question is reacted to, a text-only one whose deliveries
\* are over and met no fault.  Reactions read nothing that these leave behind.
Settled ==
  /\ message.attached = "none" /\ allowlist.replies
  /\ thread.acks = 1 /\ faults = 0
  /\ \A d \in Deliveries : At(d, "done")

\* A worker answers what was queued.
QueuedAnswered == queued > 0 /\ Settled /\ AnswerPosted /\ UNCHANGED vars

\* A bound: one reaction at most comes before the answer can be looked up.
FewEarly == \A e, f \in 1 .. Len(events) : events[e].found \/ events[f].found \/ e = f

ReactionEvent == FeedbackStep /\ FewEarly' /\ UNCHANGED vars

EventsNext == MessageEvent \/ QueuedAnswered \/ ReactionEvent

EventsSpec == EventsInit /\ [][EventsNext]_allVars

Interchangeable == Permutations(Reactors)
=============================================================================
