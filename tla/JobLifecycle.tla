---------------------------- MODULE JobLifecycle ----------------------------
(***************************************************************************)
(* The life of a question: the intake Lambda registers a job and puts a    *)
(* message on the work queue, worker Lambdas claim the job under a lease,  *)
(* answer it and close it, and the scheduled reaper Lambda re-queues or    *)
(* abandons what was lost.  They share the DynamoDB job table (jobs), the  *)
(* SQS queue (msgs) with its dead-letter queue (dlq), the Slack thread and *)
(* the operational-data ledger.                                            *)
(*                                                                         *)
(* One action per call that leaves the process: each DynamoDB read, each   *)
(* DynamoDB write and each Slack post is a step of its own, so that        *)
(* another Lambda, a kill or the passing of time may come between any two. *)
(*                                                                         *)
(* Time is discrete.  A timestamp is kept as its age, saturating at        *)
(* Horizon, beyond which no comparison of the code changes its answer.     *)
(***************************************************************************)
EXTENDS JobRules, FiniteSets

CONSTANTS
  Jobs,            \* de-dup identities: (channel id, message ts)
  Workers,         \* concurrent worker Lambda invocations
  Msgs,            \* work-queue messages that may exist at once (a bound)
  NoJob, NoMsg,
  ScanPage,        \* jobs whose items the first page of a table scan reaches
  Staleness,       \* LEASE_STALENESS_SECONDS, in ticks
  LambdaTimeout,   \* the worker function's hard timeout
  IntakeTimeout,   \* the intake function's
  ReaperTimeout,   \* the reaper function's
  Visibility,      \* the work queue's visibility timeout
  MaxAttempts,     \* MAX_ATTEMPTS
  MaxReceive,      \* the redrive policy's maxReceiveCount
  ReaperMaySend,   \* whether the reaper's role and settings let it enqueue
  ReadsLag,        \* whether reads of the table may return an old image
  MaxFaults        \* crashes, raised errors, spurious redeliveries and lagging
                   \* reads (a bound)

ASSUME NamesAssumption == NoJob \notin Jobs /\ NoMsg \notin Msgs
ASSUME PageAssumption == ScanPage \subseteq Jobs

\* The order Terraform keeps: timeout 85 s < staleness 120 s; intake 10 s.
ASSUME TimingAssumption ==
  /\ {Staleness, LambdaTimeout, IntakeTimeout, ReaperTimeout} \subseteq Nat
  /\ LambdaTimeout < Staleness
  /\ IntakeTimeout < Staleness

\* SQS refuses an event source whose visibility timeout is below the
\* function's; the redrive policy delivers a message at least once.
ASSUME QueueAssumption ==
  /\ Visibility \in Nat /\ LambdaTimeout < Visibility
  /\ MaxReceive \in Nat \ {0}
  /\ ReaperMaySend \in BOOLEAN

ASSUME BoundsAssumption ==
  MaxAttempts \in Nat \ {0} /\ MaxFaults \in Nat /\ ReadsLag \in BOOLEAN

VARIABLES
  jobs,      \* the job table: an item per identity
  intake,    \* where the intake of each identity stands
  msgs,      \* the work queue
  dlq,       \* identities of the messages in the dead-letter queue
  workers,   \* the worker invocations
  reaper,    \* the reaper invocation
  slack,     \* what the bot has posted in the thread of each identity
  ledger,    \* operational data: usage records and adoption, per identity
  faults     \* faults so far

vars == <<jobs, intake, msgs, dlq, workers, reaper, slack, ledger, faults>>

Horizon == Staleness + LambdaTimeout
Older(age) == IF age < Horizon THEN age + 1 ELSE age

NoItem == [status |-> "absent", attempts |-> 0, age |-> 0,
           intent |-> FALSE, stamped |-> FALSE]
NoMessage == [job |-> NoJob, receives |-> 0, hidden |-> 0]
IdleWorker == [pc |-> "idle", job |-> NoJob, msg |-> NoMsg, age |-> 0,
               claim |-> 0, prev |-> 0, unbilled |-> FALSE, target |-> "failed"]
IdleReaper == [pc |-> "idle", age |-> 0, requeue |-> {}, abandon |-> {},
               drained |-> {}, job |-> NoJob, back |-> "recovering"]

WorkerPc == {"idle", "started", "claimed", "leasing", "pipeline", "marking",
             "posting", "stamping", "billing", "adopting", "notifying",
             "transition", "write", "done"}
ReaperPc == {"idle", "recovering", "draining", "abandoning", "notifying",
             "transition", "write"}

Init ==
  /\ jobs = [j \in Jobs |-> NoItem]
  /\ intake = [j \in Jobs |-> "none"]
  /\ msgs = [m \in Msgs |-> NoMessage]
  /\ dlq = {}
  /\ workers = [w \in Workers |-> IdleWorker]
  /\ reaper = IdleReaper
  /\ slack = [j \in Jobs |-> [answers |-> 0, notices |-> 0]]
  /\ ledger = [j \in Jobs |-> [usage |-> 0, adopted |-> FALSE]]
  /\ faults = 0

Items == [status : JobStatus \cup {"absent"}, attempts : Nat, age : Nat,
          intent : BOOLEAN, stamped : BOOLEAN]
Messages == [job : Jobs \cup {NoJob}, receives : Nat, hidden : Nat]
Invocations == [pc : WorkerPc, job : Jobs \cup {NoJob}, msg : Msgs \cup {NoMsg},
                age : Nat, claim : Nat, prev : Nat, unbilled : BOOLEAN,
                target : Terminal]
ReaperRuns == [pc : ReaperPc, age : Nat, requeue : SUBSET Jobs,
               abandon : SUBSET Jobs, drained : SUBSET Jobs,
               job : Jobs \cup {NoJob}, back : {"recovering", "abandoning"}]

JobsOK == jobs \in [Jobs -> Items]
QueueOK ==
  /\ intake \in [Jobs -> {"none", "registered", "ended"}]
  /\ msgs \in [Msgs -> Messages]
  /\ dlq \in SUBSET Jobs
  /\ faults \in Nat
WorkersOK == workers \in [Workers -> Invocations]
ReaperOK == reaper \in ReaperRuns
SlackOK == slack \in [Jobs -> [answers : Nat, notices : Nat]]
LedgerOK == ledger \in [Jobs -> [usage : Nat, adopted : BOOLEAN]]

TypeOK == JobsOK /\ QueueOK /\ WorkersOK /\ ReaperOK /\ SlackOK /\ LedgerOK

-----------------------------------------------------------------------------
(* The work queue (SQS).  A slot whose job is NoJob holds no message.        *)

FreeSlots == {m \in Msgs : msgs[m].job = NoJob}

\* Slots promised to an intake or a reaper run that has yet to enqueue: the
\* bound on messages is kept where a producer starts, so that it never stops
\* one half way.
Promised == Cardinality({j \in Jobs : intake[j] = "registered"})
              + Cardinality(reaper.requeue)
RoomFor(n) == Cardinality(FreeSlots) >= Promised + n

Enqueued(m, j) == [msgs EXCEPT ![m] = [job |-> j, receives |-> 0, hidden |-> 0]]

\* The redrive policy: a message received MaxReceive times goes to the DLQ.
MoveToDlq(m) ==
  /\ msgs[m].job # NoJob
  /\ msgs[m].hidden = 0
  /\ msgs[m].receives = MaxReceive
  /\ dlq' = dlq \cup {msgs[m].job}
  /\ msgs' = [msgs EXCEPT ![m] = NoMessage]
  /\ UNCHANGED <<jobs, intake, workers, reaper, slack, ledger, faults>>

\* A standard queue delivers at least once: a message may come twice.
DuplicateMessage(m, copy) ==
  /\ faults < MaxFaults
  /\ msgs[m].job # NoJob
  /\ copy \in FreeSlots
  /\ RoomFor(1)
  /\ msgs' = Enqueued(copy, msgs[m].job)
  /\ faults' = faults + 1
  /\ UNCHANGED <<jobs, intake, dlq, workers, reaper, slack, ledger>>

-----------------------------------------------------------------------------
(* Intake.  A mention redelivered by Slack finds the item and stops there    *)
(* (DUPLICATE), which changes nothing; so only the first delivery is an      *)
(* action.  The in-thread ack between the two steps is best-effort.          *)

RegisterOrGet(j) ==
  /\ intake[j] = "none"
  /\ jobs[j] = NoItem
  /\ RoomFor(1)
  /\ jobs' = [jobs EXCEPT ![j].status = "seen"]
  /\ intake' = [intake EXCEPT ![j] = "registered"]
  /\ UNCHANGED <<msgs, dlq, workers, reaper, slack, ledger, faults>>

IntakeEnqueue(j) ==
  /\ intake[j] = "registered"
  /\ \E m \in FreeSlots : msgs' = Enqueued(m, j)
  /\ intake' = [intake EXCEPT ![j] = "ended"]
  /\ UNCHANGED <<jobs, dlq, workers, reaper, slack, ledger, faults>>

\* The intake Lambda dies, or its enqueue raises: dispatch returns 200 anyway.
IntakeAbort(j) ==
  /\ faults < MaxFaults
  /\ intake[j] = "registered"
  /\ intake' = [intake EXCEPT ![j] = "ended"]
  /\ faults' = faults + 1
  /\ UNCHANGED <<jobs, msgs, dlq, workers, reaper, slack, ledger>>

-----------------------------------------------------------------------------
(* The worker Lambda: one invocation per message (batch_size 1).             *)

At(w, pc) == workers[w].pc = pc
JobOf(w) == jobs[workers[w].job]
Goto(w, pc) == workers' = [workers EXCEPT ![w].pc = pc]

Received(msg) == [msg EXCEPT !.receives = @ + 1, !.hidden = Visibility]

Receive(w, m) ==
  /\ At(w, "idle")
  /\ msgs[m].job # NoJob
  /\ msgs[m].hidden = 0
  /\ msgs[m].receives < MaxReceive
  /\ msgs' = [msgs EXCEPT ![m] = Received(@)]
  /\ workers' = [workers EXCEPT ![w] =
                   [IdleWorker EXCEPT !.pc = "started", !.job = msgs[m].job,
                                      !.msg = m]]
  /\ UNCHANGED <<jobs, intake, dlq, reaper, slack, ledger, faults>>

\* claim_and_guard, first read: the clock is read, and a closed job skipped.
ClaimGet(w) ==
  /\ At(w, "started")
  /\ Goto(w, IF IsTerminal(JobOf(w)) THEN "done" ELSE "claimed")
  /\ UNCHANGED <<jobs, intake, msgs, dlq, reaper, slack, ledger, faults>>

\* acquire_lease, its own read of the job: prev is what it compares with.
LeaseRead(w) ==
  /\ At(w, "claimed")
  /\ IF IsTerminal(JobOf(w)) \/ JobOf(w) = NoItem
       THEN Goto(w, "done")
       ELSE workers' = [workers EXCEPT ![w].pc = "leasing",
                                       ![w].prev = JobOf(w).age]
  /\ UNCHANGED <<jobs, intake, msgs, dlq, reaper, slack, ledger, faults>>

\* Mutants of LeaseFree: any job in progress may be reclaimed; a job is leased
\* whatever its status, as long as nothing touched it since prev.
LeaseFreeWhenLive(job, prev, claim) ==
  job.age = prev /\ job.status \in InFlight
LeaseFreeWhenClosed(job, prev, claim) ==
  job.age = prev /\ job.status # "in-progress"

\* The condition of acquire_lease's update, with now read claim ticks ago.
LeaseFree(job, prev, claim) ==
  /\ job.age = prev
  /\ \/ job.status = "seen"
     \/ job.status = "in-progress" /\ job.age >= claim + Staleness

\* Mutant: the lease leaves last_transition_at as it was.
LeasedUntouched(job, claim) == [job EXCEPT !.status = "in-progress",
                                           !.attempts = @ + 1]

Leased(job, claim) == [job EXCEPT !.status = "in-progress",
                                  !.attempts = @ + 1, !.age = claim]

\* Mutants of ClaimStep: the intent marker is not looked at; an attempt that
\* was lost after its post resumes with the billing; attempts are counted, but
\* a claim never asks how many there were.
ClaimStepUnbounded(job) == IF PostAttempted(job) THEN "transition" ELSE "pipeline"
ClaimStepIgnoringIntent(job) ==
  IF AttemptsExhausted(job, MaxAttempts) THEN "notifying" ELSE "pipeline"
ClaimStepRebilling(job) ==
  IF PostAttempted(job) THEN "billing"
  ELSE IF AttemptsExhausted(job, MaxAttempts) THEN "notifying"
  ELSE "pipeline"

\* claim_and_guard after the lease: job is the item the update returned.
ClaimStep(job) ==
  IF PostAttempted(job) THEN "transition"
  ELSE IF AttemptsExhausted(job, MaxAttempts) THEN "notifying"
  ELSE "pipeline"
ClaimTarget(job) == IF PostAttempted(job) THEN "resolved" ELSE "failed"

\* acquire_lease's conditional update.  A lost lease ends the invocation
\* normally, and so deletes the message.
LeaseWrite(w) ==
  /\ At(w, "leasing")
  /\ LET job == Leased(JobOf(w), workers[w].claim)
     IN  IF LeaseFree(JobOf(w), workers[w].prev, workers[w].claim)
           THEN /\ jobs' = [jobs EXCEPT ![workers[w].job] = job]
                /\ workers' = [workers EXCEPT
                     ![w].pc = ClaimStep(job), ![w].target = ClaimTarget(job),
                     ![w].claim = 0, ![w].prev = 0]
           ELSE /\ workers' = [workers EXCEPT ![w].pc = "done",
                                 ![w].claim = 0, ![w].prev = 0]
                /\ UNCHANGED jobs
  /\ UNCHANGED <<intake, msgs, dlq, reaper, slack, ledger, faults>>

\* _run_pipeline under the heartbeat: an answer, whose inference is not billed
\* yet, or a failure with a cause.
PipelineAnswers(w) ==
  /\ At(w, "pipeline")
  /\ workers' = [workers EXCEPT ![w].pc = "marking", ![w].unbilled = TRUE]
  /\ UNCHANGED <<jobs, intake, msgs, dlq, reaper, slack, ledger, faults>>

\* The backend may have replied, with nothing that can be posted: the exchange
\* was made, and its token count goes with the error.
PipelineFails(w) ==
  /\ At(w, "pipeline")
  /\ \E replied \in BOOLEAN :
       workers' = [workers EXCEPT ![w].pc = "notifying", ![w].unbilled = replied]
  /\ UNCHANGED <<jobs, intake, msgs, dlq, reaper, slack, ledger, faults>>

\* mark_post_intent: a marker already there is left, and does not stop it.
MarkPostIntent(w) ==
  /\ At(w, "marking")
  /\ jobs' = [jobs EXCEPT ![workers[w].job].intent = TRUE]
  /\ Goto(w, "posting")
  /\ UNCHANGED <<intake, msgs, dlq, reaper, slack, ledger, faults>>

PostAnswer(w) ==
  /\ At(w, "posting")
  /\ slack' = [slack EXCEPT ![workers[w].job].answers = @ + 1]
  /\ Goto(w, "stamping")
  /\ UNCHANGED <<jobs, intake, msgs, dlq, reaper, ledger, faults>>

StampAnswerTs(w) ==
  /\ At(w, "stamping")
  /\ jobs' = [jobs EXCEPT ![workers[w].job].stamped = TRUE]
  /\ Goto(w, "billing")
  /\ UNCHANGED <<intake, msgs, dlq, reaper, slack, ledger, faults>>

RecordUsage(w) ==
  /\ At(w, "billing")
  /\ ledger' = [ledger EXCEPT ![workers[w].job].usage = @ + 1]
  /\ workers' = [workers EXCEPT ![w].pc = "adopting", ![w].unbilled = FALSE]
  /\ UNCHANGED <<jobs, intake, msgs, dlq, reaper, slack, faults>>

RecordAdoption(w) ==
  /\ At(w, "adopting")
  /\ ledger' = [ledger EXCEPT ![workers[w].job].adopted = TRUE]
  /\ workers' = [workers EXCEPT ![w].pc = "transition",
                                ![w].target = "resolved"]
  /\ UNCHANGED <<jobs, intake, msgs, dlq, reaper, slack, faults>>

\* _fail: the FR-17 message is best-effort; target is "failed" by now.
PostFailure(w) ==
  /\ At(w, "notifying")
  /\ slack' \in {slack, [slack EXCEPT ![workers[w].job].notices = @ + 1]}
  /\ Goto(w, "transition")
  /\ UNCHANGED <<jobs, intake, msgs, dlq, reaper, ledger, faults>>

\* transition's read: an illegal transition raises, and the record fails.
WorkerTransitionRead(w) ==
  /\ At(w, "transition")
  /\ IF CanTransition(JobOf(w).status, workers[w].target)
       THEN Goto(w, "write")
       ELSE workers' = [workers EXCEPT ![w] = IdleWorker]
  /\ UNCHANGED <<jobs, intake, msgs, dlq, reaper, slack, ledger, faults>>

\* Mutant: the worker's outcome is written, not the job's status.
ClosedWithOutcome(job, target) ==
  [job EXCEPT !.status = IF target = "failed" THEN "failed" ELSE "completed",
              !.age = 0]

\* transition's write carries no condition.
Closed(job, target) == [job EXCEPT !.status = target, !.age = 0]

WorkerTransitionWrite(w) ==
  /\ At(w, "write")
  /\ jobs' = [jobs EXCEPT ![workers[w].job] = Closed(@, workers[w].target)]
  /\ Goto(w, "done")
  /\ UNCHANGED <<intake, msgs, dlq, reaper, slack, ledger, faults>>

\* A normal return, whatever the outcome: the message is deleted.
Finish(w) ==
  /\ At(w, "done")
  /\ msgs' = [msgs EXCEPT ![workers[w].msg] = NoMessage]
  /\ workers' = [workers EXCEPT ![w] = IdleWorker]
  /\ UNCHANGED <<jobs, intake, dlq, reaper, slack, ledger, faults>>

\* The Lambda is killed, or a call raises: the message stays in flight until
\* its visibility timeout.
WorkerAbort(w) ==
  /\ faults < MaxFaults
  /\ ~ At(w, "idle")
  /\ workers' = [workers EXCEPT ![w] = IdleWorker]
  /\ faults' = faults + 1
  /\ UNCHANGED <<jobs, intake, msgs, dlq, reaper, slack, ledger>>

WorkerStep(w) ==
  \/ ClaimGet(w) \/ LeaseRead(w) \/ LeaseWrite(w)
  \/ PipelineAnswers(w) \/ PipelineFails(w)
  \/ MarkPostIntent(w) \/ PostAnswer(w) \/ StampAnswerTs(w)
  \/ RecordUsage(w) \/ RecordAdoption(w)
  \/ PostFailure(w) \/ WorkerTransitionRead(w) \/ WorkerTransitionWrite(w)
  \/ Finish(w)

-----------------------------------------------------------------------------
(* The reaper Lambda: recover_stale over one scan, then the DLQ drain.       *)

ReaperAt(pc) == reaper.pc = pc

\* Mutant of StaleJobs: only jobs that some worker started are recovered.
StaleStartedJobs == {j \in ScanPage : /\ IsLeaseStale(jobs[j], Staleness)
                                      /\ jobs[j].status = "in-progress"}

\* Mutant of StaleJobs: a job with no attempt left is not worth a scan's while.
StaleRetriableJobs == {j \in ScanPage : /\ IsLeaseStale(jobs[j], Staleness)
                                        /\ ~ AttemptsExhausted(jobs[j], MaxAttempts)}

\* Mutant of StaleJobs: a question that nobody leased yet has no lease to wait for.
StaleOrUnleased == {j \in ScanPage : IsLeaseStale(jobs[j], Staleness)
                                       \/ jobs[j].status = "seen"}

\* find_stale_jobs: one call of scan, whose LastEvaluatedKey is not looked at.
StaleJobs == {j \in ScanPage : IsLeaseStale(jobs[j], Staleness)}

\* Mutant of ExhaustedJobs: a stale job is abandoned on its first loss.
ExhaustedEarly == {j \in StaleJobs : AttemptsExhausted(jobs[j], 1)}

\* recover_stale decides from the items as the scan saw them.
ExhaustedJobs == {j \in StaleJobs : AttemptsExhausted(jobs[j], MaxAttempts)}

\* _abandon is entered for j; the loop it was called from goes on after it.
Abandoning(run, j, back) ==
  [run EXCEPT !.pc = "notifying", !.job = j, !.back = back]

ReaperScan ==
  /\ ReaperAt("idle")
  /\ RoomFor(Cardinality(StaleJobs))
  /\ reaper' = [IdleReaper EXCEPT !.pc = "recovering",
                                  !.requeue = StaleJobs \ ExhaustedJobs,
                                  !.abandon = ExhaustedJobs]
  /\ UNCHANGED <<jobs, intake, msgs, dlq, workers, slack, ledger, faults>>

\* SQS refuses a send that the role does not grant, to a queue that is not set:
\* the error ends the run before the other jobs and the drain.
ReaperRequeue(j) ==
  /\ ReaperAt("recovering")
  /\ j \in reaper.requeue
  /\ IF ReaperMaySend
       THEN /\ \E m \in FreeSlots : msgs' = Enqueued(m, j)
            /\ reaper' = [reaper EXCEPT !.requeue = @ \ {j}]
       ELSE reaper' = IdleReaper /\ UNCHANGED msgs
  /\ UNCHANGED <<jobs, intake, dlq, workers, slack, ledger, faults>>

ReaperAbandon(j) ==
  /\ ReaperAt("recovering")
  /\ j \in reaper.abandon
  /\ reaper' = Abandoning([reaper EXCEPT !.abandon = @ \ {j}], j, "recovering")
  /\ UNCHANGED <<jobs, intake, msgs, dlq, workers, slack, ledger, faults>>

ReaperDrain ==
  /\ ReaperAt("recovering")
  /\ reaper.requeue = {} /\ reaper.abandon = {}
  /\ reaper' = [reaper EXCEPT !.pc = "draining"]
  /\ UNCHANGED <<jobs, intake, msgs, dlq, workers, slack, ledger, faults>>

\* _drain_dlq deletes each message before any of the jobs is looked at; one
\* receive may return only some of the queue's messages.
DrainMessage(j) ==
  /\ ReaperAt("draining")
  /\ j \in dlq
  /\ dlq' = dlq \ {j}
  /\ reaper' = [reaper EXCEPT !.drained = @ \cup {j}]
  /\ UNCHANGED <<jobs, intake, msgs, workers, slack, ledger, faults>>

DrainReceived ==
  /\ ReaperAt("draining")
  /\ reaper' = [reaper EXCEPT !.pc = "abandoning"]
  /\ UNCHANGED <<jobs, intake, msgs, dlq, workers, slack, ledger, faults>>

\* drain_dead_letters: a closed job is skipped; any other is abandoned, its
\* lease not looked at.
AbandonDrained(j) ==
  /\ ReaperAt("abandoning")
  /\ j \in reaper.drained
  /\ LET rest == [reaper EXCEPT !.drained = @ \ {j}]
     IN  reaper' = IF jobs[j] = NoItem \/ IsTerminal(jobs[j])
                     THEN rest ELSE Abandoning(rest, j, "abandoning")
  /\ UNCHANGED <<jobs, intake, msgs, dlq, workers, slack, ledger, faults>>

\* _abandon: a best-effort FR-17 message, then the transition to failed.
ReaperPostFailure ==
  /\ ReaperAt("notifying")
  /\ slack' \in {slack, [slack EXCEPT ![reaper.job].notices = @ + 1]}
  /\ reaper' = [reaper EXCEPT !.pc = "transition"]
  /\ UNCHANGED <<jobs, intake, msgs, dlq, workers, ledger, faults>>

\* An illegal transition raises out of the handler: the run ends here, its
\* remaining jobs and drained messages with it.
ReaperTransitionRead ==
  /\ ReaperAt("transition")
  /\ reaper' = IF CanTransition(jobs[reaper.job].status, "failed")
                 THEN [reaper EXCEPT !.pc = "write"]
                 ELSE IdleReaper
  /\ UNCHANGED <<jobs, intake, msgs, dlq, workers, slack, ledger, faults>>

ReaperTransitionWrite ==
  /\ ReaperAt("write")
  /\ jobs' = [jobs EXCEPT ![reaper.job] = Closed(@, "failed")]
  /\ reaper' = [reaper EXCEPT !.pc = reaper.back, !.job = NoJob]
  /\ UNCHANGED <<intake, msgs, dlq, workers, slack, ledger, faults>>

ReaperEnd ==
  /\ ReaperAt("abandoning")
  /\ reaper.drained = {}
  /\ reaper' = IdleReaper
  /\ UNCHANGED <<jobs, intake, msgs, dlq, workers, slack, ledger, faults>>

ReaperAbort ==
  /\ faults < MaxFaults
  /\ ~ ReaperAt("idle")
  /\ reaper' = IdleReaper
  /\ faults' = faults + 1
  /\ UNCHANGED <<jobs, intake, msgs, dlq, workers, slack, ledger>>

ReaperStep ==
  \/ ReaperScan
  \/ \E j \in Jobs : ReaperRequeue(j) \/ ReaperAbandon(j)
  \/ ReaperDrain
  \/ \E j \in Jobs : DrainMessage(j) \/ AbandonDrained(j)
  \/ DrainReceived
  \/ ReaperPostFailure \/ ReaperTransitionRead \/ ReaperTransitionWrite
  \/ ReaperEnd

-----------------------------------------------------------------------------
(* Reads that lag.  get_item and scan are eventually consistent: they may    *)
(* return an item as it was before its last writes, or miss a new one.  What *)
(* then happens, where it differs from what the item itself leads to.        *)

\* claim_and_guard does not see yet that the job is closed.
LaggingClaimGet(w) ==
  /\ At(w, "started")
  /\ IsTerminal(JobOf(w))
  /\ Goto(w, "claimed")

\* acquire_lease finds no item, or an earlier last_transition_at, with which
\* the condition of its update fails.
LaggingLeaseRead(w) ==
  /\ At(w, "claimed")
  /\ ~ IsTerminal(JobOf(w))
  /\ Goto(w, "done")

\* transition finds no item and raises; or sees a closed job still in flight.
LaggingTransitionRead(w) ==
  /\ At(w, "transition")
  /\ IF CanTransition(JobOf(w).status, workers[w].target)
       THEN workers' = [workers EXCEPT ![w] = IdleWorker]
       ELSE Goto(w, "write")

WorkerReadLags(w) ==
  /\ ReadsLag /\ faults < MaxFaults
  /\ LaggingClaimGet(w) \/ LaggingLeaseRead(w) \/ LaggingTransitionRead(w)
  /\ faults' = faults + 1
  /\ UNCHANGED <<jobs, intake, msgs, dlq, reaper, slack, ledger>>

\* The attempts that an old image which looks stale may count: those before the
\* last lease, or the present ones if not that lease but a close is what it lacks.
LaggingAttempts(job) ==
  LET seen == IF job.status \in InFlight /\ ~ IsLeaseStale(job, Staleness)
                THEN {job.attempts - 1} ELSE {job.attempts - 1, job.attempts}
  IN  {n \in seen : n >= 0}

\* The scan misses some jobs, and sees others in flight and stale that were
\* leased or closed since.
LaggingScan ==
  /\ ReaperAt("idle")
  /\ \E requeue, abandon \in SUBSET {j \in ScanPage : jobs[j] # NoItem} :
       /\ requeue \cap abandon = {}
       /\ \A j \in requeue : \E n \in LaggingAttempts(jobs[j]) : n < MaxAttempts
       /\ \A j \in abandon : \E n \in LaggingAttempts(jobs[j]) : n >= MaxAttempts
       /\ RoomFor(Cardinality(requeue))
       /\ reaper' = [IdleReaper EXCEPT !.pc = "recovering", !.requeue = requeue,
                                       !.abandon = abandon]

\* drain_dead_letters passes over a job it cannot see yet, or goes on to
\* abandon one it still sees in flight.
LaggingDrainGet(j) ==
  /\ ReaperAt("abandoning")
  /\ j \in reaper.drained
  /\ jobs[j] # NoItem
  /\ LET rest == [reaper EXCEPT !.drained = @ \ {j}]
     IN  reaper' = IF IsTerminal(jobs[j]) THEN Abandoning(rest, j, "abandoning") ELSE rest

LaggingReaperTransitionRead ==
  /\ ReaperAt("transition")
  /\ reaper' = IF CanTransition(jobs[reaper.job].status, "failed")
                 THEN IdleReaper
                 ELSE [reaper EXCEPT !.pc = "write"]

ReaperReadLags ==
  /\ ReadsLag /\ faults < MaxFaults
  /\ LaggingScan \/ (\E j \in Jobs : LaggingDrainGet(j)) \/ LaggingReaperTransitionRead
  /\ faults' = faults + 1
  /\ UNCHANGED <<jobs, intake, msgs, dlq, workers, slack, ledger>>

-----------------------------------------------------------------------------
(* Time.  Lambda kills an invocation at its timeout, so time does not pass   *)
(* one that still runs: it has ended, or was aborted, by then.               *)

Running(w) == ~ At(w, "idle")

AgedJob(job) == IF job.status \in InFlight
                  THEN [job EXCEPT !.age = Older(@)] ELSE job
AgedMessage(msg) == [msg EXCEPT !.hidden = IF @ > 0 THEN @ - 1 ELSE 0]
AgedWorker(wk) ==
  IF wk.pc = "idle" THEN wk
  ELSE [wk EXCEPT !.age = @ + 1,
                  !.claim = IF wk.pc \in {"claimed", "leasing"} THEN @ + 1 ELSE @,
                  !.prev = IF wk.pc = "leasing" THEN Older(@) ELSE @]

Tick ==
  /\ \A w \in Workers : Running(w) => workers[w].age < LambdaTimeout
  /\ ~ ReaperAt("idle") => reaper.age < ReaperTimeout
  /\ \A j \in Jobs : intake[j] = "registered" => jobs[j].age < IntakeTimeout
  /\ jobs' = [j \in Jobs |-> AgedJob(jobs[j])]
  /\ msgs' = [m \in Msgs |-> AgedMessage(msgs[m])]
  /\ workers' = [w \in Workers |-> AgedWorker(workers[w])]
  /\ reaper' = IF ReaperAt("idle") THEN reaper ELSE [reaper EXCEPT !.age = @ + 1]
  /\ UNCHANGED <<intake, dlq, slack, ledger, faults>>

Next ==
  \/ \E j \in Jobs : RegisterOrGet(j) \/ IntakeEnqueue(j) \/ IntakeAbort(j)
  \/ \E m \in Msgs : MoveToDlq(m)
  \/ \E m, copy \in Msgs : DuplicateMessage(m, copy)
  \/ \E w \in Workers, m \in Msgs : Receive(w, m)
  \/ \E w \in Workers : WorkerStep(w) \/ WorkerAbort(w) \/ WorkerReadLags(w)
  \/ ReaperStep \/ ReaperAbort \/ ReaperReadLags
  \/ Tick

Spec == Init /\ [][Next]_vars

(***************************************************************************)
(* Fairness.  A Lambda that is running takes its next step; SQS delivers a *)
(* visible message and applies its redrive policy; EventBridge keeps       *)
(* starting the reaper (rate 1 minute) and the reaper goes through what it *)
(* has to do; time passes.  Nothing makes a user ask, or a fault happen.   *)
(***************************************************************************)
Fairness ==
  /\ \A j \in Jobs : WF_vars(IntakeEnqueue(j))
  /\ \A w \in Workers : WF_vars(WorkerStep(w))
  /\ \A m \in Msgs : /\ WF_vars(MoveToDlq(m))
                     /\ WF_vars(\E w \in Workers : Receive(w, m))
  /\ WF_vars(ReaperStep)
  /\ WF_vars(Tick)

FairSpec == Spec /\ Fairness

-----------------------------------------------------------------------------
(* Properties.                                                               *)

\* The stretch in which a worker has a question to itself: from a lease it may
\* proceed under to the post of the answer.
Answering == {"pipeline", "marking", "posting"}
\* ... and on to the last write made for the answer.
Holding == Answering \cup {"stamping", "billing", "adopting"}
Holders(j) == {w \in Workers : workers[w].job = j /\ workers[w].pc \in Holding}

\* BR-027: however leases, redeliveries, recovery and kills interleave, the
\* thread of a question gets at most one answer.
AtMostOneAnswer == \A j \in Jobs : slack[j].answers <= 1

\* BR-027: no two workers, live or started by recovery, work on one question.
SingleHolder ==
  \A v, w \in Workers :
    workers[v].pc \in Holding /\ workers[w].pc \in Holding
      /\ workers[v].job = workers[w].job => v = w

\* rules.is_lease_stale: "a live job is never reclaimed".  What the item says
\* of a job that somebody holds never looks stale to a claim or to the reaper.
LiveLeaseNeverStale ==
  \A j \in Jobs : Holders(j) # {} => ~ IsLeaseStale(jobs[j], Staleness)

\* claim_and_guard, point 3: nobody spends inference on, or is about to post
\* to, a question whose post was already attempted.
NoWorkAfterIntent ==
  \A w \in Workers : workers[w].pc \in {"pipeline", "marking"}
                       => ~ PostAttempted(JobOf(w))

\* recover_stale decides on what its scan saw and acts later.  It never tells
\* the asker of, or closes, a question that a worker holds by then.
StaleAbandonSparesHolders ==
  \A j \in Jobs :
    j \in reaper.abandon \/ (reaper.job = j /\ reaper.back = "recovering")
      => Holders(j) = {}

\* BR-019: what is billed is an exchange that was made and not billed before, by
\* the worker that made it, and a question counts as adopted only when answered
\* and billed: a claim that resumes after a crash bills nothing.
BilledOncePerExchange ==
  [][\A j \in Jobs :
       /\ ledger'[j].usage # ledger[j].usage =>
            /\ ledger'[j].usage = ledger[j].usage + 1
            /\ \E w \in Workers :
                 workers[w].job = j /\ workers[w].unbilled /\ ~ workers'[w].unbilled
       /\ ledger'[j].adopted /\ ~ ledger[j].adopted =>
            slack[j].answers = 1 /\ ledger[j].usage > 0]_vars

\* BR-021: recovery does not overtake intake.  Until the invocation that stored
\* a question has queued it or given up, nobody else has heard of it: no message
\* speaks of it, no worker and no reaper run has it, and no attempt was counted.
IntakeHasItAlone ==
  \A j \in Jobs : intake[j] = "registered" =>
    /\ jobs[j].status = "seen" /\ jobs[j].attempts = 0
    /\ j \notin dlq /\ \A m \in Msgs : msgs[m].job # j
    /\ \A w \in Workers : workers[w].job # j
    /\ reaper.job # j /\ j \notin reaper.requeue \cup reaper.abandon \cup reaper.drained

\* BR-022: retries are bounded.  Whoever sets to work on a question does so on an
\* attempt that was counted for it alone, within MaxAttempts, and the count never
\* goes down: so work on a question begins at most MaxAttempts times.
WorkWithinAttempts ==
  [][\A j \in Jobs :
       /\ jobs'[j].attempts >= jobs[j].attempts
       /\ \A w \in Workers : w \in Holders(j)' /\ w \notin Holders(j) =>
            jobs[j].attempts < jobs'[j].attempts /\ jobs'[j].attempts <= MaxAttempts]_vars

\* BR-011: a closed question is never put back in flight, and no attempt is
\* ever started on it.  (It may move from one terminal status to the other.)
ClosedStaysClosed ==
  [][\A j \in Jobs : IsTerminal(jobs[j])
       => IsTerminal(jobs'[j]) /\ jobs'[j].attempts = jobs[j].attempts]_vars

\* BR-011, BR-021: no question is dropped.  Once faults stop, a registered
\* job is closed, whichever step they hit.  (Where the scan's first page holds
\* the table and the reaper may enqueue; lifecycle_page and lifecycle_deployed
\* are the cases where not.)
EventuallyClosed ==
  \A j \in Jobs : jobs[j].status = "seen" ~> IsTerminal(jobs[j])

\* The lifecycle keeps the promise of AnswerOnce.
Phase(job) == IF job.status = "absent" THEN "absent"
              ELSE IF IsTerminal(job) THEN "closed" ELSE "open"
AnsweringWorkers(j) ==
  {w \in Workers : workers[w].job = j /\ workers[w].pc \in Answering}

Promise == INSTANCE AnswerOnce WITH
  Questions <- Jobs,
  Answerers <- Workers,
  phase <- [j \in Jobs |-> Phase(jobs[j])],
  owners <- [j \in Jobs |-> AnsweringWorkers(j)],
  committed <- [j \in Jobs |-> jobs[j].intent],
  answers <- [j \in Jobs |-> slack[j].answers]

KeepsPromise == Promise!Spec

-----------------------------------------------------------------------------
(* What the repository says and the code does not do.                        *)


\* rules.yaml, BR-019: usage is recorded after each exchange and "must not be
\* undercounted".  So a worker is done with an exchange only by billing it.
ExchangesAreBilled ==
  [][\A w \in Workers :
       workers[w].unbilled /\ ~ workers'[w].unbilled =>
         ledger'[workers[w].job].usage > ledger[workers[w].job].usage]_vars

\* rules.yaml, BR-027: after a post of "the Answer (or failure message)" a
\* re-attempt must not produce a second one.  So nobody tells the asker of an
\* answered question that it failed.
NoFailureAfterAnswer ==
  [][\A j \in Jobs : slack[j].answers > 0
                     => slack'[j].notices = slack[j].notices]_vars
=============================================================================
