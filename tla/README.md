# A verification development for the Slack DevOps agent

TLA+ models of the agent in `src/slack_devops_agent`, the TLC runs that check
them and the TLAPS proofs about them. Paths below are relative to that package
unless they start with `infra/` or `docs/`.

## 1. The system

A developer mentions the bot in a Slack channel. An **intake** Lambda filters the
message, stores a job in DynamoDB, acknowledges in the thread and puts a message on
an SQS queue. A **worker** Lambda takes the message, claims the job under a lease,
runs a pipeline (fetch the thread, bound its size, scan it for secrets, ask for
budget, look up AWS documentation, infer, compose), posts the answer and closes the
job. A scheduled **reaper** Lambda re-queues or abandons jobs whose worker was lost,
and drains the dead-letter queue. They share nothing but the job table, the queue
with its DLQ, the operational-data table, the config table and the Slack thread; each
call to one of these is a point where another Lambda, a kill or time may come between.

| Component | State | Operations | What is hard | What makes it correct |
|---|---|---|---|---|
| Job coordinator, claim gate (`components/jobs`, `domain/state_machine.py`) | one item per (channel, message ts): status, attempts, last transition, intent marker, answer ts | register, lease CAS, transition, mark, stamp, stale scan | reads and writes of many Lambdas; leases measured by clocks | one holder, one answer, closed stays closed, nothing dropped |
| Worker (`components/worker/orchestrator.py`) | per record: pipeline position, time budget, breakers | `process`, `_run_pipeline`, `_guarded`, `_fail` | crashes between any two calls; retries against timeouts; order of gates | at most one answer; only scanned input leaves; ends before it is killed |
| Heartbeat (`heartbeat.py`) | a thread and a stop event | start, beat, stop with bounded join | a beat in flight when the pipeline ends | no "still working" after the verdict |
| Reaper (`components/recovery`, `lambda_reaper.py`) | the scanned jobs, the drained messages | recover, abandon, drain | acts on a snapshot; one failing job ends the run | abandons nothing that somebody holds; leaves no gap |
| Queue (`components/queue`, `infra/…/messaging`) | messages, receive counts, visibility, DLQ | send, receive, delete, redrive | at-least-once delivery, redelivery | – |
| Intake (`components/intake`) | none of its own | `handle_mention`, `handle_reaction` | concurrent deliveries; partial failure between put and send | queued once and behind its job; no answer to bots; lost only to faults |
| Breaker, backoff, budget (`resilience`) | failure count, time of opening; attempt; start time | call, retry, check | half-open probe; hints that nothing caps | refuses in an outage and only then; recovers |
| Scanner, inference, MCP, Slack adapters | none | one request each | which error is retried, refused or thrown | – |
| Operational data (`components/opdata`) | usage counter per period, adoption set, feedback rows | within_budget, record_usage, record_adoption, record_feedback, tally | check and bill are a pipeline apart; append-only rows out of order | bounded overshoot, no lost update, one stance per reactor |
| Config store (`components/config`) | allowlist, guardrail and policy items | reads | an operator changes them at any time | kill switch works |

The hazards, each at the line where it bites and with the properties aimed at it, are
listed in `PROJECT.json`.

## 2. The modules

| Module | Models | Extends |
|---|---|---|
| `JobRules` | the pure rules: statuses, allowed transitions, staleness, attempts | – |
| `JobLifecycle` | intake, queue and DLQ, workers, reaper, ledger over the job table | `JobRules` |
| `AnswerOnce` | the abstract promise about a question: taken by one, committed, posted once, closed | – |
| `MCJobLifecycle` | the symmetry set for TLC | `JobLifecycle` |
| `JobLifecycleTypes`, `JobLifecycleProofs` | theorems on the lifecycle, the refinement among them | `JobLifecycle` |
| `BreakerRules` | the circuit breaker as operations on a record | – |
| `CircuitBreaker` | the breaker in use by one caller | `BreakerRules` |
| `CircuitBreakerProofs` | theorems on it | `CircuitBreaker` |
| `WorkerPipeline` | inside a worker: pipeline, retries, breakers, time budget, heartbeat thread, Lambda timeout | `BreakerRules` |
| `OneVerdict` | the abstract promise of a worker about a record: one ending, told once or not at all, after the last heartbeat | – |
| `WorkerPipelineProofs` | theorems on it, the refinement among them | `WorkerPipeline` |
| `QueueOnce` | the abstract promise of intake about a question: stored, then queued once or given up | – |
| `Intake` | several deliveries of one message at once: parsing, bots, allowlist, attachment, put, ack, enqueue | – |
| `IntakeProofs` | theorems on it | `Intake` |
| `Feedback` | reactions to one answer: the stamp and its index, deliveries late, twice and out of order, rows, tally | – |
| `FeedbackProofs` | theorems on it | `Feedback` |
| `SlackEvents` | the intake Lambda behind its dispatcher: both kinds of events, and the answer between them | `Intake`, `Feedback` |
| `SlackEventsProofs` | the composition implements both | `SlackEvents`, `IntakeProofs`, `FeedbackProofs` |
| `Guardrail` | workers that check, spend and bill; an operator; the turn of the period | – |
| `GuardrailProofs` | theorems on it | `Guardrail` |

How they compose. `JobLifecycle` is the whole system with two of its parts folded
into steps: its `PipelineAnswers` and `PipelineFails` stand for a run of
`WorkerPipeline`, and its `RegisterOrGet`, `IntakeEnqueue`, `IntakeAbort` for all the
deliveries of a message together: they are `Store`, `Queue` and `GiveUp` of `QueueOnce`, which
`Intake` implements under its mapping `Promise`, so that a redelivery is never an action of the
lifecycle.
`WorkerPipeline` uses the operators of `BreakerRules` that `CircuitBreaker` is checked
and proved about. `AnswerOnce` is instantiated in `JobLifecycle`, and `OneVerdict` in
`WorkerPipeline`, under a refinement mapping (`Promise`), checked as a property and proved:
`OneVerdict` is all that the lifecycle supposes of a run of the pipeline (it ends with an
answer, with a cause, by raising, or is lost). `SlackEvents` joins `Intake` and
`Feedback` as `dispatch_slack_event` does; a step of one leaves the other's variables
alone, and the worker's answer to what was queued is what lets reactions begin.

### State and actions against the code

* **`JobLifecycle`** has one action for each call that leaves a process. `claim_and_guard`
  is `ClaimGet` (the completion check), `LeaseRead` and `LeaseWrite` (the read and the
  conditional update of `acquire_lease`); the tail of `process` is `MarkPostIntent`,
  `PostAnswer`, `StampAnswerTs`, `RecordUsage`, `RecordAdoption`, then `transition` as
  its read and its unconditional write. `WorkerAbort` may hit between any two: it stands
  for a kill and for a call that raises, both of which leave the message in flight.
  A normal return, a lost lease among them, deletes the message (`Finish`). The reaper is
  its scan, the loop over what the scan saw, and the drain that deletes before it
  abandons. A timestamp is kept as its **age**, which saturates at `Horizon`, beyond which
  no comparison in the code changes; equality of `last_transition_at` (`:prev`) is
  equality of ages, with the writes of one tick taken as one timestamp.
  `get_item` and `scan` are eventually consistent: `WorkerReadLags` and `ReaperReadLags` are the
  reads of an old image, each where it leads elsewhere than the item itself would. A claim
  finds no item and returns, loses the lease to itself, or goes on with a closed job
  (and then loses the lease: the update is conditional on the item, not on the image);
  `transition` raises on an item it cannot see or passes a job closed since; the scan misses
  jobs, and re-queues or abandons others as they were before their last lease or close
  (`LaggingAttempts`: what such an image may have counted).
* **`WorkerPipeline`** has a main thread (`run`) and the heartbeat thread (`beat`), and
  a `Tick` that passes only where they wait. `GuardedCall` is `budget.check`, the breaker
  and the start of a request; `CallSucceeds`, `CallRetries`, `RetriesExhausted` and
  `CallRaises` are how a request ends; `SleepEnds` follows a full-jitter delay of
  anything up to `LongestDelay`. `Killed` may come at any moment (a lost environment) and
  must come at the Lambda timeout, past which `Tick` does not go. The input is a set of parts (question, context, file),
  some of them flagged, and a size class. A new record begins with new breakers.
  `streak` and `verdict` are history that only properties read.
* **`CircuitBreaker`** keeps next to the breaker's fields what its caller sees (`streak`,
  `quiet`), so that its property does not mention the fields it is about.
* **`Intake`**'s deliveries are invocations of `lambda_handler`; `Abort` is any raising
  call or kill after the filter, and always ends in "200" or in another delivery. The message
  is what `parse_mention` and `pick_reviewable_file` make of every author and list of files,
  the allowlist what `get_allowlist` makes of every item, malformed ones included.
* **`Feedback`** has Slack's side (`React`, `Redeliver`) and an invocation's two calls:
  `ResolveAnswer` (the query of the index, which has the answer only some time after the
  stamp) and `RecordFeedback` (the clock and the put, under a sort key whose last part is
  random). `LatestRow`, `Present`, `Wins` and `AggregateFeedback` are
  `net_reactor_signal` and `aggregate_feedback` over a query of the rows; the property
  compares them with `Stance`, defined from what happened in Slack alone. `events` and the
  `event` of a row are history.
* **`Guardrail`** separates the read of the guardrail item, the read of the counter and
  the billing. An item that does not validate makes the read raise, which leaves the worker
  with nothing spent. `billed` and `limited` are history.

## 3. The runs

| Run | Question | Result |
|---|---|---|
| `lifecycle_safety` | one question, two workers, two messages, three faults, reads of an old image among them: types, `AtMostOneAnswer`, `SingleHolder`, `LiveLeaseNeverStale`, `NoWorkAfterIntent`, `StaleAbandonSparesHolders`, `BilledOncePerExchange`, `ClosedStaysClosed`, `IntakeHasItAlone`, `WorkWithinAttempts`, refinement `KeepsPromise` | hold |
| `lifecycle_liveness` | is a registered question always closed in the end, with three faults, which reach the DLQ drain and the abandoning of exhausted jobs? | holds |
| `lifecycle_deployed` | and with the reaper's role and settings as Terraform has them? (BR-021) | violated |
| `lifecycle_page` | is it closed where the scan's first page does not reach its item? (BR-021) | violated |
| `lifecycle_verdict` | is no failure message posted under an answer? (BR-027) | violated |
| `lifecycle_attempts` | does every attempt of `MAX_ATTEMPTS` run the pipeline? (NFR-19) | violated |
| `lifecycle_unbilled` | is every exchange billed? (BR-019) | violated |
| `pipeline_gates` | what leaves, what is refused unspent, the trim notice, that an answer once composed is valid and so goes on to its post, the heartbeat and the end of a record, with consistent timeouts; refinement of `OneVerdict` (`GivesOneVerdict`) | hold |
| `pipeline_outage` | does an outage open a breaker? (NFR-16) | violated |
| `breaker` | refused exactly in an outage, and recovered from | hold |
| `slack_events` | a message: queued once, behind the job; nothing for bots; lost only to faults; refinement of `QueueOnce` (`IntakeIsOver`). The reactions to its answer: the tally follows Slack, no vote is passed over, rows are for good | hold |
| `guardrail` | overshoot bounded, no update lost, the kill switch stops spending (`KillSwitchStops`, in the end; `SwitchHolds`, for good once it has) | hold |

The six violations are disagreements between the repository's documents and its code;
each is quoted under `findings` in `PROJECT.json`. What they show, in short:

* `find_stale_jobs` reads one page of a scan, so a job whose item lies behind it and whose
  message was lost stays open for good.
* The reaper may not enqueue: its role grants no `sqs:SendMessage` (which
  `infrastructure-specification.md:247` asks for) and no `WORK_QUEUE_URL` is set. Where it would
  re-queue a job it raises, and so ends each run before the jobs after it and the DLQ drain.
  What the other lifecycle runs say of recovery holds for a reaper that may (`ReaperMaySend`).
* The reaper does not look at the intent marker and may contradict a posted answer.
* Of `MAX_ATTEMPTS = 3` attempts two reach the pipeline, because `attempts_exhausted` is asked
  after the lease has counted the attempt; the third one only posts the failure.
* Only posted answers are billed. An exchange that ends in a failure, or whose worker is lost
  before `record_usage`, is not. The run needs no fault for it; `BilledOncePerExchange` is the
  other half of BR-019, which does hold: nothing is billed that was not exchanged, nor twice.
* Breakers never open, because they are born with each record.

Disagreements met while modelling that no run is spent on:

* The time budget does not bound the retries (`nfr.yaml:93`, "All NFR-15 retries occur WITHIN this budget."):
  it is looked at where a guarded call begins. An inference begun within the budget of 75 s may take its
  70 s, past the Lambda timeout of 85 s, which kills the worker with the asker untold. `NeverTimedOut` holds of timeouts
  that leave room for it (`EnoughTime`).
* A redelivery comes at visibility = staleness after the receive, too early for a lease that
  was written later, unless the claim was made within the same instant: it loses the lease to the dead
  worker and deletes the message, where `infrastructure-specification.md:162` has it reclaim "on the first
  redelivery". What is left is the stale scan; with a reaper that may not enqueue, nothing.
* The status of a closed job may still flip from one terminal status to the other, because `transition` does not condition
  its write, where `domain/enums.py:21` says "no transition leaves them". `ClosedStaysClosed` is what holds.
* A crash between the intent marker and the post leaves a question `resolved` without an
  answer. BR-027 accepts this for the sake of at most one answer.
* `config/settings` and Terraform choose the billing period that `period_key` uses; the
  guardrail item's `period_definition` is read and used by nobody (`components/opdata/service.py:49`).
* A positive per-request limit is compared with nothing (`domain/rules.py:116`), as its
  docstring says; with that limit alone no period is bounded.
* When the question is not on the fetched page of replies, the last message there is
  answered (`components/worker/orchestrator.py:314`).
* The notice about trimmed input says that it was shortened, not that the attached file is left
  out with the rest (`components/worker/orchestrator.py:303`).
* Thumbs with a skin tone carry other emoji names and are not counted
  (`components/intake/parsing.py:17`); two names of one thumb are one signal, so that taking one
  back takes both. `TallyFollowsSlack` is stated for people who keep to one name.

### Bounds, and why they are enough

* *Lifecycle.* One job: items, threads and leases of different jobs share nothing but
  workers, queue slots and the reaper's loop, and workers hold one job each. Two workers
  give live against recovery, three faults give a crash, a second crash of the recovering
  worker and a duplicate message. `MaxAttempts = 3`, `MaxReceive = 2` let both the
  attempt bound and the DLQ be reached. `Staleness = 2`, `LambdaTimeout = 1`,
  `Visibility = 2` keep the order of the deployed 120 s, 85 s, 120 s. Workers and messages
  are symmetric. The runs of `EventuallyClosed` use no symmetry and `MaxAttempts = 2`. `lifecycle_liveness` has one
  worker, for the size of the graph, and three faults: they bring an open job to the DLQ and to an exhausted
  stale scan, with one to spare that ends the reaper run that is at it, after the drain has deleted its messages
  or by an illegal transition. A claim that loses the lease, which deletes its message, comes about with one worker too: the
  lease is that of its own earlier, lost invocation. `lifecycle_page` and `lifecycle_deployed` have two workers
  and one fault, an intake lost before its send being enough; `lifecycle_attempts`
  has two faults, the two lost workers; `lifecycle_unbilled` none. `RoomFor` bounds the messages that exist at once; it is asked where
  a producer starts, so the bound never stops one half way.
* *Pipeline.* `pipeline_gates` has timeouts in which every wait can be both shorter and
  longer than the heartbeat interval, and the smallest `LambdaTimeout` that no
  record reaches: with one tick less `NeverTimedOut` fails, so the run is tight.
  `pipeline_outage` has the real
  threshold 5.
* *Breaker.* The real threshold 5 and a reset window of 6 ticks of 5 s; failure count and
  age are kept only as far as the code's comparisons reach.
* *Lagging reads.* Each is charged as a fault. `ReadsLag` is `TRUE` in the two passing runs
  and `FALSE` in the five violations of the lifecycle, so that each of these shows its own cause and not an old image.
* *Scan page.* `ScanPage` is the set of jobs whose items the first page reaches: all of them in
  the other runs, none in `lifecycle_page`.
* *Slack events.* Three deliveries of a message and as many faults, so that every one may
  fail; all authors, lists of up to two files and allowlist items. Two people with
  both thumbs and an emoji that means nothing, `MaxEvents = 3` reactions (a thumb given, the
  other one, one taken back), `MaxCalls = 4` deliveries of them (one of them twice), two
  random key parts for rows of one instant. `Settled` lets reactions begin only after one
  uneventful message: they read nothing the others leave behind, and the theorems do without
  it. `FewEarly` bounds the reactions before the index has the
  answer to one. People are symmetric; `RowsAreForever` and the refinement, properties of single
  steps, are the only ones that are not invariants.
* *Guardrail.* Three workers over the turn of a period, requests of 1 or 2 tokens, limits
  0 and 1, an item with either limit, both, none or no item at all (`DefaultLimit`), changed
  at will. `MaxBilled = 9` caps what is billed in all, since without a period limit nothing
  does: one period to its full overshoot (less than 1 + 2 × 3) and half as much in the next.

### Fairness

`JobLifecycle`: a running Lambda takes its next step (or is aborted, which the fault bound
allows finitely often), SQS delivers a visible message and applies its redrive policy,
EventBridge keeps starting the reaper and it works through its loop, time passes. Nothing
makes a user ask or a fault happen. `CircuitBreaker`: the caller keeps calling, a call
returns, time passes; the dependency need never recover. `Guardrail`: a worker takes its
next step; nothing forces the operator or the calendar. The other modules are checked for
safety and state no fairness.

### Deadlock

Checked everywhere except in `SlackEvents`, where Slack stops delivering, people stop
reacting and the system is done.

## 4. The proofs

For every set of jobs, workers and messages and every timeout that meets the named
assumptions.

* **Lifecycle** (`JobLifecycleTypes`, `JobLifecycleProofs`): type correctness, every
  safety and action property of `lifecycle_safety`, and that the lifecycle implements `AnswerOnce`;
  all of it whether or not the reaper may enqueue.
  None of these is inductive alone. The invariant `IInv` adds
  `WorkersInTime` (a running worker is not older than the Lambda timeout, and the clock
  and item it read for its claim are not newer than that), `LeaseOfHolder` (the item of a
  held question is in progress or closed, and no older than its holder) and
  `AnswerBehindIntent` (an answer is in the thread only behind a marker, and a worker about
  to post found none). From `LeaseOfHolder` and `LambdaTimeout < Staleness` a lease that is
  held is not stale, so no claim's condition holds on it (`HeldIsNotFree`); hence one
  holder, hence one marker, one post. The proof goes action by action; most actions leave
  holders and markers alone and share one lemma (`QuietStep`, `MovesSafe`).
  `JInv` extends it for the rest: `Present` (whatever has a worker past its claim or a
  place in the reaper's list has an item), `OwesTheBill` (a worker on its way from the answer to the billing has
  an exchange to bill) and `BilledByHolder` (a bill belongs to the
  worker that posted and is not written twice, because a repeated claim never passes the
  marker), which give `BilledOncePerExchange` (`BillSettles`), and `ExhaustedForGood` (what recovery abandons had no attempt left in the image it
  read, however old, and attempts never go down; what somebody holds was leased with one to
  spare, and nobody else can lease it meanwhile: so the two never meet). `WorkWithinAttempts`
  follows from it (`WorkIsCounted`): who becomes a holder has just leased, and the lease counted.
  `IntakeHasItAlone` is not inductive either; `Fresh` adds that an item still with intake is
  no older than `IntakeTimeout`, which is below `Staleness`, so that no scan finds it stale
  whichever image it reads, and that before the put there is no item and nobody has heard of one. The refinement takes every action to a step of the
  promise (`RegisteringAsks`, `LeaseTakes`, `MarkCommits`, `PostPosts`, `ClosingCloses`,
  `LeavingLoses`) or to a stutter.
  Assumptions: `TimingAssumption`, `QueueAssumption`, `BoundsAssumption`, `NamesAssumption`,
  `PageAssumption`.
* **Pipeline** (`WorkerPipelineProofs`): type correctness and every property of
  `pipeline_gates`. `Placed` says at which stage each outcome can arise, `Handled` what was held, scanned and
  sent at each stage (nothing is sent before the budget gate; from there on all that is held
  was scanned and is clean), `Beating` that a post of the heartbeat is younger than the
  join that waits for it, for which `JoinAssumption` is needed and strict. `NeverTimedOut` is
  proved under `EnoughTime`: the Lambda timeout leaves room for the budget, the whole retry
  cycle of the slowest call begun within it, and two posts. `pipeline_gates` meets it with equality; the
  deployed values do not meet it. For the refinement of `OneVerdict`
  three facts are added (`Kept`): the stop is set only once the pipeline is left, so that the
  heartbeat goes on until then; from the call to the MCP server on something was sent; what is handed
  back to the queue is not posted. Steps then fall into four kinds: they ask (`WorkIsAsking`), conclude
  (`LeavingConcludes`), tell or give up (`RestGivesUp`), or are not seen (`Unseen`).
* **Intake** (`IntakeProofs`): type correctness, its three properties and the refinement of `QueueOnce`, for any number of
  deliveries. `OneWinner`: at most one delivery is past the put that created the item, and only it acks
  and queues; `BotsStopEarly`: no delivery of a bot's message is past the filter; `FaultsOnly`:
  while there is no job, no more deliveries have ended than there were faults. The winner of `OneWinner`
  is also what the refinement needs: when it queues or ends, nobody is left on the way to the queue
  (`LastOneLeaves`).
* **Feedback** (`FeedbackProofs`): type correctness, `SeenOnceIndexed`, `RowsAreForever`, and
  `TallyFollowsSlack` for any number of people, reactions, names and repeated deliveries. The invariant
  says that a row is that of its event (`RowsTell`) and that an invocation that found
  the answer has a vote to record (`CallsTell`). The tally then needs no induction: under
  `InStep` and `OneNameEach` the latest row of a signal is a row of the last event of it.
* **Slack events** (`SlackEventsProofs`): the composition implements both halves
  (`DispatchImplementsBoth`), so their theorems hold of it.
* **Breaker** (`CircuitBreakerProofs`): type correctness and `RefusesExactlyInOutage`, for
  any threshold and window. The invariant says that the fields are the caller's history:
  the count is the streak, and an open breaker was opened by the last failure.
* **Guardrail** (`GuardrailProofs`): type correctness and `OvershootBounded`, for any finite
  set of workers. The invariant counts `MaxTokens` for each spending worker as already
  gone (`BoundedExposure`) and bounds counter plus exposure; a worker joins the spenders only
  below the limit, billing moves tokens from exposure to the counter, a new period starts
  from nothing with everyone possibly spending into it. All of it as long as no item
  without a period limit was ever in force (`limited`). `NoUpdateLost` sums the counters by a recursive
  function. That an ADD raises the sum by what it adds (`TotalsAdd`) is an induction over the
  periods; it is carried out as a least-number argument (`LeastNumber`: take the first period at which it fails),
  with `RunningSumsExist` for the recursion itself. `SwitchHolds` rests on
  that an item which stops admits nobody, whatever the period's counter says
  (`StopAdmitsNobody`, `NotAdmittedNotWithin`).

### Only model-checked

Liveness (`EventuallyClosed`, `RecoversAfterOutage`, `KillSwitchStops`) and ENABLED are out
of the prover's reach. Every other property of a passing run is proved. The library's induction
theorems cannot be instantiated (they take an operator as a parameter); the one induction over data that was
needed, for `NoUpdateLost`, is a least-number argument instead.

## 5. Assumptions of the models

* One clock: the skew between Lambdas is below a tick, and timestamps of one tick are equal.
* A lagging read lacks at most the last lease and the last close of a job, or its creation;
  conditional updates see the item itself.
* The reaper may enqueue (`ReaperMaySend`), except in `lifecycle_deployed`; the safety theorems do
  without it.
* A worker killed inside its pipeline may have exchanged something: the model lets that go unseen, as the
  code does, and marks an exchange (`unbilled`) where the pipeline ends with a reply.
* Two rows of feedback never get the same key: of those recorded at one instant, each has a uuid of its own.
* One reaper run at a time (a schedule of 1 minute, runs far shorter).
* Messages of one job in the DLQ are one element of a set.
* A heartbeat post in flight ends within the join (`JoinAssumption`: Slack's client gives
  up after 30 s, the join waits for the 45 s interval and 1 s more). The client's timeouts bound a
  request as a whole.
* `OvershootBounded` supposes that the guardrail item always sets the period limit, or is
  absent. With only the per-request limit set nothing bounds a period, by design.
* The page a scan returns is the same one each time (`ScanPage` is a constant).
* A query of feedback rows returns them all; one answer has far fewer than a page holds.
* Times at which feedback is recorded never go backwards between invocations; two may be
  equal.

## 6. Not modelled, and why

The wording and rendering of answers, the parsing of their sections, the system prompt, the
scanner's patterns and the keywords of `classify_answer_type` are text: the models keep which type
an answer may get and whether it validates. Metrics and logging change no state; signature
verification and URL handshake are one early return each; the ports are protocols whose
implementations are modelled; `get_usage_policy` has no caller; Terraform beyond timeouts,
queues and redrive is provisioning; the Kiro gateway is a third-party container.

The exact size of an input is left out: a question just within the limit may exceed it by
the few tokens of its prefix. So is the one read that lags without consequence: a
duplicate mention whose `get` finds nothing raises after the item was stored, where it
would have returned.

## 7. Plan

Done, in this order: `JobLifecycle` with its abstraction, runs and proofs; the breaker;
the pipeline; intake; the guardrail; feedback and its composition with intake; the proofs of
the refinement, of the ledger, and of the pipeline, intake and feedback; reads of the job table
that lag; intake against recovery, the bound on attempts, the kill switch and the sum of bills
proved; `OneVerdict` and `QueueOnce` and their refinements.

What could come next, by importance:

1. **Two jobs** in the lifecycle for the reaper's loop, where one failing job ends the run
   for the next; the state space is beyond a run of five minutes as the model stands.
2. **Breakers that outlive a record**, should the code come to keep them: `WorkerPipeline` has
   them reset by one assignment.
