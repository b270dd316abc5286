--------------------------- MODULE WorkerPipeline ---------------------------
(***************************************************************************)
(* One worker Lambda at work on one record after another: what happens     *)
(* inside JobLifecycle's "pipeline" step.  The main thread fetches the     *)
(* thread, bounds and scans what it assembled, asks for budget, grounds    *)
(* and infers; each external call runs under the time budget, a breaker    *)
(* and bounded retries.  A second thread posts heartbeats until it is      *)
(* stopped and joined.  Lambda kills both at LambdaTimeout, or earlier.    *)
(*                                                                         *)
(* Time is discrete and passes only in calls, sleeps, posts and waits;     *)
(* the claim before the pipeline and the DynamoDB calls take none.  Each   *)
(* wait has a longest duration, and Tick never runs past it.               *)
(***************************************************************************)
EXTENDS BreakerRules

CONSTANTS
  SlackTimeout, McpTimeout, InferenceTimeout,  \* of one HTTP request
  Budget,          \* REQUEST_TIME_BUDGET_SECONDS
  LambdaTimeout,   \* the function's hard timeout
  MaxRetries,      \* RETRY_MAX_ATTEMPTS
  RetryBase,       \* RETRY_BASE_MS
  RetryCap,        \* RETRY_CAP_MS
  RetryAfters,     \* what a Retry-After header may ask for; 0 is no header
  Interval,        \* HEARTBEAT_SECONDS
  JoinMargin       \* what stop() adds to the interval: 1 s

ASSUME TimesAssumption ==
  /\ {SlackTimeout, McpTimeout, InferenceTimeout, Budget, LambdaTimeout,
      MaxRetries, RetryBase, RetryCap, Interval, JoinMargin} \subseteq Nat
  /\ RetryAfters \subseteq Nat /\ 0 \in RetryAfters

\* A heartbeat post in flight ends before the join does: the Slack client's 30 s
\* against the interval's 45 s and 1 s more.
ASSUME JoinAssumption == SlackTimeout < Interval + JoinMargin

VARIABLES
  run,       \* the main thread
  input,     \* the record: what the fetch brings, what the scanner flags, its size
  holding,   \* parts in the assembled input
  scanned,   \* parts the safety scan has seen
  sent,      \* parts that left for the MCP server or the inference backend
  told,      \* the trim notice was posted
  verdict,   \* what the asker was told in the end
  beat,      \* the heartbeat thread
  stop,      \* its stop event
  breakers,  \* Worker._breakers
  streak     \* failed calls in a row, per dependency, over all records

vars == <<run, input, holding, scanned, sent, told, verdict, beat, stop,
          breakers, streak>>

Deps == {"slack", "mcp", "inference"}
RequestTimeout == [slack |-> SlackTimeout, mcp |-> McpTimeout,
                   inference |-> InferenceTimeout]
Stages == Deps \cup {"size", "scan", "budget", "compose"}
Parts == {"question", "last", "context", "file"}
Causes == {"dependency", "timeout", "oversize", "safety-refuse", "budget-deny"}
Outcomes == Causes \cup {"none", "answer", "raised"}

NoRun == [pc |-> "idle", stage |-> "slack", attempt |-> 0, age |-> 0,
          spent |-> 0, hint |-> 0, outcome |-> "none"]
NoBeat == [pc |-> "off", spent |-> 0]

\* fetch_thread reads one page.  In a long thread the question is not on it;
\* "last" is then the last message of the page, and "context" the others.
Fetched == {{"question", "context"}, {"last", "context"}}
Inputs == {i \in [parts : Fetched \cup {f \cup {"file"} : f \in Fetched},
                  flagged : SUBSET Parts, size : {"fits", "trimmed", "overflows"}] :
             i.flagged \subseteq i.parts}

\* _extract_question.
Extracted == IF "question" \in input.parts THEN "question" ELSE "last"

AnswerTypes == {"architecture-review", "solution-design", "cost", "troubleshooting",
                "factual"}
RequiresTradeOffs(type) == type \in {"architecture-review", "solution-design"}

Init ==
  /\ run = NoRun
  /\ input \in Inputs
  /\ holding = {} /\ scanned = {} /\ sent = {}
  /\ told = FALSE
  /\ verdict = "none"
  /\ beat = NoBeat
  /\ stop = FALSE
  /\ breakers = [d \in Deps |-> NewBreaker]
  /\ streak = [d \in Deps |-> 0]

Runs == [pc : {"idle", "at", "calling", "sleeping", "noticing", "stopping",
               "joining", "posting", "killed"},
         stage : Stages, attempt : 0 .. MaxRetries, age : 0 .. LambdaTimeout,
         spent : Nat, hint : RetryAfters, outcome : Outcomes]
Beats == [pc : {"off", "waiting", "posting"}, spent : Nat]

TypeOK ==
  /\ run \in Runs
  /\ input \in Inputs
  /\ {holding, scanned, sent} \subseteq SUBSET Parts
  /\ told \in BOOLEAN /\ stop \in BOOLEAN
  /\ verdict \in {"none", "answer", "failure"}
  /\ beat \in Beats
  /\ breakers \in [Deps -> Breakers]
  /\ streak \in [Deps -> 0 .. Threshold]

At(pc) == run.pc = pc
AtStage(stage) == run.pc = "at" /\ run.stage = stage

-----------------------------------------------------------------------------
(* The order of the pipeline.                                                *)

\* Mutants: the scan comes after the calls; grounding comes before the budget.
NextStageScanLast(stage) ==
  CASE stage = "slack" -> "size"      [] stage = "size" -> "budget"
    [] stage = "budget" -> "mcp"      [] stage = "mcp" -> "inference"
    [] stage = "inference" -> "scan"  [] OTHER -> "compose"
NextStageSpendFirst(stage) ==
  CASE stage = "slack" -> "size"   [] stage = "size" -> "scan"
    [] stage = "scan" -> "mcp"     [] stage = "mcp" -> "budget"
    [] stage = "budget" -> "inference"  [] OTHER -> "compose"

\* _run_pipeline and _agent_loop.
NextStage(stage) ==
  CASE stage = "slack" -> "size"   [] stage = "size" -> "scan"
    [] stage = "scan" -> "budget"  [] stage = "budget" -> "mcp"
    [] stage = "mcp" -> "inference"  [] OTHER -> "compose"

Advanced == [run EXCEPT !.pc = "at", !.stage = NextStage(@), !.attempt = 0,
                        !.spent = 0, !.hint = 0]

\* The pipeline is left, by its result or by an exception: the heartbeat's
\* __exit__ comes next in either case.
Leaving(outcome) == [run EXCEPT !.pc = "stopping", !.outcome = outcome,
                                !.spent = 0, !.hint = 0]

-----------------------------------------------------------------------------
(* The start of a record: a new Worker, its heartbeat and its time budget.   *)

Begin ==
  /\ At("idle")
  /\ run' = [NoRun EXCEPT !.pc = "at"]
  /\ input' \in Inputs
  /\ holding' = {} /\ scanned' = {} /\ sent' = {}
  /\ told' = FALSE
  /\ verdict' = "none"
  /\ beat' = [NoBeat EXCEPT !.pc = "waiting"]
  /\ stop' = FALSE
  /\ breakers' = [d \in Deps |-> NewBreaker]
  /\ UNCHANGED streak

-----------------------------------------------------------------------------
(* _guarded: one external call under the budget, the breaker and retries.    *)

\* Mutant: the budget is only looked at after the fetch.
BudgetSpentAtFetch(age) == age >= Budget /\ run.stage = "slack"

\* TimeBudget.check.
BudgetSpent(age) == age >= Budget

GuardedCall ==
  /\ At("at") /\ run.stage \in Deps
  /\ breakers' = IF BudgetSpent(run.age) THEN breakers
                 ELSE [breakers EXCEPT ![run.stage] = Observed(@)]
  /\ run' = IF BudgetSpent(run.age) THEN Leaving("timeout")
            ELSE IF Refuses(breakers[run.stage]) THEN Leaving("dependency")
            ELSE [run EXCEPT !.pc = "calling", !.spent = 0]
  /\ sent' = IF BudgetSpent(run.age) \/ Refuses(breakers[run.stage]) THEN sent
             ELSE CASE run.stage = "mcp" -> sent \cup {Extracted}
                    [] run.stage = "inference" -> sent \cup holding
                    [] OTHER -> sent
  /\ UNCHANGED <<input, holding, scanned, told, verdict, beat, stop, streak>>

\* An answer: for the MCP server, a hard 4xx too, as "no source".
CallSucceeds ==
  /\ At("calling")
  /\ breakers' = [breakers EXCEPT ![run.stage] = Succeeded(@)]
  /\ streak' = [streak EXCEPT ![run.stage] = 0]
  /\ run' = Advanced
  /\ holding' = IF run.stage = "slack" THEN input.parts ELSE holding
  /\ UNCHANGED <<input, scanned, sent, told, verdict, beat, stop>>

\* The guarded call has failed for good.
GivesUp(outcome) ==
  /\ breakers' = [breakers EXCEPT ![run.stage] = Failed(@)]
  /\ streak' = [streak EXCEPT ![run.stage] = AtMost(@ + 1, Threshold)]
  /\ run' = Leaving(outcome)
  /\ UNCHANGED <<input, holding, scanned, sent, told, verdict, beat, stop>>

\* Mutant: the last attempt is not recognised.
CallRetriesForever ==
  /\ At("calling")
  /\ \E hint \in RetryAfters :
       run' = [run EXCEPT !.pc = "sleeping", !.spent = 0, !.hint = hint]
  /\ UNCHANGED <<input, holding, scanned, sent, told, verdict, beat, stop,
                 breakers, streak>>

\* A transport error, a 429 or a 5xx, with retries left: sleep first.
CallRetries ==
  /\ At("calling")
  /\ run.attempt < MaxRetries
  /\ \E hint \in RetryAfters :
       run' = [run EXCEPT !.pc = "sleeping", !.spent = 0, !.hint = hint]
  /\ UNCHANGED <<input, holding, scanned, sent, told, verdict, beat, stop,
                 breakers, streak>>

RetriesExhausted ==
  /\ At("calling")
  /\ run.attempt = MaxRetries
  /\ GivesUp("dependency")

\* Any other error: a typed inference failure is a cause; the rest (a Slack
\* error that is no 429, a body that does not parse) leaves the worker.
CallRaises ==
  /\ At("calling")
  /\ \/ run.stage = "inference" /\ GivesUp("dependency")
     \/ GivesUp("raised")

\* BackoffPolicy.delay_seconds: full jitter up to the capped exponential, and
\* never less than the server's hint, which nothing caps.
LongestDelay(attempt, hint) ==
  LET jitter == AtMost(RetryBase * 2^attempt, RetryCap)
  IN  IF hint > jitter THEN hint ELSE jitter

SleepEnds ==
  /\ At("sleeping")
  /\ run.spent >= run.hint
  /\ run' = [run EXCEPT !.pc = "calling", !.attempt = @ + 1, !.spent = 0, !.hint = 0]
  /\ UNCHANGED <<input, holding, scanned, sent, told, verdict, beat, stop,
                 breakers, streak>>

-----------------------------------------------------------------------------
(* The gates between the fetch and the calls.                                *)

\* _enforce_size: reject, trim (to the question alone: the file goes too), or
\* pass.
SizeGate ==
  /\ AtStage("size")
  /\ run' = CASE input.size = "fits"      -> Advanced
              [] input.size = "overflows" -> Leaving("oversize")
              [] OTHER                    -> [run EXCEPT !.pc = "noticing"]
  /\ UNCHANGED <<input, holding, scanned, sent, told, verdict, beat, stop,
                 breakers, streak>>

\* Trim, with its notice posted.
TrimNotice ==
  /\ At("noticing")
  /\ told' = TRUE
  /\ holding' = {Extracted}
  /\ run' = Advanced
  /\ UNCHANGED <<input, scanned, sent, verdict, beat, stop, breakers, streak>>

\* Mutant: the notice is best-effort, like the ack and the failure message.
TrimNoticeSwallowed ==
  /\ At("noticing")
  /\ holding' = {Extracted}
  /\ run' = Advanced
  /\ UNCHANGED <<input, scanned, sent, told, verdict, beat, stop, breakers, streak>>

\* The notice is not guarded: an error of its post leaves the worker.
TrimNoticeFails ==
  /\ At("noticing")
  /\ run' = Leaving("raised")
  /\ UNCHANGED <<input, holding, scanned, sent, told, verdict, beat, stop,
                 breakers, streak>>

\* SecretScanner refuses what a rule matches, and on its own errors; it never
\* answers "warn".
ScanGate ==
  /\ AtStage("scan")
  /\ scanned' = holding
  /\ \/ run' = Leaving("safety-refuse")
     \/ holding \cap input.flagged = {} /\ run' = Advanced
  /\ UNCHANGED <<input, holding, sent, told, verdict, beat, stop, breakers, streak>>

\* within_budget(get_guardrail()); either read may raise.
BudgetGate ==
  /\ AtStage("budget")
  /\ run' \in {Advanced, Leaving("budget-deny"), Leaving("raised")}
  /\ UNCHANGED <<input, holding, scanned, sent, told, verdict, beat, stop,
                 breakers, streak>>

\* Mutant: the type stays what the question's words say.
ComposedTypeAsClassified(type, tradeOffs) == type

\* A structured type without trade-offs is downgraded.
ComposedType(type, tradeOffs) ==
  IF RequiresTradeOffs(type) /\ ~ tradeOffs THEN "factual" ELSE type

\* Answer's own validator, BR-015 and BR-016.
Validates(answer) ==
  /\ answer.grounded = answer.cited
  /\ RequiresTradeOffs(answer.type) => answer.tradeOffs

\* The question's words, the model's sections and the sources may be anything;
\* an answer that does not validate leaves the worker.
Compose ==
  /\ AtStage("compose")
  /\ \E type \in AnswerTypes, tradeOffs \in BOOLEAN, sources \in BOOLEAN :
       run' = IF Validates([type |-> ComposedType(type, tradeOffs),
                            tradeOffs |-> tradeOffs, cited |-> sources,
                            grounded |-> sources])
                THEN Leaving("answer") ELSE Leaving("raised")
  /\ UNCHANGED <<input, holding, scanned, sent, told, verdict, beat, stop,
                 breakers, streak>>

-----------------------------------------------------------------------------
(* The end of a record: the heartbeat is stopped, then the verdict posted.   *)

StopHeartbeat ==
  /\ At("stopping")
  /\ stop' = TRUE
  /\ run' = [run EXCEPT !.pc = "joining", !.spent = 0]
  /\ UNCHANGED <<input, holding, scanned, sent, told, verdict, beat, breakers, streak>>

\* Mutant: the thread is signalled, and not waited for.
JoinSkipped == TRUE

\* Thread.join(timeout=interval + 1).
JoinOver == beat.pc = "off" \/ run.spent = Interval + JoinMargin

Joined ==
  /\ At("joining")
  /\ JoinOver
  /\ run' = IF run.outcome = "raised" THEN NoRun
            ELSE [run EXCEPT !.pc = "posting", !.spent = 0]
  /\ UNCHANGED <<input, holding, scanned, sent, told, verdict, beat, stop,
                 breakers, streak>>

\* Mutant: an answer whose post failed is followed by the failure message.
PostVerdictOrApology ==
  /\ At("posting")
  /\ verdict' \in {"none", "failure", IF run.outcome = "answer" THEN "answer" ELSE "failure"}
  /\ run' = NoRun
  /\ UNCHANGED <<input, holding, scanned, sent, told, beat, stop, breakers, streak>>

\* The answer or the FR-17 message is posted, or its post fails: for the answer
\* that leaves the worker, for the message it is logged.
PostVerdict ==
  /\ At("posting")
  /\ verdict' \in {"none", IF run.outcome = "answer" THEN "answer" ELSE "failure"}
  /\ run' = NoRun
  /\ UNCHANGED <<input, holding, scanned, sent, told, beat, stop, breakers, streak>>

-----------------------------------------------------------------------------
(* The heartbeat thread: wait(interval), and beat unless stopped.            *)

BeatDue ==
  /\ beat.pc = "waiting"
  /\ beat.spent = Interval
  /\ ~ stop
  /\ beat' = [pc |-> "posting", spent |-> 0]
  /\ UNCHANGED <<run, input, holding, scanned, sent, told, verdict, stop,
                 breakers, streak>>

\* Posted, or failed and swallowed.
BeatPosted ==
  /\ beat.pc = "posting"
  /\ beat' = [pc |-> "waiting", spent |-> 0]
  /\ UNCHANGED <<run, input, holding, scanned, sent, told, verdict, stop,
                 breakers, streak>>

BeatStops ==
  /\ beat.pc = "waiting"
  /\ stop
  /\ beat' = NoBeat
  /\ UNCHANGED <<run, input, holding, scanned, sent, told, verdict, stop,
                 breakers, streak>>

-----------------------------------------------------------------------------
(* Time, and what ends it.                                                   *)

\* How long the main thread may stay where it is.
MainLimit ==
  CASE At("calling")  -> RequestTimeout[run.stage]
    [] At("sleeping") -> LongestDelay(run.attempt, run.hint)
    [] At("noticing") \/ At("posting") -> SlackTimeout
    [] At("joining")  -> IF beat.pc = "off" THEN 0 ELSE Interval + JoinMargin
    [] OTHER          -> 0
BeatLimit ==
  CASE beat.pc = "waiting" -> IF stop THEN 0 ELSE Interval
    [] beat.pc = "posting" -> SlackTimeout
    [] OTHER               -> 0

Tick ==
  /\ run.spent < MainLimit
  /\ beat.pc # "off" => beat.spent < BeatLimit
  /\ run.age < LambdaTimeout
  /\ run' = [run EXCEPT !.age = @ + 1, !.spent = @ + 1]
  /\ beat' = IF beat.pc = "off" THEN beat ELSE [beat EXCEPT !.spent = @ + 1]
  /\ breakers' = [d \in Deps |-> AgedBreaker(breakers[d])]
  /\ UNCHANGED <<input, holding, scanned, sent, told, verdict, stop, streak>>

\* Lambda ends both threads where they are, at the timeout, or before it when
\* the environment is lost; the next record finds a new one.
Killed ==
  /\ run.pc \notin {"idle", "killed"}
  /\ run' = [run EXCEPT !.pc = "killed"]
  /\ beat' = NoBeat
  /\ UNCHANGED <<input, holding, scanned, sent, told, verdict, stop, breakers, streak>>

Replaced ==
  /\ At("killed")
  /\ run' = NoRun
  /\ UNCHANGED <<input, holding, scanned, sent, told, verdict, beat, stop,
                 breakers, streak>>

MainStep ==
  \/ GuardedCall \/ CallSucceeds \/ CallRetries \/ RetriesExhausted \/ CallRaises
  \/ SleepEnds
  \/ SizeGate \/ TrimNotice \/ TrimNoticeFails \/ ScanGate \/ BudgetGate \/ Compose
  \/ StopHeartbeat \/ Joined \/ PostVerdict
BeatStep == BeatDue \/ BeatPosted \/ BeatStops

Next == Begin \/ MainStep \/ BeatStep \/ Tick \/ Killed \/ Replaced

Spec == Init /\ [][Next]_vars

-----------------------------------------------------------------------------
(* Properties.                                                               *)

\* CS-4, BR-012: whatever was trimmed, retried or refused, only parts that the
\* scan saw and found clean ever leave for the MCP server or the backend.
OnlyScannedLeaves == sent \subseteq scanned /\ sent \cap input.flagged = {}

\* BR-007, BR-008, BR-012: a record that a gate turned down has cost nothing:
\* no part of it was sent anywhere first.
TurnedDownUnspent ==
  run.outcome \in {"oversize", "safety-refuse", "budget-deny"} => sent = {}

\* BR-007: an answer that saw less than was fetched comes with the notice, and
\* trimming never drops the question itself.
NeverTrimmedSilently ==
  verdict = "answer" =>
    /\ holding # input.parts => told
    /\ "question" \in input.parts => "question" \in holding

\* BR-015, BR-016: no answer is thrown away after its inference was paid for:
\* what is composed validates, whatever the question, the model's sections and
\* the sources.  (Otherwise the record comes back and is paid for again.)
PaidForIsPosted == run.outcome = "raised" => run.stage # "compose"

\* BR-013: once the asker has the verdict no "still working" follows: the
\* heartbeat thread of the record is gone.
NoBeatAfterVerdict == verdict # "none" => beat.pc = "off"

\* NFR-17: whatever is slow or retried, the worker ends by itself, with the
\* verdict posted or the record handed back, before the Lambda timeout.  The
\* timeout must leave room for what a call begun within the budget may last,
\* which that of the deployment does not.
NeverTimedOut == run.pc # "idle" => run.age < LambdaTimeout

-----------------------------------------------------------------------------
(* What a run of the pipeline is to the lifecycle around it.                 *)

AtRest == run.pc \in {"idle", "killed"}
Concluded == run.pc \in {"stopping", "joining", "posting"}

Promise == INSTANCE OneVerdict WITH
  Endings <- Outcomes \ {"none"},
  TurnedDown <- {"oversize", "safety-refuse", "budget-deny"},
  phase <- IF AtRest THEN "idle" ELSE IF Concluded THEN "concluded" ELSE "working",
  ending <- IF AtRest THEN "none" ELSE run.outcome,
  asked <- sent # {},
  beating <- beat.pc # "off"

\* FR-17, BR-012, BR-013: each record comes to one ending.  The asker is told
\* that ending or nothing, after the last "still working", which is said until
\* then; what was turned down was sent nowhere, what is answered was asked.
GivesOneVerdict == Promise!Spec

-----------------------------------------------------------------------------
(* What the repository says and the code does not do.                        *)

\* nfr-spec.md, S/NFR-16: a dependency that is down for Threshold calls in a
\* row has its breaker open, so that later requests fail fast.
BreakerOpensInOutage ==
  \A d \in Deps : streak[d] = Threshold => breakers[d].state # "closed"
=============================================================================
