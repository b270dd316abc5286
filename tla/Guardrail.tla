----------------------------- MODULE Guardrail -----------------------------
(***************************************************************************)
(* The cost guardrail: concurrent workers that ask whether there is budget *)
(* left, spend tokens on inference, and bill them afterwards to the usage  *)
(* counter of the period they then are in.  Check and bill are DynamoDB    *)
(* calls a whole pipeline apart, so the limit is soft; the module says how *)
(* soft.  An operator may change the limit, and stop all spending, at any  *)
(* moment.                                                                 *)
(***************************************************************************)
EXTENDS Integers, FiniteSets

CONSTANTS
  Workers,        \* concurrent worker invocations
  TokenCounts,    \* tokens one request may use
  MaxTokens,      \* ... and the most of them
  HighestLimit,   \* the highest per-period limit an operator sets
  DefaultLimit,   \* the limit where no guardrail item was written
  LastPeriod,     \* periods that are watched (a bound)
  MaxBilled       \* tokens billed in all (a bound, for where nothing limits them)

ASSUME WorkersAssumption == IsFiniteSet(Workers) /\ Workers # {}
ASSUME TokensAssumption ==
  /\ MaxTokens \in Nat \ {0}
  /\ TokenCounts \subseteq 0 .. MaxTokens
ASSUME LimitsAssumption ==
  HighestLimit \in Nat /\ DefaultLimit \in 0 .. HighestLimit
  /\ LastPeriod \in Nat /\ MaxBilled \in Nat

VARIABLES
  guardrail,   \* the guardrail item
  limited,     \* history: no item ever lacked a period limit
  period,      \* the period key of now
  usage,       \* usage_count of each period
  worker,      \* each worker: where it is, and the guardrail it read
  billed       \* tokens billed so far, by what the workers did

vars == <<guardrail, limited, period, usage, worker, billed>>

Periods == 0 .. LastPeriod

\* No item, or either limit without the other, or neither: a per-request limit
\* of zero is the kill switch, and any other is not looked at.
GuardrailItems ==
  {item \in [exists : BOOLEAN, hasLimit : BOOLEAN, limit : 0 .. HighestLimit,
             perRequest : {"none", "zero", "some"}] :
     /\ item.hasLimit => item.exists
     /\ ~ item.hasLimit => item.limit = 0
     /\ ~ item.exists => item.perRequest = "none"}

\* GuardrailConfig does not validate: get_guardrail raises.
Invalid(item) == item.exists /\ ~ item.hasLimit /\ item.perRequest = "none"

\* get_guardrail, of a valid item.
GuardrailConfigs == [hasLimit : BOOLEAN, limit : 0 .. HighestLimit, stopped : BOOLEAN]
GetGuardrail(item) ==
  [hasLimit |-> item.hasLimit \/ ~ item.exists,
   limit    |-> IF item.exists THEN item.limit ELSE DefaultLimit,
   stopped  |-> item.perRequest = "zero"]

NoConfig == [hasLimit |-> TRUE, limit |-> 0, stopped |-> FALSE]
IdleWorker == [pc |-> "idle", config |-> NoConfig]

Limits(item) == item.exists => item.hasLimit

Init ==
  /\ guardrail \in GuardrailItems
  /\ limited = Limits(guardrail)
  /\ period = 0
  /\ usage = [p \in Periods |-> 0]
  /\ worker = [w \in Workers |-> IdleWorker]
  /\ billed = 0

PeriodsOK == period \in Periods /\ usage \in [Periods -> Nat] /\ billed \in Nat
WorkersOK == worker \in [Workers -> [pc : {"idle", "asking", "spending"},
                                     config : GuardrailConfigs]]
TypeOK == guardrail \in GuardrailItems /\ limited \in BOOLEAN /\ PeriodsOK /\ WorkersOK

At(w, pc) == worker[w].pc = pc

\* get_guardrail: the item as it is now.  Where that raises the worker is left
\* with nothing spent, and is idle again.
ReadGuardrail(w) ==
  /\ At(w, "idle")
  /\ ~ Invalid(guardrail)
  /\ worker' = [worker EXCEPT ![w] = [pc |-> "asking",
                                      config |-> GetGuardrail(guardrail)]]
  /\ UNCHANGED <<guardrail, limited, period, usage, billed>>

\* Mutants of IsWithinBudget: the limit is exceeded only past it; the kill
\* switch counts only once something was spent.
IsWithinBudgetOffByOne(used, config) ==
  (config.hasLimit => used <= config.limit) /\ ~ config.stopped
IsWithinBudgetStopLate(used, config) ==
  (config.hasLimit => used < config.limit) /\ ~ (config.stopped /\ used > 0)

\* rules.is_within_budget.
IsWithinBudget(used, config) ==
  (config.hasLimit => used < config.limit) /\ ~ config.stopped

\* within_budget: the counter is read, against the guardrail read before.
WithinBudget(w) ==
  /\ At(w, "asking")
  /\ worker' = [worker EXCEPT ![w] =
       IF IsWithinBudget(usage[period], @.config)
         THEN [@ EXCEPT !.pc = "spending"] ELSE IdleWorker]
  /\ UNCHANGED <<guardrail, limited, period, usage, billed>>

\* Mutant: the counter is set where it should be added to.
CounterAfterSet(count, tokens) == tokens

\* ADD usage_count.
CounterAfter(count, tokens) == count + tokens

\* record_usage, once the answer is posted: the period may have changed.
RecordUsage(w, tokens) ==
  /\ At(w, "spending")
  /\ billed + tokens <= MaxBilled
  /\ usage' = [usage EXCEPT ![period] = CounterAfter(@, tokens)]
  /\ billed' = billed + tokens
  /\ worker' = [worker EXCEPT ![w] = IdleWorker]
  /\ UNCHANGED <<guardrail, limited, period>>

\* Mutant: what a failed request may have used is given back.
NeverBilledRefunding(w) ==
  /\ At(w, "spending")
  /\ usage' = [usage EXCEPT ![period] = @ - MaxTokens]
  /\ worker' = [worker EXCEPT ![w] = IdleWorker]
  /\ UNCHANGED <<guardrail, limited, period, billed>>

\* The request fails, or its worker is killed, before it is billed.
NeverBilled(w) ==
  /\ At(w, "spending")
  /\ worker' = [worker EXCEPT ![w] = IdleWorker]
  /\ UNCHANGED <<guardrail, limited, period, usage, billed>>

\* period_key turns to the next day or week: a counter that does not exist yet.
NextPeriod ==
  /\ period < LastPeriod
  /\ period' = period + 1
  /\ UNCHANGED <<guardrail, limited, usage, worker, billed>>

SetGuardrail ==
  /\ guardrail' \in GuardrailItems
  /\ limited' = (limited /\ Limits(guardrail'))
  /\ UNCHANGED <<period, usage, worker, billed>>

WorkerStep(w) ==
  \/ ReadGuardrail(w) \/ WithinBudget(w)
  \/ (\E tokens \in TokenCounts : RecordUsage(w, tokens)) \/ NeverBilled(w)

Next == (\E w \in Workers : WorkerStep(w)) \/ NextPeriod \/ SetGuardrail

Spec == Init /\ [][Next]_vars

\* A worker that runs takes its next step.
FairSpec == Spec /\ \A w \in Workers : WF_vars(WorkerStep(w))

-----------------------------------------------------------------------------
(* Properties.                                                               *)

Spending == {w \in Workers : At(w, "spending")}

\* BR-008, NFR-13: the period limit is soft, and this is how far it gives:
\* the requests that passed the check together, one for each worker, and no
\* more, whatever the operator set in between and whenever the period turned.
\* (But for a guardrail with a per-request limit alone, which bounds nothing.)
OvershootBounded ==
  limited => \A p \in Periods : usage[p] < HighestLimit + MaxTokens * Cardinality(Workers)

\* BR-019: concurrent workers never lose an update, on either side of the turn
\* of a period: the counters together hold exactly what was billed.
Totals(count) ==
  LET total[p \in Periods] == IF p = 0 THEN count[0] ELSE total[p - 1] + count[p]
  IN  total
NoUpdateLost == Totals(usage)[LastPeriod] = billed

\* ENT-014: an operator who stops spending, and leaves it so, stops it: with a
\* per-request limit of zero, a period limit of zero, or an item that cannot be
\* read.
Stops(item) ==
  Invalid(item) \/ item.perRequest = "zero" \/ (item.hasLimit /\ item.limit = 0)
KillSwitchStops == <>[]Stops(guardrail) => <>[](Spending = {})

\* ENT-014, until then: who read the item before the stop may still be let
\* through.  Once no such worker is left between its two reads the switch has
\* taken effect, and until the operator lifts it nobody starts to spend, whatever
\* limit the stop is replaced by or whichever period begins empty.
Admits(config) == ~ config.stopped /\ (config.hasLimit => config.limit > 0)
SwitchedOff == Stops(guardrail) /\ \A w \in Workers : At(w, "asking") => ~ Admits(worker[w].config)
SwitchHolds ==
  [][SwitchedOff /\ Stops(guardrail') => SwitchedOff' /\ Spending' \subseteq Spending]_vars
=============================================================================
