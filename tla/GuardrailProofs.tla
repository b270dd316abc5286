-------------------------- MODULE GuardrailProofs --------------------------
(***************************************************************************)
(* How far the soft limit gives, for any number of workers, any limits an  *)
(* operator sets and any number of periods.                                *)
(*                                                                         *)
(* The argument: count for every spending worker the MaxTokens it may yet  *)
(* bill.  A worker joins them only below the limit, when at most all the   *)
(* others are spending; billing moves tokens from what may be billed to    *)
(* what is; and a new period starts at nothing, with at most all workers   *)
(* spending into it.                                                       *)
(***************************************************************************)
EXTENDS Guardrail, FiniteSetTheorems, TLAPS

N == Cardinality(Workers)
Exposure == MaxTokens * Cardinality(Spending)

\* A period that has begun stays below the bound, the present one even when
\* all that may yet be billed is billed; one that has not begun is empty.
BoundedExposure ==
  /\ usage[period] + Exposure < HighestLimit + MaxTokens * N
  /\ \A p \in Periods : p < period => usage[p] < HighestLimit + MaxTokens * N
  /\ \A p \in Periods : p > period => usage[p] = 0

\* As long as every item limited the period, so does every config in use.
EveryConfigLimits ==
  limited => Limits(guardrail) /\ \A w \in Workers : worker[w].config.hasLimit

IInv == TypeOK /\ EveryConfigLimits /\ (limited => BoundedExposure)

\* There are workers, and finitely many; some of them spend.
LEMMA WorkersCounted == N \in Nat \ {0}
<1>1. N \in Nat
  BY WorkersAssumption, FS_CardinalityType DEF N
<1>2. N # 0
  BY WorkersAssumption, FS_EmptySet DEF N
<1>. QED BY <1>1, <1>2

LEMMA SpendingCounted ==
  IsFiniteSet(Spending) /\ Cardinality(Spending) \in Nat /\ Cardinality(Spending) <= N
<1>1. Spending \subseteq Workers
  BY DEF Spending
<1>. QED BY <1>1, WorkersAssumption, FS_Subset, FS_CardinalityType DEF N

\* A product of naturals is one, and grows by one factor at a time.
LEMMA OneMore ==
  ASSUME NEW k \in Nat
  PROVE  /\ MaxTokens * k \in Nat
         /\ MaxTokens * (k + 1) = MaxTokens * k + MaxTokens
BY TokensAssumption

LEMMA Monotone ==
  ASSUME NEW k \in Nat, NEW n \in Nat, k <= n
  PROVE  MaxTokens * k <= MaxTokens * n
BY TokensAssumption

\* An idle worker is one of the workers' states.
LEMMA IdleTyped ==
  IdleWorker \in [pc : {"idle", "asking", "spending"}, config : GuardrailConfigs]
BY LimitsAssumption DEF IdleWorker, NoConfig, GuardrailConfigs

\* Types, action by action.
LEMMA TypesKept == TypeOK /\ [Next]_vars => TypeOK'
<1>. SUFFICES ASSUME TypeOK, [Next]_vars PROVE TypeOK'
  OBVIOUS
<1>. USE DEF TypeOK, PeriodsOK, WorkersOK
<1>1. ASSUME NEW w \in Workers, ReadGuardrail(w) PROVE TypeOK'
  <2>1. GetGuardrail(guardrail) \in GuardrailConfigs
    <3>1. guardrail.limit \in 0 .. HighestLimit /\ guardrail.hasLimit \in BOOLEAN
          /\ guardrail.exists \in BOOLEAN
      BY DEF GuardrailItems
    <3>2. DefaultLimit \in 0 .. HighestLimit
      BY LimitsAssumption
    <3>3. (IF guardrail.exists THEN guardrail.limit ELSE DefaultLimit) \in 0 .. HighestLimit
      BY <3>1, <3>2
    <3>. QED BY <3>1, <3>3 DEF GetGuardrail, GuardrailConfigs
  <2>. QED BY <1>1, <2>1 DEF ReadGuardrail
<1>2. ASSUME NEW w \in Workers, WithinBudget(w) PROVE TypeOK'
  BY <1>2, IdleTyped DEF WithinBudget
<1>3. ASSUME NEW w \in Workers, NEW t \in TokenCounts, RecordUsage(w, t) PROVE TypeOK'
  <2>1. t \in Nat
    BY TokensAssumption
  <2>. QED BY <1>3, <2>1, IdleTyped, LimitsAssumption DEF RecordUsage, CounterAfter
<1>4. ASSUME NEW w \in Workers, NeverBilled(w) PROVE TypeOK'
  BY <1>4, IdleTyped DEF NeverBilled
<1>5. CASE NextPeriod
  BY <1>5, LimitsAssumption DEF NextPeriod, Periods
<1>6. CASE SetGuardrail
  BY <1>6 DEF SetGuardrail
<1>7. CASE UNCHANGED vars
  BY <1>7 DEF vars
<1>. QED BY <1>1, <1>2, <1>3, <1>4, <1>5, <1>6, <1>7 DEF Next, WorkerStep

\* A config read from an item that limits the period does too, and an item
\* that does not is remembered.
LEMMA ConfigsKept ==
  TypeOK /\ EveryConfigLimits /\ [Next]_vars => EveryConfigLimits' /\ (limited' => limited)
<1>. SUFFICES ASSUME TypeOK, EveryConfigLimits, [Next]_vars
     PROVE EveryConfigLimits' /\ (limited' => limited)
  OBVIOUS
<1>. USE DEF TypeOK, WorkersOK, EveryConfigLimits
<1>i. IdleWorker.config.hasLimit
  BY DEF IdleWorker, NoConfig
<1>1. CASE \E w \in Workers : ReadGuardrail(w)
  BY <1>1 DEF ReadGuardrail, GetGuardrail, Limits
<1>2. CASE \E w \in Workers : WithinBudget(w)
  BY <1>2, <1>i DEF WithinBudget
<1>3. CASE \E w \in Workers, t \in TokenCounts : RecordUsage(w, t)
  BY <1>3, <1>i DEF RecordUsage
<1>4. CASE \E w \in Workers : NeverBilled(w)
  BY <1>4, <1>i DEF NeverBilled
<1>5. CASE NextPeriod
  BY <1>5 DEF NextPeriod
<1>6. CASE SetGuardrail
  BY <1>6 DEF SetGuardrail
<1>7. CASE UNCHANGED vars
  BY <1>7 DEF vars
<1>. QED BY <1>1, <1>2, <1>3, <1>4, <1>5, <1>6, <1>7 DEF Next, WorkerStep

\* A worker that stops spending lowers the exposure by its MaxTokens.
LEMMA LeavesSpending ==
  ASSUME TypeOK, NEW w \in Workers, At(w, "spending"),
         worker' = [worker EXCEPT ![w] = IdleWorker]
  PROVE  Exposure' + MaxTokens = Exposure /\ Exposure' \in Nat
<1>1. Spending' = Spending \ {w}
  BY DEF TypeOK, WorkersOK, Spending, At, IdleWorker
<1>2. w \in Spending
  BY DEF Spending
<1>3. Cardinality(Spending') = Cardinality(Spending) - 1
  BY <1>1, <1>2, SpendingCounted, FS_RemoveElement
<1>4. Cardinality(Spending') \in Nat
  BY <1>1, SpendingCounted, FS_RemoveElement, FS_CardinalityType
<1>. QED BY <1>3, <1>4, SpendingCounted, OneMore DEF Exposure

\* A worker that joins the spenders was not one of them.
LEMMA JoinsSpending ==
  ASSUME TypeOK, NEW w \in Workers, At(w, "asking"),
         worker' = [worker EXCEPT ![w].pc = "spending"]
  PROVE  Cardinality(Spending') <= N /\ Cardinality(Spending') \in Nat
<1>1. Spending' \subseteq Workers
  BY DEF Spending
<1>. QED BY <1>1, WorkersAssumption, FS_Subset, FS_CardinalityType DEF N

\* A worker that is not spending and goes idle changes no exposure.
LEMMA SameSpending ==
  ASSUME TypeOK, NEW w \in Workers, ~ At(w, "spending"), NEW r, r.pc # "spending",
         worker' = [worker EXCEPT ![w] = r]
  PROVE  Exposure' = Exposure
<1>1. Spending' = Spending
  BY DEF TypeOK, WorkersOK, Spending, At
<1>. QED BY <1>1 DEF Exposure

\* Billing at most what was set aside for it stays below the bound.
LEMMA BillsWhatWasExposed ==
  ASSUME NEW used \in Nat, NEW before \in Nat, NEW after \in Nat, NEW bound \in Nat,
         NEW tokens \in Nat, NEW most \in Nat, tokens <= most,
         after + most = before, used + before < bound
  PROVE  (used + tokens) + after < bound
OBVIOUS

\* The bound survives every step.
LEMMA ExposureKept ==
  TypeOK /\ EveryConfigLimits /\ limited /\ BoundedExposure /\ [Next]_vars
    => BoundedExposure'
<1>. SUFFICES ASSUME TypeOK, EveryConfigLimits, limited, BoundedExposure, [Next]_vars
     PROVE BoundedExposure'
  OBVIOUS
<1>. DEFINE Top == MaxTokens * N
<1>n. /\ N \in Nat \ {0} /\ MaxTokens \in Nat \ {0} /\ HighestLimit \in Nat
      /\ Top \in Nat /\ Exposure \in Nat /\ Exposure <= Top
      /\ period \in Periods /\ Periods \subseteq Nat
      /\ usage \in [Periods -> Nat]
  BY WorkersCounted, SpendingCounted, OneMore, Monotone, TokensAssumption,
     LimitsAssumption DEF Exposure, TypeOK, PeriodsOK, Periods
<1>t. 0 < Top
  <2>1. N - 1 \in Nat /\ MaxTokens * ((N - 1) + 1) = MaxTokens * (N - 1) + MaxTokens
        /\ MaxTokens * (N - 1) \in Nat
    BY <1>n, OneMore
  <2>2. (N - 1) + 1 = N
    BY <1>n
  <2>. QED BY <1>n, <2>1, <2>2
<1>. HIDE DEF Top
<1>b. BoundedExposure <=>
        /\ usage[period] + Exposure < HighestLimit + Top
        /\ \A p \in Periods : p < period => usage[p] < HighestLimit + Top
        /\ \A p \in Periods : p > period => usage[p] = 0
  BY DEF BoundedExposure, Top
<1>c. BoundedExposure' <=>
        /\ usage'[period'] + Exposure' < HighestLimit + Top
        /\ \A p \in Periods : p < period' => usage'[p] < HighestLimit + Top
        /\ \A p \in Periods : p > period' => usage'[p] = 0
  BY DEF BoundedExposure, Top, N, Periods
<1>1. ASSUME NEW w \in Workers, ReadGuardrail(w) PROVE BoundedExposure'
  <2>1. Exposure' = Exposure
    BY <1>1, SameSpending DEF ReadGuardrail, At
  <2>. QED BY <1>1, <2>1, <1>b, <1>c DEF ReadGuardrail
<1>2. ASSUME NEW w \in Workers, WithinBudget(w) PROVE BoundedExposure'
  <2>1. CASE IsWithinBudget(usage[period], worker[w].config)
    <3>1. worker' = [worker EXCEPT ![w].pc = "spending"]
      BY <1>2, <2>1 DEF WithinBudget
    <3>2. Exposure' \in Nat /\ Exposure' <= Top
      BY <1>2, <3>1, <1>n, JoinsSpending, OneMore, Monotone
         DEF WithinBudget, Exposure, Top
    <3>3. usage[period] < HighestLimit
      BY <2>1, <1>n DEF IsWithinBudget, TypeOK, WorkersOK, EveryConfigLimits,
                        GuardrailConfigs
    <3>. QED BY <1>2, <1>b, <1>c, <1>n, <3>2, <3>3 DEF WithinBudget
  <2>2. CASE ~ IsWithinBudget(usage[period], worker[w].config)
    <3>1. worker' = [worker EXCEPT ![w] = IdleWorker]
      BY <1>2, <2>2 DEF WithinBudget
    <3>2. Exposure' = Exposure
      BY <1>2, <3>1, SameSpending DEF WithinBudget, At, IdleWorker
    <3>. QED BY <1>2, <1>b, <1>c, <3>2 DEF WithinBudget
  <2>. QED BY <2>1, <2>2
<1>3. ASSUME NEW w \in Workers, NEW t \in TokenCounts, RecordUsage(w, t)
      PROVE BoundedExposure'
  <2>1. Exposure' + MaxTokens = Exposure /\ Exposure' \in Nat
    BY <1>3, LeavesSpending DEF RecordUsage
  <2>2. t \in Nat /\ t <= MaxTokens
    BY TokensAssumption
  <2>3. usage' = [usage EXCEPT ![period] = @ + t] /\ period' = period
    BY <1>3 DEF RecordUsage, CounterAfter
  <2>4. usage'[period'] = usage[period] + t /\ usage[period] \in Nat
    BY <1>n, <2>3
  <2>5. usage[period] + Exposure < HighestLimit + Top
    BY <1>b
  <2>6. usage'[period'] + Exposure' < HighestLimit + Top
    <3>1. (usage[period] + t) + Exposure' < HighestLimit + Top
      <4>1. HighestLimit + Top \in Nat
        BY <1>n
      <4>2. Exposure \in Nat /\ Exposure' \in Nat /\ Exposure' + MaxTokens = Exposure
        BY <1>n, <2>1
      <4>3. usage[period] \in Nat /\ t \in Nat /\ MaxTokens \in Nat /\ t <= MaxTokens
        BY <1>n, <2>2, <2>4
      <4>. QED BY <4>1, <4>2, <4>3, <2>5, BillsWhatWasExposed
    <3>. QED BY <3>1, <2>4
  <2>7. \A p \in Periods : p # period => usage'[p] = usage[p]
    BY <1>n, <2>3
  <2>8. \A p \in Periods : (p < period \/ p > period) => p # period
    BY <1>n
  <2>. QED BY <1>b, <1>c, <2>3, <2>6, <2>7, <2>8
<1>4. ASSUME NEW w \in Workers, NeverBilled(w) PROVE BoundedExposure'
  <2>1. Exposure' + MaxTokens = Exposure /\ Exposure' \in Nat
    BY <1>4, LeavesSpending DEF NeverBilled
  <2>2. usage' = usage /\ period' = period /\ usage[period] \in Nat
    BY <1>4, <1>n DEF NeverBilled
  <2>3. usage[period] + Exposure < HighestLimit + Top
    BY <1>b
  <2>4. usage'[period'] + Exposure' < HighestLimit + Top
    <3>1. (usage[period] + 0) + Exposure' < HighestLimit + Top
      <4>1. HighestLimit + Top \in Nat
        BY <1>n
      <4>2. Exposure \in Nat /\ Exposure' \in Nat /\ Exposure' + MaxTokens = Exposure
        BY <1>n, <2>1
      <4>3. usage[period] \in Nat /\ 0 \in Nat /\ MaxTokens \in Nat /\ 0 <= MaxTokens
        BY <1>n, <2>2
      <4>. QED BY <4>1, <4>2, <4>3, <2>3, BillsWhatWasExposed
    <3>. QED BY <3>1, <2>2
  <2>. QED BY <1>b, <1>c, <2>2, <2>4
<1>5. CASE NextPeriod
  <2>1. Exposure' = Exposure
    BY <1>5 DEF NextPeriod, Exposure, Spending, At
  <2>2. period' \in Periods /\ period' = period + 1 /\ usage' = usage
    BY <1>5, <1>n, LimitsAssumption DEF NextPeriod, Periods
  <2>. QED BY <1>b, <1>c, <1>n, <1>t, <2>1, <2>2
<1>6. CASE SetGuardrail
  <2>1. Exposure' = Exposure
    BY <1>6 DEF SetGuardrail, Exposure, Spending, At
  <2>. QED BY <1>6, <2>1, <1>b, <1>c DEF SetGuardrail
<1>7. CASE UNCHANGED vars
  <2>1. Exposure' = Exposure
    BY <1>7 DEF vars, Exposure, Spending, At
  <2>. QED BY <1>7, <2>1, <1>b, <1>c DEF vars
<1>. QED BY <1>1, <1>2, <1>3, <1>4, <1>5, <1>6, <1>7 DEF Next, WorkerStep

\* Nobody spends at first, and nothing is billed.
LEMMA InitBounded == Init => IInv
<1>. SUFFICES ASSUME Init PROVE IInv
  OBVIOUS
<1>1. TypeOK /\ EveryConfigLimits
  <2>1. PeriodsOK
    BY LimitsAssumption DEF Init, PeriodsOK, Periods
  <2>2. WorkersOK
    BY IdleTyped DEF Init, WorkersOK
  <2>3. EveryConfigLimits
    BY DEF Init, EveryConfigLimits, IdleWorker, NoConfig
  <2>. QED BY <2>1, <2>2, <2>3 DEF Init, TypeOK, Limits
<1>2. Spending = {}
  BY DEF Init, Spending, At, IdleWorker
<1>3. Exposure = MaxTokens * 0
  BY <1>2, FS_EmptySet DEF Exposure
<1>4. MaxTokens * 0 = 0
  BY TokensAssumption
<1>5. 0 < MaxTokens * N /\ MaxTokens * N \in Nat
  <2>1. N - 1 \in Nat /\ (N - 1) + 1 = N /\ N \in Nat
    BY WorkersCounted
  <2>2. /\ MaxTokens * ((N - 1) + 1) = MaxTokens * (N - 1) + MaxTokens
        /\ MaxTokens * (N - 1) \in Nat /\ MaxTokens * N \in Nat
    BY <2>1, OneMore
  <2>. QED BY <2>1, <2>2, TokensAssumption
<1>6. BoundedExposure
  BY <1>3, <1>4, <1>5, LimitsAssumption DEF Init, BoundedExposure, Periods
<1>. QED BY <1>1, <1>6 DEF IInv

\* Types and bound, in every reachable state.
THEOREM GuardrailInvariant == Spec => []IInv
<1>1. IInv /\ [Next]_vars => IInv'
  BY TypesKept, ConfigsKept, ExposureKept DEF IInv
<1>. QED BY <1>1, InitBounded, PTL DEF Spec

\* Every variable keeps its type.
THEOREM GuardrailTypeCorrect == Spec => []TypeOK
<1>1. IInv => TypeOK
  BY DEF IInv
<1>. QED BY <1>1, GuardrailInvariant, PTL

\* BR-008, NFR-13: no period is billed as much as the highest limit and one
\* largest request for each worker.
THEOREM SoftLimitHolds == Spec => []OvershootBounded
<1>1. IInv => OvershootBounded
  <2>. SUFFICES ASSUME IInv, limited, NEW p \in Periods
       PROVE usage[p] < HighestLimit + MaxTokens * N
    BY DEF OvershootBounded, N
  <2>n. /\ N \in Nat \ {0} /\ MaxTokens * N \in Nat /\ Exposure \in Nat
        /\ HighestLimit \in Nat /\ usage \in [Periods -> Nat]
    BY WorkersCounted, SpendingCounted, OneMore, LimitsAssumption
       DEF IInv, TypeOK, PeriodsOK, Exposure
  <2>p. period \in Periods /\ period \in Nat /\ p \in Nat
    BY LimitsAssumption DEF IInv, TypeOK, PeriodsOK, Periods
  <2>1. N - 1 \in Nat /\ (N - 1) + 1 = N
    BY <2>n
  <2>2. MaxTokens * N = MaxTokens * (N - 1) + MaxTokens /\ MaxTokens * (N - 1) \in Nat
    BY <2>1, OneMore
  <2>3. 0 < MaxTokens * N
    BY <2>2, TokensAssumption
  <2>4. /\ usage[period] + Exposure < HighestLimit + MaxTokens * N
        /\ p < period => usage[p] < HighestLimit + MaxTokens * N
        /\ p > period => usage[p] = 0
    BY DEF IInv, BoundedExposure
  <2>. QED BY <2>n, <2>p, <2>3, <2>4
<1>. QED BY <1>1, GuardrailInvariant, PTL
-----------------------------------------------------------------------------
(* No update is lost.  What the counters hold together is defined by         *)
(* recursion over the periods; that the recursion has a solution, and what   *)
(* it totals, is proved by the least period that would be an exception.      *)

Below == {pair \in Nat \X Nat : pair[1] < pair[2]}

\* The least-number principle, for a set.
LEMMA LeastNumber ==
  ASSUME NEW S \in SUBSET Nat, S # {}
  PROVE  \E n \in S : \A m \in S : n <= m
<1>1. IsWellFoundedOn(Below, Nat)
  BY NatLessThanWellFounded DEF Below, OpToRel
<1>2. PICK n \in S : \A m \in S : <<m, n>> \notin Below
  BY <1>1, WFMin
<1>3. ASSUME NEW m \in S PROVE n <= m
  <2>1. <<m, n>> \notin Below
    BY <1>2
  <2>. QED BY <2>1 DEF Below
<1>. QED BY <1>3

\* total sums count, up to period n.
SumsUpTo(count, total, n) ==
  total = [p \in 0 .. n |-> IF p = 0 THEN count[0] ELSE total[p - 1] + count[p]]

\* There are running sums of any counts, up to any period.
LEMMA RunningSumsExist ==
  ASSUME NEW count
  PROVE  \A n \in Nat : \E total : SumsUpTo(count, total, n)
<1>. DEFINE Exceptions == {n \in Nat : ~ \E total : SumsUpTo(count, total, n)}
<1>1. SUFFICES ASSUME Exceptions # {} PROVE FALSE
  OBVIOUS
<1>2. PICK n \in Exceptions : \A m \in Exceptions : n <= m
  BY <1>1, LeastNumber
<1>3. n # 0
  <2>1. SumsUpTo(count, [p \in 0 .. 0 |-> count[0]], 0)
    BY DEF SumsUpTo
  <2>. QED BY <2>1
<1>4. n - 1 \in Nat /\ n - 1 \notin Exceptions
  BY <1>2, <1>3
<1>5. PICK shorter : SumsUpTo(count, shorter, n - 1)
  BY <1>4
<1>. DEFINE total == [p \in 0 .. n |-> IF p = n THEN shorter[n - 1] + count[n] ELSE shorter[p]]
<1>6. SumsUpTo(count, total, n)
  <2>1. \A p \in 0 .. n - 1 :
          shorter[p] = IF p = 0 THEN count[0] ELSE shorter[p - 1] + count[p]
    BY <1>4, <1>5 DEF SumsUpTo
  <2>2. ASSUME NEW p \in 0 .. n
        PROVE  total[p] = IF p = 0 THEN count[0] ELSE total[p - 1] + count[p]
    <3>1. CASE p = n
      BY <3>1, <1>3, <1>4
    <3>2. CASE p # n
      BY <3>2, <2>1, <1>4
    <3>. QED BY <3>1, <3>2
  <2>. QED BY <2>2 DEF SumsUpTo
<1>. QED BY <1>6

\* Totals is what its recursion says.
LEMMA TotalsEquation ==
  ASSUME NEW count
  PROVE  \A p \in Periods :
           Totals(count)[p] = IF p = 0 THEN count[0] ELSE Totals(count)[p - 1] + count[p]
<1>1. \E total : SumsUpTo(count, total, LastPeriod)
  BY RunningSumsExist, LimitsAssumption
<1>2. Totals(count) = CHOOSE total : SumsUpTo(count, total, LastPeriod)
  BY DEF Totals, SumsUpTo, Periods
<1>3. SumsUpTo(count, Totals(count), LastPeriod)
  BY <1>1, <1>2
<1>. HIDE DEF Totals
<1>. QED BY <1>3 DEF SumsUpTo, Periods

\* A total of naturals is one.
LEMMA TotalsTyped ==
  ASSUME NEW count \in [Periods -> Nat]
  PROVE  \A p \in Periods : Totals(count)[p] \in Nat
<1>. DEFINE Exceptions == {p \in Periods : Totals(count)[p] \notin Nat}
<1>1. SUFFICES ASSUME Exceptions # {} PROVE FALSE
  OBVIOUS
<1>2. PICK p \in Exceptions : \A q \in Exceptions : p <= q
  <2>1. Exceptions \in SUBSET Nat
    BY LimitsAssumption DEF Periods
  <2>. HIDE DEF Exceptions
  <2>. QED BY <1>1, <2>1, LeastNumber
<1>3. p \in Periods /\ p \in Nat /\ Totals(count)[p] \notin Nat
  BY LimitsAssumption DEF Periods
<1>4. CASE p = 0
  BY <1>3, <1>4, TotalsEquation
<1>5. CASE p # 0
  <2>1. p - 1 \in Periods
    BY <1>3, <1>5, LimitsAssumption DEF Periods
  <2>2. p - 1 \notin Exceptions
    BY <1>2, <1>3
  <2>3. Totals(count)[p - 1] \in Nat
    BY <2>1, <2>2
  <2>. QED BY <1>3, <1>5, <2>3, TotalsEquation
<1>. QED BY <1>4, <1>5

\* Counters that hold nothing total nothing.
LEMMA NothingTotalsNothing ==
  ASSUME NEW count, \A p \in Periods : count[p] = 0
  PROVE  \A p \in Periods : Totals(count)[p] = 0
<1>. DEFINE Exceptions == {p \in Periods : Totals(count)[p] # 0}
<1>1. SUFFICES ASSUME Exceptions # {} PROVE FALSE
  OBVIOUS
<1>2. PICK p \in Exceptions : \A q \in Exceptions : p <= q
  <2>1. Exceptions \in SUBSET Nat
    BY LimitsAssumption DEF Periods
  <2>. HIDE DEF Exceptions
  <2>. QED BY <1>1, <2>1, LeastNumber
<1>3. p \in Periods /\ p \in Nat /\ Totals(count)[p] # 0
  BY LimitsAssumption DEF Periods
<1>4. CASE p = 0
  BY <1>3, <1>4, TotalsEquation
<1>5. CASE p # 0
  <2>1. p - 1 \in Periods
    BY <1>3, <1>5, LimitsAssumption DEF Periods
  <2>2. p - 1 \notin Exceptions
    BY <1>2, <1>3
  <2>3. Totals(count)[p - 1] = 0
    BY <2>1, <2>2
  <2>. QED BY <1>3, <1>5, <2>3, TotalsEquation
<1>. QED BY <1>4, <1>5

\* What is added to one counter is added to the total of its period and of
\* every later one, and to no earlier total.
LEMMA TotalsAdd ==
  ASSUME NEW count \in [Periods -> Nat], NEW q \in Periods, NEW t \in Nat
  PROVE  \A p \in Periods :
           Totals([count EXCEPT ![q] = @ + t])[p]
             = Totals(count)[p] + (IF p < q THEN 0 ELSE t)
<1>. DEFINE after == [count EXCEPT ![q] = @ + t]
            Expected(p) == Totals(count)[p] + (IF p < q THEN 0 ELSE t)
            Exceptions == {p \in Periods : Totals(after)[p] # Expected(p)}
<1>1. SUFFICES ASSUME Exceptions # {} PROVE FALSE
  OBVIOUS
<1>a. after \in [Periods -> Nat]
  OBVIOUS
<1>b. /\ after[q] = count[q] + t
      /\ \A p \in Periods : p # q => after[p] = count[p]
  OBVIOUS
<1>. HIDE DEF after
<1>2. PICK p \in Exceptions : \A r \in Exceptions : p <= r
  <2>1. Exceptions \in SUBSET Nat
    BY LimitsAssumption DEF Periods
  <2>. HIDE DEF Exceptions
  <2>. QED BY <1>1, <2>1, LeastNumber
<1>3. p \in Periods /\ p \in Nat /\ q \in Nat /\ Totals(after)[p] # Expected(p)
  BY LimitsAssumption DEF Periods
<1>t. count[p] \in Nat /\ count[q] \in Nat /\ Totals(count)[p] \in Nat
  BY <1>3, TotalsTyped
<1>4. CASE p = 0
  <2>1. Totals(after)[p] = after[p] /\ Totals(count)[p] = count[p]
    BY <1>3, <1>4, TotalsEquation
  <2>. QED BY <1>3, <1>4, <1>b, <1>t, <2>1
<1>5. CASE p # 0
  <2>1. p - 1 \in Periods
    BY <1>3, <1>5, LimitsAssumption DEF Periods
  <2>2. p - 1 \notin Exceptions
    BY <1>2, <1>3
  <2>3. Totals(after)[p - 1] = Expected(p - 1)
    BY <2>1, <2>2
  <2>4. Totals(count)[p - 1] \in Nat
    BY <2>1, TotalsTyped
  <2>5. /\ Totals(after)[p] = Totals(after)[p - 1] + after[p]
        /\ Totals(count)[p] = Totals(count)[p - 1] + count[p]
    BY <1>3, <1>5, TotalsEquation
  <2>6. CASE p = q
    BY <1>3, <1>b, <1>t, <2>3, <2>4, <2>5, <2>6
  <2>7. CASE p # q
    BY <1>3, <1>b, <1>t, <2>3, <2>4, <2>5, <2>7
  <2>. QED BY <2>6, <2>7
<1>. QED BY <1>4, <1>5

\* BR-019: the counters together hold exactly what was billed, however the
\* workers' billing interleaves and whenever the period turns.
THEOREM NoUpdateIsLost == Spec => []NoUpdateLost
<1>1. Init => NoUpdateLost
  <2>. SUFFICES ASSUME Init PROVE Totals(usage)[LastPeriod] = 0
    BY DEF Init, NoUpdateLost
  <2>1. LastPeriod \in Periods /\ \A p \in Periods : usage[p] = 0
    BY LimitsAssumption DEF Init, Periods
  <2>. QED BY <2>1, NothingTotalsNothing
<1>2. TypeOK /\ NoUpdateLost /\ [Next]_vars => NoUpdateLost'
  <2>. SUFFICES ASSUME TypeOK, NoUpdateLost, [Next]_vars PROVE NoUpdateLost'
    OBVIOUS
  <2>1. ASSUME NEW w \in Workers, NEW t \in TokenCounts, RecordUsage(w, t)
        PROVE  NoUpdateLost'
    <3>1. t \in Nat /\ LastPeriod \in Periods /\ period \in Nat /\ period <= LastPeriod
      BY TokensAssumption, LimitsAssumption DEF TypeOK, PeriodsOK, Periods
    <3>2. usage' = [usage EXCEPT ![period] = @ + t] /\ billed' = billed + t
      BY <2>1 DEF RecordUsage, CounterAfter
    <3>3. Totals(usage')[LastPeriod]
            = Totals(usage)[LastPeriod] + (IF LastPeriod < period THEN 0 ELSE t)
      BY <3>1, <3>2, TotalsAdd DEF TypeOK, PeriodsOK
    <3>4. ~ LastPeriod < period
      BY <3>1, LimitsAssumption
    <3>. QED BY <3>2, <3>3, <3>4 DEF NoUpdateLost
  <2>2. CASE UNCHANGED <<usage, billed>>
    BY <2>2 DEF NoUpdateLost
  <2>3. CASE ~ \E w \in Workers, t \in TokenCounts : RecordUsage(w, t)
    BY <2>2, <2>3 DEF Next, WorkerStep, ReadGuardrail, WithinBudget, NeverBilled,
                      NextPeriod, SetGuardrail, vars
  <2>. QED BY <2>1, <2>3
<1>. QED BY <1>1, <1>2, GuardrailTypeCorrect, PTL DEF Spec
-----------------------------------------------------------------------------
(* The kill switch.  That it takes effect at all is liveness; that it then   *)
(* holds is a matter of what a worker has read.                              *)

\* A config read from an item that stops spending admits nobody.
LEMMA StopAdmitsNobody ==
  ASSUME NEW item \in GuardrailItems, Stops(item), ~ Invalid(item)
  PROVE  ~ Admits(GetGuardrail(item))
<1> DEFINE config == GetGuardrail(item)
<1>1. /\ item.hasLimit \in BOOLEAN /\ item.exists \in BOOLEAN
      /\ item.hasLimit => item.exists
  BY DEF GuardrailItems
<1>2. /\ config.hasLimit = (item.hasLimit \/ ~ item.exists)
      /\ config.limit = (IF item.exists THEN item.limit ELSE DefaultLimit)
      /\ config.stopped = (item.perRequest = "zero")
  BY DEF GetGuardrail
<1> SUFFICES ~ Admits(config)
  OBVIOUS
<1> HIDE DEF config
<1>3. CASE item.perRequest = "zero"
  <2>1. config.stopped
    BY <1>2, <1>3
  <2>. QED BY <2>1 DEF Admits
<1>4. CASE item.hasLimit /\ item.limit = 0
  <2>1. config.hasLimit /\ config.limit = 0
    BY <1>1, <1>2, <1>4
  <2>2. ~ config.limit > 0
    BY <2>1
  <2>. QED BY <2>1, <2>2 DEF Admits
<1>. QED BY <1>3, <1>4 DEF Stops

\* Who is not admitted is not within budget, however empty the period.
LEMMA NotAdmittedNotWithin ==
  ASSUME NEW config \in GuardrailConfigs, ~ Admits(config), NEW used \in Nat
  PROVE  ~ IsWithinBudget(used, config)
BY LimitsAssumption DEF Admits, IsWithinBudget, GuardrailConfigs

\* ENT-014: once the switch has taken effect nobody starts to spend until it is
\* lifted.
THEOREM SwitchKeepsHolding == Spec => SwitchHolds
<1>1. ASSUME TypeOK, [Next]_vars, SwitchedOff, Stops(guardrail')
      PROVE  SwitchedOff' /\ Spending' \subseteq Spending
  <2>t. /\ worker \in [Workers -> [pc : {"idle", "asking", "spending"},
                                   config : GuardrailConfigs]]
        /\ guardrail \in GuardrailItems /\ usage[period] \in Nat
    BY <1>1 DEF TypeOK, WorkersOK, PeriodsOK
  <2>i. IdleWorker.pc = "idle"
    BY DEF IdleWorker
  <2>1. ASSUME NEW w \in Workers, NEW r, worker' = [worker EXCEPT ![w] = r],
               r.pc # "spending", r.pc = "asking" => ~ Admits(r.config)
        PROVE  SwitchedOff' /\ Spending' \subseteq Spending
    <3>1. \A v \in Workers : worker'[v] = IF v = w THEN r ELSE worker[v]
      BY <2>t, <2>1
    <3>. QED BY <1>1, <2>1, <3>1 DEF SwitchedOff, Spending, At
  <2>2. ASSUME NEW w \in Workers, ReadGuardrail(w)
        PROVE  SwitchedOff' /\ Spending' \subseteq Spending
    <3> DEFINE read == [pc |-> "asking", config |-> GetGuardrail(guardrail)]
    <3>1. ~ Admits(GetGuardrail(guardrail))
      BY <1>1, <2>t, <2>2, StopAdmitsNobody DEF ReadGuardrail, SwitchedOff
    <3>2. worker' = [worker EXCEPT ![w] = read]
      BY <2>2 DEF ReadGuardrail
    <3>3. read.pc # "spending" /\ ~ Admits(read.config)
      BY <3>1
    <3> HIDE DEF read
    <3>. QED BY <2>1, <3>2, <3>3
  <2>3. ASSUME NEW w \in Workers, WithinBudget(w)
        PROVE  SwitchedOff' /\ Spending' \subseteq Spending
    <3>1. worker[w].config \in GuardrailConfigs /\ ~ Admits(worker[w].config)
      BY <1>1, <2>t, <2>3 DEF WithinBudget, SwitchedOff, At
    <3>2. worker' = [worker EXCEPT ![w] = IdleWorker]
      BY <2>t, <2>3, <3>1, NotAdmittedNotWithin DEF WithinBudget
    <3>. QED BY <2>1, <2>i, <3>2
  <2>4. ASSUME NEW w \in Workers, NeverBilled(w) \/ \E t \in TokenCounts : RecordUsage(w, t)
        PROVE  SwitchedOff' /\ Spending' \subseteq Spending
    <3>1. worker' = [worker EXCEPT ![w] = IdleWorker]
      BY <2>4 DEF NeverBilled, RecordUsage
    <3>. QED BY <2>1, <2>i, <3>1
  <2>5. CASE worker' = worker
    BY <1>1, <2>5 DEF SwitchedOff, Spending, At
  <2>. QED
    BY <1>1, <2>2, <2>3, <2>4, <2>5 DEF Next, WorkerStep, NextPeriod, SetGuardrail, vars
<1>2. TypeOK /\ [Next]_vars
        => [SwitchedOff /\ Stops(guardrail')
              => SwitchedOff' /\ Spending' \subseteq Spending]_vars
  BY <1>1
<1>. QED BY <1>2, GuardrailTypeCorrect, PTL DEF Spec, SwitchHolds
=============================================================================
