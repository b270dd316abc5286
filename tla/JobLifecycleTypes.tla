------------------------- MODULE JobLifecycleTypes --------------------------
(***************************************************************************)
(* Type correctness of the job lifecycle: every step keeps every variable  *)
(* in its type, and every invocation within its timeout.  The two go       *)
(* together: a running worker has a question, so that what it writes is    *)
(* written to a job.                                                       *)
(***************************************************************************)
EXTENDS JobLifecycle, TLAPS

\* A worker that runs has a question, has not reached past its timeout, and
\* read the clock for its claim after it started.
WorkersInTime ==
  \A w \in Workers :
    /\ workers[w].pc # "idle" => workers[w].job \in Jobs
    /\ workers[w].age <= LambdaTimeout
    /\ workers[w].claim <= workers[w].age

\* The first states: nobody has asked, nobody runs, nothing is queued.
LEMMA InitTyped == Init => TypeOK /\ WorkersInTime
BY NamesAssumption, TimingAssumption
   DEF Init, TypeOK, JobsOK, QueueOK, WorkersOK, ReaperOK, SlackOK, LedgerOK,
       Items, Messages, Invocations, ReaperRuns, WorkersInTime, NoItem,
       NoMessage, IdleWorker, IdleReaper, WorkerPc, ReaperPc, JobStatus,
       InFlight, Terminal

\* An idle worker and an idle reaper are in their types.
LEMMA IdleTyped == IdleWorker \in Invocations /\ IdleReaper \in ReaperRuns
<1>1. "idle" \in WorkerPc /\ "failed" \in Terminal /\ FALSE \in BOOLEAN /\ 0 \in Nat
  BY DEF WorkerPc, Terminal
<1>2. IdleWorker \in Invocations
  BY <1>1 DEF IdleWorker, Invocations
<1>3. IdleReaper \in ReaperRuns
  BY DEF IdleReaper, ReaperRuns, ReaperPc
<1>4. QED  BY <1>2, <1>3

\* acquire_lease writes an item: a lease is one more attempt, dated at the claim.
LEMMA LeasedTyped ==
  ASSUME NEW item \in Items, NEW claim \in Nat
  PROVE  Leased(item, claim) \in Items
<1> DEFINE started == [item EXCEPT !.status = "in-progress"]
           counted == [started EXCEPT !.attempts = @ + 1]
<1>1. started \in Items
  BY DEF Items, JobStatus, InFlight
<1>2. Leased(item, claim) = [counted EXCEPT !.age = claim]
  BY DEF Leased
<1> HIDE DEF started
<1>3. counted \in Items
  BY <1>1 DEF Items
<1> HIDE DEF counted
<1>4. QED  BY <1>2, <1>3 DEF Items

\* A reaper run that turns to abandoning a job is still a reaper run.
LEMMA AbandoningTyped ==
  ASSUME NEW run \in ReaperRuns, NEW j \in Jobs,
         NEW back \in {"recovering", "abandoning"}
  PROVE  Abandoning(run, j, back) \in ReaperRuns
<1> DEFINE at == [run EXCEPT !.pc = "notifying"]
           of == [at EXCEPT !.job = j]
<1>1. at \in ReaperRuns
  BY DEF ReaperRuns, ReaperPc
<1>2. Abandoning(run, j, back) = [of EXCEPT !.back = back]
  BY DEF Abandoning
<1> HIDE DEF at
<1>3. of \in ReaperRuns
  BY <1>1 DEF ReaperRuns
<1> HIDE DEF of
<1>4. QED  BY <1>2, <1>3 DEF ReaperRuns

\* A closed item is an item.
LEMMA ClosedTyped ==
  ASSUME NEW item \in Items, NEW target \in JobStatus
  PROVE  Closed(item, target) \in Items
<1> DEFINE moved == [item EXCEPT !.status = target]
<1>1. moved \in Items
  BY DEF Items
<1>2. Closed(item, target) = [moved EXCEPT !.age = 0]
  BY DEF Closed
<1> HIDE DEF moved
<1>3. QED  BY <1>1, <1>2 DEF Items

\* A received message is still a message.
LEMMA ReceivedTyped ==
  ASSUME NEW msg \in Messages
  PROVE  Received(msg) \in Messages
<1> DEFINE counted == [msg EXCEPT !.receives = @ + 1]
<1>1. counted \in Messages
  BY DEF Messages
<1>2. Received(msg) = [counted EXCEPT !.hidden = Visibility]
  BY DEF Received
<1> HIDE DEF counted
<1>3. QED  BY <1>1, <1>2, QueueAssumption DEF Messages

\* What a tick does to an invocation.
LEMMA AgedTyped ==
  ASSUME NEW run \in Invocations
  PROVE  /\ AgedWorker(run) \in Invocations
         /\ AgedWorker(run).pc = run.pc
         /\ AgedWorker(run).job = run.job
         /\ AgedWorker(run).unbilled = run.unbilled
         /\ AgedWorker(run).age = IF run.pc = "idle" THEN run.age ELSE run.age + 1
         /\ AgedWorker(run).claim <= run.claim + 1
         /\ run.pc = "idle" => AgedWorker(run) = run
<1> DEFINE older == [run EXCEPT !.age = @ + 1]
           claimed == [older EXCEPT !.claim =
                         IF run.pc \in {"claimed", "leasing"} THEN @ + 1 ELSE @]
           aged == [claimed EXCEPT !.prev =
                      IF run.pc = "leasing" THEN Older(@) ELSE @]
<1>1. \A n \in Nat : Older(n) \in Nat
  BY TimingAssumption DEF Older, Horizon
<1>2. older \in Invocations /\ older.pc = run.pc /\ older.job = run.job
        /\ older.unbilled = run.unbilled
        /\ older.age = run.age + 1 /\ older.claim = run.claim
  BY DEF Invocations
<1> HIDE DEF older
<1>3. claimed \in Invocations /\ claimed.pc = older.pc /\ claimed.job = older.job
        /\ claimed.unbilled = older.unbilled
        /\ claimed.age = older.age /\ claimed.claim <= older.claim + 1
  BY <1>2 DEF Invocations
<1> HIDE DEF claimed
<1>4. aged \in Invocations /\ aged.pc = claimed.pc /\ aged.job = claimed.job
        /\ aged.unbilled = claimed.unbilled
        /\ aged.age = claimed.age /\ aged.claim = claimed.claim
  BY <1>1, <1>3 DEF Invocations
<1>5. run.pc # "idle" => AgedWorker(run) = aged
  BY DEF AgedWorker, aged, claimed, older
<1>6. run.pc = "idle" => AgedWorker(run) = run
  BY DEF AgedWorker
<1> HIDE DEF aged
<1>7. run.claim \in Nat
  BY DEF Invocations
<1>8. QED  BY <1>2, <1>3, <1>4, <1>5, <1>6, <1>7

\* A step of a worker keeps the types and the timeouts, and moves that worker
\* alone.
LEMMA WorkerStepTyped ==
  ASSUME TypeOK, WorkersInTime, NEW w \in Workers, WorkerStep(w)
  PROVE  TypeOK' /\ WorkersInTime' /\ \A v \in Workers \ {w} : workers'[v] = workers[v]
<1>1. workers[w].job \in Jobs /\ workers[w].pc # "idle"
  BY DEF WorkersInTime, WorkerStep, ClaimGet, LeaseRead, LeaseWrite, PipelineAnswers, PipelineFails, MarkPostIntent, PostAnswer, StampAnswerTs, RecordUsage, RecordAdoption, PostFailure, WorkerTransitionRead, WorkerTransitionWrite, Finish, At
<1> USE DEF TypeOK, Terminal
<1>2. CASE ClaimGet(w)
  <2>1. WorkersOK' /\ \A v \in Workers \ {w} : workers'[v] = workers[v]
    BY <1>1, <1>2 DEF ClaimGet, WorkersOK, Invocations, WorkerPc, Goto, IdleWorker
  <2>2. WorkersInTime'
    BY <1>1, <1>2, TimingAssumption DEF ClaimGet, WorkersInTime, WorkersOK, Invocations, WorkerPc, Goto, IdleWorker
  <2>3. JobsOK'
    BY <1>1, <1>2 DEF ClaimGet, JobsOK, Items
  <2>4. SlackOK' /\ LedgerOK'
    BY <1>1, <1>2 DEF ClaimGet, SlackOK, LedgerOK
  <2>5. QueueOK' /\ ReaperOK'
    BY <1>2 DEF ClaimGet, QueueOK, Messages, ReaperOK, ReaperRuns
  <2>6. QED  BY <2>1, <2>2, <2>3, <2>4, <2>5
<1>3. CASE LeaseRead(w)
  <2>1. WorkersOK' /\ \A v \in Workers \ {w} : workers'[v] = workers[v]
    BY <1>1, <1>3 DEF LeaseRead, WorkersOK, Invocations, WorkerPc, Goto, IdleWorker, JobsOK, Items, JobOf
  <2>2. WorkersInTime'
    BY <1>1, <1>3, TimingAssumption DEF LeaseRead, WorkersInTime, WorkersOK, Invocations, WorkerPc, Goto, IdleWorker
  <2>3. JobsOK'
    BY <1>1, <1>3 DEF LeaseRead, JobsOK, Items
  <2>4. SlackOK' /\ LedgerOK'
    BY <1>1, <1>3 DEF LeaseRead, SlackOK, LedgerOK
  <2>5. QueueOK' /\ ReaperOK'
    BY <1>3 DEF LeaseRead, QueueOK, Messages, ReaperOK, ReaperRuns
  <2>6. QED  BY <2>1, <2>2, <2>3, <2>4, <2>5
<1>4. CASE LeaseWrite(w)
  <2>1. WorkersOK' /\ \A v \in Workers \ {w} : workers'[v] = workers[v]
    BY <1>1, <1>4 DEF LeaseWrite, WorkersOK, Invocations, WorkerPc, Goto, IdleWorker, ClaimStep, ClaimTarget
  <2>2. WorkersInTime'
    BY <1>1, <1>4, TimingAssumption DEF LeaseWrite, WorkersInTime, WorkersOK, Invocations, WorkerPc, Goto, IdleWorker
  <2>3. JobsOK'
    <3> DEFINE job == Leased(JobOf(w), workers[w].claim)
    <3>1. job \in Items
      BY <1>1, LeasedTyped DEF JobsOK, JobOf, WorkersOK, Invocations, Items
    <3>2. jobs' = jobs \/ jobs' = [jobs EXCEPT ![workers[w].job] = job]
      BY <1>4 DEF LeaseWrite
    <3> HIDE DEF job
    <3>3. QED  BY <1>1, <3>1, <3>2 DEF JobsOK, Items
  <2>4. SlackOK' /\ LedgerOK'
    BY <1>1, <1>4 DEF LeaseWrite, SlackOK, LedgerOK
  <2>5. QueueOK' /\ ReaperOK'
    BY <1>4 DEF LeaseWrite, QueueOK, Messages, ReaperOK, ReaperRuns
  <2>6. QED  BY <2>1, <2>2, <2>3, <2>4, <2>5
<1>5. CASE PipelineAnswers(w)
  <2>1. WorkersOK' /\ \A v \in Workers \ {w} : workers'[v] = workers[v]
    <3> DEFINE moved == [workers EXCEPT ![w].pc = "marking"]
    <3>1. moved \in [Workers -> Invocations]
      BY <1>1 DEF WorkersOK, Invocations, WorkerPc
    <3>2. PICK owed \in BOOLEAN : workers' = [moved EXCEPT ![w].unbilled = owed]
      BY <1>5 DEF PipelineAnswers
    <3>3. \A v \in Workers \ {w} : moved[v] = workers[v]
      BY DEF WorkersOK, Invocations
    <3> HIDE DEF moved
    <3>4. QED  BY <3>1, <3>2, <3>3 DEF WorkersOK, Invocations
  <2>2. WorkersInTime'
    BY <1>1, <1>5, TimingAssumption DEF PipelineAnswers, WorkersInTime, WorkersOK, Invocations, WorkerPc, Goto, IdleWorker
  <2>3. JobsOK'
    BY <1>1, <1>5 DEF PipelineAnswers, JobsOK, Items
  <2>4. SlackOK' /\ LedgerOK'
    BY <1>1, <1>5 DEF PipelineAnswers, SlackOK, LedgerOK
  <2>5. QueueOK' /\ ReaperOK'
    BY <1>5 DEF PipelineAnswers, QueueOK, Messages, ReaperOK, ReaperRuns
  <2>6. QED  BY <2>1, <2>2, <2>3, <2>4, <2>5
<1>6. CASE PipelineFails(w)
  <2>1. WorkersOK' /\ \A v \in Workers \ {w} : workers'[v] = workers[v]
    <3> DEFINE moved == [workers EXCEPT ![w].pc = "notifying"]
    <3>1. moved \in [Workers -> Invocations]
      BY <1>1 DEF WorkersOK, Invocations, WorkerPc
    <3>2. PICK replied \in BOOLEAN : workers' = [moved EXCEPT ![w].unbilled = replied]
      BY <1>6 DEF PipelineFails
    <3>3. \A v \in Workers \ {w} : moved[v] = workers[v]
      BY DEF WorkersOK, Invocations
    <3> HIDE DEF moved
    <3>4. QED  BY <3>1, <3>2, <3>3 DEF WorkersOK, Invocations
  <2>2. WorkersInTime'
    BY <1>1, <1>6, TimingAssumption DEF PipelineFails, WorkersInTime, WorkersOK, Invocations, WorkerPc, Goto, IdleWorker
  <2>3. JobsOK'
    BY <1>1, <1>6 DEF PipelineFails, JobsOK, Items
  <2>4. SlackOK' /\ LedgerOK'
    BY <1>1, <1>6 DEF PipelineFails, SlackOK, LedgerOK
  <2>5. QueueOK' /\ ReaperOK'
    BY <1>6 DEF PipelineFails, QueueOK, Messages, ReaperOK, ReaperRuns
  <2>6. QED  BY <2>1, <2>2, <2>3, <2>4, <2>5
<1>7. CASE MarkPostIntent(w)
  <2>1. WorkersOK' /\ \A v \in Workers \ {w} : workers'[v] = workers[v]
    BY <1>1, <1>7 DEF MarkPostIntent, WorkersOK, Invocations, WorkerPc, Goto, IdleWorker
  <2>2. WorkersInTime'
    BY <1>1, <1>7, TimingAssumption DEF MarkPostIntent, WorkersInTime, WorkersOK, Invocations, WorkerPc, Goto, IdleWorker
  <2>3. JobsOK'
    BY <1>1, <1>7 DEF MarkPostIntent, JobsOK, Items
  <2>4. SlackOK' /\ LedgerOK'
    BY <1>1, <1>7 DEF MarkPostIntent, SlackOK, LedgerOK
  <2>5. QueueOK' /\ ReaperOK'
    BY <1>7 DEF MarkPostIntent, QueueOK, Messages, ReaperOK, ReaperRuns
  <2>6. QED  BY <2>1, <2>2, <2>3, <2>4, <2>5
<1>8. CASE PostAnswer(w)
  <2>1. WorkersOK' /\ \A v \in Workers \ {w} : workers'[v] = workers[v]
    BY <1>1, <1>8 DEF PostAnswer, WorkersOK, Invocations, WorkerPc, Goto, IdleWorker
  <2>2. WorkersInTime'
    BY <1>1, <1>8, TimingAssumption DEF PostAnswer, WorkersInTime, WorkersOK, Invocations, WorkerPc, Goto, IdleWorker
  <2>3. JobsOK'
    BY <1>1, <1>8 DEF PostAnswer, JobsOK, Items
  <2>4. SlackOK' /\ LedgerOK'
    BY <1>1, <1>8 DEF PostAnswer, SlackOK, LedgerOK
  <2>5. QueueOK' /\ ReaperOK'
    BY <1>8 DEF PostAnswer, QueueOK, Messages, ReaperOK, ReaperRuns
  <2>6. QED  BY <2>1, <2>2, <2>3, <2>4, <2>5
<1>9. CASE StampAnswerTs(w)
  <2>1. WorkersOK' /\ \A v \in Workers \ {w} : workers'[v] = workers[v]
    BY <1>1, <1>9 DEF StampAnswerTs, WorkersOK, Invocations, WorkerPc, Goto, IdleWorker
  <2>2. WorkersInTime'
    BY <1>1, <1>9, TimingAssumption DEF StampAnswerTs, WorkersInTime, WorkersOK, Invocations, WorkerPc, Goto, IdleWorker
  <2>3. JobsOK'
    BY <1>1, <1>9 DEF StampAnswerTs, JobsOK, Items
  <2>4. SlackOK' /\ LedgerOK'
    BY <1>1, <1>9 DEF StampAnswerTs, SlackOK, LedgerOK
  <2>5. QueueOK' /\ ReaperOK'
    BY <1>9 DEF StampAnswerTs, QueueOK, Messages, ReaperOK, ReaperRuns
  <2>6. QED  BY <2>1, <2>2, <2>3, <2>4, <2>5
<1>10. CASE RecordUsage(w)
  <2>1. WorkersOK' /\ \A v \in Workers \ {w} : workers'[v] = workers[v]
    <3> DEFINE moved == [workers EXCEPT ![w].pc = "adopting"]
    <3>1. moved \in [Workers -> Invocations]
      BY <1>1 DEF WorkersOK, Invocations, WorkerPc
    <3>2. PICK owed \in BOOLEAN : workers' = [moved EXCEPT ![w].unbilled = owed]
      BY <1>10 DEF RecordUsage
    <3>3. \A v \in Workers \ {w} : moved[v] = workers[v]
      BY DEF WorkersOK, Invocations
    <3> HIDE DEF moved
    <3>4. QED  BY <3>1, <3>2, <3>3 DEF WorkersOK, Invocations
  <2>2. WorkersInTime'
    BY <1>1, <1>10, TimingAssumption DEF RecordUsage, WorkersInTime, WorkersOK, Invocations, WorkerPc, Goto, IdleWorker
  <2>3. JobsOK'
    BY <1>1, <1>10 DEF RecordUsage, JobsOK, Items
  <2>4. SlackOK' /\ LedgerOK'
    BY <1>1, <1>10 DEF RecordUsage, SlackOK, LedgerOK
  <2>5. QueueOK' /\ ReaperOK'
    BY <1>10 DEF RecordUsage, QueueOK, Messages, ReaperOK, ReaperRuns
  <2>6. QED  BY <2>1, <2>2, <2>3, <2>4, <2>5
<1>11. CASE RecordAdoption(w)
  <2>1. WorkersOK' /\ \A v \in Workers \ {w} : workers'[v] = workers[v]
    <3> DEFINE moved == [workers EXCEPT ![w].pc = "transition"]
    <3>1. moved \in [Workers -> Invocations]
      BY <1>1 DEF WorkersOK, Invocations, WorkerPc
    <3>2. workers' = [moved EXCEPT ![w].target = "resolved"]
      BY <1>11 DEF RecordAdoption
    <3>3. \A v \in Workers \ {w} : moved[v] = workers[v]
      BY DEF WorkersOK, Invocations
    <3> HIDE DEF moved
    <3>4. QED  BY <3>1, <3>2, <3>3 DEF WorkersOK, Invocations
  <2>2. WorkersInTime'
    BY <1>1, <1>11, TimingAssumption DEF RecordAdoption, WorkersInTime, WorkersOK, Invocations, WorkerPc, Goto, IdleWorker
  <2>3. JobsOK'
    BY <1>1, <1>11 DEF RecordAdoption, JobsOK, Items
  <2>4. SlackOK' /\ LedgerOK'
    BY <1>1, <1>11 DEF RecordAdoption, SlackOK, LedgerOK
  <2>5. QueueOK' /\ ReaperOK'
    BY <1>11 DEF RecordAdoption, QueueOK, Messages, ReaperOK, ReaperRuns
  <2>6. QED  BY <2>1, <2>2, <2>3, <2>4, <2>5
<1>12. CASE PostFailure(w)
  <2>1. WorkersOK' /\ \A v \in Workers \ {w} : workers'[v] = workers[v]
    BY <1>1, <1>12 DEF PostFailure, WorkersOK, Invocations, WorkerPc, Goto, IdleWorker
  <2>2. WorkersInTime'
    BY <1>1, <1>12, TimingAssumption DEF PostFailure, WorkersInTime, WorkersOK, Invocations, WorkerPc, Goto, IdleWorker
  <2>3. JobsOK'
    BY <1>1, <1>12 DEF PostFailure, JobsOK, Items
  <2>4. SlackOK' /\ LedgerOK'
    BY <1>1, <1>12 DEF PostFailure, SlackOK, LedgerOK
  <2>5. QueueOK' /\ ReaperOK'
    BY <1>12 DEF PostFailure, QueueOK, Messages, ReaperOK, ReaperRuns
  <2>6. QED  BY <2>1, <2>2, <2>3, <2>4, <2>5
<1>13. CASE WorkerTransitionRead(w)
  <2>1. WorkersOK' /\ \A v \in Workers \ {w} : workers'[v] = workers[v]
    BY <1>1, <1>13, IdleTyped DEF WorkerTransitionRead, WorkersOK, Invocations, WorkerPc, Goto
  <2>2. WorkersInTime'
    BY <1>1, <1>13, TimingAssumption DEF WorkerTransitionRead, WorkersInTime, WorkersOK, Invocations, WorkerPc, Goto, IdleWorker
  <2>3. JobsOK'
    BY <1>1, <1>13 DEF WorkerTransitionRead, JobsOK, Items
  <2>4. SlackOK' /\ LedgerOK'
    BY <1>1, <1>13 DEF WorkerTransitionRead, SlackOK, LedgerOK
  <2>5. QueueOK' /\ ReaperOK'
    BY <1>13 DEF WorkerTransitionRead, QueueOK, Messages, ReaperOK, ReaperRuns
  <2>6. QED  BY <2>1, <2>2, <2>3, <2>4, <2>5
<1>14. CASE WorkerTransitionWrite(w)
  <2>1. WorkersOK' /\ \A v \in Workers \ {w} : workers'[v] = workers[v]
    BY <1>1, <1>14 DEF WorkerTransitionWrite, WorkersOK, Invocations, WorkerPc, Goto, IdleWorker
  <2>2. WorkersInTime'
    BY <1>1, <1>14, TimingAssumption DEF WorkerTransitionWrite, WorkersInTime, WorkersOK, Invocations, WorkerPc, Goto, IdleWorker
  <2>3. JobsOK'
    <3>1. workers[w].target \in JobStatus
      BY DEF WorkersOK, Invocations, JobStatus
    <3>2. jobs[workers[w].job] \in Items
      BY <1>1 DEF JobsOK
    <3>3. Closed(jobs[workers[w].job], workers[w].target) \in Items
      BY <3>1, <3>2, ClosedTyped
    <3>4. jobs' = [jobs EXCEPT ![workers[w].job] =
                     Closed(jobs[workers[w].job], workers[w].target)]
      BY <1>1, <1>14 DEF WorkerTransitionWrite
    <3>5. QED  BY <1>1, <3>3, <3>4 DEF JobsOK
  <2>4. SlackOK' /\ LedgerOK'
    BY <1>1, <1>14 DEF WorkerTransitionWrite, SlackOK, LedgerOK
  <2>5. QueueOK' /\ ReaperOK'
    BY <1>14 DEF WorkerTransitionWrite, QueueOK, Messages, ReaperOK, ReaperRuns
  <2>6. QED  BY <2>1, <2>2, <2>3, <2>4, <2>5
<1>15. CASE Finish(w)
  <2>1. WorkersOK' /\ \A v \in Workers \ {w} : workers'[v] = workers[v]
    BY <1>1, <1>15 DEF Finish, WorkersOK, Invocations, WorkerPc, Goto, IdleWorker
  <2>2. WorkersInTime'
    BY <1>1, <1>15, TimingAssumption DEF Finish, WorkersInTime, WorkersOK, Invocations, WorkerPc, Goto, IdleWorker
  <2>3. JobsOK'
    BY <1>1, <1>15 DEF Finish, JobsOK, Items
  <2>4. SlackOK' /\ LedgerOK'
    BY <1>1, <1>15 DEF Finish, SlackOK, LedgerOK
  <2>5. QueueOK' /\ ReaperOK'
    BY <1>15 DEF Finish, QueueOK, Messages, ReaperOK, ReaperRuns, NoMessage
  <2>6. QED  BY <2>1, <2>2, <2>3, <2>4, <2>5
<1>16. QED
  BY <1>2, <1>3, <1>4, <1>5, <1>6, <1>7, <1>8, <1>9, <1>10, <1>11, <1>12, <1>13, <1>14, <1>15 DEF WorkerStep

\* A read of a worker that lags moves that worker alone, and no nearer to an
\* answer.
LEMMA LaggingWorkerMoves ==
  ASSUME TypeOK, WorkersInTime, NEW w \in Workers, WorkerReadLags(w)
  PROVE  /\ UNCHANGED <<jobs, intake, msgs, dlq, reaper, slack, ledger>>
         /\ \A v \in Workers \ {w} : workers'[v] = workers[v]
         /\ \/ workers'[w] = IdleWorker
            \/ /\ workers[w].pc # "idle"
               /\ \/ workers'[w] = [workers[w] EXCEPT !.pc = "claimed"]
                  \/ workers'[w] = [workers[w] EXCEPT !.pc = "done"]
                  \/ /\ workers[w].pc = "transition"
                     /\ workers'[w] = [workers[w] EXCEPT !.pc = "write"]
<1>1. workers \in [Workers -> Invocations]
  BY DEF TypeOK, WorkersOK
<1>2. CASE LaggingTransitionRead(w)
  BY <1>1, <1>2 DEF WorkerReadLags, LaggingTransitionRead, At, Goto
<1>3. CASE LaggingClaimGet(w) \/ LaggingLeaseRead(w)
  BY <1>1, <1>3 DEF WorkerReadLags, LaggingClaimGet, LaggingLeaseRead, At, Goto
<1>4. QED  BY <1>2, <1>3 DEF WorkerReadLags

\* So does every other step: intake, the queue, kills, the reaper, time.
LEMMA OtherStepTyped ==
  ASSUME TypeOK, WorkersInTime, Next, \A w \in Workers : ~ WorkerStep(w)
  PROVE  TypeOK' /\ WorkersInTime'
<1> USE DEF TypeOK
<1>1. ASSUME NEW j \in Jobs, RegisterOrGet(j) \/ IntakeEnqueue(j) \/ IntakeAbort(j)
      PROVE  TypeOK' /\ WorkersInTime'
  <2>1. JobsOK'
    BY <1>1 DEF RegisterOrGet, IntakeEnqueue, IntakeAbort, JobsOK, Items, JobStatus, InFlight
  <2>2. QueueOK'
    BY <1>1 DEF RegisterOrGet, IntakeEnqueue, IntakeAbort, QueueOK, Messages, Enqueued, FreeSlots
  <2>3. WorkersOK' /\ ReaperOK' /\ SlackOK' /\ LedgerOK' /\ WorkersInTime'
    BY <1>1 DEF RegisterOrGet, IntakeEnqueue, IntakeAbort, WorkersOK, Invocations, ReaperOK, ReaperRuns,
                SlackOK, LedgerOK, WorkersInTime
  <2>4. QED  BY <2>1, <2>2, <2>3
<1>2. ASSUME NEW m \in Msgs, NEW copy \in Msgs, MoveToDlq(m) \/ DuplicateMessage(m, copy)
      PROVE  TypeOK' /\ WorkersInTime'
  <2>1. QueueOK'
    BY <1>2 DEF MoveToDlq, DuplicateMessage, QueueOK, Messages, Enqueued, FreeSlots, NoMessage
  <2>2. JobsOK' /\ WorkersOK' /\ ReaperOK' /\ SlackOK' /\ LedgerOK' /\ WorkersInTime'
    BY <1>2 DEF MoveToDlq, DuplicateMessage, JobsOK, Items, WorkersOK, Invocations, ReaperOK, ReaperRuns, SlackOK,
                LedgerOK, WorkersInTime
  <2>3. QED  BY <2>1, <2>2
<1>3. ASSUME NEW w \in Workers, NEW m \in Msgs, Receive(w, m)
      PROVE  TypeOK' /\ WorkersInTime'
  <2>1. QueueOK'
    BY <1>3, ReceivedTyped DEF Receive, QueueOK
  <2>2. WorkersOK'
    BY <1>3 DEF Receive, QueueOK, Messages, WorkersOK, Invocations, WorkerPc, IdleWorker, Terminal
  <2>3. WorkersInTime'
    BY <1>3, TimingAssumption DEF Receive, QueueOK, Messages, WorkersOK, Invocations, WorkersInTime, IdleWorker
  <2>4. JobsOK' /\ ReaperOK' /\ SlackOK' /\ LedgerOK'
    BY <1>3 DEF Receive, JobsOK, Items, ReaperOK, ReaperRuns, SlackOK, LedgerOK
  <2>5. QED  BY <2>1, <2>2, <2>3, <2>4
<1>4. ASSUME NEW w \in Workers, WorkerAbort(w)
      PROVE  TypeOK' /\ WorkersInTime'
  <2>1. WorkersOK'
    BY <1>4 DEF WorkerAbort, WorkersOK, Invocations, WorkerPc, IdleWorker, Terminal
  <2>2. WorkersInTime'
    BY <1>4, TimingAssumption DEF WorkerAbort, WorkersOK, Invocations, WorkersInTime, IdleWorker
  <2>3. QueueOK' /\ JobsOK' /\ ReaperOK' /\ SlackOK' /\ LedgerOK'
    BY <1>4 DEF WorkerAbort, QueueOK, Messages, JobsOK, Items, ReaperOK, ReaperRuns, SlackOK, LedgerOK
  <2>4. QED  BY <2>1, <2>2, <2>3
<1>5. CASE ReaperStep \/ ReaperAbort
  <2>1. ReaperOK'
    <3>1. CASE ReaperScan
      <4>1. StaleJobs \in SUBSET Jobs /\ ExhaustedJobs \in SUBSET Jobs
        BY PageAssumption DEF StaleJobs, ExhaustedJobs
      <4>2. QED  BY <3>1, <4>1 DEF ReaperScan, ReaperOK, ReaperRuns, ReaperPc, IdleReaper
    <3>2. CASE ReaperDrain \/ DrainReceived \/ ReaperPostFailure \/ ReaperEnd \/ ReaperAbort
      BY <3>2 DEF ReaperDrain, DrainReceived, ReaperPostFailure, ReaperEnd, ReaperAbort,
                  ReaperOK, ReaperRuns, ReaperPc, IdleReaper
    <3>3. CASE ReaperTransitionRead
      BY <3>3 DEF ReaperTransitionRead, ReaperOK, ReaperRuns, ReaperPc, IdleReaper
    <3>7. CASE ReaperTransitionWrite
      <4> DEFINE moved == [reaper EXCEPT !.pc = reaper.back]
      <4>1. moved \in ReaperRuns
        BY DEF ReaperOK, ReaperRuns, ReaperPc
      <4>2. reaper' = [moved EXCEPT !.job = NoJob]
        BY <3>7 DEF ReaperTransitionWrite
      <4> HIDE DEF moved
      <4>3. QED  BY <4>1, <4>2 DEF ReaperOK, ReaperRuns
    <3>4. ASSUME NEW j \in Jobs, ReaperRequeue(j) \/ DrainMessage(j)
          PROVE  ReaperOK'
      <4>1. /\ [reaper EXCEPT !.requeue = @ \ {j}] \in ReaperRuns
            /\ [reaper EXCEPT !.drained = @ \cup {j}] \in ReaperRuns
        BY DEF ReaperOK, ReaperRuns
      <4>2. CASE ReaperRequeue(j)
        BY <4>1, <4>2, IdleTyped DEF ReaperRequeue, ReaperOK
      <4>3. CASE DrainMessage(j)
        BY <4>1, <4>3 DEF DrainMessage, ReaperOK
      <4>4. QED  BY <3>4, <4>2, <4>3
    <3>5. ASSUME NEW j \in Jobs, ReaperAbandon(j) \/ AbandonDrained(j)
          PROVE  ReaperOK'
      <4>1. /\ [reaper EXCEPT !.abandon = @ \ {j}] \in ReaperRuns
            /\ [reaper EXCEPT !.drained = @ \ {j}] \in ReaperRuns
        BY DEF ReaperOK, ReaperRuns
      <4>2. QED  BY <3>5, <4>1, AbandoningTyped DEF ReaperAbandon, AbandonDrained, ReaperOK
    <3>6. QED  BY <1>5, <3>1, <3>2, <3>3, <3>4, <3>5, <3>7 DEF ReaperStep
  <2>2. JobsOK'
    <3>1. CASE ReaperTransitionWrite
      BY <3>1 DEF ReaperTransitionWrite, JobsOK, Items, JobStatus, Terminal, Closed
    <3>2. CASE ~ ReaperTransitionWrite
      BY <1>5, <3>2 DEF ReaperStep, ReaperAbort, ReaperScan, ReaperRequeue, ReaperAbandon,
         ReaperDrain, DrainMessage, AbandonDrained, DrainReceived, ReaperPostFailure,
         ReaperTransitionRead, ReaperEnd, JobsOK, Items
    <3>3. QED  BY <3>1, <3>2
  <2>3. QueueOK'
    <3>1. ASSUME NEW j \in Jobs, ReaperRequeue(j)  PROVE QueueOK'
      BY <3>1 DEF ReaperRequeue, QueueOK, Messages, Enqueued, FreeSlots
    <3>2. ASSUME NEW j \in Jobs, DrainMessage(j)  PROVE QueueOK'
      BY <3>2 DEF DrainMessage, QueueOK
    <3>3. CASE ReaperAbort
      BY <3>3 DEF ReaperAbort, QueueOK
    <3>4. CASE UNCHANGED <<intake, msgs, dlq, faults>>
      BY <3>4 DEF QueueOK
    <3>5. QED
      BY <1>5, <3>1, <3>2, <3>3, <3>4 DEF ReaperStep, ReaperScan, ReaperAbandon,
         ReaperDrain, AbandonDrained, DrainReceived, ReaperPostFailure,
         ReaperTransitionRead, ReaperTransitionWrite, ReaperEnd
  <2>4. SlackOK'
    <3>1. CASE ReaperPostFailure
      BY <3>1 DEF ReaperPostFailure, SlackOK
    <3>2. CASE UNCHANGED slack
      BY <3>2 DEF SlackOK
    <3>3. QED
      BY <1>5, <3>1, <3>2 DEF ReaperStep, ReaperAbort, ReaperScan, ReaperRequeue,
         ReaperAbandon, ReaperDrain, DrainMessage, AbandonDrained, DrainReceived,
         ReaperTransitionRead, ReaperTransitionWrite, ReaperEnd
  <2>5. WorkersOK' /\ LedgerOK' /\ WorkersInTime'
    BY <1>5 DEF ReaperStep, ReaperAbort, ReaperScan, ReaperRequeue, ReaperAbandon,
       ReaperDrain, DrainMessage, AbandonDrained, DrainReceived, ReaperPostFailure,
       ReaperTransitionRead, ReaperTransitionWrite, ReaperEnd, WorkersOK, Invocations, LedgerOK,
       WorkersInTime
  <2>6. QED  BY <2>1, <2>2, <2>3, <2>4, <2>5
<1>6. CASE Tick
  <2>1. JobsOK'
    BY <1>6, TimingAssumption DEF Tick, AgedJob, Older, Horizon, JobsOK, Items
  <2>2. QueueOK'
    BY <1>6 DEF Tick, AgedMessage, QueueOK, Messages
  <2>3. WorkersOK'
    BY <1>6, AgedTyped DEF Tick, WorkersOK
  <2>4. WorkersInTime'
    <3> SUFFICES ASSUME NEW w \in Workers
                 PROVE  /\ workers'[w].pc # "idle" => workers'[w].job \in Jobs
                        /\ workers'[w].age <= LambdaTimeout
                        /\ workers'[w].claim <= workers'[w].age
      BY DEF WorkersInTime
    <3>1. workers[w] \in Invocations /\ workers'[w] = AgedWorker(workers[w])
      BY <1>6 DEF Tick, WorkersOK
    <3>2. workers[w].pc # "idle" => workers[w].age < LambdaTimeout
      BY <1>6 DEF Tick, Running, At
    <3>3. workers[w].age \in Nat /\ workers[w].claim \in Nat
            /\ workers'[w].claim \in Nat
      BY <3>1, AgedTyped DEF Invocations
    <3>4. QED  BY <3>1, <3>2, <3>3, AgedTyped, TimingAssumption DEF WorkersInTime
  <2>5. ReaperOK'
    <3>1. [reaper EXCEPT !.age = @ + 1] \in ReaperRuns
      BY DEF ReaperOK, ReaperRuns
    <3>2. QED  BY <1>6, <3>1 DEF Tick, ReaperOK
  <2>7. SlackOK' /\ LedgerOK'
    BY <1>6 DEF Tick, SlackOK, LedgerOK
  <2>6. QED  BY <2>1, <2>2, <2>3, <2>4, <2>5, <2>7
<1>7. ASSUME NEW w \in Workers, WorkerReadLags(w)
      PROVE  TypeOK' /\ WorkersInTime'
  <2>1. /\ UNCHANGED <<jobs, intake, msgs, dlq, reaper, slack, ledger>>
        /\ \A v \in Workers \ {w} : workers'[v] = workers[v]
        /\ \/ workers'[w] = IdleWorker
           \/ /\ workers[w].pc # "idle"
              /\ \E pc \in WorkerPc : workers'[w] = [workers[w] EXCEPT !.pc = pc]
    BY <1>7, LaggingWorkerMoves DEF WorkerPc
  <2>2. workers'[w] \in Invocations
    <3>1. ASSUME NEW pc \in WorkerPc
          PROVE  [workers[w] EXCEPT !.pc = pc] \in Invocations
      BY DEF WorkersOK, Invocations
    <3>. QED BY <2>1, <3>1, IdleTyped
  <2>3. WorkersOK'
    <3>1. workers' = [v \in Workers |-> workers'[v]]
      BY <1>7 DEF WorkerReadLags, LaggingClaimGet, LaggingLeaseRead, LaggingTransitionRead,
         Goto, WorkersOK
    <3>2. \A v \in Workers : workers'[v] \in Invocations
      BY <2>1, <2>2 DEF WorkersOK
    <3>. QED BY <3>1, <3>2 DEF WorkersOK
  <2>4. WorkersInTime'
    <3>1. /\ workers'[w].pc # "idle" => workers'[w].job \in Jobs
          /\ workers'[w].age <= LambdaTimeout
          /\ workers'[w].claim <= workers'[w].age
      <4>1. CASE workers'[w] = IdleWorker
        BY <4>1, TimingAssumption DEF IdleWorker
      <4>2. ASSUME NEW pc \in WorkerPc, workers[w].pc # "idle",
                   workers'[w] = [workers[w] EXCEPT !.pc = pc]
            PROVE  /\ workers'[w].job = workers[w].job
                   /\ workers'[w].age = workers[w].age
                   /\ workers'[w].claim = workers[w].claim
        BY <4>2 DEF WorkersOK, Invocations
      <4>. QED BY <2>1, <4>1, <4>2 DEF WorkersInTime
    <3>. QED BY <2>1, <3>1 DEF WorkersInTime
  <2>5. QueueOK' /\ JobsOK' /\ ReaperOK' /\ SlackOK' /\ LedgerOK'
    BY <1>7, <2>1 DEF WorkerReadLags, QueueOK, JobsOK, ReaperOK, SlackOK, LedgerOK
  <2>. QED BY <2>3, <2>4, <2>5
<1>8. CASE ReaperReadLags
  <2>1. ReaperOK'
    <3>1. CASE LaggingScan
      <4>1. PICK requeue \in SUBSET Jobs, abandon \in SUBSET Jobs :
              reaper' = [IdleReaper EXCEPT !.pc = "recovering", !.requeue = requeue,
                                           !.abandon = abandon]
        BY <3>1, PageAssumption DEF LaggingScan
      <4>. QED BY <4>1 DEF ReaperOK, ReaperRuns, ReaperPc, IdleReaper
    <3>2. CASE LaggingReaperTransitionRead
      BY <3>2 DEF LaggingReaperTransitionRead, ReaperOK, ReaperRuns, ReaperPc, IdleReaper
    <3>3. ASSUME NEW j \in Jobs, LaggingDrainGet(j)
          PROVE  ReaperOK'
      <4>1. [reaper EXCEPT !.drained = @ \ {j}] \in ReaperRuns
        BY DEF ReaperOK, ReaperRuns
      <4>2. QED  BY <3>3, <4>1, AbandoningTyped DEF LaggingDrainGet, ReaperOK
    <3>4. QED  BY <1>8, <3>1, <3>2, <3>3 DEF ReaperReadLags
  <2>2. JobsOK' /\ QueueOK' /\ WorkersOK' /\ SlackOK' /\ LedgerOK' /\ WorkersInTime'
    BY <1>8 DEF ReaperReadLags, JobsOK, QueueOK, WorkersOK, SlackOK, LedgerOK, WorkersInTime
  <2>. QED BY <2>1, <2>2
<1>9. QED
  BY <1>1, <1>2, <1>3, <1>4, <1>5, <1>6, <1>7, <1>8 DEF Next

\* One step, or none, keeps the types and the timeouts.
LEMMA StepTyped ==
  ASSUME TypeOK, WorkersInTime, [Next]_vars
  PROVE  TypeOK' /\ WorkersInTime'
<1>1. CASE \E w \in Workers : WorkerStep(w)
  BY <1>1, WorkerStepTyped
<1>2. CASE Next /\ \A w \in Workers : ~ WorkerStep(w)
  BY <1>2, OtherStepTyped
<1>3. CASE UNCHANGED vars
  BY <1>3 DEF vars, TypeOK, JobsOK, QueueOK, WorkersOK, ReaperOK, SlackOK,
              LedgerOK, WorkersInTime
<1>4. QED  BY <1>1, <1>2, <1>3

\* Every variable keeps its type in every behaviour.
THEOREM TypeCorrect == Spec => []TypeOK
<1>1. Init => TypeOK /\ WorkersInTime
  BY InitTyped
<1>2. TypeOK /\ WorkersInTime /\ [Next]_vars => (TypeOK /\ WorkersInTime)'
  BY StepTyped
<1>3. QED  BY <1>1, <1>2, PTL DEF Spec
=============================================================================
