------------------------- MODULE JobLifecycleProofs -------------------------
(***************************************************************************)
(* The safety of the job lifecycle, for any number of questions, workers,  *)
(* messages and faults, and any timing in which the worker's timeout is    *)
(* below the staleness bound.                                              *)
(*                                                                         *)
(* The argument: an item whose lease somebody holds was dated after that   *)
(* worker started (LeaseOfHolder), and a worker lives shorter than the     *)
(* staleness bound, so no claim finds the item stale: one holder at a time *)
(* (SingleHolder).  The holder marks its intent before it posts, and a     *)
(* later holder finds the marker (NoWorkAfterIntent); so whoever is about  *)
(* to post is the first (AnswerBehindIntent).  With three facts more, the  *)
(* same invariant gives the billing, the sparing of live work by recovery, *)
(* and the refinement of AnswerOnce.                                       *)
(***************************************************************************)
EXTENDS JobLifecycleTypes

\* The lease of a worker that holds a question was written after the worker
\* started, or the question was closed under it.
LeaseOfHolder ==
  \A w \in Workers :
    workers[w].pc \in Holding
      => /\ JobOf(w).status \in {"in-progress"} \cup Terminal
         /\ JobOf(w).age <= workers[w].age

\* An answer is posted behind a marker, by a worker that found no answer.
AnswerBehindIntent ==
  /\ \A j \in Jobs : ~ jobs[j].intent => slack[j].answers = 0
  /\ \A w \in Workers :
       workers[w].pc = "posting"
         => JobOf(w).intent /\ slack[workers[w].job].answers = 0

\* The inductive invariant: TypeInv is that of JobLifecycleTypes, and Safe adds
\* what the argument above rests on.
TypeInv == TypeOK /\ WorkersInTime
Safe ==
  /\ LeaseOfHolder
  /\ SingleHolder
  /\ NoWorkAfterIntent
  /\ AnswerBehindIntent
  /\ AtMostOneAnswer
IInv == TypeInv /\ Safe

\* A step that takes nobody into a question, nor nearer to its post.
Steady(w) ==
  workers'[w].pc \in Holding =>
    /\ workers[w].pc \in Holding
    /\ workers'[w].job = workers[w].job
    /\ workers'[w].pc \in {"pipeline", "marking"}
         => workers[w].pc \in {"pipeline", "marking"}
    /\ workers'[w].pc = "posting" => workers[w].pc = "posting"

\* A step that leaves the markers and the answers of a question as they are.
Kept(j) ==
  /\ jobs'[j].intent = jobs[j].intent
  /\ jobs'[j].stamped = jobs[j].stamped
  /\ slack'[j].answers = slack[j].answers

\* The first states: no worker holds anything, nothing is posted.
LEMMA InitSafe == Init => IInv
<1>1. Init => Safe
  BY DEF Init, Safe, LeaseOfHolder, SingleHolder, NoWorkAfterIntent,
         AnswerBehindIntent, AtMostOneAnswer, IdleWorker, NoItem, Holding,
         Answering
<1>2. QED  BY <1>1, InitTyped DEF IInv, TypeInv

\* A worker that holds a question has one.
LEMMA HolderHasJob ==
  ASSUME TypeInv, NEW w \in Workers, workers[w].pc # "idle"
  PROVE  workers[w].job \in Jobs
BY DEF TypeInv, WorkersInTime

\* Steady workers and kept questions: all but the dates of the leases is safe.
LEMMA SteadyStep ==
  ASSUME IInv, TypeInv', \A w \in Workers : Steady(w), \A j \in Jobs : Kept(j)
  PROVE  SingleHolder' /\ NoWorkAfterIntent' /\ AnswerBehindIntent' /\ AtMostOneAnswer'
<1>1. \A w \in Workers : workers[w].pc \in Holding => workers[w].job \in Jobs
  BY HolderHasJob DEF IInv, Holding, Answering
<1>2. SingleHolder'
  BY DEF IInv, Safe, SingleHolder, Steady
<1>3. NoWorkAfterIntent'
  <2> SUFFICES ASSUME NEW w \in Workers, workers'[w].pc \in {"pipeline", "marking"}
               PROVE  ~ PostAttempted(jobs'[workers'[w].job])
    BY DEF NoWorkAfterIntent, JobOf
  <2>1. /\ workers[w].pc \in {"pipeline", "marking"}
        /\ workers'[w].job = workers[w].job
        /\ workers[w].job \in Jobs
    BY <1>1 DEF Steady, Holding, Answering
  <2>2. QED  BY <2>1 DEF IInv, Safe, NoWorkAfterIntent, JobOf, PostAttempted, Kept
<1>4. AnswerBehindIntent'
  <2>1. ASSUME NEW w \in Workers, workers'[w].pc = "posting"
        PROVE  JobOf(w)'.intent /\ slack'[workers'[w].job].answers = 0
    <3>1. /\ workers[w].pc = "posting"
          /\ workers'[w].job = workers[w].job
          /\ workers[w].job \in Jobs
      BY <1>1, <2>1 DEF Steady, Holding, Answering
    <3>2. QED  BY <3>1 DEF IInv, Safe, AnswerBehindIntent, JobOf, Kept
  <2>2. \A j \in Jobs : ~ jobs'[j].intent => slack'[j].answers = 0
    BY DEF IInv, Safe, AnswerBehindIntent, Kept
  <2>3. QED  BY <2>1, <2>2 DEF AnswerBehindIntent
<1>5. AtMostOneAnswer'
  BY DEF IInv, Safe, AtMostOneAnswer, Kept
<1>6. QED  BY <1>2, <1>3, <1>4, <1>5

\* Who holds a question is in time, so a claim never finds its lease free.
LEMMA HeldIsNotFree ==
  ASSUME IInv, NEW w \in Workers, workers[w].pc \in Holding,
         NEW prev \in Nat, NEW claim \in Nat
  PROVE  ~ LeaseFree(JobOf(w), prev, claim)
<1>1. workers[w].job \in Jobs
  BY HolderHasJob DEF IInv, Holding, Answering
<1>2. /\ JobOf(w).age \in Nat
      /\ JobOf(w).age <= workers[w].age
      /\ workers[w].age \in Nat
      /\ workers[w].age <= LambdaTimeout
      /\ JobOf(w).status # "seen"
  BY <1>1 DEF IInv, TypeInv, TypeOK, JobsOK, Items, WorkersOK, Invocations,
              WorkersInTime, Safe, LeaseOfHolder, JobOf, Terminal
<1>3. QED  BY <1>2, TimingAssumption DEF LeaseFree

\* What a lease writes leaves the markers.
LEMMA LeasedFields ==
  ASSUME NEW item \in Items, NEW claim \in Nat
  PROVE  /\ Leased(item, claim).status = "in-progress"
         /\ Leased(item, claim).age = claim
         /\ Leased(item, claim).intent = item.intent
         /\ Leased(item, claim).stamped = item.stamped
<1> DEFINE started == [item EXCEPT !.status = "in-progress"]
           counted == [started EXCEPT !.attempts = @ + 1]
<1>1. started \in Items /\ started.status = "in-progress"
        /\ started.intent = item.intent /\ started.stamped = item.stamped
  BY DEF Items, JobStatus, InFlight
<1>2. Leased(item, claim) = [counted EXCEPT !.age = claim]
  BY DEF Leased
<1> HIDE DEF started
<1>3. counted \in Items /\ counted.status = started.status
        /\ counted.intent = started.intent /\ counted.stamped = started.stamped
  BY <1>1 DEF Items
<1> HIDE DEF counted
<1>4. QED  BY <1>1, <1>2, <1>3 DEF Items

\* ... and counts one attempt more.
LEMMA LeasedCounts ==
  ASSUME NEW item \in Items, NEW claim \in Nat
  PROVE  Leased(item, claim).attempts = item.attempts + 1
<1> DEFINE started == [item EXCEPT !.status = "in-progress"]
           counted == [started EXCEPT !.attempts = @ + 1]
<1>1. started \in Items /\ started.attempts = item.attempts
  BY DEF Items, JobStatus, InFlight
<1>2. Leased(item, claim) = [counted EXCEPT !.age = claim]
  BY DEF Leased
<1> HIDE DEF started
<1>3. counted \in Items /\ counted.attempts = item.attempts + 1
  BY <1>1 DEF Items
<1> HIDE DEF counted
<1>. QED BY <1>2, <1>3 DEF Items

\* A lease taken: its owner is alone with the question, and found no marker.
LEMMA LeaseWriteSafe ==
  ASSUME IInv, TypeInv', NEW w \in Workers, LeaseWrite(w)
  PROVE  Safe'
<1> DEFINE j == workers[w].job
           item == Leased(jobs[j], workers[w].claim)
<1>1. /\ j \in Jobs
      /\ jobs[j] \in Items
      /\ workers[w].prev \in Nat
      /\ workers[w].claim \in Nat
      /\ workers[w].age \in Nat
      /\ workers[w].claim <= workers[w].age
      /\ workers[w].pc = "leasing"
  BY HolderHasJob DEF IInv, TypeInv, TypeOK, WorkersOK, Invocations, JobsOK,
     WorkersInTime, LeaseWrite, At
<1>2. slack' = slack
  BY DEF LeaseWrite
<1>3. \A v \in Workers \ {w} : workers'[v] = workers[v]
  BY DEF LeaseWrite, IInv, TypeInv, TypeOK, WorkersOK
<1>4. CASE ~ LeaseFree(jobs[j], workers[w].prev, workers[w].claim)
  <2>1. jobs' = jobs /\ workers'[w].pc = "done"
    BY <1>1, <1>4 DEF LeaseWrite, JobOf, IInv, TypeInv, TypeOK, WorkersOK, Invocations
  <2>2. \A v \in Workers : Steady(v)
    BY <1>3, <2>1 DEF Steady, Holding, Answering
  <2>3. \A i \in Jobs : Kept(i)
    BY <1>2, <2>1 DEF Kept
  <2>4. LeaseOfHolder'
    BY <1>3, <2>1 DEF LeaseOfHolder, JobOf, Holding, Answering, IInv, Safe
  <2>5. QED  BY <2>2, <2>3, <2>4, SteadyStep DEF Safe
<1>5. CASE LeaseFree(jobs[j], workers[w].prev, workers[w].claim)
  <2>1. /\ jobs' = [jobs EXCEPT ![j] = item]
        /\ workers'[w].pc = ClaimStep(item)
        /\ workers'[w].job = j
        /\ workers'[w].age = workers[w].age
    BY <1>1, <1>5 DEF LeaseWrite, JobOf, IInv, TypeInv, TypeOK, WorkersOK, Invocations
  <2>2. /\ item.status = "in-progress"
        /\ item.age = workers[w].claim
        /\ item.intent = jobs[j].intent
        /\ item.stamped = jobs[j].stamped
    BY <1>1, LeasedFields
  <2> HIDE DEF item
  <2>3. \A v \in Workers : workers[v].pc \in Holding => workers[v].job # j
    BY <1>1, <1>5, HeldIsNotFree DEF JobOf
  <2>4. workers'[w].pc \in Holding
          => workers'[w].pc = "pipeline" /\ ~ PostAttempted(item)
    BY <2>1 DEF ClaimStep, Holding, Answering
  <2>5. \A i \in Jobs : Kept(i)
    BY <1>1, <1>2, <2>1, <2>2 DEF Kept, IInv, TypeInv, TypeOK, JobsOK
  <2>6. \A v \in Workers \ {w} : workers'[v].pc \in Holding =>
          /\ workers[v].pc \in Holding
          /\ workers[v].job \in Jobs
          /\ workers'[v].job # j
          /\ jobs'[workers'[v].job] = jobs[workers[v].job]
    BY <1>3, <2>1, <2>3, HolderHasJob DEF IInv, TypeInv, TypeOK, JobsOK, Holding, Answering
  <2>7. jobs'[j] = item
    BY <1>1, <2>1 DEF IInv, TypeInv, TypeOK, JobsOK
  <2>8. LeaseOfHolder'
    BY <1>1, <1>3, <2>1, <2>2, <2>6, <2>7 DEF LeaseOfHolder, JobOf, IInv, Safe
  <2>9. SingleHolder'
    BY <1>3, <2>1, <2>6 DEF SingleHolder, IInv, Safe
  <2>10. NoWorkAfterIntent'
    BY <1>3, <2>1, <2>4, <2>6, <2>7
       DEF NoWorkAfterIntent, JobOf, IInv, Safe, Holding, Answering
  <2>11. AnswerBehindIntent'
    BY <1>2, <1>3, <2>1, <2>4, <2>5, <2>6
       DEF AnswerBehindIntent, JobOf, Kept, IInv, Safe, Holding, Answering
  <2>12. AtMostOneAnswer'
    BY <1>2 DEF AtMostOneAnswer, IInv, Safe
  <2>13. QED  BY <2>8, <2>9, <2>10, <2>11, <2>12 DEF Safe
<1>6. QED  BY <1>4, <1>5

\* Three steps of the holder of a question touch its marker or its answers.
LEMMA HolderStepSafe ==
  ASSUME IInv, TypeInv', NEW w \in Workers,
         MarkPostIntent(w) \/ PostAnswer(w) \/ StampAnswerTs(w)
  PROVE  Safe'
<1> DEFINE j == workers[w].job
<1>1. workers[w].pc \in Holding /\ j \in Jobs
  BY HolderHasJob DEF MarkPostIntent, PostAnswer, StampAnswerTs, At, IInv, Holding, Answering
<1>2. \A v \in Workers \ {w} : workers'[v] = workers[v]
  BY DEF MarkPostIntent, PostAnswer, StampAnswerTs, Goto, IInv, TypeInv, TypeOK, WorkersOK
<1>3. \A v \in Workers \ {w} : workers[v].pc \in Holding => workers[v].job # j
  BY <1>1 DEF IInv, Safe, SingleHolder
<1>4. /\ workers'[w].job = j
      /\ workers'[w].age = workers[w].age
      /\ workers'[w].pc \in {"posting", "stamping", "billing"}
  BY DEF MarkPostIntent, PostAnswer, StampAnswerTs, Goto, IInv, TypeInv, TypeOK,
         WorkersOK, Invocations
<1>5. \A i \in Jobs \ {j} : jobs'[i] = jobs[i] /\ slack'[i] = slack[i]
  BY DEF MarkPostIntent, PostAnswer, StampAnswerTs, IInv, TypeInv, TypeOK, JobsOK, SlackOK
<1>6. jobs'[j].status = jobs[j].status /\ jobs'[j].age = jobs[j].age
  BY <1>1 DEF MarkPostIntent, PostAnswer, StampAnswerTs, IInv, TypeInv, TypeOK, JobsOK, Items
<1>7. \A v \in Workers \ {w} : workers'[v].pc \in Holding =>
        workers[v].job \in Jobs \ {j}
  BY <1>2, <1>3, HolderHasJob DEF IInv, Holding, Answering
<1>8. LeaseOfHolder'
  BY <1>1, <1>2, <1>4, <1>5, <1>6, <1>7 DEF LeaseOfHolder, JobOf, IInv, Safe
<1>9. SingleHolder'
  BY <1>1, <1>2, <1>3, <1>4 DEF SingleHolder, IInv, Safe
<1>10. NoWorkAfterIntent'
  BY <1>2, <1>4, <1>5, <1>7
     DEF NoWorkAfterIntent, JobOf, IInv, Safe, Holding, Answering
<1>11. /\ ~ jobs'[j].intent => slack'[j].answers = 0
       /\ slack'[j].answers <= 1
       /\ workers'[w].pc = "posting" => jobs'[j].intent /\ slack'[j].answers = 0
  <2>1. CASE MarkPostIntent(w)
    <3>1. ~ jobs[j].intent /\ slack[j].answers = 0 /\ slack' = slack
      BY <1>1, <2>1 DEF MarkPostIntent, At, JobOf, IInv, Safe, NoWorkAfterIntent,
         AnswerBehindIntent, PostAttempted
    <3>2. jobs'[j].intent
      BY <1>1, <2>1 DEF MarkPostIntent, IInv, TypeInv, TypeOK, JobsOK, Items
    <3>3. QED  BY <3>1, <3>2
  <2>2. CASE PostAnswer(w)
    <3>1. jobs[j].intent /\ slack[j].answers = 0 /\ jobs' = jobs
      BY <1>1, <2>2 DEF PostAnswer, At, JobOf, IInv, Safe, AnswerBehindIntent
    <3>2. slack'[j].answers = 1 /\ workers'[w].pc = "stamping"
      BY <1>1, <2>2, <3>1 DEF PostAnswer, Goto, IInv, TypeInv, TypeOK, SlackOK,
         WorkersOK, Invocations
    <3>3. QED  BY <3>1, <3>2
  <2>3. CASE StampAnswerTs(w)
    <3>1. slack' = slack /\ jobs'[j].intent = jobs[j].intent /\ workers'[w].pc = "billing"
      BY <1>1, <2>3 DEF StampAnswerTs, Goto, IInv, TypeInv, TypeOK, JobsOK, Items,
         WorkersOK, Invocations
    <3>2. QED
      BY <1>1, <3>1 DEF IInv, Safe, AnswerBehindIntent, AtMostOneAnswer
  <2>4. QED  BY <2>1, <2>2, <2>3
<1>12. AnswerBehindIntent'
  BY <1>2, <1>4, <1>5, <1>7, <1>11
     DEF AnswerBehindIntent, JobOf, IInv, Safe, Holding, Answering
<1>13. AtMostOneAnswer'
  BY <1>5, <1>11 DEF AtMostOneAnswer, IInv, Safe
<1>14. QED  BY <1>8, <1>9, <1>10, <1>12, <1>13 DEF Safe

\* A step that writes no job, posts no answer and lets no time pass.
LEMMA QuietStep ==
  ASSUME IInv, TypeInv', jobs' = jobs,
         \A j \in Jobs : slack'[j].answers = slack[j].answers,
         \A w \in Workers : Steady(w),
         \A w \in Workers : workers'[w].pc \in Holding
                              => workers'[w].age = workers[w].age
  PROVE  Safe'
<1>1. \A j \in Jobs : Kept(j)
  BY DEF Kept
<1>2. LeaseOfHolder'
  BY DEF LeaseOfHolder, JobOf, Steady, IInv, Safe
<1>3. QED  BY <1>1, <1>2, SteadyStep DEF Safe

\* The worker's steps that only move it on, or write to the ledger.
LEMMA MovesSafe ==
  ASSUME IInv, TypeInv', NEW w \in Workers,
         \/ ClaimGet(w) \/ LeaseRead(w) \/ PipelineAnswers(w) \/ PipelineFails(w)
         \/ RecordUsage(w) \/ RecordAdoption(w) \/ PostFailure(w)
         \/ WorkerTransitionRead(w) \/ Finish(w) \/ WorkerAbort(w)
  PROVE  Safe'
<1> USE DEF IInv, TypeInv, TypeOK
<1>1. jobs' = jobs
  BY DEF ClaimGet, LeaseRead, PipelineAnswers, PipelineFails, RecordUsage,
     RecordAdoption, PostFailure, WorkerTransitionRead, Finish, WorkerAbort
<1>2. \A j \in Jobs : slack'[j].answers = slack[j].answers
  <2>1. CASE PostFailure(w)
    BY <2>1 DEF PostFailure, SlackOK
  <2>2. CASE slack' = slack
    BY <2>2
  <2>3. QED
    BY <2>1, <2>2 DEF ClaimGet, LeaseRead, PipelineAnswers, PipelineFails,
       RecordUsage, RecordAdoption, WorkerTransitionRead, Finish, WorkerAbort
<1>3. \A v \in Workers \ {w} : workers'[v] = workers[v]
  BY DEF ClaimGet, LeaseRead, PipelineAnswers, PipelineFails, RecordUsage,
     RecordAdoption, PostFailure, WorkerTransitionRead, Finish, WorkerAbort,
     Goto, WorkersOK
<1>4. workers'[w].pc \in Holding =>
        /\ workers'[w].job = workers[w].job
        /\ workers'[w].age = workers[w].age
        /\ \/ workers[w].pc = "pipeline" /\ workers'[w].pc = "marking"
           \/ workers[w].pc \in {"billing", "adopting"} /\ workers'[w].pc = "adopting"
  <2>1. CASE PipelineAnswers(w) \/ RecordUsage(w)
    BY <2>1 DEF PipelineAnswers, RecordUsage, At, Goto, WorkersOK, Invocations
  <2>2. CASE workers' = [workers EXCEPT ![w] = IdleWorker]
    BY <2>2 DEF IdleWorker, Holding, Answering, WorkersOK
  <2>3. CASE \/ ClaimGet(w) \/ LeaseRead(w) \/ PipelineFails(w) \/ PostFailure(w)
             \/ RecordAdoption(w) \/ WorkerTransitionRead(w)
    <3>1. \/ workers'[w].pc \in {"done", "claimed", "leasing", "notifying",
                                 "transition", "write"}
          \/ workers'[w] = IdleWorker
      BY <2>3 DEF ClaimGet, LeaseRead, PipelineFails, PostFailure, RecordAdoption,
         WorkerTransitionRead, Goto, WorkersOK, Invocations
    <3>2. QED  BY <3>1 DEF IdleWorker, Holding, Answering
  <2>4. QED  BY <2>1, <2>2, <2>3 DEF Finish, WorkerAbort
<1>5. \A v \in Workers : Steady(v)
  BY <1>3, <1>4 DEF Steady, Holding, Answering
<1>6. \A v \in Workers : workers'[v].pc \in Holding => workers'[v].age = workers[v].age
  BY <1>3, <1>4
<1>7. QED  BY <1>1, <1>2, <1>5, <1>6, QuietStep

\* A read that lags takes nobody into a question: it ends the invocation, lets
\* it go on to find its lease lost, or lets it close a job closed before.
LEMMA LaggingLeaves ==
  ASSUME TypeInv, NEW w \in Workers, WorkerReadLags(w)
  PROVE  /\ UNCHANGED <<jobs, intake, msgs, dlq, reaper, slack, ledger>>
         /\ \A v \in Workers \ {w} : workers'[v] = workers[v]
         /\ workers'[w].pc \in {"idle", "claimed", "done", "write"}
         /\ workers'[w].pc = "write"
              => /\ workers[w].pc = "transition" /\ workers[w].job \in Jobs
                 /\ workers'[w].job = workers[w].job
<1>1. workers[w] \in Invocations
  BY DEF TypeInv, TypeOK, WorkersOK
<1>2. ASSUME NEW pc \in WorkerPc, workers'[w] = [workers[w] EXCEPT !.pc = pc]
      PROVE  workers'[w].pc = pc /\ workers'[w].job = workers[w].job
  BY <1>1, <1>2 DEF Invocations
<1>3. {"claimed", "done", "write"} \subseteq WorkerPc
  BY DEF WorkerPc
<1>4. workers'[w] = IdleWorker => workers'[w].pc = "idle"
  BY DEF IdleWorker
<1>5. workers[w].pc # "idle" => workers[w].job \in Jobs
  BY HolderHasJob
<1>6. TypeOK /\ WorkersInTime
  BY DEF TypeInv
<1>7. /\ workers'[w].pc \in {"idle", "claimed", "done", "write"}
      /\ workers'[w].pc = "write"
           => workers[w].pc = "transition" /\ workers'[w].job = workers[w].job
  BY <1>2, <1>3, <1>4, <1>6, LaggingWorkerMoves
<1>. QED
  BY <1>5, <1>6, <1>7, LaggingWorkerMoves

\* So it is safe, whoever reads.
LEMMA LaggingSafe ==
  ASSUME IInv, TypeInv', ReaperReadLags \/ \E w \in Workers : WorkerReadLags(w)
  PROVE  Safe'
<1>1. UNCHANGED <<jobs, slack>>
  BY LaggingLeaves DEF ReaperReadLags, IInv
<1>2. \A w \in Workers : workers'[w] = workers[w] \/ workers'[w].pc \notin Holding
  BY LaggingLeaves DEF ReaperReadLags, IInv, Holding, Answering
<1>3. \A w \in Workers : Steady(w)
  BY <1>2 DEF Steady
<1>. QED BY <1>1, <1>2, <1>3, QuietStep

\* A transition's write closes the job, whoever makes it: the date it leaves is
\* the latest there is, and a holder may find its question closed under it.
LEMMA ClosingSafe ==
  ASSUME IInv, TypeInv', NEW i \in Jobs, NEW target \in Terminal,
         jobs' = [jobs EXCEPT ![i] = Closed(@, target)],
         slack' = slack,
         \A w \in Workers : \/ workers'[w] = workers[w]
                            \/ workers'[w].pc \notin Holding
  PROVE  Safe'
<1>1. \A w \in Workers : Steady(w)
  BY DEF Steady
<1>2. /\ \A j \in Jobs \ {i} : jobs'[j] = jobs[j]
      /\ jobs'[i] = Closed(jobs[i], target)
  BY DEF IInv, TypeInv, TypeOK, JobsOK
<1>3. /\ Closed(jobs[i], target).status = target
      /\ Closed(jobs[i], target).age = 0
      /\ Closed(jobs[i], target).intent = jobs[i].intent
      /\ Closed(jobs[i], target).stamped = jobs[i].stamped
  BY DEF Closed, IInv, TypeInv, TypeOK, JobsOK, Items
<1>4. \A j \in Jobs : Kept(j)
  BY <1>2, <1>3 DEF Kept
<1>5. LeaseOfHolder'
  <2> SUFFICES ASSUME NEW w \in Workers, workers'[w].pc \in Holding
               PROVE  /\ JobOf(w)'.status \in {"in-progress"} \cup Terminal
                      /\ JobOf(w)'.age <= workers'[w].age
    BY DEF LeaseOfHolder
  <2>1. workers'[w] = workers[w] /\ workers[w].job \in Jobs /\ workers[w].age \in Nat
    BY HolderHasJob DEF IInv, TypeInv, TypeOK, WorkersOK, Invocations, Holding, Answering
  <2>2. CASE workers[w].job = i
    BY <1>2, <1>3, <2>1, <2>2 DEF JobOf
  <2>3. CASE workers[w].job # i
    BY <1>2, <2>1, <2>3 DEF JobOf, IInv, Safe, LeaseOfHolder
  <2>4. QED  BY <2>2, <2>3
<1>6. QED  BY <1>1, <1>4, <1>5, SteadyStep DEF Safe

\* A step of a worker is safe.
LEMMA WorkerStepSafe ==
  ASSUME IInv, TypeInv', NEW w \in Workers, WorkerStep(w)
  PROVE  Safe'
<1>1. CASE WorkerTransitionWrite(w)
  <2>1. workers[w].job \in Jobs /\ workers[w].target \in Terminal
    BY <1>1, HolderHasJob DEF WorkerTransitionWrite, At, IInv, TypeInv, TypeOK,
       WorkersOK, Invocations
  <2>2. \A v \in Workers : workers'[v] = workers[v] \/ workers'[v].pc \notin Holding
    BY <1>1 DEF WorkerTransitionWrite, Goto, IInv, TypeInv, TypeOK, WorkersOK,
       Invocations, Holding, Answering
  <2>3. QED  BY <1>1, <2>1, <2>2, ClosingSafe DEF WorkerTransitionWrite
<1>2. QED
  BY <1>1, LeaseWriteSafe, HolderStepSafe, MovesSafe DEF WorkerStep

\* Intake, the queue and the delivery of a message: nobody holds a question
\* that is only now registered.
LEMMA DeliverySafe ==
  ASSUME IInv, TypeInv',
         \/ \E j \in Jobs : RegisterOrGet(j) \/ IntakeEnqueue(j) \/ IntakeAbort(j)
         \/ \E m, copy \in Msgs : MoveToDlq(m) \/ DuplicateMessage(m, copy)
         \/ \E w \in Workers, m \in Msgs : Receive(w, m)
  PROVE  Safe'
<1> USE DEF IInv, TypeInv, TypeOK
<1>1. ASSUME NEW i \in Jobs, RegisterOrGet(i)
      PROVE  Safe'
  <2>1. /\ \A j \in Jobs \ {i} : jobs'[j] = jobs[j]
        /\ jobs'[i].intent = jobs[i].intent
        /\ jobs'[i].stamped = jobs[i].stamped
        /\ jobs[i].status = "absent"
        /\ slack' = slack
        /\ workers' = workers
    BY <1>1 DEF RegisterOrGet, JobsOK, Items, NoItem
  <2>2. \A w \in Workers : workers[w].pc \in Holding => workers[w].job \in Jobs \ {i}
    BY <2>1, HolderHasJob DEF Safe, LeaseOfHolder, JobOf, Terminal, Holding, Answering
  <2>3. \A w \in Workers : Steady(w)
    BY <2>1 DEF Steady
  <2>4. \A j \in Jobs : Kept(j)
    BY <2>1 DEF Kept
  <2>5. LeaseOfHolder'
    BY <2>1, <2>2 DEF LeaseOfHolder, JobOf, Safe
  <2>6. QED  BY <2>3, <2>4, <2>5, SteadyStep DEF Safe
<1>2. CASE UNCHANGED <<jobs, workers, slack>>
  <2>1. \A w \in Workers : Steady(w)
    BY <1>2 DEF Steady
  <2>2. QED  BY <1>2, <2>1, QuietStep
<1>3. ASSUME NEW w \in Workers, NEW m \in Msgs, Receive(w, m)
      PROVE  Safe'
  <2>1. /\ UNCHANGED <<jobs, slack>>
        /\ \A v \in Workers \ {w} : workers'[v] = workers[v]
        /\ workers'[w].pc = "started"
    BY <1>3 DEF Receive, WorkersOK, IdleWorker
  <2>2. \A v \in Workers : Steady(v)
    BY <2>1 DEF Steady, Holding, Answering
  <2>3. \A v \in Workers : workers'[v].pc \in Holding => workers'[v].age = workers[v].age
    BY <2>1 DEF Holding, Answering
  <2>4. QED  BY <2>1, <2>2, <2>3, QuietStep
<1>4. QED
  BY <1>1, <1>2, <1>3 DEF IntakeEnqueue, IntakeAbort, MoveToDlq, DuplicateMessage

\* The reaper: it takes no lease and posts no answer.
LEMMA ReaperSafe ==
  ASSUME IInv, TypeInv', ReaperStep \/ ReaperAbort
  PROVE  Safe'
<1> USE DEF IInv, TypeInv, TypeOK
<1>1. CASE ReaperTransitionWrite
  <2>1. CASE reaper.job \in Jobs
    BY <1>1, <2>1, ClosingSafe DEF ReaperTransitionWrite, Terminal
  <2>2. CASE reaper.job \notin Jobs
    <3>1. jobs' = jobs /\ slack' = slack /\ workers' = workers
      BY <1>1, <2>2 DEF ReaperTransitionWrite, JobsOK
    <3>2. \A w \in Workers : Steady(w)
      BY <3>1 DEF Steady
    <3>3. QED  BY <3>1, <3>2, QuietStep
  <2>3. QED  BY <2>1, <2>2
<1>2. CASE ~ ReaperTransitionWrite
  <2>1. jobs' = jobs /\ workers' = workers
    BY <1>2 DEF ReaperStep, ReaperScan, ReaperRequeue, ReaperAbandon, ReaperDrain,
       DrainMessage, DrainReceived, AbandonDrained, ReaperPostFailure,
       ReaperTransitionRead, ReaperEnd, ReaperAbort
  <2>2. \A j \in Jobs : slack'[j].answers = slack[j].answers
    <3>1. CASE ReaperPostFailure
      BY <3>1 DEF ReaperPostFailure, SlackOK
    <3>2. CASE ~ ReaperPostFailure
      BY <1>2, <3>2 DEF ReaperStep, ReaperScan, ReaperRequeue, ReaperAbandon,
         ReaperDrain, DrainMessage, DrainReceived, AbandonDrained,
         ReaperTransitionRead, ReaperEnd, ReaperAbort
    <3>3. QED  BY <3>1, <3>2
  <2>3. \A w \in Workers : Steady(w)
    BY <2>1 DEF Steady
  <2>4. QED  BY <2>1, <2>2, <2>3, QuietStep
<1>3. QED  BY <1>1, <1>2

\* Time: the date of a lease and the worker that holds it age together.
LEMMA TickSafe ==
  ASSUME IInv, TypeInv', Tick
  PROVE  Safe'
<1>1. \A w \in Workers : /\ workers[w] \in Invocations
                         /\ workers'[w] = AgedWorker(workers[w])
  BY DEF Tick, IInv, TypeInv, TypeOK, WorkersOK
<1>2. \A w \in Workers :
        /\ workers'[w].pc = workers[w].pc
        /\ workers'[w].job = workers[w].job
        /\ workers[w].pc # "idle" => workers'[w].age = workers[w].age + 1
  BY <1>1, AgedTyped
<1>3. \A j \in Jobs : jobs[j] \in Items /\ jobs'[j] = AgedJob(jobs[j])
  BY DEF Tick, IInv, TypeInv, TypeOK, JobsOK
<1>4. \A item \in Items : /\ AgedJob(item).status = item.status
                          /\ AgedJob(item).intent = item.intent
                          /\ AgedJob(item).stamped = item.stamped
                          /\ AgedJob(item).age <= item.age + 1
  BY TimingAssumption DEF Items, AgedJob, Older, Horizon
<1>5. \A w \in Workers : Steady(w)
  BY <1>2 DEF Steady
<1>6. \A j \in Jobs : Kept(j)
  BY <1>3, <1>4 DEF Kept, Tick
<1>7. LeaseOfHolder'
  <2> SUFFICES ASSUME NEW w \in Workers, workers'[w].pc \in Holding
               PROVE  /\ JobOf(w)'.status \in {"in-progress"} \cup Terminal
                      /\ JobOf(w)'.age <= workers'[w].age
    BY DEF LeaseOfHolder
  <2> DEFINE item == jobs[workers[w].job]
  <2>1. workers[w].pc \in Holding /\ workers[w].job \in Jobs
    BY <1>2, HolderHasJob DEF IInv, Holding, Answering
  <2>2. /\ item.status \in {"in-progress"} \cup Terminal
        /\ item.age <= workers[w].age
    BY <2>1 DEF IInv, Safe, LeaseOfHolder, JobOf
  <2>3. JobOf(w)' = AgedJob(item) /\ item \in Items
    BY <1>2, <1>3, <2>1 DEF JobOf
  <2>4. workers'[w].age = workers[w].age + 1
    BY <1>2, <2>1 DEF Holding, Answering
  <2>5. item.age \in Nat /\ workers[w].age \in Nat /\ AgedJob(item).age \in Nat
    BY <1>1, <2>3, TimingAssumption DEF Items, Invocations, AgedJob, Older, Horizon
  <2> HIDE DEF item
  <2>6. QED  BY <1>4, <2>2, <2>3, <2>4, <2>5
<1>8. QED  BY <1>5, <1>6, <1>7, SteadyStep DEF Safe

\* The invariant is inductive.
LEMMA StepSafe == IInv /\ [Next]_vars => IInv'
<1> SUFFICES ASSUME IInv, [Next]_vars  PROVE IInv'
  OBVIOUS
<1>1. TypeInv'
  BY StepTyped DEF IInv, TypeInv
<1>2. CASE UNCHANGED vars
  BY <1>2 DEF vars, IInv, TypeInv, TypeOK, JobsOK, QueueOK, WorkersOK, ReaperOK,
     SlackOK, LedgerOK, WorkersInTime, Safe, LeaseOfHolder, SingleHolder,
     NoWorkAfterIntent, AnswerBehindIntent, AtMostOneAnswer, JobOf
<1>3. CASE Next
  <2>1. Safe'
    BY <1>1, <1>3, WorkerStepSafe, MovesSafe, DeliverySafe, ReaperSafe, TickSafe,
       LaggingSafe DEF Next
  <2>2. QED  BY <1>1, <2>1 DEF IInv
<1>4. QED  BY <1>2, <1>3

\* The inductive invariant holds in every behaviour.
THEOREM Invariance == Spec => []IInv
<1>1. QED  BY InitSafe, StepSafe, PTL DEF Spec

\* BR-027: a question gets at most one answer.
THEOREM AnsweredOnce == Spec => []AtMostOneAnswer
<1>1. IInv => AtMostOneAnswer
  BY DEF IInv, Safe
<1>2. QED  BY <1>1, Invariance, PTL

\* BR-027: no two workers work on one question.
THEOREM OneHolder == Spec => []SingleHolder
<1>1. IInv => SingleHolder
  BY DEF IInv, Safe
<1>2. QED  BY <1>1, Invariance, PTL

\* claim_and_guard: no work on a question whose post was attempted.
THEOREM NoRepost == Spec => []NoWorkAfterIntent
<1>1. IInv => NoWorkAfterIntent
  BY DEF IInv, Safe
<1>2. QED  BY <1>1, Invariance, PTL

\* A worker in time holds a lease that looks live.
LEMMA HeldIsLive ==
  ASSUME IInv, NEW w \in Workers, workers[w].pc \in Holding, workers[w].job \in Jobs
  PROVE  ~ IsLeaseStale(JobOf(w), Staleness)
<1>1. /\ JobOf(w).age \in Nat
      /\ JobOf(w).age <= workers[w].age
      /\ workers[w].age \in Nat
      /\ workers[w].age <= LambdaTimeout
  BY DEF IInv, TypeInv, TypeOK, JobsOK, Items, WorkersOK, Invocations,
         WorkersInTime, Safe, LeaseOfHolder, JobOf
<1>2. QED  BY <1>1, TimingAssumption DEF IsLeaseStale

\* rules.is_lease_stale: the item of a question in work never looks stale.
THEOREM LiveNeverStale == Spec => []LiveLeaseNeverStale
<1>1. IInv => LiveLeaseNeverStale
  BY HeldIsLive DEF LiveLeaseNeverStale, Holders, JobOf
<1>2. QED  BY <1>1, Invariance, PTL

\* BR-011: a closed question is never put back in flight nor attempted again.
THEOREM ClosedForGood == Spec => ClosedStaysClosed
<1>1. ASSUME IInv, [Next]_vars, NEW j \in Jobs, IsTerminal(jobs[j])
      PROVE  IsTerminal(jobs'[j]) /\ jobs'[j].attempts = jobs[j].attempts
  <2>1. \A item \in Items, target \in Terminal :
          /\ IsTerminal(Closed(item, target))
          /\ Closed(item, target).attempts = item.attempts
    BY DEF Items, Closed, IsTerminal
  <2>2. jobs \in [Jobs -> Items]
    BY <1>1 DEF IInv, TypeInv, TypeOK, JobsOK
  <2>3. CASE jobs' = jobs
    BY <1>1, <2>3
  <2>4. CASE Tick
    BY <1>1, <2>4 DEF Tick, AgedJob, IsTerminal, Terminal, InFlight
  <2>5. ASSUME NEW i \in Jobs, NEW target \in Terminal,
               jobs' = [jobs EXCEPT ![i] = Closed(@, target)]
        PROVE  IsTerminal(jobs'[j]) /\ jobs'[j].attempts = jobs[j].attempts
    BY <1>1, <2>1, <2>2, <2>5
  <2>6. ASSUME NEW i \in Jobs, RegisterOrGet(i)
        PROVE  IsTerminal(jobs'[j]) /\ jobs'[j].attempts = jobs[j].attempts
    BY <1>1, <2>2, <2>6 DEF RegisterOrGet, NoItem, IsTerminal, Terminal
  <2>7. ASSUME NEW w \in Workers, WorkerStep(w)
        PROVE  IsTerminal(jobs'[j]) /\ jobs'[j].attempts = jobs[j].attempts
    <3>1. CASE LeaseWrite(w)
      <4>1. \/ jobs' = jobs
            \/ workers[w].job # j /\ jobs'[j] = jobs[j]
        BY <1>1, <2>2, <3>1 DEF LeaseWrite, LeaseFree, JobOf, IsTerminal, Terminal
      <4>2. QED  BY <1>1, <4>1
    <3>2. CASE WorkerTransitionWrite(w)
      <4>1. workers[w].job \in Jobs /\ workers[w].target \in Terminal
        BY <1>1, <3>2, HolderHasJob DEF WorkerTransitionWrite, At, IInv, TypeInv,
           TypeOK, WorkersOK, Invocations
      <4>2. QED  BY <2>5, <3>2, <4>1 DEF WorkerTransitionWrite
    <3>3. CASE MarkPostIntent(w) \/ StampAnswerTs(w)
      <4>1. jobs'[j].status = jobs[j].status /\ jobs'[j].attempts = jobs[j].attempts
        BY <2>2, <3>3 DEF MarkPostIntent, StampAnswerTs, Items
      <4>2. QED  BY <1>1, <4>1 DEF IsTerminal
    <3>4. QED
      BY <2>3, <2>7, <3>1, <3>2, <3>3 DEF WorkerStep, ClaimGet, LeaseRead,
         PipelineAnswers, PipelineFails, PostAnswer, RecordUsage, RecordAdoption,
         PostFailure, WorkerTransitionRead, Finish
  <2>8. CASE ReaperTransitionWrite
    <3>1. reaper.job \notin Jobs => jobs' = jobs
      BY <2>2, <2>8 DEF ReaperTransitionWrite
    <3>2. QED  BY <2>3, <2>5, <2>8, <3>1 DEF ReaperTransitionWrite, Terminal
  <2>9. CASE UNCHANGED vars
    BY <2>3, <2>9 DEF vars
  <2>10. QED
    <3>1. (ReaperStep \/ ReaperAbort) /\ ~ ReaperTransitionWrite => jobs' = jobs
      BY DEF ReaperStep, ReaperAbort, ReaperScan, ReaperRequeue, ReaperAbandon,
         ReaperDrain, DrainMessage, DrainReceived, AbandonDrained,
         ReaperPostFailure, ReaperTransitionRead, ReaperEnd
    <3>2. QED
      BY <1>1, <2>3, <2>4, <2>6, <2>7, <2>8, <2>9, <3>1
         DEF Next, IntakeEnqueue, IntakeAbort, MoveToDlq, DuplicateMessage,
             Receive, WorkerAbort, WorkerReadLags, ReaperReadLags
<1>2. IInv /\ [Next]_vars
        => [\A j \in Jobs : IsTerminal(jobs[j])
              => IsTerminal(jobs'[j]) /\ jobs'[j].attempts = jobs[j].attempts]_vars
  BY <1>1
<1>3. QED  BY <1>2, Invariance, PTL DEF Spec, ClosedStaysClosed

-----------------------------------------------------------------------------
(* Three more facts: a question that is worked on or recovered has an item,  *)
(* only an answer that was posted is billed, and what the scan found to be   *)
(* exhausted stays so.                                                       *)

\* Past its claim a worker has an item before it; so has what is abandoned.
Present ==
  /\ \A j \in Jobs : jobs[j].status = "absent" => jobs[j] = NoItem
  /\ \A w \in Workers : workers[w].pc \notin {"idle", "started", "claimed", "done"}
                          => JobOf(w).status # "absent"
  /\ \A j \in Jobs : j \in reaper.abandon \/ reaper.job = j => jobs[j].status # "absent"

\* What the code bills: one exchange of a question, after its answer was posted.
BilledBehindAnswer ==
  \A j \in Jobs : /\ ledger[j].usage <= slack[j].answers
                  /\ ledger[j].adopted => ledger[j].usage = 1

\* From the pipeline's answer to its billing a worker owes the bill.
OwesTheBill ==
  \A w \in Workers : workers[w].pc \in {"marking", "posting", "stamping", "billing"}
                        => workers[w].unbilled

\* The worker that goes on to bill has posted, and nobody billed before it.
BilledByHolder ==
  /\ BilledBehindAnswer
  /\ \A w \in Workers :
       /\ workers[w].pc \in {"stamping", "billing"}
            => slack[workers[w].job].answers = 1 /\ ledger[workers[w].job].usage = 0
       /\ workers[w].pc = "adopting" => ledger[workers[w].job].usage = 1

\* What recover_stale gives up had no attempt left when it was read, and so has
\* none now; what somebody works on was leased with one to spare.
ExhaustedForGood ==
  /\ \A w \in Workers : workers[w].pc \in Holding
                          => ~ AttemptsExhausted(JobOf(w), MaxAttempts)
  /\ \A j \in Jobs : j \in reaper.abandon \/ (reaper.job = j /\ reaper.back = "recovering")
                       => AttemptsExhausted(jobs[j], MaxAttempts)

JInv == IInv /\ Present /\ BilledByHolder /\ OwesTheBill /\ ExhaustedForGood

\* What a step may do to the job table.
LEMMA JobWrites ==
  ASSUME IInv, [Next]_vars
  PROVE  \/ jobs' = jobs
         \/ Tick
         \/ \E i \in Jobs : RegisterOrGet(i)
         \/ \E w \in Workers : LeaseWrite(w) \/ MarkPostIntent(w) \/ StampAnswerTs(w)
         \/ \E i \in Jobs, target \in Terminal : jobs' = [jobs EXCEPT ![i] = Closed(@, target)]
<1>1. CASE \E w \in Workers : WorkerStep(w)
  <2>1. PICK w \in Workers : WorkerStep(w)
    BY <1>1
  <2>2. CASE WorkerTransitionWrite(w)
    <3>1. workers[w].job \in Jobs /\ workers[w].target \in Terminal
      BY <2>2, HolderHasJob DEF WorkerTransitionWrite, At, IInv, TypeInv, TypeOK,
         WorkersOK, Invocations
    <3>. QED BY <2>2, <3>1 DEF WorkerTransitionWrite
  <2>. QED
    BY <2>1, <2>2 DEF WorkerStep, ClaimGet, LeaseRead, PipelineAnswers, PipelineFails,
       PostAnswer, RecordUsage, RecordAdoption, PostFailure, WorkerTransitionRead, Finish
<1>2. CASE ReaperTransitionWrite
  <2>1. reaper.job \notin Jobs => jobs' = jobs
    BY <1>2 DEF ReaperTransitionWrite, IInv, TypeInv, TypeOK, JobsOK
  <2>. QED BY <1>2, <2>1 DEF ReaperTransitionWrite, Terminal
<1>3. CASE (ReaperStep \/ ReaperAbort) /\ ~ ReaperTransitionWrite
  BY <1>3 DEF ReaperStep, ReaperAbort, ReaperScan, ReaperRequeue, ReaperAbandon,
     ReaperDrain, DrainMessage, DrainReceived, AbandonDrained, ReaperPostFailure,
     ReaperTransitionRead, ReaperEnd
<1>4. CASE UNCHANGED vars
  BY <1>4 DEF vars
<1>. QED
  BY <1>1, <1>2, <1>3, <1>4
     DEF Next, IntakeEnqueue, IntakeAbort, MoveToDlq, DuplicateMessage, Receive, WorkerAbort,
         WorkerReadLags, ReaperReadLags

\* An item, once there, stays; a step that leaves none leaves it as it was.
LEMMA ItemsStay ==
  ASSUME IInv, Present, [Next]_vars, NEW j \in Jobs
  PROVE  /\ jobs[j].status # "absent" => jobs'[j].status # "absent"
         /\ jobs'[j].status = "absent" => jobs'[j] = jobs[j]
         /\ jobs'[j].attempts >= jobs[j].attempts
<1>1. /\ jobs \in [Jobs -> Items] /\ jobs[j] \in Items /\ jobs[j].attempts \in Nat
      /\ \A w \in Workers : workers[w].claim \in Nat
  BY DEF IInv, TypeInv, TypeOK, JobsOK, Items, WorkersOK, Invocations
<1>2. CASE jobs' = jobs
  BY <1>1, <1>2
<1>3. CASE Tick
  <2>1. jobs'[j] = AgedJob(jobs[j])
    BY <1>3 DEF Tick
  <2>. QED BY <1>1, <2>1 DEF AgedJob, InFlight, Items
<1>4. ASSUME NEW i \in Jobs, RegisterOrGet(i)
      PROVE  /\ jobs[j].status # "absent" => jobs'[j].status # "absent"
             /\ jobs'[j].status = "absent" => jobs'[j] = jobs[j]
             /\ jobs'[j].attempts >= jobs[j].attempts
  <2>1. jobs' = [jobs EXCEPT ![i] = [jobs[i] EXCEPT !.status = "seen"]]
    BY <1>4 DEF RegisterOrGet
  <2>. QED BY <1>1, <2>1 DEF Items
<1>5. ASSUME NEW w \in Workers, MarkPostIntent(w) \/ StampAnswerTs(w)
      PROVE  /\ jobs[j].status # "absent" => jobs'[j].status # "absent"
             /\ jobs'[j].status = "absent" => jobs'[j] = jobs[j]
             /\ jobs'[j].attempts >= jobs[j].attempts
  <2>1. JobOf(w).status # "absent"
    BY <1>5 DEF Present, MarkPostIntent, StampAnswerTs, At
  <2>2. jobs'[j].status = jobs[j].status /\ jobs'[j].attempts = jobs[j].attempts
        /\ (workers[w].job # j => jobs'[j] = jobs[j])
    BY <1>1, <1>5 DEF MarkPostIntent, StampAnswerTs, Items
  <2>. QED BY <1>1, <2>1, <2>2 DEF JobOf
<1>6. ASSUME NEW w \in Workers, LeaseWrite(w)
      PROVE  /\ jobs[j].status # "absent" => jobs'[j].status # "absent"
             /\ jobs'[j].status = "absent" => jobs'[j] = jobs[j]
             /\ jobs'[j].attempts >= jobs[j].attempts
  <2>1. jobs' = jobs \/ jobs' = [jobs EXCEPT ![workers[w].job]
                                   = Leased(JobOf(w), workers[w].claim)]
    BY <1>6 DEF LeaseWrite
  <2>2. CASE workers[w].job = j
    <3>1. /\ Leased(JobOf(w), workers[w].claim).status = "in-progress"
          /\ Leased(JobOf(w), workers[w].claim).attempts = jobs[j].attempts + 1
      BY <1>1, <2>2, LeasedFields, LeasedCounts DEF JobOf
    <3>. QED BY <1>1, <2>1, <2>2, <3>1
  <2>. QED BY <1>1, <2>1, <2>2
<1>7. ASSUME NEW i \in Jobs, NEW target \in Terminal,
             jobs' = [jobs EXCEPT ![i] = Closed(@, target)]
      PROVE  /\ jobs[j].status # "absent" => jobs'[j].status # "absent"
             /\ jobs'[j].status = "absent" => jobs'[j] = jobs[j]
             /\ jobs'[j].attempts >= jobs[j].attempts
  <2>1. \A item \in Items : Closed(item, target).status = target
                            /\ Closed(item, target).attempts = item.attempts
    BY DEF Items, Closed
  <2>. QED BY <1>1, <1>7, <2>1 DEF Terminal
<1>. QED BY <1>2, <1>3, <1>4, <1>5, <1>6, <1>7, JobWrites

\* How a worker comes past its claim: from where it was past it, or by finding
\* an item to lease.
LEMMA WorkersMove ==
  ASSUME IInv, [Next]_vars, NEW w \in Workers,
         workers'[w].pc \notin {"idle", "started", "claimed", "done"}
  PROVE  /\ workers'[w].job = workers[w].job /\ workers[w].job \in Jobs
         /\ \/ workers[w].pc \notin {"idle", "started", "claimed", "done"}
            \/ JobOf(w) # NoItem
<1>1. /\ workers \in [Workers -> Invocations]
      /\ workers[w].pc # "idle" => workers[w].job \in Jobs
  BY HolderHasJob DEF IInv, TypeInv, TypeOK, WorkersOK
<1>2. CASE workers' = workers
  BY <1>1, <1>2
<1>3. CASE Tick
  <2>1. workers[w] \in Invocations /\ workers'[w] = AgedWorker(workers[w])
    BY <1>1, <1>3 DEF Tick
  <2>. QED BY <1>1, <2>1, AgedTyped
<1>4. ASSUME NEW v \in Workers, WorkerStep(v), v # w
      PROVE  workers'[w] = workers[w]
  BY <1>4, WorkerStepTyped DEF IInv, TypeInv
<1>5. CASE WorkerStep(w)
  <2>1. CASE workers' = [workers EXCEPT ![w] = IdleWorker]
    BY <1>1, <2>1 DEF IdleWorker
  <2>2. CASE ClaimGet(w)
    BY <1>1, <2>2 DEF ClaimGet, Goto, Invocations
  <2>3. CASE LeaseRead(w)
    <3>1. CASE JobOf(w) = NoItem
      BY <1>1, <2>3, <3>1 DEF LeaseRead, Goto, Invocations
    <3>2. workers'[w].job = workers[w].job /\ workers[w].pc = "claimed"
      BY <1>1, <2>3 DEF LeaseRead, Goto, At, Invocations
    <3>. QED BY <1>1, <3>1, <3>2
  <2>4. CASE RecordAdoption(w)
    BY <1>1, <2>4 DEF RecordAdoption, At, Invocations
  <2>5. CASE LeaseWrite(w)
    BY <1>1, <2>5 DEF LeaseWrite, At, Invocations
  <2>6. CASE \/ PipelineAnswers(w) \/ PipelineFails(w) \/ MarkPostIntent(w)
             \/ PostAnswer(w) \/ StampAnswerTs(w) \/ RecordUsage(w) \/ PostFailure(w)
             \/ WorkerTransitionWrite(w)
    BY <1>1, <2>6 DEF PipelineAnswers, PipelineFails, MarkPostIntent, PostAnswer,
       StampAnswerTs, RecordUsage, PostFailure, WorkerTransitionWrite, Goto, At, Invocations
  <2>7. CASE WorkerTransitionRead(w)
    BY <1>1, <2>1, <2>7 DEF WorkerTransitionRead, Goto, At, Invocations
  <2>8. CASE Finish(w)
    BY <2>1, <2>8 DEF Finish
  <2>. QED  BY <1>5, <2>2, <2>3, <2>4, <2>5, <2>6, <2>7, <2>8 DEF WorkerStep
<1>6. ASSUME NEW v \in Workers, NEW m \in Msgs, Receive(v, m)
      PROVE  workers'[w] = workers[w]
  BY <1>1, <1>6 DEF Receive, IdleWorker
<1>7. ASSUME NEW v \in Workers, WorkerAbort(v)
      PROVE  workers'[w] = workers[w]
  BY <1>1, <1>7 DEF WorkerAbort, IdleWorker
<1>8. ReaperStep \/ ReaperAbort => workers' = workers
  BY DEF ReaperStep, ReaperAbort, ReaperScan, ReaperRequeue, ReaperAbandon, ReaperDrain,
     DrainMessage, DrainReceived, AbandonDrained, ReaperPostFailure,
     ReaperTransitionRead, ReaperTransitionWrite, ReaperEnd
<1>9. ASSUME NEW v \in Workers, WorkerReadLags(v)
      PROVE  \/ workers'[w] = workers[w]
             \/ /\ workers'[w].job = workers[w].job /\ workers[w].job \in Jobs
                /\ workers[w].pc = "transition"
  BY <1>9, LaggingLeaves DEF IInv
<1>. QED
  BY <1>1, <1>2, <1>3, <1>4, <1>5, <1>6, <1>7, <1>8, <1>9
     DEF Next, vars, RegisterOrGet, IntakeEnqueue, IntakeAbort, MoveToDlq, DuplicateMessage,
         ReaperReadLags

\* What the reaper comes to abandon: what it had on its list, an item that was
\* exhausted when its scan read it and so is now, or a drained job that has one.
LEMMA ReaperMoves ==
  ASSUME IInv, [Next]_vars, NEW j \in Jobs
  PROVE  /\ j \in reaper'.abandon
              => \/ j \in reaper.abandon
                 \/ jobs[j] # NoItem /\ AttemptsExhausted(jobs[j], MaxAttempts)
         /\ reaper'.job = j
              => \/ reaper.job = j /\ reaper'.back = reaper.back
                 \/ j \in reaper.abandon
                 \/ jobs[j] # NoItem /\ reaper'.back = "abandoning"
<1>1. reaper \in ReaperRuns
  BY DEF IInv, TypeInv, TypeOK, ReaperOK
<1>2. CASE reaper' = reaper
  BY <1>2
<1>3. CASE Tick \/ ReaperDrain \/ DrainReceived \/ ReaperPostFailure \/ ReaperTransitionRead
           \/ ReaperEnd \/ ReaperAbort
  BY <1>1, <1>3, NamesAssumption DEF Tick, ReaperDrain, DrainReceived, ReaperPostFailure,
     ReaperTransitionRead, ReaperEnd, ReaperAbort, ReaperRuns, IdleReaper
<1>4. CASE ReaperScan
  <2>1. j \in ExhaustedJobs => jobs[j] # NoItem /\ AttemptsExhausted(jobs[j], MaxAttempts)
    BY DEF ExhaustedJobs, StaleJobs, IsLeaseStale, InFlight, NoItem
  <2>. QED BY <1>4, <2>1, NamesAssumption DEF ReaperScan, IdleReaper
<1>5. CASE ReaperTransitionWrite
  <2> DEFINE moved == [reaper EXCEPT !.pc = reaper.back]
  <2>1. moved \in ReaperRuns /\ moved.abandon = reaper.abandon
    BY <1>1 DEF ReaperRuns, ReaperPc
  <2>2. reaper' = [moved EXCEPT !.job = NoJob]
    BY <1>5 DEF ReaperTransitionWrite
  <2> HIDE DEF moved
  <2>. QED BY <2>1, <2>2, NamesAssumption DEF ReaperRuns
<1>6. ASSUME NEW i \in Jobs, ReaperRequeue(i) \/ DrainMessage(i)
      PROVE  /\ reaper'.abandon \subseteq reaper.abandon
             /\ \/ reaper'.job = reaper.job /\ reaper'.back = reaper.back
                \/ reaper'.job = NoJob
  <2>1. CASE reaper' = IdleReaper
    BY <1>1, <2>1 DEF IdleReaper
  <2>2. CASE reaper' # IdleReaper
    BY <1>1, <1>6, <2>2 DEF ReaperRequeue, DrainMessage, ReaperRuns
  <2>. QED BY <2>1, <2>2
<1>7. \A run \in ReaperRuns, i \in Jobs, back \in {"recovering", "abandoning"} :
        /\ Abandoning(run, i, back).abandon = run.abandon
        /\ Abandoning(run, i, back).job = i
        /\ Abandoning(run, i, back).back = back
  <2> TAKE run \in ReaperRuns, i \in Jobs, back \in {"recovering", "abandoning"}
  <2> DEFINE at == [run EXCEPT !.pc = "notifying"]
             of == [at EXCEPT !.job = i]
  <2>1. at \in ReaperRuns /\ at.abandon = run.abandon
    BY DEF ReaperRuns, ReaperPc
  <2>2. Abandoning(run, i, back) = [of EXCEPT !.back = back]
    BY DEF Abandoning
  <2> HIDE DEF at
  <2>3. of \in ReaperRuns /\ of.abandon = run.abandon /\ of.job = i
    BY <2>1 DEF ReaperRuns
  <2> HIDE DEF of
  <2>. QED BY <2>2, <2>3 DEF ReaperRuns
<1>8. ASSUME NEW i \in Jobs, ReaperAbandon(i)
      PROVE  /\ reaper'.abandon \subseteq reaper.abandon
             /\ reaper'.job = i /\ i \in reaper.abandon
  <2> DEFINE rest == [reaper EXCEPT !.abandon = @ \ {i}]
  <2>1. rest \in ReaperRuns /\ rest.abandon = reaper.abandon \ {i}
    BY <1>1 DEF ReaperRuns
  <2>2. reaper' = Abandoning(rest, i, "recovering") /\ i \in reaper.abandon
    BY <1>8 DEF ReaperAbandon
  <2> HIDE DEF rest
  <2>. QED BY <1>7, <2>1, <2>2
<1>9. ASSUME NEW i \in Jobs, AbandonDrained(i)
      PROVE  /\ reaper'.abandon = reaper.abandon
             /\ \/ reaper'.job = reaper.job /\ reaper'.back = reaper.back
                \/ reaper'.job = i /\ jobs[i] # NoItem /\ reaper'.back = "abandoning"
  <2> DEFINE rest == [reaper EXCEPT !.drained = @ \ {i}]
  <2>1. /\ rest \in ReaperRuns /\ rest.abandon = reaper.abandon
        /\ rest.job = reaper.job /\ rest.back = reaper.back
    BY <1>1 DEF ReaperRuns
  <2>2. \/ reaper' = rest
        \/ jobs[i] # NoItem /\ reaper' = Abandoning(rest, i, "abandoning")
    BY <1>9 DEF AbandonDrained
  <2> HIDE DEF rest
  <2>. QED BY <1>7, <2>1, <2>2
<1>10. (\E w \in Workers : WorkerStep(w)) => reaper' = reaper
  BY DEF WorkerStep, ClaimGet, LeaseRead, LeaseWrite, PipelineAnswers, PipelineFails,
     MarkPostIntent, PostAnswer, StampAnswerTs, RecordUsage, RecordAdoption, PostFailure,
     WorkerTransitionRead, WorkerTransitionWrite, Finish
<1>11. CASE LaggingScan
  <2>1. PICK requeue, abandon \in SUBSET {i \in ScanPage : jobs[i] # NoItem} :
          /\ \A i \in abandon : \E n \in LaggingAttempts(jobs[i]) : n >= MaxAttempts
          /\ reaper' = [IdleReaper EXCEPT !.pc = "recovering", !.requeue = requeue,
                                          !.abandon = abandon]
    BY <1>11 DEF LaggingScan
  <2>2. reaper'.abandon = abandon /\ reaper'.job = NoJob
    BY <2>1 DEF IdleReaper
  <2>3. j \in abandon => jobs[j] # NoItem /\ AttemptsExhausted(jobs[j], MaxAttempts)
    <3>1. jobs[j].attempts \in Nat
      BY DEF IInv, TypeInv, TypeOK, JobsOK, Items
    <3>2. \A n \in LaggingAttempts(jobs[j]) : n \in Nat /\ n <= jobs[j].attempts
      BY <3>1 DEF LaggingAttempts
    <3>. QED BY <2>1, <3>1, <3>2, BoundsAssumption DEF AttemptsExhausted
  <2>. QED BY <2>2, <2>3, NamesAssumption
<1>12. ASSUME NEW i \in Jobs, LaggingDrainGet(i)
      PROVE  /\ reaper'.abandon = reaper.abandon
             /\ \/ reaper'.job = reaper.job /\ reaper'.back = reaper.back
                \/ reaper'.job = i /\ jobs[i] # NoItem /\ reaper'.back = "abandoning"
  <2> DEFINE rest == [reaper EXCEPT !.drained = @ \ {i}]
  <2>1. /\ rest \in ReaperRuns /\ rest.abandon = reaper.abandon
        /\ rest.job = reaper.job /\ rest.back = reaper.back
    BY <1>1 DEF ReaperRuns
  <2>2. \/ reaper' = rest
        \/ jobs[i] # NoItem /\ reaper' = Abandoning(rest, i, "abandoning")
    BY <1>12 DEF LaggingDrainGet
  <2> HIDE DEF rest
  <2>. QED BY <1>7, <2>1, <2>2
<1>13. CASE LaggingReaperTransitionRead
  BY <1>1, <1>13, NamesAssumption DEF LaggingReaperTransitionRead, ReaperRuns, IdleReaper
<1>. QED
  BY <1>2, <1>3, <1>4, <1>5, <1>6, <1>8, <1>9, <1>10, <1>11, <1>12, <1>13, NamesAssumption
     DEF Next, ReaperStep, vars, RegisterOrGet, IntakeEnqueue, IntakeAbort, MoveToDlq,
         DuplicateMessage, Receive, WorkerAbort, WorkerReadLags, ReaperReadLags

\* What is worked on or abandoned goes on having an item.
LEMMA StepPresent ==
  ASSUME IInv, Present, [Next]_vars
  PROVE  Present'
<1>1. \A j \in Jobs : jobs'[j].status = "absent" => jobs'[j] = NoItem
  BY ItemsStay DEF Present
<1>2. ASSUME NEW w \in Workers, workers'[w].pc \notin {"idle", "started", "claimed", "done"}
      PROVE  jobs'[workers'[w].job].status # "absent"
  <2>1. /\ workers'[w].job = workers[w].job /\ workers[w].job \in Jobs
        /\ jobs[workers[w].job].status # "absent"
    BY <1>2, WorkersMove DEF Present, JobOf
  <2>. QED BY <2>1, ItemsStay
<1>3. ASSUME NEW j \in Jobs, j \in reaper'.abandon \/ reaper'.job = j
      PROVE  jobs'[j].status # "absent"
  <2>2. jobs[j].status # "absent"
    BY <1>3, ReaperMoves DEF Present
  <2>. QED BY <2>2, ItemsStay
<1>. QED BY <1>1, <1>2, <1>3 DEF Present, JobOf

\* How a worker comes to be at a step of holding a question.
LEMMA HoldersMove ==
  ASSUME IInv, [Next]_vars, NEW w \in Workers, workers'[w].pc \in Holding
  PROVE  /\ workers'[w].job = workers[w].job /\ workers[w].job \in Jobs
         /\ \/ workers[w].pc = workers'[w].pc
            \/ LeaseWrite(w) /\ workers'[w].pc = "pipeline"
            \/ /\ workers[w].pc = "pipeline" /\ workers'[w].pc = "marking"
               /\ workers'[w].unbilled
            \/ MarkPostIntent(w) /\ workers'[w].pc = "posting"
            \/ PostAnswer(w) /\ workers'[w].pc = "stamping"
            \/ workers[w].pc = "stamping" /\ workers'[w].pc = "billing"
            \/ RecordUsage(w) /\ workers'[w].pc = "adopting"
         /\ \/ workers'[w].unbilled = workers[w].unbilled
            \/ workers'[w].pc = "marking" /\ workers'[w].unbilled
            \/ workers'[w].pc = "adopting"
<1>1. /\ workers \in [Workers -> Invocations]
      /\ workers'[w].job = workers[w].job /\ workers[w].job \in Jobs
  BY WorkersMove DEF IInv, TypeInv, TypeOK, WorkersOK, Holding, Answering
<1>2. CASE workers' = workers
  BY <1>1, <1>2
<1>3. CASE Tick
  <2>1. workers[w] \in Invocations /\ workers'[w] = AgedWorker(workers[w])
    BY <1>1, <1>3 DEF Tick
  <2>. QED BY <1>1, <2>1, AgedTyped
<1>4. ASSUME NEW v \in Workers, WorkerStep(v), v # w
      PROVE  workers'[w] = workers[w]
  BY <1>4, WorkerStepTyped DEF IInv, TypeInv
<1>5. CASE WorkerStep(w)
  <2>1. workers' # [workers EXCEPT ![w] = IdleWorker]
    BY <1>1 DEF IdleWorker, Holding, Answering
  <2>2. ASSUME NEW pc, Goto(w, pc)
        PROVE  workers'[w].pc = pc /\ workers'[w].unbilled = workers[w].unbilled
    BY <1>1, <2>2 DEF Goto, Invocations
  <2>3. CASE LeaseWrite(w)
    BY <1>1, <2>3 DEF LeaseWrite, ClaimStep, Holding, Answering, Invocations
  <2>4. ~ LeaseRead(w)
    BY <1>1 DEF LeaseRead, Goto, Holding, Answering, Invocations
  <2>5. ~ RecordAdoption(w)
    BY <1>1 DEF RecordAdoption, Holding, Answering, Invocations
  <2>6. ~ ClaimGet(w) /\ ~ PipelineFails(w) /\ ~ PostFailure(w) /\ ~ WorkerTransitionWrite(w)
    BY <1>1, <2>2 DEF ClaimGet, PipelineFails, PostFailure, WorkerTransitionWrite, Holding,
       Answering, Invocations
  <2>7. ~ WorkerTransitionRead(w) /\ ~ Finish(w)
    BY <2>1, <2>2 DEF WorkerTransitionRead, Finish, Holding, Answering
  <2>8. CASE \/ PipelineAnswers(w) \/ MarkPostIntent(w) \/ PostAnswer(w)
             \/ StampAnswerTs(w) \/ RecordUsage(w)
    BY <1>1, <2>2, <2>8 DEF PipelineAnswers, MarkPostIntent, PostAnswer, StampAnswerTs,
       RecordUsage, At, Invocations
  <2>. QED  BY <1>1, <1>5, <2>3, <2>4, <2>5, <2>6, <2>7, <2>8 DEF WorkerStep
<1>6. ASSUME NEW v \in Workers, NEW m \in Msgs, Receive(v, m)
      PROVE  workers'[w] = workers[w]
  BY <1>1, <1>6 DEF Receive, IdleWorker, Holding, Answering
<1>7. ASSUME NEW v \in Workers, WorkerAbort(v)
      PROVE  workers'[w] = workers[w]
  BY <1>1, <1>7 DEF WorkerAbort, IdleWorker, Holding, Answering
<1>8. ReaperStep \/ ReaperAbort => workers' = workers
  BY DEF ReaperStep, ReaperAbort, ReaperScan, ReaperRequeue, ReaperAbandon, ReaperDrain,
     DrainMessage, DrainReceived, AbandonDrained, ReaperPostFailure,
     ReaperTransitionRead, ReaperTransitionWrite, ReaperEnd
<1>9. ASSUME NEW v \in Workers, WorkerReadLags(v)
      PROVE  workers'[w] = workers[w]
  BY <1>9, LaggingLeaves DEF IInv, Holding, Answering
<1>. QED
  BY <1>1, <1>2, <1>3, <1>4, <1>5, <1>6, <1>7, <1>8, <1>9
     DEF Next, vars, RegisterOrGet, IntakeEnqueue, IntakeAbort, MoveToDlq, DuplicateMessage,
         ReaperReadLags

\* Only a post adds an answer, and only the two steps after it write the ledger.
LEMMA AnswersAndLedger ==
  ASSUME IInv, [Next]_vars
  PROVE  /\ \/ \E w \in Workers : PostAnswer(w)
            \/ \A j \in Jobs : slack'[j].answers = slack[j].answers
         /\ \/ \E w \in Workers : RecordUsage(w) \/ RecordAdoption(w)
            \/ ledger' = ledger
<1>1. slack \in [Jobs -> [answers : Nat, notices : Nat]]
  BY DEF IInv, TypeInv, TypeOK, SlackOK
<1>2. ASSUME NEW w \in Workers, WorkerStep(w)
      PROVE  /\ PostAnswer(w) \/ \A j \in Jobs : slack'[j].answers = slack[j].answers
             /\ RecordUsage(w) \/ RecordAdoption(w) \/ ledger' = ledger
  <2>1. CASE PostFailure(w)
    BY <1>1, <2>1 DEF PostFailure
  <2>. QED
    BY <1>2, <2>1 DEF WorkerStep, ClaimGet, LeaseRead, LeaseWrite, PipelineAnswers,
       PipelineFails, MarkPostIntent, PostAnswer, StampAnswerTs, RecordUsage,
       RecordAdoption, WorkerTransitionRead, WorkerTransitionWrite, Finish
<1>3. CASE ReaperPostFailure
  BY <1>1, <1>3 DEF ReaperPostFailure
<1>4. CASE (ReaperStep \/ ReaperAbort) /\ ~ ReaperPostFailure
  BY <1>4 DEF ReaperStep, ReaperAbort, ReaperScan, ReaperRequeue, ReaperAbandon,
     ReaperDrain, DrainMessage, DrainReceived, AbandonDrained, ReaperTransitionRead,
     ReaperTransitionWrite, ReaperEnd
<1>. QED
  BY <1>2, <1>3, <1>4 DEF Next, vars, RegisterOrGet, IntakeEnqueue, IntakeAbort,
     MoveToDlq, DuplicateMessage, Receive, WorkerAbort, Tick, WorkerReadLags, ReaperReadLags

\* Billing follows a post, and follows it once.
LEMMA StepBilled ==
  ASSUME IInv, BilledByHolder, [Next]_vars
  PROVE  BilledByHolder'
<1> DEFINE Posted(w) == /\ slack[workers[w].job].answers = 1
                        /\ ledger[workers[w].job].usage = 0
           PostedNext(w) == /\ slack'[workers'[w].job].answers = 1
                            /\ ledger'[workers'[w].job].usage = 0
<1>1. /\ slack \in [Jobs -> [answers : Nat, notices : Nat]]
      /\ ledger \in [Jobs -> [usage : Nat, adopted : BOOLEAN]]
      /\ workers \in [Workers -> Invocations]
  BY DEF IInv, TypeInv, TypeOK, SlackOK, LedgerOK, WorkersOK
<1>2. ASSUME NEW w \in Workers, PostAnswer(w)
      PROVE  BilledByHolder'
  <2> DEFINE j == workers[w].job
  <2>1. /\ j \in Jobs /\ workers[w].pc = "posting" /\ slack[j].answers = 0
        /\ slack' = [slack EXCEPT ![j].answers = @ + 1] /\ ledger' = ledger
        /\ workers' = [workers EXCEPT ![w].pc = "stamping"]
    BY <1>2, HolderHasJob
       DEF PostAnswer, At, Goto, IInv, Safe, AnswerBehindIntent, JobOf
  <2>2. ledger[j].usage = 0 /\ ~ ledger[j].adopted
    BY <1>1, <2>1 DEF BilledByHolder, BilledBehindAnswer
  <2>3. /\ slack'[j].answers = 1
        /\ \A i \in Jobs \ {j} : slack'[i] = slack[i]
        /\ workers'[w].pc = "stamping" /\ workers'[w].job = j
        /\ \A v \in Workers \ {w} : workers'[v] = workers[v]
    BY <1>1, <2>1 DEF Invocations
  <2>4. \A v \in Workers \ {w} : workers[v].pc \in Holding
          => workers[v].job \in Jobs \ {j}
    BY <2>1, HolderHasJob DEF IInv, Safe, SingleHolder, Holding, Answering
  <2>5. BilledBehindAnswer'
    BY <2>1, <2>2, <2>3 DEF BilledByHolder, BilledBehindAnswer
  <2>6. ASSUME NEW v \in Workers
        PROVE  /\ workers'[v].pc \in {"stamping", "billing"} => PostedNext(v)
               /\ workers'[v].pc = "adopting" => ledger'[workers'[v].job].usage = 1
    BY <2>1, <2>2, <2>3, <2>4 DEF BilledByHolder, Holding, Answering
  <2>. QED BY <2>5, <2>6 DEF BilledByHolder
<1>3. ASSUME NEW w \in Workers, RecordUsage(w)
      PROVE  BilledByHolder'
  <2> DEFINE j == workers[w].job
  <2>1. /\ j \in Jobs /\ workers[w].pc = "billing"
        /\ ledger' = [ledger EXCEPT ![j].usage = @ + 1] /\ slack' = slack
        /\ workers' = [workers EXCEPT ![w].pc = "adopting", ![w].unbilled = FALSE]
    BY <1>3, HolderHasJob DEF RecordUsage, At, IInv
  <2>2. ledger[j].usage = 0 /\ ~ ledger[j].adopted /\ slack[j].answers = 1
    BY <1>1, <2>1 DEF BilledByHolder, BilledBehindAnswer
  <2>3. /\ ledger'[j].usage = 1 /\ ledger'[j].adopted = ledger[j].adopted
        /\ slack' = slack /\ j \in Jobs
        /\ \A i \in Jobs \ {j} : ledger'[i] = ledger[i]
        /\ workers'[w].pc = "adopting" /\ workers'[w].job = j
        /\ \A v \in Workers \ {w} : workers'[v] = workers[v]
    BY <1>1, <2>1, <2>2 DEF Invocations
  <2>4. \A v \in Workers \ {w} : workers[v].pc \in Holding
          => workers[v].job \in Jobs \ {j}
    BY <2>1, HolderHasJob DEF IInv, Safe, SingleHolder, Holding, Answering
  <2>5. BilledBehindAnswer'
    BY <2>1, <2>2, <2>3 DEF BilledByHolder, BilledBehindAnswer
  <2>6. ASSUME NEW v \in Workers
        PROVE  /\ workers'[v].pc \in {"stamping", "billing"} => PostedNext(v)
               /\ workers'[v].pc = "adopting" => ledger'[workers'[v].job].usage = 1
    BY <2>3, <2>4 DEF BilledByHolder, Holding, Answering
  <2>. QED BY <2>5, <2>6 DEF BilledByHolder
<1>4. CASE ~ \E w \in Workers : PostAnswer(w) \/ RecordUsage(w)
  <2>1. /\ \A j \in Jobs : /\ slack'[j].answers = slack[j].answers
                           /\ ledger'[j].usage = ledger[j].usage
                           /\ ledger'[j].adopted => ledger[j].usage = 1
    <3>1. CASE \E w \in Workers : RecordAdoption(w)
      <4>1. PICK w \in Workers : RecordAdoption(w)
        BY <3>1
      <4>2. /\ ledger' = [ledger EXCEPT ![workers[w].job].adopted = TRUE]
            /\ slack' = slack /\ ledger[workers[w].job].usage = 1
        BY <4>1 DEF RecordAdoption, At, BilledByHolder
      <4>. QED BY <1>1, <4>2 DEF BilledByHolder, BilledBehindAnswer
    <3>. QED BY <1>4, <3>1, AnswersAndLedger DEF BilledByHolder, BilledBehindAnswer
  <2>2. ASSUME NEW w \in Workers, workers'[w].pc \in {"stamping", "billing", "adopting"}
        PROVE  /\ workers'[w].job = workers[w].job /\ workers[w].job \in Jobs
               /\ \/ workers[w].pc = workers'[w].pc
                  \/ workers[w].pc = "stamping" /\ workers'[w].pc = "billing"
    BY <1>4, <2>2, HoldersMove DEF Holding, Answering
  <2>3. BilledBehindAnswer'
    BY <2>1 DEF BilledByHolder, BilledBehindAnswer
  <2>4. ASSUME NEW w \in Workers
        PROVE  /\ workers'[w].pc \in {"stamping", "billing"} => PostedNext(w)
               /\ workers'[w].pc = "adopting" => ledger'[workers'[w].job].usage = 1
    BY <2>1, <2>2 DEF BilledByHolder
  <2>. QED BY <2>3, <2>4 DEF BilledByHolder
<1>. QED BY <1>2, <1>3, <1>4

\* Who comes to owe a bill owes it until it is written.
LEMMA StepOwes ==
  ASSUME IInv, OwesTheBill, [Next]_vars
  PROVE  OwesTheBill'
<1> DEFINE Owing == {"marking", "posting", "stamping", "billing"}
<1> SUFFICES ASSUME NEW w \in Workers, workers'[w].pc \in Owing
             PROVE  workers'[w].unbilled
  BY DEF OwesTheBill
<1>1. workers'[w].pc \in Holding /\ workers'[w].pc # "adopting" /\ workers'[w].pc # "pipeline"
  BY DEF Holding, Answering
<1>2. CASE workers'[w].pc = "marking" /\ workers'[w].unbilled
  BY <1>2
<1>3. CASE workers'[w].unbilled = workers[w].unbilled
  <2>1. workers[w].pc \in Owing \/ (workers[w].pc = "pipeline" /\ workers'[w].pc = "marking")
    BY <1>1, HoldersMove DEF MarkPostIntent, PostAnswer, RecordUsage, At
  <2>2. CASE workers[w].pc \in Owing
    BY <1>3, <2>2 DEF OwesTheBill
  <2>. QED BY <1>1, <1>3, <2>1, <2>2, HoldersMove
<1>. QED BY <1>1, <1>2, <1>3, HoldersMove

\* A question that somebody holds is leased to nobody else.
LEMMA HeldKeepsAttempts ==
  ASSUME IInv, [Next]_vars, NEW w \in Workers, workers[w].pc \in Holding,
         NEW j \in Jobs, workers[w].job = j
  PROVE  jobs'[j].attempts = jobs[j].attempts
<1>1. jobs \in [Jobs -> Items] /\ jobs[j] \in Items
  BY DEF IInv, TypeInv, TypeOK, JobsOK
<1>2. CASE Tick
  BY <1>1, <1>2 DEF Tick, AgedJob, Items
<1>3. ASSUME NEW i \in Jobs, RegisterOrGet(i)
      PROVE  jobs'[j].attempts = jobs[j].attempts
  <2>1. jobs' = [jobs EXCEPT ![i] = [jobs[i] EXCEPT !.status = "seen"]]
    BY <1>3 DEF RegisterOrGet
  <2>. QED BY <1>1, <2>1 DEF Items
<1>4. ASSUME NEW v \in Workers, LeaseWrite(v)
      PROVE  jobs'[j].attempts = jobs[j].attempts
  <2>1. workers[v].prev \in Nat /\ workers[v].claim \in Nat
    BY DEF IInv, TypeInv, TypeOK, WorkersOK, Invocations
  <2>2. workers[v].job = j => jobs' = jobs
    BY <1>4, <2>1, HeldIsNotFree DEF LeaseWrite, JobOf
  <2>. QED BY <1>1, <1>4, <2>2 DEF LeaseWrite
<1>5. ASSUME NEW v \in Workers, MarkPostIntent(v) \/ StampAnswerTs(v)
      PROVE  jobs'[j].attempts = jobs[j].attempts
  BY <1>1, <1>5 DEF MarkPostIntent, StampAnswerTs, Items
<1>6. ASSUME NEW i \in Jobs, NEW target \in Terminal,
             jobs' = [jobs EXCEPT ![i] = Closed(@, target)]
      PROVE  jobs'[j].attempts = jobs[j].attempts
  BY <1>1, <1>6 DEF Closed, Items
<1>. QED BY <1>2, <1>3, <1>4, <1>5, <1>6, JobWrites

\* What is given up is never taken up: no lease of it leads to work.
LEMMA StepExhausted ==
  ASSUME IInv, Present, ExhaustedForGood, [Next]_vars
  PROVE  ExhaustedForGood'
<1> DEFINE Spent(j) == AttemptsExhausted(jobs[j], MaxAttempts)
<1>1. /\ jobs \in [Jobs -> Items] /\ workers \in [Workers -> Invocations]
      /\ \A j \in Jobs : jobs[j].attempts \in Nat /\ jobs'[j].attempts \in Nat
  BY StepTyped DEF IInv, TypeInv, TypeOK, JobsOK, Items, WorkersOK
<1>2. ASSUME NEW j \in Jobs,
             j \in reaper'.abandon \/ (reaper'.job = j /\ reaper'.back = "recovering")
      PROVE  Spent(j)'
  <2>1. Spent(j)
    BY <1>2, ReaperMoves DEF ExhaustedForGood
  <2>2. jobs'[j].attempts >= jobs[j].attempts
    BY ItemsStay
  <2>. QED BY <1>1, <2>1, <2>2, BoundsAssumption DEF AttemptsExhausted
<1>3. ASSUME NEW w \in Workers, workers'[w].pc \in Holding
      PROVE  ~ AttemptsExhausted(jobs'[workers'[w].job], MaxAttempts)
  <2>1. PICK j \in Jobs : workers[w].job = j /\ workers'[w].job = j
    BY <1>3, HoldersMove
  <2>2. CASE workers[w].pc \in Holding
    <3>1. ~ Spent(j) /\ jobs'[j].attempts = jobs[j].attempts
      BY <2>1, <2>2, HeldKeepsAttempts DEF ExhaustedForGood, JobOf
    <3>. QED BY <2>1, <3>1 DEF AttemptsExhausted
  <2>3. CASE workers[w].pc \notin Holding
    <3>1. LeaseWrite(w) /\ workers'[w].pc = "pipeline"
      BY <1>3, <2>3, HoldersMove
         DEF MarkPostIntent, PostAnswer, RecordUsage, At, Holding, Answering
    <3> DEFINE item == Leased(jobs[j], workers[w].claim)
    <3>2. jobs'[j] = item /\ ClaimStep(item) = "pipeline"
      BY <1>1, <2>1, <3>1 DEF LeaseWrite, JobOf, Invocations
    <3>. QED BY <2>1, <3>2 DEF ClaimStep
  <2>. QED BY <2>2, <2>3
<1>. QED BY <1>2, <1>3 DEF ExhaustedForGood, JobOf

\* The first states: no item, nothing posted, nothing billed, nothing to abandon.
LEMMA InitMore == Init => JInv
<1> SUFFICES ASSUME Init  PROVE JInv
  OBVIOUS
<1>1. Present /\ ExhaustedForGood
  BY NamesAssumption DEF Init, Present, ExhaustedForGood, IdleWorker, IdleReaper,
     Holding, Answering
<1>2. BilledByHolder /\ OwesTheBill
  BY DEF Init, BilledByHolder, BilledBehindAnswer, OwesTheBill, IdleWorker
<1>. QED BY <1>1, <1>2, InitSafe DEF JInv

\* The larger invariant is inductive.
LEMMA StepMore == JInv /\ [Next]_vars => JInv'
BY StepSafe, StepPresent, StepBilled, StepOwes, StepExhausted DEF JInv

\* It holds in every behaviour.
THEOREM MoreInvariance == Spec => []JInv
<1>1. QED  BY InitMore, StepMore, PTL DEF Spec

\* Billing is the one step that adds a bill, and it settles what its worker owes;
\* adoption follows it.
LEMMA BillSettles ==
  ASSUME JInv, [Next]_vars, NEW j \in Jobs
  PROVE  /\ ledger'[j].usage # ledger[j].usage =>
              /\ ledger'[j].usage = ledger[j].usage + 1
              /\ \E w \in Workers :
                   workers[w].job = j /\ workers[w].unbilled /\ ~ workers'[w].unbilled
         /\ ledger'[j].adopted /\ ~ ledger[j].adopted =>
              slack[j].answers = 1 /\ ledger[j].usage > 0
<1>1. /\ ledger \in [Jobs -> [usage : Nat, adopted : BOOLEAN]]
      /\ slack \in [Jobs -> [answers : Nat, notices : Nat]]
      /\ workers \in [Workers -> Invocations] /\ IInv
  BY DEF JInv, IInv, TypeInv, TypeOK, SlackOK, LedgerOK, WorkersOK
<1>2. ASSUME NEW w \in Workers, RecordUsage(w)
      PROVE  /\ workers[w].unbilled /\ ~ workers'[w].unbilled
             /\ ledger' = [ledger EXCEPT ![workers[w].job].usage = @ + 1]
  BY <1>1, <1>2 DEF RecordUsage, At, JInv, OwesTheBill, Invocations
<1>3. ASSUME NEW w \in Workers, RecordAdoption(w)
      PROVE  /\ ledger' = [ledger EXCEPT ![workers[w].job].adopted = TRUE]
             /\ ledger[workers[w].job].usage = 1
  BY <1>3 DEF RecordAdoption, At, JInv, BilledByHolder
<1>4. slack[j].answers <= 1
  BY <1>1 DEF IInv, Safe, AtMostOneAnswer
<1>5. ledger[j].usage <= slack[j].answers
  BY DEF JInv, BilledByHolder, BilledBehindAnswer
<1>6. CASE ledger' = ledger
  BY <1>6
<1>7. ASSUME NEW w \in Workers, RecordUsage(w)
      PROVE  /\ ledger'[j].adopted = ledger[j].adopted
             /\ ledger'[j].usage # ledger[j].usage =>
                  ledger'[j].usage = ledger[j].usage + 1 /\ workers[w].job = j
  <2> DEFINE k == workers[w].job
  <2>1. k = j \/ ledger'[j] = ledger[j]
    BY <1>1, <1>2, <1>7
  <2>2. k = j => ledger'[j] = [ledger[j] EXCEPT !.usage = @ + 1]
    BY <1>1, <1>2, <1>7
  <2>. QED BY <1>1, <2>1, <2>2
<1>8. ASSUME NEW w \in Workers, RecordAdoption(w)
      PROVE  /\ ledger'[j].usage = ledger[j].usage
             /\ ledger'[j].adopted # ledger[j].adopted => ledger[j].usage = 1
  BY <1>1, <1>3, <1>8
<1>9. ledger[j].usage = 1 => slack[j].answers = 1
  BY <1>1, <1>4, <1>5
<1>. QED
  <2>1. CASE \E w \in Workers : RecordUsage(w)
    BY <1>2, <1>7, <2>1
  <2>2. CASE \E w \in Workers : RecordAdoption(w)
    BY <1>1, <1>8, <1>9, <2>2
  <2>. QED BY <1>1, <1>6, <2>1, <2>2, AnswersAndLedger

\* BR-019: only an exchange that was made and not billed before is billed, and
\* only an answered and billed question is adopted.
THEOREM BilledOnce == Spec => BilledOncePerExchange
<1>1. JInv /\ [Next]_vars
        => [\A j \in Jobs :
              /\ ledger'[j].usage # ledger[j].usage =>
                   /\ ledger'[j].usage = ledger[j].usage + 1
                   /\ \E w \in Workers :
                        workers[w].job = j /\ workers[w].unbilled /\ ~ workers'[w].unbilled
              /\ ledger'[j].adopted /\ ~ ledger[j].adopted =>
                   slack[j].answers = 1 /\ ledger[j].usage > 0]_vars
  BY BillSettles
<1>2. QED  BY <1>1, MoreInvariance, PTL DEF Spec, BilledOncePerExchange

\* recover_stale never tells off, or closes, a question that somebody holds.
THEOREM AbandonSpares == Spec => []StaleAbandonSparesHolders
<1>1. JInv => StaleAbandonSparesHolders
  BY DEF JInv, ExhaustedForGood, StaleAbandonSparesHolders, Holders, JobOf
<1>2. QED  BY <1>1, MoreInvariance, PTL

\* A claim that goes on to work wrote one attempt more than it found, below the
\* bound; and there is no other way to come to hold a question.
LEMMA WorkIsCounted ==
  ASSUME IInv, [Next]_vars, NEW j \in Jobs, NEW w \in Holders(j)', w \notin Holders(j)
  PROVE  jobs[j].attempts < jobs'[j].attempts /\ jobs'[j].attempts < MaxAttempts
<1>1. /\ w \in Workers /\ workers'[w].pc \in Holding /\ workers'[w].job = j
      /\ jobs \in [Jobs -> Items] /\ workers \in [Workers -> Invocations]
  BY DEF Holders, IInv, TypeInv, TypeOK, JobsOK, WorkersOK
<1>2. workers[w].job = j /\ workers[w].pc \notin Holding
  BY <1>1, HoldersMove DEF Holders
<1>3. LeaseWrite(w) /\ workers'[w].pc = "pipeline"
  BY <1>1, <1>2, HoldersMove
     DEF MarkPostIntent, PostAnswer, RecordUsage, At, Holding, Answering
<1> DEFINE item == Leased(jobs[j], workers[w].claim)
<1>4. jobs'[j] = item /\ ClaimStep(item) = "pipeline"
  BY <1>1, <1>2, <1>3 DEF LeaseWrite, JobOf, Invocations
<1>5. ~ AttemptsExhausted(item, MaxAttempts)
  BY <1>4 DEF ClaimStep
<1>6. jobs[j].attempts \in Nat /\ item.attempts = jobs[j].attempts + 1
  BY <1>1, LeasedCounts DEF Items, Invocations
<1>. QED BY <1>4, <1>5, <1>6, BoundsAssumption DEF AttemptsExhausted

\* BR-022: work on a question begins at most MaxAttempts times.
THEOREM BoundedWork == Spec => WorkWithinAttempts
<1>1. ASSUME JInv, [Next]_vars, NEW j \in Jobs
      PROVE  /\ jobs'[j].attempts >= jobs[j].attempts
             /\ \A w \in Workers : w \in Holders(j)' /\ w \notin Holders(j) =>
                  jobs[j].attempts < jobs'[j].attempts /\ jobs'[j].attempts <= MaxAttempts
  <2>1. jobs'[j].attempts \in Nat
    BY <1>1, StepTyped DEF JInv, IInv, TypeInv, TypeOK, JobsOK, Items
  <2>. QED BY <1>1, <2>1, ItemsStay, WorkIsCounted, BoundsAssumption DEF JInv
<1>2. JInv /\ [Next]_vars
        => [\A j \in Jobs :
              /\ jobs'[j].attempts >= jobs[j].attempts
              /\ \A w \in Workers : w \in Holders(j)' /\ w \notin Holders(j) =>
                   jobs[j].attempts < jobs'[j].attempts
                     /\ jobs'[j].attempts <= MaxAttempts]_vars
  BY <1>1
<1>3. QED  BY <1>2, MoreInvariance, PTL DEF Spec, WorkWithinAttempts

-----------------------------------------------------------------------------
(* Intake and recovery.  The intake function is killed long before the       *)
(* staleness bound, so the scan does not take up what intake has yet to      *)
(* queue; and nobody else can hear of a question but from a message or from  *)
(* the scan.                                                                 *)

\* The three places where a question is spoken of.
Unqueued(j) == j \notin dlq /\ \A m \in Msgs : msgs[m].job # j
Untaken(j) == \A w \in Workers : workers[w].job # j
Unrecovered(j) ==
  reaper.job # j /\ j \notin reaper.requeue \cup reaper.abandon \cup reaper.drained
Unheard(j) == Unqueued(j) /\ Untaken(j) /\ Unrecovered(j)

\* Before intake there is no item; while it runs the item is new.
Fresh ==
  \A j \in Jobs :
    /\ intake[j] = "none" => jobs[j] = NoItem /\ Unheard(j)
    /\ intake[j] = "registered" =>
         /\ jobs[j].status = "seen" /\ jobs[j].attempts = 0
         /\ jobs[j].age <= IntakeTimeout
         /\ Unheard(j)

\* An item that no scan, however old its image, finds to be lost.
Unscanned(job) == job = NoItem \/ (~ IsLeaseStale(job, Staleness) /\ LaggingAttempts(job) = {})

\* A message is put in the queue by intake, by the reaper, or by the queue
\* itself, which duplicates one.
LEMMA StaysUnqueued ==
  ASSUME IInv, [Next]_vars, NEW j \in Jobs, Unheard(j), ~ IntakeEnqueue(j)
  PROVE  Unqueued(j)'
<1>1. /\ msgs \in [Msgs -> Messages] /\ NoMessage.job # j
      /\ j \notin dlq /\ \A m \in Msgs : msgs[m].job # j
  BY NamesAssumption DEF IInv, TypeInv, TypeOK, QueueOK, NoMessage, Unheard, Unqueued
<1>2. CASE msgs' = msgs /\ dlq' \subseteq dlq
  BY <1>1, <1>2 DEF Unqueued
<1>3. ASSUME NEW m \in Msgs, NEW msg, msg.job # j, msgs' = [msgs EXCEPT ![m] = msg], dlq' = dlq
      PROVE  Unqueued(j)'
  BY <1>1, <1>3 DEF Unqueued
<1>4. ASSUME NEW m \in Msgs, NEW i \in Jobs, i # j, msgs' = Enqueued(m, i), dlq' = dlq
      PROVE  Unqueued(j)'
  BY <1>1, <1>4 DEF Unqueued, Enqueued
<1>5. ASSUME NEW i \in Jobs, IntakeEnqueue(i)
      PROVE  Unqueued(j)'
  BY <1>4, <1>5 DEF IntakeEnqueue, FreeSlots
<1>6. ASSUME NEW i \in Jobs, ReaperRequeue(i)
      PROVE  Unqueued(j)'
  <2>1. i # j /\ dlq' = dlq
    BY <1>6 DEF ReaperRequeue, Unheard, Unrecovered
  <2>2. msgs' = msgs \/ \E m \in Msgs : msgs' = Enqueued(m, i)
    BY <1>6 DEF ReaperRequeue, FreeSlots
  <2>. QED BY <1>2, <1>4, <2>1, <2>2
<1>7. ASSUME NEW m \in Msgs, NEW copy \in Msgs, DuplicateMessage(m, copy)
      PROVE  Unqueued(j)'
  BY <1>1, <1>4, <1>7 DEF DuplicateMessage, Messages
<1>8. ASSUME NEW m \in Msgs, MoveToDlq(m)
      PROVE  Unqueued(j)'
  BY <1>1, <1>8 DEF MoveToDlq, Unqueued
<1>9. ASSUME NEW w \in Workers, NEW m \in Msgs, Receive(w, m)
      PROVE  Unqueued(j)'
  <2> DEFINE counted == [msgs[m] EXCEPT !.receives = @ + 1]
  <2>1. counted \in Messages /\ counted.job # j
    BY <1>1 DEF Messages
  <2>2. Received(msgs[m]) = [counted EXCEPT !.hidden = Visibility]
    BY DEF Received
  <2> HIDE DEF counted
  <2>3. Received(msgs[m]).job # j
    BY <2>1, <2>2 DEF Messages
  <2>. QED BY <1>1, <1>9, <2>3 DEF Receive, Unqueued
<1>10. ASSUME NEW w \in Workers, Finish(w)
       PROVE  Unqueued(j)'
  BY <1>1, <1>10 DEF Finish, Unqueued
<1>11. CASE Tick
  <2>1. \A m \in Msgs : AgedMessage(msgs[m]).job = msgs[m].job
    BY <1>1 DEF AgedMessage, Messages
  <2>. QED BY <1>1, <1>11, <2>1 DEF Tick, Unqueued
<1>12. (\E w \in Workers : WorkerStep(w) /\ ~ Finish(w)) => msgs' = msgs /\ dlq' = dlq
  BY DEF WorkerStep, ClaimGet, LeaseRead, LeaseWrite, PipelineAnswers, PipelineFails,
     MarkPostIntent, PostAnswer, StampAnswerTs, RecordUsage, RecordAdoption, PostFailure,
     WorkerTransitionRead, WorkerTransitionWrite
<1>13. (ReaperStep \/ ReaperAbort) /\ (\A i \in Jobs : ~ ReaperRequeue(i))
         => msgs' = msgs /\ dlq' \subseteq dlq
  BY DEF ReaperStep, ReaperAbort, ReaperScan, ReaperAbandon, ReaperDrain,
     DrainMessage, DrainReceived, AbandonDrained, ReaperPostFailure,
     ReaperTransitionRead, ReaperTransitionWrite, ReaperEnd
<1>14. CASE \/ UNCHANGED vars \/ ReaperReadLags
            \/ \E i \in Jobs : RegisterOrGet(i) \/ IntakeAbort(i)
            \/ \E w \in Workers : WorkerAbort(w) \/ WorkerReadLags(w)
  BY <1>2, <1>14 DEF vars, RegisterOrGet, IntakeAbort, WorkerAbort, WorkerReadLags, ReaperReadLags
<1>. QED
  BY <1>2, <1>5, <1>6, <1>7, <1>8, <1>9, <1>10, <1>11, <1>12, <1>13, <1>14 DEF Next

\* A worker takes a question from the message it receives.
LEMMA StaysUntaken ==
  ASSUME IInv, [Next]_vars, NEW j \in Jobs, Unheard(j)
  PROVE  Untaken(j)'
<1>1. /\ workers \in [Workers -> Invocations] /\ IdleWorker.job # j
      /\ \A w \in Workers : workers[w].job # j
  BY NamesAssumption DEF IInv, TypeInv, TypeOK, WorkersOK, IdleWorker, Unheard, Untaken
<1>2. CASE workers' = workers
  BY <1>1, <1>2 DEF Untaken
<1>3. CASE Tick
  <2>1. \A w \in Workers : workers'[w].job = workers[w].job
    BY <1>1, <1>3, AgedTyped DEF Tick
  <2>. QED BY <1>1, <2>1 DEF Untaken
<1>4. ASSUME NEW w \in Workers, WorkerStep(w)
      PROVE  Untaken(j)'
  <2>1. \A v \in Workers \ {w} : workers'[v] = workers[v]
    BY <1>4, WorkerStepTyped DEF IInv, TypeInv
  <2>2. ASSUME NEW pc, Goto(w, pc)
        PROVE  workers'[w].job # j
    BY <1>1, <2>2 DEF Goto, Invocations
  <2>3. CASE workers' = [workers EXCEPT ![w] = IdleWorker]
    BY <1>1, <2>1, <2>3 DEF Untaken
  <2>4. CASE \/ LeaseWrite(w) \/ LeaseRead(w) \/ RecordAdoption(w)
             \/ PipelineAnswers(w) \/ PipelineFails(w) \/ RecordUsage(w)
    <3>1. workers'[w].job = workers[w].job
      BY <1>1, <2>4 DEF LeaseWrite, LeaseRead, RecordAdoption, PipelineAnswers,
         PipelineFails, RecordUsage, Goto, Invocations
    <3>. QED BY <1>1, <2>1, <3>1 DEF Untaken
  <2>5. CASE \/ ClaimGet(w) \/ MarkPostIntent(w) \/ PostAnswer(w) \/ StampAnswerTs(w)
             \/ PostFailure(w) \/ WorkerTransitionWrite(w)
    <3>1. workers'[w].job # j
      BY <2>2, <2>5 DEF ClaimGet, MarkPostIntent, PostAnswer, StampAnswerTs, PostFailure,
         WorkerTransitionWrite
    <3>. QED BY <1>1, <2>1, <3>1 DEF Untaken
  <2>6. CASE WorkerTransitionRead(w) \/ Finish(w)
    <3>1. workers'[w].job # j
      BY <1>1, <2>2, <2>6 DEF WorkerTransitionRead, Finish
    <3>. QED BY <1>1, <2>1, <3>1 DEF Untaken
  <2>. QED BY <1>4, <2>4, <2>5, <2>6 DEF WorkerStep
<1>5. ASSUME NEW w \in Workers, NEW m \in Msgs, Receive(w, m)
      PROVE  Untaken(j)'
  <2>1. msgs[m].job # j
    BY DEF Unheard, Unqueued
  <2>2. workers'[w].job = msgs[m].job /\ \A v \in Workers \ {w} : workers'[v] = workers[v]
    BY <1>1, <1>5 DEF Receive, IdleWorker
  <2>. QED BY <1>1, <2>1, <2>2 DEF Untaken
<1>6. ASSUME NEW w \in Workers, WorkerAbort(w)
      PROVE  Untaken(j)'
  BY <1>1, <1>6 DEF WorkerAbort, Untaken
<1>7. ASSUME NEW w \in Workers, WorkerReadLags(w)
      PROVE  Untaken(j)'
  <2>1. /\ \A v \in Workers \ {w} : workers'[v] = workers[v]
        /\ \/ workers'[w] = IdleWorker
           \/ \E pc \in WorkerPc : workers'[w] = [workers[w] EXCEPT !.pc = pc]
    BY <1>7, LaggingWorkerMoves DEF IInv, TypeInv, WorkerPc
  <2>2. workers'[w].job # j
    BY <1>1, <2>1 DEF Invocations
  <2>. QED BY <1>1, <2>1, <2>2 DEF Untaken
<1>8. ReaperStep \/ ReaperAbort \/ ReaperReadLags => workers' = workers
  BY DEF ReaperStep, ReaperAbort, ReaperScan, ReaperRequeue, ReaperAbandon, ReaperDrain,
     DrainMessage, DrainReceived, AbandonDrained, ReaperPostFailure,
     ReaperTransitionRead, ReaperTransitionWrite, ReaperEnd, ReaperReadLags
<1>. QED
  BY <1>2, <1>3, <1>4, <1>5, <1>6, <1>7, <1>8
     DEF Next, vars, RegisterOrGet, IntakeEnqueue, IntakeAbort, MoveToDlq, DuplicateMessage

\* The reaper takes up what its scan finds lost, and what a dead letter names.
LEMMA StaysUnrecovered ==
  ASSUME IInv, [Next]_vars, NEW j \in Jobs, Unheard(j), Unscanned(jobs[j])
  PROVE  Unrecovered(j)'
<1>1. /\ reaper \in ReaperRuns /\ Unrecovered(j)
      /\ \A run : run = IdleReaper => run.job # j /\ run.requeue = {} /\ run.abandon = {} /\ run.drained = {}
  BY NamesAssumption DEF IInv, TypeInv, TypeOK, ReaperOK, IdleReaper, Unheard
<1>2. CASE reaper' = reaper \/ reaper' = IdleReaper
  BY <1>1, <1>2 DEF Unrecovered
<1>3. CASE Tick \/ ReaperDrain \/ DrainReceived \/ ReaperPostFailure \/ ReaperTransitionRead
           \/ ReaperEnd \/ ReaperAbort \/ LaggingReaperTransitionRead
  <2>1. CASE \/ reaper' = [reaper EXCEPT !.age = @ + 1]
             \/ \E pc \in ReaperPc : reaper' = [reaper EXCEPT !.pc = pc]
    BY <1>1, <2>1 DEF ReaperRuns, Unrecovered
  <2>. QED
    BY <1>2, <1>3, <2>1 DEF Tick, ReaperDrain, DrainReceived, ReaperPostFailure,
       ReaperTransitionRead, ReaperEnd, ReaperAbort, LaggingReaperTransitionRead, ReaperPc
<1>4. CASE ReaperScan
  <2>1. j \notin StaleJobs
    BY DEF StaleJobs, Unscanned, IsLeaseStale, InFlight, NoItem
  <2>2. reaper'.requeue \subseteq StaleJobs /\ reaper'.abandon \subseteq StaleJobs
        /\ reaper'.drained = {} /\ reaper'.job = NoJob
    BY <1>4 DEF ReaperScan, IdleReaper, ExhaustedJobs
  <2>. QED BY <2>1, <2>2, NamesAssumption DEF Unrecovered
<1>5. CASE LaggingScan
  <2>1. PICK requeue, abandon \in SUBSET {i \in ScanPage : jobs[i] # NoItem} :
          /\ \A i \in requeue : \E n \in LaggingAttempts(jobs[i]) : n < MaxAttempts
          /\ \A i \in abandon : \E n \in LaggingAttempts(jobs[i]) : n >= MaxAttempts
          /\ reaper' = [IdleReaper EXCEPT !.pc = "recovering", !.requeue = requeue,
                                          !.abandon = abandon]
    BY <1>5 DEF LaggingScan
  <2>2. /\ reaper'.requeue = requeue /\ reaper'.abandon = abandon
        /\ reaper'.drained = {} /\ reaper'.job = NoJob
    BY <2>1 DEF IdleReaper
  <2>3. j \notin requeue \cup abandon
    BY <2>1 DEF Unscanned
  <2>. QED BY <2>2, <2>3, NamesAssumption DEF Unrecovered
<1>6. ASSUME NEW i \in Jobs, ReaperRequeue(i)
      PROVE  Unrecovered(j)'
  BY <1>1, <1>6 DEF ReaperRequeue, ReaperRuns, Unrecovered
<1>7. ASSUME NEW i \in Jobs, DrainMessage(i)
      PROVE  Unrecovered(j)'
  BY <1>1, <1>7 DEF DrainMessage, ReaperRuns, Unrecovered, Unheard, Unqueued
<1>8. ASSUME NEW run \in ReaperRuns, NEW i \in Jobs, i # j,
             NEW back \in {"recovering", "abandoning"},
             j \notin run.requeue \cup run.abandon \cup run.drained,
             reaper' = Abandoning(run, i, back)
      PROVE  Unrecovered(j)'
  <2> DEFINE at == [run EXCEPT !.pc = "notifying"]
             of == [at EXCEPT !.job = i]
  <2>1. at \in ReaperRuns /\ j \notin at.requeue \cup at.abandon \cup at.drained
    BY <1>8 DEF ReaperRuns, ReaperPc
  <2>2. reaper' = [of EXCEPT !.back = back]
    BY <1>8 DEF Abandoning
  <2> HIDE DEF at
  <2>3. of \in ReaperRuns /\ of.job = i /\ j \notin of.requeue \cup of.abandon \cup of.drained
    BY <2>1 DEF ReaperRuns
  <2> HIDE DEF of
  <2>. QED BY <1>8, <2>2, <2>3 DEF ReaperRuns, Unrecovered
<1>9. ASSUME NEW i \in Jobs, ReaperAbandon(i)
      PROVE  Unrecovered(j)'
  <2> DEFINE rest == [reaper EXCEPT !.abandon = @ \ {i}]
  <2>1. rest \in ReaperRuns /\ j \notin rest.requeue \cup rest.abandon \cup rest.drained
    BY <1>1 DEF ReaperRuns, Unrecovered
  <2>2. reaper' = Abandoning(rest, i, "recovering") /\ i # j
    BY <1>1, <1>9 DEF ReaperAbandon, Unrecovered
  <2> HIDE DEF rest
  <2>. QED BY <1>8, <2>1, <2>2
<1>10. ASSUME NEW i \in Jobs, AbandonDrained(i) \/ LaggingDrainGet(i)
       PROVE  Unrecovered(j)'
  <2> DEFINE rest == [reaper EXCEPT !.drained = @ \ {i}]
  <2>1. /\ rest \in ReaperRuns /\ rest.job # j
        /\ j \notin rest.requeue \cup rest.abandon \cup rest.drained
    BY <1>1 DEF ReaperRuns, Unrecovered
  <2>2. (reaper' = rest \/ reaper' = Abandoning(rest, i, "abandoning")) /\ i # j
    BY <1>1, <1>10 DEF AbandonDrained, LaggingDrainGet, Unrecovered
  <2> HIDE DEF rest
  <2>. QED BY <1>8, <2>1, <2>2 DEF Unrecovered
<1>11. CASE ReaperTransitionWrite
  <2> DEFINE moved == [reaper EXCEPT !.pc = reaper.back]
  <2>1. moved \in ReaperRuns /\ j \notin moved.requeue \cup moved.abandon \cup moved.drained
    BY <1>1 DEF ReaperRuns, ReaperPc, Unrecovered
  <2>2. reaper' = [moved EXCEPT !.job = NoJob]
    BY <1>11 DEF ReaperTransitionWrite
  <2> HIDE DEF moved
  <2>. QED BY <2>1, <2>2, NamesAssumption DEF ReaperRuns, Unrecovered
<1>12. (\E w \in Workers : WorkerStep(w)) => reaper' = reaper
  BY DEF WorkerStep, ClaimGet, LeaseRead, LeaseWrite, PipelineAnswers, PipelineFails,
     MarkPostIntent, PostAnswer, StampAnswerTs, RecordUsage, RecordAdoption, PostFailure,
     WorkerTransitionRead, WorkerTransitionWrite, Finish
<1>. QED
  BY <1>2, <1>3, <1>4, <1>5, <1>6, <1>7, <1>9, <1>10, <1>11, <1>12
     DEF Next, ReaperStep, vars, RegisterOrGet, IntakeEnqueue, IntakeAbort, MoveToDlq,
         DuplicateMessage, Receive, WorkerAbort, WorkerReadLags, ReaperReadLags

\* Nobody writes an item that only its intake knows; it ages.
LEMMA UnheardKeepsItem ==
  ASSUME IInv, [Next]_vars, NEW j \in Jobs, Unheard(j), ~ RegisterOrGet(j)
  PROVE  jobs'[j] = jobs[j] \/ (Tick /\ jobs'[j] = AgedJob(jobs[j]))
<1>1. /\ jobs \in [Jobs -> Items]
      /\ reaper.job # j /\ \A w \in Workers : workers[w].job # j
  BY DEF IInv, TypeInv, TypeOK, JobsOK, Unheard, Untaken, Unrecovered
<1>2. CASE Tick
  BY <1>2 DEF Tick
<1>3. ASSUME NEW i \in Jobs, RegisterOrGet(i)
      PROVE  jobs'[j] = jobs[j]
  BY <1>1, <1>3 DEF RegisterOrGet
<1>4. ASSUME NEW w \in Workers, WorkerStep(w)
      PROVE  jobs'[j] = jobs[j]
  <2>1. workers[w].job # j
    BY <1>1
  <2>2. CASE LeaseWrite(w) \/ MarkPostIntent(w) \/ StampAnswerTs(w) \/ WorkerTransitionWrite(w)
    BY <1>1, <2>1, <2>2 DEF LeaseWrite, MarkPostIntent, StampAnswerTs, WorkerTransitionWrite
  <2>. QED
    BY <1>4, <2>2 DEF WorkerStep, ClaimGet, LeaseRead, PipelineAnswers, PipelineFails,
       PostAnswer, RecordUsage, RecordAdoption, PostFailure, WorkerTransitionRead, Finish
<1>5. ReaperStep \/ ReaperAbort => jobs'[j] = jobs[j]
  BY <1>1 DEF ReaperStep, ReaperAbort, ReaperScan, ReaperRequeue, ReaperAbandon, ReaperDrain,
     DrainMessage, DrainReceived, AbandonDrained, ReaperPostFailure,
     ReaperTransitionRead, ReaperTransitionWrite, ReaperEnd
<1>. QED
  BY <1>2, <1>3, <1>4, <1>5
     DEF Next, vars, IntakeEnqueue, IntakeAbort, MoveToDlq, DuplicateMessage, Receive,
         WorkerAbort, WorkerReadLags, ReaperReadLags

\* Only the steps of intake move it.
LEMMA IntakeMoves ==
  ASSUME IInv, [Next]_vars, NEW j \in Jobs, intake'[j] # intake[j]
  PROVE  RegisterOrGet(j) \/ intake'[j] = "ended"
<1>1. intake \in [Jobs -> {"none", "registered", "ended"}]
  BY DEF IInv, TypeInv, TypeOK, QueueOK
<1>2. ASSUME NEW i \in Jobs, RegisterOrGet(i) \/ IntakeEnqueue(i) \/ IntakeAbort(i)
      PROVE  RegisterOrGet(j) \/ intake'[j] = "ended"
  BY <1>1, <1>2 DEF RegisterOrGet, IntakeEnqueue, IntakeAbort
<1>3. (\E w \in Workers : WorkerStep(w)) => intake' = intake
  BY DEF WorkerStep, ClaimGet, LeaseRead, LeaseWrite, PipelineAnswers, PipelineFails,
     MarkPostIntent, PostAnswer, StampAnswerTs, RecordUsage, RecordAdoption, PostFailure,
     WorkerTransitionRead, WorkerTransitionWrite, Finish
<1>4. ReaperStep \/ ReaperAbort => intake' = intake
  BY DEF ReaperStep, ReaperAbort, ReaperScan, ReaperRequeue, ReaperAbandon, ReaperDrain,
     DrainMessage, DrainReceived, AbandonDrained, ReaperPostFailure,
     ReaperTransitionRead, ReaperTransitionWrite, ReaperEnd
<1>. QED
  BY <1>2, <1>3, <1>4
     DEF Next, vars, MoveToDlq, DuplicateMessage, Receive, WorkerAbort, WorkerReadLags,
         ReaperReadLags, Tick

\* Until its intake is over, a question stays with it.
LEMMA StepFresh ==
  ASSUME IInv, Fresh, [Next]_vars
  PROVE  Fresh'
<1> SUFFICES ASSUME NEW j \in Jobs
             PROVE  /\ intake'[j] = "none" => jobs'[j] = NoItem /\ Unheard(j)'
                    /\ intake'[j] = "registered" =>
                         /\ jobs'[j].status = "seen" /\ jobs'[j].attempts = 0
                         /\ jobs'[j].age <= IntakeTimeout
                         /\ Unheard(j)'
  BY DEF Fresh
<1>1. /\ jobs \in [Jobs -> Items] /\ jobs[j] \in Items
      /\ intake[j] \in {"none", "registered", "ended"}
  BY DEF IInv, TypeInv, TypeOK, JobsOK, QueueOK
<1>2. CASE RegisterOrGet(j)
  <2>1. /\ intake[j] = "none" /\ intake'[j] = "registered"
        /\ jobs' = [jobs EXCEPT ![j] = [jobs[j] EXCEPT !.status = "seen"]]
        /\ UNCHANGED <<msgs, dlq, workers, reaper>>
    BY <1>2 DEF RegisterOrGet, IInv, TypeInv, TypeOK, QueueOK
  <2>2. jobs[j] = NoItem /\ Unheard(j)
    BY <2>1 DEF Fresh
  <2>3. jobs'[j].status = "seen" /\ jobs'[j].attempts = 0 /\ jobs'[j].age = 0
    BY <1>1, <2>1, <2>2 DEF NoItem
  <2>4. Unheard(j)'
    BY <2>1, <2>2 DEF Unheard, Unqueued, Untaken, Unrecovered
  <2>. QED BY <2>1, <2>3, <2>4, TimingAssumption
<1>3. ASSUME ~ RegisterOrGet(j), intake'[j] \in {"none", "registered"}
      PROVE  /\ intake[j] = intake'[j] /\ Unheard(j) /\ Unheard(j)'
             /\ jobs'[j] = jobs[j] \/ (Tick /\ jobs'[j] = AgedJob(jobs[j]))
  <2>1. intake[j] = intake'[j] /\ ~ IntakeEnqueue(j)
    BY <1>3, IntakeMoves DEF IntakeEnqueue, IInv, TypeInv, TypeOK, QueueOK
  <2>2. Unheard(j)
    BY <1>3, <2>1 DEF Fresh
  <2>3. Unscanned(jobs[j])
    <3>1. CASE intake[j] = "none"
      BY <3>1 DEF Fresh, Unscanned
    <3>2. CASE intake[j] = "registered"
      <4>1. /\ jobs[j].attempts = 0 /\ jobs[j].status = "seen"
            /\ jobs[j].age \in Nat /\ jobs[j].age <= IntakeTimeout
        BY <1>1, <3>2 DEF Fresh, Items
      <4>2. ~ IsLeaseStale(jobs[j], Staleness)
        BY <4>1, TimingAssumption DEF IsLeaseStale
      <4>3. LaggingAttempts(jobs[j]) = {}
        BY <4>1, <4>2 DEF LaggingAttempts, InFlight
      <4>. QED BY <4>2, <4>3 DEF Unscanned
    <3>. QED BY <1>3, <2>1, <3>1, <3>2
  <2>. QED
    BY <1>3, <2>1, <2>2, <2>3, StaysUnqueued, StaysUntaken, StaysUnrecovered,
       UnheardKeepsItem DEF Unheard
<1>4. CASE ~ RegisterOrGet(j) /\ intake'[j] = "none"
  <2>1. jobs[j] = NoItem /\ AgedJob(NoItem) = NoItem
    BY <1>3, <1>4 DEF Fresh, AgedJob, NoItem, InFlight
  <2>. QED BY <1>3, <1>4, <2>1
<1>5. CASE ~ RegisterOrGet(j) /\ intake'[j] = "registered"
  <2>1. /\ jobs[j].status = "seen" /\ jobs[j].attempts = 0
        /\ jobs[j].age \in Nat /\ jobs[j].age <= IntakeTimeout
    BY <1>1, <1>3, <1>5 DEF Fresh, Items
  <2>2. CASE Tick /\ jobs'[j] = AgedJob(jobs[j])
    <3>1. jobs[j].age < IntakeTimeout
      BY <1>3, <1>5, <2>2 DEF Tick
    <3>2. AgedJob(jobs[j]) = [jobs[j] EXCEPT !.age = Older(@)]
      BY <2>1 DEF AgedJob, InFlight
    <3>3. Older(jobs[j].age) <= IntakeTimeout
      BY <2>1, <3>1, TimingAssumption DEF Older, Horizon
    <3>4. /\ jobs'[j].status = "seen" /\ jobs'[j].attempts = 0
          /\ jobs'[j].age = Older(jobs[j].age)
      BY <1>1, <2>1, <2>2, <3>2 DEF Items
    <3>. QED BY <1>3, <1>5, <3>3, <3>4
  <2>. QED BY <1>3, <1>5, <2>1, <2>2
<1>. QED BY <1>1, <1>2, <1>4, <1>5

\* BR-021: recovery does not overtake intake.
THEOREM IntakeIsAlone == Spec => []IntakeHasItAlone
<1>1. Init => Fresh
  BY NamesAssumption DEF Init, Fresh, Unheard, Unqueued, Untaken, Unrecovered, NoMessage,
     IdleWorker, IdleReaper
<1>2. IInv /\ Fresh /\ [Next]_vars => Fresh'
  BY StepFresh
<1>3. Fresh => IntakeHasItAlone
  BY DEF Fresh, IntakeHasItAlone, Unheard, Unqueued, Untaken, Unrecovered
<1>4. QED  BY <1>1, <1>2, <1>3, Invariance, PTL DEF Spec

-----------------------------------------------------------------------------
(* The lifecycle implements AnswerOnce: each step is a step of the promise,  *)
(* or none.  A lease to work under is Take, the marker Commit, the post      *)
(* Post, the loss or failure of a worker before its post Lose, and the first *)
(* closing write Close.                                                      *)

\* What a step leaves of what the promise sees.
SamePhase(j) == Phase(jobs'[j]) = Phase(jobs[j])
SameIntent(j) == jobs'[j].intent = jobs[j].intent
SameAnswers(j) == slack'[j].answers = slack[j].answers
SameOwner(w) ==
  /\ workers'[w].pc \in Answering <=> workers[w].pc \in Answering
  /\ workers[w].pc \in Answering => workers'[w].job = workers[w].job

\* A step that changes none of it is a stutter of the promise.
LEMMA PromiseStutters ==
  ASSUME \A j \in Jobs : SamePhase(j) /\ SameIntent(j) /\ SameAnswers(j),
         \A w \in Workers : SameOwner(w)
  PROVE  UNCHANGED Promise!promise
<1>1. \A j \in Jobs : AnsweringWorkers(j)' = AnsweringWorkers(j)
  BY DEF SameOwner, AnsweringWorkers
<1>. QED
  BY <1>1 DEF Promise!promise, SamePhase, SameIntent, SameAnswers

\* A worker that stays as it is, or where it is, owns what it did.
LEMMA OthersOwn ==
  ASSUME IInv, NEW w \in Workers, WorkerStep(w), NEW v \in Workers \ {w}
  PROVE  SameOwner(v)
BY WorkerStepTyped DEF IInv, TypeInv, SameOwner

\* acquire_lease's write is Take, when the claim goes on to work.
LEMMA LeaseTakes ==
  ASSUME IInv, NEW w \in Workers, LeaseWrite(w)
  PROVE  Promise!Next \/ UNCHANGED Promise!promise
<1> DEFINE j == workers[w].job
           item == Leased(jobs[j], workers[w].claim)
<1>1. /\ j \in Jobs /\ jobs \in [Jobs -> Items] /\ workers[w].pc = "leasing"
      /\ workers[w].prev \in Nat /\ workers[w].claim \in Nat
      /\ workers \in [Workers -> Invocations] /\ slack' = slack
  BY HolderHasJob DEF LeaseWrite, At, IInv, TypeInv, TypeOK, JobsOK, WorkersOK, Invocations
<1>2. \A v \in Workers \ {w} : SameOwner(v)
  BY OthersOwn DEF WorkerStep
<1>3. CASE ~ LeaseFree(jobs[j], workers[w].prev, workers[w].claim)
  <2>1. jobs' = jobs /\ workers'[w].pc = "done"
    BY <1>1, <1>3 DEF LeaseWrite, JobOf, Invocations
  <2>2. SameOwner(w)
    BY <1>1, <2>1 DEF SameOwner, Answering
  <2>. QED
    BY <1>1, <1>2, <2>1, <2>2, PromiseStutters DEF SamePhase, SameIntent, SameAnswers
<1>4. CASE LeaseFree(jobs[j], workers[w].prev, workers[w].claim)
  <2>1. /\ jobs' = [jobs EXCEPT ![j] = item]
        /\ workers'[w].pc = ClaimStep(item) /\ workers'[w].job = j
    BY <1>1, <1>4 DEF LeaseWrite, JobOf, Invocations
  <2>2. item.status = "in-progress" /\ item.intent = jobs[j].intent
    BY <1>1, LeasedFields
  <2> HIDE DEF item
  <2>3. Phase(jobs[j]) = "open" /\ Phase(item) = "open"
    BY <1>4, <2>2 DEF Phase, LeaseFree, IsTerminal, Terminal
  <2>4. \A i \in Jobs : SamePhase(i) /\ SameIntent(i) /\ SameAnswers(i)
    BY <1>1, <2>1, <2>2, <2>3 DEF SamePhase, SameIntent, SameAnswers
  <2>5. CASE ClaimStep(item) = "pipeline"
    <3>1. AnsweringWorkers(j) = {}
      BY <1>1, <1>4, HeldIsNotFree DEF AnsweringWorkers, Holding, JobOf
    <3>2. ~ jobs[j].intent
      BY <2>2, <2>5 DEF ClaimStep, PostAttempted
    <3>3. \A i \in Jobs : AnsweringWorkers(i)'
                            = IF i = j THEN {w} ELSE AnsweringWorkers(i)
      BY <1>1, <1>2, <2>1, <2>5, <3>1 DEF AnsweringWorkers, SameOwner, Answering
    <3>4. Promise!Take(j, w)
      BY <1>1, <2>3, <2>4, <3>1, <3>2, <3>3
         DEF Promise!Take, SamePhase, SameIntent, SameAnswers
    <3>. QED BY <1>1, <3>4 DEF Promise!Next
  <2>6. CASE ClaimStep(item) # "pipeline"
    <3>1. SameOwner(w)
      BY <1>1, <2>1, <2>6 DEF SameOwner, Answering, ClaimStep
    <3>. QED BY <1>2, <2>4, <3>1, PromiseStutters
  <2>. QED BY <2>5, <2>6
<1>. QED BY <1>3, <1>4

\* mark_post_intent is Commit: the worker's question has no marker yet.
LEMMA MarkCommits ==
  ASSUME IInv, NEW w \in Workers, MarkPostIntent(w)
  PROVE  Promise!Next
<1>0. PICK j \in Jobs : j = workers[w].job
  BY HolderHasJob DEF MarkPostIntent, At, IInv
<1>1. /\ jobs \in [Jobs -> Items] /\ workers[w].pc = "marking"
      /\ workers \in [Workers -> Invocations] /\ slack' = slack
      /\ jobs' = [jobs EXCEPT ![j].intent = TRUE]
      /\ workers' = [workers EXCEPT ![w].pc = "posting"]
  BY <1>0 DEF MarkPostIntent, Goto, At, IInv, TypeInv, TypeOK, JobsOK, WorkersOK
<1>2. \A v \in Workers : SameOwner(v)
  BY <1>1 DEF SameOwner, Answering, Invocations
<1>3. \A i \in Jobs : AnsweringWorkers(i)' = AnsweringWorkers(i)
  BY <1>2 DEF AnsweringWorkers, SameOwner
<1>4. /\ \A i \in Jobs : jobs'[i].status = jobs[i].status
      /\ \A i \in Jobs : jobs'[i].intent = IF i = j THEN TRUE ELSE jobs[i].intent
  BY <1>1 DEF Items
<1>5. \A i \in Jobs : SamePhase(i) /\ SameAnswers(i)
  BY <1>1, <1>4 DEF SamePhase, SameAnswers, Phase, IsTerminal
<1>6. w \in AnsweringWorkers(j) /\ ~ jobs[j].intent
  BY <1>0, <1>1 DEF AnsweringWorkers, Answering, IInv, Safe, NoWorkAfterIntent, JobOf, PostAttempted
<1>7. [i \in Jobs |-> jobs'[i].intent] = [[i \in Jobs |-> jobs[i].intent] EXCEPT ![j] = TRUE]
  BY <1>4
<1>8. Promise!Commit(j)
  BY <1>3, <1>5, <1>6, <1>7 DEF Promise!Commit, SamePhase, SameAnswers
<1>. QED BY <1>8 DEF Promise!Next

\* post_in_thread of the answer is Post: its worker is alone, and the first.
LEMMA PostPosts ==
  ASSUME IInv, NEW w \in Workers, PostAnswer(w)
  PROVE  Promise!Next
<1>0. PICK j \in Jobs : j = workers[w].job
  BY HolderHasJob DEF PostAnswer, At, IInv
<1>1. /\ workers[w].pc = "posting" /\ jobs' = jobs
      /\ workers \in [Workers -> Invocations]
      /\ slack \in [Jobs -> [answers : Nat, notices : Nat]]
      /\ slack' = [slack EXCEPT ![j].answers = @ + 1]
      /\ workers' = [workers EXCEPT ![w].pc = "stamping"]
  BY <1>0 DEF PostAnswer, Goto, At, IInv, TypeInv, TypeOK, SlackOK, WorkersOK
<1>2. jobs[j].intent /\ slack[j].answers = 0
  BY <1>0, <1>1 DEF IInv, Safe, AnswerBehindIntent, JobOf
<1>3. \A i \in Jobs : slack'[i].answers = IF i = j THEN 1 ELSE slack[i].answers
  BY <1>1, <1>2
<1>4. w \in AnsweringWorkers(j) /\ \A v \in AnsweringWorkers(j) : v = w
  BY <1>0, <1>1 DEF AnsweringWorkers, Answering, Holding, IInv, Safe, SingleHolder
<1>5. \A v \in Workers \ {w} : SameOwner(v)
  BY <1>1 DEF SameOwner
<1>6. workers'[w].pc \notin Answering
  BY <1>1 DEF Answering, Invocations
<1>7. \A i \in Jobs : AnsweringWorkers(i)' = IF i = j THEN {} ELSE AnsweringWorkers(i)
  BY <1>1, <1>4, <1>5, <1>6 DEF AnsweringWorkers, SameOwner
<1>8. /\ [i \in Jobs |-> slack'[i].answers]
           = [[i \in Jobs |-> slack[i].answers] EXCEPT ![j] = 1]
      /\ [i \in Jobs |-> AnsweringWorkers(i)']
           = [[i \in Jobs |-> AnsweringWorkers(i)] EXCEPT ![j] = {}]
  BY <1>3, <1>7
<1>9. Promise!Post(j)
  BY <1>1, <1>2, <1>4, <1>8 DEF Promise!Post
<1>. QED BY <1>9 DEF Promise!Next

\* A worker that leaves its question before the post is Lose; one that had no
\* question to itself changes nothing of the promise.
LEMMA LeavingLoses ==
  ASSUME IInv, NEW w \in Workers, workers'[w].pc \notin Answering,
         \A v \in Workers \ {w} : workers'[v] = workers[v],
         jobs' = jobs, \A j \in Jobs : SameAnswers(j)
  PROVE  Promise!Next \/ UNCHANGED Promise!promise
<1> DEFINE j == workers[w].job
<1>1. \A i \in Jobs : SamePhase(i) /\ SameIntent(i)
  BY DEF SamePhase, SameIntent
<1>2. \A v \in Workers \ {w} : SameOwner(v)
  BY DEF SameOwner
<1>3. CASE workers[w].pc \in Answering
  <2>1. j \in Jobs
    BY <1>3, HolderHasJob DEF IInv, Answering
  <2>2. w \in AnsweringWorkers(j) /\ \A v \in AnsweringWorkers(j) : v = w
    BY <1>3 DEF AnsweringWorkers, Holding, IInv, Safe, SingleHolder
  <2>3. \A i \in Jobs : AnsweringWorkers(i)' = IF i = j THEN {} ELSE AnsweringWorkers(i)
    BY <1>2, <1>3, <2>2 DEF AnsweringWorkers, SameOwner
  <2>4. Promise!Lose(j)
    BY <1>1, <2>1, <2>2, <2>3 DEF Promise!Lose, SamePhase, SameIntent, SameAnswers
  <2>. QED BY <2>1, <2>4 DEF Promise!Next
<1>4. CASE workers[w].pc \notin Answering
  <2>1. SameOwner(w)
    BY <1>4 DEF SameOwner
  <2>. QED BY <1>1, <1>2, <2>1, PromiseStutters
<1>. QED BY <1>3, <1>4

\* transition's write is Close, or comes after another.
LEMMA ClosingCloses ==
  ASSUME IInv, NEW j \in Jobs, NEW target \in Terminal, jobs[j].status # "absent",
         jobs' = [jobs EXCEPT ![j] = Closed(@, target)], slack' = slack,
         \A w \in Workers : SameOwner(w)
  PROVE  Promise!Next \/ UNCHANGED Promise!promise
<1>1. jobs \in [Jobs -> Items]
  BY DEF IInv, TypeInv, TypeOK, JobsOK
<1>2. jobs'[j].status = target /\ jobs'[j].intent = jobs[j].intent
  BY <1>1 DEF Items, Closed
<1>3. \A i \in Jobs : SameIntent(i) /\ SameAnswers(i)
  BY <1>1, <1>2 DEF SameIntent, SameAnswers
<1>4. \A i \in Jobs : AnsweringWorkers(i)' = AnsweringWorkers(i)
  BY DEF AnsweringWorkers, SameOwner
<1>5. \A i \in Jobs : Phase(jobs'[i]) = IF i = j THEN "closed" ELSE Phase(jobs[i])
  BY <1>1, <1>2 DEF Phase, IsTerminal, Terminal
<1>6. CASE Phase(jobs[j]) = "open"
  <2>1. Promise!Close(j)
    BY <1>3, <1>4, <1>5, <1>6 DEF Promise!Close, SameIntent, SameAnswers
  <2>. QED BY <2>1 DEF Promise!Next
<1>7. CASE Phase(jobs[j]) # "open"
  <2>1. \A i \in Jobs : SamePhase(i)
    BY <1>5, <1>7 DEF SamePhase, Phase
  <2>. QED BY <1>3, <2>1, PromiseStutters
<1>. QED BY <1>6, <1>7

\* register_or_get's write is Ask.
LEMMA RegisteringAsks ==
  ASSUME IInv, NEW j \in Jobs, RegisterOrGet(j)
  PROVE  Promise!Next
<1>1. /\ jobs \in [Jobs -> Items] /\ jobs[j] = NoItem
      /\ jobs' = [jobs EXCEPT ![j].status = "seen"]
      /\ workers' = workers /\ slack' = slack
  BY DEF RegisterOrGet, IInv, TypeInv, TypeOK, JobsOK
<1>2. /\ jobs'[j].status = "seen" /\ jobs[j].status = "absent"
      /\ \A i \in Jobs : SameIntent(i) /\ SameAnswers(i)
  <2>1. jobs'[j].status = "seen" /\ jobs'[j].intent = jobs[j].intent
    BY <1>1 DEF Items
  <2>2. \A i \in Jobs \ {j} : jobs'[i] = jobs[i]
    BY <1>1
  <2>3. jobs[j].status = "absent"
    BY <1>1 DEF NoItem
  <2>4. \A i \in Jobs : SameIntent(i)
    BY <2>1, <2>2 DEF SameIntent
  <2>5. \A i \in Jobs : SameAnswers(i)
    BY <1>1 DEF SameAnswers
  <2>. QED BY <2>1, <2>3, <2>4, <2>5
<1>3. \A i \in Jobs : Phase(jobs'[i]) = IF i = j THEN "open" ELSE Phase(jobs[i])
  BY <1>1, <1>2 DEF Phase, IsTerminal, Terminal
<1>4. \A i \in Jobs : AnsweringWorkers(i)' = AnsweringWorkers(i)
  BY <1>1 DEF AnsweringWorkers
<1>5. Phase(jobs[j]) = "absent"
  BY <1>2 DEF Phase
<1>6. Promise!Ask(j)
  BY <1>2, <1>3, <1>4, <1>5 DEF Promise!Ask, SameIntent, SameAnswers
<1>. QED BY <1>6 DEF Promise!Next

\* Every step of a worker is a step of the promise, or none.
LEMMA WorkerKeepsPromise ==
  ASSUME IInv, Present, NEW w \in Workers, WorkerStep(w)
  PROVE  Promise!Next \/ UNCHANGED Promise!promise
<1>1. /\ jobs \in [Jobs -> Items] /\ workers \in [Workers -> Invocations]
      /\ slack \in [Jobs -> [answers : Nat, notices : Nat]]
      /\ \A v \in Workers \ {w} : workers'[v] = workers[v]
      /\ \A v \in Workers \ {w} : SameOwner(v)
  BY WorkerStepTyped, OthersOwn DEF IInv, TypeInv, TypeOK, JobsOK, WorkersOK, SlackOK
<1>2. CASE WorkerTransitionWrite(w)
  <2>1. /\ workers[w].pc = "write" /\ workers' = [workers EXCEPT ![w].pc = "done"]
        /\ jobs' = [jobs EXCEPT ![workers[w].job] = Closed(@, workers[w].target)]
        /\ slack' = slack
    BY <1>2 DEF WorkerTransitionWrite, At, Goto
  <2>2. /\ workers[w].job \in Jobs /\ workers[w].target \in Terminal
        /\ jobs[workers[w].job].status # "absent"
    BY <1>1, <2>1, HolderHasJob DEF IInv, Present, JobOf, Invocations
  <2>3. SameOwner(w)
    BY <1>1, <2>1 DEF SameOwner, Answering, Invocations
  <2>4. PICK j \in Jobs, target \in Terminal : j = workers[w].job /\ target = workers[w].target
    BY <2>2
  <2>. QED BY <1>1, <2>1, <2>2, <2>3, <2>4, ClosingCloses
<1>3. CASE StampAnswerTs(w)
  <2>1. /\ workers[w].pc = "stamping" /\ workers' = [workers EXCEPT ![w].pc = "billing"]
        /\ jobs' = [jobs EXCEPT ![workers[w].job].stamped = TRUE] /\ slack' = slack
    BY <1>3 DEF StampAnswerTs, At, Goto
  <2>2. \A j \in Jobs : jobs'[j].status = jobs[j].status /\ jobs'[j].intent = jobs[j].intent
    BY <1>1, <2>1 DEF Items
  <2>3. \A j \in Jobs : SamePhase(j) /\ SameIntent(j) /\ SameAnswers(j)
    BY <2>1, <2>2 DEF SamePhase, SameIntent, SameAnswers, Phase, IsTerminal
  <2>4. SameOwner(w)
    BY <1>1, <2>1 DEF SameOwner, Answering, Invocations
  <2>. QED BY <1>1, <2>3, <2>4, PromiseStutters
<1>4. CASE PipelineAnswers(w)
  <2>1. /\ workers[w].pc = "pipeline" /\ workers'[w].pc = "marking"
        /\ workers'[w].job = workers[w].job /\ jobs' = jobs /\ slack' = slack
    BY <1>1, <1>4 DEF PipelineAnswers, At, Invocations
  <2>2. SameOwner(w)
    BY <1>1, <2>1 DEF SameOwner, Answering, Invocations
  <2>3. \A j \in Jobs : SamePhase(j) /\ SameIntent(j) /\ SameAnswers(j)
    BY <2>1 DEF SamePhase, SameIntent, SameAnswers
  <2>. QED BY <1>1, <2>2, <2>3, PromiseStutters
<1>5. CASE \/ ClaimGet(w) \/ LeaseRead(w) \/ PipelineFails(w) \/ RecordUsage(w)
           \/ RecordAdoption(w) \/ PostFailure(w) \/ WorkerTransitionRead(w) \/ Finish(w)
  <2>1. jobs' = jobs /\ \A j \in Jobs : SameAnswers(j)
    <3>1. CASE PostFailure(w)
      BY <1>1, <3>1 DEF PostFailure, SameAnswers
    <3>. QED
      BY <1>5, <3>1 DEF SameAnswers, ClaimGet, LeaseRead, PipelineFails, RecordUsage,
         RecordAdoption, WorkerTransitionRead, Finish
  <2>2. workers'[w].pc \notin Answering
    <3>1. CASE workers' = [workers EXCEPT ![w] = IdleWorker]
      BY <1>1, <3>1 DEF IdleWorker, Answering
    <3>2. ASSUME NEW pc, Goto(w, pc)
          PROVE  workers'[w].pc = pc
      BY <1>1, <3>2 DEF Goto, Invocations
    <3>3. CASE ClaimGet(w) \/ PostFailure(w)
      BY <3>2, <3>3 DEF ClaimGet, PostFailure, Answering
    <3>4. CASE WorkerTransitionRead(w) \/ Finish(w)
      BY <3>1, <3>2, <3>4 DEF WorkerTransitionRead, Finish, Answering
    <3>5. CASE LeaseRead(w) \/ RecordAdoption(w) \/ PipelineFails(w) \/ RecordUsage(w)
      BY <1>1, <3>5 DEF LeaseRead, RecordAdoption, PipelineFails, RecordUsage, Goto,
         Answering, Invocations
    <3>. QED BY <1>5, <3>3, <3>4, <3>5
  <2>. QED BY <1>1, <2>1, <2>2, LeavingLoses
<1>. QED
  BY <1>2, <1>3, <1>4, <1>5, LeaseTakes, MarkCommits, PostPosts DEF WorkerStep

\* Every step is a step of the promise, or none.
LEMMA StepKeepsPromise ==
  ASSUME IInv, Present, [Next]_vars
  PROVE  Promise!Next \/ UNCHANGED Promise!promise
<1>1. /\ jobs \in [Jobs -> Items] /\ workers \in [Workers -> Invocations]
      /\ slack \in [Jobs -> [answers : Nat, notices : Nat]]
  BY DEF IInv, TypeInv, TypeOK, JobsOK, WorkersOK, SlackOK
<1>2. CASE jobs' = jobs /\ workers' = workers /\ \A j \in Jobs : SameAnswers(j)
  BY <1>2, PromiseStutters DEF SamePhase, SameIntent, SameOwner
<1>3. CASE Tick
  <2>1. \A j \in Jobs : jobs'[j] = AgedJob(jobs[j]) /\ jobs[j] \in Items
    BY <1>1, <1>3 DEF Tick
  <2>2. \A item \in Items : AgedJob(item).status = item.status /\ AgedJob(item).intent = item.intent
    BY DEF AgedJob, Items
  <2>3. \A j \in Jobs : SamePhase(j) /\ SameIntent(j) /\ SameAnswers(j)
    BY <1>3, <2>1, <2>2 DEF SamePhase, SameIntent, SameAnswers, Phase, IsTerminal, Tick
  <2>4. \A w \in Workers : workers'[w] = AgedWorker(workers[w]) /\ workers[w] \in Invocations
    BY <1>1, <1>3 DEF Tick
  <2>5. \A w \in Workers : SameOwner(w)
    BY <2>4, AgedTyped DEF SameOwner
  <2>. QED BY <2>3, <2>5, PromiseStutters
<1>4. ASSUME NEW w \in Workers, NEW m \in Msgs, Receive(w, m)
      PROVE  Promise!Next \/ UNCHANGED Promise!promise
  <2>1. /\ workers'[w].pc \notin Answering /\ jobs' = jobs
        /\ \A v \in Workers \ {w} : workers'[v] = workers[v]
        /\ \A j \in Jobs : SameAnswers(j)
    BY <1>1, <1>4 DEF Receive, IdleWorker, Answering, SameAnswers
  <2>. QED BY <2>1, LeavingLoses
<1>5. ASSUME NEW w \in Workers, WorkerAbort(w)
      PROVE  Promise!Next \/ UNCHANGED Promise!promise
  <2>1. /\ workers'[w].pc \notin Answering /\ jobs' = jobs
        /\ \A v \in Workers \ {w} : workers'[v] = workers[v]
        /\ \A j \in Jobs : SameAnswers(j)
    BY <1>1, <1>5 DEF WorkerAbort, IdleWorker, Answering, SameAnswers
  <2>. QED BY <2>1, LeavingLoses
<1>6. CASE ReaperTransitionWrite
  <2>1. /\ jobs' = [jobs EXCEPT ![reaper.job] = Closed(@, "failed")]
        /\ slack' = slack /\ workers' = workers
    BY <1>6 DEF ReaperTransitionWrite
  <2>2. CASE reaper.job \in Jobs
    <3>1. PICK j \in Jobs : j = reaper.job
      BY <2>2
    <3>2. jobs[j].status # "absent" /\ "failed" \in Terminal
      BY <3>1 DEF Present, Terminal
    <3>3. \A w \in Workers : SameOwner(w)
      BY <2>1 DEF SameOwner
    <3>. QED BY <2>1, <3>1, <3>2, <3>3, ClosingCloses
  <2>3. CASE reaper.job \notin Jobs
    BY <1>1, <1>2, <2>1, <2>3 DEF SameAnswers
  <2>. QED BY <2>2, <2>3
<1>7. CASE ReaperPostFailure
  BY <1>1, <1>2, <1>7 DEF ReaperPostFailure, SameAnswers
<1>8. CASE (ReaperStep \/ ReaperAbort) /\ ~ ReaperPostFailure /\ ~ ReaperTransitionWrite
  <2>1. jobs' = jobs /\ workers' = workers /\ slack' = slack
    BY <1>8 DEF ReaperStep, ReaperAbort, ReaperScan, ReaperRequeue, ReaperAbandon,
       ReaperDrain, DrainMessage, DrainReceived, AbandonDrained, ReaperTransitionRead,
       ReaperEnd
  <2>. QED BY <1>2, <2>1 DEF SameAnswers
<1>9. CASE \/ UNCHANGED vars \/ ReaperReadLags
           \/ \E j \in Jobs : IntakeEnqueue(j) \/ IntakeAbort(j)
           \/ \E m \in Msgs : MoveToDlq(m)
           \/ \E m, copy \in Msgs : DuplicateMessage(m, copy)
  <2>1. jobs' = jobs /\ workers' = workers /\ slack' = slack
    BY <1>9 DEF vars, IntakeEnqueue, IntakeAbort, MoveToDlq, DuplicateMessage, ReaperReadLags
  <2>. QED BY <1>2, <2>1 DEF SameAnswers
<1>10. ASSUME NEW w \in Workers, WorkerReadLags(w)
       PROVE  Promise!Next \/ UNCHANGED Promise!promise
  <2>1. /\ workers'[w].pc \notin Answering /\ jobs' = jobs
        /\ \A v \in Workers \ {w} : workers'[v] = workers[v]
        /\ \A j \in Jobs : SameAnswers(j)
    BY <1>10, LaggingLeaves DEF IInv, Answering, SameAnswers
  <2>. QED BY <2>1, LeavingLoses
<1>. QED
  BY <1>3, <1>4, <1>5, <1>6, <1>7, <1>8, <1>9, <1>10, RegisteringAsks, WorkerKeepsPromise DEF Next

\* The lifecycle implements AnswerOnce, whatever is redelivered, killed or retried.
THEOREM Refinement == Spec => KeepsPromise
<1>1. Init => Promise!Init
  BY DEF Init, Promise!Init, Phase, NoItem, IdleWorker, AnsweringWorkers, Answering
<1>2. JInv /\ [Next]_vars => [Promise!Next]_(Promise!promise)
  BY StepKeepsPromise DEF JInv
<1>3. QED  BY <1>1, <1>2, MoreInvariance, PTL DEF Spec, KeepsPromise, Promise!Spec
=============================================================================
