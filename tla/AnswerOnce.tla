----------------------------- MODULE AnswerOnce -----------------------------
(***************************************************************************)
(* What the job lifecycle promises about each question, with no queue, no  *)
(* time, no lease and no recovery in it.  A question that was asked may be *)
(* taken by one worker at a time.  The worker that has a question commits  *)
(* to answering it before it posts; from then on nobody takes the question *)
(* again, and only the worker that committed may post, once.  A worker may *)
(* be lost at any moment.  A closed question is never taken.               *)
(***************************************************************************)
EXTENDS Naturals

CONSTANTS Questions, Answerers

VARIABLES
  phase,      \* absent, open or closed
  owners,     \* the worker that has the question, if any
  committed,  \* some worker has said that it is about to post
  answers     \* answers posted

promise == <<phase, owners, committed, answers>>

Init ==
  /\ phase = [q \in Questions |-> "absent"]
  /\ owners = [q \in Questions |-> {}]
  /\ committed = [q \in Questions |-> FALSE]
  /\ answers = [q \in Questions |-> 0]

Ask(q) ==
  /\ phase[q] = "absent"
  /\ phase' = [phase EXCEPT ![q] = "open"]
  /\ UNCHANGED <<owners, committed, answers>>

Take(q, a) ==
  /\ phase[q] = "open"
  /\ owners[q] = {}
  /\ ~ committed[q]
  /\ owners' = [owners EXCEPT ![q] = {a}]
  /\ UNCHANGED <<phase, committed, answers>>

Commit(q) ==
  /\ owners[q] # {}
  /\ ~ committed[q]
  /\ committed' = [committed EXCEPT ![q] = TRUE]
  /\ UNCHANGED <<phase, owners, answers>>

Post(q) ==
  /\ owners[q] # {}
  /\ committed[q]
  /\ answers[q] = 0
  /\ answers' = [answers EXCEPT ![q] = 1]
  /\ owners' = [owners EXCEPT ![q] = {}]
  /\ UNCHANGED <<phase, committed>>

Lose(q) ==
  /\ owners[q] # {}
  /\ owners' = [owners EXCEPT ![q] = {}]
  /\ UNCHANGED <<phase, committed, answers>>

Close(q) ==
  /\ phase[q] = "open"
  /\ phase' = [phase EXCEPT ![q] = "closed"]
  /\ UNCHANGED <<owners, committed, answers>>

Next ==
  \E q \in Questions :
    \/ Ask(q)
    \/ \E a \in Answerers : Take(q, a)
    \/ Commit(q) \/ Post(q) \/ Lose(q) \/ Close(q)

Spec == Init /\ [][Next]_promise
=============================================================================
