------------------------------ MODULE JobRules ------------------------------
(***************************************************************************)
(* The pure decisions a processing job is subject to: the status machine   *)
(* of domain/state_machine.py and the job rules of domain/rules.py and     *)
(* domain/entities.py.  A job is the stored item                           *)
(*   [status, attempts, age, intent, stamped]                              *)
(* where age is the time since last_transition_at (what every reader of    *)
(* that attribute computes from it), intent says that post_intent_at is    *)
(* set and stamped that answer_message_ts is.                              *)
(***************************************************************************)
EXTENDS Naturals

\* JobStatus, by how a job of that status is treated.
InFlight == {"seen", "in-progress"}
Terminal == {"resolved", "failed"}
JobStatus == InFlight \cup Terminal

\* The FSM table: _ALLOWED.
Allowed == [s \in JobStatus |->
              CASE s = "seen"        -> {"in-progress", "failed"}
                [] s = "in-progress" -> {"in-progress", "resolved", "failed"}
                [] OTHER             -> {}]

CanTransition(current, target) == target \in Allowed[current]

IsTerminal(job) == job.status \in Terminal

\* BR-021: inclusive, and only for a job in flight.
IsLeaseStale(job, staleness) ==
  /\ job.status \in InFlight
  /\ job.age >= staleness

\* BR-022.
AttemptsExhausted(job, maxAttempts) == job.attempts >= maxAttempts

\* Mutant: only an answer that is known to have landed counts.
PostConfirmed(job) == job.stamped

\* BR-027: a post was started, or is known to have landed.
PostAttempted(job) == job.intent \/ job.stamped
=============================================================================
