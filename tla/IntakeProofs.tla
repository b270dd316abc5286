---------------------------- MODULE IntakeProofs ----------------------------
(***************************************************************************)
(* Intake, for any number of concurrent deliveries and any number of       *)
(* faults.                                                                 *)
(*                                                                         *)
(* The argument: one delivery at most is past the conditional put, and     *)
(* what it has left to do says what it has not yet done; and as long as    *)
(* the job of a question is not stored, every delivery that is over was    *)
(* ended by a fault of its own.                                            *)
(***************************************************************************)
EXTENDS Intake, FiniteSetTheorems, TLAPS

\* At most one delivery is past the put; the ack and the message are its last
\* two steps.
OneWinner ==
  /\ \A d, e \in Deliveries : Past(d) /\ Past(e) => d = e
  /\ \A d \in Deliveries : Past(d) => job # "absent" /\ queued = 0
  /\ \A d \in Deliveries : At(d, "acking") => thread.acks = 0
  /\ job = "absent" => thread.acks = 0 /\ queued = 0
  /\ thread.acks <= 1 /\ queued <= 1

\* A bot's message stops at the filter.
BotsStopEarly ==
  message.bot =>
    /\ \A d \in Deliveries : At(d, "sent") \/ At(d, "done")
    /\ job = "absent" /\ thread = [acks |-> 0, refusals |-> 0, notices |-> 0]

Over == {d \in Deliveries : At(d, "done")}

\* An eligible question is on its way, or a fault stopped it.
OnItsWay ==
  /\ \A d \in Deliveries : ~ At(d, "refusing")
  /\ job = "absent" => Cardinality(Over) <= faults
  /\ job # "absent" /\ queued = 0 /\ faults = 0 => \E d \in Deliveries : Past(d)
FaultsOnly == Eligible => OnItsWay

IInv == TypeOK /\ OneWinner /\ BotsStopEarly /\ FaultsOnly

\* What a delivery's step does to where it stands, and to nobody else.
LEMMA Gone ==
  ASSUME TypeOK, NEW d \in Deliveries, NEW pc, Goto(d, pc)
  PROVE  \A e \in Deliveries : delivery'[e].pc = IF e = d THEN pc ELSE delivery[e].pc
BY DEF TypeOK, Goto, DeliveryStates

\* Types, action by action.
LEMMA TypesKept == TypeOK /\ [Next]_vars => TypeOK'
<1>. SUFFICES ASSUME TypeOK, [Next]_vars PROVE TypeOK'
  OBVIOUS
<1>. USE DEF TypeOK
<1>g. ASSUME NEW d \in Deliveries, NEW pc, Goto(d, pc),
             pc \in {"sent", "filtered", "refusing", "attaching",
                     "registering", "acking", "enqueuing", "done"}
      PROVE delivery' \in [Deliveries -> DeliveryStates]
  BY <1>g DEF Goto, DeliveryStates
<1>1. ASSUME NEW d \in Deliveries, Filter(d) PROVE TypeOK'
  BY <1>1, <1>g DEF Filter
<1>2. ASSUME NEW d \in Deliveries, CheckChannel(d) PROVE TypeOK'
  BY <1>2, <1>g DEF CheckChannel
<1>3. ASSUME NEW d \in Deliveries, PostNotDesignated(d) PROVE TypeOK'
  BY <1>3, <1>g DEF PostNotDesignated
<1>4. ASSUME NEW d \in Deliveries, DownloadFile(d) PROVE TypeOK'
  BY <1>4 DEF DownloadFile, Downloaded, DeliveryStates
<1>5. ASSUME NEW d \in Deliveries, PostFileNotice(d) PROVE TypeOK'
  BY <1>5, <1>g DEF PostFileNotice
<1>6. ASSUME NEW d \in Deliveries, Register(d) PROVE TypeOK'
  <2>1. delivery[d].brings \in {"text-only", "with-file"}
    BY DEF DeliveryStates
  <2>. QED BY <1>6, <1>g, <2>1 DEF Register
<1>7. ASSUME NEW d \in Deliveries, Ack(d) PROVE TypeOK'
  BY <1>7, <1>g DEF Ack
<1>8. ASSUME NEW d \in Deliveries, Enqueue(d) PROVE TypeOK'
  BY <1>8, <1>g DEF Enqueue
<1>9. ASSUME NEW d \in Deliveries, Abort(d) PROVE TypeOK'
  BY <1>9, <1>g, IntakeAssumption DEF Abort, Raises
<1>10. CASE UNCHANGED vars
  BY <1>10 DEF vars
<1>. QED BY <1>1, <1>2, <1>3, <1>4, <1>5, <1>6, <1>7, <1>8, <1>9, <1>10 DEF Next, Step

\* The put has one winner, action by action.
LEMMA OneWinnerKept == TypeOK /\ OneWinner /\ [Next]_vars => OneWinner'
<1>. SUFFICES ASSUME TypeOK, OneWinner, [Next]_vars PROVE OneWinner'
  OBVIOUS
<1>t. /\ thread \in [acks : Nat, refusals : Nat, notices : Nat] /\ queued \in Nat
      /\ delivery \in [Deliveries -> DeliveryStates]
  BY DEF TypeOK
<1>. USE DEF OneWinner, Past, At
<1>1. ASSUME NEW d \in Deliveries, Filter(d) PROVE OneWinner'
  BY <1>1, Gone DEF Filter
<1>2. ASSUME NEW d \in Deliveries, CheckChannel(d) PROVE OneWinner'
  BY <1>2, Gone DEF CheckChannel
<1>3. ASSUME NEW d \in Deliveries, PostNotDesignated(d) PROVE OneWinner'
  BY <1>3, <1>t, Gone DEF PostNotDesignated
<1>4. ASSUME NEW d \in Deliveries, DownloadFile(d) PROVE OneWinner'
  BY <1>4, <1>t DEF DownloadFile
<1>5. ASSUME NEW d \in Deliveries, PostFileNotice(d) PROVE OneWinner'
  BY <1>5, <1>t, Gone DEF PostFileNotice
<1>6. ASSUME NEW d \in Deliveries, Register(d) PROVE OneWinner'
  <2>1. delivery[d].brings # "absent"
    BY <1>t DEF DeliveryStates
  <2>. QED BY <1>6, <1>t, <2>1, Gone DEF Register, Creates
<1>7. ASSUME NEW d \in Deliveries, Ack(d) PROVE OneWinner'
  BY <1>7, <1>t, Gone DEF Ack
<1>8. ASSUME NEW d \in Deliveries, Enqueue(d) PROVE OneWinner'
  BY <1>8, <1>t, Gone DEF Enqueue
<1>9. ASSUME NEW d \in Deliveries, Abort(d) PROVE OneWinner'
  BY <1>9, Gone DEF Abort, Raises
<1>10. CASE UNCHANGED vars
  BY <1>10 DEF vars
<1>. QED BY <1>1, <1>2, <1>3, <1>4, <1>5, <1>6, <1>7, <1>8, <1>9, <1>10 DEF Next, Step

\* A bot's message goes nowhere but out.
LEMMA BotsStopEarlyKept == TypeOK /\ BotsStopEarly /\ [Next]_vars => BotsStopEarly'
<1>. SUFFICES ASSUME TypeOK, BotsStopEarly, [Next]_vars, message.bot PROVE BotsStopEarly'
  BY DEF BotsStopEarly, Next, Step, vars, Filter, CheckChannel, PostNotDesignated,
         DownloadFile, PostFileNotice, Register, Ack, Enqueue, Abort
<1>1. ASSUME NEW d \in Deliveries, Filter(d) PROVE BotsStopEarly'
  BY <1>1, Gone DEF Filter, IsQuestion, BotsStopEarly, At
<1>2. ASSUME NEW d \in Deliveries, Step(d), ~ Filter(d) PROVE FALSE
  BY <1>2 DEF Step, BotsStopEarly, At, CheckChannel, PostNotDesignated,
              DownloadFile, PostFileNotice, Register, Ack, Enqueue
<1>3. ASSUME NEW d \in Deliveries, Abort(d) PROVE FALSE
  BY <1>3 DEF Abort, BotsStopEarly, At
<1>4. CASE UNCHANGED vars
  BY <1>4 DEF vars, BotsStopEarly, At
<1>. QED BY <1>1, <1>2, <1>3, <1>4 DEF Next

\* A delivery that is over stays over, and one step ends at most one.
LEMMA OverCounted ==
  ASSUME TypeOK
  PROVE  IsFiniteSet(Over) /\ Cardinality(Over) \in Nat
         /\ Cardinality(Over) <= Cardinality(Deliveries)
BY IntakeAssumption, FS_Subset, FS_CardinalityType DEF Over

LEMMA OneMoreOver ==
  ASSUME TypeOK, NEW d \in Deliveries, Goto(d, "done"), ~ At(d, "done")
  PROVE  Cardinality(Over') = Cardinality(Over) + 1
<1>1. Over' = Over \cup {d} /\ d \notin Over
  BY Gone DEF Over, At
<1>. QED BY <1>1, OverCounted, FS_AddElement

LEMMA SameOver ==
  ASSUME TypeOK, NEW d \in Deliveries, NEW pc, Goto(d, pc), ~ At(d, "done"), pc # "done"
  PROVE  Over' = Over
BY Gone DEF Over, At

\* An eligible question is lost to faults only, action by action.
LEMMA FaultsOnlyKept == TypeOK /\ OneWinner /\ FaultsOnly /\ [Next]_vars => FaultsOnly'
<1>. SUFFICES ASSUME TypeOK, OneWinner, FaultsOnly, [Next]_vars PROVE FaultsOnly'
  OBVIOUS
<1>u. UNCHANGED <<message, allowlist>>
  BY DEF Next, Step, vars, Filter, CheckChannel, PostNotDesignated, DownloadFile,
         PostFileNotice, Register, Ack, Enqueue, Abort
<1>. SUFFICES ASSUME Eligible PROVE OnItsWay'
  BY <1>u DEF FaultsOnly, Eligible
<1>t. /\ faults \in Nat /\ queued \in Nat /\ Cardinality(Over) \in Nat
      /\ delivery \in [Deliveries -> DeliveryStates]
  BY OverCounted, IntakeAssumption DEF TypeOK
<1>e. OnItsWay /\ allowlist.allowed /\ IsQuestion(message)
  BY DEF FaultsOnly, Eligible
<1>. USE DEF OnItsWay, Past
<1>1. ASSUME NEW d \in Deliveries, Filter(d) PROVE OnItsWay'
  <2>1. Goto(d, "filtered") /\ ~ At(d, "done")
    BY <1>1, <1>e DEF Filter, At
  <2>. QED BY <1>1, <1>e, <2>1, SameOver, Gone DEF Filter, At
<1>2. ASSUME NEW d \in Deliveries, CheckChannel(d) PROVE OnItsWay'
  <2>1. Goto(d, "attaching") /\ ~ At(d, "done")
    BY <1>2, <1>e DEF CheckChannel, At
  <2>. QED BY <1>2, <1>e, <2>1, SameOver, Gone DEF CheckChannel, At
<1>3. ASSUME NEW d \in Deliveries, PostNotDesignated(d) PROVE FALSE
  BY <1>3, <1>e DEF PostNotDesignated
<1>4. ASSUME NEW d \in Deliveries, DownloadFile(d) PROVE OnItsWay'
  <2>1. Over' = Over
    BY <1>4, <1>t DEF DownloadFile, Over, At
  <2>. QED BY <1>4, <1>e, <1>t, <2>1 DEF DownloadFile, At
<1>5. ASSUME NEW d \in Deliveries, PostFileNotice(d) PROVE OnItsWay'
  <2>1. Over' = Over
    BY <1>5, SameOver DEF PostFileNotice, At
  <2>. QED BY <1>5, <1>e, <2>1, Gone DEF PostFileNotice, At
<1>6. ASSUME NEW d \in Deliveries, Register(d) PROVE OnItsWay'
  <2>1. CASE job = "absent"
    <3>1. job' # "absent" /\ Goto(d, "acking")
      BY <1>6, <1>t, <2>1 DEF Register, Creates, DeliveryStates
    <3>. QED BY <1>6, <1>e, <3>1, Gone DEF At
  <2>2. CASE job # "absent"
    <3>1. job' = job /\ Goto(d, "done") /\ queued' = queued /\ faults' = faults
      BY <1>6, <2>2 DEF Register, Creates
    <3>2. ASSUME queued = 0, faults = 0 PROVE \E e \in Deliveries : Past(e)'
      <4>1. PICK e \in Deliveries : Past(e)
        BY <1>e, <2>2, <3>2
      <4>2. e # d
        BY <1>6, <4>1 DEF Register, At
      <4>3. Past(e)'
        BY <3>1, <4>1, <4>2, Gone DEF At
      <4>. QED BY <4>3
    <3>. QED BY <1>e, <2>2, <3>1, <3>2, Gone DEF At
  <2>. QED BY <2>1, <2>2
<1>7. ASSUME NEW d \in Deliveries, Ack(d) PROVE OnItsWay'
  <2>1. job # "absent" /\ Goto(d, "enqueuing")
    BY <1>7 DEF Ack, OneWinner
  <2>. QED BY <1>7, <1>e, <2>1, Gone DEF Ack, At
<1>8. ASSUME NEW d \in Deliveries, Enqueue(d) PROVE OnItsWay'
  <2>1. job # "absent" /\ queued' # 0
    BY <1>8, <1>t DEF Enqueue, OneWinner
  <2>. QED BY <1>8, <1>e, <2>1, Gone DEF Enqueue, At
<1>9. ASSUME NEW d \in Deliveries, Abort(d) PROVE OnItsWay'
  <2>1. Goto(d, "done") /\ ~ At(d, "done") /\ faults' = faults + 1
    BY <1>9 DEF Abort, Raises, At
  <2>2. Cardinality(Over') = Cardinality(Over) + 1
    BY <2>1, OneMoreOver
  <2>. QED BY <1>9, <1>e, <1>t, <2>1, <2>2, Gone DEF Abort, At
<1>10. CASE UNCHANGED vars
  <2>1. Over' = Over
    BY <1>10 DEF vars, Over, At
  <2>. QED BY <1>10, <1>e, <2>1 DEF vars, At
<1>. QED BY <1>1, <1>2, <1>3, <1>4, <1>5, <1>6, <1>7, <1>8, <1>9, <1>10 DEF Next, Step

\* Every delivery is yet to start, and the allowlist came from get_allowlist.
LEMMA InitHolds == Init => IInv
<1>. SUFFICES ASSUME Init PROVE IInv
  OBVIOUS
<1>1. message \in MessageKinds
  <2>1. PICK m \in SlackMessages : message = ParseMention(m)
    BY DEF Init
  <2>2. PickReviewableFile(m.files) \in {"none", "file", "wrong-type", "oversize"}
    BY DEF PickReviewableFile
  <2>3. m.mentions \in BOOLEAN
    BY DEF SlackMessages
  <2>. QED BY <2>1, <2>2, <2>3 DEF ParseMention, MessageKinds
<1>2. allowlist \in Allowlists
  <2>1. PICK item \in AllowlistItems : allowlist = GetAllowlist(item)
    BY DEF Init
  <2>. DEFINE a == item.exists /\ item.ids = "with-channel" /\ item.behaviour # "unknown"
              r == item.exists => item.behaviour \in {"absent", "reply-not-designated"}
  <2>2. a \in BOOLEAN /\ r \in BOOLEAN
    OBVIOUS
  <2>3. allowlist = [allowed |-> a, replies |-> r]
    BY <2>1, Zenon DEF GetAllowlist
  <2>. HIDE DEF a, r
  <2>. QED BY <2>2, <2>3 DEF Allowlists
<1>3. TypeOK
  BY <1>1, <1>2, IntakeAssumption DEF Init, TypeOK, NewDelivery, DeliveryStates
<1>4. Over = {}
  BY DEF Init, Over, At, NewDelivery
<1>5. Cardinality(Over) = 0
  BY <1>4, FS_EmptySet
<1>. QED BY <1>2, <1>3, <1>5
  DEF IInv, Init, NewDelivery, OneWinner, Past, At, BotsStopEarly, FaultsOnly, OnItsWay

\* What may be said of every reachable state.
THEOREM IntakeInvariant == Spec => []IInv
<1>1. IInv /\ [Next]_vars => IInv'
  BY TypesKept, OneWinnerKept, BotsStopEarlyKept, FaultsOnlyKept DEF IInv
<1>. QED BY <1>1, InitHolds, PTL DEF Spec

\* Every variable of intake keeps its type.
THEOREM IntakeTypeCorrect == Spec => []TypeOK
<1>1. IInv => TypeOK
  BY DEF IInv
<1>. QED BY <1>1, IntakeInvariant, PTL

\* BR-010: one ack and one message at most, behind the stored job.
THEOREM QueuedOnce == Spec => []QueuedOnceBehindTheJob
<1>1. IInv => QueuedOnceBehindTheJob
  BY DEF IInv, OneWinner, QueuedOnceBehindTheJob, TypeOK
<1>. QED BY <1>1, IntakeInvariant, PTL

\* BR-002: a bot's message leads to no post and no job.
THEOREM NothingForBots == Spec => []BotsGetNothing
<1>1. IInv => BotsGetNothing
  BY DEF IInv, BotsStopEarly, BotsGetNothing
<1>. QED BY <1>1, IntakeInvariant, PTL

\* BR-004, BR-021: only faults lose a question, one for each delivery if its
\* job is not even stored.
THEOREM OnlyFaultsLose == Spec => []LostOnlyByFaults
<1>1. IInv => LostOnlyByFaults
  <2>. SUFFICES ASSUME IInv, Eligible, queued = 0, \A d \in Deliveries : At(d, "done")
       PROVE faults >= IF job = "absent" THEN Cardinality(Deliveries) ELSE 1
    BY DEF LostOnlyByFaults
  <2>1. OnItsWay /\ faults \in Nat
    BY IntakeAssumption DEF IInv, FaultsOnly, TypeOK
  <2>2. Over = Deliveries
    BY DEF Over
  <2>3. Cardinality(Deliveries) \in Nat
    BY IntakeAssumption, FS_CardinalityType
  <2>4. \A d \in Deliveries : ~ Past(d)
    BY DEF Past, At
  <2>. QED BY <2>1, <2>2, <2>3, <2>4 DEF OnItsWay
<1>. QED BY <1>1, IntakeInvariant, PTL

-----------------------------------------------------------------------------
(* Intake implements QueueOnce.                                              *)

Phase == IF job = "absent" THEN "none"
         ELSE IF \E d \in Deliveries : Past(d) THEN "registered" ELSE "ended"

\* The delivery that takes a step away from the queue is the only one that was
\* on its way to it.
LEMMA LastOneLeaves ==
  ASSUME IInv, NEW d \in Deliveries, Past(d), Goto(d, "done"), job' = job
  PROVE  Phase = "registered" /\ Phase' = "ended"
<1>1. job # "absent" /\ \A e \in Deliveries : Past(e) => e = d
  BY DEF IInv, OneWinner
<1>2. \A e \in Deliveries : ~ Past(e)'
  BY <1>1, Gone DEF IInv, Past, At
<1>. QED BY <1>1, <1>2 DEF Phase

\* A delivery that neither comes to the queue nor leaves it is not seen.
LEMMA SameWinner ==
  ASSUME UNCHANGED <<job, queued>>, \A d \in Deliveries : Past(d)' <=> Past(d)
  PROVE  UNCHANGED Promise!promise
<1>1. Phase' = Phase
  BY DEF Phase
<1>. QED BY <1>1 DEF Phase, Promise!promise

\* Every step of intake is a step of the promise, or is not seen.
LEMMA StepIsPromised == IInv /\ [Next]_vars => [Promise!Next]_(Promise!promise)
<1>. SUFFICES ASSUME IInv, [Next]_vars PROVE [Promise!Next]_(Promise!promise)
  OBVIOUS
<1>t. TypeOK /\ OneWinner /\ delivery \in [Deliveries -> DeliveryStates]
  BY DEF IInv, TypeOK
<1>1. ASSUME NEW d \in Deliveries, NEW pc, Goto(d, pc),
             ~ Past(d), pc \notin {"acking", "enqueuing"}, UNCHANGED <<job, queued>>
      PROVE  UNCHANGED Promise!promise
  BY <1>t, <1>1, Gone, SameWinner DEF Past, At
<1>2. ASSUME NEW d \in Deliveries, Filter(d) \/ CheckChannel(d) \/ PostNotDesignated(d)
                                     \/ PostFileNotice(d)
      PROVE  UNCHANGED Promise!promise
  BY <1>1, <1>2 DEF Filter, CheckChannel, PostNotDesignated, PostFileNotice, Past, At
<1>3. ASSUME NEW d \in Deliveries, DownloadFile(d) PROVE UNCHANGED Promise!promise
  BY <1>3, <1>t, SameWinner DEF DownloadFile, Past, At
<1>4. ASSUME NEW d \in Deliveries, Register(d) PROVE [Promise!Next]_(Promise!promise)
  <2>1. CASE job # "absent"
    BY <1>1, <1>4, <2>1 DEF Register, Creates, Past, At
  <2>2. CASE job = "absent"
    <3>1. job' # "absent" /\ Goto(d, "acking") /\ queued' = queued
      BY <1>4, <1>t, <2>2 DEF Register, Creates, DeliveryStates
    <3>2. Past(d)'
      BY <1>t, <3>1, Gone DEF Past, At
    <3>3. Phase = "none" /\ Phase' = "registered"
      BY <2>2, <3>1, <3>2 DEF Phase
    <3>4. Promise!Store
      BY <3>1, <3>3 DEF Promise!Store, Phase
    <3>. QED BY <3>4 DEF Promise!Next
  <2>. QED BY <2>1, <2>2
<1>5. ASSUME NEW d \in Deliveries, Ack(d) PROVE UNCHANGED Promise!promise
  BY <1>5, <1>t, Gone, SameWinner DEF Ack, Past, At
<1>6. ASSUME NEW d \in Deliveries, Enqueue(d) PROVE Promise!Next
  <2>1. Phase = "registered" /\ Phase' = "ended" /\ queued' = queued + 1
    BY <1>6, LastOneLeaves DEF Enqueue, Past
  <2>2. Promise!Queue
    BY <2>1 DEF Promise!Queue, Phase
  <2>. QED BY <2>2 DEF Promise!Next
<1>7. ASSUME NEW d \in Deliveries, Abort(d) PROVE [Promise!Next]_(Promise!promise)
  <2>1. Goto(d, "done") /\ UNCHANGED <<job, queued>>
    BY <1>7 DEF Abort, Raises
  <2>2. CASE Past(d)
    <3>1. Phase = "registered" /\ Phase' = "ended"
      BY <2>1, <2>2, LastOneLeaves
    <3>2. Promise!GiveUp
      BY <2>1, <3>1 DEF Promise!GiveUp, Phase
    <3>. QED BY <3>2 DEF Promise!Next
  <2>3. CASE ~ Past(d)
    BY <1>1, <2>1, <2>3
  <2>. QED BY <2>2, <2>3
<1>8. CASE UNCHANGED vars
  BY <1>8, SameWinner DEF vars, Past, At
<1>. QED BY <1>2, <1>3, <1>4, <1>5, <1>6, <1>7, <1>8 DEF Next, Step

\* BR-004, BR-010, BR-021: to the lifecycle, any number of deliveries are one
\* intake that stores the question, then queues it or gives up.
THEOREM DeliveriesAreOneIntake == Spec => IntakeIsOver
<1>1. Init => Promise!Init
  BY DEF Init, Promise!Init
<1>. QED
  BY <1>1, StepIsPromised, IntakeInvariant, PTL DEF Spec, IntakeIsOver, Promise!Spec
=============================================================================
