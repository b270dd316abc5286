------------------------------- MODULE Intake -------------------------------
(***************************************************************************)
(* The intake Lambda and one message of a channel.  Slack may deliver the  *)
(* message several times: it retries what was not answered in time, and    *)
(* sends a mention as an app_mention and as a message event.  Each         *)
(* delivery is an invocation of its own and they may run at once; what     *)
(* they share is the job item, the queue and the thread.                   *)
(***************************************************************************)
EXTENDS Naturals, FiniteSets, Sequences

CONSTANTS
  Deliveries,   \* deliveries of the message
  MaxFaults     \* Lambda kills and calls that raise (a bound)

ASSUME IntakeAssumption == MaxFaults \in Nat /\ IsFiniteSet(Deliveries)

VARIABLES
  message,      \* the message, as parse_mention and pick_reviewable_file see it
  allowlist,    \* the allowlist item: is the channel in it, and what to say if not
  delivery,     \* where each delivery stands, and what it brings for the job
  job,          \* the job item
  thread,       \* what the bot posted in the thread
  queued,       \* messages put on the work queue
  faults

vars == <<message, allowlist, delivery, job, thread, queued, faults>>

-----------------------------------------------------------------------------
(* What Slack sends and what the operator wrote, and what the code makes of  *)
(* them.                                                                     *)

\* Reviewable are text and IaC files; of those, "large" is over the cap and
\* "unlinked" carries no URL.
FileKinds == {"binary", "large", "unlinked", "text"}
FileLists == {<<>>} \cup {<<k>> : k \in FileKinds} \cup (FileKinds \X FileKinds)

\* pick_reviewable_file: the first one that can be had, or why there is none.
PickReviewableFile(files) ==
  LET kinds == {files[i] : i \in DOMAIN files}
  IN  IF files = <<>> THEN "none"
      ELSE IF "text" \in kinds THEN "file"
      ELSE IF "large" \in kinds THEN "oversize" ELSE "wrong-type"

\* parse_mention: the author is known by a bot_id, the bot_message subtype, or
\* as the bot itself.
Authors == {"person", "bot-id", "bot-subtype", "the-bot"}

SlackMessages == [author : Authors, mentions : BOOLEAN, files : FileLists]
ParseMention(m) == [bot |-> m.author # "person", mentions |-> m.mentions,
                    attached |-> PickReviewableFile(m.files)]
MessageKinds == [bot : BOOLEAN, mentions : BOOLEAN,
                 attached : {"none", "file", "wrong-type", "oversize"}]

\* The allowlist item, if there is one: its ids may be no list, its behaviour
\* absent or a word that the enumeration does not know.
AllowlistItems ==
  [exists : {TRUE}, ids : {"with-channel", "without", "no-list"},
   behaviour : {"absent", "silent", "reply-not-designated", "unknown"}]
    \cup {[exists |-> FALSE]}

\* get_allowlist: no item allows nothing and says so.  An unknown behaviour
\* raises, whether or not the channel is among the ids; Slack is answered 200
\* all the same, so that nothing is allowed and nothing said.
GetAllowlist(item) ==
  [allowed |-> item.exists /\ item.ids = "with-channel" /\ item.behaviour # "unknown",
   replies |-> item.exists => item.behaviour \in {"absent", "reply-not-designated"}]
Allowlists == [allowed : BOOLEAN, replies : BOOLEAN]

NewDelivery == [pc |-> "sent", brings |-> "text-only"]
DeliveryStates == [pc : {"sent", "filtered", "refusing", "attaching",
                         "registering", "acking", "enqueuing", "done"},
                   brings : {"text-only", "with-file"}]

Init ==
  /\ message \in {ParseMention(m) : m \in SlackMessages}
  /\ allowlist \in {GetAllowlist(item) : item \in AllowlistItems}
  /\ delivery = [d \in Deliveries |-> NewDelivery]
  /\ job = "absent"
  /\ thread = [acks |-> 0, refusals |-> 0, notices |-> 0]
  /\ queued = 0
  /\ faults = 0

TypeOK ==
  /\ message \in MessageKinds
  /\ allowlist \in Allowlists
  /\ delivery \in [Deliveries -> DeliveryStates]
  /\ job \in {"absent", "with-file", "text-only"}
  /\ thread \in [acks : Nat, refusals : Nat, notices : Nat]
  /\ queued \in Nat
  /\ faults \in 0 .. MaxFaults

At(d, pc) == delivery[d].pc = pc
Goto(d, pc) == delivery' = [delivery EXCEPT ![d].pc = pc]

Raises(d) ==
  /\ faults < MaxFaults
  /\ faults' = faults + 1
  /\ Goto(d, "done")

\* Mutant: the bot's own messages are filtered by their author alone, not as
\* messages that carry no question.
IsQuestionOfAnyone(m) == m.mentions

\* BR-002, BR-003.
IsQuestion(m) == ~ m.bot /\ m.mentions

Filter(d) ==
  /\ At(d, "sent")
  /\ Goto(d, IF IsQuestion(message) THEN "filtered" ELSE "done")
  /\ UNCHANGED <<message, allowlist, job, thread, queued, faults>>

\* BR-001: get_allowlist, and what to do in a channel that is not in it.
CheckChannel(d) ==
  /\ At(d, "filtered")
  /\ Goto(d, IF allowlist.allowed THEN "attaching"
             ELSE IF allowlist.replies THEN "refusing" ELSE "done")
  /\ UNCHANGED <<message, allowlist, job, thread, queued, faults>>

PostNotDesignated(d) ==
  /\ At(d, "refusing")
  /\ thread' = [thread EXCEPT !.refusals = @ + 1]
  /\ Goto(d, "done")
  /\ UNCHANGED <<message, allowlist, job, queued, faults>>

\* Mutant: what a failed download said is taken for the file's text.
DownloadedOrError == {"with-file", "with-error"}

\* _ingest_attachment: a download that fails leaves a text-only review.
Downloaded == {"with-file", "text-only"}

DownloadFile(d) ==
  /\ At(d, "attaching")
  /\ message.attached \in {"none", "file"}
  /\ \E what \in IF message.attached = "file" THEN Downloaded ELSE {"text-only"} :
       delivery' = [delivery EXCEPT ![d] = [pc |-> "registering", brings |-> what]]
  /\ UNCHANGED <<message, allowlist, job, thread, queued, faults>>

\* A file that cannot be reviewed: the asker is told, outside any try.
PostFileNotice(d) ==
  /\ At(d, "attaching")
  /\ message.attached \in {"wrong-type", "oversize"}
  /\ thread' = [thread EXCEPT !.notices = @ + 1]
  /\ Goto(d, "registering")
  /\ UNCHANGED <<message, allowlist, job, queued, faults>>

\* Mutant: the item is put whether or not it exists.
CreatesAlways(item) == TRUE

\* register_or_get: a put on attribute_not_exists.
Creates(item) == item = "absent"

\* Mutant: a redelivery that finds the item queues it, in case nobody did.
RegisterOrQueue(d) ==
  /\ At(d, "registering")
  /\ IF Creates(job)
       THEN job' = delivery[d].brings /\ Goto(d, "acking")
       ELSE UNCHANGED job /\ Goto(d, IF queued = 0 THEN "enqueuing" ELSE "done")
  /\ UNCHANGED <<message, allowlist, thread, queued, faults>>

Register(d) ==
  /\ At(d, "registering")
  /\ IF Creates(job)
       THEN /\ job' = delivery[d].brings
            /\ Goto(d, "acking")
       ELSE /\ Goto(d, "done")
            /\ UNCHANGED job
  /\ UNCHANGED <<message, allowlist, thread, queued, faults>>

\* Mutant: a message that cannot be acknowledged is not queued.
AckOrGiveUp(d) ==
  /\ At(d, "acking")
  /\ \/ thread' = [thread EXCEPT !.acks = @ + 1] /\ Goto(d, "enqueuing")
     \/ UNCHANGED thread /\ Goto(d, "done")
  /\ UNCHANGED <<message, allowlist, job, queued, faults>>

\* BR-004: the ack is best-effort.
Ack(d) ==
  /\ At(d, "acking")
  /\ thread' \in {thread, [thread EXCEPT !.acks = @ + 1]}
  /\ Goto(d, "enqueuing")
  /\ UNCHANGED <<message, allowlist, job, queued, faults>>

Enqueue(d) ==
  /\ At(d, "enqueuing")
  /\ queued' = queued + 1
  /\ Goto(d, "done")
  /\ UNCHANGED <<message, allowlist, job, thread, faults>>

\* A call that may raise does, or Lambda is killed: Slack is answered 200 all
\* the same, or answers the kill with a delivery that is one of Deliveries.
Abort(d) ==
  /\ delivery[d].pc \notin {"sent", "done"}
  /\ Raises(d)
  /\ UNCHANGED <<message, allowlist, job, thread, queued>>

Step(d) ==
  \/ Filter(d) \/ CheckChannel(d) \/ PostNotDesignated(d)
  \/ DownloadFile(d) \/ PostFileNotice(d)
  \/ Register(d) \/ Ack(d) \/ Enqueue(d)

Next == \E d \in Deliveries : Step(d) \/ Abort(d)

Spec == Init /\ [][Next]_vars

-----------------------------------------------------------------------------
(* Properties.                                                               *)

Eligible == IsQuestion(message) /\ allowlist.allowed

\* BR-010: however many deliveries run at once, a message is acknowledged and
\* queued at most once, and only after its job is stored.
QueuedOnceBehindTheJob ==
  /\ thread.acks + queued > 0 => job # "absent"
  /\ thread.acks <= 1 /\ queued <= 1

\* BR-002: the bot does not speak up because the bot spoke.  A message of a
\* bot, its own acks and answers among them, leads to no post and no job.
BotsGetNothing ==
  message.bot => job = "absent" /\ thread = [acks |-> 0, refusals |-> 0, notices |-> 0]

\* BR-004, BR-021: a question that may be answered is lost only to faults.  If
\* its job is not stored then every delivery met one; if it is stored and not
\* queued (the stale scan's case) then one did.
LostOnlyByFaults ==
  Eligible /\ queued = 0 /\ (\A d \in Deliveries : At(d, "done"))
    => faults >= IF job = "absent" THEN Cardinality(Deliveries) ELSE 1

-----------------------------------------------------------------------------
(* What intake is to the lifecycle of the question.                          *)

\* A delivery that is past the put and has the queueing before it.
Past(d) == At(d, "acking") \/ At(d, "enqueuing")

Promise == INSTANCE QueueOnce WITH
  intake <- IF job = "absent" THEN "none"
            ELSE IF \E d \in Deliveries : Past(d) THEN "registered" ELSE "ended"

\* BR-004, BR-010, BR-021: one delivery stores the question and, once, queues it
\* or gives up.  From then on, whatever Slack redelivers, intake does nothing
\* about it: a question that it lost is left to the recovery scan.
IntakeIsOver == Promise!Spec
=============================================================================
