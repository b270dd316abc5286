------------------------------ MODULE Feedback ------------------------------
(***************************************************************************)
(* Thumbs up and thumbs down on one posted answer.  Slack delivers each    *)
(* reaction added or removed as an event of its own, perhaps late, twice   *)
(* or out of order, and each delivery is an invocation of the intake       *)
(* Lambda: it looks the answer up by its ts in an index of the job table,  *)
(* reads the clock and appends a row.  The tally is computed from the rows *)
(* when it is asked for.                                                   *)
(***************************************************************************)
EXTENDS Naturals, FiniteSets, Sequences

CONSTANTS
  Reactors,        \* people who react
  Emojis,          \* what they react with
  MaxEvents,       \* reactions added or removed (a bound)
  MaxCalls,        \* deliveries of them all (a bound)
  MaxUuid          \* random parts of the sort key (a bound on rows per instant)

ASSUME FeedbackAssumption ==
  MaxEvents \in Nat /\ MaxCalls \in Nat /\ MaxUuid \in Nat

VARIABLES
  answer,    \* the answer: posted, its ts stamped on the job, the stamp in the index
  events,    \* what happened in Slack, in Slack's order
  calls,     \* the invocations: the event each got, and where it stands
  rows,      \* the feedback rows of the answer
  clock      \* the last recorded_at

feedbackVars == <<answer, events, calls, rows, clock>>

Signals == {"positive", "negative"}
Uuids == 1 .. MaxUuid

\* parse_reaction: what an emoji says of the answer, if anything.
SignalOf(emoji) ==
  CASE emoji \in {"+1", "thumbsup", "thumbsup_all"} -> "positive"
    [] emoji \in {"-1", "thumbsdown"}               -> "negative"
    [] OTHER                                        -> "none"

\* found: history; whether the index had the answer when the event happened.
ReactionEvents == [reactor : Reactors, emoji : Emojis,
                   action : {"added", "removed"}, found : BOOLEAN]
Calls == [event : 1 .. MaxEvents, pc : {"sent", "found", "ended"}]
\* event: history; the event a row was made from.
FeedbackRows == [reactor : Reactors, signal : Signals,
                 action : {"added", "removed"}, at : Nat, uuid : Uuids,
                 event : 1 .. MaxEvents]

FeedbackInit ==
  /\ answer = "none"
  /\ events = <<>>
  /\ calls = <<>>
  /\ rows = {}
  /\ clock = 0

FeedbackTypeOK ==
  /\ answer \in {"none", "posted", "stamped", "indexed"}
  /\ events \in Seq(ReactionEvents) /\ Len(events) <= MaxEvents
  /\ calls \in Seq(Calls) /\ Len(calls) <= MaxCalls
  /\ \A c \in 1 .. Len(calls) : calls[c].event <= Len(events)
  /\ rows \subseteq FeedbackRows
  /\ clock \in Nat

-----------------------------------------------------------------------------
(* The worker's end, as this side sees it.  A worker lost after its post     *)
(* leaves the answer as it is, without a stamp, for good.                    *)

AnswerPosted ==
  /\ answer = "none"
  /\ answer' = "posted"
  /\ UNCHANGED <<events, calls, rows, clock>>

AnswerStamped ==
  /\ answer = "posted"
  /\ answer' = "stamped"
  /\ UNCHANGED <<events, calls, rows, clock>>

\* A global secondary index follows its table some time later.
AnswerIndexed ==
  /\ answer = "stamped"
  /\ answer' = "indexed"
  /\ UNCHANGED <<events, calls, rows, clock>>

-----------------------------------------------------------------------------
(* Slack.                                                                    *)

\* The last event in which r used this emoji, or 0.
LastUse(r, emoji) ==
  LET uses == {e \in 1 .. Len(events) : events[e].reactor = r /\ events[e].emoji = emoji}
  IN  IF uses = {} THEN 0 ELSE CHOOSE e \in uses : \A f \in uses : f <= e
Shows(r, emoji) ==
  LastUse(r, emoji) # 0 /\ events[LastUse(r, emoji)].action = "added"

Delivered(e) == Append(calls, [event |-> e, pc |-> "sent"])
Goes(c, pc) == calls' = [calls EXCEPT ![c].pc = pc]
EventOf(c) == events[calls[c].event]

\* Somebody adds an emoji that is not shown under their name, or takes it back.
React(r, emoji) ==
  /\ answer # "none"
  /\ Len(events) < MaxEvents /\ Len(calls) < MaxCalls
  /\ events' = Append(events,
       [reactor |-> r, emoji |-> emoji, found |-> answer = "indexed",
        action |-> IF Shows(r, emoji) THEN "removed" ELSE "added"])
  /\ calls' = Delivered(Len(events) + 1)
  /\ UNCHANGED <<answer, rows, clock>>

\* Slack sends again what was not answered in time.
Redeliver(e) ==
  /\ Len(calls) < MaxCalls
  /\ calls' = Delivered(e)
  /\ UNCHANGED <<answer, events, rows, clock>>

-----------------------------------------------------------------------------
(* handle_reaction.  An invocation in which a call raises, or that is        *)
(* killed, takes no further step: nothing here says that one must.           *)

\* Mutant: the query reads the attribute that the stamp is about to set.
FoundWhenStamped == answer = "stamped"

\* resolve_answer_ts: a query of the index.
Found == answer = "indexed"

\* Mutant: any emoji is looked up and recorded.
ResolveAnswerOfAny(c) ==
  /\ calls[c].pc = "sent"
  /\ Goes(c, IF Found THEN "found" ELSE "ended")
  /\ UNCHANGED <<answer, events, rows, clock>>

\* Other emojis, and reactions on what is not a known answer, are ignored.
ResolveAnswer(c) ==
  /\ calls[c].pc = "sent"
  /\ Goes(c, IF SignalOf(EventOf(c).emoji) # "none" /\ Found THEN "found" ELSE "ended")
  /\ UNCHANGED <<answer, events, rows, clock>>

\* Mutant: the sort key ends with the signal.
KeyWithoutUuid(row) == <<row.at, row.reactor, row.signal>>

\* record_feedback: the sort key.
SortKey(row) == <<row.at, row.reactor, row.signal, row.uuid>>

\* put_item takes the place of an item with its key.
WithRow(row) == {x \in rows : SortKey(x) # SortKey(row)} \cup {row}

\* The row carries the Lambda's clock, not Slack's; two may read the same.
RecordFeedback(c) ==
  /\ calls[c].pc = "found"
  /\ clock' \in {clock, clock + 1}
  /\ \E uuid \in Uuids \ {x.uuid : x \in {y \in rows : y.at = clock'}} :
       rows' = WithRow([reactor |-> EventOf(c).reactor,
                        signal |-> SignalOf(EventOf(c).emoji),
                        action |-> EventOf(c).action,
                        at |-> clock', uuid |-> uuid, event |-> calls[c].event])
  /\ Goes(c, "ended")
  /\ UNCHANGED <<answer, events>>

FeedbackStep ==
  \/ AnswerStamped \/ AnswerIndexed
  \/ \E r \in Reactors, emoji \in Emojis : React(r, emoji)
  \/ \E e \in 1 .. Len(events) : Redeliver(e)
  \/ \E c \in 1 .. Len(calls) :
       ResolveAnswer(c) \/ RecordFeedback(c)

FeedbackSpec == FeedbackInit /\ [][AnswerPosted \/ FeedbackStep]_feedbackVars

-----------------------------------------------------------------------------
(* net_reactor_signal and aggregate_feedback over a query of the rows, which *)
(* come in the order of their keys.                                          *)

RowsOf(r) == {x \in rows : x.reactor = r}
OfSignal(some, signal) == {x \in some : x.signal = signal}

\* Both for rows of one reactor and signal; of equal times the later key counts.
LatestRow(some) ==
  CHOOSE x \in some : \A y \in some : y.at < x.at \/ (y.at = x.at /\ y.uuid <= x.uuid)
FirstTime(some) == (CHOOSE x \in some : \A y \in some : x.at <= y.at).at

\* Mutant: a reactor's last row is all that counts.
PresentByReactor(some) ==
  LET latest == CHOOSE x \in some : \A y \in some : y.at <= x.at
  IN  {s \in {x.signal : x \in some} : latest.signal = s /\ latest.action = "added"}

\* The signals whose latest row is an addition.
Present(some) ==
  {s \in {x.signal : x \in some} : LatestRow(OfSignal(some, s)).action = "added"}

\* max() keeps the first of equals, in the order the signals came up.
CameUpFirst(some, s, t) ==
  LET first == FirstTime(OfSignal(some, s))
      other == FirstTime(OfSignal(some, t))
  IN  first < other \/ (first = other /\ s = "negative")
Wins(some, s, t) ==
  LET mine == LatestRow(OfSignal(some, s)).at
      other == LatestRow(OfSignal(some, t)).at
  IN  other < mine \/ (other = mine /\ CameUpFirst(some, s, t))

NetSignal(some) ==
  IF Present(some) = {} THEN "none"
  ELSE CHOOSE s \in Present(some) : \A t \in Present(some) \ {s} : Wins(some, s, t)

AggregateFeedback ==
  [s \in Signals |-> Cardinality({r \in Reactors : NetSignal(RowsOf(r)) = s})]

-----------------------------------------------------------------------------
(* Properties.                                                               *)

IsVote(e) == SignalOf(events[e].emoji) # "none"
EventsOf(r) == {e \in 1 .. Len(events) : events[e].reactor = r /\ IsVote(e)}

\* What Slack shows of r: the thumb added last among those still there.
Stance(r) ==
  LET shown == {e \in EventsOf(r) : Shows(r, events[e].emoji)
                                    /\ LastUse(r, events[e].emoji) = e}
  IN  IF shown = {} THEN "none"
      ELSE SignalOf(events[CHOOSE e \in shown : \A f \in shown : f <= e].emoji)

\* All of r's votes have a row, and the rows are in Slack's order: no delivery
\* of an event was recorded at or after one of a later event.
InStep(r) ==
  /\ \A e \in EventsOf(r) : \E x \in rows : x.event = e
  /\ \A x, y \in RowsOf(r) : x.event < y.event => x.at < y.at

\* A thumb has several names, and r keeps to one.
OneNameEach(r) ==
  \A e, f \in EventsOf(r) :
    SignalOf(events[e].emoji) = SignalOf(events[f].emoji)
      => events[e].emoji = events[f].emoji

\* BR-020, Q4: once everybody's reactions are recorded in the order in which
\* Slack saw them, and however often each was delivered, the tally counts each
\* person once, with what Slack shows of them: a thumb taken back does not take
\* the other one with it.
TallyFollowsSlack ==
  (\A r \in Reactors : InStep(r) /\ OneNameEach(r))
    => AggregateFeedback =
         [s \in Signals |-> Cardinality({r \in Reactors : Stance(r) = s})]

\* BR-018: a thumb given once the answer can be looked up is never passed over:
\* an invocation that ends leaves a row of it.
SeenOnceIndexed ==
  \A c \in 1 .. Len(calls) :
    EventOf(c).found /\ IsVote(calls[c].event) /\ calls[c].pc = "ended"
      => \E x \in rows : x.event = calls[c].event

\* BR-020: rows are appended; none is ever changed, whoever writes at the same
\* instant.
RowsAreForever == [][rows \subseteq rows']_feedbackVars
=============================================================================
