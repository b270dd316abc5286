--------------------------- MODULE FeedbackProofs ---------------------------
(***************************************************************************)
(* The rows keep what happened, and the tally follows Slack, for any       *)
(* number of people, reactions and deliveries.                             *)
(***************************************************************************)
EXTENDS Feedback, SequenceTheorems, WellFoundedInduction, TLAPS

\* A row says what its event was, at a time that has passed.
RowsTell ==
  \A x \in rows :
    /\ x.event \in 1 .. Len(events) /\ x.at <= clock
    /\ x.reactor = events[x.event].reactor /\ x.action = events[x.event].action
    /\ x.signal = SignalOf(events[x.event].emoji)

\* Only votes on an indexed answer come to the table; the index never loses it.
CallsTell ==
  /\ \A c \in 1 .. Len(calls) : calls[c].pc = "found" => IsVote(calls[c].event)
  /\ \A e \in 1 .. Len(events) : events[e].found => answer = "indexed"

FInv == FeedbackTypeOK /\ RowsTell /\ CallsTell /\ SeenOnceIndexed

-----------------------------------------------------------------------------
(* Sequences: what a reaction and a delivery change of them.                 *)

\* A delivery is one call more, and leaves the others alone.
LEMMA DeliveredCalls ==
  ASSUME calls \in Seq(Calls), NEW e \in 1 .. MaxEvents, calls' = Delivered(e)
  PROVE  /\ calls' \in Seq(Calls) /\ Len(calls') = Len(calls) + 1
         /\ \A c \in 1 .. Len(calls) : calls'[c] = calls[c]
         /\ calls'[Len(calls) + 1] = [event |-> e, pc |-> "sent"]
<1>1. [event |-> e, pc |-> "sent"] \in Calls
  BY DEF Calls
<1>. QED BY <1>1 DEF Delivered

\* A call that goes on keeps its event, and the others are left alone.
LEMMA GoneCalls ==
  ASSUME calls \in Seq(Calls), NEW c \in 1 .. Len(calls), NEW pc \in {"found", "ended"},
         Goes(c, pc)
  PROVE  /\ calls' \in Seq(Calls) /\ Len(calls') = Len(calls)
         /\ \A d \in 1 .. Len(calls) : calls'[d].event = calls[d].event
         /\ \A d \in 1 .. Len(calls) : d # c => calls'[d] = calls[d]
         /\ calls'[c].pc = pc
<1>1. calls[c] \in Calls
  BY ElementOfSeq
<1> DEFINE gone == [calls[c] EXCEPT !.pc = pc]
<1>2. gone \in Calls /\ gone.event = calls[c].event /\ gone.pc = pc
  BY <1>1 DEF Calls
<1>3. calls' = [calls EXCEPT ![c] = gone]
  BY DEF Goes
<1> HIDE DEF gone
<1>. QED BY <1>2, <1>3, ExceptSeq

\* A row that is written keeps all the others: its key is its own.
LEMMA RowAdded ==
  ASSUME rows \subseteq FeedbackRows, NEW uuid, NEW row, row.uuid = uuid,
         row.at = clock', uuid \notin {x.uuid : x \in {y \in rows : y.at = clock'}}
  PROVE  WithRow(row) = rows \cup {row}
<1>1. \A x \in rows : SortKey(x) # SortKey(row)
  BY DEF SortKey
<1>. QED BY <1>1 DEF WithRow

\* What RecordFeedback writes.
LEMMA RecordedRow ==
  ASSUME FeedbackTypeOK, CallsTell, NEW c \in 1 .. Len(calls), RecordFeedback(c)
  PROVE  \E row \in FeedbackRows :
           /\ rows' = rows \cup {row}
           /\ row.at = clock' /\ row.event = calls[c].event
           /\ row.reactor = EventOf(c).reactor /\ row.action = EventOf(c).action
           /\ row.signal = SignalOf(EventOf(c).emoji)
<1>1. PICK uuid \in Uuids \ {x.uuid : x \in {y \in rows : y.at = clock'}} :
        rows' = WithRow([reactor |-> EventOf(c).reactor,
                         signal |-> SignalOf(EventOf(c).emoji),
                         action |-> EventOf(c).action,
                         at |-> clock', uuid |-> uuid, event |-> calls[c].event])
  BY DEF RecordFeedback
<1> DEFINE row == [reactor |-> EventOf(c).reactor,
                   signal |-> SignalOf(EventOf(c).emoji),
                   action |-> EventOf(c).action,
                   at |-> clock', uuid |-> uuid, event |-> calls[c].event]
<1>2. calls[c] \in Calls /\ calls[c].event \in 1 .. Len(events)
  <2>1. calls[c] \in Calls /\ Len(events) \in Nat
    BY ElementOfSeq, LenProperties DEF FeedbackTypeOK
  <2>2. calls[c].event <= Len(events)
    BY DEF FeedbackTypeOK
  <2>. QED BY <2>1, <2>2, FeedbackAssumption DEF Calls
<1>3. events[calls[c].event] \in ReactionEvents
  BY <1>2, ElementOfSeq DEF FeedbackTypeOK
<1>4. IsVote(calls[c].event)
  BY DEF CallsTell, RecordFeedback
<1>5. clock' \in Nat
  BY DEF RecordFeedback, FeedbackTypeOK
<1>6. row \in FeedbackRows
  BY <1>1, <1>2, <1>3, <1>4, <1>5
     DEF FeedbackRows, ReactionEvents, EventOf, IsVote, SignalOf, Signals, Calls
<1>7. rows' = rows \cup {row}
  <2>1. row.uuid = uuid /\ row.at = clock'
    OBVIOUS
  <2> HIDE DEF row
  <2>. QED BY <1>1, <2>1, RowAdded DEF FeedbackTypeOK, row
<1>. QED BY <1>6, <1>7

-----------------------------------------------------------------------------
(* Every step keeps the invariant.                                           *)

\* The answer's own steps change nothing else, and an index does not forget.
LEMMA AnswerKeeps ==
  FInv /\ (AnswerPosted \/ AnswerStamped \/ AnswerIndexed) => FInv'
<1>. SUFFICES ASSUME FInv, AnswerPosted \/ AnswerStamped \/ AnswerIndexed PROVE FInv'
  OBVIOUS
<1>1. /\ answer # "indexed"
      /\ answer' \in {"posted", "stamped", "indexed"}
      /\ UNCHANGED <<events, calls, rows, clock>>
  BY DEF AnswerPosted, AnswerStamped, AnswerIndexed
<1>2. FeedbackTypeOK' /\ RowsTell'
  BY <1>1 DEF FInv, FeedbackTypeOK, RowsTell
<1>3. CallsTell' /\ SeenOnceIndexed'
  BY <1>1 DEF FInv, CallsTell, SeenOnceIndexed, IsVote, EventOf
<1>. QED BY <1>2, <1>3 DEF FInv

\* A reaction is an event more, and its delivery a call more.
LEMMA ReactKeeps ==
  ASSUME FInv, NEW r \in Reactors, NEW emoji \in Emojis, React(r, emoji)
  PROVE  FInv'
<1> DEFINE n == Len(events)
           event == [reactor |-> r, emoji |-> emoji, found |-> answer = "indexed",
                     action |-> IF Shows(r, emoji) THEN "removed" ELSE "added"]
<1>1. events \in Seq(ReactionEvents) /\ calls \in Seq(Calls) /\ n \in Nat
      /\ Len(calls) \in Nat
  BY LenProperties DEF FInv, FeedbackTypeOK
<1>2. n < MaxEvents /\ Len(calls) < MaxCalls /\ events' = Append(events, event)
      /\ calls' = Delivered(n + 1) /\ UNCHANGED <<answer, rows, clock>>
  BY DEF React
<1>3. event \in ReactionEvents /\ event.found = (answer = "indexed")
  <2>1. (answer = "indexed") \in BOOLEAN
    OBVIOUS
  <2>. QED BY <2>1 DEF ReactionEvents
<1> HIDE DEF event
<1>4. /\ events' \in Seq(ReactionEvents) /\ Len(events') = n + 1
      /\ \A e \in 1 .. n : events'[e] = events[e]
      /\ events'[n + 1] = event
  BY <1>1, <1>2, <1>3
<1> HIDE DEF n
<1>5. /\ calls' \in Seq(Calls) /\ Len(calls') = Len(calls) + 1
      /\ \A c \in 1 .. Len(calls) : calls'[c] = calls[c]
      /\ calls'[Len(calls) + 1] = [event |-> n + 1, pc |-> "sent"]
  BY <1>1, <1>2, DeliveredCalls, FeedbackAssumption
<1>6. \A c \in 1 .. Len(calls) : calls[c].event \in 1 .. n
  <2>. SUFFICES ASSUME NEW c \in 1 .. Len(calls) PROVE calls[c].event \in 1 .. n
    OBVIOUS
  <2>1. calls[c] \in Calls /\ calls[c].event <= n
    BY <1>1, ElementOfSeq DEF FInv, FeedbackTypeOK, n
  <2>. QED BY <1>1, <2>1, FeedbackAssumption DEF Calls
<1>7. FeedbackTypeOK'
  <2>1. \A c \in 1 .. Len(calls') : calls'[c].event <= Len(events')
    BY <1>1, <1>4, <1>5, <1>6
  <2>. QED BY <1>1, <1>2, <1>4, <1>5, <2>1, FeedbackAssumption DEF FInv, FeedbackTypeOK
<1>8. RowsTell'
  <2>. SUFFICES ASSUME NEW x \in rows
                PROVE  /\ x.event \in 1 .. Len(events') /\ x.at <= clock
                       /\ x.reactor = events'[x.event].reactor
                       /\ x.action = events'[x.event].action
                       /\ x.signal = SignalOf(events'[x.event].emoji)
    BY <1>2 DEF RowsTell
  <2>1. x.event \in 1 .. n
    BY DEF FInv, RowsTell, n
  <2>. QED BY <1>1, <1>4, <2>1 DEF FInv, RowsTell
<1>9. CallsTell'
  <2>1. ASSUME NEW c \in 1 .. Len(calls'), calls'[c].pc = "found"
        PROVE  SignalOf(events'[calls'[c].event].emoji) # "none"
    <3>1. c \in 1 .. Len(calls) /\ calls'[c] = calls[c]
      BY <1>1, <1>5, <2>1
    <3>2. events'[calls[c].event] = events[calls[c].event]
      BY <1>4, <1>6, <3>1
    <3>. QED BY <2>1, <3>1, <3>2 DEF FInv, CallsTell, IsVote
  <2>2. ASSUME NEW e \in 1 .. Len(events'), events'[e].found
        PROVE  answer' = "indexed"
    <3>1. CASE e = n + 1
      BY <1>2, <1>3, <1>4, <2>2, <3>1
    <3>2. CASE e \in 1 .. n
      <4>1. events[e].found
        BY <1>4, <2>2, <3>2
      <4>. QED BY <1>2, <3>2, <4>1 DEF FInv, CallsTell, n
    <3>. QED BY <1>1, <1>4, <3>1, <3>2
  <2>. QED BY <2>1, <2>2 DEF CallsTell, IsVote
<1>10. SeenOnceIndexed'
  <2>. SUFFICES ASSUME NEW c \in 1 .. Len(calls'), calls'[c].pc = "ended",
                       events'[calls'[c].event].found,
                       SignalOf(events'[calls'[c].event].emoji) # "none"
                PROVE  \E x \in rows' : x.event = calls'[c].event
    BY DEF SeenOnceIndexed, EventOf, IsVote
  <2>1. c \in 1 .. Len(calls) /\ calls'[c] = calls[c]
    BY <1>1, <1>5
  <2>2. events'[calls[c].event] = events[calls[c].event]
    BY <1>4, <1>6, <2>1
  <2>. QED BY <1>2, <2>1, <2>2 DEF FInv, SeenOnceIndexed, EventOf, IsVote
<1>. QED BY <1>7, <1>8, <1>9, <1>10 DEF FInv

\* A delivery sent again is a call more, of an event there was.
LEMMA RedeliverKeeps ==
  ASSUME FInv, NEW e \in 1 .. Len(events), Redeliver(e)
  PROVE  FInv'
<1>1. events \in Seq(ReactionEvents) /\ calls \in Seq(Calls) /\ Len(events) \in Nat
      /\ Len(calls) \in Nat /\ Len(events) <= MaxEvents
  BY LenProperties DEF FInv, FeedbackTypeOK
<1>2. Len(calls) < MaxCalls /\ calls' = Delivered(e)
      /\ UNCHANGED <<answer, events, rows, clock>>
  BY DEF Redeliver
<1>3. /\ calls' \in Seq(Calls) /\ Len(calls') = Len(calls) + 1
      /\ \A c \in 1 .. Len(calls) : calls'[c] = calls[c]
      /\ calls'[Len(calls) + 1] = [event |-> e, pc |-> "sent"]
  BY <1>1, <1>2, DeliveredCalls, FeedbackAssumption
<1>4. FeedbackTypeOK'
  <2>1. \A c \in 1 .. Len(calls') : calls'[c].event <= Len(events')
    BY <1>1, <1>2, <1>3 DEF FInv, FeedbackTypeOK
  <2>. QED BY <1>1, <1>2, <1>3, <2>1, FeedbackAssumption DEF FInv, FeedbackTypeOK
<1>5. RowsTell'
  BY <1>2 DEF FInv, RowsTell
<1>6. CallsTell'
  <2>1. \A c \in 1 .. Len(calls') :
          calls'[c].pc = "found" => SignalOf(events[calls'[c].event].emoji) # "none"
    BY <1>1, <1>3 DEF FInv, CallsTell, IsVote
  <2>. QED BY <1>2, <2>1 DEF FInv, CallsTell, IsVote
<1>7. SeenOnceIndexed'
  BY <1>1, <1>2, <1>3 DEF FInv, SeenOnceIndexed, IsVote, EventOf
<1>. QED BY <1>4, <1>5, <1>6, <1>7 DEF FInv

\* Looking the answer up ends what is no vote, or comes before the index.
LEMMA ResolveKeeps ==
  ASSUME FInv, NEW c \in 1 .. Len(calls), ResolveAnswer(c)
  PROVE  FInv'
<1> DEFINE pc == IF SignalOf(EventOf(c).emoji) # "none" /\ Found THEN "found" ELSE "ended"
<1>1. calls \in Seq(Calls) /\ Len(calls) \in Nat /\ Goes(c, pc)
      /\ pc \in {"found", "ended"} /\ UNCHANGED <<answer, events, rows, clock>>
  BY LenProperties DEF FInv, FeedbackTypeOK, ResolveAnswer
<1>2. pc = "found" => IsVote(calls[c].event)
  BY DEF IsVote, EventOf
<1>3. pc = "ended" /\ EventOf(c).found => ~ IsVote(calls[c].event)
  <2>1. calls[c].event \in 1 .. Len(events)
    <3>1. calls[c] \in Calls /\ Len(events) \in Nat
      BY ElementOfSeq, LenProperties DEF FInv, FeedbackTypeOK
    <3>2. calls[c].event <= Len(events)
      BY DEF FInv, FeedbackTypeOK
    <3>. QED BY <3>1, <3>2, FeedbackAssumption DEF Calls
  <2>2. EventOf(c).found => Found
    BY <2>1 DEF FInv, CallsTell, EventOf, Found
  <2>. QED BY <2>2 DEF IsVote, EventOf
<1> HIDE DEF pc
<1>4. /\ calls' \in Seq(Calls) /\ Len(calls') = Len(calls)
      /\ \A d \in 1 .. Len(calls) : calls'[d].event = calls[d].event
      /\ \A d \in 1 .. Len(calls) : d # c => calls'[d] = calls[d]
      /\ calls'[c].pc = pc
  BY <1>1, GoneCalls
<1>5. FeedbackTypeOK' /\ RowsTell'
  BY <1>1, <1>4 DEF FInv, FeedbackTypeOK, RowsTell
<1>6. CallsTell'
  BY <1>1, <1>2, <1>4 DEF FInv, CallsTell, IsVote
<1>7. SeenOnceIndexed'
  BY <1>1, <1>3, <1>4 DEF FInv, SeenOnceIndexed, IsVote, EventOf
<1>. QED BY <1>5, <1>6, <1>7 DEF FInv

\* A recorded vote is a row more.
LEMMA RecordKeeps ==
  ASSUME FInv, NEW c \in 1 .. Len(calls), RecordFeedback(c)
  PROVE  FInv' /\ rows \subseteq rows'
<1>1. calls \in Seq(Calls) /\ Len(calls) \in Nat /\ Goes(c, "ended")
      /\ clock' \in {clock, clock + 1} /\ clock \in Nat /\ UNCHANGED <<answer, events>>
  BY LenProperties DEF FInv, FeedbackTypeOK, RecordFeedback
<1>2. PICK row \in FeedbackRows :
        /\ rows' = rows \cup {row}
        /\ row.at = clock' /\ row.event = calls[c].event
        /\ row.reactor = EventOf(c).reactor /\ row.action = EventOf(c).action
        /\ row.signal = SignalOf(EventOf(c).emoji)
  BY RecordedRow DEF FInv
<1>3. /\ calls' \in Seq(Calls) /\ Len(calls') = Len(calls)
      /\ \A d \in 1 .. Len(calls) : calls'[d].event = calls[d].event
      /\ \A d \in 1 .. Len(calls) : d # c => calls'[d] = calls[d]
      /\ calls'[c].pc = "ended"
  BY <1>1, GoneCalls
<1>4. calls[c].event \in 1 .. Len(events)
  <2>1. calls[c] \in Calls /\ Len(events) \in Nat
    BY ElementOfSeq, LenProperties DEF FInv, FeedbackTypeOK
  <2>2. calls[c].event <= Len(events)
    BY DEF FInv, FeedbackTypeOK
  <2>. QED BY <2>1, <2>2, FeedbackAssumption DEF Calls
<1>5. FeedbackTypeOK'
  BY <1>1, <1>2, <1>3 DEF FInv, FeedbackTypeOK
<1>6. RowsTell'
  <2>1. ASSUME NEW x \in rows PROVE x.at <= clock'
    <3>1. x.at <= clock /\ x.at \in Nat
      BY DEF FInv, RowsTell, FeedbackTypeOK, FeedbackRows
    <3>. QED BY <1>1, <3>1
  <2>2. row.at <= clock'
    BY <1>1, <1>2
  <2>. QED BY <1>1, <1>2, <1>4, <2>1, <2>2 DEF FInv, RowsTell, EventOf
<1>7. CallsTell'
  BY <1>1, <1>3 DEF FInv, CallsTell, IsVote
<1>8. SeenOnceIndexed'
  BY <1>1, <1>2, <1>3 DEF FInv, SeenOnceIndexed, IsVote, EventOf
<1>. QED BY <1>2, <1>5, <1>6, <1>7, <1>8 DEF FInv

\* Nothing has happened yet.
LEMMA FeedbackStarts == FeedbackInit => FInv
BY EmptySeq, FeedbackAssumption
   DEF FeedbackInit, FInv, FeedbackTypeOK, RowsTell, CallsTell, SeenOnceIndexed

\* Only recording touches the rows, and it only adds.
LEMMA FeedbackKeeps ==
  FInv /\ [AnswerPosted \/ FeedbackStep]_feedbackVars => FInv' /\ rows \subseteq rows'
<1>. SUFFICES ASSUME FInv, [AnswerPosted \/ FeedbackStep]_feedbackVars
              PROVE  FInv' /\ rows \subseteq rows'
  OBVIOUS
<1>1. CASE AnswerPosted \/ AnswerStamped \/ AnswerIndexed
  BY <1>1, AnswerKeeps DEF AnswerPosted, AnswerStamped, AnswerIndexed
<1>2. CASE \E r \in Reactors, emoji \in Emojis : React(r, emoji)
  BY <1>2, ReactKeeps DEF React
<1>3. CASE \E e \in 1 .. Len(events) : Redeliver(e)
  BY <1>3, RedeliverKeeps DEF Redeliver
<1>4. CASE \E c \in 1 .. Len(calls) : ResolveAnswer(c) \/ RecordFeedback(c)
  BY <1>4, ResolveKeeps, RecordKeeps DEF ResolveAnswer
<1>5. CASE UNCHANGED feedbackVars
  BY <1>5 DEF feedbackVars, FInv, FeedbackTypeOK, RowsTell, CallsTell,
     SeenOnceIndexed, IsVote, EventOf
<1>. QED BY <1>1, <1>2, <1>3, <1>4, <1>5 DEF FeedbackStep

-----------------------------------------------------------------------------
(* The tally.  Of the rows of one person and one signal, the latest is of    *)
(* the last event, and says whether Slack still shows the thumb.             *)

\* A set of numbers up to a top has a greatest.
LEMMA GreatestExists ==
  ASSUME NEW top \in Nat, NEW S, S \subseteq 0 .. top, S # {}
  PROVE  \E x \in S : \A y \in S : y <= x
<1> DEFINE T == {top - x : x \in S}
<1>1. T \subseteq Nat /\ T # {}
  <2>1. \A x \in S : x \in Nat /\ x <= top
    OBVIOUS
  <2>2. \A x \in S : top - x \in Nat
    BY <2>1
  <2>. QED BY <2>2
<1>2. \E m \in T : \A y \in T : ~ (<<y, m>> \in OpToRel(<, Nat))
  <2> HIDE DEF T
  <2>. QED BY <1>1, NatLessThanWellFounded, WFMin
<1>3. PICK m \in T : \A y \in T : ~ (y < m)
  <2>1. \A a, b \in Nat : a < b => <<a, b>> \in OpToRel(<, Nat)
    BY DEF OpToRel
  <2>. QED BY <1>1, <1>2, <2>1
<1>4. PICK x \in S : m = top - x
  OBVIOUS
<1>5. \A y \in S : y <= x
  <2>. SUFFICES ASSUME NEW y \in S PROVE y <= x
    OBVIOUS
  <2>1. top - y \in T
    OBVIOUS
  <2>2. ~ (top - y < top - x)
    BY <1>3, <1>4, <2>1
  <2>3. x \in Int /\ y \in Int
    OBVIOUS
  <2> HIDE DEF T
  <2>. QED BY <2>2, <2>3
<1>. QED BY <1>5

\* Some rows have a latest one.
LEMMA LatestExists ==
  ASSUME FInv, NEW some \in SUBSET rows, some # {}
  PROVE  /\ LatestRow(some) \in some
         /\ \A y \in some : y.at <= LatestRow(some).at
<1> DEFINE ats == {x.at : x \in some}
<1>1. clock \in Nat /\ \A x \in some : x.at \in 0 .. clock /\ x.uuid \in 1 .. MaxUuid
  BY DEF FInv, FeedbackTypeOK, RowsTell, FeedbackRows, Uuids
<1>2. \E a \in ats : \A b \in ats : b <= a
  <2>1. ats \subseteq 0 .. clock /\ ats # {}
    BY <1>1
  <2> HIDE DEF ats
  <2>. QED BY <1>1, <2>1, GreatestExists
<1>3. PICK a \in ats : \A b \in ats : b <= a
  BY <1>2
<1> DEFINE uuids == {x.uuid : x \in {y \in some : y.at = a}}
<1>4. \E u \in uuids : \A v \in uuids : v <= u
  <2>1. uuids \subseteq 0 .. MaxUuid /\ uuids # {}
    BY <1>1, <1>3
  <2> HIDE DEF uuids
  <2>. QED BY <2>1, GreatestExists, FeedbackAssumption
<1>5. PICK u \in uuids : \A v \in uuids : v <= u
  BY <1>4
<1>6. PICK x \in some : x.at = a /\ x.uuid = u
  BY <1>5
<1>7. \A y \in some : y.at < x.at \/ (y.at = x.at /\ y.uuid <= x.uuid)
  <2>. SUFFICES ASSUME NEW y \in some
                PROVE  y.at < x.at \/ (y.at = x.at /\ y.uuid <= x.uuid)
    OBVIOUS
  <2>1. y.at <= a /\ y.at \in Nat /\ a \in Nat
    BY <1>1, <1>3
  <2>2. y.at = a => y.uuid <= u
    BY <1>5
  <2> HIDE DEF ats, uuids
  <2>. QED BY <1>6, <2>1, <2>2
<1>8. LatestRow(some) \in some
      /\ \A y \in some : y.at < LatestRow(some).at
                         \/ (y.at = LatestRow(some).at /\ y.uuid <= LatestRow(some).uuid)
  <2> HIDE DEF ats, uuids
  <2>. QED BY <1>7 DEF LatestRow
<1>9. \A y \in some : y.at \in Nat
  BY <1>1
<1> HIDE DEF ats, uuids
<1>. QED BY <1>8, <1>9

\* The latest row of a signal is of the person's last event of that signal,
\* whose emoji is shown exactly when the row is an addition.
LEMMA LatestIsLastUse ==
  ASSUME FInv, NEW r \in Reactors, InStep(r), OneNameEach(r), NEW s \in Signals,
         OfSignal(RowsOf(r), s) # {}
  PROVE  LET L == LatestRow(OfSignal(RowsOf(r), s))
             m == events[L.event].emoji
         IN  /\ L \in OfSignal(RowsOf(r), s) /\ L.event \in EventsOf(r)
             /\ SignalOf(m) = s
             /\ LastUse(r, m) = L.event
             /\ Shows(r, m) <=> L.action = "added"
             /\ \A e \in EventsOf(r) : SignalOf(events[e].emoji) = s
                                         => events[e].emoji = m
<1> DEFINE some == OfSignal(RowsOf(r), s)
           L == LatestRow(some)
           m == events[L.event].emoji
           uses == {e \in 1 .. Len(events) : events[e].reactor = r /\ events[e].emoji = m}
<1>1. L \in some /\ \A y \in some : y.at <= L.at
  <2>1. some \subseteq rows
    BY DEF OfSignal, RowsOf
  <2> HIDE DEF some
  <2>. QED BY <2>1, LatestExists DEF some
<1>2. \A x \in some : /\ x \in RowsOf(r) /\ x \in rows /\ x.signal = s
                      /\ x.event \in 1 .. Len(events) /\ x.at \in Nat
                      /\ events[x.event].reactor = r
                      /\ SignalOf(events[x.event].emoji) = s
                      /\ events[x.event].action = x.action
  BY DEF OfSignal, RowsOf, FInv, RowsTell, FeedbackTypeOK, FeedbackRows
<1> HIDE DEF L
<1>3. L.event \in EventsOf(r) /\ SignalOf(m) = s
  BY <1>1, <1>2 DEF EventsOf, IsVote, Signals
<1>4. \A e \in EventsOf(r) : SignalOf(events[e].emoji) = s => events[e].emoji = m
  BY <1>3 DEF OneNameEach
<1>5. \A e \in uses : e \in EventsOf(r) /\ SignalOf(events[e].emoji) = s
  BY <1>3 DEF EventsOf, IsVote, Signals
<1>6. \A e \in uses : e <= L.event
  <2>. SUFFICES ASSUME NEW e \in uses PROVE e <= L.event
    OBVIOUS
  <2>1. PICK x \in rows : x.event = e
    BY <1>5 DEF InStep
  <2>2. x \in some
    BY <1>5, <2>1 DEF OfSignal, RowsOf, FInv, RowsTell, EventsOf
  <2>3. x.at <= L.at /\ x.at \in Nat /\ L.at \in Nat
    BY <1>1, <1>2, <2>2
  <2>4. L.event < x.event => L.at < x.at
    BY <1>1, <1>2, <2>2 DEF InStep
  <2>5. e \in Int /\ L.event \in Int
    BY <1>1, <1>2
  <2>. QED BY <2>1, <2>3, <2>4, <2>5
<1>7. L.event \in uses
  BY <1>1, <1>2
<1>8. LastUse(r, m) = L.event
  <2>1. LastUse(r, m) = CHOOSE e \in uses : \A f \in uses : f <= e
    BY <1>7 DEF LastUse
  <2>2. \A e \in uses : e \in Int
    OBVIOUS
  <2> HIDE DEF uses
  <2>. QED BY <1>6, <1>7, <2>1, <2>2
<1>9. Shows(r, m) <=> L.action = "added"
  <2>1. L.event # 0 /\ events[L.event].action = L.action
    BY <1>1, <1>2
  <2>. QED BY <1>8, <2>1 DEF Shows
<1>. QED BY <1>1, <1>3, <1>4, <1>8, <1>9 DEF L

\* What the rows say of a person is what Slack shows of them.
LEMMA NetIsStance ==
  ASSUME FInv, NEW r \in Reactors, InStep(r), OneNameEach(r)
  PROVE  NetSignal(RowsOf(r)) = Stance(r)
<1> DEFINE some == RowsOf(r)
           L(s) == LatestRow(OfSignal(some, s))
           m(s) == events[L(s).event].emoji
           present == Present(some)
           shown == {e \in EventsOf(r) : Shows(r, events[e].emoji)
                                         /\ LastUse(r, events[e].emoji) = e}
<1>0. \A x \in some : x \in rows /\ x.signal \in Signals /\ x.at \in Nat
  BY DEF RowsOf, FInv, FeedbackTypeOK, FeedbackRows
<1>1. \A s \in Signals : OfSignal(some, s) # {} =>
        /\ L(s) \in OfSignal(some, s) /\ L(s).event \in EventsOf(r)
        /\ SignalOf(m(s)) = s /\ LastUse(r, m(s)) = L(s).event
        /\ Shows(r, m(s)) <=> L(s).action = "added"
        /\ \A e \in EventsOf(r) : SignalOf(events[e].emoji) = s => events[e].emoji = m(s)
  BY LatestIsLastUse
<1>2. \A s : s \in {x.signal : x \in some} <=> OfSignal(some, s) # {}
  BY DEF OfSignal
<1>3. present \subseteq Signals
  BY <1>0 DEF Present
<1>4. \A s \in present : OfSignal(some, s) # {} /\ L(s).action = "added"
  BY <1>2 DEF Present
<1>5. \A s \in Signals : OfSignal(some, s) # {} /\ L(s).action = "added" => s \in present
  BY <1>2 DEF Present
<1> HIDE DEF present
\* The events shown are those of the latest rows of the signals present.
<1>6. \A s \in present : L(s).event \in shown
  BY <1>1, <1>3, <1>4
<1>7. \A e \in shown : \E s \in present : e = L(s).event
  <2>. SUFFICES ASSUME NEW e \in shown PROVE \E s \in present : e = L(s).event
    OBVIOUS
  <2> DEFINE s == SignalOf(events[e].emoji)
  <2>1. e \in EventsOf(r) /\ s \in Signals
    BY DEF EventsOf, IsVote, SignalOf, Signals
  <2>2. OfSignal(some, s) # {}
    <3>1. PICK x \in rows : x.event = e
      BY <2>1 DEF InStep
    <3>. QED BY <2>1, <3>1 DEF OfSignal, RowsOf, FInv, RowsTell, EventsOf
  <2>3. events[e].emoji = m(s)
    BY <1>1, <2>1, <2>2
  <2>4. e = L(s).event /\ L(s).action = "added"
    BY <1>1, <2>1, <2>2, <2>3
  <2>. QED BY <1>5, <2>1, <2>2, <2>4
\* Between two of them, the order of the rows is Slack's.
<1>8. ASSUME NEW s \in present, NEW t \in present, s # t
      PROVE  /\ L(s).event # L(t).event
             /\ Wins(some, s, t) <=> L(t).event < L(s).event
  <2>1. /\ L(s) \in some /\ L(t) \in some /\ L(s).at \in Nat /\ L(t).at \in Nat
        /\ L(s).event \in Int /\ L(t).event \in Int
    <3>1. L(s) \in some /\ L(t) \in some
      BY <1>1, <1>3, <1>4, <1>8 DEF OfSignal
    <3>2. L(s).event \in EventsOf(r) /\ L(t).event \in EventsOf(r)
      BY <1>1, <1>3, <1>4, <1>8
    <3>. QED BY <1>0, <3>1, <3>2 DEF EventsOf
  <2>2. L(s).event # L(t).event
    BY <1>1, <1>3, <1>4, <1>8
  <2>3. /\ L(s).event < L(t).event => L(s).at < L(t).at
        /\ L(t).event < L(s).event => L(t).at < L(s).at
    BY <2>1 DEF InStep
  <2>. QED BY <2>1, <2>2, <2>3 DEF Wins
<1>e. \A e \in shown : e \in Int
  BY DEF EventsOf
<1>9. CASE present = {}
  BY <1>7, <1>9 DEF NetSignal, Stance, present
<1>10. CASE present # {}
  <2>1. PICK s \in present : \A t \in present \ {s} : L(t).event < L(s).event
    <3>1. PICK s \in present : TRUE
      BY <1>10
    <3>2. L(s).event \in Int /\ \A t \in present : L(t).event \in Int
      BY <1>e, <1>6
    <3>3. CASE present = {s}
      BY <3>3
    <3>4. CASE present # {s}
      <4>1. PICK t \in present : t # s
        BY <3>1, <3>4
      <4>2. present = {s, t}
        BY <1>3, <3>1, <4>1 DEF Signals
      <4>3. L(s).event < L(t).event \/ L(t).event < L(s).event
        BY <1>8, <3>2, <4>1
      <4> HIDE DEF L
      <4>. QED BY <4>1, <4>2, <4>3
    <3>. QED BY <3>3, <3>4
  <2>2. NetSignal(some) = s
    <3>1. \A t \in present \ {s} : Wins(some, s, t)
      BY <1>8, <2>1
    <3>2. \A u \in present : (\A t \in present \ {u} : Wins(some, u, t)) => u = s
      <4>. SUFFICES ASSUME NEW u \in present, u # s, Wins(some, u, s) PROVE FALSE
        OBVIOUS
      <4>1. L(s).event < L(u).event /\ L(u).event < L(s).event
        BY <1>8, <2>1
      <4>2. L(s).event \in Int /\ L(u).event \in Int
        BY <1>e, <1>6
      <4> HIDE DEF L
      <4>. QED BY <4>1, <4>2
    <3>3. NetSignal(some) =
            CHOOSE u \in present : \A t \in present \ {u} : Wins(some, u, t)
      BY <1>10 DEF NetSignal, present
    <3>. QED BY <3>1, <3>2, <3>3
  <2>3. Stance(r) = s
    <3>1. L(s).event \in shown
      BY <1>6
    <3>2. \A f \in shown : f <= L(s).event
      <4>. SUFFICES ASSUME NEW f \in shown PROVE f <= L(s).event
        OBVIOUS
      <4>1. PICK t \in present : f = L(t).event
        BY <1>7
      <4>2. f \in Int /\ L(s).event \in Int
        BY <1>e, <3>1
      <4> HIDE DEF L, shown
      <4>. QED BY <2>1, <4>1, <4>2
    <3>3. (CHOOSE e \in shown : \A f \in shown : f <= e) = L(s).event
      <4> HIDE DEF L, shown
      <4>. QED BY <1>e, <3>1, <3>2
    <3>4. Stance(r) = SignalOf(events[CHOOSE e \in shown : \A f \in shown : f <= e].emoji)
      BY <3>1 DEF Stance
    <3>5. SignalOf(m(s)) = s
      BY <1>1, <1>3, <1>4
    <3>. QED BY <3>3, <3>4, <3>5
  <2>. QED BY <2>2, <2>3
<1>. QED BY <1>9, <1>10

-----------------------------------------------------------------------------
(* Theorems.                                                                 *)

\* What may be said of every reachable state of the feedback on an answer.
THEOREM FeedbackInvariant == FeedbackSpec => []FInv
<1>1. FInv /\ [AnswerPosted \/ FeedbackStep]_feedbackVars => FInv'
  BY FeedbackKeeps
<1>. QED BY <1>1, FeedbackStarts, PTL DEF FeedbackSpec

\* Every variable of the feedback keeps its type.
THEOREM FeedbackTypeCorrect == FeedbackSpec => []FeedbackTypeOK
<1>1. FInv => FeedbackTypeOK
  BY DEF FInv
<1>. QED BY <1>1, FeedbackInvariant, PTL

\* BR-018: no vote on an indexed answer is passed over.
THEOREM NoVotePassedOver == FeedbackSpec => []SeenOnceIndexed
<1>1. FInv => SeenOnceIndexed
  BY DEF FInv
<1>. QED BY <1>1, FeedbackInvariant, PTL

\* BR-020: rows are only ever appended.
THEOREM RowsOnlyGrow == FeedbackSpec => RowsAreForever
<1>1. FInv /\ [AnswerPosted \/ FeedbackStep]_feedbackVars
        => [rows \subseteq rows']_feedbackVars
  BY FeedbackKeeps
<1>. QED BY <1>1, FeedbackInvariant, PTL DEF FeedbackSpec, RowsAreForever

\* BR-020, Q4: when the rows are complete and in Slack's order, the tally is
\* what Slack shows, for any number of people, reactions and deliveries.
THEOREM TallyIsSlacks == FeedbackSpec => []TallyFollowsSlack
<1>1. FInv => TallyFollowsSlack
  <2>. SUFFICES ASSUME FInv, \A r \in Reactors : InStep(r) /\ OneNameEach(r)
                PROVE  AggregateFeedback =
                         [s \in Signals |-> Cardinality({r \in Reactors : Stance(r) = s})]
    BY DEF TallyFollowsSlack
  <2>1. \A r \in Reactors : NetSignal(RowsOf(r)) = Stance(r)
    BY NetIsStance
  <2>2. \A s \in Signals :
          {r \in Reactors : NetSignal(RowsOf(r)) = s} = {r \in Reactors : Stance(r) = s}
    BY <2>1
  <2>. QED BY <2>2 DEF AggregateFeedback
<1>. QED BY <1>1, FeedbackInvariant, PTL
=============================================================================
