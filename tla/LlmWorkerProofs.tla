--------------------------- MODULE LlmWorkerProofs ---------------------------
(***************************************************************************)
(* Safety of the LLM worker for every number of speakers, questions and    *)
(* remembered pairs: its type invariant, that its memory is what the       *)
(* answers made of it, that a cleared history is not asked again, and that *)
(* the screen follows the worker.                                          *)
(*                                                                         *)
(* What is in the output channel will change what the sink shows.  The     *)
(* invariant therefore speaks of the screens ahead: the one shown now, the *)
(* one after the first event that waits, and so on to the last, which has  *)
(* to agree with what the worker does at this moment.                      *)
(***************************************************************************)
EXTENDS LlmWorker, TLAPS, SequenceTheorems

-----------------------------------------------------------------------------
(* The inductive invariant: types *)

DeltaType == Request \X Nat
Deltas == Seq(DeltaType)
Turn == [id : Request, answer : Deltas, status : {"Pending", "Streaming", "Completed", "Failed"}]
Snapshot ==
  [llmStatus : {"Idle", "Working", "Error"}, currentId : Request \cup {None}, current : Deltas,
   conversation : Seq(Turn), liveCoding : LiveCodingState]

Event ==
  [kind : {"Transcript", "AnswerStarted", "AnswerCompleted"}, id : Request]
    \cup [kind : {"AnswerDelta"}, id : Request, delta : DeltaType]
    \cup [kind : {"LlmError", "HistoryCleared"}]
    \cup [kind : {"LiveCodingUpdated"}, state : LiveCodingState]

Typing ==
  /\ TypeOK
  /\ output \in Seq(Event) /\ snapshot \in Snapshot
  /\ answer \in Deltas /\ full \in Seq(Deltas)
  /\ completed \in [Voice : Seq(Request), LiveCoding : Seq(Request)]
  /\ forgotten \subseteq Request
  /\ announcing \in BOOLEAN /\ overtaken \in BOOLEAN

-----------------------------------------------------------------------------
(* The inductive invariant: the worker *)

\* Whoever asked r has come that far.
Known(r) == r.number <= asked[r.speaker]

\* The requests that were taken, as far as anything still knows them.
Seen == ((Remembered \cup forgotten \cup {request}) \ {None})

\* A question is asked once: shown, then queued, then taken.
QuestionsAreUnique ==
  /\ \A s \in Speakers : showing[s] # None => showing[s].speaker = s /\ Known(showing[s])
  /\ \A r \in Seen : Known(r) /\ \A s \in Speakers : showing[s] # r
  /\ \A i \in 1..Len(requests) :
       /\ Known(requests[i]) /\ requests[i] \notin Seen
       /\ \A s \in Speakers : showing[s] # requests[i]
       /\ \A k \in 1..Len(requests) : requests[k] = requests[i] => k = i

\* The deltas of the answer under way.
AnswerIsOwn ==
  /\ pc = "answering" => request # None
  /\ \A i \in 1..Len(answer) : answer[i] = <<request, i>>

\* With no command left to see, the worker remembers nothing it should have
\* forgotten, and is not answering it either.
ForgottenIsGone ==
  commands = 0 => Remembered \cap forgotten = {} /\ (pc = "answering" => request \notin forgotten)

\* Between the clear and its announcement.
ClearIsSeen ==
  announcing /\ commands = 0 => liveCoding = BlankLiveCoding \/ overtaken

-----------------------------------------------------------------------------
(* The inductive invariant: the screens ahead *)

\* CompletedTurnsAreWhole of a snapshot s.
Whole(s, answers) ==
  \A i \in 1..Len(s.conversation) :
    LET turn == s.conversation[i]
    IN  turn.status = "Completed" => \E k \in 1..Len(answers) : turn.answer = answers[k]
                                                               /\ answers[k][1][1] = turn.id

\* screens[i] is shown after i of the events; the last one is s.
Screens(screens, now, events, answers) ==
  /\ screens \in [0..Len(events) -> Snapshot]
  /\ screens[0] = now
  /\ \A i \in 1..Len(events) : screens[i] = Screen!Apply(screens[i - 1], events[i])
  /\ \A i \in 0..Len(events) : Whole(screens[i], answers)

Leads(now, events, answers, s) ==
  \E screens : Screens(screens, now, events, answers) /\ screens[Len(events)] = s

\* The screen s is that of the worker's state, the sink having caught up.
TurnIsSettled(turn, s) ==
  /\ Known(turn.id) /\ turn.id.mode = "Voice"
  /\ turn.status = "Streaming" => pc = "answering" /\ turn.id = request
  /\ pc = "answering" /\ turn.id = request =>
       turn.status = "Streaming" /\ turn.answer = answer /\ s.currentId = request
  /\ turn.status = "Pending" =>
       \/ \E k \in 1..Len(requests) : requests[k] = turn.id
       \/ \E p \in Speakers : showing[p] = turn.id

Settled(s) ==
  /\ pc = "answering" => s.currentId \in {request, None}
  /\ pc \in {"select", "polled"} /\ s.llmStatus = "Working" => s.currentId = None
  /\ \A i \in 1..Len(s.conversation) : TurnIsSettled(s.conversation[i], s)
  /\ \/ s.liveCoding = liveCoding
     \/ s.liveCoding = BlankLiveCoding /\ (overtaken \/ commands > 0)

ScreensAhead ==
  /\ outputOpen => \E s \in Snapshot : Leads(snapshot, output, full, s) /\ Settled(s)
  /\ ~outputOpen => output = <<>> /\ Whole(snapshot, full)

IInv ==
  /\ Typing
  /\ QuestionsAreUnique
  /\ AnswerIsOwn
  /\ MemoryFollowsAnswers
  /\ ForgottenIsGone
  /\ ClearIsSeen
  /\ ScreensAhead
-----------------------------------------------------------------------------
(* Lemmas about the snapshot *)

LEMMA BlankIsState == BlankLiveCoding \in LiveCodingState
BY DEF BlankLiveCoding, LiveCodingState

LEMMA EmptySnapshotIs ==
  /\ Screen!EmptySnapshot \in Snapshot
  /\ Screen!EmptySnapshot.conversation = <<>> /\ Screen!EmptySnapshot.liveCoding = BlankLiveCoding
  /\ Screen!EmptySnapshot.llmStatus = "Idle" /\ Screen!EmptySnapshot.currentId = None
BY BlankIsState DEF Screen!EmptySnapshot, Snapshot, Deltas, Turn

\* An event is one of these.
LEMMA EventCases ==
  ASSUME NEW e \in Event
  PROVE  \/ e.kind = "Transcript" /\ e.id \in Request
         \/ e.kind = "AnswerStarted" /\ e.id \in Request
         \/ e.kind = "AnswerCompleted" /\ e.id \in Request
         \/ e.kind = "AnswerDelta" /\ e.id \in Request /\ e.delta \in DeltaType
         \/ e.kind = "LlmError"
         \/ e.kind = "HistoryCleared"
         \/ e.kind = "LiveCodingUpdated" /\ e.state \in LiveCodingState
BY DEF Event

LEMMA TurnsAre ==
  ASSUME NEW s \in Snapshot
  PROVE  /\ Len(s.conversation) \in Nat
         /\ \A i \in 1..Len(s.conversation) :
              s.conversation[i] \in Turn /\ s.conversation[i].id \in Request
<1>1. s.conversation \in Seq(Turn)
  BY DEF Snapshot
<1>2. \A i \in 1..Len(s.conversation) : s.conversation[i] \in Turn
  BY <1>1, ElementOfSeq
<1> QED
  BY <1>1, <1>2, LenProperties DEF Turn

LEMMA NoDeltas == <<>> \in Deltas
BY EmptySeq DEF Deltas

\* A shown question is a turn of its own.
LEMMA ShowIs ==
  ASSUME NEW s \in Snapshot, NEW id \in Request,
         \A i \in 1..Len(s.conversation) : s.conversation[i].id # id,
         NEW t, t = Screen!Show(s, id)
  PROVE  /\ t \in Snapshot
         /\ t.llmStatus = s.llmStatus /\ t.currentId = s.currentId /\ t.liveCoding = s.liveCoding
         /\ Len(t.conversation) = Len(s.conversation) + 1
         /\ \A i \in 1..Len(s.conversation) : t.conversation[i] = s.conversation[i]
         /\ t.conversation[Len(s.conversation) + 1].id = id
         /\ t.conversation[Len(s.conversation) + 1].status = "Pending"
<1> DEFINE new == Screen!NewTurn(id)
           turns == Append(s.conversation, new)
<1>1. new \in Turn /\ new.id = id /\ new.status = "Pending"
  BY NoDeltas DEF Screen!NewTurn, Turn
<1>2. t = [s EXCEPT !.conversation = turns]
  BY DEF Screen!Show
<1> HIDE DEF new
<1>3. /\ turns \in Seq(Turn) /\ Len(turns) = Len(s.conversation) + 1
      /\ \A i \in 1..Len(s.conversation) : turns[i] = s.conversation[i]
      /\ turns[Len(s.conversation) + 1] = new
  BY <1>1, AppendProperties DEF Snapshot
<1> HIDE DEF turns
<1>4. /\ t.llmStatus = s.llmStatus /\ t.currentId = s.currentId /\ t.liveCoding = s.liveCoding
      /\ t.conversation = turns
  BY <1>2 DEF Snapshot
<1>5. t \in Snapshot
  BY <1>2, <1>3 DEF Snapshot
<1> QED
  BY <1>1, <1>3, <1>4, <1>5

LEMMA TurnsAreSeq ==
  ASSUME NEW n \in Nat, NEW turns \in [1..n -> Turn]
  PROVE  turns \in Seq(Turn) /\ Len(turns) = n
<1>1. turns \in Seq(Turn)
  BY SeqDef
<1> QED
  BY <1>1, LenProperties

\* What Start, Extend, Complete and Fail do to the turns.
LEMMA StartIs ==
  ASSUME NEW s \in Snapshot, NEW id \in Request, NEW t, t = Screen!Start(s, id)
  PROVE  /\ t \in Snapshot
         /\ t.llmStatus = "Working" /\ t.currentId = id /\ t.liveCoding = s.liveCoding
         /\ Len(t.conversation) = Len(s.conversation)
         /\ \A i \in 1..Len(s.conversation) :
              /\ t.conversation[i].id = s.conversation[i].id
              /\ s.conversation[i].id # id => t.conversation[i] = s.conversation[i]
              /\ s.conversation[i].id = id => /\ t.conversation[i].status = "Streaming"
                                              /\ t.conversation[i].answer = <<>>
<1> DEFINE turns == [i \in 1..Len(s.conversation) |->
                       IF s.conversation[i].id = id
                       THEN [s.conversation[i] EXCEPT !.answer = <<>>, !.status = "Streaming"]
                       ELSE s.conversation[i]]
<1>1. s.conversation \in Seq(Turn) /\ Len(s.conversation) \in Nat
  BY LenProperties DEF Snapshot
<1>2. \A i \in 1..Len(s.conversation) : s.conversation[i] \in Turn
  BY <1>1, ElementOfSeq
<1>3. \A i \in 1..Len(s.conversation) :
        [s.conversation[i] EXCEPT !.answer = <<>>, !.status = "Streaming"] \in Turn
  BY <1>2, NoDeltas DEF Turn
<1>4. turns \in Seq(Turn) /\ Len(turns) = Len(s.conversation)
  <2>1. turns \in [1..Len(s.conversation) -> Turn]
    BY <1>2, <1>3
  <2> HIDE DEF turns
  <2> QED
    BY <1>1, <2>1, TurnsAreSeq
<1>5. t = [s EXCEPT !.llmStatus = "Working", !.currentId = id, !.current = <<>>,
                    !.conversation = turns]
  BY DEF Screen!Start, Screen!Update
<1>6. \A i \in 1..Len(s.conversation) :
        /\ turns[i].id = s.conversation[i].id
        /\ s.conversation[i].id # id => turns[i] = s.conversation[i]
        /\ s.conversation[i].id = id => turns[i].status = "Streaming" /\ turns[i].answer = <<>>
  BY <1>2 DEF Turn
<1> HIDE DEF turns
<1>7. /\ t.llmStatus = "Working" /\ t.currentId = id /\ t.liveCoding = s.liveCoding
      /\ t.conversation = turns
  BY <1>5 DEF Snapshot
<1>8. t \in Snapshot
  BY <1>4, <1>5, NoDeltas DEF Snapshot
<1> QED
  BY <1>4, <1>6, <1>7, <1>8

With(deltas, delta) == Append(deltas, delta)

LEMMA ExtendIs ==
  ASSUME NEW s \in Snapshot, NEW delta \in DeltaType, NEW id \in Request, s.currentId = id,
         NEW t, t = Screen!Extend(s, id, delta)
  PROVE  /\ t \in Snapshot
         /\ t.llmStatus = s.llmStatus /\ t.currentId = s.currentId /\ t.liveCoding = s.liveCoding
         /\ Len(t.conversation) = Len(s.conversation)
         /\ \A i \in 1..Len(s.conversation) :
              /\ t.conversation[i].id = s.conversation[i].id
              /\ t.conversation[i].status = s.conversation[i].status
              /\ s.conversation[i].id # id => t.conversation[i] = s.conversation[i]
              /\ s.conversation[i].id = id =>
                   t.conversation[i].answer = With(s.conversation[i].answer, delta)
<1> DEFINE turns == [i \in 1..Len(s.conversation) |->
                       IF s.conversation[i].id = id
                       THEN [s.conversation[i] EXCEPT !.answer = Append(@, delta)]
                       ELSE s.conversation[i]]
<1>1. s.conversation \in Seq(Turn) /\ Len(s.conversation) \in Nat
  BY LenProperties DEF Snapshot
<1>2. \A i \in 1..Len(s.conversation) : s.conversation[i] \in Turn
  BY <1>1, ElementOfSeq
<1>3. \A i \in 1..Len(s.conversation) :
        [s.conversation[i] EXCEPT !.answer = Append(@, delta)] \in Turn
  <2>1. \A i \in 1..Len(s.conversation) : Append(s.conversation[i].answer, delta) \in Deltas
    BY <1>2, AppendProperties DEF Turn, Deltas
  <2> QED
    BY <1>2, <2>1 DEF Turn
<1>4. turns \in Seq(Turn) /\ Len(turns) = Len(s.conversation)
  <2>1. turns \in [1..Len(s.conversation) -> Turn]
    BY <1>2, <1>3
  <2> HIDE DEF turns
  <2> QED
    BY <1>1, <2>1, TurnsAreSeq
<1>5. t = [s EXCEPT !.current = Append(@, delta), !.conversation = turns]
  BY DEF Screen!Extend, Screen!Update
<1>6. \A i \in 1..Len(s.conversation) :
        /\ turns[i].id = s.conversation[i].id
        /\ turns[i].status = s.conversation[i].status
        /\ s.conversation[i].id # id => turns[i] = s.conversation[i]
        /\ s.conversation[i].id = id => turns[i].answer = Append(s.conversation[i].answer, delta)
  BY <1>2 DEF Turn
<1> HIDE DEF turns
<1>7. /\ t.llmStatus = s.llmStatus /\ t.currentId = s.currentId /\ t.liveCoding = s.liveCoding
      /\ t.conversation = turns
  BY <1>5 DEF Snapshot
<1>8. t \in Snapshot
  <2>1. Append(s.current, delta) \in Deltas
    BY AppendProperties DEF Snapshot, Deltas
  <2> QED
    BY <1>4, <1>5, <2>1 DEF Snapshot
<1> QED
  BY <1>4, <1>6, <1>7, <1>8 DEF With

\* Complete of the current request and Fail give its turns another status.
Concluded(s, status, llmStatus) ==
  [s EXCEPT !.llmStatus = llmStatus,
            !.conversation = [i \in 1..Len(s.conversation) |->
                                IF s.conversation[i].id = s.currentId
                                THEN [s.conversation[i] EXCEPT !.status = status]
                                ELSE s.conversation[i]]]

LEMMA StatusIs ==
  ASSUME NEW s \in Snapshot, NEW status \in {"Completed", "Failed"},
         NEW llmStatus \in {"Idle", "Error"}, NEW t,
         t = Concluded(s, status, llmStatus)
  PROVE  /\ t \in Snapshot
         /\ t.llmStatus = llmStatus /\ t.currentId = s.currentId /\ t.liveCoding = s.liveCoding
         /\ Len(t.conversation) = Len(s.conversation)
         /\ \A i \in 1..Len(s.conversation) :
              /\ t.conversation[i].id = s.conversation[i].id
              /\ t.conversation[i].answer = s.conversation[i].answer
              /\ s.conversation[i].id # s.currentId => t.conversation[i] = s.conversation[i]
              /\ s.conversation[i].id = s.currentId => t.conversation[i].status = status
<1> DEFINE turns == [i \in 1..Len(s.conversation) |->
                       IF s.conversation[i].id = s.currentId
                       THEN [s.conversation[i] EXCEPT !.status = status]
                       ELSE s.conversation[i]]
<1>1. s.conversation \in Seq(Turn) /\ Len(s.conversation) \in Nat
  BY LenProperties DEF Snapshot
<1>2. \A i \in 1..Len(s.conversation) : s.conversation[i] \in Turn
  BY <1>1, ElementOfSeq
<1>3. turns \in Seq(Turn) /\ Len(turns) = Len(s.conversation)
  <2>1. turns \in [1..Len(s.conversation) -> Turn]
    BY <1>2 DEF Turn
  <2> HIDE DEF turns
  <2> QED
    BY <1>1, <2>1, TurnsAreSeq
<1>4. t = [s EXCEPT !.llmStatus = llmStatus, !.conversation = turns]
  BY DEF Concluded
<1>5. \A i \in 1..Len(s.conversation) :
        /\ turns[i].id = s.conversation[i].id
        /\ turns[i].answer = s.conversation[i].answer
        /\ s.conversation[i].id # s.currentId => turns[i] = s.conversation[i]
        /\ s.conversation[i].id = s.currentId => turns[i].status = status
  BY <1>2 DEF Turn
<1> HIDE DEF turns
<1>6. /\ t.llmStatus = llmStatus /\ t.currentId = s.currentId /\ t.liveCoding = s.liveCoding
      /\ t.conversation = turns
  BY <1>4 DEF Snapshot
<1>7. t \in Snapshot
  BY <1>3, <1>4 DEF Snapshot
<1> QED
  BY <1>3, <1>5, <1>6, <1>7

LEMMA ClearIs ==
  ASSUME NEW s \in Snapshot, NEW t, t = Screen!Clear(s)
  PROVE  /\ t \in Snapshot
         /\ t.llmStatus = s.llmStatus /\ t.currentId = None /\ t.liveCoding = BlankLiveCoding
         /\ t.conversation = <<>>
BY BlankIsState, NoDeltas, EmptySeq DEF Screen!Clear, Snapshot

LEMMA UpdateLiveCodingIs ==
  ASSUME NEW s \in Snapshot, NEW state \in LiveCodingState,
         NEW t, t = [s EXCEPT !.liveCoding = state]
  PROVE  /\ t \in Snapshot
         /\ t.llmStatus = s.llmStatus /\ t.currentId = s.currentId /\ t.liveCoding = state
         /\ t.conversation = s.conversation
BY DEF Snapshot

\* What each event does.
LEMMA ApplyIs ==
  ASSUME NEW s, NEW e
  PROVE  /\ e.kind = "Transcript" => Screen!Apply(s, e) = Screen!Show(s, e.id)
         /\ e.kind = "AnswerStarted" => Screen!Apply(s, e) = Screen!Start(s, e.id)
         /\ e.kind = "AnswerDelta" => Screen!Apply(s, e) = Screen!Extend(s, e.id, e.delta)
         /\ e.kind = "AnswerCompleted" => Screen!Apply(s, e) = Screen!Complete(s, e.id)
         /\ e.kind = "LlmError" => Screen!Apply(s, e) = Screen!Fail(s)
         /\ e.kind = "HistoryCleared" => Screen!Apply(s, e) = Screen!Clear(s)
         /\ e.kind = "LiveCodingUpdated" => Screen!Apply(s, e) = [s EXCEPT !.liveCoding = e.state]
BY DEF Screen!Apply

-----------------------------------------------------------------------------
(* Lemmas about the screens ahead *)

\* With nothing in the channel, the screen now is the last.
LEMMA LeadsNowhere ==
  ASSUME NEW s \in Snapshot, NEW answers, Whole(s, answers)
  PROVE  Leads(s, <<>>, answers, s)
<1> DEFINE screens == [i \in 0..0 |-> s]
<1>1. Len(<<>>) = 0
  OBVIOUS
<1>2. screens \in [0..0 -> Snapshot] /\ screens[0] = s
  OBVIOUS
<1>3. \A i \in 0..0 : Whole(screens[i], answers)
  BY <1>2
<1> HIDE DEF screens
<1>4. Screens(screens, s, <<>>, answers)
  BY <1>1, <1>2, <1>3 DEF Screens
<1> QED
  BY <1>1, <1>2, <1>4 DEF Leads

\* The first screen and the last.
LEMMA LeadsFromTo ==
  ASSUME NEW now, NEW events \in Seq(Event), NEW answers, NEW s, Leads(now, events, answers, s)
  PROVE  /\ now \in Snapshot /\ Whole(now, answers) /\ s \in Snapshot /\ Whole(s, answers)
         /\ events = <<>> => s = now
<1>1. PICK screens : Screens(screens, now, events, answers) /\ screens[Len(events)] = s
  BY DEF Leads
<1>2. Len(events) \in Nat
  BY LenProperties
<1>3. 0 \in 0..Len(events) /\ Len(events) \in 0..Len(events)
  BY <1>2
<1>4. events = <<>> => Len(events) = 0
  OBVIOUS
<1> QED
  BY <1>1, <1>3, <1>4 DEF Screens

\* One more event leads one step further.
LEMMA LeadsFurther ==
  ASSUME NEW now, NEW events \in Seq(Event), NEW answers, NEW s, NEW e \in Event,
         NEW t \in Snapshot, Leads(now, events, answers, s), t = Screen!Apply(s, e),
         Whole(t, answers)
  PROVE  Leads(now, Append(events, e), answers, t)
<1>1. PICK screens : Screens(screens, now, events, answers) /\ screens[Len(events)] = s
  BY DEF Leads
<1> DEFINE n == Len(events)
           more == Append(events, e)
           longer == [i \in 0..(n + 1) |-> IF i = n + 1 THEN t ELSE screens[i]]
<1>2. n \in Nat
  BY LenProperties
<1>3. /\ Len(more) = n + 1 /\ more[n + 1] = e
      /\ \A i \in 1..n : more[i] = events[i]
  BY AppendProperties
<1>4. /\ screens \in [0..n -> Snapshot] /\ screens[0] = now
      /\ \A i \in 1..n : screens[i] = Screen!Apply(screens[i - 1], events[i])
      /\ \A i \in 0..n : Whole(screens[i], answers)
  BY <1>1 DEF Screens
<1> HIDE DEF n, more
<1>5. \A i \in 0..(n + 1) : i = n + 1 \/ i \in 0..n
  BY <1>2
<1>6. longer \in [0..(n + 1) -> Snapshot]
  BY <1>4, <1>5
<1>7. longer[0] = now /\ longer[n + 1] = t /\ \A i \in 0..n : longer[i] = screens[i]
  BY <1>2, <1>4
<1> HIDE DEF longer
<1>8. ASSUME NEW i \in 1..(n + 1)
      PROVE  longer[i] = Screen!Apply(longer[i - 1], more[i])
  <2>1. CASE i = n + 1
    <3>1. i - 1 = n /\ n \in 0..n
      BY <1>2, <2>1
    <3>2. longer[i - 1] = s /\ longer[i] = t /\ more[i] = e
      BY <1>1, <1>3, <1>7, <2>1, <3>1 DEF n
    <3> QED
      BY <3>2
  <2>2. CASE i \in 1..n
    <3>1. i \in 0..n /\ i - 1 \in 0..n
      BY <1>2, <2>2
    <3> QED
      BY <1>3, <1>4, <1>7, <2>2, <3>1
  <2> QED
    BY <1>2, <2>1, <2>2
<1>9. \A i \in 0..(n + 1) : Whole(longer[i], answers)
  BY <1>4, <1>5, <1>7
<1>10. Screens(longer, now, more, answers)
  BY <1>3, <1>6, <1>7, <1>8, <1>9 DEF Screens
<1> QED
  BY <1>3, <1>7, <1>10 DEF Leads, more

\* Once the first event was taken the rest leads where all did.
LEMMA LeadsFromNext ==
  ASSUME NEW now, NEW events \in Seq(Event), NEW answers, NEW s, events # <<>>,
         Leads(now, events, answers, s)
  PROVE  /\ Leads(Screen!Apply(now, Head(events)), Tail(events), answers, s)
         /\ Screen!Apply(now, Head(events)) \in Snapshot
<1>1. PICK screens : Screens(screens, now, events, answers) /\ screens[Len(events)] = s
  BY DEF Leads
<1> DEFINE n == Len(events)
           rest == Tail(events)
           shorter == [i \in 0..(n - 1) |-> screens[i + 1]]
<1>2. n \in Nat /\ n # 0
  BY LenProperties, EmptySeq
<1>3. /\ Len(rest) = n - 1 /\ Head(events) = events[1]
      /\ \A i \in 1..(n - 1) : rest[i] = events[i + 1]
  BY HeadTailProperties
<1>4. /\ screens \in [0..n -> Snapshot] /\ screens[0] = now
      /\ \A i \in 1..n : screens[i] = Screen!Apply(screens[i - 1], events[i])
      /\ \A i \in 0..n : Whole(screens[i], answers)
  BY <1>1 DEF Screens
<1>5. screens[n] = s
  BY <1>1
<1> HIDE DEF n, rest
<1>6. \A i \in 0..(n - 1) : i + 1 \in 0..n /\ i + 1 \in 1..n /\ (i + 1) - 1 = i
  BY <1>2
<1>7. shorter \in [0..(n - 1) -> Snapshot]
  BY <1>4, <1>6
<1>8. shorter[0] = Screen!Apply(now, Head(events))
  <2>1. 0 \in 0..(n - 1) /\ 1 \in 1..n
    BY <1>2
  <2> QED
    BY <1>3, <1>4, <2>1
<1>9. shorter[n - 1] = s
  <2>1. n - 1 \in 0..(n - 1) /\ (n - 1) + 1 = n
    BY <1>2
  <2> QED
    BY <1>5, <2>1
<1>10. \A i \in 0..(n - 1) : shorter[i] = screens[i + 1]
  OBVIOUS
<1> HIDE DEF shorter
<1>11. ASSUME NEW i \in 1..(n - 1)
       PROVE  shorter[i] = Screen!Apply(shorter[i - 1], rest[i])
  <2>1. i \in 0..(n - 1) /\ i - 1 \in 0..(n - 1) /\ (i - 1) + 1 = i /\ (i + 1) - 1 = i
    BY <1>2
  <2>2. shorter[i] = screens[i + 1] /\ shorter[i - 1] = screens[i] /\ rest[i] = events[i + 1]
    BY <1>3, <1>10, <2>1
  <2>3. screens[i + 1] = Screen!Apply(screens[(i + 1) - 1], events[i + 1])
    BY <1>4, <1>6, <2>1
  <2> QED
    BY <2>1, <2>2, <2>3
<1>12. \A i \in 0..(n - 1) : Whole(shorter[i], answers)
  BY <1>4, <1>6, <1>10
<1>13. Screens(shorter, Screen!Apply(now, Head(events)), rest, answers)
  BY <1>3, <1>7, <1>8, <1>11, <1>12 DEF Screens
<1>14. 0 \in 0..(n - 1)
  BY <1>2
<1> QED
  BY <1>3, <1>7, <1>8, <1>9, <1>13, <1>14 DEF Leads, rest

\* A turn that is whole stays so when another answer is completed.
LEMMA WholeStays ==
  ASSUME NEW s, NEW answers \in Seq(Deltas), NEW a \in Deltas, Whole(s, answers)
  PROVE  Whole(s, Append(answers, a))
<1>1. /\ Len(Append(answers, a)) = Len(answers) + 1 /\ Len(answers) \in Nat
      /\ \A k \in 1..Len(answers) : Append(answers, a)[k] = answers[k]
  BY AppendProperties, LenProperties
<1>2. \A k \in 1..Len(answers) : k \in 1..Len(Append(answers, a))
  BY <1>1
<1> QED
  BY <1>1, <1>2 DEF Whole

LEMMA LeadsStays ==
  ASSUME NEW now, NEW events, NEW answers \in Seq(Deltas), NEW a \in Deltas, NEW s,
         Leads(now, events, answers, s)
  PROVE  Leads(now, events, Append(answers, a), s)
BY WholeStays DEF Leads, Screens

-----------------------------------------------------------------------------
(* What an emission adds *)

LEMMA EmitIs ==
  ASSUME Typing, NEW e \in Event, Emit(<<e>>)
  PROVE  outputOpen /\ output' = Append(output, e) /\ output' \in Seq(Event)
<1>1. output \in Seq(Event)
  BY DEF Typing
<1>2. output \o <<e>> = Append(output, e)
  BY <1>1, AppendIsConcat
<1> QED
  BY <1>1, <1>2, AppendProperties DEF Emit

LEMMA EmitTwoIs ==
  ASSUME Typing, NEW e \in Event, NEW f \in Event, Emit(<<e, f>>)
  PROVE  /\ outputOpen /\ output' = Append(Append(output, e), f)
         /\ Append(output, e) \in Seq(Event) /\ output' \in Seq(Event)
<1>1. output \in Seq(Event) /\ Append(output, e) \in Seq(Event)
  BY AppendProperties DEF Typing
<1>2. <<e>> \in Seq(Event) /\ <<f>> \in Seq(Event)
  OBVIOUS
<1>3. <<e, f>> = <<e>> \o <<f>>
  <2> DEFINE both == <<e, f>>
             joined == <<e>> \o <<f>>
  <2>1. both \in Seq(Event) /\ joined \in Seq(Event)
    BY <1>2, ConcatProperties
  <2>2. Len(joined) = 2 /\ joined[1] = e /\ joined[2] = f
    BY <1>2, ConcatProperties
  <2>3. Len(both) = 2 /\ both[1] = e /\ both[2] = f
    OBVIOUS
  <2> HIDE DEF both, joined
  <2>4. \A i \in 1..Len(both) : both[i] = joined[i]
    <3>1. \A i \in 1..2 : i = 1 \/ i = 2
      OBVIOUS
    <3> QED
      BY <2>2, <2>3, <3>1
  <2>5. both = joined
    BY <2>1, <2>2, <2>3, <2>4, SeqEqual
  <2> QED
    BY <2>5 DEF both, joined
<1>4. output \o <<e, f>> = (output \o <<e>>) \o <<f>>
  BY <1>1, <1>2, <1>3, ConcatAssociative
<1>5. output \o <<e, f>> = Append(Append(output, e), f)
  BY <1>1, <1>4, AppendIsConcat
<1> QED
  BY <1>1, <1>5, AppendProperties DEF Emit

LEMMA KindsAre ==
  ASSUME NEW events \in Seq(Event)
  PROVE  \A i \in 1..Len(events) : events[i].kind \in Events
<1>1. \A i \in 1..Len(events) : events[i] \in Event
  BY ElementOfSeq
<1>2. \A e \in Event : e.kind \in Events
  BY EventCases DEF Events
<1> QED
  BY <1>1, <1>2

-----------------------------------------------------------------------------
(* What is left alone *)

LEMMA QuestionsRest ==
  ASSUME IInv, UNCHANGED <<asked, showing, requests>>, Seen' \subseteq Seen
  PROVE  QuestionsAreUnique'
BY DEF IInv, QuestionsAreUnique, Known

LEMMA MemoryRests ==
  ASSUME IInv, UNCHANGED <<history, liveCoding, completed>>
  PROVE  MemoryFollowsAnswers'
BY DEF IInv, MemoryFollowsAnswers, HistoryIsRecentAnswers, LiveCodingFollowsAnswers, IsLatestTask

LEMMA WorkerRests ==
  ASSUME IInv, UNCHANGED <<pc, request, answer, history, liveCoding, completed>>
  PROVE  AnswerIsOwn' /\ MemoryFollowsAnswers' /\ UNCHANGED Remembered
BY MemoryRests DEF IInv, AnswerIsOwn, Remembered

LEMMA ClearsRest ==
  ASSUME IInv, UNCHANGED <<commands, pc, request, history, liveCoding, forgotten, announcing,
                           overtaken>>
  PROVE  ForgottenIsGone' /\ ClearIsSeen'
BY DEF IInv, ForgottenIsGone, ClearIsSeen, Remembered

\* The screens ahead are what they were while nothing is emitted or shown, and
\* the last of them still agrees with the worker.
LEMMA ScreensRest ==
  ASSUME IInv, UNCHANGED <<output, outputOpen, snapshot, full>>,
         \A s \in Snapshot : outputOpen /\ Settled(s) => Settled(s)'
  PROVE  ScreensAhead'
BY DEF IInv, ScreensAhead

\* What is emitted leads to one more screen.
LEMMA ScreensFollow ==
  ASSUME IInv, UNCHANGED <<outputOpen, snapshot>>, NEW e \in Event, Emit(<<e>>),
         full' = full \/ full' = Append(full, answer),
         \A s \in Snapshot :
           Settled(s) /\ Whole(s, full) => /\ Screen!Apply(s, e) \in Snapshot
                                           /\ Whole(Screen!Apply(s, e), full')
                                           /\ Settled(Screen!Apply(s, e))'
  PROVE  ScreensAhead'
<1>1. outputOpen /\ output' = Append(output, e)
  BY EmitIs DEF IInv
<1>2. PICK s \in Snapshot : Leads(snapshot, output, full, s) /\ Settled(s)
  BY <1>1 DEF IInv, ScreensAhead
<1>3. output \in Seq(Event) /\ full \in Seq(Deltas) /\ answer \in Deltas
  BY DEF IInv, Typing
<1>4. Whole(s, full)
  BY <1>2, <1>3, LeadsFromTo
<1>5. Leads(snapshot, output, full', s)
  BY <1>2, <1>3, LeadsStays
<1>6. Leads(snapshot, Append(output, e), full', Screen!Apply(s, e))
  BY <1>2, <1>3, <1>4, <1>5, LeadsFurther
<1>7. Leads(snapshot', output', full', Screen!Apply(s, e))
  BY <1>1, <1>6
<1> QED
  BY <1>1, <1>2, <1>4, <1>7 DEF ScreensAhead

\* Two events lead to two more screens.
LEMMA ScreensFollowTwo ==
  ASSUME IInv, UNCHANGED <<outputOpen, snapshot, full>>,
         NEW e \in Event, NEW f \in Event, Emit(<<e, f>>),
         \A s \in Snapshot :
           Settled(s) /\ Whole(s, full) =>
             /\ Screen!Apply(s, e) \in Snapshot /\ Whole(Screen!Apply(s, e), full)
             /\ Screen!Apply(Screen!Apply(s, e), f) \in Snapshot
             /\ Whole(Screen!Apply(Screen!Apply(s, e), f), full)
             /\ Settled(Screen!Apply(Screen!Apply(s, e), f))'
  PROVE  ScreensAhead'
<1>1. /\ outputOpen /\ output' = Append(Append(output, e), f)
      /\ Append(output, e) \in Seq(Event)
  BY EmitTwoIs DEF IInv
<1>2. PICK s \in Snapshot : Leads(snapshot, output, full, s) /\ Settled(s)
  BY <1>1 DEF IInv, ScreensAhead
<1>3. output \in Seq(Event)
  BY DEF IInv, Typing
<1>4. Whole(s, full)
  BY <1>2, <1>3, LeadsFromTo
<1>5. PICK t \in Snapshot : t = Screen!Apply(s, e)
  BY <1>2, <1>4
<1>6. PICK u \in Snapshot : u = Screen!Apply(t, f)
  BY <1>2, <1>4, <1>5
<1>7. Whole(t, full) /\ Whole(u, full) /\ Settled(u)'
  BY <1>2, <1>4, <1>5, <1>6
<1>8. Leads(snapshot, Append(output, e), full, t)
  BY <1>2, <1>3, <1>5, <1>7, LeadsFurther
<1>9. Leads(snapshot, Append(Append(output, e), f), full, u)
  BY <1>1, <1>6, <1>7, <1>8, LeadsFurther
<1> QED
  BY <1>1, <1>7, <1>9 DEF ScreensAhead

-----------------------------------------------------------------------------
(* The transcript workers and the application *)

LEMMA AskStep ==
  ASSUME IInv, NEW s \in Speakers, NEW mode \in Modes, Ask(s, mode)
  PROVE  IInv'
<1>1. PICK r \in Request : r = [speaker |-> s, number |-> asked[s] + 1, mode |-> mode]
  BY DEF Ask
<1>2. PICK e \in Event : e = [kind |-> "Transcript", id |-> r]
  BY DEF Event
<1>3. /\ UNCHANGED <<requests, askersOpen, commands, pc, request, answer, history, liveCoding,
                     outputOpen, snapshot, clears, announcing, completed, full, forgotten,
                     overtaken>>
      /\ showing[s] = None
      /\ asked' = [asked EXCEPT ![s] = @ + 1] /\ showing' = [showing EXCEPT ![s] = r]
      /\ IF mode = "Voice" THEN Emit(<<e>>) ELSE Emit(<<>>)
  BY <1>1, <1>2 DEF Ask, screen, application, ghosts
<1>4. /\ asked \in [Speakers -> 0..MaxQuestions] /\ showing \in [Speakers -> Request \cup {None}]
      /\ output \in Seq(Event)
  BY DEF IInv, Typing, TypeOK
<1>5. /\ r.speaker = s /\ r.number = asked[s] + 1 /\ r.mode = mode /\ r # None
      /\ e.kind = "Transcript" /\ e.id = r
  BY <1>1, <1>2, NoneAssumption
<1>6. output' = IF mode = "Voice" THEN Append(output, e) ELSE output
  BY <1>3, <1>4, EmitIs, ConcatEmptySeq DEF Emit, IInv
<1>7. /\ asked' \in [Speakers -> 0..MaxQuestions] /\ \A p \in Speakers : asked[p] <= asked'[p]
      /\ asked'[s] = asked[s] + 1
  <2>1. asked[s] + 1 \in 0..MaxQuestions
    BY <1>5 DEF Request
  <2> QED
    BY <1>3, <1>4, <2>1
<1>8. Typing'
  <2>1. showing' \in [Speakers -> Request \cup {None}]
    BY <1>3, <1>4
  <2>2. output' \in Seq(Event)
    BY <1>4, <1>6, AppendProperties
  <2>3. (\A i \in 1..Len(output) : output[i].kind \in Events)'
    BY <2>2, KindsAre
  <2> QED
    BY <1>3, <1>7, <2>1, <2>2, <2>3 DEF IInv, Typing, TypeOK
<1>9. \A q \in Request : Known(q) => Known(q)' /\ q # r
  <2> SUFFICES ASSUME NEW q \in Request, Known(q)
               PROVE  Known(q)' /\ q # r
    OBVIOUS
  <2>1. q.speaker \in Speakers /\ q.number \in Nat
    BY DEF Request
  <2>2. Known(q)'
    BY <1>4, <1>7, <2>1 DEF Known
  <2>3. q # r
    BY <1>4, <1>5, <2>1 DEF Known
  <2> QED
    BY <2>2, <2>3
<1>10. \A p \in Speakers : showing'[p] = IF p = s THEN r ELSE showing[p]
  BY <1>3, <1>4
<1>11. QuestionsAreUnique'
  <2>1. Seen' = Seen
    BY <1>3 DEF Seen, Remembered
  <2>2. Seen \subseteq Request
    BY DEF Seen, Remembered, IInv, Typing, TypeOK, LiveCodingState, ToSet
  <2>3. ASSUME NEW p \in Speakers, showing'[p] # None
        PROVE  showing'[p].speaker = p /\ showing'[p].number <= asked'[showing'[p].speaker]
    <3>1. CASE p = s
      BY <1>4, <1>5, <1>7, <1>10, <3>1
    <3>2. CASE p # s
      <4>1. showing'[p] = showing[p] /\ showing[p] \in Request
        BY <1>4, <1>10, <2>3, <3>2
      <4>2. showing[p].speaker = p /\ Known(showing[p])
        BY <2>3, <4>1 DEF IInv, QuestionsAreUnique
      <4>3. showing[p].number \in Nat
        BY <4>1 DEF Request
      <4> QED
        BY <1>4, <1>7, <4>1, <4>2, <4>3 DEF Known
    <3> QED
      BY <3>1, <3>2
  <2>4. ASSUME NEW q \in Seen
        PROVE  Known(q)' /\ \A p \in Speakers : showing'[p] # q
    BY <1>9, <1>10, <2>2 DEF IInv, QuestionsAreUnique
  <2>5. ASSUME NEW i \in 1..Len(requests)
        PROVE  Known(requests[i])' /\ \A p \in Speakers : showing'[p] # requests[i]
    <3>1. PICK q \in Request : q = requests[i]
      BY ElementOfSeq DEF IInv, Typing, TypeOK
    <3>2. Known(q) /\ \A p \in Speakers : showing[p] # q
      BY <3>1 DEF IInv, QuestionsAreUnique
    <3>3. Known(q)' /\ \A p \in Speakers : showing'[p] # q
      BY <1>9, <1>10, <3>2
    <3> QED
      BY <1>3, <3>1, <3>3
  <2>6. \A i \in 1..Len(requests) :
          /\ requests[i] \notin Seen
          /\ \A k \in 1..Len(requests) : requests[k] = requests[i] => k = i
    BY DEF IInv, QuestionsAreUnique
  <2>7. \A p \in Speakers : showing'[p] # None => showing'[p].speaker = p /\ (Known(showing[p]))'
    BY <2>3 DEF Known
  <2> QED
    BY <1>3, <2>1, <2>4, <2>5, <2>6, <2>7 DEF QuestionsAreUnique
<1>12. AnswerIsOwn' /\ MemoryFollowsAnswers' /\ ForgottenIsGone' /\ ClearIsSeen'
  BY <1>3, WorkerRests, ClearsRest
<1>13. ASSUME NEW t \in Snapshot, Settled(t)
       PROVE  Settled(t)' /\ \A i \in 1..Len(t.conversation) : t.conversation[i].id # r
  <2>1. \A i \in 1..Len(t.conversation) : t.conversation[i].id \in Request
    BY TurnsAre
  <2>2. ASSUME NEW i \in 1..Len(t.conversation)
        PROVE  TurnIsSettled(t.conversation[i], t)' /\ t.conversation[i].id # r
    <3>1. TurnIsSettled(t.conversation[i], t)
      BY <1>13 DEF Settled
    <3>2. Known(t.conversation[i].id)' /\ t.conversation[i].id # r
      BY <1>9, <2>1, <3>1 DEF TurnIsSettled
    <3>3. \A p \in Speakers : showing[p] = t.conversation[i].id => showing'[p] = showing[p]
      BY <1>3, <1>10, <2>1, NoneAssumption
    <3> QED
      BY <1>3, <3>1, <3>2, <3>3 DEF TurnIsSettled
  <2> QED
    BY <1>3, <1>13, <2>2 DEF Settled
<1>14. ScreensAhead'
  <2>1. CASE mode # "Voice"
    BY <1>3, <1>6, <1>13, <2>1, ScreensRest
  <2>2. CASE mode = "Voice"
    <3>1. ASSUME NEW t \in Snapshot, Settled(t), Whole(t, full)
          PROVE  /\ Screen!Apply(t, e) \in Snapshot /\ Whole(Screen!Apply(t, e), full')
                 /\ Settled(Screen!Apply(t, e))'
      <4> DEFINE u == Screen!Apply(t, e)
      <4>1. u = Screen!Show(t, r)
        BY <1>5, ApplyIs
      <4>2. Settled(t)' /\ \A i \in 1..Len(t.conversation) : t.conversation[i].id # r
        BY <1>13, <3>1
      <4> HIDE DEF u
      <4>3. /\ u \in Snapshot
            /\ u.llmStatus = t.llmStatus /\ u.currentId = t.currentId
            /\ u.liveCoding = t.liveCoding
            /\ Len(u.conversation) = Len(t.conversation) + 1
            /\ \A i \in 1..Len(t.conversation) : u.conversation[i] = t.conversation[i]
            /\ u.conversation[Len(t.conversation) + 1].id = r
            /\ u.conversation[Len(t.conversation) + 1].status = "Pending"
        BY <4>1, <4>2, ShowIs
      <4>4. \A i \in 1..Len(u.conversation) :
              i \in 1..Len(t.conversation) \/ i = Len(t.conversation) + 1
        BY <4>3, TurnsAre
      <4>5. Whole(u, full')
        BY <1>3, <3>1, <4>3, <4>4 DEF Whole
      <4>6. TurnIsSettled(u.conversation[Len(t.conversation) + 1], u)'
        <5>1. r # request
          BY <1>5, <1>9 DEF IInv, QuestionsAreUnique, Seen, Typing, TypeOK
        <5>2. Known(r)'
          BY <1>4, <1>5, <1>7 DEF Known
        <5>3. showing'[s] = r
          BY <1>10
        <5> QED
          BY <1>3, <1>5, <2>2, <4>3, <5>1, <5>2, <5>3 DEF TurnIsSettled
      <4>7. ASSUME NEW i \in 1..Len(t.conversation)
            PROVE  TurnIsSettled(u.conversation[i], u)'
        BY <4>2, <4>3 DEF Settled, TurnIsSettled
      <4>8. Settled(u)'
        <5>1. \A i \in 1..Len(u.conversation) : TurnIsSettled(u.conversation[i], u)'
          BY <4>4, <4>6, <4>7
        <5> QED
          BY <4>2, <4>3, <5>1 DEF Settled
      <4> QED
        BY <4>3, <4>5, <4>8 DEF u
    <3>2. Emit(<<e>>)
      BY <1>3, <2>2
    <3> QED
      BY <1>3, <3>1, <3>2, ScreensFollow
  <2> QED
    BY <2>1, <2>2
<1> QED
  BY <1>8, <1>11, <1>12, <1>14 DEF IInv

LEMMA QueueStep ==
  ASSUME IInv, NEW s \in Speakers, Queue(s)
  PROVE  IInv'
<1>1. PICK r \in Request : r = showing[s]
  BY DEF Queue, IInv, Typing, TypeOK
<1>2. /\ UNCHANGED <<asked, askersOpen, commands, pc, request, answer, history, liveCoding, output,
                     outputOpen, snapshot, clears, announcing, completed, full, forgotten,
                     overtaken>>
      /\ requests' = Append(requests, r) /\ showing' = [showing EXCEPT ![s] = None]
  BY <1>1 DEF Queue, screen, application, ghosts
<1>3. /\ requests \in Seq(Request) /\ Len(requests) \in Nat
      /\ showing \in [Speakers -> Request \cup {None}]
  BY LenProperties DEF IInv, Typing, TypeOK
<1>4. /\ requests' \in Seq(Request) /\ Len(requests') = Len(requests) + 1
      /\ \A i \in 1..Len(requests) : requests'[i] = requests[i]
      /\ requests'[Len(requests) + 1] = r
  BY <1>2, <1>3, AppendProperties
<1>5. \A i \in 1..Len(requests') : i \in 1..Len(requests) \/ i = Len(requests) + 1
  BY <1>3, <1>4
<1>6. \A p \in Speakers : showing'[p] = IF p = s THEN None ELSE showing[p]
  BY <1>2, <1>3
<1>7. Typing'
  <2>1. showing' \in [Speakers -> Request \cup {None}]
    BY <1>2, <1>3
  <2> QED
    BY <1>2, <1>4, <2>1 DEF IInv, Typing, TypeOK
<1>8. QuestionsAreUnique'
  <2>1. Seen' = Seen
    BY <1>2 DEF Seen, Remembered
  <2>2. \A p \in Speakers : showing[p] # None => showing[p].speaker = p /\ Known(showing[p])
    BY DEF IInv, QuestionsAreUnique
  <2>3. r # None /\ Known(r) /\ r \notin Seen /\ \A p \in Speakers : showing'[p] # r
    <3>1. r # None /\ Known(r) /\ r \notin Seen
      BY <1>1, <2>2, NoneAssumption DEF IInv, QuestionsAreUnique
    <3>2. ASSUME NEW p \in Speakers, p # s
          PROVE  showing[p] # r
      BY <1>1, <2>2, <3>1, <3>2
    <3> QED
      BY <1>6, <3>1, <3>2
  <2>4. \A i \in 1..Len(requests) :
          /\ Known(requests[i]) /\ requests[i] \notin Seen /\ requests[i] # r
          /\ \A p \in Speakers : showing[p] # requests[i]
          /\ \A k \in 1..Len(requests) : requests[k] = requests[i] => k = i
    BY <1>1 DEF IInv, QuestionsAreUnique
  <2>5. \A i \in 1..Len(requests) : requests[i] # None
    BY <1>3, ElementOfSeq, NoneAssumption
  <2>6. ASSUME NEW i \in 1..Len(requests')
        PROVE  /\ Known(requests'[i]) /\ requests'[i] \notin Seen
               /\ \A p \in Speakers : showing'[p] # requests'[i]
               /\ \A k \in 1..Len(requests') : requests'[k] = requests'[i] => k = i
    <3>1. CASE i \in 1..Len(requests)
      <4>1. /\ Known(requests'[i]) /\ requests'[i] \notin Seen
            /\ \A p \in Speakers : showing'[p] # requests'[i]
        BY <1>4, <1>6, <2>4, <2>5, <3>1
      <4>2. \A k \in 1..Len(requests') : requests'[k] = requests'[i] => k = i
        BY <1>4, <1>5, <2>4, <3>1
      <4> QED
        BY <4>1, <4>2
    <3>2. CASE i = Len(requests) + 1
      <4>1. /\ Known(requests'[i]) /\ requests'[i] \notin Seen
            /\ \A p \in Speakers : showing'[p] # requests'[i]
        BY <1>4, <2>3, <3>2
      <4>2. \A k \in 1..Len(requests') : requests'[k] = requests'[i] => k = i
        BY <1>4, <1>5, <2>4, <3>2
      <4> QED
        BY <4>1, <4>2
    <3> QED
      BY <1>5, <3>1, <3>2
  <2>7. \A p \in Speakers : showing'[p] # None => showing'[p].speaker = p /\ Known(showing'[p])
    BY <1>6, <2>2
  <2>8. \A q \in Seen : Known(q) /\ \A p \in Speakers : showing'[p] # q
    <3>1. None \notin Seen
      BY DEF Seen
    <3> QED
      BY <1>6, <3>1 DEF IInv, QuestionsAreUnique
  <2> QED
    BY <1>2, <2>1, <2>6, <2>7, <2>8 DEF QuestionsAreUnique, Known
<1>9. AnswerIsOwn' /\ MemoryFollowsAnswers' /\ ForgottenIsGone' /\ ClearIsSeen'
  BY <1>2, WorkerRests, ClearsRest
<1>10. ScreensAhead'
  <2>1. ASSUME NEW t \in Snapshot, Settled(t), NEW i \in 1..Len(t.conversation)
        PROVE  TurnIsSettled(t.conversation[i], t)'
    <3>1. TurnIsSettled(t.conversation[i], t)
      BY <2>1 DEF Settled
    <3>2. (\E k \in 1..Len(requests) : requests[k] = t.conversation[i].id)
            => \E k \in 1..Len(requests') : requests'[k] = t.conversation[i].id
      BY <1>3, <1>4
    <3>3. Len(requests) + 1 \in 1..Len(requests')
      BY <1>3, <1>4
    <3>4. ASSUME NEW p \in Speakers, showing[p] = t.conversation[i].id
          PROVE  \/ \E k \in 1..Len(requests') : requests'[k] = t.conversation[i].id
                 \/ showing'[p] = t.conversation[i].id
      BY <1>1, <1>4, <1>6, <3>3, <3>4
    <3> QED
      BY <1>2, <3>1, <3>2, <3>4 DEF TurnIsSettled, Known
  <2> QED
    BY <1>2, <2>1, ScreensRest DEF Settled
<1> QED
  BY <1>7, <1>8, <1>9, <1>10 DEF IInv

\* The transcript workers end, the application announces a cleared history, or
\* nothing happens.
LEMMA AskersEndStep ==
  ASSUME IInv, AskersEnd \/ UNCHANGED vars
  PROVE  IInv'
<1>1. UNCHANGED <<asked, showing, requests, commands, pc, request, answer, history, liveCoding,
                  output, outputOpen, snapshot, clears, announcing, completed, full, forgotten,
                  overtaken>>
  BY DEF AskersEnd, vars, askers, screen, application, ghosts
<1>2. askersOpen' \in BOOLEAN
  <2>1. askersOpen \in BOOLEAN
    BY DEF IInv, Typing, TypeOK
  <2>2. askersOpen' \in {askersOpen, FALSE}
    BY Zenon DEF AskersEnd, vars, askers
  <2> QED
    BY Zenon, <2>1, <2>2
<1>3. Typing'
  BY <1>1, <1>2 DEF IInv, Typing, TypeOK
<1>4. QuestionsAreUnique'
  BY <1>1, QuestionsRest DEF Seen, Remembered
<1>5. AnswerIsOwn' /\ MemoryFollowsAnswers' /\ ForgottenIsGone' /\ ClearIsSeen'
  BY <1>1, WorkerRests, ClearsRest
<1>6. ScreensAhead'
  BY <1>1, ScreensRest DEF Settled, TurnIsSettled, Known
<1> QED
  BY <1>3, <1>4, <1>5, <1>6 DEF IInv

LEMMA ClearHistoryStep ==
  ASSUME IInv, ClearHistory
  PROVE  IInv'
<1>1. /\ UNCHANGED <<asked, showing, requests, askersOpen, pc, request, answer, history,
                     liveCoding, output, outputOpen, snapshot, completed, full, overtaken>>
      /\ clears' = clears + 1 /\ clears < MaxClears /\ commands' = commands + 1
      /\ forgotten' = forgotten \cup ((Remembered \cup {request}) \ {None})
  BY DEF ClearHistory, askers, screen
<1>2. announcing' = TRUE
  BY DEF ClearHistory
<1>3. commands \in Nat /\ clears \in 0..MaxClears
  BY DEF IInv, Typing, TypeOK
<1>4. Remembered \ {None} \subseteq Request
  BY DEF Remembered, IInv, Typing, TypeOK, LiveCodingState, ToSet
<1>5. Typing'
  <2>1. announcing' \in BOOLEAN
    BY Zenon, <1>2
  <2>2. clears' \in 0..MaxClears /\ commands' \in Nat
    BY <1>1, <1>3, BoundsAssumption
  <2>3. forgotten' \subseteq Request
    BY <1>1, <1>4 DEF IInv, Typing, TypeOK
  <2> QED
    BY <1>1, <2>1, <2>2, <2>3 DEF IInv, Typing, TypeOK
<1>6. QuestionsAreUnique'
  BY <1>1, QuestionsRest DEF Seen, Remembered
<1>7. AnswerIsOwn' /\ MemoryFollowsAnswers'
  BY <1>1, WorkerRests
<1>8. ForgottenIsGone' /\ ClearIsSeen'
  BY <1>1, <1>3 DEF ForgottenIsGone, ClearIsSeen
<1>9. ScreensAhead'
  <2>1. commands' > 0
    BY <1>1, <1>3
  <2> QED
    BY <1>1, <2>1, ScreensRest DEF Settled, TurnIsSettled, Known
<1> QED
  BY <1>5, <1>6, <1>7, <1>8, <1>9 DEF IInv

LEMMA AnnounceClearedStep ==
  ASSUME IInv, AnnounceCleared
  PROVE  IInv'
<1>1. PICK e \in Event : e = [kind |-> "HistoryCleared"]
  BY DEF Event
<1>2. /\ UNCHANGED <<asked, showing, requests, askersOpen, commands, pc, request, answer, history,
                     liveCoding, outputOpen, snapshot, clears, completed, full, forgotten,
                     overtaken>>
      /\ Emit(<<e>>) /\ announcing
  BY <1>1 DEF AnnounceCleared, askers, screen, ghosts
<1>3. announcing' = FALSE /\ output' \in Seq(Event)
  BY <1>2, EmitIs DEF AnnounceCleared, IInv
<1>4. Typing'
  <2>1. announcing' \in BOOLEAN
    BY Zenon, <1>3
  <2>2. (\A i \in 1..Len(output) : output[i].kind \in Events)'
    BY <1>3, KindsAre
  <2> QED
    BY <1>2, <1>3, <2>1, <2>2 DEF IInv, Typing, TypeOK
<1>5. QuestionsAreUnique'
  BY <1>2, QuestionsRest DEF Seen, Remembered
<1>6. AnswerIsOwn' /\ MemoryFollowsAnswers'
  BY <1>2, WorkerRests
<1>7. ForgottenIsGone' /\ ClearIsSeen'
  BY <1>2, <1>3 DEF IInv, ForgottenIsGone, ClearIsSeen, Remembered
<1>8. ScreensAhead'
  <2>1. ASSUME NEW t \in Snapshot, Settled(t), Whole(t, full)
        PROVE  /\ Screen!Apply(t, e) \in Snapshot /\ Whole(Screen!Apply(t, e), full')
               /\ Settled(Screen!Apply(t, e))'
    <3> DEFINE u == Screen!Apply(t, e)
    <3>1. u = Screen!Clear(t)
      BY <1>1, ApplyIs
    <3> HIDE DEF u
    <3>2. /\ u \in Snapshot /\ u.currentId = None /\ u.liveCoding = BlankLiveCoding
          /\ u.conversation = <<>>
      BY <3>1, ClearIs
    <3>3. \A i \in 1..Len(u.conversation) : FALSE
      BY <3>2
    <3>4. liveCoding = BlankLiveCoding \/ overtaken \/ commands > 0
      BY <1>2 DEF IInv, ClearIsSeen, Typing, TypeOK
    <3>5. Whole(u, full') /\ Settled(u)'
      BY <1>2, <3>2, <3>3, <3>4 DEF Whole, Settled
    <3> QED
      BY <3>2, <3>5 DEF u
  <2> QED
    BY <1>2, <2>1, ScreensFollow
<1> QED
  BY <1>4, <1>5, <1>6, <1>7, <1>8 DEF IInv
-----------------------------------------------------------------------------
(* The worker *)

\* The history, the live-coding state and what was remembered are cleared.
LEMMA TakeCommandStep ==
  ASSUME IInv, TakeCommand
  PROVE  IInv'
<1>1. PICK e \in Event : e = [kind |-> "LiveCodingUpdated", state |-> BlankLiveCoding]
  BY BlankIsState DEF Event
<1>2. /\ UNCHANGED <<asked, showing, requests, askersOpen, pc, request, answer, outputOpen,
                     snapshot, clears, announcing, full, forgotten, overtaken>>
      /\ Emit(<<e>>) /\ pc = "select" /\ commands > 0 /\ commands' = commands - 1
      /\ history' = <<>> /\ liveCoding' = BlankLiveCoding /\ completed' = NoneCompleted
  BY <1>1 DEF TakeCommand, Cleared, askers, screen, application
<1>3. output' \in Seq(Event) /\ commands' \in Nat
  <2>1. output' \in Seq(Event)
    BY <1>2, EmitIs DEF IInv
  <2>2. commands \in Nat
    BY DEF IInv, Typing, TypeOK
  <2> QED
    BY <1>2, <2>1, <2>2
<1>4. Typing'
  <2>1. (\A i \in 1..Len(output) : output[i].kind \in Events)'
    BY <1>3, KindsAre
  <2>2. history' \in Seq(Request) /\ Len(history') <= MaxPairs
    BY <1>2, MaxPairsAssumption
  <2>3. completed' \in [Voice : Seq(Request), LiveCoding : Seq(Request)]
    BY <1>2, EmptySeq DEF NoneCompleted
  <2> QED
    BY <1>2, <1>3, <2>1, <2>2, <2>3, BlankIsState DEF IInv, Typing, TypeOK
<1>5. Remembered' = {None}
  BY <1>2 DEF Remembered, BlankLiveCoding, ToSet
<1>6. QuestionsAreUnique'
  BY <1>2, <1>5, QuestionsRest DEF Seen
<1>7. AnswerIsOwn'
  BY <1>2 DEF IInv, AnswerIsOwn
<1>8. MemoryFollowsAnswers'
  <2>1. completed'.Voice = <<>> /\ completed'.LiveCoding = <<>> /\ Len(<<>>) = 0
    BY <1>2 DEF NoneCompleted
  <2>2. HistoryIsRecentAnswers'
    <3>1. SubSeq(<<>>, 1, 0) = <<>>
      OBVIOUS
    <3> QED
      BY <1>2, <2>1, <3>1, MaxPairsAssumption DEF HistoryIsRecentAnswers
  <2>3. LiveCodingFollowsAnswers'
    BY <1>2, <2>1 DEF LiveCodingFollowsAnswers, IsLatestTask, BlankLiveCoding
  <2> QED
    BY <2>2, <2>3 DEF MemoryFollowsAnswers
<1>9. ForgottenIsGone' /\ ClearIsSeen'
  <2>1. None \notin forgotten
    BY NoneAssumption DEF IInv, Typing
  <2> QED
    BY <1>2, <1>5, <2>1 DEF ForgottenIsGone, ClearIsSeen
<1>10. ScreensAhead'
  <2>1. ASSUME NEW t \in Snapshot, Settled(t), Whole(t, full)
        PROVE  /\ Screen!Apply(t, e) \in Snapshot /\ Whole(Screen!Apply(t, e), full')
               /\ Settled(Screen!Apply(t, e))'
    <3> DEFINE u == Screen!Apply(t, e)
    <3>1. u = [t EXCEPT !.liveCoding = BlankLiveCoding]
      BY <1>1, ApplyIs
    <3> HIDE DEF u
    <3>2. /\ u \in Snapshot /\ u.llmStatus = t.llmStatus /\ u.currentId = t.currentId
          /\ u.liveCoding = BlankLiveCoding /\ u.conversation = t.conversation
      BY <3>1, BlankIsState, UpdateLiveCodingIs
    <3>3. \A i \in 1..Len(u.conversation) : TurnIsSettled(u.conversation[i], u)'
      BY <1>2, <2>1, <3>2 DEF Settled, TurnIsSettled, Known
    <3>4. Whole(u, full') /\ Settled(u)'
      BY <1>2, <2>1, <3>2, <3>3 DEF Whole, Settled
    <3> QED
      BY <3>2, <3>4 DEF u
  <2> QED
    BY <1>2, <2>1, ScreensFollow
<1> QED
  BY <1>4, <1>6, <1>7, <1>8, <1>9, <1>10 DEF IInv

\* The request that is taken is none that was forgotten, and its turn starts.
LEMMA TakeRequestStep ==
  ASSUME IInv, TakeRequest
  PROVE  IInv'
<1>1. /\ requests \in Seq(Request) /\ requests # <<>> /\ Len(requests) \in Nat
      /\ Len(requests) >= 1
  <2>1. requests \in Seq(Request) /\ requests # <<>>
    BY DEF IInv, Typing, TypeOK, TakeRequest
  <2> QED
    BY <2>1, LenProperties, EmptySeq
<1>2. PICK r \in Request : r = Head(requests)
  BY <1>1, HeadTailProperties
<1>3. PICK e \in Event : e = [kind |-> "AnswerStarted", id |-> r]
  BY DEF Event
<1>4. /\ UNCHANGED <<asked, showing, askersOpen, commands, history, liveCoding, outputOpen,
                     snapshot, clears, announcing, completed, full, forgotten, overtaken>>
      /\ Emit(<<e>>) /\ pc = "polled" /\ pc' = "answering"
      /\ requests' = Tail(requests) /\ request' = r /\ answer' = <<>>
  BY <1>2, <1>3 DEF TakeRequest, askers, screen, application, ghosts
<1>5. /\ requests[1] = r /\ requests' \in Seq(Request) /\ Len(requests') = Len(requests) - 1
      /\ \A i \in 1..Len(requests') : requests'[i] = requests[i + 1] /\ i + 1 \in 1..Len(requests)
  BY <1>1, <1>2, <1>4, HeadTailProperties
<1>6. 1 \in 1..Len(requests)
  BY <1>1
<1>7. output' \in Seq(Event)
  BY <1>4, EmitIs DEF IInv
<1>8. Typing'
  <2>1. (\A i \in 1..Len(output) : output[i].kind \in Events)'
    BY <1>7, KindsAre
  <2> QED
    BY <1>4, <1>5, <1>7, <2>1, NoDeltas DEF IInv, Typing, TypeOK
<1>9. r # None /\ Known(r) /\ r \notin Seen /\ \A p \in Speakers : showing[p] # r
  BY <1>5, <1>6, NoneAssumption DEF IInv, QuestionsAreUnique
<1>10. QuestionsAreUnique'
  <2>1. Seen' \subseteq Seen \cup {r}
    BY <1>4 DEF Seen, Remembered
  <2>2. ASSUME NEW i \in 1..Len(requests')
        PROVE  /\ Known(requests'[i]) /\ requests'[i] \notin Seen'
               /\ \A p \in Speakers : showing[p] # requests'[i]
               /\ \A k \in 1..Len(requests') : requests'[k] = requests'[i] => k = i
    <3>1. requests'[i] = requests[i + 1] /\ i + 1 \in 1..Len(requests) /\ i + 1 # 1
      BY <1>5
    <3>2. requests[i + 1] # r
      BY <1>5, <1>6, <3>1 DEF IInv, QuestionsAreUnique
    <3>3. /\ Known(requests'[i]) /\ requests'[i] \notin Seen'
          /\ \A p \in Speakers : showing[p] # requests'[i]
      BY <2>1, <3>1, <3>2 DEF IInv, QuestionsAreUnique
    <3>4. ASSUME NEW k \in 1..Len(requests'), requests'[k] = requests'[i]
          PROVE  k = i
      <4>1. requests'[k] = requests[k + 1] /\ k + 1 \in 1..Len(requests)
        BY <1>5
      <4>2. k + 1 = i + 1
        BY <3>1, <3>4, <4>1 DEF IInv, QuestionsAreUnique
      <4> QED
        BY <4>2
    <3> QED
      BY <3>3, <3>4
  <2>3. \A q \in Seen' : Known(q) /\ \A p \in Speakers : showing[p] # q
    BY <1>9, <2>1 DEF IInv, QuestionsAreUnique
  <2>4. \A p \in Speakers : showing[p] # None => showing[p].speaker = p /\ Known(showing[p])
    BY DEF IInv, QuestionsAreUnique
  <2> QED
    BY <1>4, <2>2, <2>3, <2>4 DEF QuestionsAreUnique, Known
<1>11. AnswerIsOwn'
  <2>1. Len(answer') = 0
    BY <1>4
  <2> QED
    BY <1>4, <1>9, <2>1 DEF AnswerIsOwn
<1>12. MemoryFollowsAnswers'
  BY <1>4, MemoryRests
<1>13. ForgottenIsGone' /\ ClearIsSeen'
  <2>1. r \notin forgotten
    BY <1>9 DEF Seen
  <2> QED
    BY <1>4, <2>1 DEF IInv, ForgottenIsGone, ClearIsSeen, Remembered
<1>14. ScreensAhead'
  <2>1. ASSUME NEW t \in Snapshot, Settled(t), Whole(t, full)
        PROVE  /\ Screen!Apply(t, e) \in Snapshot /\ Whole(Screen!Apply(t, e), full')
               /\ Settled(Screen!Apply(t, e))'
    <3> DEFINE u == Screen!Apply(t, e)
    <3>1. u = Screen!Start(t, r)
      BY <1>3, ApplyIs
    <3> HIDE DEF u
    <3>2. /\ u \in Snapshot
          /\ u.llmStatus = "Working" /\ u.currentId = r /\ u.liveCoding = t.liveCoding
          /\ Len(u.conversation) = Len(t.conversation)
          /\ \A i \in 1..Len(t.conversation) :
               /\ u.conversation[i].id = t.conversation[i].id
               /\ t.conversation[i].id # r => u.conversation[i] = t.conversation[i]
               /\ t.conversation[i].id = r => /\ u.conversation[i].status = "Streaming"
                                              /\ u.conversation[i].answer = <<>>
      BY <3>1, StartIs
    <3>3. ASSUME NEW i \in 1..Len(t.conversation)
          PROVE  TurnIsSettled(u.conversation[i], u)'
      <4>1. TurnIsSettled(t.conversation[i], t)
        BY <2>1 DEF Settled
      <4>2. CASE t.conversation[i].id = r
        BY <1>4, <3>2, <4>1, <4>2 DEF TurnIsSettled, Known
      <4>3. CASE t.conversation[i].id # r
        <5>1. ASSUME NEW k \in 1..Len(requests), requests[k] = t.conversation[i].id
              PROVE  \E l \in 1..Len(requests') : requests'[l] = t.conversation[i].id
          <6>1. k # 1 /\ k - 1 \in 1..Len(requests') /\ (k - 1) + 1 = k
            BY <1>1, <1>5, <4>3, <5>1
          <6> QED
            BY <1>5, <5>1, <6>1
        <5> QED
          BY <1>4, <3>2, <4>1, <4>3, <5>1 DEF TurnIsSettled, Known
      <4> QED
        BY <4>2, <4>3
    <3>4. Whole(u, full')
      <4>1. full' = full
        BY <1>4
      <4>2. ASSUME NEW i \in 1..Len(t.conversation), u.conversation[i].status = "Completed"
            PROVE  u.conversation[i] = t.conversation[i]
        <5>1. t.conversation[i].id # r
          BY <3>2, <4>2
        <5> QED
          BY <3>2, <5>1
      <4>3. ASSUME NEW i \in 1..Len(t.conversation), u.conversation[i].status = "Completed"
            PROVE  \E k \in 1..Len(full) : /\ u.conversation[i].answer = full[k]
                                           /\ full[k][1][1] = u.conversation[i].id
        <5>1. t.conversation[i].status = "Completed"
          BY <4>2, <4>3
        <5>2. \E k \in 1..Len(full) : /\ t.conversation[i].answer = full[k]
                                      /\ full[k][1][1] = t.conversation[i].id
          BY <2>1, <5>1 DEF Whole
        <5> QED
          BY <4>2, <4>3, <5>2, Zenon
      <4> QED
        BY <3>2, <4>1, <4>3 DEF Whole
    <3>5. Settled(u)'
      BY <1>4, <2>1, <3>2, <3>3 DEF Settled
    <3> QED
      BY <3>2, <3>4, <3>5 DEF u
  <2> QED
    BY <1>4, <2>1, ScreensFollow
<1> QED
  BY <1>8, <1>10, <1>11, <1>12, <1>13, <1>14 DEF IInv

\* A delta reaches the turn of its request, if the history was not cleared.
LEMMA DeltaStep ==
  ASSUME IInv, Delta
  PROVE  IInv'
<1>1. /\ UNCHANGED <<asked, showing, requests, askersOpen, commands, pc, request, history,
                     liveCoding, outputOpen, snapshot, clears, announcing, completed, full,
                     forgotten, overtaken>>
      /\ pc = "answering" /\ answer' = Append(answer, <<request, Len(answer) + 1>>)
  BY DEF Delta, askers, screen, application, ghosts
<1>2. request \in Request /\ answer \in Deltas /\ Len(answer) \in Nat /\ output \in Seq(Event)
  BY <1>1, LenProperties DEF IInv, Typing, TypeOK, AnswerIsOwn, Deltas
<1>3. PICK r \in Request : r = request
  BY <1>2
<1>4. PICK d \in DeltaType : d = <<request, Len(answer) + 1>>
  <2>1. <<request, Len(answer) + 1>> \in DeltaType
    BY <1>2 DEF DeltaType
  <2> QED
    BY Zenon, <2>1
<1>5. PICK e \in Event : e = [kind |-> "AnswerDelta", id |-> r, delta |-> d]
  BY DEF Event
<1>6. /\ answer' = Append(answer, d) /\ answer' \in Deltas /\ Len(answer') = Len(answer) + 1
      /\ \A i \in 1..Len(answer) : answer'[i] = answer[i]
      /\ answer'[Len(answer) + 1] = d
  BY <1>1, <1>2, <1>4, AppendProperties DEF Deltas
<1>7. IF r.mode = "Voice" THEN Emit(<<e>>) ELSE UNCHANGED output
  BY <1>3, <1>4, <1>5 DEF Delta
<1>8. output' \in Seq(Event)
  BY <1>2, <1>7, EmitIs DEF IInv
<1>9. Typing'
  <2>1. (\A i \in 1..Len(output) : output[i].kind \in Events)'
    BY <1>8, KindsAre
  <2> QED
    BY <1>1, <1>6, <1>8, <2>1 DEF IInv, Typing, TypeOK
<1>10. QuestionsAreUnique'
  BY <1>1, QuestionsRest DEF Seen, Remembered
<1>11. AnswerIsOwn'
  <2>1. \A i \in 1..Len(answer') : i \in 1..Len(answer) \/ i = Len(answer) + 1
    BY <1>2, <1>6
  <2> QED
    BY <1>1, <1>4, <1>6, <2>1 DEF IInv, AnswerIsOwn
<1>12. MemoryFollowsAnswers' /\ ForgottenIsGone' /\ ClearIsSeen'
  BY <1>1, MemoryRests, ClearsRest
<1>13. ScreensAhead'
  <2>1. CASE r.mode # "Voice"
    <3>1. ASSUME NEW t \in Snapshot, Settled(t), NEW i \in 1..Len(t.conversation)
          PROVE  TurnIsSettled(t.conversation[i], t)'
      BY <1>1, <1>3, <2>1, <3>1 DEF Settled, TurnIsSettled, Known
    <3> QED
      BY <1>1, <1>7, <2>1, <3>1, ScreensRest DEF Settled
  <2>2. CASE r.mode = "Voice"
    <3>1. ASSUME NEW t \in Snapshot, Settled(t), Whole(t, full)
          PROVE  /\ Screen!Apply(t, e) \in Snapshot /\ Whole(Screen!Apply(t, e), full')
                 /\ Settled(Screen!Apply(t, e))'
      <4> DEFINE u == Screen!Apply(t, e)
      <4>1. u = Screen!Extend(t, r, d)
        BY <1>5, ApplyIs
      <4> HIDE DEF u
      <4>2. CASE t.currentId # r
        <5>1. u = t
          BY <4>1, <4>2 DEF Screen!Extend
        <5>2. ASSUME NEW i \in 1..Len(t.conversation)
              PROVE  TurnIsSettled(t.conversation[i], t)'
          BY <1>1, <1>3, <3>1, <4>2 DEF Settled, TurnIsSettled, Known
        <5>3. Settled(t)'
          BY <1>1, <3>1, <5>2 DEF Settled
        <5> QED
          BY <1>1, <3>1, <5>1, <5>3 DEF u
      <4>3. CASE t.currentId = r
        <5>1. /\ u \in Snapshot
              /\ u.llmStatus = t.llmStatus /\ u.currentId = t.currentId
              /\ u.liveCoding = t.liveCoding
              /\ Len(u.conversation) = Len(t.conversation)
              /\ \A i \in 1..Len(t.conversation) :
                   /\ u.conversation[i].id = t.conversation[i].id
                   /\ u.conversation[i].status = t.conversation[i].status
                   /\ t.conversation[i].id # r => u.conversation[i] = t.conversation[i]
                   /\ t.conversation[i].id = r =>
                        u.conversation[i].answer = Append(t.conversation[i].answer, d)
          <6>1. /\ u \in Snapshot
                /\ u.llmStatus = t.llmStatus /\ u.currentId = t.currentId
                /\ u.liveCoding = t.liveCoding
                /\ Len(u.conversation) = Len(t.conversation)
                /\ \A i \in 1..Len(t.conversation) :
                     /\ u.conversation[i].id = t.conversation[i].id
                     /\ u.conversation[i].status = t.conversation[i].status
                     /\ t.conversation[i].id # r => u.conversation[i] = t.conversation[i]
                     /\ t.conversation[i].id = r =>
                          u.conversation[i].answer = With(t.conversation[i].answer, d)
            BY <4>1, <4>3, ExtendIs
          <6> QED
            BY <6>1 DEF With
        <5>2. ASSUME NEW i \in 1..Len(t.conversation)
              PROVE  /\ TurnIsSettled(u.conversation[i], u)'
                     /\ t.conversation[i].id = r => t.conversation[i].status = "Streaming"
          <6>1. TurnIsSettled(t.conversation[i], t)
            BY <3>1 DEF Settled
          <6> QED
            BY <1>1, <1>3, <1>6, <5>1, <6>1 DEF TurnIsSettled, Known
        <5>3. Whole(u, full')
          <6>1. \A i \in 1..Len(t.conversation) :
                  u.conversation[i].status = "Completed" => u.conversation[i] = t.conversation[i]
            BY <5>1, <5>2
          <6> QED
            BY <1>1, <3>1, <5>1, <6>1 DEF Whole
        <5>4. Settled(u)'
          BY <1>1, <3>1, <5>1, <5>2 DEF Settled
        <5> QED
          BY <5>1, <5>3, <5>4 DEF u
      <4> QED
        BY <4>2, <4>3
    <3> QED
      BY <1>1, <1>7, <2>2, <3>1, ScreensFollow
  <2> QED
    BY <2>1, <2>2
<1> QED
  BY <1>9, <1>10, <1>11, <1>12, <1>13 DEF IInv

\* What holds of the last screen when the answer under way ends.
LEMMA AnswerEnds ==
  ASSUME IInv, pc = "answering", pc' = "select", UNCHANGED <<asked, showing, requests>>,
         NEW t \in Snapshot, Settled(t), NEW u \in Snapshot,
         u.currentId = t.currentId, u.llmStatus # "Working" \/ t.currentId = None,
         Len(u.conversation) = Len(t.conversation),
         \A i \in 1..Len(t.conversation) :
           /\ u.conversation[i].id = t.conversation[i].id
           /\ t.conversation[i].id # t.currentId => u.conversation[i] = t.conversation[i]
           /\ t.conversation[i].id = t.currentId =>
                u.conversation[i].status \in {"Completed", "Failed"},
         \/ u.liveCoding = liveCoding'
         \/ u.liveCoding = BlankLiveCoding /\ (overtaken' \/ commands' > 0)
  PROVE  Settled(u)'
<1>1. ASSUME NEW i \in 1..Len(t.conversation)
      PROVE  TurnIsSettled(u.conversation[i], u)'
  <2>1. TurnIsSettled(t.conversation[i], t)
    BY DEF Settled
  <2>2. Known(u.conversation[i].id)' /\ u.conversation[i].id.mode = "Voice"
    BY <2>1 DEF TurnIsSettled, Known
  <2>3. u.conversation[i].status # "Streaming"
    <3>1. CASE t.conversation[i].id = t.currentId
      BY <3>1
    <3>2. CASE t.conversation[i].id # t.currentId
      BY <2>1, <3>2 DEF TurnIsSettled
    <3> QED
      BY <3>1, <3>2
  <2>4. u.conversation[i].status = "Pending" => t.conversation[i].status = "Pending"
    BY <2>1
  <2> QED
    BY <2>1, <2>2, <2>3, <2>4 DEF TurnIsSettled
<1> QED
  BY <1>1 DEF Settled

\* What AnswerCompleted does to the last screen: the turn of the request has
\* its whole answer.
LEMMA CompleteIs ==
  ASSUME IInv, pc = "answering", NEW r \in Request, r = request,
         NEW t \in Snapshot, NEW u, u = Screen!Complete(t, r), t.currentId \in {r, None}
  PROVE  /\ u \in Snapshot
         /\ u.currentId = t.currentId /\ u.liveCoding = t.liveCoding
         /\ u.llmStatus # "Working" \/ t.currentId = None
         /\ Len(u.conversation) = Len(t.conversation)
         /\ \A i \in 1..Len(t.conversation) :
              /\ u.conversation[i].id = t.conversation[i].id
              /\ u.conversation[i].answer = t.conversation[i].answer
              /\ t.conversation[i].id # t.currentId => u.conversation[i] = t.conversation[i]
              /\ t.conversation[i].id = t.currentId => u.conversation[i].status = "Completed"
<1>1. CASE t.currentId = r
  <2>1. u = Concluded(t, "Completed", "Idle")
    BY <1>1 DEF Screen!Complete, Screen!Update, Concluded
  <2> QED
    BY <2>1, StatusIs
<1>2. CASE t.currentId # r
  <2>1. u = t /\ t.currentId = None
    BY <1>2 DEF Screen!Complete
  <2>2. \A i \in 1..Len(t.conversation) : t.conversation[i].id # None
    BY TurnsAre, NoneAssumption
  <2> QED
    BY <2>1, <2>2
<1> QED
  BY <1>1, <1>2

\* Of a sequence, the latest m elements.
Latest(seq, m) == SubSeq(seq, IF Len(seq) > m THEN Len(seq) - m + 1 ELSE 1, Len(seq))

\* Recorded keeps the latest pairs.
LEMMA RecordedIs ==
  ASSUME NEW seq \in Seq(Request), NEW r \in Request, NEW pairs, pairs = Latest(seq, MaxPairs)
  PROVE  /\ Recorded(pairs, r) = Latest(Append(seq, r), MaxPairs)
         /\ Recorded(pairs, r) \in Seq(Request) /\ Len(Recorded(pairs, r)) <= MaxPairs
<1> DEFINE n == Len(seq)
           first == IF n > MaxPairs THEN n - MaxPairs + 1 ELSE 1
           more == Append(seq, r)
           next == IF n + 1 > MaxPairs THEN (n + 1) - MaxPairs + 1 ELSE 1
           kept == IF Len(pairs) = MaxPairs THEN Tail(pairs) ELSE pairs
<1>1. n \in Nat /\ MaxPairs \in Nat /\ MaxPairs >= 1
  BY LenProperties, MaxPairsAssumption
<1>2. /\ more \in Seq(Request) /\ Len(more) = n + 1 /\ more[n + 1] = r
      /\ \A i \in 1..n : more[i] = seq[i]
  BY AppendProperties
<1>3. pairs = SubSeq(seq, first, n)
  BY DEF Latest
<1>4. Recorded(pairs, r) = Append(kept, r)
  BY DEF Recorded
<1>5. first \in 1..(n + 1) /\ next \in 1..(n + 1)
  BY <1>1
<1>6. Latest(more, MaxPairs) = SubSeq(more, next, n + 1)
  BY <1>2 DEF Latest
<1>7. \A i \in first..n : seq[i] \in Request
  <2>1. \A i \in first..n : i \in 1..n
    BY <1>1, <1>5
  <2> QED
    BY <2>1, ElementOfSeq
<1>8. \A i \in next..(n + 1) : more[i] \in Request
  <2>1. \A i \in next..(n + 1) : i \in 1..Len(more)
    BY <1>1, <1>2, <1>5
  <2> QED
    BY <1>2, <2>1, ElementOfSeq
<1> HIDE DEF n, more, first, next
<1>9. /\ pairs \in Seq(Request) /\ Len(pairs) = n - first + 1
      /\ \A i \in 1..(n - first + 1) : pairs[i] = seq[first + i - 1]
  <2>1. /\ SubSeq(seq, first, n) \in Seq(Request)
        /\ Len(SubSeq(seq, first, n)) = IF first <= n THEN n - first + 1 ELSE 0
        /\ \A i \in 1..(n - first + 1) : SubSeq(seq, first, n)[i] = seq[first + i - 1]
    BY <1>1, <1>5, <1>7, SubSeqProperties DEF n
  <2> QED
    BY <1>1, <1>3, <1>5, <2>1
<1>10. /\ SubSeq(more, next, n + 1) \in Seq(Request)
       /\ Len(SubSeq(more, next, n + 1)) = (n + 1) - next + 1
       /\ \A i \in 1..((n + 1) - next + 1) : SubSeq(more, next, n + 1)[i] = more[next + i - 1]
  BY <1>1, <1>2, <1>5, <1>8, SubSeqProperties
<1> HIDE DEF kept
<1>11. /\ kept \in Seq(Request) /\ Len(kept) = n - next + 1
       /\ \A i \in 1..(n - next + 1) : kept[i] = seq[next + i - 1]
  <2>1. CASE Len(pairs) = MaxPairs
    <3>1. Len(pairs) # 0 /\ pairs # <<>>
      BY <1>1, <2>1
    <3>2. /\ kept \in Seq(Request) /\ Len(kept) = Len(pairs) - 1
          /\ \A i \in 1..(Len(pairs) - 1) : kept[i] = pairs[i + 1]
      BY <1>9, <2>1, <3>1, HeadTailProperties DEF kept
    <3>3. n - first + 1 = MaxPairs /\ next = first + 1
      BY <1>1, <1>9, <2>1 DEF first, next
    <3>4. Len(kept) = n - next + 1
      BY <1>1, <1>5, <1>9, <2>1, <3>2, <3>3
    <3>5. ASSUME NEW i \in 1..(n - next + 1)
          PROVE  kept[i] = seq[next + i - 1]
      <4>1. i \in 1..(Len(pairs) - 1) /\ i + 1 \in 1..(n - first + 1)
        BY <1>1, <1>5, <1>9, <2>1, <3>3
      <4>2. first + (i + 1) - 1 = next + i - 1
        BY <1>5, <3>3
      <4> QED
        BY <1>9, <3>2, <4>1, <4>2
    <3> QED
      BY <3>2, <3>4, <3>5
  <2>2. CASE Len(pairs) # MaxPairs
    <3>1. first = 1 /\ next = 1
      BY <1>1, <1>9, <2>2 DEF first, next
    <3> QED
      BY <1>9, <2>2, <3>1 DEF kept
  <2> QED
    BY <2>1, <2>2
<1>12. /\ Append(kept, r) \in Seq(Request) /\ Len(Append(kept, r)) = (n - next + 1) + 1
       /\ Append(kept, r)[(n - next + 1) + 1] = r
       /\ \A i \in 1..(n - next + 1) : Append(kept, r)[i] = kept[i]
  BY <1>11, AppendProperties
<1>13. Append(kept, r) = SubSeq(more, next, n + 1)
  <2>1. ASSUME NEW i \in 1..((n + 1) - next + 1)
        PROVE  Append(kept, r)[i] = SubSeq(more, next, n + 1)[i]
    <3>1. CASE i = (n - next + 1) + 1
      <4>1. next + i - 1 = n + 1
        BY <1>1, <1>5, <3>1
      <4> QED
        BY <1>2, <1>10, <1>12, <3>1, <4>1
    <3>2. CASE i \in 1..(n - next + 1)
      <4>1. next + i - 1 \in 1..n
        BY <1>1, <1>5, <3>2
      <4> QED
        BY <1>2, <1>10, <1>11, <1>12, <3>2, <4>1
    <3>3. i = (n - next + 1) + 1 \/ i \in 1..(n - next + 1)
      BY <1>1, <1>5
    <3> QED
      BY <3>1, <3>2, <3>3
  <2>2. Len(Append(kept, r)) = Len(SubSeq(more, next, n + 1))
    BY <1>1, <1>5, <1>10, <1>12
  <2> QED
    BY <1>10, <1>12, <2>1, <2>2, SeqEqual
<1>14. (n - next + 1) + 1 <= MaxPairs
  BY <1>1 DEF next
<1> QED
  BY <1>4, <1>6, <1>12, <1>13, <1>14 DEF more

\* LiveCodingFollowsAnswers of a state and the answers it came from.
Follows(state, coding) ==
  /\ state.revision = Len(coding)
  /\ IsLatestTask(state.summary, coding)
  /\ state.context # None => \E i \in 1..Len(coding) :
       state.context = coding[i] /\ coding[i].speaker # Interviewer
  /\ state.code # None => \E i \in 1..Len(coding) : state.code = coding[i]

Parts(state) == {state.summary, state.context, state.code}

\* The state keeps up with the answer that comes.
LEMMA ParsedIs ==
  ASSUME NEW coding \in Seq(Request), NEW r \in Request, NEW newContext, NEW newCode,
         liveCoding \in LiveCodingState, Follows(liveCoding, coding),
         NEW state, state = Parsed(r, newContext, newCode),
         NEW more, more = Append(coding, r)
  PROVE  /\ state \in LiveCodingState /\ Follows(state, more)
         /\ Parts(state) \subseteq Parts(liveCoding) \cup {r}
<1> DEFINE n == Len(coding)
<1>0. /\ liveCoding.revision = Len(coding)
      /\ IsLatestTask(liveCoding.summary, coding)
      /\ liveCoding.context # None => \E i \in 1..Len(coding) :
           liveCoding.context = coding[i] /\ coding[i].speaker # Interviewer
      /\ liveCoding.code # None => \E i \in 1..Len(coding) : liveCoding.code = coding[i]
  BY DEF Follows
<1>1. /\ n \in Nat /\ more \in Seq(Request) /\ Len(more) = n + 1 /\ more[n + 1] = r
      /\ \A i \in 1..n : more[i] = coding[i]
  BY LenProperties, AppendProperties
<1>2. /\ state.revision = liveCoding.revision + 1
      /\ state.summary = IF r.speaker = Interviewer THEN r ELSE liveCoding.summary
      /\ state.context = IF r.speaker # Interviewer /\ newContext THEN r ELSE liveCoding.context
      /\ state.code = IF newCode THEN r ELSE liveCoding.code
      /\ state.before = liveCoding.code
  BY DEF Parsed
<1>3. state \in LiveCodingState
  <2>1. /\ liveCoding.revision \in Nat /\ liveCoding.summary \in Request \cup {None}
        /\ liveCoding.context \in Request \cup {None} /\ liveCoding.code \in Request \cup {None}
    BY DEF LiveCodingState
  <2> QED
    BY <2>1 DEF Parsed, LiveCodingState
<1>4. state.revision = Len(more)
  BY <1>0, <1>1, <1>2
<1> HIDE DEF n
<1>5. n + 1 \in 1..Len(more) /\ \A i \in 1..n : i \in 1..Len(more)
  BY <1>1
<1>6. IsLatestTask(state.summary, more)
  <2>1. CASE r.speaker = Interviewer
    <3>1. \A k \in ((n + 1) + 1)..Len(more) : FALSE
      BY <1>1
    <3> QED
      BY <1>1, <1>2, <1>5, <2>1, <3>1 DEF IsLatestTask
  <2>2. CASE r.speaker # Interviewer
    <3>1. CASE liveCoding.summary = None /\ \A i \in 1..n : coding[i].speaker # Interviewer
      <4>1. \A i \in 1..Len(more) : i \in 1..n \/ i = n + 1
        BY <1>1
      <4> QED
        BY <1>1, <1>2, <2>2, <3>1, <4>1 DEF IsLatestTask
    <3>2. CASE \E i \in 1..n :
                 /\ liveCoding.summary = coding[i] /\ liveCoding.summary.speaker = Interviewer
                 /\ \A k \in (i + 1)..n : coding[k].speaker # Interviewer
      <4>1. PICK i \in 1..n :
              /\ liveCoding.summary = coding[i] /\ liveCoding.summary.speaker = Interviewer
              /\ \A k \in (i + 1)..n : coding[k].speaker # Interviewer
        BY <3>2
      <4>2. ASSUME NEW k \in (i + 1)..Len(more)
            PROVE  more[k].speaker # Interviewer
        <5>1. k = n + 1 \/ (k \in (i + 1)..n /\ k \in 1..n)
          BY <1>1
        <5> QED
          BY <1>1, <2>2, <4>1, <5>1
      <4> QED
        BY <1>1, <1>2, <1>5, <2>2, <4>1, <4>2 DEF IsLatestTask
    <3> QED
      BY <1>0, <3>1, <3>2 DEF IsLatestTask, n
  <2> QED
    BY <2>1, <2>2
<1>7. state.context # None => \E i \in 1..Len(more) :
        state.context = more[i] /\ more[i].speaker # Interviewer
  <2>1. liveCoding.context # None => \E i \in 1..n :
          liveCoding.context = coding[i] /\ coding[i].speaker # Interviewer
    BY <1>0 DEF n
  <2> QED
    BY <1>1, <1>2, <1>5, <2>1
<1>8. state.code # None => \E i \in 1..Len(more) : state.code = more[i]
  <2>1. liveCoding.code # None => \E i \in 1..n : liveCoding.code = coding[i]
    BY <1>0 DEF n
  <2> QED
    BY <1>1, <1>2, <1>5, <2>1
<1>9. Parts(state) \subseteq Parts(liveCoding) \cup {r}
  BY <1>2 DEF Parts
<1> QED
  BY <1>3, <1>4, <1>6, <1>7, <1>8, <1>9 DEF Follows

\* What the end of an answer leaves for the next request.
LEMMA AnswerIsOver ==
  ASSUME IInv, pc = "answering", pc' = "select", request' = None, answer' = <<>>,
         UNCHANGED <<asked, showing, requests, commands, forgotten>>,
         Remembered' \subseteq Remembered \cup {request}
  PROVE  QuestionsAreUnique' /\ AnswerIsOwn' /\ ForgottenIsGone'
<1>1. QuestionsAreUnique'
  BY QuestionsRest DEF Seen
<1>2. AnswerIsOwn'
  <2>1. Len(answer') = 0
    OBVIOUS
  <2> QED
    BY <2>1 DEF AnswerIsOwn
<1>3. ForgottenIsGone'
  BY DEF IInv, ForgottenIsGone
<1> QED
  BY <1>1, <1>2, <1>3

\* The answer is recorded, and its turn shows it as a whole.
LEMMA CompleteVoiceStep ==
  ASSUME IInv, CompleteVoice
  PROVE  IInv'
<1>1. /\ UNCHANGED <<asked, showing, requests, askersOpen, commands, liveCoding, outputOpen,
                     snapshot, clears, announcing, forgotten, overtaken>>
      /\ pc = "answering" /\ pc' = "select" /\ request' = None /\ answer' = <<>>
      /\ answer # <<>> /\ full' = Append(full, answer)
      /\ history' = Recorded(history, request)
      /\ completed' = [completed EXCEPT !.Voice = Append(@, request)]
  BY DEF CompleteVoice, HasText, askers, screen, application
<1>2. PICK r \in Request : r = request
  BY <1>1 DEF IInv, Typing, TypeOK, AnswerIsOwn
<1>3. PICK e \in Event : e = [kind |-> "AnswerCompleted", id |-> r]
  BY DEF Event
<1>4. Emit(<<e>>)
  BY <1>2, <1>3 DEF CompleteVoice
<1>5. /\ answer \in Deltas /\ full \in Seq(Deltas) /\ Len(full) \in Nat
      /\ completed \in [Voice : Seq(Request), LiveCoding : Seq(Request)]
  BY LenProperties DEF IInv, Typing
<1>6. output' \in Seq(Event)
  BY <1>4, EmitIs DEF IInv
<1>7. /\ completed' \in [Voice : Seq(Request), LiveCoding : Seq(Request)]
      /\ completed'.Voice = Append(completed.Voice, r)
      /\ completed'.LiveCoding = completed.LiveCoding
  <2>1. Append(completed.Voice, r) \in Seq(Request)
    BY <1>5, AppendProperties
  <2> QED
    BY <1>1, <1>2, <1>5, <2>1
<1>8. /\ history' = Latest(completed'.Voice, MaxPairs)
      /\ history' \in Seq(Request) /\ Len(history') <= MaxPairs
  <2>1. history = Latest(completed.Voice, MaxPairs)
    BY DEF IInv, MemoryFollowsAnswers, HistoryIsRecentAnswers, Latest
  <2>2. completed.Voice \in Seq(Request)
    BY <1>5
  <2> QED
    BY <1>1, <1>2, <1>7, <2>1, <2>2, RecordedIs
<1>9. full' \in Seq(Deltas)
  BY <1>1, <1>5, AppendProperties
<1>10. Typing'
  <2>1. (\A i \in 1..Len(output) : output[i].kind \in Events)'
    BY <1>6, KindsAre
  <2> QED
    BY <1>1, <1>6, <1>7, <1>8, <1>9, <2>1, NoDeltas DEF IInv, Typing, TypeOK
<1>11. Remembered' \subseteq Remembered \cup {request}
  <2>1. history \in Seq(Request)
    BY DEF IInv, Typing, TypeOK
  <2>2. ToSet(history') \subseteq ToSet(history) \cup {r}
    <3> DEFINE kept == IF Len(history) = MaxPairs THEN Tail(history) ELSE history
    <3>1. kept \in Seq(Request) /\ ToSet(kept) \subseteq ToSet(history)
      <4>1. CASE Len(history) = MaxPairs
        <5>1. history # <<>>
          BY <4>1, MaxPairsAssumption
        <5>2. /\ kept \in Seq(Request) /\ Len(kept) = Len(history) - 1
              /\ \A i \in 1..(Len(history) - 1) : kept[i] = history[i + 1]
          BY <2>1, <4>1, <5>1, HeadTailProperties
        <5>3. \A i \in 1..(Len(history) - 1) : i + 1 \in 1..Len(history)
          BY <2>1, LenProperties
        <5>4. DOMAIN kept = 1..(Len(history) - 1) /\ DOMAIN history = 1..Len(history)
          BY <2>1, <5>2, LenProperties
        <5> QED
          BY <5>2, <5>3, <5>4 DEF ToSet
      <4>2. CASE Len(history) # MaxPairs
        BY <2>1, <4>2
      <4> QED
        BY <4>1, <4>2
    <3>2. history' = Append(kept, r)
      BY <1>1, <1>2 DEF Recorded
    <3> HIDE DEF kept
    <3>3. /\ DOMAIN kept = 1..Len(kept) /\ DOMAIN Append(kept, r) = 1..(Len(kept) + 1)
          /\ Len(kept) \in Nat
          /\ \A i \in 1..Len(kept) : Append(kept, r)[i] = kept[i]
          /\ Append(kept, r)[Len(kept) + 1] = r
      BY <3>1, AppendProperties, LenProperties
    <3>4. \A i \in 1..(Len(kept) + 1) : i \in 1..Len(kept) \/ i = Len(kept) + 1
      BY <3>3
    <3> QED
      BY <3>1, <3>2, <3>3, <3>4 DEF ToSet
  <2> QED
    BY <1>1, <1>2, <2>2 DEF Remembered
<1>12. QuestionsAreUnique' /\ AnswerIsOwn' /\ ForgottenIsGone'
  BY <1>1, <1>11, AnswerIsOver
<1>13. MemoryFollowsAnswers'
  <2>1. HistoryIsRecentAnswers'
    BY <1>8 DEF HistoryIsRecentAnswers, Latest
  <2>2. LiveCodingFollowsAnswers'
    BY <1>1, <1>7 DEF IInv, MemoryFollowsAnswers, LiveCodingFollowsAnswers, IsLatestTask
  <2> QED
    BY <2>1, <2>2 DEF MemoryFollowsAnswers
<1>14. ClearIsSeen'
  BY <1>1 DEF IInv, ClearIsSeen
<1>15. ScreensAhead'
  <2>1. ASSUME NEW t \in Snapshot, Settled(t), Whole(t, full)
        PROVE  /\ Screen!Apply(t, e) \in Snapshot /\ Whole(Screen!Apply(t, e), full')
               /\ Settled(Screen!Apply(t, e))'
    <3> DEFINE u == Screen!Apply(t, e)
    <3>1. u = Screen!Complete(t, r)
      BY <1>3, ApplyIs
    <3> HIDE DEF u
    <3>2. t.currentId \in {r, None}
      BY <1>1, <1>2, <2>1 DEF Settled
    <3>3. /\ u \in Snapshot
          /\ u.currentId = t.currentId /\ u.liveCoding = t.liveCoding
          /\ u.llmStatus # "Working" \/ t.currentId = None
          /\ Len(u.conversation) = Len(t.conversation)
          /\ \A i \in 1..Len(t.conversation) :
               /\ u.conversation[i].id = t.conversation[i].id
               /\ u.conversation[i].answer = t.conversation[i].answer
               /\ t.conversation[i].id # t.currentId => u.conversation[i] = t.conversation[i]
               /\ t.conversation[i].id = t.currentId => u.conversation[i].status = "Completed"
      BY <1>1, <1>2, <3>1, <3>2, CompleteIs
    <3>4. Whole(u, full')
      <4>1. Whole(t, full')
        BY <1>1, <1>5, <2>1, WholeStays
      <4>2. /\ Len(full') = Len(full) + 1 /\ full'[Len(full) + 1] = answer
            /\ Len(full) + 1 \in 1..Len(full')
        BY <1>1, <1>5, AppendProperties
      <4>3. answer[1][1] = r
        <5>1. 1 \in 1..Len(answer)
          BY <1>1, <1>5, EmptySeq, LenProperties DEF Deltas
        <5> QED
          BY <1>2, <5>1 DEF IInv, AnswerIsOwn
      <4>4. \A i \in 1..Len(t.conversation) : t.conversation[i].id \in Request
        BY TurnsAre
      <4>5. \A i \in 1..Len(t.conversation) :
              t.conversation[i].id = t.currentId => /\ u.conversation[i].answer = answer
                                                    /\ u.conversation[i].id = r
        BY <1>1, <1>2, <2>1, <3>2, <3>3, <4>4, NoneAssumption DEF Settled, TurnIsSettled
      <4> QED
        BY <3>3, <4>1, <4>2, <4>3, <4>5 DEF Whole
    <3>5. \/ u.liveCoding = liveCoding'
          \/ u.liveCoding = BlankLiveCoding /\ (overtaken' \/ commands' > 0)
      BY <1>1, <2>1, <3>3 DEF Settled
    <3>6. Settled(u)'
      BY <1>1, <2>1, <3>3, <3>5, AnswerEnds
    <3> QED
      BY <3>3, <3>4, <3>6 DEF u
  <2> QED
    BY <1>1, <1>4, <2>1, ScreensFollow
<1> QED
  BY <1>10, <1>12, <1>13, <1>14, <1>15 DEF IInv

\* The new state is shown before the answer is over; no turn is touched, for a
\* live-coding question is none.
LEMMA CompleteLiveCodingStep ==
  ASSUME IInv, CompleteLiveCoding
  PROVE  IInv'
<1>1. /\ UNCHANGED <<asked, showing, requests, askersOpen, commands, history, outputOpen, snapshot,
                     clears, announcing, full, forgotten>>
      /\ pc = "answering" /\ pc' = "select" /\ request' = None /\ answer' = <<>>
      /\ request.mode = "LiveCoding"
      /\ completed' = [completed EXCEPT !.LiveCoding = Append(@, request)]
  BY DEF CompleteLiveCoding, askers, screen, application
<1>2. PICK r \in Request : r = request
  BY <1>1 DEF IInv, Typing, TypeOK, AnswerIsOwn
<1>3. PICK newContext, newCode :
        liveCoding' = Parsed(r, newContext, newCode)
  BY <1>2, Zenon DEF CompleteLiveCoding
<1>4. /\ liveCoding \in LiveCodingState
      /\ completed \in [Voice : Seq(Request), LiveCoding : Seq(Request)]
      /\ completed.LiveCoding \in Seq(Request)
  BY DEF IInv, Typing, TypeOK
<1>5. PICK more : more = Append(completed.LiveCoding, r)
  OBVIOUS
<1>6. /\ more \in Seq(Request)
      /\ completed' \in [Voice : Seq(Request), LiveCoding : Seq(Request)]
      /\ completed'.LiveCoding = more /\ completed'.Voice = completed.Voice
  <2>1. more \in Seq(Request)
    BY <1>4, <1>5, AppendProperties
  <2> QED
    BY <1>1, <1>2, <1>4, <1>5, <2>1
<1>7. /\ liveCoding' \in LiveCodingState /\ Follows(liveCoding', more)
      /\ Parts(liveCoding') \subseteq Parts(liveCoding) \cup {r}
  <2> PICK coding : coding = completed.LiveCoding
    OBVIOUS
  <2>1. Follows(liveCoding, coding)
    BY DEF IInv, MemoryFollowsAnswers, LiveCodingFollowsAnswers, Follows
  <2>2. coding \in Seq(Request) /\ more = Append(coding, r)
    BY <1>4, <1>5
  <2>3. PICK state : state = Parsed(r, newContext, newCode)
    OBVIOUS
  <2>4. liveCoding \in LiveCodingState
    BY <1>4
  <2>5. /\ state \in LiveCodingState /\ Follows(state, more)
        /\ Parts(state) \subseteq Parts(liveCoding) \cup {r}
    BY <2>1, <2>2, <2>3, <2>4, ParsedIs
  <2> QED
    BY <1>3, <2>3, <2>5
<1>8. PICK state \in LiveCodingState : state = liveCoding'
  BY <1>7
<1>9. PICK e \in Event : e = [kind |-> "LiveCodingUpdated", state |-> state]
  BY DEF Event
<1>10. PICK f \in Event : f = [kind |-> "AnswerCompleted", id |-> r]
  BY DEF Event
<1>11. Emit(<<e, f>>)
  BY <1>2, <1>8, <1>9, <1>10 DEF CompleteLiveCoding
<1>12. output' \in Seq(Event)
  BY <1>11, EmitTwoIs DEF IInv
<1>13. overtaken' = (overtaken \/ announcing)
  BY DEF CompleteLiveCoding
<1>14. overtaken' \in BOOLEAN
  <2>1. overtaken \in BOOLEAN /\ announcing \in BOOLEAN
    BY DEF IInv, Typing
  <2> QED
    BY Zenon, <1>13, <2>1
<1>15. Typing'
  <2>1. (\A i \in 1..Len(output) : output[i].kind \in Events)'
    BY <1>12, KindsAre
  <2> QED
    BY <1>1, <1>6, <1>7, <1>12, <1>14, <2>1, NoDeltas DEF IInv, Typing, TypeOK
<1>16. Remembered' \subseteq Remembered \cup {request}
  BY <1>1, <1>2, <1>7 DEF Remembered, Parts
<1>17. QuestionsAreUnique' /\ AnswerIsOwn' /\ ForgottenIsGone'
  BY <1>1, <1>16, AnswerIsOver
<1>18. MemoryFollowsAnswers'
  <2>1. HistoryIsRecentAnswers'
    BY <1>1, <1>6 DEF IInv, MemoryFollowsAnswers, HistoryIsRecentAnswers
  <2>2. LiveCodingFollowsAnswers'
    BY <1>6, <1>7 DEF LiveCodingFollowsAnswers, Follows, IsLatestTask
  <2> QED
    BY <2>1, <2>2 DEF MemoryFollowsAnswers
<1>19. ClearIsSeen'
  BY <1>1, <1>13 DEF ClearIsSeen
<1>20. ScreensAhead'
  <2>1. ASSUME NEW t \in Snapshot, Settled(t), Whole(t, full)
        PROVE  /\ Screen!Apply(t, e) \in Snapshot /\ Whole(Screen!Apply(t, e), full)
               /\ Screen!Apply(Screen!Apply(t, e), f) \in Snapshot
               /\ Whole(Screen!Apply(Screen!Apply(t, e), f), full)
               /\ Settled(Screen!Apply(Screen!Apply(t, e), f))'
    <3> DEFINE v == Screen!Apply(t, e)
               u == Screen!Apply(v, f)
    <3>1. v = [t EXCEPT !.liveCoding = state]
      BY <1>9, ApplyIs
    <3>2. u = Screen!Complete(v, r)
      BY <1>10, ApplyIs
    <3> HIDE DEF u, v
    <3>3. /\ v \in Snapshot /\ v.llmStatus = t.llmStatus /\ v.currentId = t.currentId
          /\ v.liveCoding = state /\ v.conversation = t.conversation
      BY <3>1, UpdateLiveCodingIs
    <3>4. Whole(v, full)
      BY <2>1, <3>3 DEF Whole
    <3>5. v.currentId \in {r, None}
      BY <1>1, <1>2, <2>1, <3>3 DEF Settled
    <3>6. /\ u \in Snapshot
          /\ u.currentId = v.currentId /\ u.liveCoding = v.liveCoding
          /\ u.llmStatus # "Working" \/ v.currentId = None
          /\ Len(u.conversation) = Len(v.conversation)
          /\ \A i \in 1..Len(v.conversation) :
               /\ u.conversation[i].id = v.conversation[i].id
               /\ v.conversation[i].id # v.currentId => u.conversation[i] = v.conversation[i]
               /\ v.conversation[i].id = v.currentId => u.conversation[i].status = "Completed"
      BY <1>1, <1>2, <3>2, <3>3, <3>5, CompleteIs
    <3>7. \A i \in 1..Len(v.conversation) : u.conversation[i] = v.conversation[i]
      <4>1. \A i \in 1..Len(v.conversation) : v.conversation[i].id \in Request
        BY <3>3, TurnsAre
      <4>2. \A i \in 1..Len(v.conversation) : v.conversation[i].id # r
        BY <1>1, <1>2, <2>1, <3>3 DEF Settled, TurnIsSettled
      <4> QED
        BY <3>5, <3>6, <4>1, <4>2, NoneAssumption
    <3>8. Whole(u, full)
      BY <3>4, <3>6, <3>7 DEF Whole
    <3>9. Settled(u)'
      BY <1>1, <1>8, <2>1, <3>3, <3>6, AnswerEnds
    <3> QED
      BY <3>3, <3>4, <3>6, <3>8, <3>9 DEF u, v
  <2> QED
    BY <1>1, <1>11, <2>1, ScreensFollowTwo
<1> QED
  BY <1>15, <1>17, <1>18, <1>19, <1>20 DEF IInv

\* The turn of the answer, or whichever is the current one, fails.
LEMMA AnswerFailsStep ==
  ASSUME IInv, AnswerFails
  PROVE  IInv'
<1>1. PICK e \in Event : e = [kind |-> "LlmError"]
  BY DEF Event
<1>2. /\ UNCHANGED <<asked, showing, requests, askersOpen, commands, history, liveCoding,
                     outputOpen, snapshot, clears, announcing, completed, full, forgotten,
                     overtaken>>
      /\ Emit(<<e>>) /\ pc = "answering" /\ pc' = "select" /\ request' = None /\ answer' = <<>>
  BY <1>1 DEF AnswerFails, askers, screen, application, ghosts
<1>3. output' \in Seq(Event)
  BY <1>2, EmitIs DEF IInv
<1>4. Typing'
  <2>1. (\A i \in 1..Len(output) : output[i].kind \in Events)'
    BY <1>3, KindsAre
  <2> QED
    BY <1>2, <1>3, <2>1, NoDeltas DEF IInv, Typing, TypeOK
<1>5. QuestionsAreUnique' /\ AnswerIsOwn' /\ ForgottenIsGone'
  BY <1>2, AnswerIsOver DEF Remembered
<1>6. MemoryFollowsAnswers'
  BY <1>2, MemoryRests
<1>7. ClearIsSeen'
  BY <1>2 DEF IInv, ClearIsSeen
<1>8. ScreensAhead'
  <2>1. ASSUME NEW t \in Snapshot, Settled(t), Whole(t, full)
        PROVE  /\ Screen!Apply(t, e) \in Snapshot /\ Whole(Screen!Apply(t, e), full')
               /\ Settled(Screen!Apply(t, e))'
    <3> DEFINE u == Screen!Apply(t, e)
    <3>1. u = Screen!Fail(t)
      BY <1>1, ApplyIs
    <3> HIDE DEF u
    <3>2. u = Concluded(t, "Failed", "Error")
      BY <3>1 DEF Screen!Fail, Screen!Update, Concluded
    <3>3. /\ u \in Snapshot
          /\ u.llmStatus = "Error" /\ u.currentId = t.currentId /\ u.liveCoding = t.liveCoding
          /\ Len(u.conversation) = Len(t.conversation)
          /\ \A i \in 1..Len(t.conversation) :
               /\ u.conversation[i].id = t.conversation[i].id
               /\ t.conversation[i].id # t.currentId => u.conversation[i] = t.conversation[i]
               /\ t.conversation[i].id = t.currentId => u.conversation[i].status = "Failed"
      BY <3>2, StatusIs
    <3>4. Whole(u, full')
      <4>1. \A i \in 1..Len(t.conversation) :
              u.conversation[i].status = "Completed" => u.conversation[i] = t.conversation[i]
        BY <3>3
      <4> QED
        BY <1>2, <2>1, <3>3, <4>1 DEF Whole
    <3>5. \/ u.liveCoding = liveCoding'
          \/ u.liveCoding = BlankLiveCoding /\ (overtaken' \/ commands' > 0)
      BY <1>2, <2>1, <3>3 DEF Settled
    <3>6. Settled(u)'
      BY <1>2, <2>1, <3>3, <3>5, AnswerEnds
    <3> QED
      BY <3>3, <3>4, <3>6 DEF u
  <2> QED
    BY <1>2, <2>1, ScreensFollow
<1> QED
  BY <1>4, <1>5, <1>6, <1>7, <1>8 DEF IInv

\* The worker only looks: nothing but pc and known changes.
LEMMA PollStep ==
  ASSUME IInv, PollCommands \/ PollPending
  PROVE  IInv'
<1>1. /\ UNCHANGED <<asked, showing, requests, askersOpen, commands, request, answer, history,
                     liveCoding, output, outputOpen, snapshot, clears, announcing, completed,
                     full, forgotten, overtaken>>
      /\ pc \in {"select", "polled"} /\ pc' \in {"select", "polled"}
  BY DEF PollCommands, PollPending, askers, screen, application, ghosts
<1>2. Typing'
  BY <1>1 DEF IInv, Typing, TypeOK
<1>3. QuestionsAreUnique'
  BY <1>1, QuestionsRest DEF Seen, Remembered
<1>4. MemoryFollowsAnswers'
  BY <1>1, MemoryRests
<1>5. AnswerIsOwn' /\ ForgottenIsGone' /\ ClearIsSeen'
  BY <1>1 DEF IInv, AnswerIsOwn, ForgottenIsGone, ClearIsSeen, Remembered
<1>6. ScreensAhead'
  BY <1>1, ScreensRest DEF Settled, TurnIsSettled, Known
<1> QED
  BY <1>2, <1>3, <1>4, <1>5, <1>6 DEF IInv

LEMMA RequestsEndStep ==
  ASSUME IInv, RequestsEnd
  PROVE  IInv'
<1>1. /\ UNCHANGED <<asked, showing, requests, askersOpen, commands, request, answer, history,
                     liveCoding, output, outputOpen, snapshot, clears, announcing, completed,
                     full, forgotten, overtaken>>
      /\ pc = "polled" /\ pc' = "done"
  BY DEF RequestsEnd, askers, screen, application, ghosts
<1>2. Typing'
  BY <1>1 DEF IInv, Typing, TypeOK
<1>3. QuestionsAreUnique'
  BY <1>1, QuestionsRest DEF Seen, Remembered
<1>4. MemoryFollowsAnswers'
  BY <1>1, MemoryRests
<1>5. AnswerIsOwn' /\ ForgottenIsGone' /\ ClearIsSeen'
  BY <1>1 DEF IInv, AnswerIsOwn, ForgottenIsGone, ClearIsSeen, Remembered
<1>6. ScreensAhead'
  BY <1>1, ScreensRest DEF Settled, TurnIsSettled, Known
<1> QED
  BY <1>2, <1>3, <1>4, <1>5, <1>6 DEF IInv

\* The worker has nobody to show its answers to; the request it has stays its own.
LEMMA EmitFailsStep ==
  ASSUME IInv, EmitFails
  PROVE  IInv'
<1>1. /\ UNCHANGED <<asked, showing, askersOpen, commands, request, answer, history,
                     liveCoding, output, outputOpen, snapshot, clears, announcing, completed,
                     full, forgotten, overtaken>>
      /\ ~outputOpen /\ pc' = "failed" /\ requests' = <<>>
  BY DEF EmitFails, askers, screen, application, ghosts
<1>2. Typing'
  BY <1>1, EmptySeq DEF IInv, Typing, TypeOK
<1>3. QuestionsAreUnique'
  <2>1. Len(requests') = 0
    BY <1>1
  <2>2. UNCHANGED Seen
    BY <1>1 DEF Seen, Remembered
  <2> QED
    BY <1>1, <2>1, <2>2 DEF IInv, QuestionsAreUnique, Known
<1>4. MemoryFollowsAnswers'
  BY <1>1, MemoryRests
<1>5. AnswerIsOwn' /\ ForgottenIsGone' /\ ClearIsSeen'
  BY <1>1 DEF IInv, AnswerIsOwn, ForgottenIsGone, ClearIsSeen, Remembered
<1>6. ScreensAhead'
  BY <1>1 DEF IInv, ScreensAhead
<1> QED
  BY <1>2, <1>3, <1>4, <1>5, <1>6 DEF IInv

-----------------------------------------------------------------------------
(* The sink *)

\* What a step of the sink leaves alone.
LEMMA SinkSteps ==
  ASSUME IInv,
         UNCHANGED <<asked, showing, requests, askersOpen, commands, pc, request, answer, history,
                     liveCoding, clears, announcing, completed, full, forgotten, overtaken>>,
         outputOpen' \in BOOLEAN, output' \in Seq(Event), snapshot' \in Snapshot, ScreensAhead'
  PROVE  IInv'
<1>1. Typing'
  <2>1. (\A i \in 1..Len(output) : output[i].kind \in Events)'
    BY KindsAre
  <2>2. snapshot'.liveCoding \in LiveCodingState /\ snapshot'.currentId \in Request \cup {None}
    BY DEF Snapshot
  <2> QED
    BY <2>1, <2>2 DEF IInv, Typing, TypeOK
<1>2. QuestionsAreUnique'
  BY QuestionsRest DEF Seen, Remembered
<1>3. AnswerIsOwn' /\ MemoryFollowsAnswers' /\ ForgottenIsGone' /\ ClearIsSeen'
  BY WorkerRests, ClearsRest
<1> QED
  BY <1>1, <1>2, <1>3 DEF IInv

\* The next of the screens ahead is shown.
LEMMA ShowEventStep ==
  ASSUME IInv, ShowEvent
  PROVE  IInv'
<1>1. /\ UNCHANGED <<asked, showing, requests, askersOpen, commands, pc, request, answer, history,
                     liveCoding, outputOpen, clears, announcing, completed, full, forgotten,
                     overtaken>>
      /\ outputOpen /\ output # <<>> /\ output' = Tail(output)
      /\ snapshot' = Screen!Apply(snapshot, Head(output))
  BY DEF ShowEvent, askers, application, ghosts
<1>2. PICK s \in Snapshot : Leads(snapshot, output, full, s) /\ Settled(s)
  BY <1>1 DEF IInv, ScreensAhead
<1>3. PICK events \in Seq(Event) : events = output
  BY DEF IInv, Typing
<1>4. /\ Leads(Screen!Apply(snapshot, Head(events)), Tail(events), full, s)
      /\ Screen!Apply(snapshot, Head(events)) \in Snapshot
  BY <1>1, <1>2, <1>3, LeadsFromNext
<1>5. snapshot' \in Snapshot /\ Leads(snapshot', output', full', s)
  BY <1>1, <1>3, <1>4
<1>6. output' \in Seq(Event)
  BY <1>1, <1>3, HeadTailProperties
<1>7. Settled(s)'
  BY <1>1, <1>2 DEF Settled, TurnIsSettled, Known
<1>8. ScreensAhead'
  BY <1>1, <1>5, <1>7 DEF ScreensAhead
<1>9. outputOpen' \in BOOLEAN
  BY Zenon, <1>1 DEF IInv, Typing, TypeOK
<1> QED
  BY <1>1, <1>5, <1>6, <1>8, <1>9, SinkSteps

\* The screen stays as it is; its turns are whole.
LEMMA SinkEndsStep ==
  ASSUME IInv, SinkEnds
  PROVE  IInv'
<1>1. /\ UNCHANGED <<asked, showing, requests, askersOpen, commands, pc, request, answer, history,
                     liveCoding, snapshot, clears, announcing, completed, full, forgotten,
                     overtaken>>
      /\ outputOpen /\ output' = <<>>
  BY DEF SinkEnds, askers, screen, application, ghosts
<1>2. outputOpen' = FALSE
  BY DEF SinkEnds
<1>3. outputOpen' \in BOOLEAN
  BY Zenon, <1>2
<1>4. output \in Seq(Event) /\ snapshot \in Snapshot
  BY DEF IInv, Typing
<1>5. Whole(snapshot, full)
  BY <1>1, <1>4, LeadsFromTo DEF IInv, ScreensAhead
<1>6. ScreensAhead'
  BY <1>1, <1>2, <1>5 DEF ScreensAhead
<1> QED
  BY <1>1, <1>3, <1>4, <1>6, EmptySeq, SinkSteps

-----------------------------------------------------------------------------
(* The invariant *)

LEMMA InitIInv ==
  ASSUME Init
  PROVE  IInv
<1>1. /\ asked = [s \in Speakers |-> 0] /\ showing = [s \in Speakers |-> None]
      /\ requests = <<>> /\ commands = 0 /\ pc = "select" /\ request = None /\ answer = <<>>
      /\ history = <<>> /\ liveCoding = BlankLiveCoding /\ output = <<>>
      /\ snapshot = Screen!EmptySnapshot /\ clears = 0 /\ completed = NoneCompleted
      /\ full = <<>> /\ forgotten = {}
  BY DEF Init
<1>2. Len(<<>>) = 0
  OBVIOUS
<1>3. Typing
  <2>1. askersOpen \in BOOLEAN /\ outputOpen \in BOOLEAN
        /\ announcing \in BOOLEAN /\ overtaken \in BOOLEAN
    BY Zenon DEF Init
  <2>2. asked \in [Speakers -> 0..MaxQuestions] /\ clears \in 0..MaxClears
    BY <1>1, BoundsAssumption
  <2>3. showing \in [Speakers -> Request \cup {None}]
    BY <1>1
  <2>4. requests \in Seq(Request) /\ history \in Seq(Request) /\ Len(history) <= MaxPairs
    BY <1>1, <1>2, EmptySeq, MaxPairsAssumption
  <2>5. completed \in [Voice : Seq(Request), LiveCoding : Seq(Request)]
    BY <1>1, EmptySeq DEF NoneCompleted
  <2>6. snapshot \in Snapshot /\ snapshot.liveCoding \in LiveCodingState
        /\ snapshot.currentId \in Request \cup {None}
    BY <1>1, EmptySnapshotIs, BlankIsState
  <2>7. output \in Seq(Event) /\ full \in Seq(Deltas) /\ answer \in Deltas
    BY <1>1, EmptySeq, NoDeltas
  <2>8. \A i \in 1..Len(output) : output[i].kind \in Events
    BY <1>1, <1>2
  <2> QED
    BY <1>1, <2>1, <2>2, <2>3, <2>4, <2>5, <2>6, <2>7, <2>8, BlankIsState DEF Typing, TypeOK
<1>4. Remembered = {None}
  BY <1>1 DEF Remembered, BlankLiveCoding, ToSet
<1>5. QuestionsAreUnique
  <2>1. Seen = {}
    BY <1>1, <1>4 DEF Seen
  <2> QED
    BY <1>1, <1>2, <2>1 DEF QuestionsAreUnique
<1>6. AnswerIsOwn
  BY <1>1, <1>2 DEF AnswerIsOwn
<1>7. MemoryFollowsAnswers
  <2>1. completed.Voice = <<>> /\ completed.LiveCoding = <<>>
    BY <1>1 DEF NoneCompleted
  <2>2. HistoryIsRecentAnswers
    <3>1. SubSeq(<<>>, 1, 0) = <<>>
      OBVIOUS
    <3> QED
      BY <1>1, <1>2, <2>1, <3>1, MaxPairsAssumption DEF HistoryIsRecentAnswers
  <2>3. LiveCodingFollowsAnswers
    BY <1>1, <1>2, <2>1 DEF LiveCodingFollowsAnswers, IsLatestTask, BlankLiveCoding
  <2> QED
    BY <2>2, <2>3 DEF MemoryFollowsAnswers
<1>8. ForgottenIsGone /\ ClearIsSeen
  BY <1>1 DEF ForgottenIsGone, ClearIsSeen
<1>9. ScreensAhead
  <2>1. \A i \in 1..Len(snapshot.conversation) : FALSE
    BY <1>1, <1>2, EmptySnapshotIs
  <2>2. snapshot \in Snapshot /\ Whole(snapshot, full)
    BY <1>1, <2>1, EmptySnapshotIs DEF Whole
  <2>3. Settled(snapshot)
    BY <1>1, <2>1, EmptySnapshotIs DEF Settled
  <2>4. Leads(snapshot, output, full, snapshot)
    BY <1>1, <2>2, LeadsNowhere
  <2>5. outputOpen
    BY DEF Init
  <2> QED
    BY <2>2, <2>3, <2>4, <2>5 DEF ScreensAhead
<1> QED
  BY <1>3, <1>5, <1>6, <1>7, <1>8, <1>9 DEF IInv

LEMMA NextIInv ==
  ASSUME IInv, [Next]_vars
  PROVE  IInv'
<1>1. CASE \E s \in Speakers : \E mode \in Modes : Ask(s, mode)
  BY <1>1, AskStep
<1>2. CASE \E s \in Speakers : Queue(s)
  BY <1>2, QueueStep
<1>3. CASE AskersEnd \/ UNCHANGED vars
  BY <1>3, AskersEndStep
<1>4. CASE ClearHistory
  BY <1>4, ClearHistoryStep
<1>5. CASE AnnounceCleared
  BY <1>5, AnnounceClearedStep
<1>6. CASE TakeCommand
  BY <1>6, TakeCommandStep
<1>7. CASE TakeRequest
  BY <1>7, TakeRequestStep
<1>8. CASE Delta
  BY <1>8, DeltaStep
<1>9. CASE CompleteVoice
  BY <1>9, CompleteVoiceStep
<1>10. CASE CompleteLiveCoding
  BY <1>10, CompleteLiveCodingStep
<1>11. CASE AnswerFails
  BY <1>11, AnswerFailsStep
<1>12. CASE RequestsEnd
  BY <1>12, RequestsEndStep
<1>13. CASE EmitFails
  BY <1>13, EmitFailsStep
<1>14. CASE ShowEvent
  BY <1>14, ShowEventStep
<1>15. CASE SinkEnds
  BY <1>15, SinkEndsStep
<1>16. CASE Stopped
  BY <1>16, AskersEndStep DEF Stopped
<1>17. CASE PollCommands \/ PollPending
  BY <1>17, PollStep
<1> QED
  BY <1>1, <1>2, <1>3, <1>4, <1>5, <1>6, <1>7, <1>8, <1>9, <1>10, <1>11, <1>12, <1>13,
     <1>14, <1>15, <1>16, <1>17 DEF Next

LEMMA Invariance == Spec => []IInv
BY InitIInv, NextIInv, PTL DEF Spec

\* The type invariant: the history never exceeds max_pairs, and what the sink
\* shows is a snapshot with a live-coding state of its own.
THEOREM TypeCorrect == Spec => []TypeOK
<1>1. IInv => TypeOK
  BY DEF IInv, Typing
<1> QED
  BY <1>1, Invariance, PTL

\* The history the next voice request is asked with is of the last max_pairs
\* answers, and the live-coding state is what its answers made of it, however
\* many were asked, failed or forgotten (ChatHistory, LiveCodingState).
THEOREM MemoryFollows == Spec => []MemoryFollowsAnswers
<1>1. IInv => MemoryFollowsAnswers
  BY DEF IInv
<1> QED
  BY <1>1, Invariance, PTL

\* What is shown is what the worker did, as soon as what it sent has arrived:
\* completed turns have their whole answer, and behind an idle worker nothing
\* is left open (AppSnapshot::apply).
THEOREM ScreenFollows == Spec => []ScreenFollowsWorker
<1>1. IInv => ScreenFollowsWorker
  <2> SUFFICES ASSUME IInv
               PROVE  CompletedTurnsAreWhole /\ IdleScreenIsSettled
    BY DEF ScreenFollowsWorker
  <2>1. output \in Seq(Event)
    BY DEF IInv, Typing
  <2>2. Whole(snapshot, full)
    BY <2>1, LeadsFromTo DEF IInv, ScreensAhead
  <2>3. CompletedTurnsAreWhole
    BY <2>2 DEF CompletedTurnsAreWhole, Whole
  <2>4. IdleScreenIsSettled
    <3> SUFFICES ASSUME Caught
                 PROVE  /\ Settled(snapshot) /\ pc \in {"select", "polled"} /\ commands = 0
      BY DEF IdleScreenIsSettled, Settled, TurnIsSettled
    <3>1. PICK s \in Snapshot : Leads(snapshot, output, full, s) /\ Settled(s)
      BY DEF Caught, IInv, ScreensAhead
    <3>2. s = snapshot
      BY <2>1, <3>1, LeadsFromTo DEF Caught
    <3> QED
      BY <3>1, <3>2 DEF Caught, Selecting
  <2> QED
    BY <2>3, <2>4
<1> QED
  BY <1>1, Invariance, PTL

\* While the worker polls its requests it remembers nothing of what had been cleared
\* when it found no command.
KnownIsGone == pc = "polled" => Remembered \cap known = {}

LEMMA InitKnown ==
  ASSUME Init
  PROVE  KnownIsGone
BY DEF Init, KnownIsGone

LEMMA NextKnown ==
  ASSUME IInv, KnownIsGone, [Next]_vars
  PROVE  KnownIsGone'
<1>1. CASE PollCommands
  <2>1. Remembered \cap forgotten = {}
    BY <1>1 DEF PollCommands, IInv, ForgottenIsGone
  <2> QED
    BY <1>1, <2>1 DEF PollCommands, KnownIsGone, Remembered
<1>2. CASE ~PollCommands
  <2> SUFFICES ASSUME pc' = "polled"
               PROVE  Remembered' \cap known' = {}
    BY DEF KnownIsGone
  <2>1. UNCHANGED <<pc, history, liveCoding, known>>
    BY <1>2 DEF Next, Ask, Queue, AskersEnd, ClearHistory, AnnounceCleared, TakeCommand,
                PollPending, TakeRequest, Delta, CompleteVoice, CompleteLiveCoding, AnswerFails,
                RequestsEnd, EmitFails, ShowEvent, SinkEnds, Stopped, vars, ghosts
  <2> QED
    BY <2>1 DEF KnownIsGone, Remembered
<1> QED
  BY <1>1, <1>2

LEMMA KnownInvariance == Spec => []KnownIsGone
<1>1. Spec => []IInv
  BY Invariance
<1> QED
  BY <1>1, InitKnown, NextKnown, PTL DEF Spec

\* A clear sent before the worker last looked at its commands is obeyed by the next
\* request, although the worker learns of it only between two requests and may be
\* overtaken by one between its two polls (the biased select! of LlmWorker::run).
THEOREM ClearedIsNotAsked == Spec => ClearedHistoryIsNotAsked
<1>1. KnownIsGone /\ [Next]_vars => [(pc # "answering" /\ pc' = "answering") =>
                                      Remembered \cap known = {}]_vars
  <2> SUFFICES ASSUME KnownIsGone, Next, pc # "answering", pc' = "answering"
               PROVE  Remembered \cap known = {}
    OBVIOUS
  <2>1. TakeRequest
    BY DEF Next, Ask, Queue, AskersEnd, ClearHistory, AnnounceCleared, TakeCommand, PollCommands,
           PollPending, Delta, CompleteVoice, CompleteLiveCoding, AnswerFails, RequestsEnd,
           EmitFails, ShowEvent, SinkEnds, Stopped, vars
  <2> QED
    BY <2>1 DEF TakeRequest, KnownIsGone
<1> QED
  BY <1>1, KnownInvariance, PTL DEF Spec, ClearedHistoryIsNotAsked
=============================================================================
