----------------------------- MODULE LlmWorker -----------------------------
(***************************************************************************)
(* The LLM worker of llm/worker.rs with its conversation histories and its *)
(* live-coding state, between the transcript workers that ask, the         *)
(* application that clears the history, and the sink that shows what the   *)
(* output channel brings.                                                  *)
(*                                                                         *)
(* The worker answers one request at a time and looks at its commands only *)
(* between two requests; its select! is biased: it polls the commands, and *)
(* then the requests, and somebody may send between the two polls.  A      *)
(* question is shown by its transcript worker some time before its request *)
(* is in the queue, and the application announces a cleared history        *)
(* without waiting for the worker, so the output channel mixes what the    *)
(* three of them send.                                                     *)
(***************************************************************************)
EXTENDS Integers, Sequences, FiniteSets, SequencesExt

CONSTANTS
  Speakers,     \* the speakers, Interviewer among them
  Interviewer,
  Modes,        \* a subset of {"Voice", "LiveCoding"}: those the instance asks in
  None,         \* no request, nothing written yet
  MaxPairs,     \* MAX_HISTORY_PAIRS, validated positive by config.rs
  Newline,      \* the character that ends a line of code
  Code,         \* Code[r]: the code that an answer to request r writes
  Codes,        \* bound: the codes the diff is checked with
  MaxQuestions, \* bound: questions of all speakers
  MaxDeltas,    \* bound: deltas of an answer
  MaxClears,    \* bound: ClearHistory commands
  MaxInFlight   \* bound: events waiting in the output channel

ASSUME SpeakersAssumption == Interviewer \in Speakers
ASSUME ModesAssumption == Modes \subseteq {"Voice", "LiveCoding"}
ASSUME MaxPairsAssumption == MaxPairs \in Nat \ {0}
ASSUME BoundsAssumption ==
  MaxQuestions \in Nat /\ MaxDeltas \in Nat /\ MaxClears \in Nat /\ MaxInFlight \in Nat

VARIABLES
  asked,      \* asked[s]: questions of speaker s shown so far
  showing,    \* showing[s]: the question s has shown and not yet queued, or None
  requests,   \* the LLM request queue
  askersOpen, \* the transcript workers still hold the request sender
  commands,   \* ClearHistory commands the worker has not seen
  pc,         \* "select", "polled" (there was no command), "answering", "done" or "failed"
  request,    \* the request being answered
  answer,     \* full_text so far
  history,    \* the voice history: pairs, by request
  liveCoding, \* LiveCodingState
  output,     \* the output channel
  outputOpen, \* the sink still receives
  snapshot,   \* what the sink shows
  view,       \* the code in the text buffer of the overlay
  clears,     \* ClearHistory commands sent so far
  announcing, \* the application has yet to announce a command it sent
  completed,  \* history: requests completed since the worker last cleared, by mode
  full,       \* history: full[r] is the answer request r was completed with
  forgotten,  \* history: requests whose answers were in a history, or being given, when
              \* the application cleared the history
  known,      \* history: what was forgotten when the worker last found no command
  overtaken   \* history: a live-coding answer was completed before a clear was announced

askers == <<asked, showing, askersOpen>>
screen == <<snapshot, view>>
application == <<clears, announcing>>
ghosts == <<completed, full, forgotten, known, overtaken>>
vars == <<askers, requests, commands, pc, request, answer, history, liveCoding, output,
          outputOpen, screen, application, ghosts>>

Request == [speaker : Speakers, number : 1..MaxQuestions, mode : Modes]

ASSUME NoneAssumption == None \notin Request

NoneCompleted == [Voice |-> <<>>, LiveCoding |-> <<>>]

Diff == INSTANCE LiveCodingDiff

\* What is tracked of a LiveCodingState: its revision, for each part the request
\* whose answer wrote it, and what the code was before the latest answer.
BlankLiveCoding ==
  [revision |-> 0, summary |-> None, context |-> None, code |-> None, before |-> None]

\* The code of a state, by the request that wrote it.
Written(r) == IF r = None THEN <<>> ELSE Code[r]

TextOf(r) == Diff!Text(Written(r))

\* changed_line_numbers and code_edits of any two codes that can come to follow.
Changes ==
  {[old   |-> old,
    new   |-> new,
    lines |-> Diff!ChangedLines(Written(old), Written(new)),
    edits |-> Diff!CodeEdits(Written(old), Written(new))] : old, new \in Request \cup {None}}

\* Those of a state.
Change(state) == CHOOSE c \in Changes : c.old = state.before /\ c.new = state.code

\* The requests whose answers the next request is asked with.
Remembered == ToSet(history) \cup {liveCoding.summary, liveCoding.context, liveCoding.code}

Screen == INSTANCE AppSnapshot WITH Blank <- BlankLiveCoding

Init ==
  /\ asked = [s \in Speakers |-> 0]
  /\ showing = [s \in Speakers |-> None]
  /\ requests = <<>>
  /\ askersOpen = TRUE
  /\ commands = 0
  /\ pc = "select"
  /\ request = None
  /\ answer = <<>>
  /\ history = <<>>
  /\ liveCoding = BlankLiveCoding
  /\ output = <<>>
  /\ outputOpen = TRUE
  /\ snapshot = Screen!EmptySnapshot
  /\ view = Diff!EmptyView
  /\ clears = 0
  /\ announcing = FALSE
  /\ completed = NoneCompleted
  /\ full = <<>>
  /\ forgotten = {}
  /\ known = {}
  /\ overtaken = FALSE

\* The worker is between two requests.
Selecting == pc \in {"select", "polled"}

\* Sending fails once the sink is gone.
Emit(events) ==
  /\ outputOpen
  /\ Len(output) + Len(events) <= MaxInFlight
  /\ output' = output \o events

-----------------------------------------------------------------------------
(* The transcript workers and the application *)

\* The question is shown; only a voice question becomes a turn.
Ask(s, mode) ==
  LET r == [speaker |-> s, number |-> asked[s] + 1, mode |-> mode]
  IN  /\ askersOpen
      /\ showing[s] = None
      /\ r \in Request /\ FoldFunction(+, 0, asked) < MaxQuestions
      /\ asked' = [asked EXCEPT ![s] = @ + 1]
      /\ showing' = [showing EXCEPT ![s] = r]
      /\ Emit(IF mode = "Voice" THEN <<[kind |-> "Transcript", id |-> r]>> ELSE <<>>)
      /\ UNCHANGED <<requests, askersOpen, commands, pc, request, answer, history,
                     liveCoding, outputOpen, screen, application, ghosts>>

\* The retrieval is over, and the request finds a place in the queue.
Queue(s) ==
  /\ showing[s] # None
  /\ Selecting \/ pc = "answering"
  /\ requests' = Append(requests, showing[s])
  /\ showing' = [showing EXCEPT ![s] = None]
  /\ UNCHANGED <<asked, askersOpen, commands, pc, request, answer, history, liveCoding,
                 output, outputOpen, screen, application, ghosts>>

AskersEnd ==
  /\ askersOpen
  /\ \A s \in Speakers : showing[s] = None
  /\ askersOpen' = FALSE
  /\ UNCHANGED <<asked, showing, requests, commands, pc, request, answer, history,
                 liveCoding, output, outputOpen, screen, application, ghosts>>

\* AppCommand::ClearHistory: first the command,
ClearHistory ==
  /\ clears < MaxClears
  /\ ~announcing
  /\ clears' = clears + 1
  /\ Selecting \/ pc = "answering"
  /\ outputOpen
  /\ commands' = commands + 1
  /\ announcing' = TRUE
  /\ forgotten' = forgotten \cup ((Remembered \cup {request}) \ {None})
  /\ UNCHANGED <<askers, requests, pc, request, answer, history, liveCoding, output,
                 outputOpen, screen, completed, full, known, overtaken>>

\* then the status; the worker may be quicker.
AnnounceCleared ==
  /\ announcing
  /\ announcing' = FALSE
  /\ Emit(<<[kind |-> "HistoryCleared"]>>)
  /\ UNCHANGED <<askers, requests, commands, pc, request, answer, history, liveCoding,
                 outputOpen, screen, clears, ghosts>>

-----------------------------------------------------------------------------
(* The worker *)

Cleared == BlankLiveCoding

TakeCommand ==
  /\ pc = "select"
  /\ commands > 0
  /\ commands' = commands - 1
  /\ history' = <<>>
  /\ liveCoding' = Cleared
  /\ Emit(<<[kind |-> "LiveCodingUpdated", state |-> BlankLiveCoding]>>)
  /\ completed' = NoneCompleted
  /\ UNCHANGED <<askers, requests, pc, request, answer, outputOpen, screen, application,
                 full, forgotten, known, overtaken>>

\* Faulty: the select! is not biased.
FaultyPollCommands ==
  /\ pc = "select"
  /\ pc' = "polled"
  /\ known' = forgotten
  /\ UNCHANGED <<askers, requests, commands, request, answer, history, liveCoding, output,
                 outputOpen, screen, application, completed, full, forgotten, overtaken>>

\* The select! is biased: there is no command, and the requests are polled.
PollCommands ==
  /\ pc = "select"
  /\ commands = 0
  /\ pc' = "polled"
  /\ known' = forgotten
  /\ UNCHANGED <<askers, requests, commands, request, answer, history, liveCoding, output,
                 outputOpen, screen, application, completed, full, forgotten, overtaken>>

\* There is no request either: the worker sleeps until it is woken.
PollPending ==
  /\ pc = "polled"
  /\ requests = <<>> /\ askersOpen
  /\ pc' = "select"
  /\ UNCHANGED <<askers, requests, commands, request, answer, history, liveCoding, output,
                 outputOpen, screen, application, ghosts>>

TakeRequest ==
  /\ pc = "polled"
  /\ requests # <<>>
  /\ requests' = Tail(requests)
  /\ pc' = "answering"
  /\ request' = Head(requests)
  /\ answer' = <<>>
  /\ Emit(<<[kind |-> "AnswerStarted", id |-> Head(requests)]>>)
  /\ UNCHANGED <<askers, commands, history, liveCoding, outputOpen, screen, application,
                 ghosts>>

\* The deltas of a live-coding answer are kept back.
Delta ==
  LET delta == <<request, Len(answer) + 1>>
  IN  /\ pc = "answering"
      /\ Len(answer) < MaxDeltas
      /\ answer' = Append(answer, delta)
      /\ IF request.mode = "Voice"
         THEN Emit(<<[kind |-> "AnswerDelta", id |-> request, delta |-> delta]>>)
         ELSE UNCHANGED output
      /\ UNCHANGED <<askers, requests, commands, pc, request, history, liveCoding,
                     outputOpen, screen, application, ghosts>>

\* Faulty: the oldest pair goes one record too late.
FaultyRecorded(pairs, pair) == Append(IF Len(pairs) > MaxPairs THEN Tail(pairs) ELSE pairs, pair)

\* ChatHistory::record
Recorded(pairs, pair) == Append(IF Len(pairs) = MaxPairs THEN Tail(pairs) ELSE pairs, pair)

\* The text of an answer is not empty, and not all white space.
HasText == answer # <<>>

CompleteVoice ==
  /\ pc = "answering"
  /\ request.mode = "Voice"
  /\ HasText
  /\ history' = Recorded(history, request)
  /\ Emit(<<[kind |-> "AnswerCompleted", id |-> request]>>)
  /\ pc' = "select"
  /\ request' = None
  /\ answer' = <<>>
  /\ completed' = [completed EXCEPT !.Voice = Append(@, request)]
  /\ full' = Append(full, answer)
  /\ UNCHANGED <<askers, requests, commands, liveCoding, outputOpen, screen, application,
                 forgotten, known, overtaken>>

\* Faulty: whoever speaks, the summary of the answer counts.
FaultyParsed(r, newContext, newCode) ==
  [revision |-> liveCoding.revision + 1,
   summary  |-> r,
   context  |-> IF r.speaker # Interviewer /\ newContext THEN r ELSE liveCoding.context,
   code     |-> IF newCode THEN r ELSE liveCoding.code,
   before   |-> liveCoding.code]

\* parse_live_coding_response of a valid answer to r: newContext, the answer
\* has a candidate context; newCode, it has changed code.
Parsed(r, newContext, newCode) ==
  [revision |-> liveCoding.revision + 1,
   summary  |-> IF r.speaker = Interviewer THEN r ELSE liveCoding.summary,
   context  |-> IF r.speaker # Interviewer /\ newContext THEN r ELSE liveCoding.context,
   code     |-> IF newCode THEN r ELSE liveCoding.code,
   before   |-> liveCoding.code]

CompleteLiveCoding ==
  /\ pc = "answering"
  /\ request.mode = "LiveCoding"
  /\ HasText
  /\ \E newContext, newCode \in BOOLEAN : liveCoding' = Parsed(request, newContext, newCode)
  /\ Emit(<<[kind |-> "LiveCodingUpdated", state |-> liveCoding'],
            [kind |-> "AnswerCompleted", id |-> request]>>)
  /\ pc' = "select"
  /\ request' = None
  /\ answer' = <<>>
  /\ completed' = [completed EXCEPT !.LiveCoding = Append(@, request)]
  /\ overtaken' = (overtaken \/ announcing)
  /\ UNCHANGED <<askers, requests, commands, history, outputOpen, screen, application, full,
                 forgotten, known>>

\* Faulty: no deadline, only a stream that has begun can fail.
FaultyAnswerFails ==
  /\ pc = "answering"
  /\ answer # <<>>
  /\ Emit(<<[kind |-> "LlmError"]>>)
  /\ pc' = "select"
  /\ request' = None
  /\ answer' = <<>>
  /\ UNCHANGED <<askers, requests, commands, history, liveCoding, outputOpen, screen,
                 application, ghosts>>

\* The provider fails, the deadline passes, the answer is empty, or it is not
\* a valid live-coding answer.
AnswerFails ==
  /\ pc = "answering"
  /\ Emit(<<[kind |-> "LlmError"]>>)
  /\ pc' = "select"
  /\ request' = None
  /\ answer' = <<>>
  /\ UNCHANGED <<askers, requests, commands, history, liveCoding, outputOpen, screen,
                 application, ghosts>>

\* requests.recv() returns None.
RequestsEnd ==
  /\ pc = "polled"
  /\ requests = <<>>
  /\ ~askersOpen
  /\ pc' = "done"
  /\ UNCHANGED <<askers, requests, commands, request, answer, history, liveCoding, output,
                 outputOpen, screen, application, ghosts>>

\* OutputChannelClosed
EmitFails ==
  /\ ~outputOpen
  /\ \/ pc = "answering"
     \/ pc = "select" /\ commands > 0
     \/ pc = "polled" /\ requests # <<>>
  /\ pc' = "failed"
  /\ requests' = <<>>
  /\ UNCHANGED <<askers, commands, request, answer, history, liveCoding, output, outputOpen,
                 screen, application, ghosts>>

-----------------------------------------------------------------------------
(* The sink *)

ShowEvent ==
  /\ outputOpen
  /\ output # <<>>
  /\ output' = Tail(output)
  /\ snapshot' = Screen!Apply(snapshot, Head(output))
  /\ view' = LET state == snapshot'.liveCoding IN
               Diff!Refreshed(view, TextOf(state.code), Change(state).edits, Change(state).lines)
  /\ UNCHANGED <<askers, requests, commands, pc, request, answer, history, liveCoding,
                 outputOpen, application, ghosts>>

\* The receiver goes, and what it had not received with it.
SinkEnds ==
  /\ outputOpen
  /\ outputOpen' = FALSE
  /\ output' = <<>>
  /\ UNCHANGED <<askers, requests, commands, pc, request, answer, history, liveCoding,
                 screen, application, ghosts>>

-----------------------------------------------------------------------------
Finish == CompleteVoice \/ CompleteLiveCoding \/ AnswerFails
Work ==
  TakeCommand \/ PollCommands \/ PollPending \/ TakeRequest \/ RequestsEnd \/ EmitFails

Stopped == pc \in {"done", "failed"} /\ UNCHANGED vars

Next ==
  \/ \E s \in Speakers : (\E mode \in Modes : Ask(s, mode)) \/ Queue(s)
  \/ AskersEnd \/ ClearHistory \/ AnnounceCleared
  \/ TakeCommand \/ PollCommands \/ PollPending \/ TakeRequest \/ Delta
  \/ CompleteVoice \/ CompleteLiveCoding \/ AnswerFails
  \/ RequestsEnd \/ EmitFails
  \/ ShowEvent \/ SinkEnds
  \/ Stopped

Spec == Init /\ [][Next]_vars

\* The runtime runs a worker that can go on, and an answer that does not come
\* fails at its deadline.  Nobody need ask, clear, or end.
FairSpec == Spec /\ WF_vars(Work \/ Finish) /\ WF_vars(ShowEvent)

-----------------------------------------------------------------------------
LiveCodingState ==
  [revision : Nat, summary : Request \cup {None}, context : Request \cup {None},
   code : Request \cup {None}, before : Request \cup {None}]

Events == {"Transcript", "AnswerStarted", "AnswerDelta", "AnswerCompleted", "LlmError",
           "LiveCodingUpdated", "HistoryCleared"}

\* The type invariant: the worker, whose history never exceeds max_pairs, and
\* the snapshot of the sink.
TypeOK ==
  /\ asked \in [Speakers -> 0..MaxQuestions]
  /\ showing \in [Speakers -> Request \cup {None}]
  /\ requests \in Seq(Request)
  /\ askersOpen \in BOOLEAN /\ outputOpen \in BOOLEAN
  /\ commands \in Nat /\ clears \in 0..MaxClears
  /\ pc \in {"select", "polled", "answering", "done", "failed"}
  /\ request \in Request \cup {None}
  /\ history \in Seq(Request) /\ Len(history) <= MaxPairs
  /\ liveCoding \in LiveCodingState /\ snapshot.liveCoding \in LiveCodingState
  /\ \A i \in 1..Len(output) : output[i].kind \in Events
  /\ snapshot.currentId \in Request \cup {None}

\* The history sent with the next voice request is the most recent voice
\* answers completed since the worker cleared it, at most MaxPairs, oldest
\* first; failed answers and live-coding ones leave no trace in it.
HistoryIsRecentAnswers ==
  LET voice == completed.Voice
      first == IF Len(voice) > MaxPairs THEN Len(voice) - MaxPairs + 1 ELSE 1
  IN  history = SubSeq(voice, first, Len(voice))

\* r is the latest of the requests the interviewer made, or None if there is none.
IsLatestTask(r, coding) ==
  \/ r = None /\ \A i \in 1..Len(coding) : coding[i].speaker # Interviewer
  \/ \E i \in 1..Len(coding) :
       /\ r = coding[i] /\ r.speaker = Interviewer
       /\ \A k \in (i + 1)..Len(coding) : coding[k].speaker # Interviewer

\* The live-coding state is what the live-coding answers since the last clear
\* made of it: one revision each, a failed one none; the task summary is of the
\* interviewer's latest, the candidate context never of the interviewer's.
LiveCodingFollowsAnswers ==
  LET coding == completed.LiveCoding
  IN  /\ liveCoding.revision = Len(coding)
      /\ IsLatestTask(liveCoding.summary, coding)
      /\ liveCoding.context # None => \E i \in 1..Len(coding) :
           liveCoding.context = coding[i] /\ coding[i].speaker # Interviewer
      /\ liveCoding.code # None => \E i \in 1..Len(coding) : liveCoding.code = coding[i]

\* What the worker remembers is what the completed answers made of it.
MemoryFollowsAnswers == HistoryIsRecentAnswers /\ LiveCodingFollowsAnswers

\* A clear that was sent before the worker last looked at its commands is obeyed: the
\* next request is asked with no answer that was in a history, or was being given,
\* when the application cleared it.  A clear that comes between that look and the
\* request is not: so one request at most is asked with what was cleared before it.
ClearedHistoryIsNotAsked ==
  [][(pc # "answering" /\ pc' = "answering") => Remembered \cap known = {}]_vars

\* A completed turn shows its answer, every delta once and in order, whatever
\* was cleared, failed or asked in between.
CompletedTurnsAreWhole ==
  \A i \in 1..Len(snapshot.conversation) :
    LET turn == snapshot.conversation[i]
    IN  turn.status = "Completed" => \E k \in 1..Len(full) : turn.answer = full[k]
                                                            /\ full[k][1][1] = turn.id

Caught == outputOpen /\ output = <<>> /\ ~announcing /\ Selecting /\ commands = 0

\* When the sink has caught up with an idle worker, what it shows is settled:
\* no turn streams, a turn that is pending is still queued or about to be,
\* the status says Working only if the history was cleared during an answer,
\* and the live-coding state shown is the worker's, or none when an answer was
\* completed between a clear and its announcement.
IdleScreenIsSettled ==
  Caught =>
    /\ \A i \in 1..Len(snapshot.conversation) :
         LET turn == snapshot.conversation[i]
         IN  /\ turn.status # "Streaming"
             /\ turn.status = "Pending" =>
                  \/ \E k \in 1..Len(requests) : requests[k] = turn.id
                  \/ \E s \in Speakers : showing[s] = turn.id
    /\ snapshot.llmStatus = "Working" => snapshot.currentId = None
    /\ \/ snapshot.liveCoding = liveCoding
       \/ overtaken /\ snapshot.liveCoding = BlankLiveCoding

\* What is shown is what the worker did, answer by answer and as a whole.
ScreenFollowsWorker == CompletedTurnsAreWhole /\ IdleScreenIsSettled

\* code_edits and changed_line_numbers of any two codes.
DiffIsExact == \A old, new \in Codes : Diff!IsExact(old, new)

\* The diff is exact; the text buffer of the overlay holds the code that is shown
\* and marks lines of it; and the edits, which the worker computed from its own
\* code and not from the buffer, brought it there: the buffer was never set as a
\* whole before the history was cleared.
CodeIsEditedInPlace ==
  /\ DiffIsExact
  /\ view.text = TextOf(snapshot.liveCoding.code)
  /\ view.marked \subseteq DOMAIN Written(snapshot.liveCoding.code)
  /\ view.replaced => clears > 0

Open(r) ==
  \E i \in 1..Len(snapshot.conversation) :
    snapshot.conversation[i].id = r /\ snapshot.conversation[i].status \in {"Pending", "Streaming"}

\* The turn of a queued request does not stay open on the screen: it is
\* completed or failed, or cleared away, as long as worker and sink live.
TurnsAreSettled ==
  \A r \in {q \in Request : q.mode = "Voice"} :
    r \in ToSet(requests) /\ Open(r) ~> ~Open(r) \/ ~outputOpen \/ pc = "failed"
=============================================================================
