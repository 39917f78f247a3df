----------------------------- MODULE OutputWorker -----------------------------
(***************************************************************************)
(* The way of the output events: from the workers that emit them, through  *)
(* the one output channel, to TelemetryOutputSink (telemetry.rs), which    *)
(* writes each event down and hands it to the sink inside, a terminal or   *)
(* the overlay's channel, that runs in a task of its own.                  *)
(*                                                                         *)
(* The producers are reduced to what they emit and in which order: the     *)
(* transcript workers of the two speakers, the LLM worker, and the app     *)
(* with its notices.  Writing the events down and printing them may fail,  *)
(* and the overlay ends the process when the pipeline reports its stop.    *)
(***************************************************************************)
EXTENDS Integers, Sequences, FiniteSets, SequencesExt

CONSTANTS
  Scenarios,    \* what may happen in a run: see ScenariosAssumption
  MaxQuestions, \* bound: questions of a speaker
  MaxInFlight,  \* bound: events waiting in the output channel
  MaxInner,     \* bound: events waiting for the sink inside
  None

Speakers == {"interviewer", "candidate"}
Requests == Speakers \X (1..MaxQuestions)

\* The sink inside, and the bounds of a run: the questions of each speaker and
\* their modes, the answers, the transcripts and other marks of the interviewer's
\* speech, the deltas of an answer and whether its usage comes, the clears, what
\* may fail, and the notices of the app in their order.
ASSUME ScenariosAssumption ==
  Scenarios \subseteq [sink : {"terminal", "overlay"},
                       questions : [Speakers -> 0..MaxQuestions],
                       modes : SUBSET {"voice", "live_coding"},
                       answers : Nat, words : Nat, marks : Nat, deltas : Nat,
                       usage : BOOLEAN, clears : Nat, failures : BOOLEAN,
                       notices : Seq({"Status", "ModeChanged"})]
ASSUME BoundsAssumption == MaxQuestions \in Nat /\ MaxInFlight \in Nat /\ MaxInner \in Nat
ASSUME NoneAssumption == None \notin Requests

Recorder == INSTANCE TelemetryRecorder
Terminal == INSTANCE TerminalRenderer

VARIABLES
  scenario,   \* the bounds of this run
  asked,      \* questions of each speaker
  flushing,   \* the question each transcript worker is queueing, or None
  flushPc,    \* what comes next of that flush
  text,       \* the interviewer's window has text
  words, marks, clears, notices,  \* what happened of the bounds
  places,     \* the notes emitted
  requests,   \* the LLM queue
  modes,      \* the mode of each question
  answering,  \* the request being answered, or None
  llmPc,      \* what the LLM worker does with it
  given,      \* the deltas it emitted
  closing,    \* the interviewer's transcript worker saw the shutdown
  output,     \* the output channel
  closed,     \* its senders are gone
  sinkPc,     \* "forwarding", "awaiting", "finishing", "ok" or "error"
  rec,        \* the recorder
  inner,      \* the channel to the sink inside
  innerOpen,  \* it has a sender
  innerPc,    \* "running", "ended" or "failed"
  term,       \* the sink inside
  summary,    \* <<>>, or the summary that was written
  exited,     \* the overlay ended the process
  happened,   \* history: what was emitted for each request
  spoken,     \* history: the words of the final transcripts
  revisions   \* history: the request of each live-coding revision, or None

windows == <<asked, flushing, flushPc, text, words, marks, places>>
llm == <<requests, modes, answering, llmPc, given, clears>>
history == <<happened, spoken, revisions>>
telemetry == <<sinkPc, rec, summary>>
inside == <<innerPc, term>>
channels == <<output, inner, innerOpen>>
downstream == <<telemetry, inside, inner, innerOpen>>
app == <<scenario, notices, closing, closed, exited>>
vars == <<windows, llm, history, telemetry, inside, channels, app>>

Init ==
  /\ scenario \in Scenarios
  /\ asked = [s \in Speakers |-> 0]
  /\ flushing = [s \in Speakers |-> None]
  /\ flushPc = [s \in Speakers |-> "no"]
  /\ text = FALSE
  /\ words = 0
  /\ marks = 0
  /\ clears = 0
  /\ notices = 0
  /\ places = 0
  /\ given = 0
  /\ requests = <<>>
  /\ modes = [r \in Requests |-> None]
  /\ answering = None
  /\ llmPc = "idle"
  /\ closing = FALSE
  /\ closed = FALSE
  /\ exited = FALSE
  /\ output = <<>>
  /\ inner = <<>>
  /\ innerOpen = TRUE
  /\ sinkPc = "forwarding"
  /\ rec = Recorder!EmptyRecorder
  /\ summary = <<>>
  /\ innerPc = "running"
  /\ term = Terminal!EmptyTerminal
  /\ happened = [r \in Requests |-> {}]
  /\ spoken = <<>>
  /\ revisions = <<>>

-----------------------------------------------------------------------------
(* What is emitted.  A producer whose send fails ends, and takes the pipeline *)
(* down with it (Supervisor): it emits nothing more.                          *)

Emit(events) ==
  /\ sinkPc = "forwarding" /\ ~exited /\ ~closed
  /\ Len(output) + Len(events) <= MaxInFlight
  /\ output' = output \o events

Happens(r, what) == happened' = [happened EXCEPT ![r] = @ \cup {what}]

\* The transcript worker of the interviewer works on speech: it is not queueing.
Listening == flushing["interviewer"] = None /\ ~closing

DraftEvent(empty) == [kind |-> "TranscriptDraft", empty |-> empty]

\* handle_deepgram_event of a transcript; the two sends have nothing of this
\* speaker between them.
Hear(final, boundary) ==
  /\ Listening
  /\ words < scenario.words
  /\ boundary => final
  /\ words' = words + 1
  /\ text' = TRUE
  /\ Emit(<<[kind |-> "SttTranscript", final |-> final, boundary |-> boundary,
             word |-> words + 1], DraftEvent(FALSE)>>)
  /\ spoken' = IF final THEN Append(spoken, words + 1) ELSE spoken
  /\ UNCHANGED <<asked, flushing, flushPc, marks, places, llm, happened, revisions,
                 downstream, app>>

\* handle_deepgram_event of a start of speech, and of an utterance end
Mark(event) ==
  /\ Listening
  /\ marks < scenario.marks
  /\ marks' = marks + 1
  /\ Emit(<<event>>)
  /\ UNCHANGED <<asked, flushing, flushPc, text, words, places, llm, history, downstream,
                 app>>

SpeechStarts == Mark([kind |-> "SpeechStarted"])
UtteranceEnds(applied) == Mark([kind |-> "UtteranceEnd", applied |-> applied])

\* A pause or a change of mode drops the window.
Discard ==
  /\ Listening /\ text
  /\ text' = FALSE
  /\ Emit(<<DraftEvent(TRUE)>>)
  /\ UNCHANGED <<asked, flushing, flushPc, words, marks, places, llm, history, downstream,
                 app>>

\* queue_transcript_chunk: the question is shown.
Ask(s, mode) ==
  /\ flushing[s] = None
  /\ asked[s] < scenario.questions[s]
  /\ s = "interviewer" => text
  /\ asked' = [asked EXCEPT ![s] = @ + 1]
  /\ text' = (text /\ s # "interviewer")
  /\ LET r == <<s, asked[s] + 1>> IN
       /\ flushing' = [flushing EXCEPT ![s] = r]
       /\ modes' = [modes EXCEPT ![r] = mode]
       /\ Emit(<<[kind |-> "Transcript", id |-> r, place |-> places + 1]>>)
       /\ Happens(r, "ready")
       /\ flushPc' = [flushPc EXCEPT ![s] =
            IF mode = "voice" /\ s = "interviewer" THEN "resolve" ELSE "queue"]
  /\ places' = places + 1
  /\ UNCHANGED <<words, marks, requests, answering, llmPc, given, clears, spoken, revisions,
                 downstream, app>>

\* The knowledge for it is there, or the search failed.
Resolve(found) ==
  LET s == "interviewer"
      r == flushing[s]
  IN
  /\ flushPc[s] = "resolve"
  /\ flushPc' = [flushPc EXCEPT ![s] = "queue"]
  /\ IF found
     THEN /\ Emit(<<[kind |-> "Retrieval", id |-> r]>>)
          /\ Happens(r, "retrieval")
          /\ UNCHANGED places
     ELSE /\ Emit(<<[kind |-> "KnowledgeError", place |-> places + 1]>>)
          /\ places' = places + 1
          /\ UNCHANGED happened
  /\ UNCHANGED <<asked, flushing, text, words, marks, llm, spoken, revisions, downstream,
                 app>>

\* LlmQueued is sent before the request.
Queue(s) ==
  /\ flushPc[s] = "queue"
  /\ flushPc' = [flushPc EXCEPT ![s] = "queued"]
  /\ requests' = Append(requests, flushing[s])
  /\ Emit(<<[kind |-> "LlmQueued", id |-> flushing[s]]>>)
  /\ Happens(flushing[s], "queued")
  /\ UNCHANGED <<asked, flushing, text, words, marks, places, modes, answering, llmPc,
                 given, clears, spoken, revisions, downstream, app>>

\* The length of the queue, read after the request was sent, and then the
\* draft, which is empty; not at the shutdown.
Queued(s) ==
  LET long == Len(requests) > 1 IN
  /\ flushPc[s] = "queued"
  /\ flushPc' = [flushPc EXCEPT ![s] = "no"]
  /\ flushing' = [flushing EXCEPT ![s] = None]
  /\ places' = IF long THEN places + 1 ELSE places
  /\ LET state == [kind |-> "QueueState", len |-> Len(requests), place |-> places'] IN
       Emit(IF s = "interviewer" /\ ~closing THEN <<state, DraftEvent(TRUE)>> ELSE <<state>>)
  /\ UNCHANGED <<asked, text, words, marks, llm, history, downstream, app>>

-----------------------------------------------------------------------------
(* The LLM worker: one request at a time, in the order of the queue *)

StartAnswer ==
  /\ llmPc = "idle" /\ requests # <<>>
  /\ Cardinality({r \in Requests : "started" \in happened[r]}) < scenario.answers
  /\ answering' = Head(requests)
  /\ requests' = Tail(requests)
  /\ llmPc' = "streaming"
  /\ given' = 0
  /\ Emit(<<[kind |-> "AnswerStarted", id |-> Head(requests)]>>)
  /\ Happens(Head(requests), "started")
  /\ UNCHANGED <<windows, modes, clears, spoken, revisions, downstream, app>>

\* complete_request: the deltas of a live-coding answer are kept back.
GiveDelta ==
  /\ llmPc = "streaming" /\ modes[answering] = "voice"
  /\ given < scenario.deltas
  /\ given' = given + 1
  /\ Emit(<<[kind |-> "AnswerDelta", id |-> answering, delta |-> given + 1]>>)
  /\ Happens(answering, "token")
  /\ UNCHANGED <<windows, requests, modes, answering, llmPc, clears, spoken, revisions,
                 downstream, app>>

GiveUsage ==
  /\ llmPc = "streaming" /\ scenario.usage
  /\ "usage" \notin happened[answering]
  /\ Emit(<<[kind |-> "AnswerUsage", id |-> answering]>>)
  /\ Happens(answering, "usage")
  /\ UNCHANGED <<windows, llm, spoken, revisions, downstream, app>>

\* A live-coding answer was understood: its state goes out before its end.
UpdateLiveCoding ==
  /\ llmPc = "streaming" /\ modes[answering] = "live_coding"
  /\ llmPc' = "updated"
  /\ places' = places + 1
  /\ revisions' = Append(revisions, answering)
  /\ Emit(<<[kind |-> "LiveCodingUpdated", place |-> places + 1]>>)
  /\ UNCHANGED <<asked, flushing, flushPc, text, words, marks, requests, modes, answering,
                 given, clears, happened, spoken, downstream, app>>

CompleteAnswer ==
  /\ \/ llmPc = "updated"
     \/ llmPc = "streaming" /\ modes[answering] = "voice" /\ given > 0
  /\ llmPc' = "idle"
  /\ answering' = None
  /\ Emit(<<[kind |-> "AnswerCompleted", id |-> answering]>>)
  /\ Happens(answering, "completed")
  /\ UNCHANGED <<windows, requests, modes, given, clears, spoken, revisions, downstream,
                 app>>

\* An error, a timeout, an empty answer or one that cannot be read
FailAnswer ==
  /\ llmPc = "streaming"
  /\ llmPc' = "idle"
  /\ answering' = None
  /\ Emit(<<[kind |-> "LlmError", place |-> 0]>>)
  /\ Happens(answering, "failed")
  /\ UNCHANGED <<windows, requests, modes, given, clears, spoken, revisions, downstream,
                 app>>

\* A command is taken between two requests.
ClearHistory ==
  /\ llmPc = "idle"
  /\ clears < scenario.clears
  /\ clears' = clears + 1
  /\ places' = places + 1
  /\ revisions' = Append(revisions, None)
  /\ Emit(<<[kind |-> "LiveCodingUpdated", place |-> places + 1]>>)
  /\ UNCHANGED <<asked, flushing, flushPc, text, words, marks, requests, modes, answering,
                 llmPc, given, happened, spoken, downstream, app>>

-----------------------------------------------------------------------------
(* The app *)

\* A status or a change of mode
Notice ==
  /\ notices < Len(scenario.notices)
  /\ notices' = notices + 1
  /\ places' = places + 1
  /\ Emit(<<[kind |-> scenario.notices[notices + 1], place |-> places + 1,
             stopped |-> FALSE]>>)
  /\ UNCHANGED <<asked, flushing, flushPc, text, words, marks, llm, history, downstream,
                 scenario, closing, closed, exited>>

\* The shutdown comes to the interviewer's worker, which flushes its window.
CloseWindow ==
  /\ ~closing /\ flushing["interviewer"] = None
  /\ closing' = TRUE
  /\ UNCHANGED <<windows, llm, history, telemetry, inside, channels, scenario, notices,
                 closed, exited>>

\* The workers are done: the last status, and the senders are dropped.
Stop ==
  /\ closing /\ \A s \in Speakers : flushing[s] = None
  /\ ~text
  /\ llmPc = "idle" /\ requests = <<>>
  /\ places' = places + 1
  /\ Emit(<<[kind |-> "Status", place |-> places + 1, stopped |-> TRUE]>>)
  /\ closed' = TRUE
  /\ UNCHANGED <<asked, flushing, flushPc, text, words, marks, llm, history, downstream,
                 scenario, notices, closing, exited>>

\* bridge_output_events: at the report of the stop the application quits, and
\* the thread of the pipeline, which nobody joins, ends with the process.
Quit ==
  /\ scenario.sink = "overlay" /\ ~exited
  /\ term.stopped
  /\ exited' = TRUE
  /\ UNCHANGED <<windows, llm, history, telemetry, inside, channels, scenario, notices,
                 closing, closed>>

-----------------------------------------------------------------------------
(* TelemetryOutputSink::run *)

\* The event is written down and handed on.
ForwardEvent ==
  /\ ~exited /\ sinkPc = "forwarding" /\ output # <<>>
  /\ Len(inner) < MaxInner
  /\ output' = Tail(output)
  /\ rec' = Recorder!Record(rec, Head(output))
  /\ IF innerPc = "running"
     THEN /\ inner' = Append(inner, Head(output))
          /\ UNCHANGED <<sinkPc, innerOpen>>
     ELSE /\ sinkPc' = "error"      \* OutputClosed
          /\ innerOpen' = FALSE
          /\ UNCHANGED inner
  /\ UNCHANGED <<windows, llm, history, inside, summary, app>>

\* The line could not be written: the events that wait are lost, and the sink
\* inside is left to end by itself.
RecordFails ==
  /\ ~exited /\ sinkPc = "forwarding" /\ output # <<>> /\ scenario.failures
  /\ sinkPc' = "error"
  /\ innerOpen' = FALSE
  /\ output' = <<>>
  /\ UNCHANGED <<windows, llm, history, rec, inner, inside, summary, app>>

\* Faulty: the sender is kept until the sink inside has ended.
FaultyEndOfEvents ==
  /\ ~exited /\ sinkPc = "forwarding" /\ output = <<>> /\ closed
  /\ sinkPc' = "awaiting"
  /\ UNCHANGED <<windows, llm, history, rec, summary, inside, channels, app>>

\* There is nothing more to come: its sender is dropped.
EndOfEvents ==
  /\ ~exited /\ sinkPc = "forwarding" /\ output = <<>> /\ closed
  /\ sinkPc' = "awaiting"
  /\ innerOpen' = FALSE
  /\ UNCHANGED <<windows, llm, history, rec, summary, inside, output, inner, app>>

AwaitInner ==
  /\ ~exited /\ sinkPc = "awaiting" /\ innerPc # "running"
  /\ sinkPc' = IF innerPc = "ended" THEN "finishing" ELSE "error"
  /\ UNCHANGED <<windows, llm, history, rec, summary, inside, channels, app>>

\* finish(): either file may fail.
Finish(written) ==
  /\ ~exited /\ sinkPc = "finishing"
  /\ written \/ scenario.failures
  /\ IF written
     THEN /\ sinkPc' = "ok"
          /\ summary' = <<Recorder!Summarised(rec)>>
     ELSE /\ sinkPc' = "error"
          /\ UNCHANGED summary
  /\ UNCHANGED <<windows, llm, history, rec, inside, channels, app>>

-----------------------------------------------------------------------------
(* The sink inside *)

RenderEvent ==
  /\ ~exited /\ innerPc = "running" /\ inner # <<>>
  /\ inner' = Tail(inner)
  /\ term' = IF scenario.sink = "terminal" THEN Terminal!Render(term, Head(inner))
                                  ELSE Terminal!Forward(term, Head(inner))
  /\ UNCHANGED <<windows, llm, history, telemetry, output, innerOpen, innerPc, app>>

\* A write error, or an overlay that receives no more
RenderFails ==
  /\ ~exited /\ innerPc = "running" /\ inner # <<>> /\ scenario.failures
  /\ innerPc' = "failed"
  /\ inner' = <<>>
  /\ UNCHANGED <<windows, llm, history, telemetry, output, innerOpen, term, app>>

InnerEnds ==
  /\ ~exited /\ innerPc = "running" /\ inner = <<>> /\ ~innerOpen
  /\ innerPc' = "ended"
  /\ UNCHANGED <<windows, llm, history, telemetry, channels, term, app>>

-----------------------------------------------------------------------------
Produce ==
  \/ \E final, boundary \in BOOLEAN : Hear(final, boundary)
  \/ SpeechStarts \/ \E applied \in BOOLEAN : UtteranceEnds(applied)
  \/ Discard
  \/ \E s \in Speakers : (\E mode \in scenario.modes : Ask(s, mode)) \/ Queue(s) \/ Queued(s)
  \/ \E found \in BOOLEAN : Resolve(found)
  \/ StartAnswer \/ GiveDelta \/ GiveUsage \/ UpdateLiveCoding \/ CompleteAnswer \/ FailAnswer
  \/ ClearHistory \/ Notice \/ Stop \/ CloseWindow

RunSink ==
  \/ ForwardEvent \/ RecordFails \/ EndOfEvents \/ AwaitInner
  \/ \E written \in BOOLEAN : Finish(written)

RunInner == RenderEvent \/ RenderFails \/ InnerEnds

Next == Produce \/ RunSink \/ RunInner \/ Quit

Spec == Init /\ [][Next]_vars

\* The two tasks are woken when there is something for them.
FairSpec == Spec /\ WF_vars(RunSink) /\ WF_vars(RunInner)

-----------------------------------------------------------------------------
(* Properties *)

Events ==
  [kind : {"SttTranscript"}, final : BOOLEAN, boundary : BOOLEAN, word : Nat]
  \cup [kind : {"SpeechStarted"}]
  \cup [kind : {"UtteranceEnd"}, applied : BOOLEAN]
  \cup [kind : {"TranscriptDraft"}, empty : BOOLEAN]
  \cup [kind : {"Transcript"}, id : Requests, place : Nat]
  \cup [kind : {"Retrieval", "LlmQueued", "AnswerStarted", "AnswerUsage", "AnswerCompleted"},
        id : Requests]
  \cup [kind : {"AnswerDelta"}, id : Requests, delta : Nat]
  \cup [kind : {"QueueState"}, len : Nat, place : Nat]
  \cup [kind : {"KnowledgeError", "LlmError", "LiveCodingUpdated"}, place : Nat]
  \cup [kind : {"Status", "ModeChanged"}, place : Nat, stopped : BOOLEAN]

Whats ==
  {"ready", "retrieval", "queued", "started", "token", "usage", "completed", "failed"}

Time == Nat \cup {None}
Times == [draft : Time, final : Time, speechFinal : Time, utteranceEnd : Time, wordEnd : Time,
          toBoundary : Time]
Metrics == [noted : SUBSET Whats, speech : Times, answer : Seq(Nat)]
Utterance ==
  [noted : SUBSET {"interim", "final", "speechFinal", "speechStarted", "utteranceEnd"},
   text : Seq(Nat)]
Owners == Requests \cup {None}

\* The recorder: TelemetryRecorder
Record ==
  [now : Nat, requests : [Requests -> Metrics], active : Owners, last : Times,
   draftActive : BOOLEAN, utterances : Seq(Utterance), utteranceOpen : BOOLEAN,
   segments : Seq(Seq(Nat)), pending : Seq(Nat), liveCoding : Seq(Owners)]

\* The sink inside: a terminal, or the statistics of the overlay's channel
Blocks ==
  [what : {"answer", "question", "note"}, id : Owners, place : Nat, deltas : Seq(Nat),
   end : {"open", "completed", "failed"}]
Stats == [started : Nat, completed : Nat, failed : Nat, transcripts : Nat, statuses : Nat]
Terminals ==
  [active : Owners, pending : Seq(Events), stats : Stats, screen : Seq(Blocks),
   stopped : BOOLEAN]

\* What happened is within the bounds of the run.
BoundsOK ==
  /\ words \in 0..scenario.words /\ marks \in 0..scenario.marks
  /\ clears \in 0..scenario.clears /\ given \in 0..scenario.deltas
  /\ notices \in 0..Len(scenario.notices)
  /\ modes \in [Requests -> {"voice", "live_coding", None}]
  /\ closed \in BOOLEAN /\ exited \in BOOLEAN

\* Every variable has its type and keeps within the bounds of the run; the windows,
\* the LLM worker and the sinks are in step with their program counters; and a
\* summary is there when and only when the sink returned without an error.
TypeOK ==
  /\ scenario \in Scenarios
  /\ output \in Seq(Events) /\ inner \in Seq(Events)
  /\ asked \in [Speakers -> 0..MaxQuestions] /\ text \in BOOLEAN /\ closing \in BOOLEAN
  /\ flushPc \in [Speakers -> {"no", "resolve", "queue", "queued"}]
  /\ \A s \in Speakers :
       flushing[s] = IF flushPc[s] = "no" THEN None ELSE <<s, asked[s]>>
  /\ requests \in Seq(Requests) /\ answering \in Owners
  /\ llmPc \in {"idle", "streaming", "updated"} /\ (llmPc = "idle" <=> answering = None)
  /\ sinkPc \in {"forwarding", "awaiting", "finishing", "ok", "error"}
  /\ innerPc \in {"running", "ended", "failed"}
  /\ innerOpen <=> sinkPc = "forwarding"
  /\ summary = IF sinkPc = "ok" THEN <<Recorder!Summarised(rec)>> ELSE <<>>
  /\ rec \in Record /\ term \in Terminals
  /\ places \in Nat /\ BoundsOK
  /\ happened \in [Requests -> SUBSET Whats]
  /\ spoken \in Seq(Nat) /\ revisions \in Seq(Owners)

UpTo(n) == [i \in 1..n |-> i]

\* The place of a note that waits; a queue length that is not shown has none.
PlaceOf(e) == IF e.kind = "QueueState" /\ e.len <= 1 THEN 0 ELSE e.place

\* The places of the notes on the screen and of those that wait below it.
Places(t) == [i \in 1..Len(t.screen) |-> t.screen[i].place]
               \o [i \in 1..Len(t.pending) |-> PlaceOf(t.pending[i])]

\* Every place comes once, and after the one before it.
InOrder(line) ==
  \A i \in DOMAIN line : line[i] > 0 =>
    /\ \A j \in 1..(i - 1) : line[j] # line[i]
    /\ line[i] = 1 \/ \E j \in 1..(i - 1) : line[j] = line[i] - 1

\* What the terminal shows is what was emitted: the notes come in their order, none
\* is lost or shown twice, those that came during an answer are kept back until it
\* ends and no longer; an answer is one block of its deltas, nothing is shown below
\* it before it ends, and it comes below its question.
ScreenFollowsEvents ==
  scenario.sink = "terminal" =>
    /\ InOrder(Places(term))
    /\ term.pending # <<>> => term.active # None
    /\ \A i \in DOMAIN term.screen :
         LET block == term.screen[i] IN
           block.what = "answer" =>
             /\ block.deltas = UpTo(Len(block.deltas))
             /\ block.end = "open" <=> (i = Len(term.screen) /\ term.active = block.id)
             /\ \E j \in 1..(i - 1) :
                  term.screen[j].what = "question" /\ term.screen[j].id = block.id

\* Everything that was emitted is written down.
CaughtUp == sinkPc # "error" /\ output = <<>>

AnswersAreAttributed ==
  /\ \A r \in Requests :
       LET noted == rec.requests[r].noted IN
         /\ noted \subseteq happened[r]
         /\ CaughtUp => noted = happened[r]
         /\ ~({"completed", "failed"} \subseteq noted)
         /\ rec.requests[r].answer = UpTo(Len(rec.requests[r].answer))
  /\ IsPrefix(rec.liveCoding, revisions)
  /\ CaughtUp => rec.liveCoding = revisions /\ rec.active = answering

SpeechIsOfThisQuestion ==
  \A r \in Requests :
    (r[1] = "interviewer" /\ "ready" \in rec.requests[r].noted) =>
      LET speech == rec.requests[r].speech IN
        /\ speech.draft = r[2] - 1
        /\ \A field \in DOMAIN speech : speech[field] \in {None, r[2] - 1}

\* What the telemetry notes of a request happened to that request: also a failure
\* and a live-coding revision, which do not say whose they are, while requests of
\* both speakers overtake each other on the way to the LLM.  And the times of the
\* speech that it gives a question are of the speech since the question before it,
\* the start of its draft always among them.
RequestsAreAttributed == AnswersAreAttributed /\ SpeechIsOfThisQuestion

\* A summary is only written of a run whose every event was recorded and passed to
\* a sink that ended well: it has every request as it was, every revision, and
\* each recognised word once, as segments and as utterances; the statistics of
\* the sink inside agree with it, and the terminal keeps nothing back.
SummaryIsComplete ==
  summary # <<>> =>
    LET done  == Head(summary)
        count(what) == Cardinality(Recorder!Noted(done, what))
        stats == term.stats
    IN  /\ closed /\ output = <<>> /\ inner = <<>> /\ innerPc = "ended"
        /\ \A r \in Requests : done.requests[r].noted = happened[r]
        /\ done.liveCoding = revisions
        /\ FlattenSeq(done.segments) = spoken
        /\ FlattenSeq([i \in DOMAIN done.utterances |-> done.utterances[i].text]) = spoken
        /\ stats.transcripts = count("ready") /\ stats.started = count("started")
        /\ stats.completed = count("completed") /\ stats.failed = count("failed")
        /\ term.active = None /\ term.pending = <<>>

\* When the senders are gone the sink returns, with its summary or an error, and the
\* sink inside ends as well, unless the process is gone.
SinkEnds ==
  closed ~> (exited \/ (sinkPc \in {"ok", "error"} /\ innerPc # "running"))

\* README.md:72 "*.summary.json is written on graceful shutdown": when the overlay
\* ends after a stop in which nothing failed, the summary is there.
GracefulStopLeavesSummary ==
  (exited /\ sinkPc # "error" /\ innerPc # "failed") => summary # <<>>
=============================================================================
