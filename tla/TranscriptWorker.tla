-------------------------- MODULE TranscriptWorker --------------------------
(***************************************************************************)
(* One transcript worker of app/transcript_worker.rs: it turns the         *)
(* recognition events of one speaker into questions for the LLM queue.     *)
(*                                                                         *)
(* The worker is one task.  Its select! is biased: it polls its commands,  *)
(* then the inactivity timer, then the events; a command may come between  *)
(* the first poll and the last.  A flush shows the question, waits for the *)
(* retrieval of its context and then for a place in the LLM queue; while   *)
(* it waits the worker looks at nothing else, and what is recognised and   *)
(* commanded meanwhile waits in two unbounded channels.  Around it: the    *)
(* application, which sends commands and may go away, the recogniser,      *)
(* which sends events and may end, the LLM worker, which takes requests    *)
(* and may end, and the output worker, which may end.                      *)
(***************************************************************************)
EXTENDS TranscriptWindow

CONSTANTS
  Timed,        \* words the recogniser gives an end time; word w ends at time w
  Retrieves,    \* TRUE for the interviewer with RAG enabled
  Commands,     \* a subset of {"pause", "resume", "Voice", "LiveCoding"}: those that are sent
  LlmQueueMax,  \* LLM_QUEUE_MAX; 0 is unbounded
  MaxReports,   \* bound: events
  MaxWaiting,   \* bound: events in the channel
  MaxCommands   \* bound: commands

ASSUME TimedAssumption == Timed \subseteq Word
ASSUME RetrievesAssumption == Retrieves \in BOOLEAN
ASSUME CommandsAssumption == Commands \subseteq {"pause", "resume", "Voice", "LiveCoding"}
ASSUME BoundsAssumption ==
  LlmQueueMax \in Nat /\ MaxReports \in Nat /\ MaxWaiting \in Nat /\ MaxCommands \in Nat

VARIABLES
  pc,          \* "starting", "select", "polled" (no command was ready), "resolving",
               \* "sending", "done" or "failed"
  paused,
  mode,
  commands,    \* the command channel
  appOpen,     \* the application still holds the command sender
  commandsOpen,
  armed,       \* fallback_armed
  deferred,    \* interim_fallback_deferred
  pendingEnd,  \* pending_last_word_end_ms
  window,      \* the assembler
  events,      \* the event channel
  sttOpen,     \* the recogniser still holds the event sender
  finalised,   \* the recogniser: last word of its final transcripts
  reports,     \* events so far
  llm,         \* the LLM request queue, by request id
  llmOpen,     \* the LLM worker still receives
  chunks,      \* stats.chunks: requests sent
  outputOpen,  \* the output worker still receives
  question,    \* the question shown (OutputEvent::Transcript) and not yet submitted
  issued,      \* commands sent so far
  taken        \* history: the words the worker has taken since it last threw text away

recogniser == <<sttOpen, finalised, reports>>
environment == <<appOpen, recogniser, llmOpen, outputOpen, issued>>
timer == <<armed, deferred, pendingEnd>>
vars == <<pc, paused, mode, commands, commandsOpen, events, timer, window, llm, chunks,
          question, environment, taken>>

NoTime == 0

Reasons == {"none", "inactivity_timeout", "speech_final", "utterance_end", "shutdown"}

\* DeepgramEvent: a transcript of the words after from up to to, or an utterance
\* end with the time it carries.
Event == [kind : {"Transcript", "UtteranceEnd"}, from : Nat, to : Nat, isFinal : BOOLEAN,
          speechFinal : BOOLEAN, end : Nat]

\* end is the time an utterance end carried.
Question ==
  [id : Nat, mode : {"Voice", "LiveCoding"}, words : Text, reason : Reasons, end : Nat]

NoQuestion ==
  [id |-> 0, mode |-> "Voice", words |-> <<>>, reason |-> "none", end |-> NoTime]

Init ==
  /\ pc = "starting"
  /\ paused = FALSE
  /\ mode = "Voice"
  /\ commands = <<>>
  /\ commandsOpen = TRUE
  /\ armed = FALSE
  /\ deferred = FALSE
  /\ pendingEnd = NoTime
  /\ window = EmptyWindow
  /\ llm = <<>>
  /\ chunks = 0
  /\ question = NoQuestion
  /\ events = <<>>
  /\ appOpen = TRUE
  /\ sttOpen = TRUE
  /\ finalised = 0
  /\ reports = 0
  /\ llmOpen = TRUE
  /\ outputOpen = TRUE
  /\ issued = 0
  /\ taken = {}

-----------------------------------------------------------------------------
(* Flushing a question *)

\* armed, deferred and pendingEnd are reset when the flush returns in the
\* code; the worker reads none of them before that, so they are reset here.
DisarmTimer ==
  /\ armed' = FALSE
  /\ deferred' = FALSE
  /\ pendingEnd' = NoTime

\* The state a flush leaves when it has a question to submit: resolve() is
\* awaited first where the question gets knowledge.
AfterShow == IF mode = "Voice" /\ Retrieves THEN "resolving" ELSE "sending"

\* flush_transcript_utterance(w): nothing is submitted when the text is too
\* short; otherwise the question is shown and its submission begins.
Flush(w, reason, end, after) ==
  /\ window' = Finish(w)
  /\ DisarmTimer
  /\ IF IsLongEnough(Preview(w))
     THEN /\ question' = [id |-> w.sequence, mode |-> mode, words |-> Preview(w),
                          reason |-> reason, end |-> end]
          /\ pc' = AfterShow
     ELSE /\ pc' = after
          /\ UNCHANGED question

-----------------------------------------------------------------------------
(* The select! loop *)

\* wait_for_transcript_readiness and wait_until_ready
Start ==
  /\ pc = "starting"
  /\ pc' = "select"
  /\ UNCHANGED <<paused, mode, commands, commandsOpen, events, timer, window, llm, chunks,
                 question, environment, taken>>

\* SttReadinessClosed
StartFails ==
  /\ pc = "starting"
  /\ pc' = "failed"
  /\ UNCHANGED <<paused, mode, commands, commandsOpen, events, timer, window, llm, chunks,
                 question, environment, taken>>

\* Faulty: the timer is stopped, and the text stays.
FaultyDiscard ==
  /\ UNCHANGED window
  /\ DisarmTimer
  /\ taken' = {}

Discard ==
  /\ window' = DiscardPending(window)
  /\ DisarmTimer
  /\ taken' = {}

TakesCommand == pc = "select" /\ commandsOpen /\ commands # <<>> /\ commands' = Tail(commands)

SetPaused ==
  /\ TakesCommand
  /\ \/ /\ Head(commands) = "pause"
        /\ outputOpen
        /\ paused' = TRUE
        /\ Discard
     \/ /\ Head(commands) = "resume"
        /\ paused' = FALSE
        /\ UNCHANGED <<timer, window, taken>>
  /\ UNCHANGED <<pc, mode, commandsOpen, events, llm, chunks, question, environment>>

\* Faulty: any command sets the mode.
FaultySetMode ==
  /\ TakesCommand
  /\ outputOpen
  /\ mode' = Head(commands)
  /\ Discard
  /\ UNCHANGED <<pc, paused, commandsOpen, events, llm, chunks, question, environment>>

SetMode ==
  /\ TakesCommand
  /\ Head(commands) \in {"Voice", "LiveCoding"}
  /\ outputOpen
  /\ mode' = Head(commands)
  /\ Discard
  /\ UNCHANGED <<pc, paused, commandsOpen, events, llm, chunks, question, environment>>

CommandsEnd ==
  /\ pc = "select"
  /\ commandsOpen
  /\ commands = <<>>
  /\ ~appOpen
  /\ commandsOpen' = FALSE
  /\ UNCHANGED <<pc, paused, mode, commands, events, timer, window, llm, chunks, question,
                 environment, taken>>

\* commands.recv() is not ready, or its branch is off: the other branches are polled.
PollCommands ==
  /\ pc = "select"
  /\ commandsOpen => commands = <<>> /\ appOpen
  /\ pc' = "polled"
  /\ UNCHANGED <<paused, mode, commands, commandsOpen, events, timer, window, llm, chunks,
                 question, environment, taken>>

\* None of them is ready: the worker sleeps until it is woken.
PollPending ==
  /\ pc = "polled"
  /\ events = <<>> /\ sttOpen
  /\ pc' = "select"
  /\ UNCHANGED <<paused, mode, commands, commandsOpen, events, timer, window, llm, chunks,
                 question, environment, taken>>

TimerRuns == pc = "polled" /\ armed /\ ~paused

\* An interim that is not final yet gets one more window.
Defers == HasUnfinalizedInterim(window) /\ ~deferred

TimerDefers ==
  /\ TimerRuns
  /\ Defers
  /\ deferred' = TRUE
  /\ pc' = "select"
  /\ UNCHANGED <<paused, mode, commands, commandsOpen, events, armed, pendingEnd, window, llm,
                 chunks, question, environment, taken>>

TimerFlushes ==
  /\ TimerRuns
  /\ ~Defers
  /\ outputOpen
  /\ Flush(window, "inactivity_timeout", NoTime, "select")
  /\ UNCHANGED <<paused, mode, commands, commandsOpen, events, llm, chunks, environment, taken>>

-----------------------------------------------------------------------------
(* Recognition events *)

\* The words a transcript covers.
Segment(e) == [i \in 1..(e.to - e.from) |-> e.from + i]

\* last_word_end_ms of an event: the end of its last word that has one.
LastWordEnd(text) ==
  LET ends == {i \in 1..Len(text) : text[i] \in Timed}
  IN  IF ends = {} THEN NoTime ELSE text[Max(ends)]

TakesEvent(kind) ==
  pc = "polled" /\ events # <<>> /\ Head(events).kind = kind /\ events' = Tail(events)

IgnoreTranscript ==
  /\ TakesEvent("Transcript")
  /\ paused
  /\ pc' = "select"
  /\ UNCHANGED <<paused, mode, commands, commandsOpen, timer, window, llm, chunks, question,
                 environment, taken>>

\* Faulty: the timer is reset, not armed.
FaultyHear(w, text) ==
  /\ window' = w
  /\ UNCHANGED armed
  /\ deferred' = FALSE
  /\ pendingEnd' = IF LastWordEnd(text) = NoTime THEN pendingEnd ELSE LastWordEnd(text)

\* The part of a transcript event that updates the assembler and the timer.
Hear(w, text) ==
  /\ window' = w
  /\ armed' = TRUE
  /\ deferred' = FALSE
  /\ pendingEnd' = IF LastWordEnd(text) = NoTime THEN pendingEnd ELSE LastWordEnd(text)

EndsQuestion(w, e) == e.isFinal /\ e.speechFinal /\ ~BoundaryDeferral(Preview(w))

Transcript ==
  LET e == Head(events)
      w == PushTranscript(window, Segment(e), e.isFinal)
  IN  /\ TakesEvent("Transcript")
      /\ ~paused
      /\ outputOpen
      /\ taken' = taken \cup ToSet(Segment(e))
      /\ IF EndsQuestion(w, e)
         THEN Flush(w, "speech_final", NoTime, "select")
         ELSE Hear(w, Segment(e)) /\ pc' = "select" /\ UNCHANGED question
      /\ UNCHANGED <<paused, mode, commands, commandsOpen, llm, chunks, environment>>

\* Faulty: any utterance end closes what is pending.
FaultyIsStale(end) == FALSE

\* The pending text has words later than the utterance that ended.
IsStale(end) == end # NoTime /\ pendingEnd # NoTime /\ end < pendingEnd

UtteranceEnd ==
  LET e == Head(events)
  IN  /\ TakesEvent("UtteranceEnd")
      /\ outputOpen
      /\ IF IsStale(e.end) \/ BoundaryDeferral(Preview(window))
         THEN pc' = "select" /\ UNCHANGED <<timer, window, question>>
         ELSE Flush(window, "utterance_end", e.end, "select")
      /\ UNCHANGED <<paused, mode, commands, commandsOpen, llm, chunks, environment, taken>>

\* events.recv() returns None: the recogniser has ended, and what is pending
\* is submitted as it is.
EventsEnd ==
  /\ pc = "polled"
  /\ events = <<>> /\ ~sttOpen
  /\ outputOpen \/ ~IsLongEnough(Preview(window))
  /\ Flush(window, "shutdown", NoTime, "done")
  /\ UNCHANGED <<paused, mode, commands, commandsOpen, events, llm, chunks, environment, taken>>

-----------------------------------------------------------------------------
(* Submitting the question *)

\* resolve() returns, with a context or an error, by its deadline.
Resolved ==
  /\ pc = "resolving"
  /\ outputOpen
  /\ pc' = "sending"
  /\ UNCHANGED <<paused, mode, commands, commandsOpen, events, timer, window, llm, chunks, question,
                 environment, taken>>

\* The flush returns to the loop, or the worker to its caller.
AfterSend ==
  IF ~outputOpen THEN "failed" ELSE IF question.reason = "shutdown" THEN "done" ELSE "select"

SendRequest ==
  /\ pc = "sending"
  /\ llmOpen
  /\ LlmQueueMax = 0 \/ Len(llm) < LlmQueueMax
  /\ llm' = Append(llm, question.id)
  /\ chunks' = chunks + 1
  /\ pc' = AfterSend
  /\ question' = NoQuestion
  /\ UNCHANGED <<paused, mode, commands, commandsOpen, events, timer, window, environment, taken>>

\* The LLM queue is closed.
SendFails ==
  /\ pc = "sending"
  /\ ~llmOpen
  /\ pc' = "failed"
  /\ UNCHANGED <<paused, mode, commands, commandsOpen, events, timer, window, llm, chunks, question,
                 environment, taken>>

\* OutputChannelClosed: what the worker does next shows something, which cannot be
\* sent.
EmitFails ==
  /\ ~outputOpen
  /\ \/ pc = "select" /\ commandsOpen /\ commands # <<>> /\ Head(commands) # "resume"
     \/ TimerRuns /\ ~Defers
     \/ pc = "polled" /\ events # <<>> /\ ~(paused /\ Head(events).kind = "Transcript")
     \/ pc = "polled" /\ events = <<>> /\ ~sttOpen /\ IsLongEnough(Preview(window))
     \/ pc = "resolving"
  /\ pc' = "failed"
  /\ UNCHANGED <<paused, mode, commands, commandsOpen, events, timer, window, llm, chunks, question,
                 environment, taken>>

-----------------------------------------------------------------------------
(* The tasks around the worker *)

worker == <<pc, paused, mode, commandsOpen, timer, window, chunks, question>>

\* The worker has not dropped the receivers; what happens around one that has is left
\* out.
Receives == pc \notin {"done", "failed"}

Issue(c) ==
  /\ appOpen /\ Receives
  /\ issued < MaxCommands
  /\ issued' = issued + 1
  /\ commands' = Append(commands, c)
  /\ UNCHANGED <<worker, events, llm, appOpen, recogniser, llmOpen, outputOpen, taken>>

\* Bound: of the four tasks one ends, or the application and the recogniser both.
AppEnds ==
  /\ appOpen /\ Receives
  /\ llmOpen /\ outputOpen
  /\ appOpen' = FALSE
  /\ UNCHANGED <<worker, commands, events, llm, recogniser, llmOpen, outputOpen, issued, taken>>

Sends(e) ==
  /\ sttOpen /\ Receives
  /\ Len(events) < MaxWaiting /\ reports < MaxReports
  /\ reports' = reports + 1
  /\ events' = Append(events, e)

\* A transcript: final ones follow one another, an interim one is of what follows the
\* last of them.
Recognise(b, isFinal, speechFinal) ==
  /\ b > finalised
  /\ speechFinal => isFinal
  /\ Sends([kind |-> "Transcript", from |-> finalised, to |-> b, isFinal |-> isFinal,
            speechFinal |-> speechFinal, end |-> NoTime])
  /\ finalised' = IF isFinal THEN b ELSE finalised
  /\ UNCHANGED <<worker, commands, llm, appOpen, sttOpen, llmOpen, outputOpen, issued, taken>>

\* An utterance end, late or not.
RecogniseEnd(end) ==
  /\ Sends([kind |-> "UtteranceEnd", from |-> finalised, to |-> finalised, isFinal |-> FALSE,
            speechFinal |-> FALSE, end |-> end])
  /\ UNCHANGED <<worker, commands, llm, appOpen, sttOpen, finalised, llmOpen, outputOpen, issued,
                 taken>>

RecogniserEnds ==
  /\ sttOpen /\ Receives
  /\ llmOpen /\ outputOpen
  /\ sttOpen' = FALSE
  /\ UNCHANGED <<worker, commands, events, llm, appOpen, finalised, reports, llmOpen, outputOpen,
                 issued, taken>>

LlmTakes ==
  /\ llmOpen /\ Receives
  /\ llm # <<>>
  /\ llm' = Tail(llm)
  /\ UNCHANGED <<worker, commands, events, environment, taken>>

LlmEnds ==
  /\ llmOpen /\ Receives
  /\ outputOpen /\ appOpen /\ sttOpen
  /\ llmOpen' = FALSE
  /\ llm' = <<>>
  /\ UNCHANGED <<worker, commands, events, appOpen, recogniser, outputOpen, issued, taken>>

OutputEnds ==
  /\ outputOpen /\ Receives
  /\ llmOpen /\ appOpen /\ sttOpen
  /\ outputOpen' = FALSE
  /\ UNCHANGED <<worker, commands, events, llm, appOpen, recogniser, llmOpen, issued, taken>>

-----------------------------------------------------------------------------
Poll ==
  \/ SetPaused \/ SetMode \/ CommandsEnd \/ PollCommands \/ PollPending
  \/ IgnoreTranscript \/ Transcript \/ UtteranceEnd \/ EventsEnd
Timer == TimerDefers \/ TimerFlushes
Submit == Resolved \/ SendRequest \/ SendFails

Stopped == pc \in {"done", "failed"} /\ UNCHANGED vars

Next ==
  \/ Start \/ StartFails
  \/ SetPaused \/ SetMode \/ CommandsEnd \/ PollCommands \/ PollPending
  \/ TimerDefers \/ TimerFlushes
  \/ IgnoreTranscript \/ Transcript \/ UtteranceEnd \/ EventsEnd
  \/ Resolved \/ SendRequest \/ SendFails \/ EmitFails
  \/ \E c \in Commands : Issue(c)
  \/ AppEnds
  \/ \E b \in Word : \E isFinal, speechFinal \in BOOLEAN : Recognise(b, isFinal, speechFinal)
  \/ \E end \in {NoTime} \cup Timed : RecogniseEnd(end)
  \/ RecogniserEnds \/ LlmTakes \/ LlmEnds \/ OutputEnds
  \/ Stopped

Spec == Init /\ [][Next]_vars

\* The runtime polls a task that can go on; resolve() has a deadline, and the LLM
\* worker gives every request a timeout and comes back for the next one.  A timer that
\* is not reset expires once and is ready in every poll from then on, before the events:
\* that is the strong fairness.  The recogniser need not speak or end, and the
\* application need not send anything.
FairSpec ==
  /\ Spec
  /\ WF_vars(Start \/ Poll \/ Submit \/ EmitFails) /\ SF_vars(Timer \/ EmitFails)
  /\ WF_vars(LlmTakes)

-----------------------------------------------------------------------------
\* The type invariant: the locals of the loop, the assembler and the channels
\* around the worker.
TypeOK ==
  /\ pc \in {"starting", "select", "polled", "resolving", "sending", "done", "failed"}
  /\ paused \in BOOLEAN
  /\ mode \in {"Voice", "LiveCoding"}
  /\ commands \in Seq(Commands)
  /\ events \in Seq(Event)
  /\ appOpen \in BOOLEAN /\ commandsOpen \in BOOLEAN /\ sttOpen \in BOOLEAN
  /\ llmOpen \in BOOLEAN /\ outputOpen \in BOOLEAN
  /\ armed \in BOOLEAN /\ deferred \in BOOLEAN
  /\ pendingEnd \in Nat
  /\ window \in Window
  /\ finalised \in Nat /\ reports \in Nat /\ issued \in Nat /\ chunks \in Nat
  /\ question \in Question
  /\ llm \in Seq(Nat)
  /\ taken \subseteq Word

\* Every question shown becomes one request, in the order shown and with
\* consecutive ids, and the worker is never more than one request behind.
QuestionsBecomeRequests ==
  /\ pc \in {"resolving", "sending"} =>
       question.id = chunks /\ window.sequence = chunks + 1
  /\ pc \in {"starting", "select", "polled", "done"} =>
       question = NoQuestion /\ window.sequence = chunks
  /\ Len(llm) <= chunks
  /\ \A i \in 1..Len(llm) : llm[i] = chunks - Len(llm) + i - 1

\* A question holds only words of events that the worker has taken since the last
\* pause or mode change it obeyed: what was pending then is thrown away.  It says
\* nothing of when they were spoken: an event that still waits in the channel when the
\* worker takes the command is not thrown away.
QuestionTakenSinceDiscard == ToSet(question.words) \subseteq taken

\* The words of a question are in the order they were spoken and none is
\* repeated, however finals and interims alternated.
QuestionWordsInOrder ==
  \A i, j \in 1..Len(question.words) : i < j => question.words[i] < question.words[j]

\* An utterance end that carries a time never takes words that ended later:
\* one that arrives late does not cut the utterance after it in two.
UtteranceEndCoversQuestion ==
  (question.reason = "utterance_end" /\ question.end # NoTime) =>
    \A w \in ToSet(question.words) \cap Timed : w <= question.end

\* A question is of one turn of speech: taken since the last discard, in order, and cut
\* where it ends.
QuestionIsOneTurn ==
  QuestionTakenSinceDiscard /\ QuestionWordsInOrder /\ UtteranceEndCoversQuestion

\* Pending text is eventually submitted or thrown away, and the worker is
\* back for more: a deferred boundary, an interim that never becomes final, a
\* full LLM queue or an application that is gone does not hold it for ever.
PendingTextSettles ==
  Preview(window) # <<>> ~>
    (Preview(window) = <<>> /\ pc \in {"select", "polled", "done"}) \/ pc = "failed"
=============================================================================
