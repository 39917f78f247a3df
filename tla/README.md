# A verification project for mague-rc

TLA+ models of the concurrent core of `mague-rc`, the TLC runs that check them on
small instances, and proofs that TLAPS checks. Paths below are relative to the
repository; `src/src/` is its crate.

`mague-rc` listens to an interviewer and, optionally, to the candidate, has the speech
recognised by Deepgram, cuts the words into questions, looks up context in a local
knowledge index, asks an LLM, and streams the answer into an overlay or a terminal. It
is one process of tokio tasks joined by channels, and a GTK thread:

```
 ffmpeg --frames--> counted queue --> Deepgram STT --events--> transcript worker --requests--> counted queue --> LLM worker
 (per speaker)      (per speaker)     (per speaker)            (per speaker) | ^                                  |
                                                         searches  v | results                                   |
                                                           knowledge worker                                      |
 overlay controls --commands--> application --commands--> transcript workers, LLM worker                         |
       ^                             |                              |                                             |
       +------- output worker <------+------------------------------+---------------------------------------------+
```

## 1. Inventory

| part | source | state | operations | what is hard | what makes it correct |
|---|---|---|---|---|---|
| counted queues | `audio/source.rs`, `llm/queue.rs` | a tokio channel and an atomic counter, no lock | `send`, `recv`, `len`, a send cancelled or failed | counter and channel change at different moments; permits of cancelled sends | the counter never wraps and is exact but for what is under way; FIFO, nothing duplicated |
| transcript window, boundary classifier | `transcript/window.rs`, `app/boundary.rs` | finals, interim, `sent_interim`, sequence | `push_transcript`, `preview`, `finish`, `discard_pending`, `boundary_deferral` | interims are replaced, finals repeat them | words in order, none twice |
| transcript worker | `app/transcript_worker.rs` | paused, mode, timer, deferral flag, last word end | commands, timer, STT events, flush (show, resolve, queue) | biased `select!`, awaits in the middle of a flush, a full LLM queue, events that wait in their channel meanwhile | no pending text waits for ever, none crosses a pause or a mode change, every question shown is sent |
| retrieval pipeline, knowledge loop | `app/retrieval.rs`, `knowledge/mod.rs` | turn, last search, accumulated and completed results | `prefetch`, `resolve`, `accept_result`, `reset`; search, skip | skipped, late, failed and reused searches | the awaited search can answer; nothing of another turn in a context; the wait ends |
| LLM worker | `llm/worker.rs`, `history.rs`, `live_coding.rs` | history, live-coding state, current answer | take a request, delta, complete, fail, clear | a clear during an answer, partial answers | history is the last completed answers; a clear the worker had seen is obeyed by the next request |
| output snapshot | `output/state.rs` | conversation, current id, status | `apply` | events of three senders mixed | answers whole, turns settled |
| Deepgram recogniser | `stt/deepgram.rs`, `stt/protocol.rs` | retried frame, retry count, four tasks per connection | connect, reconnect, write, read, keepalive, close | the tasks end in any order and take the frame with them | frames in order, none skipped; shutdown returns |
| supervision | `app.rs` | task handles, shutdown channel, queue guards | spawn, `select!`, stop, join, verdict | tasks end, fail, panic or hang in any order | it returns, unless an aborted task never comes to an `await`; Ok only for a clean stop |
| overlay controls | `overlay/mod.rs`, `app.rs` | paused, mode shown, stopping | press, show, forward | the overlay believes what comes back | everyone ends up where the application is |
| capture | `audio/ffmpeg.rs` | child process, partial frame, sequence number | start, read, cut, send, wait, stop, restart | a child that dies, stalls or hangs at any byte; a full queue; an aborted task | frames whole and numbered without a gap, no child left behind, a stop returns |
| output worker: telemetry | `telemetry.rs`, `telemetry/model.rs` | per-request metrics, speech times, utterances, segments, revisions | record, forward, finish | events of many senders, some of which name no request; failures of files and of the sink inside | each note at its request, a summary only of a whole run |
| output worker: terminal | `output/terminal.rs`, `output/channel.rs` | active answer, pending events, statistics | render, defer, flush, forward | events that come during an answer | each event shown once, in order, never inside an answer |
| line diff | `llm/live_coding.rs`, `overlay/mod.rs` | the text buffer of the overlay | diff, edit, mark, replace | offsets; edits of the worker's code on the overlay's buffer | the buffer holds the code that is shown |
| index, embedding and LLM clients, configuration, command line, widgets, echo guard | `knowledge/`, `llm/openrouter.rs`, `config.rs`, `main.rs`, `overlay/style.rs`, `control/terminal.rs` | | | pure I/O, text, real arithmetic, presentation | not modelled |

`PROJECT.json` names the hazards of this code at their lines, the properties that cover
them, and, for those none covers yet, why.

## 2. Modules and how they correspond to the code

Each action stands for one handler, or for one stretch of it between two `await`s where
others can run. Channels are sequences; an unbounded channel is a sequence whose
senders are bounded. Variables that exist only to state a property are commented
`history`. A definition `FaultyX` in front of `X` (and `RetriedFail`
in front of `Fail`) is a plausible bug of the code `X`
models; it is used by nothing, and a property that does not notice it in place of `X`
would say nothing.

| module | models |
|---|---|
| `FifoChannel` | what a queue promises: messages are accepted in each producer's order and delivered once, in the order accepted, until the receiver closes. The abstract specification. |
| `CountedQueue` | `AudioFrameSender`, `LlmRequestSender` and their receivers. `Reserve` is `QueueReservation::new`, `Push` the channel's send, `Cancel` and `Fail` its `Drop`, `Pop` and `Decrement` the two halves of `recv()`. `Block`, `HandOn` and `LeaveQueue` are tokio's permits. `INSTANCE FifoChannel`. |
| `CountedQueueProofs`, `TranscriptWorkerProofs`, `RetrievalProofs`, `LlmWorkerProofs`, `DeepgramSttProofs`, `AudioCaptureProofs`, `OutputWorkerProofs`, `ApplicationProofs` | the theorems about the module each is named after, `ApplicationProofs` about `Supervisor` and `Session`, with the inductive invariant and the lemmas they rest on (section 4) |
| `TranscriptWindow` | operators for the assembler and the classifier. A text is a sequence of words, one word counts as one character of `MIN_UTTERANCE_CHARS`, and `WordClass` says what the classifier sees in a word. |
| `TranscriptWorker` | the loop of `run_transcript_windows_with_retrieval`. The biased `select!` polls its commands in one step (`SetPaused`, `SetMode`, `CommandsEnd`; `PollCommands` when there is none) and the timer and the events in another (`TimerDefers`, `TimerFlushes`, `Transcript`, `UtteranceEnd`, ...; `PollPending` when it goes to sleep), so that a command may come between the two. What the recogniser sends (`Recognise`, `RecogniseEnd`) waits in the channel `events` until the worker takes it. `Flush` shows the question, `Resolved` ends the wait for its context, `SendRequest` its wait for the queue. |
| `Retrieval` | `RetrievalPipeline` and `spawn_knowledge_worker`. `Hear` is `prefetch`, `Resolve` the start of `resolve()`, `TakeResult`, `Deadline` and `ResultsClosed` the arms of its wait, `Finish` the context it builds. Scores are three classes: none, `min_score`, and the margin above it. |
| `AppSnapshot` | `AppSnapshot::apply` as an operator on a record |
| `LiveCodingDiff` | `changed_line_numbers`, `code_edits`, `line_offsets`, and what `refresh_live_coding` does to the text buffer. A code is a sequence of lines, a line a sequence of characters that may end with a newline. The tables of the longest common subsequence are recursive functions. `IsExact` is the reference definition: it searches all subsequences. |
| `LlmWorker` | `LlmWorker::run`, `complete_request`, `ChatHistory` and the live-coding state, with the sink applying `AppSnapshot!Apply` and the overlay its edits (`LiveCodingDiff`). The biased `select!` of `run` is again two steps, `TakeCommand` or `PollCommands`, then `TakeRequest`, `RequestsEnd` or `PollPending`: a clear may be sent between them. An answer is a sequence of deltas of its request; the code it writes is `Code[request]`. `ClearHistory` and `AnnounceCleared` are the two sends of the application. |
| `DeepgramStt` | `run_loop` (`Top`, `Connect...`, `Join`, `WaitEnds`) and the four tasks of `run_connection`: sender, reader, keepalive, closer. |
| `AudioCapture` | `FfmpegAudioSource`: `run_loop` (`Enter` to `Delay`), `read_frames` (`Read...`, `Send...`), `stop_child` (`Stop`, `Reap`, `StopTimeout`), and ffmpeg itself (`Write`, `CloseOutput`, `Exit`). A byte is the process that wrote it and its place. |
| `Supervisor` | `run_with_sink_options`: status of every task, the loop, the order of joins, the verdict. A join whose time is over aborts the task and awaits it: one that is at an `await` ends there (`JoinTimeout`), one in a synchronous call holds the application (`JoinSticks`, pc "stuck") until it ends (`Cancelled`, `StuckJoin`), which may be never. |
| `Session` | overlay controls, command forwarding, statuses on their way back. Its names differ from those of `Supervisor`, so that one module can prove about both. |
| `TelemetryRecorder` | `TelemetryRecorder::record` and `finish` as operators on a record. A time is the number of the interviewer's questions before it, which tells one question's speech from another's. |
| `TerminalRenderer` | `TerminalRenderer::render` and its pending queue as operators on a record; the terminal is a sequence of blocks. `Forward` is the overlay's `ChannelOutputSink`. |
| `OutputWorker` | `TelemetryOutputSink::run` with the sink inside as a task of its own, its producers reduced to what they emit and in which order, and the overlay that quits (`Quit`). INSTANCEs the two above. |
| `MC*` | instances for TLC |

The components interact through channels only, so they are checked one at a time, each with
the behaviour of its neighbours as actions that may come at any time: the LLM queue
of `TranscriptWorker` is a sequence, which is what `CountedQueue` is proved to
implement; the wait of `resolve()` is an action that is fair in `TranscriptWorker`
because `Retrieval` shows that it ends; the queue of `AudioCapture` is again a FIFO of
bounded length; `PipelineStops` is fair in `Session` because
`Supervisor` shows that the pipeline returns, but for a task that is in a synchronous call
for ever; a recogniser that ends well after a
shutdown in `Supervisor` is `ShutdownReturns` of `DeepgramStt`.

## 3. Runs

Times are with two workers.

| run | states, time | what it shows |
|---|---|---|
| `CountedQueue` | 29 thousand, 8 s | `CounterExact`: whatever interleaving of reservation, push, cancellation, pop and subtraction, `len()` is exact but for what is under way. `ImplementsFifo`: refinement of `FifoChannel`. `SendReturns`: a permit granted to a send that was cancelled goes on to the next. |
| `TranscriptWorker` | 1.33 million, 2 min 50 s | `QuestionsBecomeRequests`: each question shown is sent, in order. `QuestionIsOneTurn`: nothing the worker had taken before it obeyed a pause or a mode change is asked after it, the words of a question are in order and none twice, and a late utterance end does not cut the next utterance. `PendingTextSettles`: text in the assembler is submitted or thrown away, and the worker comes back for more, or it fails. |
| `Retrieval` | 141 thousand, 13 s | `AwaitedCanAnswer`: `resolve()` never waits for a search the worker skipped, or for another text. `ContextFromThisTurn`: late answers stay out. `ResolveReturns`. |
| `LlmWorker` | 574 thousand, 2 min 50 s | `ClearedHistoryIsNotAsked`: a clear sent before the worker last looked at its commands, during an answer for instance, takes effect before the next request. `MemoryFollowsAnswers`: the history is the most recent completed answers, the live-coding state one revision per answer with the roles of the speakers kept apart. `ScreenFollowsWorker`: the snapshot, with the events of three senders mixed. `CodeIsEditedInPlace`: the diff against its reference definition for every pair of 66 codes, and the text buffer edited with it. `TurnsAreSettled`. |
| `DeepgramStt` | 407 thousand, 100 s | `NoFrameIsSkipped`, `FramesKeepTheirOrder`: over any number of broken connections a frame is written again or the next one follows. `TasksEndWithConnection`, `CancelledConnectionEnds`: the four tasks end with their connection, the sender only after the reader. `ShutdownReturns`. |
| `AudioCapture` | 705 thousand, 70 s | `FramesAreWhole`: frames of one process each, in its order, numbered without a gap over restarts. `ReturnIsJustified`: a good end means that everything was sent. `NoFfmpegLeftBehind`: also when the task is aborted. `CaptureStops`: during a read, a wait, a full queue or a child that does not die. |
| `Supervisor` | 1.40 million, 2 min 40 s | `EndIsTrue`: Ok, the last event and the errors agree with what the tasks did; no recogniser is starved. `ShutdownReturns`: whatever never comes at an `await`, the application returns; it does not return while a task it has aborted is in a synchronous call. |
| `Session` | 731 thousand, 80 s | `CommandsReachEveryone`: what is in flight brings both workers to the pause and everyone to the mode of the application. `OverlayExits`: also when the pipeline fails. |
| `OutputWorker` | 476 thousand, 100 s | `ScreenFollowsEvents`: what comes during an answer is shown after it, once and in order. `RequestsAreAttributed`: failures, revisions and speech times, which name no request, go to the right one. `SummaryIsComplete`: a summary is of a whole run, every word once. `SinkEnds`: the two tasks end when the senders are gone, whatever fails. |

Three runs end with a violation on purpose: each states what a document of the
repository says, and TLC finds the behaviour in which the code does otherwise.

| run | says | does |
|---|---|---|
| `RetrievalStale` | `src/README.md:108`: "stale results from an earlier utterance are discarded" | An utterance shorter than `MIN_UTTERANCE_CHARS` returns (`transcript_worker.rs:506`) before `resolve()`, and nothing resets the pipeline. Its searches stay in the turn, and the next question is sent with what they found. |
| `SessionPause` | `src/README.md:51`: the controls pause and resume recognition | `Listening`, which a recogniser emits at each connect, makes the overlay believe it is not paused (`overlay/mod.rs:159`), also while the workers are. The button then pauses what is paused. |
| `OverlayExit` | `src/README.md:72`: the summary "is written on graceful shutdown" | `Stopped` is forwarded like any event, and the overlay quits at it (`overlay/mod.rs:364`). The summary is written later, by a thread whose handle was dropped when it was spawned: the process may be gone first. |

Seven more things that the models show, and that no property promises, so that they are
conditions of passing ones or left to the reader:

- A question asked from an interim at the timeout is asked again when its final
  transcript comes: `finish()` clears `sent_interim` (`window.rs:75`). The test
  `matching_final_does_not_repeat_sent_interim` (`window.rs:187`) is about `flush()`,
  which keeps it and which the worker does not call.
- A benchmark stopped with Ctrl+C before its recogniser is connected returns an error: the
  tasks that wait for readiness take its end for a failure. `EndIsTrue` excepts it.
- The application first sends the command to clear the history and then announces it
  (`app.rs:361-373`). A worker that clears and completes a live-coding answer in
  between has its new state wiped from the screen by the announcement, until its next
  answer. `ScreenFollowsWorker` excepts it (`overtaken`).
- A pause or a mode change throws away what the assembler holds, not the events that wait
  in the channel. While a flush waits for a context or for the LLM queue they pile up, and
  the biased `select!` takes the commands before them (`transcript_worker.rs:93-151`): words
  recognised before a mode change are then asked in the new mode, and words recognised
  before a pause that is over by the time they are taken are asked after it.
  `QuestionIsOneTurn` speaks of the words the worker has taken, and says nothing of those.
- A clear that is sent when the LLM worker has polled its commands and not yet its requests
  is obeyed after the request it takes then (`llm/worker.rs:67-91`): that one request is
  asked with the history the user has cleared. `ClearedHistoryIsNotAsked` speaks of the
  clears sent before the last look at the commands (`known`).
- `finish_task` aborts a task whose time is over and awaits it, without a timeout
  (`app.rs:631-632`). A task that is in a synchronous call, a write to a terminal that does not
  read (`output/terminal.rs:32-34`, and every task's log lines) or to a file of the
  telemetry, does not see the abort, and the application does not return before the call
  does. `ShutdownReturns` excepts a task that never comes back (pc "stuck").
- When ffmpeg cannot be started, read or waited for while it plays a file, the file is
  played again from its beginning: only an exit counts as the end of a playback.

### Bounds

Every bound is a CONSTANT commented `bound:` or is named where it is used.

- `CountedQueue`: one place, three producers, two sends each: two senders wait for the
  permit of one pop, one of them is cancelled, and each can send again. Values of the
  bounds do not matter for safety, which is proved for all of them.
- `TranscriptWorker`: three words, one of each class that matters to the boundary
  decision (plain, dangling, request), words 1 and 3 with a time; three events, of which two
  may wait in the channel, so that an interim, its final and an utterance end or a new
  utterance fit in one behaviour, and two of them pile up behind a flush; two commands out
  of pause, resume and one mode (the other is the one it starts in), so that both a pause that
  is over and a change of mode come before what waits; an LLM queue of one place, which fills.
  Of the application, the recogniser, the LLM worker and the output worker one ends in a
  behaviour, or the first two do. What is sent to a worker that has ended is left out.
  A transcript that is the end of speech is a final one, the only kind the code asks it of.
- `Retrieval`: one text that is a question and one too short to be; two snippets that
  compete for one place; three utterances and four searches, so that a search of the
  first turn can still be answered in the third.
- `LlmWorker`: two speakers, two questions, two deltas, one clear, a history of one pair,
  three events on the channel (the largest step emits two): an answer of one, a waiting
  question of the other, a history that overflows, and a clear between two deltas. The codes of
  the answers share a line, differ in two places, shrink to one line and lack the last newline.
  `Codes`, for the diff itself, are all codes of at most three lines out of three, with and
  without the last newline.
- `DeepgramStt`: a command channel of one place instead of four, so that one `KeepAlive`
  is in the way; two frames, one to be retried and one behind it. The number of
  connections is not bounded (the retry count stops where the delay does).
- `Supervisor`: one question, at most one panic, all three kinds of run as initial states.
- `AudioCapture`: frames of two bytes, of three, and of none at all; four bytes a process,
  so that a process may end inside its first and its second frame; two processes, one restart; a queue
  of one place and an unbounded one.
- `Session`: three presses and two statuses: two controls with a third in flight, and a
  recogniser that connects meanwhile.
- `OutputWorker`: the scenarios of `MCOutputWorker` bound each run to the events one question
  is about: two speakers at once, several notes during an answer, speech over two questions,
  several segments and utterances, clears between live-coding answers, a retrieval with
  failures, and the same into the overlay. Two events wait on the output channel and one
  for the sink inside; both channels are unbounded in the code, and a longer queue only delays.

### Deadlock

Every run but `OutputWorker` and `OverlayExit` checks deadlock. A module whose process really
stops has a stuttering action for that state (`Stopped`, `Ended`, `Returned`), guarded by
it. In `OutputWorker` the producers are scenarios that come to an end, the process may be
gone, and a sink that failed leaves what is behind it: it may stop in many states, and
`SinkEnds` says in which the sink does.

### Fairness and why the code justifies it

Weak fairness stands for the tokio runtime, which polls a task that is ready. What a
select! that is not biased may do, picking another ready branch again and again, is
strong fairness only where a random choice cannot go on for ever (`TakeCommand` of
`DeepgramStt`) or where tokio's semaphore is FIFO (`CloserSends`). Timers are fair:
they expire. In `TranscriptWorker` that is strong fairness: a timer that nothing
resets is ready in every poll from its expiry on, before the events, though the worker is in
that poll only now and then. Every transcript resets it, and a run has a bounded number of
them: `PendingTextSettles` is about a speaker who pauses. In `AudioCapture` only the capture is fair: ffmpeg may stall, and may not
even die when killed. In `OutputWorker` the two tasks of the sink are, and no producer. Nothing is assumed of the network, the server, the provider, the user, or
of who may cancel, fail, panic or end. In particular a write on a socket may hang for
ever, and `ShutdownReturns` of `DeepgramStt` says so; the application's timeout takes
over then (`ShutdownReturns` of `Supervisor`): the write is an `await`, where the abort finds the
task. Nothing is assumed of a task that is aborted in a synchronous call. The knowledge worker is joined without
a timeout, so the model needs its fairness: its only await is a request whose HTTP
client has one (`knowledge/openrouter.rs:36`).

## 4. Proofs

Eight modules hold the proofs, each of the component it is named after, and
`ApplicationProofs` of `Supervisor` and `Session`, the two sides of the application. They prove, for every
value of the constants that satisfies the assumptions, that an inductive invariant holds:
`Init => IInv` (`InitIInv`), `IInv /\ [Next]_vars => IInv'` (`NextIInv`, from one lemma per
action or per group of actions that disturb the same conjuncts), and so `Spec => []IInv`; the
theorems follow from `IInv`. Every `IInv` was checked with TLC on the instance of the
component's run before it was proved.

| module | theorem | states |
|---|---|---|
| `CountedQueueProofs` | `Invariance` | `Spec => []IInv` |
| | `TypeCorrect` | `Spec => []TypeOK`: in particular the counter is a natural number, so no `fetch_sub` wraps it |
| | `CounterExactHolds` | `Spec => []CounterExact` |
| | `GaugeBracketsHolds` | `Spec => []GaugeBrackets` |
| | `Refinement` | `Spec => ImplementsFifo` |
| `TranscriptWorkerProofs` | `TypeCorrect` | `Spec => []TypeOK` |
| | `EveryQuestionIsRequested` | `Spec => []QuestionsBecomeRequests` |
| | `QuestionsAreOneTurn` | `Spec => []QuestionIsOneTurn` |
| `RetrievalProofs` | `TypeCorrect` | `Spec => []TypeOK` |
| | `WaitsCanBeAnswered` | `Spec => []AwaitedCanAnswer` |
| | `TurnsDoNotMix` | `Spec => []ContextFromThisTurn` |
| `LlmWorkerProofs` | `TypeCorrect` | `Spec => []TypeOK` |
| | `MemoryFollows` | `Spec => []MemoryFollowsAnswers` |
| | `ScreenFollows` | `Spec => []ScreenFollowsWorker` |
| | `ClearedIsNotAsked` | `Spec => ClearedHistoryIsNotAsked`, an action property |
| `DeepgramSttProofs` | `TypeCorrect` | `Spec => []TypeOK` |
| | `FramesGoInOrder` | `Spec => FramesKeepTheirOrder`, an action property |
| | `NoneSkipped` | `Spec => []NoFrameIsSkipped` |
| | `NoTaskLeft` | `Spec => []TasksEndWithConnection` |
| `AudioCaptureProofs` | `TypeCorrect` | `Spec => []TypeOK` |
| | `NothingLeftBehind` | `Spec => []NoFfmpegLeftBehind` |
| | `WholeFramesOnly` | `Spec => []FramesAreWhole` |
| | `JustifiedReturn` | `Spec => []ReturnIsJustified` |
| `ApplicationProofs` | `SupervisorTypeCorrect` | `Spec => []TypeOK` |
| | `EndTold` | `Spec => []EndIsTrue` |
| | `SessionTypeCorrect` | `SessionSpec => []SessionTypeOK` |
| | `EveryoneIsReached` | `SessionSpec => []CommandsReachEveryone` |
| `OutputWorkerProofs` | `TypeCorrect` | `Spec => []TypeOK` |
| | `EachIsAttributed` | `Spec => []RequestsAreAttributed` |
| | `ScreenFollows` | `Spec => []ScreenFollowsEvents` |
| | `SummaryComplete` | `Spec => []SummaryIsComplete` |

The assumptions are the named ones of the modules. Most only say what kind of thing a constant
is: a number, a finite set. Those with content: `MinUtteranceChars`, `MaxPairs`, `TopK` and
`CommandMax` are not 0 (`config.rs` refuses 0, and the capacity is a constant); a word that has
an end time is a word; `None` is none of the things it stands beside. The capacity of the LLM
queue may be any number, 0 being unbounded.
What bounds a run (`MaxReports`, `MaxBytes`, `MaxSearches` and so on) is an arbitrary number in
the proofs: the theorems hold for behaviours of every length.

### The arguments

`CountedQueue`. `CounterExact` is inductive only together with the typing; `TypeOK` itself
is not a part of the inductive invariant, since that the counter is not negative follows
from `CounterExact`, and `Typing` has an integer there. The refinement needs more.
`WaitersBlocked` says that the wait queue holds blocked producers only, each once, so
a permit that is handed on reaches someone who wants it; `WithinCapacity` counts granted
permits as places taken, which gives the capacity guard of `FifoChannel!Accept`;
`BufferIsSuffix` ties the history to the channel, so that a pop is
`FifoChannel!Deliver`; `HandIsNewest` says that the message in hand is newer than all
its producer had accepted, which is the last guard of `Accept`. Sets of producers grow
and shrink by one (`ProducerSets`); `PushAccepts` and `StepRefines` map the steps.

`TranscriptWorker`. The properties speak of the question shown, whose words were pending for
a long time, so the invariant says the same of what is pending (`PendingIsOneTurn`): it is in
order, and ends before what the first event that waits begins with; all of it was taken since
the last discard; and `pending_last_word_end_ms` is no earlier than any of its timed words, which
is why an utterance end that is not stale covers them. The recogniser may be any number of
events ahead: `EventsFollow` says that each event in the channel begins where the final words
before it end, and the recogniser is where the last of them ends (`From`), so that the one taken
continues what is pending, and what is left continues the one taken. That nothing is
pending while the worker is paused is what allows it to drop events meanwhile.
`EndIsKnown` shows that a later event without times does not spoil the end that was kept.

`Retrieval`. The knowledge worker keeps the newest request it finds; that this is the one
`resolve()` waits for needs `NewestIsLast` (ids grow along the channel, and its last one is
`last_search_id` unless `reset()` forgot it) and `LastIsSomewhere`: the last search is queued,
under way, answered, completed, failed or lost with its worker. Together with `WaitsForLast`
they give `AwaitedCanAnswer`. `Scored` says that no completed report gives a snippet a better
score than the accumulated one, which is of this turn: so every snippet that `Finish` takes
from the final report has one. `drain_ready` takes any number of results: `DrainingIs` shows
by induction that the function the model defines it with exists, `DrainIs` what it does.

`LlmWorker`. The sink is behind the worker by whatever waits in the output channel, so
no relation between the worker and what is shown is inductive. `ScreensAhead` speaks of all
the screens to come: there is a sequence that starts with the screen shown, has one more screen
for each event that waits, and ends with one that agrees with the worker as it is now
(`Settled`). An emitted event adds a screen at the end (`ScreensFollow`), a delivered one takes
the first away. `QuestionsAreUnique` says that a request is shown, queued, taken and
remembered once, which the agreement of the last screen rests on; `ForgottenIsGone` that with
no clear left to see, nothing cleared is remembered or being answered; a second invariant,
`KnownIsGone`, keeps that for what had been cleared at that look (`known`) until the requests
are polled; `ClearIsSeen` covers
the time between the two sends of a clear.

`DeepgramStt`. `OneInHand`: at most one frame, the one taken last, is not known to be written,
and exactly one of the sender and `run_loop` has it. With `QueueIsInOrder` the frame written
next is that one or the next of the queue. `CancelFollowsEnd` keeps the four tasks of a
connection apart from those of the next one.

`AudioCapture`. `NextIsCut`: the bytes read since the process started are the frames sent
of it and the buffer, so the frame being filled is the next one of this process.
`NumbersFollow` counts the frames of all processes. `ChildInHand` and `ReasonHolds` carry
what `run_loop` knows of its child and of why it stopped from one `await` to the next.

`Supervisor`. A join that is stuck is past its timeout: the invariant keeps what is known at that
join until the task ends, and the application then returns as after any timeout. `EndsInOrder` says what a task that ended well has left behind, `Calm` that
until something goes wrong nobody fails, and `ShutdownOrder` how far the joins are;
`QuestionsCounted` that no more is asked than heard.

`Session`. Who is told what is decided by the last command of its kind that waits for them, or,
when none does, by what they were told before (`ToldLast`). `OnceEach` says that a command is
sent once to everyone who gets it: so the one that `todo` still holds, when there is one,
decides, and when it is sent it becomes the last that waits (`Reached` says the two in one).
Taking a command from the front of a channel changes nothing unless it is the last of its kind,
and then it is what the receiver was told.

`OutputWorker`. The telemetry is behind the workers by what waits in the output channel, and
many events do not say whose they are: a failure, a live-coding revision, all of the speech.
`RecordersAhead` therefore speaks of all the recorders to come: the one of now, one more for
each event that waits, each of them `Fine` (it notes nothing that did not happen), and the last
`Settled` (`AnswersSettled`, `SpeechSettled`): it has noted all that happened, its active
request is the one being answered, and the times it keeps of the speech are of the question
that is asked next. An event that is emitted takes the last recorder one step further, which is
why it is attributed as the workers meant it; the sink takes the first one away. `Heard` says
what the events of the speech leave alone. `QuestionsGoOn` and `QueueIsUnanswered` say that a
request is asked, queued, started and ended once: the candidate's questions overtake the
interviewer's on the way to the queue, but no request overtakes itself.

What is said, and what the sink inside shows, needs a second invariant, `SinksAhead`, that is
inductive together with the first. Both parts use a way of events (`Way`): states, one more
than events, the first of them the one of now and each next one what the event makes of the
one before; a way grows at its end when something is emitted (`WayFurther`) and loses its
first state when an event is taken (`WayFromNext`).

- `WordsAhead`: the recorder has, as segments and as utterances, the words said before the
  events that wait; what they say leads to all that was spoken. `FlattenSeq` is a recursive
  function over the segments: `JoinsExist` and `FlattenMore` show that it exists and what one
  more segment adds, by induction (`Inductive`).
- `TerminalsAhead`: the terminal is behind the workers by the events of both channels, and
  by the notes it keeps back itself. A way leads from it through `inner`, and on through
  `output`, to a terminal that has everything (`Latest`); every terminal on it is `Right`.
  The last one is settled: its notes agree (`Agrees`) with what was emitted, those on the screen
  followed by those that wait, each place once and after the one before it; it counts what
  happened; its last block is the answer being given. A note that comes is shown or waits
  (`NoteFollows`), an answer begins below its question (`StartFollows`, since a question that is
  ready does not wait when no answer is shown), grows (`DeltaFollows`) and ends
  (`EndFollows`): the flush shows the notes that wait one by one, and `FlushIs` goes through
  its steps by induction.
- `SinksInOrder` says how far the two tasks have ended: when the summary is there nothing
  waits anywhere, the two ways have no events left, and the recorder and the terminal are
  the settled ones themselves. This is why both have to end well before it is written.

### What stays with TLC

- Liveness: `SendReturns`, `PendingTextSettles`, `ResolveReturns`, `TurnsAreSettled`,
  `CancelledConnectionEnds`, both `ShutdownReturns`, `CaptureStops`, `OverlayExits`, `SinkEnds`.
  There are no rules here for fairness and ENABLED.
- `CodeIsEditedInPlace` of `LlmWorker` and the diff it rests on: the tables of the longest
  common subsequence are recursive functions over two codes.
- The three runs that end in a violation: nothing to prove.

The induction theorems of the library take an operator and cannot be used here, so
`RetrievalProofs` and `OutputWorkerProofs` state induction for a set of numbers (`Inductive`),
from the well-foundedness of `<`; so does `NatHasMax` in `TranscriptWorkerProofs`.
`NoSearchAssumption` of `Retrieval`, and the definition of `Drain` by a function over the
results rather than by a fold, are there for the proofs; so are `IsLatestTask`,
`NoneAssumption` and the history `completed` by mode in `LlmWorker`, and `NoneAssumption` of
`OutputWorker`.

## 5. Abstractions

- A text is a sequence of word numbers; of a word only the boundary class and whether it
  carries a time are kept. Characters, prompts and the wording of answers are left out.
- Scores of snippets are three classes; the text cut of `RAG_MAX_CONTEXT_CHARS` is left
  out.
- The refresh interval of the prefetch is a choice: a prefetch may be sent or not.
- STT events without effect on the modelled state (`SpeechStarted`, metadata, errors,
  empty transcripts) are left out of `TranscriptWorker`.
- Drafts, queue gauges, token usage and status labels of the overlay are left out.
- In the terminal and the telemetry, wording, colours, latencies, costs, accuracy, aggregates
  and the candidate's speech, which are written and read by nothing, are left out.
- The live-coding state that the overlay shows is a field beside the snapshot in the code, and
  one of the snapshot in the model. Its marks stay where they are when a revision does not
  change the code.
- The integer widths of the frame size and of text offsets are left out.
- The Ocr mode has a history of its own in the code but nothing enters it.
- A panic inside one of the tasks of a connection, and an error of the Ctrl+C handler
  itself, are left out.
- The knowledge worker may be absent (`Retrieves`), which is what a disabled RAG is.

## 6. Not modelled

- `knowledge/` beyond the worker loop: chunking, tokenising, BM25 and cosine ranking are
  text and real arithmetic over an index read once; a search returns any admissible report.
- The HTTP and SSE clients: I/O and parsing; a stream of deltas that ends well or fails.
- `parse_live_coding_response` as a JSON parser, the code fence and the defaults of its
  fields: an answer is valid or not, and has a context and a code or not.
- Configuration and command line: read once before anything runs; the ranges it validates
  are assumptions on constants.
- Widgets, style, collapse, the pid file and the echo guard: no state that anything else
  depends on.
- The aggregates, costs, accuracy and rendering of the telemetry (`telemetry/model.rs`):
  computed from what `TelemetryRecorder` gathers, and read by nobody in the program.

## 7. Plan

The order was: the queue everything passes through, with its proofs; the worker that
decides what is asked; the context it is asked with; who answers; where the words come
from; who stops it all; who controls it; then where the sound comes from, where the
events go, and what the overlay does with code. What is next:

1. The one safety property that is not proved: `CodeIsEditedInPlace`, from lemmas about the
   tables of `LiveCodingDiff`, cell by cell.
2. A composition of `TranscriptWorker` and `LlmWorker` for what a pause means to questions
   that are already queued.
3. `AudioCapture` composed with the queue and the recogniser: a slow recogniser holds the
   capture back, and neither outlives the other.

A new property takes the place of a weaker one, so that the runs stay few: the first to
go are `NoRecogniserStarves` and `OnlyReaderCancelsSender`, once an `AudioCapture`
composed with the recogniser says the same of both.
