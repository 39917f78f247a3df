------------------------------ MODULE Supervisor ------------------------------
(***************************************************************************)
(* run_with_sink_options of app.rs: the life of the pipeline's tasks, from *)
(* the first one that ends, or the request to stop, to the value returned. *)
(*                                                                         *)
(* Each speaker has a capture, a recogniser and a transcript worker; all   *)
(* share the knowledge worker, the LLM worker and the output worker.  The  *)
(* tasks end in a cascade, through the channels they share: what ends a    *)
(* task is here, what it does until then in the other modules.  The        *)
(* application waits for any of them in one select!, and then for each in  *)
(* turn.  A task that outlasts its timeout is aborted, and then awaited    *)
(* without one: the abort is seen where the task awaits, and a task that   *)
(* is in a synchronous call, a write to the terminal, to the log or to a   *)
(* file of the telemetry, sees it when that call returns.                  *)
(***************************************************************************)
EXTENDS Integers, Sequences

CONSTANTS
  MaxQuestions  \* bound: questions heard

ASSUME MaxQuestionsAssumption == MaxQuestions \in Nat

VARIABLES
  run,        \* "both", "interviewer" (no candidate pipeline) or "benchmark"
  status,     \* status[t]: "running", or how task t ended, or "absent"
  pc,         \* "loop", "eofDrain", "stopping", "joining", "stuck" (the task aborted is in a
              \* synchronous call) or "returned"
  next,       \* place in Joins
  reason,     \* why the loop was left: a task, or one of Expected
  shutdown,   \* the shutdown channel
  guards,     \* the application still holds a sender of each audio queue
  ready,      \* the recogniser has been connected
  unsent,     \* speakers whose transcript worker has text it has not submitted
  heard,      \* questions heard so far
  asked,      \* requests in the LLM queue
  stopped,    \* Stopped was emitted and the output sender dropped
  result      \* "none", "ok" or the error returned

app == <<pc, next, reason, shutdown, guards, stopped, result>>
work == <<ready, unsent, heard, asked>>
vars == <<run, status, app, work>>

Interviewer == "interviewer"
Candidate == "candidate"
Speakers == {Interviewer, Candidate}

Audio(s) == <<"audio", s>>
Stt(s) == <<"stt", s>>
Transcript(s) == <<"transcript", s>>
Knowledge == <<"knowledge", "all">>
Llm == <<"llm", "all">>
Output == <<"output", "all">>
EmitStopped == <<"emit", "Stopped">>  \* a step of the shutdown, not a task

\* The order of the shutdown.
Joins ==
  <<Audio(Interviewer), Stt(Interviewer), Transcript(Interviewer),
    Audio(Candidate), Stt(Candidate), Transcript(Candidate),
    Knowledge, Llm, EmitStopped, Output>>

TasksOf(s) == {Audio(s), Stt(s), Transcript(s)}
Shared == {Knowledge, Llm, Output}
Tasks == TasksOf(Interviewer) \cup TasksOf(Candidate) \cup Shared

NoReason == <<"no", "reason">>
Asked == <<"asked", "signal or command">>
BenchmarkEof == <<"asked", "benchmark EOF">>
Expected == {Asked, BenchmarkEof}

\* starved: AudioChannelClosed.
Failures == {"failed", "starved"}
Ends == {"ok", "panicked", "aborted"} \cup Failures
Over(t) == status[t] # "running"

Benchmark == run = "benchmark"

Init ==
  /\ run \in {"both", "interviewer", "benchmark"}
  /\ status = [t \in Tasks |-> IF t \in TasksOf(Candidate) /\ run # "both" THEN "absent"
                                                                         ELSE "running"]
  /\ pc = "loop"
  /\ next = 1
  /\ reason = NoReason
  /\ shutdown = FALSE
  /\ guards = TRUE
  /\ ready = FALSE
  /\ unsent = {}
  /\ heard = 0
  /\ asked = 0
  /\ stopped = FALSE
  /\ result = "none"

-----------------------------------------------------------------------------
(* What ends a task *)

End(t, how) ==
  /\ status[t] = "running"
  /\ status' = [status EXCEPT ![t] = how]
  /\ UNCHANGED <<run, app, work>>

\* A benchmark does not play, and its transcript worker does not start, before
\* the recogniser is ready; that wait does not look at the shutdown.
Started == ready \/ ~Benchmark

\* A live capture is restarted until a shutdown, a file comes to its end or
\* cannot be played.
AudioEnds(s) ==
  \/ Started /\ shutdown /\ End(Audio(s), "ok")
  \/ Benchmark /\ ready /\ \E how \in {"ok", "failed"} : End(Audio(s), how)
  \/ Started /\ Over(Stt(s)) /\ ~shutdown /\ End(Audio(s), "failed")
  \/ ~Started /\ Over(Stt(s)) /\ End(Audio(s), "failed")

\* The recogniser connects; a benchmark begins to play.
SttReady ==
  /\ ~ready
  /\ status[Stt(Interviewer)] = "running"
  /\ ready' = TRUE
  /\ UNCHANGED <<run, status, app, unsent, heard, asked>>

\* The recogniser ends on shutdown, or because one of its neighbours is gone.
SttEnds(s) ==
  \/ shutdown /\ End(Stt(s), "ok")
  \/ Over(Transcript(s)) /\ End(Stt(s), "failed")
  \/ Over(Audio(s)) /\ ~guards /\ ~shutdown /\ End(Stt(s), "starved")

\* The recogniser reports a question.
Hear(s) ==
  /\ status[Stt(s)] = "running" /\ status[Transcript(s)] = "running"
  /\ Started
  /\ s \notin unsent
  /\ heard < MaxQuestions
  /\ heard' = heard + 1
  /\ unsent' = unsent \cup {s}
  /\ UNCHANGED <<run, status, app, ready, asked>>

Submit(s) ==
  /\ status[Transcript(s)] = "running"
  /\ s \in unsent
  /\ status[Llm] = "running"
  /\ unsent' = unsent \ {s}
  /\ asked' = asked + 1
  /\ UNCHANGED <<run, status, app, ready, heard>>

\* A transcript worker ends after its recogniser, when all is submitted; or
\* because nobody receives what it sends; or, in a benchmark, because the
\* recogniser never got ready.
TranscriptEnds(s) ==
  \/ Started /\ Over(Stt(s)) /\ s \notin unsent /\ End(Transcript(s), "ok")
  \/ Started /\ Over(Output) /\ End(Transcript(s), "failed")
  \/ Over(Llm) /\ s \in unsent /\ End(Transcript(s), "failed")
  \/ ~Started /\ Over(Stt(s)) /\ End(Transcript(s), "failed")

\* The search channel is closed with the interviewer's transcript worker.
KnowledgeEnds == Over(Transcript(Interviewer)) /\ End(Knowledge, "ok")

\* Faulty: an answer is given when nothing is asked.
FaultyAnswer ==
  /\ status[Llm] = "running"
  /\ asked' = asked - 1
  /\ UNCHANGED <<run, status, app, ready, unsent, heard>>

Answer ==
  /\ status[Llm] = "running"
  /\ asked > 0
  /\ asked' = asked - 1
  /\ UNCHANGED <<run, status, app, ready, unsent, heard>>

\* The LLM worker ends when the queue is closed and empty.
LlmEnds ==
  \/ (\A s \in Speakers : Over(Transcript(s))) /\ asked = 0 /\ End(Llm, "ok")
  \/ Over(Output) /\ asked > 0 /\ End(Llm, "failed")

\* The output worker ends with the last sender, or because it cannot show.
OutputEnds ==
  \/ stopped /\ Over(Llm) /\ (\A s \in Speakers : Over(Transcript(s))) /\ End(Output, "ok")
  \/ End(Output, "failed")

\* Bound: one task.
Panics(t) == (\A u \in Tasks : status[u] # "panicked") /\ End(t, "panicked")

-----------------------------------------------------------------------------
(* The loop *)

Leave(r, to) ==
  /\ pc' = to
  /\ reason' = r
  /\ UNCHANGED <<run, status, next, shutdown, guards, stopped, result, work>>

\* Ctrl+C, or AppCommand::Shutdown.
Requested == pc = "loop" /\ Leave(Asked, "stopping")

\* A command cannot be forwarded: the task that takes it is gone.
ForwardFails ==
  /\ pc = "loop"
  /\ \E t \in {Transcript(s) : s \in Speakers} \cup {Llm, Output} :
       status[t] \in Ends /\ Leave(t, "stopping")

\* A task is seen to have ended.
SeeEnd ==
  /\ pc = "loop"
  /\ \E t \in Tasks \ {Knowledge} :
       /\ status[t] \in Ends
       /\ IF Benchmark /\ t = Audio(Interviewer) /\ status[t] = "ok"
          THEN Leave(BenchmarkEof, "eofDrain")
          ELSE Leave(t, "stopping")

\* BENCHMARK_EOF_DRAIN
EofDrained == pc = "eofDrain" /\ Leave(reason, "stopping")

-----------------------------------------------------------------------------
(* The shutdown *)

RequestShutdown ==
  /\ pc = "stopping"
  /\ ~shutdown
  /\ shutdown' = TRUE
  /\ UNCHANGED <<run, status, pc, next, reason, guards, stopped, result, work>>

\* Faulty: the audio senders are dropped without waiting for the shutdown flag.
FaultyDropGuards ==
  /\ pc = "stopping"
  /\ guards' = FALSE
  /\ pc' = "joining"
  /\ UNCHANGED <<run, status, next, reason, shutdown, stopped, result, work>>

\* drop(frame_sender_guard), only after the shutdown is requested
DropGuards ==
  /\ pc = "stopping"
  /\ shutdown
  /\ guards' = FALSE
  /\ pc' = "joining"
  /\ UNCHANGED <<run, status, next, reason, shutdown, stopped, result, work>>

Turn(t) == pc = "joining" /\ next <= Len(Joins) /\ Joins[next] = t

Return(r) ==
  /\ pc' = "returned"
  /\ result' = r
  /\ UNCHANGED <<run, next, reason, shutdown, guards, stopped, work>>

\* finish_task of a task that has ended.  A panic, but not the knowledge
\* worker's, makes the application return at once.
Join(t) ==
  /\ Turn(t)
  /\ Over(t)
  /\ IF status[t] = "panicked" /\ t # Knowledge
     THEN Return("WorkerTask") /\ UNCHANGED status
     ELSE next' = next + 1 /\ UNCHANGED <<run, status, pc, reason, shutdown, guards, stopped,
                                          result, work>>

\* Faulty: a capture is waited for without a timeout.
FaultyHasTimeout(t) == t \notin {Knowledge, Audio(Interviewer), Audio(Candidate)}

\* Only the knowledge worker is awaited without one.
HasTimeout(t) == t # Knowledge

\* shutdown_timeout is over, and the task is aborted and awaited: one that is at
\* an await is dropped there.  The tasks behind it are left.
JoinTimeout(t) ==
  /\ Turn(t)
  /\ ~Over(t)
  /\ HasTimeout(t)
  /\ status' = [status EXCEPT ![t] = "aborted"]
  /\ Return("WorkerShutdownTimeout")

\* One that is in a synchronous call is awaited, without a timeout.
JoinSticks(t) ==
  /\ Turn(t)
  /\ ~Over(t)
  /\ HasTimeout(t)
  /\ pc' = "stuck"
  /\ UNCHANGED <<run, status, next, reason, shutdown, guards, stopped, result, work>>

\* Its call returns, and it comes to an await; or it ends, as any task may.
Cancelled(t) ==
  /\ pc = "stuck"
  /\ Joins[next] = t
  /\ End(t, "aborted")

\* The await returns, however the task ended.
StuckJoin ==
  /\ pc = "stuck"
  /\ Over(Joins[next])
  /\ UNCHANGED status
  /\ Return("WorkerShutdownTimeout")

Emit ==
  /\ Turn(EmitStopped)
  /\ stopped' = TRUE
  /\ next' = next + 1
  /\ UNCHANGED <<run, status, pc, reason, shutdown, guards, result, work>>

\* The order in which the results are looked at.
Flattened ==
  <<Audio(Interviewer), Stt(Interviewer), Audio(Candidate), Stt(Candidate),
    Transcript(Interviewer), Transcript(Candidate), Llm, Output>>

\* A failure is returned before the unexpected end of a task.
Verdict ==
  /\ pc = "joining"
  /\ next > Len(Joins)
  /\ IF \E i \in 1..Len(Flattened) : status[Flattened[i]] \in Failures
     THEN Return("WorkerError")
     ELSE Return(IF reason \in Tasks THEN "WorkerStopped" ELSE "ok")
  /\ UNCHANGED status

-----------------------------------------------------------------------------
Returned == pc = "returned" /\ UNCHANGED vars

App ==
  \/ SeeEnd \/ EofDrained \/ RequestShutdown \/ DropGuards
  \/ (\E t \in Tasks : Join(t) \/ JoinTimeout(t) \/ JoinSticks(t)) \/ StuckJoin
  \/ Emit \/ Verdict

Pipeline ==
  \/ \E s \in Speakers :
       AudioEnds(s) \/ SttEnds(s) \/ Hear(s) \/ Submit(s) \/ TranscriptEnds(s)
  \/ SttReady \/ KnowledgeEnds \/ Answer \/ LlmEnds \/ OutputEnds
  \/ \E t \in Tasks : Panics(t)

Next ==
  \/ Requested \/ ForwardFails \/ SeeEnd \/ EofDrained
  \/ RequestShutdown \/ DropGuards
  \/ \E t \in Tasks : Join(t) \/ JoinTimeout(t) \/ JoinSticks(t) \/ Cancelled(t)
  \/ StuckJoin \/ Emit \/ Verdict
  \/ pc # "returned" /\ Pipeline
  \/ Returned

Spec == Init /\ [][Next]_vars

\* The application is polled, its timeouts expire, and the knowledge worker,
\* whose requests to the provider have a timeout, ends with its channel.
\* Nothing is assumed of any other task, nor that a synchronous call returns.
FairSpec == Spec /\ WF_vars(App) /\ WF_vars(pc # "returned" /\ KnowledgeEnds)

-----------------------------------------------------------------------------
Errors == {"WorkerTask", "WorkerShutdownTimeout", "WorkerError", "WorkerStopped"}

\* The type invariant: every task runs, is absent or has one of the ends the
\* application tells apart, and the requests in the queue stay between none
\* and the bound.
TypeOK ==
  /\ run \in {"both", "interviewer", "benchmark"}
  /\ status \in [Tasks -> {"running", "absent"} \cup Ends]
  /\ pc \in {"loop", "eofDrain", "stopping", "joining", "stuck", "returned"}
  /\ next \in 1..(Len(Joins) + 1)
  /\ reason \in Tasks \cup Expected \cup {NoReason}
  /\ shutdown \in BOOLEAN /\ guards \in BOOLEAN /\ ready \in BOOLEAN /\ stopped \in BOOLEAN
  /\ unsent \subseteq Speakers
  /\ heard \in 0..MaxQuestions /\ asked \in 0..MaxQuestions
  /\ result \in {"none", "ok"} \cup Errors

\* The application returns Ok only if it was asked to stop, every task ended
\* well, and every question heard was answered or has failed at the provider:
\* no unexpected end, failure, panic or abort passes for a clean shutdown.
SuccessMeansDone ==
  result = "ok" =>
    /\ reason \in Expected
    /\ \A t \in Tasks \ {Knowledge} : status[t] \in {"ok", "absent"}
    /\ unsent = {} /\ asked = 0

\* Stopped is the last event: when it is emitted every task that could emit
\* another has ended.
StoppedIsLast ==
  stopped => Over(Llm) /\ \A s \in Speakers : Over(Transcript(s))

Troubled == \E t \in Tasks : status[t] \in {"panicked", "aborted"}

\* No task was still running when its timeout was over.
InTime == result # "WorkerShutdownTimeout"

\* The end of a capture does not look like a failure of the recogniser: an
\* audio queue is closed only when the recogniser can see the shutdown.
NoRecogniserStarves == \A s \in Speakers : status[Stt(s)] # "starved"

\* README.md:183, "press Ctrl+C to ... exit cleanly": an application that is
\* asked to stop, while no task hangs or panics and the output is shown to the
\* end, returns Ok: no task takes the end of another for a failure.  A benchmark
\* is the exception: its capture and its transcript worker fail when the
\* recogniser ends before it was ready.
AskedStopIsClean ==
  (result # "none" /\ reason = Asked /\ ~Troubled /\ InTime /\ status[Output] = "ok"
     /\ ~Benchmark)
    => result = "ok"

\* What the application says at its end is so: with the last event, with Ok, and
\* with an error.
EndIsTrue == SuccessMeansDone /\ StoppedIsLast /\ AskedStopIsClean /\ NoRecogniserStarves

\* Once the application has been asked to stop, or has seen a task end, it
\* returns, whatever never comes at an await: a frame, an answer, a place in a
\* queue, a child that does not die.  The exception is a task that is in a
\* synchronous call for ever: the await after its abort has no timeout.
ShutdownReturns ==
  pc # "loop" ~> pc = "returned" \/ (pc = "stuck" /\ ~Over(Joins[next]))
=============================================================================
