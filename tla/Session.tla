-------------------------------- MODULE Session --------------------------------
(***************************************************************************)
(* The controls of the overlay (overlay/mod.rs) and what becomes of them:  *)
(* the application forwards a command to the transcript worker of each     *)
(* speaker and then reports it to the overlay, while the workers obey and  *)
(* forward the statuses of their recognisers to the same overlay.  Every   *)
(* channel is unbounded; nobody waits for an answer.                       *)
(*                                                                         *)
(* Of the workers only what a command sets is here (TranscriptWorker has   *)
(* the rest); ClearHistory is in LlmWorker; how the pipeline stops is in   *)
(* Supervisor.  The channels between the output worker and the GTK main    *)
(* loop keep the order and are one queue with the output channel.          *)
(***************************************************************************)
EXTENDS Integers, Sequences, SequencesExt

CONSTANTS
  CandidateEnabled,  \* there is a candidate pipeline
  MaxPresses,        \* bound: controls used
  MaxStatuses        \* bound: statuses of the recognisers

ASSUME CandidateAssumption == CandidateEnabled \in BOOLEAN
ASSUME MaxAssumption == MaxPresses \in Nat /\ MaxStatuses \in Nat

VARIABLES
  presses,      \* controls used so far
  commandQ,     \* the application's command channel
  phase,        \* the application: "loop", "stopping" or "over"
  todo,         \* what it has still to send for the command it took
  mode,         \* active_mode
  pauseAsked,   \* history: a pause, not a resume, was the last forwarded
  transcriptQ,  \* transcriptQ[s]: the command channel of a transcript worker
  worker,       \* worker[s]: what it was told
  link,         \* link[s]: "connecting", "connected" or "waiting"
  statuses,     \* statuses emitted so far
  statusQ,      \* statusQ[s]: those the transcript worker has not forwarded
  outputQ,      \* events on their way to the overlay
  overlay       \* OverlayState

application == <<phase, todo, mode, pauseAsked>>
recognisers == <<link, statuses>>
sessionVars == <<presses, commandQ, application, transcriptQ, worker, recognisers, statusQ,
                 outputQ, overlay>>

Pipelines == IF CandidateEnabled THEN <<"interviewer", "candidate">> ELSE <<"interviewer">>
ActiveSpeakers == ToSet(Pipelines)

Modes == {"Voice", "LiveCoding"}
AppCommands == {"PauseListening", "ResumeListening", "ToggleLiveCoding", "Shutdown"}
TranscriptCommands == {<<"SetPaused", b>> : b \in BOOLEAN} \cup {<<"SetMode", m>> : m \in Modes}
Statuses == {"Connecting", "Listening", "Reconnecting"}
OutputEvents ==
  {<<"Status", k>> : k \in Statuses \cup {"Paused", "Stopped"}}
    \cup {<<"ModeChanged", m>> : m \in Modes}

SessionInit ==
  /\ presses = 0
  /\ commandQ = <<>>
  /\ phase = "loop"
  /\ todo = <<>>
  /\ mode = "Voice"
  /\ pauseAsked = FALSE
  /\ transcriptQ = [s \in ActiveSpeakers |-> <<>>]
  /\ worker = [s \in ActiveSpeakers |-> [paused |-> FALSE, mode |-> "Voice"]]
  /\ link = [s \in ActiveSpeakers |-> "waiting"]
  /\ statuses = 0
  /\ statusQ = [s \in ActiveSpeakers |-> <<>>]
  /\ outputQ = << <<"ModeChanged", "Voice">> >>
  /\ overlay = [paused |-> FALSE, mode |-> "Voice", stopping |-> FALSE, exited |-> FALSE]

-----------------------------------------------------------------------------
(* The overlay *)

\* Nobody receives once the pipeline is over.
Command(c) == commandQ' = IF phase = "over" THEN commandQ ELSE Append(commandQ, c)

Press ==
  /\ ~overlay.exited
  /\ presses < MaxPresses
  /\ presses' = presses + 1
  /\ UNCHANGED <<application, transcriptQ, worker, recognisers, statusQ, outputQ>>

\* The button sends the opposite of what the overlay believes; the belief
\* changes only with the events that come back.
PressPause ==
  /\ Press
  /\ Command(IF overlay.paused THEN "ResumeListening" ELSE "PauseListening")
  /\ UNCHANGED overlay

\* The tab of the mode that is not shown, or SIGWINCH whatever is shown: a
\* toggle, which two presses in a row undo.
PressMode ==
  /\ Press
  /\ Command("ToggleLiveCoding")
  /\ UNCHANGED overlay

\* The close button, or a close request of the window
PressClose ==
  /\ Press
  /\ ~overlay.stopping
  /\ overlay' = [overlay EXCEPT !.stopping = TRUE]
  /\ Command("Shutdown")

\* apply_output, and the end of the GTK application
Shown(o, event) ==
  CASE event = <<"Status", "Paused">>    -> [o EXCEPT !.paused = TRUE]
    [] event = <<"Status", "Listening">> -> [o EXCEPT !.paused = FALSE]
    [] event = <<"Status", "Stopped">>   -> [o EXCEPT !.exited = TRUE]
    [] event[1] = "ModeChanged"          -> [o EXCEPT !.mode = event[2]]
    [] OTHER                             -> o

Show ==
  /\ ~overlay.exited
  /\ outputQ # <<>>
  /\ overlay' = Shown(overlay, Head(outputQ))
  /\ outputQ' = Tail(outputQ)
  /\ UNCHANGED <<presses, commandQ, application, transcriptQ, worker, recognisers, statusQ>>

-----------------------------------------------------------------------------
(* The application *)

\* Faulty: the next of the three modes of events.rs.
FaultyToggled(m) == IF m = "Voice" THEN "LiveCoding" ELSE "Ocr"

Toggled(m) == IF m = "LiveCoding" THEN "Voice" ELSE "LiveCoding"

\* Faulty: the candidate's worker is not told.
FaultyForwards(command, event) == << <<"interviewer", command>>, <<"overlay", event>> >>

\* The workers are told first, in this order, and then the overlay.
Forwards(command, event) ==
  [i \in 1..Len(Pipelines) |-> <<Pipelines[i], command>>] \o << <<"overlay", event>> >>

TakeCommand ==
  /\ phase = "loop"
  /\ todo = <<>>
  /\ commandQ # <<>>
  /\ commandQ' = Tail(commandQ)
  /\ CASE Head(commandQ) = "PauseListening" ->
            /\ pauseAsked' = TRUE
            /\ todo' = Forwards(<<"SetPaused", TRUE>>, <<"Status", "Paused">>)
            /\ UNCHANGED <<phase, mode>>
       [] Head(commandQ) = "ResumeListening" ->
            /\ pauseAsked' = FALSE
            /\ todo' = Forwards(<<"SetPaused", FALSE>>, <<"Status", "Listening">>)
            /\ UNCHANGED <<phase, mode>>
       [] Head(commandQ) = "ToggleLiveCoding" ->
            /\ mode' = Toggled(mode)
            /\ todo' = Forwards(<<"SetMode", mode'>>, <<"ModeChanged", mode'>>)
            /\ UNCHANGED <<phase, pauseAsked>>
       [] Head(commandQ) = "Shutdown" ->
            /\ phase' = "stopping"
            /\ UNCHANGED <<todo, mode, pauseAsked>>
  /\ UNCHANGED <<presses, transcriptQ, worker, recognisers, statusQ, outputQ, overlay>>

Forward ==
  /\ phase = "loop"
  /\ todo # <<>>
  /\ LET to == Head(todo)[1]
         what == Head(todo)[2]
     IN  IF to = "overlay"
         THEN outputQ' = Append(outputQ, what) /\ UNCHANGED transcriptQ
         ELSE transcriptQ' = [transcriptQ EXCEPT ![to] = Append(@, what)] /\ UNCHANGED outputQ
  /\ todo' = Tail(todo)
  /\ UNCHANGED <<presses, commandQ, phase, mode, pauseAsked, worker, recognisers, statusQ,
                 overlay>>

\* Ctrl+C, a task that has ended, or a channel nobody receives from.
LoopEnds ==
  /\ phase = "loop"
  /\ phase' = "stopping"
  /\ todo' = <<>>
  /\ UNCHANGED <<presses, commandQ, mode, pauseAsked, transcriptQ, worker, recognisers,
                 statusQ, outputQ, overlay>>

PipelineStops ==
  /\ phase = "stopping"
  /\ phase' = "over"
  /\ outputQ' = Append(outputQ, <<"Status", "Stopped">>)
  /\ UNCHANGED <<presses, commandQ, todo, mode, pauseAsked, transcriptQ, worker, recognisers,
                 statusQ, overlay>>

\* Faulty: only the error is reported.
FaultyPipelineFails ==
  /\ phase = "stopping"
  /\ phase' = "over"
  /\ \E n \in 0..Len(outputQ) : outputQ' = SubSeq(outputQ, 1, n)
  /\ UNCHANGED <<presses, commandQ, todo, mode, pauseAsked, transcriptQ, worker, recognisers,
                 statusQ, overlay>>

\* The thread of the pipeline reports an error and that it stopped; what the
\* output worker has not passed on is lost.
PipelineFails ==
  /\ phase = "stopping"
  /\ phase' = "over"
  /\ \E n \in 0..Len(outputQ) :
       outputQ' = Append(SubSeq(outputQ, 1, n), <<"Status", "Stopped">>)
  /\ UNCHANGED <<presses, commandQ, todo, mode, pauseAsked, transcriptQ, worker, recognisers,
                 statusQ, overlay>>

-----------------------------------------------------------------------------
(* The transcript workers and the recognisers *)

Obeyed(w, command) ==
  IF command[1] = "SetPaused" THEN [w EXCEPT !.paused = command[2]]
                              ELSE [w EXCEPT !.mode = command[2]]

Obey(s) ==
  /\ phase # "over"
  /\ transcriptQ[s] # <<>>
  /\ worker' = [worker EXCEPT ![s] = Obeyed(@, Head(transcriptQ[s]))]
  /\ transcriptQ' = [transcriptQ EXCEPT ![s] = Tail(@)]
  /\ UNCHANGED <<presses, commandQ, application, recognisers, statusQ, outputQ, overlay>>

\* The select! is biased: a command comes first.  A worker that is paused
\* ignores transcripts, not statuses.
ForwardStatus(s) ==
  /\ phase # "over"
  /\ transcriptQ[s] = <<>>
  /\ statusQ[s] # <<>>
  /\ outputQ' = Append(outputQ, <<"Status", Head(statusQ[s])>>)
  /\ statusQ' = [statusQ EXCEPT ![s] = Tail(@)]
  /\ UNCHANGED <<presses, commandQ, application, transcriptQ, worker, recognisers, overlay>>

Reports(s, state, status) ==
  /\ phase # "over"
  /\ statuses < MaxStatuses
  /\ statuses' = statuses + 1
  /\ link' = [link EXCEPT ![s] = state]
  /\ statusQ' = [statusQ EXCEPT ![s] = Append(@, status)]
  /\ UNCHANGED <<presses, commandQ, application, transcriptQ, worker, outputQ, overlay>>

Connecting(s) == link[s] = "waiting" /\ Reports(s, "connecting", "Connecting")
Connected(s) == link[s] = "connecting" /\ Reports(s, "connected", "Listening")
Disconnected(s) == link[s] # "waiting" /\ Reports(s, "waiting", "Reconnecting")

-----------------------------------------------------------------------------
Ended == overlay.exited /\ UNCHANGED sessionVars

SessionNext ==
  \/ PressPause \/ PressMode \/ PressClose \/ Show
  \/ TakeCommand \/ Forward \/ LoopEnds \/ PipelineStops \/ PipelineFails
  \/ \E s \in ActiveSpeakers :
       Obey(s) \/ ForwardStatus(s) \/ Connecting(s) \/ Connected(s) \/ Disconnected(s)
  \/ Ended

SessionSpec == SessionInit /\ [][SessionNext]_sessionVars

\* The GTK main loop shows what comes and the application's task is polled.
\* A pipeline that is to stop returns: ShutdownReturns of Supervisor, but for the task
\* it excepts, one that is in a synchronous call for ever.
\* Nothing is assumed of the workers, the recognisers and the user.
FairSessionSpec ==
  /\ SessionSpec
  /\ WF_sessionVars(Show) /\ WF_sessionVars(TakeCommand) /\ WF_sessionVars(Forward)
  /\ WF_sessionVars(PipelineStops \/ PipelineFails)

-----------------------------------------------------------------------------
\* The type invariant: what is on each channel is what its receiver handles,
\* and no mode but Voice and LiveCoding is ever entered.
SessionTypeOK ==
  /\ presses \in 0..MaxPresses /\ statuses \in 0..MaxStatuses
  /\ commandQ \in Seq(AppCommands)
  /\ phase \in {"loop", "stopping", "over"}
  /\ todo \in Seq((ActiveSpeakers \X TranscriptCommands) \cup ({"overlay"} \X OutputEvents))
  /\ mode \in Modes /\ pauseAsked \in BOOLEAN
  /\ transcriptQ \in [ActiveSpeakers -> Seq(TranscriptCommands)]
  /\ worker \in [ActiveSpeakers -> [paused : BOOLEAN, mode : Modes]]
  /\ link \in [ActiveSpeakers -> {"connecting", "connected", "waiting"}]
  /\ statusQ \in [ActiveSpeakers -> Seq(Statuses)]
  /\ outputQ \in Seq(OutputEvents)
  /\ overlay \in [paused : BOOLEAN, mode : Modes, stopping : BOOLEAN, exited : BOOLEAN]

\* value is the last that someone is told of a subject: by what the application has
\* still to send, or else by what waits last on the channel, or else already.
ToldLast(value, to, subject, waiting, told) ==
  IF \E i \in DOMAIN todo : todo[i][1] = to /\ todo[i][2][1] = subject
  THEN \E i \in DOMAIN todo : todo[i] = <<to, <<subject, value>>>>
  ELSE \/ \E i \in DOMAIN waiting :
            /\ waiting[i] = <<subject, value>>
            /\ \A j \in (i + 1)..Len(waiting) : waiting[j][1] # subject
       \/ told = value /\ \A i \in DOMAIN waiting : waiting[i][1] # subject

\* Both workers and the overlay end up in the mode the application is in, and
\* both workers as paused as the last command wants them: whatever is in
\* flight, what each of them has still to receive brings it there.
CommandsReachEveryone ==
  phase = "loop" =>
    /\ \A s \in ActiveSpeakers :
         /\ ToldLast(pauseAsked, s, "SetPaused", transcriptQ[s], worker[s].paused)
         /\ ToldLast(mode, s, "SetMode", transcriptQ[s], worker[s].mode)
    /\ ToldLast(mode, "overlay", "ModeChanged", outputQ, overlay.mode)

\* The overlay ends when it was closed or the pipeline stops or fails, also
\* while other commands are under way: it never stays open over a dead
\* pipeline.
OverlayExits == overlay.stopping \/ phase # "loop" ~> overlay.exited

\* Nothing is in flight.
AtRest ==
  /\ phase = "loop"
  /\ commandQ = <<>> /\ todo = <<>> /\ outputQ = <<>>
  /\ \A s \in ActiveSpeakers : transcriptQ[s] = <<>> /\ statusQ[s] = <<>>

\* README.md:51, "Its controls pause/resume recognition": at rest the button
\* does what it shows, because the overlay and the workers agree on whether
\* they are paused.
PauseButtonToggles == AtRest => \A s \in ActiveSpeakers : overlay.paused = worker[s].paused
=============================================================================
