----------------------------- MODULE DeepgramStt -----------------------------
(***************************************************************************)
(* The speech recognition provider of stt/deepgram.rs: run_loop, which     *)
(* connects and reconnects, and the four tasks run_connection spawns for   *)
(* each connection:                                                        *)
(*                                                                         *)
(*   sender     send_audio: the retried frame first, then commands and     *)
(*              audio as they come                                         *)
(*   reader     read_events: what the server says                          *)
(*   keepalive  run_keepalive: a KeepAlive command at every tick           *)
(*   closer     run_shutdown: a CloseStream command when a shutdown is     *)
(*              requested                                                  *)
(*                                                                         *)
(* The first task to end makes run_connection cancel the others, take the  *)
(* audio receiver and the unsent frame back from the sender, and decide    *)
(* what the connection came to.  None of the select!s is biased.  Around   *)
(* it: the capture that fills the audio queue, the server, the application *)
(* that requests the shutdown, and the transcript worker that receives.    *)
(***************************************************************************)
EXTENDS Integers, Sequences, SequencesExt

CONSTANTS
  CommandMax,  \* capacity of the command channel, 4 in the code
  MaxFrames    \* bound: audio frames captured

ASSUME CommandMaxAssumption == CommandMax \in Nat \ {0}
ASSUME MaxFramesAssumption == MaxFrames \in Nat

VARIABLES
  pc,          \* run_loop: "top", "connecting", "connected" (in the select! of
               \* run_connection), "joining", "waiting", or how it returned
  retryFrame,  \* the frame the last connection could not send, or NoFrame
  retryCount,  \* capped at RetryCap, where the delay stops growing
  cancel,      \* the cancel channel of the connection
  first,       \* the task that ended first
  sender,      \* [at, frame, commands, outcome, started]: see Sender
  reader,      \* "reading", or how it returned
  keepalive,   \* "ticking", "sending", "stopped" or "failed"
  closer,      \* "watching", "sending", "holding", "stopped" or "failed"
  commandQ,    \* the command channel
  audio,       \* the audio queue
  audioOpen,   \* the capture still holds the audio sender
  captured,    \* frames captured so far; frames are their numbers
  shutdown,    \* the shutdown channel
  eventsOpen,  \* the transcript worker still receives
  ready,       \* the readiness channel was set
  last,        \* history: the last frame put on a socket
  reached      \* history: frames whose write succeeded

loop == <<pc, retryFrame, retryCount, first, ready>>
capture == <<audioOpen, captured>>
history == <<last, reached>>
vars == <<loop, cancel, sender, reader, keepalive, closer, commandQ, audio, capture, shutdown,
          eventsOpen, history>>

NoFrame == 0
Frame == 1..MaxFrames

Ended == {"ok", "AudioChannelClosed", "EventChannelClosed"}

\* at: "frame", "KeepAlive" or "CloseStream" while a write is under way,
\* "select" between two, "none" outside a connection, "done".
Sender == [at : {"none", "frame", "KeepAlive", "CloseStream", "select", "done"},
           frame : {NoFrame} \cup Frame,
           started : BOOLEAN,
           outcome : {"none", "Shutdown", "Cancelled", "AudioChannelClosed",
                      "EventChannelClosed", "ConnectionError"}]

NoSender == [at |-> "none", frame |-> NoFrame, started |-> FALSE, outcome |-> "none"]

Init ==
  /\ pc = "top"
  /\ retryFrame = NoFrame
  /\ retryCount = 0
  /\ cancel = FALSE
  /\ first = "none"
  /\ sender = NoSender
  /\ reader = "none"
  /\ keepalive = "none"
  /\ closer = "none"
  /\ commandQ = <<>>
  /\ audio = <<>>
  /\ audioOpen = TRUE
  /\ captured = 0
  /\ shutdown = FALSE
  /\ eventsOpen = TRUE
  /\ ready = FALSE
  /\ last = NoFrame
  /\ reached = {}

-----------------------------------------------------------------------------
(* run_loop *)

\* Faulty: the delay is not capped.
FaultyReconnectDelay(n) == IF n = 0 THEN 1 ELSE IF n - 1 < 5 THEN 2^(n - 1) ELSE 32

\* reconnect_delay in seconds: doubled at every retry, from 1 to 30.
INITIAL_RECONNECT_DELAY == 1
MAX_RECONNECT_DELAY == 30
ReconnectDelay(n) ==
  LET exponent == IF n = 0 THEN 0 ELSE IF n - 1 < 5 THEN n - 1 ELSE 5
      delay == INITIAL_RECONNECT_DELAY * 2^exponent
  IN  IF delay < MAX_RECONNECT_DELAY THEN delay ELSE MAX_RECONNECT_DELAY

\* From here on every retry waits as long.
RetryCap == 6

Retried(n) == IF n < RetryCap THEN n + 1 ELSE n

\* An event is emitted and run_loop goes on at next, or it returns because the
\* event channel is closed.
EmitThen(next) == pc' = IF eventsOpen THEN next ELSE "EventChannelClosed"

Top ==
  /\ pc = "top"
  /\ IF shutdown THEN pc' = "ok" ELSE EmitThen("connecting")
  /\ UNCHANGED <<retryFrame, retryCount, first, ready, cancel, sender, reader, keepalive, closer,
                 commandQ, audio, capture, shutdown, eventsOpen, history>>

\* Shutdown wins the select! around connect().
ConnectCancelled ==
  /\ pc = "connecting"
  /\ shutdown
  /\ pc' = "ok"
  /\ UNCHANGED <<retryFrame, retryCount, first, ready, cancel, sender, reader, keepalive, closer,
                 commandQ, audio, capture, shutdown, eventsOpen, history>>

ConnectFails ==
  /\ pc = "connecting"
  /\ retryCount' = Retried(retryCount)
  /\ EmitThen("waiting")
  /\ UNCHANGED <<retryFrame, first, ready, cancel, sender, reader, keepalive, closer, commandQ,
                 audio, capture, shutdown, eventsOpen, history>>

\* Faulty: the frame waits its turn behind the queue.
FaultySpawned == [NoSender EXCEPT !.at = "select", !.frame = retryFrame]

\* send_audio begins with the retried frame, if there is one.
Spawned ==
  [NoSender EXCEPT !.at = IF retryFrame = NoFrame THEN "select" ELSE "frame",
                   !.frame = retryFrame]

\* Connected is emitted, the readiness channel set, and the tasks spawned.
Connect ==
  /\ pc = "connecting"
  /\ EmitThen("connected")
  /\ IF eventsOpen
     THEN /\ ready' = TRUE
          /\ sender' = Spawned
          /\ retryFrame' = NoFrame
          /\ reader' = "reading"
          /\ keepalive' = "ticking"
          /\ closer' = "watching"
          /\ cancel' = FALSE
          /\ first' = "none"
          /\ commandQ' = <<>>
     ELSE UNCHANGED <<ready, sender, retryFrame, reader, keepalive, closer, cancel, first,
                      commandQ>>
  /\ UNCHANGED <<retryCount, audio, capture, shutdown, eventsOpen, history>>

\* The delay is over, or a shutdown is requested.
WaitEnds ==
  /\ pc = "waiting"
  /\ pc' = "top"
  /\ UNCHANGED <<retryFrame, retryCount, first, ready, cancel, sender, reader, keepalive, closer,
                 commandQ, audio, capture, shutdown, eventsOpen, history>>

-----------------------------------------------------------------------------
(* run_connection *)

SenderDone == sender.at = "done"
ReaderDone == reader \in {"Cancelled", "EventChannelClosed", "ConnectionClosed"}

Finished(task) ==
  CASE task = "sender"    -> SenderDone
    [] task = "reader"    -> ReaderDone
    [] task = "keepalive" -> keepalive \in {"stopped", "failed"}
    [] task = "closer"    -> closer \in {"stopped", "failed"}

\* The select! over the four tasks, and the cancel.
FirstTask ==
  /\ pc = "connected"
  /\ \E task \in {"sender", "reader", "keepalive", "closer"} : Finished(task) /\ first' = task
  /\ cancel' = TRUE
  /\ pc' = "joining"
  /\ UNCHANGED <<retryFrame, retryCount, ready, sender, reader, keepalive, closer, commandQ,
                 audio, capture, shutdown, eventsOpen, history>>

\* connection_outcome
SendAndReadOutcome ==
  CASE sender.outcome = "Shutdown" -> "Shutdown"
    [] sender.outcome \in {"AudioChannelClosed", "EventChannelClosed"} -> sender.outcome
    [] sender.outcome = "ConnectionError" -> "Disconnected"
    [] sender.outcome = "Cancelled" ->
         IF reader = "EventChannelClosed" THEN "EventChannelClosed" ELSE "Disconnected"

\* A shutdown comes before everything, and an auxiliary task that ended first
\* before what the sender and the reader say.
Outcome ==
  IF shutdown THEN "Shutdown"
  ELSE IF first \in {"keepalive", "closer"} THEN "Disconnected"
  ELSE SendAndReadOutcome

\* Faulty: the reader is left to itself.
FaultyJoined == SenderDone

\* The two tasks that are awaited.
Joined == SenderDone /\ ReaderDone

\* Faulty: the frame is not kept.
FaultyUnsent == NoFrame

\* What the sender gives back: its frame when the write of one did not
\* succeed, which is never the case when it ended anywhere else.
Unsent == sender.frame

\* The auxiliary tasks are aborted and awaited, and run_loop sees the outcome.
\* stable: the connection lasted STABLE_CONNECTION_TIME.
Join ==
  /\ pc = "joining"
  /\ Joined
  /\ retryFrame' = Unsent
  /\ sender' = NoSender
  /\ reader' = IF ReaderDone THEN "none" ELSE reader
  /\ keepalive' = "none"
  /\ closer' = "none"
  /\ CASE Outcome = "Shutdown" -> pc' = "ok" /\ UNCHANGED retryCount
       [] Outcome = "Disconnected" ->
            /\ EmitThen("waiting")
            /\ \E stable \in BOOLEAN : retryCount' = Retried(IF stable THEN 0 ELSE retryCount)
       [] OTHER -> pc' = Outcome /\ UNCHANGED retryCount
  /\ UNCHANGED <<cancel, first, ready, commandQ, audio, capture, shutdown, eventsOpen, history>>

InConnection == pc \in {"connected", "joining"}

-----------------------------------------------------------------------------
(* send_audio *)

SenderReturns(outcome, frame) ==
  sender' = [sender EXCEPT !.at = "done", !.outcome = outcome, !.frame = frame]

Writing == sender.at \in {"frame", "KeepAlive", "CloseStream"}

\* The write of a frame succeeds; the first of a connection is announced.
FrameWritten ==
  /\ sender.at = "frame"
  /\ last' = sender.frame
  /\ reached' = reached \cup {sender.frame}
  /\ IF sender.started \/ eventsOpen
     THEN sender' = [sender EXCEPT !.at = "select", !.frame = NoFrame, !.started = TRUE]
     ELSE SenderReturns("EventChannelClosed", sender.frame)
  /\ UNCHANGED <<loop, cancel, reader, keepalive, closer, commandQ, audio, capture, shutdown,
                 eventsOpen>>

\* Faulty: the sender goes on after CloseStream.
FaultyTextWritten ==
  /\ sender.at \in {"KeepAlive", "CloseStream"}
  /\ sender' = [sender EXCEPT !.at = "select"]
  /\ UNCHANGED <<loop, cancel, reader, keepalive, closer, commandQ, audio, capture, shutdown,
                 eventsOpen, history>>

TextWritten ==
  /\ \/ sender.at = "KeepAlive" /\ sender' = [sender EXCEPT !.at = "select"]
     \/ sender.at = "CloseStream" /\ SenderReturns("Shutdown", NoFrame)
  /\ UNCHANGED <<loop, cancel, reader, keepalive, closer, commandQ, audio, capture, shutdown,
                 eventsOpen, history>>

\* A frame that was not written may have left in part, or as a whole.
WriteFails ==
  /\ Writing
  /\ SenderReturns("ConnectionError", sender.frame)
  /\ last' \in {last} \cup ({sender.frame} \ {NoFrame})
  /\ UNCHANGED <<loop, cancel, reader, keepalive, closer, commandQ, audio, capture, shutdown,
                 eventsOpen, reached>>

\* Faulty: a write that has begun is not given up.
FaultyGivesUp == sender.at = "select"

\* The select! around a write listens to the cancel too.
GivesUp == sender.at = "select" \/ Writing

SenderCancelled ==
  /\ GivesUp
  /\ cancel
  /\ SenderReturns("Cancelled", sender.frame)
  /\ last' \in {last} \cup ({sender.frame} \ {NoFrame})
  /\ UNCHANGED <<loop, cancel, reader, keepalive, closer, commandQ, audio, capture, shutdown,
                 eventsOpen, reached>>

TakeCommand ==
  /\ sender.at = "select"
  /\ commandQ # <<>>
  /\ commandQ' = Tail(commandQ)
  /\ sender' = [sender EXCEPT !.at = Head(commandQ)]
  /\ UNCHANGED <<loop, cancel, reader, keepalive, closer, audio, capture, shutdown, eventsOpen,
                 history>>

\* Both tasks that hold the command sender have ended.
CommandsClosed ==
  /\ sender.at = "select"
  /\ commandQ = <<>>
  /\ Finished("keepalive") /\ Finished("closer")
  /\ SenderReturns("ConnectionError", NoFrame)
  /\ UNCHANGED <<loop, cancel, reader, keepalive, closer, commandQ, audio, capture, shutdown,
                 eventsOpen, history>>

TakeFrame ==
  /\ sender.at = "select"
  /\ audio # <<>>
  /\ audio' = Tail(audio)
  /\ sender' = [sender EXCEPT !.at = "frame", !.frame = Head(audio)]
  /\ UNCHANGED <<loop, cancel, reader, keepalive, closer, commandQ, capture, shutdown,
                 eventsOpen, history>>

AudioClosed ==
  /\ sender.at = "select"
  /\ audio = <<>>
  /\ ~audioOpen
  /\ SenderReturns("AudioChannelClosed", NoFrame)
  /\ UNCHANGED <<loop, cancel, reader, keepalive, closer, commandQ, audio, capture, shutdown,
                 eventsOpen, history>>

-----------------------------------------------------------------------------
(* read_events, run_keepalive, run_shutdown *)

\* The server's event is forwarded, unless nobody receives.
ReadEvent ==
  /\ reader = "reading"
  /\ ~eventsOpen
  /\ reader' = "EventChannelClosed"
  /\ UNCHANGED <<loop, cancel, sender, keepalive, closer, commandQ, audio, capture, shutdown,
                 eventsOpen, history>>

\* The server closes, the socket breaks, or a message does not parse.
ConnectionCloses ==
  /\ reader = "reading"
  /\ reader' = "ConnectionClosed"
  /\ UNCHANGED <<loop, cancel, sender, keepalive, closer, commandQ, audio, capture, shutdown,
                 eventsOpen, history>>

ReaderCancelled ==
  /\ reader = "reading"
  /\ cancel
  /\ reader' = "Cancelled"
  /\ UNCHANGED <<loop, cancel, sender, keepalive, closer, commandQ, audio, capture, shutdown,
                 eventsOpen, history>>

Tick ==
  /\ keepalive = "ticking"
  /\ keepalive' = "sending"
  /\ UNCHANGED <<loop, cancel, sender, reader, closer, commandQ, audio, capture, shutdown,
                 eventsOpen, history>>

KeepaliveCancelled ==
  /\ keepalive = "ticking"
  /\ cancel
  /\ keepalive' = "stopped"
  /\ UNCHANGED <<loop, cancel, sender, reader, closer, commandQ, audio, capture, shutdown,
                 eventsOpen, history>>

ShutdownSeen ==
  /\ closer = "watching"
  /\ shutdown
  /\ closer' = "sending"
  /\ UNCHANGED <<loop, cancel, sender, reader, keepalive, commandQ, audio, capture, shutdown,
                 eventsOpen, history>>

CloserCancelled ==
  /\ closer \in {"watching", "holding"}
  /\ cancel
  /\ closer' = "stopped"
  /\ UNCHANGED <<loop, cancel, sender, reader, keepalive, commandQ, audio, capture, shutdown,
                 eventsOpen, history>>

\* The state of a task that sends a command after the send: it waits for room,
\* and fails when the sender, which receives, has ended.
CommandSent(command, next, state) ==
  \/ SenderDone /\ state = "failed" /\ UNCHANGED commandQ
  \/ /\ ~SenderDone
     /\ Len(commandQ) < CommandMax
     /\ commandQ' = Append(commandQ, command)
     /\ state = next

KeepaliveSends ==
  /\ keepalive = "sending"
  /\ \E state \in {"ticking", "failed"} : CommandSent("KeepAlive", "ticking", state)
                                          /\ keepalive' = state
  /\ UNCHANGED <<loop, cancel, sender, reader, closer, audio, capture, shutdown, eventsOpen,
                 history>>

AfterClose == "holding"

CloserSends ==
  /\ closer = "sending"
  /\ \E state \in {AfterClose, "failed"} : CommandSent("CloseStream", AfterClose, state)
                                           /\ closer' = state
  /\ UNCHANGED <<loop, cancel, sender, reader, keepalive, audio, capture, shutdown, eventsOpen,
                 history>>

-----------------------------------------------------------------------------
(* The tasks around the provider *)

Capture ==
  /\ audioOpen
  /\ captured < MaxFrames
  /\ captured' = captured + 1
  /\ audio' = Append(audio, captured + 1)
  /\ UNCHANGED <<loop, cancel, sender, reader, keepalive, closer, commandQ, audioOpen, shutdown,
                 eventsOpen, history>>

CaptureEnds ==
  /\ audioOpen
  /\ audioOpen' = FALSE
  /\ UNCHANGED <<loop, cancel, sender, reader, keepalive, closer, commandQ, audio, captured,
                 shutdown, eventsOpen, history>>

RequestShutdown ==
  /\ ~shutdown
  /\ shutdown' = TRUE
  /\ UNCHANGED <<loop, cancel, sender, reader, keepalive, closer, commandQ, audio, capture,
                 eventsOpen, history>>

ReceiverEnds ==
  /\ eventsOpen
  /\ eventsOpen' = FALSE
  /\ UNCHANGED <<loop, cancel, sender, reader, keepalive, closer, commandQ, audio, capture,
                 shutdown, history>>

-----------------------------------------------------------------------------
Loop == Top \/ ConnectCancelled \/ ConnectFails \/ Connect \/ WaitEnds \/ FirstTask \/ Join

Stopped == pc \in Ended /\ UNCHANGED vars

Next ==
  \/ Top \/ ConnectCancelled \/ ConnectFails \/ Connect \/ WaitEnds
  \/ FirstTask \/ Join
  \/ FrameWritten \/ TextWritten \/ WriteFails \/ SenderCancelled
  \/ TakeCommand \/ CommandsClosed \/ TakeFrame \/ AudioClosed
  \/ ReadEvent \/ ConnectionCloses \/ ReaderCancelled
  \/ Tick \/ KeepaliveCancelled \/ KeepaliveSends
  \/ ShutdownSeen \/ CloserCancelled \/ CloserSends
  \/ Capture \/ CaptureEnds \/ RequestShutdown \/ ReceiverEnds
  \/ Stopped

Spec == Init /\ [][Next]_vars

\* The runtime polls a task that can go on, the select! of the sender chooses
\* at random, so it does not pass a command over for ever, and the command
\* channel gives a free place to the task that has waited longest.  Nothing
\* is assumed of the network: a write may stay under way for ever.
FairSpec ==
  /\ Spec
  /\ WF_vars(Loop) /\ WF_vars(SenderCancelled) /\ WF_vars(ReaderCancelled)
  /\ SF_vars(TakeCommand) /\ WF_vars(CommandsClosed) /\ WF_vars(AudioClosed)
  /\ WF_vars(ShutdownSeen) /\ SF_vars(CloserSends)

-----------------------------------------------------------------------------
\* The type invariant: run_loop and the four tasks; the reconnect delay stays
\* between its initial value and its maximum.
TypeOK ==
  /\ pc \in {"top", "connecting", "connected", "joining", "waiting"} \cup Ended
  /\ retryFrame \in {NoFrame} \cup Frame
  /\ retryCount \in 0..RetryCap /\ ReconnectDelay(retryCount) \in 1..MAX_RECONNECT_DELAY
  /\ cancel \in BOOLEAN /\ shutdown \in BOOLEAN /\ eventsOpen \in BOOLEAN
  /\ audioOpen \in BOOLEAN /\ ready \in BOOLEAN
  /\ first \in {"none", "sender", "reader", "keepalive", "closer"}
  /\ sender \in Sender
  /\ reader \in {"none", "reading", "Cancelled", "EventChannelClosed", "ConnectionClosed"}
  /\ keepalive \in {"none", "ticking", "sending", "stopped", "failed"}
  /\ closer \in {"none", "watching", "sending", "holding", "stopped", "failed"}
  /\ commandQ \in Seq({"KeepAlive", "CloseStream"}) /\ Len(commandQ) <= CommandMax
  /\ audio \in Seq(Frame)
  /\ captured \in 0..MaxFrames
  /\ last \in {NoFrame} \cup Frame /\ reached \subseteq Frame

\* README.md:183: the audio goes over the sockets in the order it was
\* captured, whatever connections break and whichever task notices first: a
\* write repeats the frame of the one before it or brings the next.
FramesKeepTheirOrder == [][last' \in {last, last + 1}]_vars

\* A frame that left the queue was written, or it is still held to be.
NoFrameIsSkipped ==
  \A f \in 1..(captured - Len(audio)) : f \in reached \/ f = sender.frame \/ f = retryFrame

\* No task of a connection is left when the next one is prepared, so none of
\* its events follows the Connecting status of the next, and no two senders
\* share the queue.
NoTaskOutlivesConnection ==
  pc \notin {"connected", "joining"} =>
    sender = NoSender /\ reader = "none" /\ keepalive = "none" /\ closer = "none"

\* A sender is cancelled only because the reader ended: a shutdown, or an
\* auxiliary task that ends, never takes the connection from under a sender
\* that could still write CloseStream.
OnlyReaderCancelsSender ==
  pc = "joining" /\ sender.outcome = "Cancelled" => first = "reader"

\* The four tasks of a connection end with it, and none too early.
TasksEndWithConnection == NoTaskOutlivesConnection /\ OnlyReaderCancelsSender

\* Once one task has ended the others do, and run_connection returns, even if
\* the network lets a write hang.
CancelledConnectionEnds == pc = "joining" ~> pc # "joining"

\* After a shutdown request the provider returns, unless a write hangs for
\* ever: also when the request comes between two looks at it, while all the
\* places of the command channel are taken, or during a reconnect.
ShutdownReturns == (shutdown ~> pc \in Ended) \/ <>[]Writing
=============================================================================
