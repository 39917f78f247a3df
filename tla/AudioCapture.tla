----------------------------- MODULE AudioCapture -----------------------------
(***************************************************************************)
(* FfmpegAudioSource of audio/ffmpeg.rs: the loop that starts ffmpeg, cuts *)
(* what it writes into PCM frames of one size, sends them to the audio     *)
(* queue, and starts another ffmpeg when one is lost.                      *)
(*                                                                         *)
(* The processes are part of the model: one may write, close its output,   *)
(* exit or hang whatever the capture does, and one that was killed need    *)
(* not be gone before CHILD_STOP_TIMEOUT.  The queue is the FIFO that      *)
(* CountedQueue implements; its receiver may be slow, or go away.  A byte  *)
(* of PCM is <<p, i>>, the i-th that process p wrote.                      *)
(***************************************************************************)
EXTENDS Integers, Sequences

CONSTANTS
  Settings,     \* the configurations: [rate, channels, chunkMs, queueMax]
  MaxBytes,     \* bound: bytes a process writes
  MaxProcesses  \* bound: processes started

ASSUME SettingsAssumption ==
  Settings \subseteq [rate : Nat, channels : Nat, chunkMs : Nat, queueMax : Nat]
ASSUME BoundsAssumption == MaxBytes \in Nat /\ MaxProcesses \in Nat

VARIABLES
  settings,      \* the configuration of this run
  input,         \* "live" or "file"
  pc,            \* where run_loop is
  processes,     \* the processes started so far, the current one last
  position,      \* bytes of the current process that were read
  buffer,        \* the frame being filled
  nextSequence,  \* next_sequence
  frame,         \* <<f>>: the frame f is being sent
  why,           \* what the child is stopped for: "shutdown", "closed" or "read"
  shutdown,      \* the shutdown channel
  receiving,     \* the audio queue has a receiver
  queued,        \* frames in the audio queue
  sent,          \* history: the frames put in the queue
  result         \* "none", or what run_loop returned

environment == <<settings, input, shutdown, receiving>>
vars == <<environment, pc, processes, position, buffer, nextSequence, frame, why, queued, sent,
          result>>

\* pcm_chunk_size, with two bytes a sample; the widths of its integers are
\* left out.
ChunkSize == (settings.rate * settings.channels * 2 * settings.chunkMs) \div 1000

Frame == [sequence : Nat, pcm : Seq((1..MaxProcesses) \X (1..MaxBytes))]

\* closed: nothing more comes from its stdout.  A dying process was killed and
\* may take its time.
Started == [state |-> "running", written |-> 0, closed |-> FALSE]
Process ==
  [state : {"running", "dying", "ok", "bad"}, written : 0..MaxBytes, closed : BOOLEAN]

Current == Len(processes)
Child == processes[Current]
Exited(process) == process.state \in {"ok", "bad"}

Init ==
  /\ settings \in Settings
  /\ input \in {"live", "file"}
  /\ pc = "enter"
  /\ processes = <<>>
  /\ position = 0
  /\ buffer = <<>>
  /\ nextSequence = 0
  /\ frame = <<>>
  /\ why = "none"
  /\ shutdown = FALSE
  /\ receiving = TRUE
  /\ queued = 0
  /\ sent = <<>>
  /\ result = "none"

-----------------------------------------------------------------------------
(* What the loop does between two captures *)

Return(r) == pc' = "returned" /\ result' = r

Enter ==
  /\ pc = "enter"
  /\ IF ChunkSize = 0 THEN Return("invalid") ELSE pc' = "top" /\ UNCHANGED result
  /\ UNCHANGED <<environment, processes, position, buffer, nextSequence, frame, why, queued,
                 sent>>

SeeShutdown ==
  /\ pc = "top"
  /\ shutdown
  /\ Return("ok")
  /\ UNCHANGED <<environment, processes, position, buffer, nextSequence, frame, why, queued,
                 sent>>

\* Faulty: the buffer outlives the process that was filling it.
FaultySpawn ==
  /\ pc = "top"
  /\ ~shutdown
  /\ Current < MaxProcesses
  /\ processes' = Append(processes, Started)
  /\ position' = 0
  /\ pc' = "reading"
  /\ UNCHANGED <<environment, buffer, nextSequence, frame, why, queued, sent, result>>

\* spawn(), and the beginning of read_frames with an empty buffer.
Spawn ==
  /\ pc = "top"
  /\ ~shutdown
  /\ Current < MaxProcesses
  /\ processes' = Append(processes, Started)
  /\ position' = 0
  /\ buffer' = <<>>
  /\ pc' = "reading"
  /\ UNCHANGED <<environment, nextSequence, frame, why, queued, sent, result>>

\* ffmpeg cannot be started: tried again, also for a file.
SpawnFails ==
  /\ pc = "top"
  /\ ~shutdown
  /\ pc' = "delay"
  /\ UNCHANGED <<environment, processes, position, buffer, nextSequence, frame, why, queued,
                 sent, result>>

\* The select! of the delay: RESTART_DELAY, or the shutdown.
Delay ==
  /\ pc = "delay"
  /\ \/ pc' = "top" /\ UNCHANGED result
     \/ shutdown /\ Return("ok")
  /\ UNCHANGED <<environment, processes, position, buffer, nextSequence, frame, why, queued,
                 sent>>

-----------------------------------------------------------------------------
(* read_frames *)

StopFor(reason) == pc' = "stopping" /\ why' = reason

\* The next n bytes of the child.
Bytes(n) == [i \in 1..n |-> <<Current, position + i>>]

\* One read() returns some of the bytes the frame lacks; a frame that is full
\* has its number at once, and is then sent.
Read ==
  /\ pc = "reading"
  /\ \E n \in 1..(ChunkSize - Len(buffer)) :
       /\ position + n <= Child.written
       /\ position' = position + n
       /\ IF Len(buffer) + n = ChunkSize
          THEN /\ frame' = << [sequence |-> nextSequence, pcm |-> buffer \o Bytes(n)] >>
               /\ nextSequence' = nextSequence + 1
               /\ buffer' = <<>>
               /\ pc' = "sending"
          ELSE buffer' = buffer \o Bytes(n) /\ UNCHANGED <<frame, nextSequence, pc>>
  /\ UNCHANGED <<environment, processes, why, queued, sent, result>>

\* The end of the stream: what there is of a frame is discarded.
ReadEnd ==
  /\ pc = "reading"
  /\ Child.closed
  /\ position = Child.written
  /\ buffer' = <<>>
  /\ pc' = "waiting"
  /\ UNCHANGED <<environment, processes, position, nextSequence, frame, why, queued, sent,
                 result>>

ReadFails ==
  /\ pc = "reading"
  /\ StopFor("read")
  /\ UNCHANGED <<environment, processes, position, buffer, nextSequence, frame, queued,
                 sent, result>>

ReadShutdown ==
  /\ pc = "reading"
  /\ shutdown
  /\ StopFor("shutdown")
  /\ UNCHANGED <<environment, processes, position, buffer, nextSequence, frame, queued,
                 sent, result>>

\* queueMax 0 is the unbounded queue.
HasPlace == settings.queueMax = 0 \/ queued < settings.queueMax

Send ==
  /\ pc = "sending"
  /\ receiving
  /\ HasPlace
  /\ sent' = sent \o frame
  /\ queued' = queued + 1
  /\ frame' = <<>>
  /\ pc' = "reading"
  /\ UNCHANGED <<environment, processes, position, buffer, nextSequence, why, result>>

\* Faulty: the frame is kept for the next capture.
FaultySendFails ==
  /\ pc = "sending"
  /\ ~receiving
  /\ StopFor(IF shutdown THEN "shutdown" ELSE "closed")
  /\ UNCHANGED <<environment, processes, position, buffer, nextSequence, frame, queued,
                 sent, result>>

\* An error after the shutdown was requested is part of it.
SendFails ==
  /\ pc = "sending"
  /\ ~receiving
  /\ frame' = <<>>
  /\ StopFor(IF shutdown THEN "shutdown" ELSE "closed")
  /\ UNCHANGED <<environment, processes, position, buffer, nextSequence, queued, sent,
                 result>>

\* Faulty: a frame that has its number is sent before the capture stops.
FaultySendShutdown ==
  /\ pc = "sending"
  /\ shutdown
  /\ HasPlace
  /\ frame' = <<>>
  /\ StopFor("shutdown")
  /\ UNCHANGED <<environment, processes, position, buffer, nextSequence, queued, sent,
                 result>>

\* The frame is lost, though it has a number.
SendShutdown ==
  /\ pc = "sending"
  /\ shutdown
  /\ frame' = <<>>
  /\ StopFor("shutdown")
  /\ UNCHANGED <<environment, processes, position, buffer, nextSequence, queued, sent,
                 result>>

-----------------------------------------------------------------------------
(* The end of a capture *)

\* Faulty: the exit status of a file is not looked at.
FaultyAfterExit ==
  IF input = "file" THEN Return("ok") ELSE pc' = "delay" /\ UNCHANGED result

\* The end of a file is the end of the capture; ffmpeg is not to leave a live
\* one.
AfterExit ==
  IF input = "file"
  THEN Return(IF Child.state = "ok" THEN "ok" ELSE "playback")
  ELSE pc' = "delay" /\ UNCHANGED result

\* child.wait(), and the stderr task, which ends with the child.
Wait ==
  /\ pc = "waiting"
  /\ Exited(Child)
  /\ AfterExit
  /\ UNCHANGED <<environment, processes, position, buffer, nextSequence, frame, why, queued,
                 sent>>

WaitShutdown ==
  /\ pc = "waiting"
  /\ shutdown
  /\ StopFor("shutdown")
  /\ UNCHANGED <<environment, processes, position, buffer, nextSequence, frame, queued,
                 sent, result>>

Killed(process) == IF process.state = "running" THEN [process EXCEPT !.state = "dying"] ELSE process

\* Faulty: kill_on_drop(false).
FaultyDropChild == UNCHANGED processes

\* The handle goes; kill_on_drop kills a child that has not exited.
DropChild ==
  IF Current = 0 THEN UNCHANGED processes
                 ELSE processes' = [processes EXCEPT ![Current] = Killed(@)]

\* wait(), try_wait() or start_kill() fails: the error hides what the child
\* was stopped for, and the loop goes on.
ChildFails ==
  /\ pc \in {"waiting", "stopping", "reaping"}
  /\ DropChild
  /\ pc' = "delay"
  /\ UNCHANGED <<environment, position, buffer, nextSequence, frame, why, queued, sent,
                 result>>

\* stop_child, up to its wait
Stop ==
  /\ pc = "stopping"
  /\ processes' = [processes EXCEPT ![Current] = Killed(@)]
  /\ pc' = "reaping"
  /\ UNCHANGED <<environment, position, buffer, nextSequence, frame, why, queued, sent,
                 result>>

Reap ==
  /\ pc = "reaping"
  /\ Exited(Child)
  /\ CASE why = "shutdown" -> Return("ok")
       [] why = "closed"   -> Return("closed")
       [] why = "read"     -> pc' = "delay" /\ UNCHANGED result
  /\ UNCHANGED <<environment, processes, position, buffer, nextSequence, frame, why, queued,
                 sent>>

\* CHILD_STOP_TIMEOUT: an error like those of ChildFails.
StopTimeout ==
  /\ pc = "reaping"
  /\ ~Exited(Child)
  /\ DropChild
  /\ pc' = "delay"
  /\ UNCHANGED <<environment, position, buffer, nextSequence, frame, why, queued, sent,
                 result>>

\* The application aborts the task: its future is dropped, and the child with
\* it.
Abort ==
  /\ pc \notin {"enter", "returned"}
  /\ shutdown
  /\ DropChild
  /\ Return("aborted")
  /\ frame' = <<>>
  /\ UNCHANGED <<environment, position, buffer, nextSequence, why, queued, sent>>

-----------------------------------------------------------------------------
(* ffmpeg, the application and the recogniser *)

capture == <<pc, position, buffer, nextSequence, frame, why, sent, result>>

Write ==
  /\ \E p \in 1..Current :
       /\ processes[p].state = "running" /\ ~processes[p].closed
       /\ processes[p].written < MaxBytes
       /\ processes' = [processes EXCEPT ![p].written = @ + 1]
  /\ UNCHANGED <<environment, capture, queued>>

CloseOutput ==
  /\ \E p \in 1..Current :
       /\ processes[p].state = "running" /\ ~processes[p].closed
       /\ processes' = [processes EXCEPT ![p].closed = TRUE]
  /\ UNCHANGED <<environment, capture, queued>>

Exit ==
  /\ \E p \in 1..Current, how \in {"ok", "bad"} :
       /\ processes[p].state \in (IF how = "ok" THEN {"running"} ELSE {"running", "dying"})
       /\ processes' = [processes EXCEPT ![p].state = how, ![p].closed = TRUE]
  /\ UNCHANGED <<environment, capture, queued>>

RequestShutdown ==
  /\ ~shutdown
  /\ shutdown' = TRUE
  /\ UNCHANGED <<settings, input, receiving, processes, capture, queued>>

Receive ==
  /\ receiving
  /\ queued > 0
  /\ queued' = queued - 1
  /\ UNCHANGED <<environment, processes, capture>>

ReceiverEnds ==
  /\ receiving
  /\ receiving' = FALSE
  /\ UNCHANGED <<settings, input, shutdown, processes, capture, queued>>

-----------------------------------------------------------------------------
Returned == pc = "returned" /\ UNCHANGED vars

Capture ==
  \/ Enter \/ SeeShutdown \/ Spawn \/ SpawnFails \/ Delay
  \/ Read \/ ReadEnd \/ ReadFails \/ ReadShutdown
  \/ Send \/ SendFails \/ SendShutdown
  \/ Wait \/ WaitShutdown \/ ChildFails \/ Stop \/ Reap \/ StopTimeout

Next ==
  \/ Enter \/ SeeShutdown \/ Spawn \/ SpawnFails \/ Delay
  \/ Read \/ ReadEnd \/ ReadFails \/ ReadShutdown
  \/ Send \/ SendFails \/ SendShutdown
  \/ Wait \/ WaitShutdown \/ ChildFails \/ Stop \/ Reap \/ StopTimeout
  \/ Abort
  \/ pc # "returned" /\ (Write \/ CloseOutput \/ Exit \/ RequestShutdown \/ Receive \/ ReceiverEnds)
  \/ Returned

Spec == Init /\ [][Next]_vars

\* The runtime polls the capture, its timers expire, and what it waits for is
\* seen.  Nothing is assumed of ffmpeg, not even that it dies when killed, of
\* the receiver or of the application.
FairSpec == Spec /\ WF_vars(Capture)

-----------------------------------------------------------------------------
\* The type invariant; a frame is in hand exactly while it is being sent.
TypeOK ==
  /\ pc \in {"enter", "top", "reading", "sending", "waiting", "stopping", "reaping", "delay",
             "returned"}
  /\ processes \in Seq(Process) /\ Current <= MaxProcesses
  /\ position \in 0..MaxBytes
  /\ Len(buffer) < ChunkSize \/ buffer = <<>>
  /\ nextSequence \in Nat /\ queued \in Nat
  /\ why \in {"none", "shutdown", "closed", "read"}
  /\ Len(frame) = (IF pc = "sending" THEN 1 ELSE 0)
  /\ result \in {"none", "ok", "closed", "playback", "invalid", "aborted"}

\* f is the k-th frame of the output of process p.
IsCut(f, p, k) == f.pcm = [i \in 1..ChunkSize |-> <<p, (k - 1) * ChunkSize + i>>]

\* The queue gets the output of each process cut into whole frames: from its
\* first byte on, none skipped, repeated or mixed with bytes of the process
\* before it; and the frames are numbered without a gap across restarts.
FramesAreWhole ==
  /\ \A i \in 1..Len(sent) :
       /\ sent[i].sequence = i - 1
       /\ \E p \in 1..Current, k \in 1..MaxBytes : IsCut(sent[i], p, k)
  /\ \A i \in 1..Len(sent), p \in 1..Current, k \in 2..MaxBytes :
       IsCut(sent[i], p, k) => i > 1 /\ IsCut(sent[i - 1], p, k - 1)

WholeFrames(p) == processes[p].written \div ChunkSize
SentOf(p) == {i \in 1..Len(sent) : sent[i].pcm[1][1] = p}

\* The capture ends well only when it was told to stop, or when a file was
\* played by an ffmpeg that succeeded and every whole frame of it was sent; a
\* live one gives up only when nobody receives.
ReturnIsJustified ==
  /\ (result = "ok" /\ ~shutdown) =>
       /\ input = "file" /\ Child.state = "ok"
       /\ \A k \in 1..WholeFrames(Current) : \E i \in SentOf(Current) : IsCut(sent[i], Current, k)
  /\ (result \in {"closed", "playback"} /\ input = "live") => ~receiving

\* Whatever fails, also when the task is aborted, no ffmpeg goes on without
\* the capture that reads it: another process runs only when it is told to
\* die.
NoFfmpegLeftBehind ==
  \A p \in 1..Current :
    processes[p].state = "running" =>
      p = Current /\ pc \in {"reading", "sending", "waiting", "stopping"}

\* A capture that is told to stop returns: when ffmpeg writes nothing or does
\* not die, and when the queue is full and nobody receives.
CaptureStops == shutdown ~> pc = "returned"
=============================================================================
