-------------------------- MODULE AudioCaptureProofs --------------------------
(***************************************************************************)
(* Safety of the ffmpeg capture for every frame size, every capacity of    *)
(* the queue and every number of processes and of bytes they write: its    *)
(* type invariant, that no ffmpeg is left behind, that the queue gets the  *)
(* output of each process in whole frames, and that what the capture       *)
(* returns is justified.                                                   *)
(***************************************************************************)
EXTENDS AudioCapture, TLAPS, SequenceTheorems

-----------------------------------------------------------------------------
(* The inductive invariant *)

Byte == (1..MaxProcesses) \X (1..MaxBytes)

\* The sequences of the model, and what is fixed from the start: frames that
\* are cut have at least one byte.
Typing ==
  /\ settings \in Settings /\ input \in {"live", "file"}
  /\ shutdown \in BOOLEAN /\ receiving \in BOOLEAN
  /\ buffer \in Seq(Byte) /\ frame \in Seq(Frame) /\ sent \in Seq(Frame)
  /\ pc \notin {"enter", "returned"} => ChunkSize > 0
  /\ sent # <<>> => ChunkSize > 0

\* The capture is at a child only when there is one, and it waits for one
\* whose output it read to the end.
ChildInHand ==
  /\ pc \in {"reading", "sending", "waiting", "stopping", "reaping"} => Current > 0
  /\ pc = "waiting" => Child.closed /\ position = Child.written

\* A capture is stopped for a reason, and the reason stays true: neither the
\* shutdown nor the loss of the receiver is taken back.
ReasonHolds ==
  /\ why = "shutdown" => shutdown
  /\ why = "closed" => ~receiving
  /\ pc \in {"stopping", "reaping"} => why # "none"
  /\ result # "none" => pc = "returned"

\* A frame gets its number when it is full, and keeps its place: a number is
\* lost only where nothing is sent any more.
NumbersFollow ==
  /\ pc = "sending" => frame[1].sequence = nextSequence - 1
  /\ receiving /\ (pc \in {"reading", "sending"} \/ ~shutdown) =>
       nextSequence = Len(sent) + Len(frame)

\* The k-th frame of C bytes of process p.
Cut(C, p, k) == [i \in 1..C |-> <<p, (k - 1) * C + i>>]

\* The frame being filled or sent is the next one of the current process, k
\* of which were sent.
Cutting(k) ==
  /\ pc = "reading" =>
       /\ position = k * ChunkSize + Len(buffer)
       /\ Len(buffer) < ChunkSize
       /\ \A i \in 1..Len(buffer) : buffer[i] = <<Current, k * ChunkSize + i>>
  /\ pc = "sending" =>
       /\ position = k * ChunkSize + ChunkSize
       /\ buffer = <<>>
       /\ frame[1].pcm = Cut(ChunkSize, Current, k + 1)
  /\ pc = "waiting" => position < k * ChunkSize + ChunkSize
  /\ \A j \in 1..k : \E i \in 1..Len(sent) : sent[i].pcm = Cut(ChunkSize, Current, j)
  /\ pc # "waiting" /\ k > 0 =>
       sent # <<>> /\ sent[Len(sent)].pcm = Cut(ChunkSize, Current, k)

NextIsCut ==
  pc \in {"reading", "sending", "waiting"} => \E k \in 0..MaxBytes : Cutting(k)

\* What the steps of the capture and of its processes preserve by themselves.
IInv ==
  /\ TypeOK
  /\ Typing
  /\ ChildInHand
  /\ ReasonHolds
  /\ NoFfmpegLeftBehind

-----------------------------------------------------------------------------
(* Lemmas about frames and processes *)

\* pcm_chunk_size is a number of bytes, for every configuration.
LEMMA ChunkSizeType ==
  ASSUME settings \in Settings
  PROVE  ChunkSize \in Nat
<1>1. settings.rate \in Nat /\ settings.channels \in Nat /\ settings.chunkMs \in Nat
  BY SettingsAssumption
<1> DEFINE samples == settings.rate * settings.channels
           bytes == samples * 2 * settings.chunkMs
<1>2. samples \in Nat
  BY <1>1
<1> HIDE DEF samples
<1>3. samples * 2 \in Nat
  BY <1>2
<1>4. bytes \in Nat
  BY <1>1, <1>3
<1> HIDE DEF bytes
<1>5. bytes \div 1000 \in Nat
  BY <1>4
<1> QED
  BY <1>5 DEF ChunkSize, bytes, samples

\* No step changes the configuration, and with it the size of a frame; what
\* the application asked for or the recogniser gave up stays so.
LEMMA ConfigurationStays ==
  ASSUME IInv, [Next]_vars
  PROVE  /\ UNCHANGED <<settings, input>>
         /\ ChunkSize' = ChunkSize
         /\ shutdown => shutdown'
         /\ ~receiving => ~receiving'
         /\ shutdown' \in BOOLEAN /\ receiving' \in BOOLEAN
<1>1. /\ UNCHANGED <<settings, input>>
      /\ shutdown' = shutdown \/ shutdown' = TRUE
      /\ receiving' = receiving \/ receiving' = FALSE
  BY DEF Next, vars, environment, Enter, SeeShutdown, Spawn, SpawnFails, Delay, Read, ReadEnd,
     ReadFails, ReadShutdown, Send, SendFails, SendShutdown, Wait, WaitShutdown, ChildFails,
     Stop, Reap, StopTimeout, Abort, Write, CloseOutput, Exit, RequestShutdown, Receive,
     ReceiverEnds, Returned
<1>2. ChunkSize' = ChunkSize
  BY <1>1 DEF ChunkSize
<1>3. shutdown \in BOOLEAN /\ receiving \in BOOLEAN
  BY DEF IInv, Typing
<1>4. /\ shutdown => shutdown'
      /\ shutdown' \in BOOLEAN
  BY <1>1, <1>3, Zenon
<1>5. /\ ~receiving => ~receiving'
      /\ receiving' \in BOOLEAN
  <2>1. CASE receiving' = receiving
    BY <1>3, <2>1, Zenon
  <2>2. CASE receiving' = FALSE
    BY <2>2, Zenon
  <2> QED
    BY <1>1, <2>1, <2>2, Zenon
<1> QED
  BY <1>1, <1>2, <1>4, <1>5

\* One process is replaced, and the others stay.
LEMMA ReplaceProcess ==
  ASSUME processes \in Seq(Process), NEW p \in 1..Current, NEW process \in Process,
         processes' = [processes EXCEPT ![p] = process]
  PROVE  /\ processes' \in Seq(Process)
         /\ Current' = Current
         /\ processes'[p] = process
         /\ \A q \in 1..Current : q # p => processes'[q] = processes[q]
<1>1. /\ processes' \in Seq(Process)
      /\ Len(processes') = Len(processes)
      /\ \A q \in 1..Len(processes) : processes'[q] = IF q = p THEN process ELSE processes[q]
  BY ExceptSeq DEF Current
<1> QED
  BY <1>1 DEF Current

\* What dropping the handle of the child does: it is killed if it still runs.
LEMMA DropChildKills ==
  ASSUME processes \in Seq(Process), DropChild
  PROVE  /\ processes' \in Seq(Process)
         /\ Current' = Current /\ Current \in Nat
         /\ Current > 0 => processes'[Current] = Killed(Child)
         /\ \A q \in 1..Current : q # Current => processes'[q] = processes[q]
<1>1. Current \in Nat
  BY LenProperties DEF Current
<1>2. CASE Current = 0
  BY <1>1, <1>2 DEF DropChild, Current
<1>3. CASE Current # 0
  <2>1. Current \in 1..Current
    BY <1>1, <1>3
  <2>2. Child \in Process
    BY <2>1, ElementOfSeq DEF Child, Current
  <2>3. Killed(Child) \in Process
    BY <2>2 DEF Killed, Process
  <2>4. processes' = [processes EXCEPT ![Current] = Killed(Child)]
    BY <1>3 DEF DropChild, Child
  <2>5. processes'[Current] = Killed(Child)
    BY <2>1, <2>3, <2>4, ReplaceProcess
  <2> QED
    BY <1>1, <2>1, <2>3, <2>4, <2>5, ReplaceProcess
<1> QED
  BY <1>2, <1>3

\* ffmpeg writes, closes its output or exits.
LEMMA ProcessSteps ==
  ASSUME processes \in Seq(Process), Write \/ CloseOutput \/ Exit
  PROVE  /\ processes' \in Seq(Process)
         /\ Current' = Current
         /\ \A p \in 1..Current :
              /\ processes'[p].state = "running" => processes[p].state = "running"
              /\ processes[p].closed =>
                   processes'[p].closed /\ processes'[p].written = processes[p].written
<1>1. \A p \in 1..Current : processes[p] \in Process
  BY ElementOfSeq DEF Current
<1>2. ASSUME NEW p \in 1..Current, NEW process \in Process,
             processes' = [processes EXCEPT ![p] = process],
             process.state = "running" => processes[p].state = "running",
             processes[p].closed => process.closed /\ process.written = processes[p].written
      PROVE  /\ processes' \in Seq(Process)
             /\ Current' = Current
             /\ \A q \in 1..Current :
                  /\ processes'[q].state = "running" => processes[q].state = "running"
                  /\ processes[q].closed =>
                       processes'[q].closed /\ processes'[q].written = processes[q].written
  <2>1. /\ processes' \in Seq(Process) /\ Current' = Current
        /\ processes'[p] = process
        /\ \A q \in 1..Current : q # p => processes'[q] = processes[q]
    BY <1>2, ReplaceProcess
  <2> SUFFICES ASSUME NEW q \in 1..Current
               PROVE  /\ processes'[q].state = "running" => processes[q].state = "running"
                      /\ processes[q].closed =>
                           processes'[q].closed /\ processes'[q].written = processes[q].written
    BY <2>1
  <2> QED
    BY <1>2, <2>1
<1>3. CASE Write
  <2>1. PICK p \in 1..Current :
          /\ ~processes[p].closed
          /\ processes[p].state = "running"
          /\ processes[p].written < MaxBytes
          /\ processes' = [processes EXCEPT ![p].written = @ + 1]
    BY <1>3 DEF Write
  <2> DEFINE process == [processes[p] EXCEPT !.written = @ + 1]
  <2>2. process \in Process /\ process.closed = processes[p].closed
    BY <1>1, <2>1, BoundsAssumption DEF Process
  <2>3. processes' = [processes EXCEPT ![p] = process]
    BY <2>1
  <2> QED
    BY <1>2, <2>1, <2>2, <2>3
<1>4. CASE CloseOutput
  <2>1. PICK p \in 1..Current :
          /\ ~processes[p].closed
          /\ processes[p].state = "running"
          /\ processes' = [processes EXCEPT ![p].closed = TRUE]
    BY <1>4 DEF CloseOutput
  <2> DEFINE process == [processes[p] EXCEPT !.closed = TRUE]
  <2>2. process \in Process
    BY <1>1, <2>1 DEF Process
  <2>3. processes' = [processes EXCEPT ![p] = process]
    BY <2>1
  <2> QED
    BY <1>2, <2>1, <2>2, <2>3
<1>5. CASE Exit
  <2>1. PICK p \in 1..Current, how \in {"ok", "bad"} :
          processes' = [processes EXCEPT ![p].state = how, ![p].closed = TRUE]
    BY <1>5 DEF Exit
  <2> DEFINE process == [processes[p] EXCEPT !.state = how, !.closed = TRUE]
  <2>2. /\ process \in Process
        /\ process.state # "running"
        /\ process.closed /\ process.written = processes[p].written
    BY <1>1, <2>1 DEF Process
  <2>3. processes' = [processes EXCEPT ![p] = process]
    BY <1>1, <2>1 DEF Process
  <2> QED
    BY <1>2, <2>2, <2>3
<1> QED
  BY <1>3, <1>4, <1>5

\* What a read() that returns n bytes adds to the frame.
LEMMA BytesOfRead ==
  ASSUME IInv, pc = "reading",
         NEW n \in 1..(ChunkSize - Len(buffer)), position + n <= Child.written
  PROVE  /\ Current \in 1..MaxProcesses /\ Len(buffer) \in Nat /\ n \in Nat
         /\ position + n \in 0..MaxBytes
         /\ buffer \o Bytes(n) \in Seq(Byte)
         /\ Len(buffer \o Bytes(n)) = Len(buffer) + n
         /\ \A i \in 1..(Len(buffer) + n) :
              (buffer \o Bytes(n))[i] =
                IF i <= Len(buffer) THEN buffer[i] ELSE <<Current, position + (i - Len(buffer))>>
<1>1. Current \in 1..MaxProcesses /\ Len(buffer) \in Nat /\ n \in Nat /\ ChunkSize \in Nat
  BY ChunkSizeType, LenProperties DEF IInv, TypeOK, Typing, ChildInHand, Current
<1>2. Child.written \in 0..MaxBytes
  <2>1. processes \in Seq(Process) /\ Current \in 1..Len(processes)
    BY <1>1 DEF IInv, TypeOK, Current
  <2>2. Child \in Process
    BY <2>1, ElementOfSeq DEF Child
  <2> QED
    BY <2>2 DEF Process
<1>3. position \in 0..MaxBytes /\ position + n \in 0..MaxBytes
  BY <1>1, <1>2, BoundsAssumption DEF IInv, TypeOK
<1>4. \A i \in 1..n : <<Current, position + i>> \in Byte
  BY <1>1, <1>3, BoundsAssumption DEF Byte
<1>5. /\ Bytes(n) \in Seq(Byte)
      /\ Len(Bytes(n)) = n
      /\ \A i \in 1..n : Bytes(n)[i] = <<Current, position + i>>
  BY <1>1, <1>4 DEF Bytes
<1>6. buffer \in Seq(Byte)
  BY DEF IInv, Typing
<1>7. /\ buffer \o Bytes(n) \in Seq(Byte)
      /\ Len(buffer \o Bytes(n)) = Len(buffer) + n
      /\ \A i \in 1..(Len(buffer) + n) :
           (buffer \o Bytes(n))[i] =
             IF i <= Len(buffer) THEN buffer[i] ELSE Bytes(n)[i - Len(buffer)]
  BY <1>5, <1>6, ConcatProperties
<1>8. ASSUME NEW i \in 1..(Len(buffer) + n), ~(i <= Len(buffer))
      PROVE  Bytes(n)[i - Len(buffer)] = <<Current, position + (i - Len(buffer))>>
  <2>1. i - Len(buffer) \in 1..n
    BY <1>1, <1>8
  <2> QED
    BY <1>5, <2>1
<1> QED
  BY <1>1, <1>3, <1>7, <1>8

-----------------------------------------------------------------------------
(* The type invariant and the processes *)

LEMMA InitIInv == Init => IInv
<1> SUFFICES ASSUME Init
             PROVE  IInv
  OBVIOUS
<1>1. TypeOK
  BY BoundsAssumption DEF Init, TypeOK, Process, Current
<1>2. Typing
  <2>1. buffer \in Seq(Byte) /\ frame \in Seq(Frame) /\ sent \in Seq(Frame)
    BY EmptySeq DEF Init
  <2>2. shutdown \in BOOLEAN /\ receiving \in BOOLEAN
    BY Zenon DEF Init
  <2> QED
    BY <2>1, <2>2 DEF Init, Typing
<1>3. ChildInHand /\ ReasonHolds
  BY DEF Init, ChildInHand, ReasonHolds
<1>4. NoFfmpegLeftBehind
  BY DEF Init, NoFfmpegLeftBehind, Current
<1> QED
  BY <1>1, <1>2, <1>3, <1>4 DEF IInv

LEMMA StepIInv ==
  ASSUME IInv, [Next]_vars
  PROVE  IInv'
<1> USE DEF IInv, TypeOK, Typing, ChildInHand, ReasonHolds
<1>1. /\ UNCHANGED <<settings, input>> /\ ChunkSize' = ChunkSize /\ ChunkSize \in Nat
      /\ shutdown' \in BOOLEAN /\ receiving' \in BOOLEAN
      /\ shutdown => shutdown'
      /\ ~receiving => ~receiving'
  BY ConfigurationStays, ChunkSizeType
<1>2. processes \in Seq(Process) /\ Current \in Nat
  BY LenProperties DEF Current
<1>3. ASSUME UNCHANGED processes
      PROVE  Current' = Current /\ Child' = Child
  BY <1>3 DEF Current, Child
<1>4. CASE Enter
  BY <1>1, <1>2, <1>3, <1>4 DEF Enter, Return, environment, NoFfmpegLeftBehind
<1>5. CASE SeeShutdown
  BY <1>1, <1>2, <1>3, <1>5 DEF SeeShutdown, Return, environment, NoFfmpegLeftBehind
<1>6. CASE SpawnFails
  BY <1>1, <1>2, <1>3, <1>6 DEF SpawnFails, environment, NoFfmpegLeftBehind
<1>7. CASE Delay
  BY <1>1, <1>2, <1>3, <1>7 DEF Delay, Return, environment, NoFfmpegLeftBehind
<1>8. CASE ReadEnd
  BY <1>1, <1>2, <1>3, <1>8 DEF ReadEnd, environment, NoFfmpegLeftBehind
<1>9. CASE ReadFails
  BY <1>1, <1>2, <1>3, <1>9 DEF ReadFails, StopFor, environment, NoFfmpegLeftBehind
<1>10. CASE ReadShutdown
  BY <1>1, <1>2, <1>3, <1>10 DEF ReadShutdown, StopFor, environment, NoFfmpegLeftBehind
<1>11. CASE SendFails
  BY <1>1, <1>2, <1>3, <1>11 DEF SendFails, StopFor, environment, NoFfmpegLeftBehind
<1>12. CASE SendShutdown
  BY <1>1, <1>2, <1>3, <1>12 DEF SendShutdown, StopFor, environment, NoFfmpegLeftBehind
<1>13. CASE Wait
  <2>1. processes[Current].state # "running"
    BY <1>13 DEF Wait, Exited, Child
  <2> QED
    BY <1>1, <1>2, <1>3, <1>13, <2>1 DEF Wait, AfterExit, Return, environment, NoFfmpegLeftBehind
<1>14. CASE WaitShutdown
  BY <1>1, <1>2, <1>3, <1>14 DEF WaitShutdown, StopFor, environment, NoFfmpegLeftBehind
<1>15. CASE Reap
  BY <1>1, <1>2, <1>3, <1>15 DEF Reap, Return, environment, NoFfmpegLeftBehind
<1>16. CASE Spawn
  <2> HIDE DEF IInv
  <2>1. Started \in Process /\ Started.state = "running" /\ ~Started.closed
    BY BoundsAssumption DEF Started, Process
  <2>2. /\ processes' \in Seq(Process)
        /\ Current' = Current + 1
        /\ \A p \in 1..Current : processes'[p] = processes[p]
    BY <1>2, <1>16, <2>1, AppendProperties DEF Spawn, Current
  <2>3. NoFfmpegLeftBehind'
    <3>1. pc = "top" /\ pc' = "reading"
      BY <1>16 DEF Spawn
    <3>2. \A p \in 1..Current : processes[p].state # "running"
      BY <3>1 DEF NoFfmpegLeftBehind, IInv
    <3>3. ASSUME NEW p \in 1..Current', processes'[p].state = "running"
          PROVE  p = Current'
      BY <1>2, <2>2, <3>2, <3>3
    <3> QED
      BY <3>1, <3>3 DEF NoFfmpegLeftBehind
  <2>4. Current' <= MaxProcesses /\ Current' > 0
    BY <1>2, <1>16, <2>2, BoundsAssumption DEF Spawn
  <2> QED
    BY <1>1, <1>2, <1>16, <2>2, <2>3, <2>4, BoundsAssumption DEF Spawn, environment, IInv
<1>17. CASE Read
  <2> HIDE DEF IInv
  <2>1. PICK n \in 1..(ChunkSize - Len(buffer)) :
          /\ position + n <= Child.written
          /\ position' = position + n
          /\ IF Len(buffer) + n = ChunkSize
             THEN /\ frame' = << [sequence |-> nextSequence, pcm |-> buffer \o Bytes(n)] >>
                  /\ nextSequence' = nextSequence + 1
                  /\ buffer' = <<>>
                  /\ pc' = "sending"
             ELSE buffer' = buffer \o Bytes(n) /\ UNCHANGED <<frame, nextSequence, pc>>
    BY <1>17 DEF Read
  <2>2. pc = "reading"
    BY <1>17 DEF Read
  <2>3. /\ n \in Nat /\ Len(buffer) \in Nat
        /\ position + n \in 0..MaxBytes
        /\ buffer \o Bytes(n) \in Seq(Byte)
        /\ Len(buffer \o Bytes(n)) = Len(buffer) + n
        /\ nextSequence \in Nat
    BY <2>1, <2>2, BytesOfRead DEF IInv
  <2>4. CASE Len(buffer) + n = ChunkSize
    <3>1. frame' \in Seq(Frame) /\ Len(frame') = 1
      <4>1. [sequence |-> nextSequence, pcm |-> buffer \o Bytes(n)] \in Frame
        BY <2>3 DEF Frame, Byte
      <4>2. << [sequence |-> nextSequence, pcm |-> buffer \o Bytes(n)] >> \in Seq(Frame)
        BY <4>1
      <4>3. frame' = << [sequence |-> nextSequence, pcm |-> buffer \o Bytes(n)] >>
        BY <2>1, <2>4
      <4> QED
        BY <4>2, <4>3
    <3>2. nextSequence' \in Nat
      BY <2>1, <2>3, <2>4
    <3>3. pc' = "sending" /\ buffer' = <<>> /\ position' \in 0..MaxBytes
      BY <2>1, <2>3, <2>4
    <3>4. UNCHANGED <<environment, processes, why, queued, sent, result>>
      BY <1>17 DEF Read
    <3>5. buffer' \in Seq(Byte)
      BY <3>3, EmptySeq
    <3> QED
      BY <1>1, <1>2, <1>3, <2>2, <3>1, <3>2, <3>3, <3>4, <3>5
      DEF environment, NoFfmpegLeftBehind, IInv
  <2>5. CASE Len(buffer) + n # ChunkSize
    <3>1. Len(buffer') < ChunkSize
      <4>1. buffer' = buffer \o Bytes(n)
        BY <2>1, <2>5
      <4>2. Len(buffer') = Len(buffer) + n
        BY <2>3, <4>1
      <4>3. Len(buffer) + n < ChunkSize
        BY <1>1, <2>3, <2>5
      <4> QED
        BY <4>2, <4>3
    <3> QED
      BY <1>1, <1>2, <1>3, <1>17, <2>1, <2>2, <2>3, <2>5, <3>1
      DEF Read, environment, NoFfmpegLeftBehind, IInv
  <2> QED
    BY <2>4, <2>5
<1>18. CASE Send
  <2>1. sent' \in Seq(Frame)
    BY <1>18, ConcatProperties DEF Send
  <2> QED
    BY <1>1, <1>2, <1>3, <1>18, <2>1 DEF Send, environment, NoFfmpegLeftBehind
<1>19. ASSUME DropChild
       PROVE  /\ processes' \in Seq(Process) /\ Current' = Current
              /\ \A p \in 1..Current : processes'[p].state = "running" => p # Current
              /\ \A p \in 1..Current : p # Current => processes'[p] = processes[p]
  <2>1. /\ processes' \in Seq(Process) /\ Current' = Current
        /\ Current > 0 => processes'[Current] = Killed(Child)
        /\ \A p \in 1..Current : p # Current => processes'[p] = processes[p]
    BY <1>2, <1>19, DropChildKills
  <2>2. Current > 0 => Killed(Child).state # "running"
    <3>1. Current > 0 => Child \in Process
      BY <1>2, ElementOfSeq DEF Child, Current
    <3> QED
      BY <3>1 DEF Killed, Process
  <2> QED
    BY <1>2, <2>1, <2>2
<1>20. CASE ChildFails
  <2>1. DropChild
    BY <1>20 DEF ChildFails
  <2> QED
    BY <1>1, <1>2, <1>19, <1>20, <2>1 DEF ChildFails, environment, NoFfmpegLeftBehind
<1>21. CASE Stop
  <2>1. DropChild
    BY <1>2, <1>21 DEF Stop, DropChild
  <2> QED
    BY <1>1, <1>2, <1>19, <1>21, <2>1 DEF Stop, environment, NoFfmpegLeftBehind
<1>22. CASE StopTimeout
  <2>1. DropChild
    BY <1>22 DEF StopTimeout
  <2> QED
    BY <1>1, <1>2, <1>19, <1>22, <2>1 DEF StopTimeout, environment, NoFfmpegLeftBehind
<1>23. CASE Abort
  <2>1. DropChild
    BY <1>23 DEF Abort
  <2>2. NoFfmpegLeftBehind'
    BY <1>2, <1>19, <1>23, <2>1 DEF Abort, Return, NoFfmpegLeftBehind
  <2> QED
    BY <1>1, <1>2, <1>19, <1>23, <2>1, <2>2 DEF Abort, Return, environment
<1>24. CASE Write \/ CloseOutput \/ Exit
  <2>1. /\ processes' \in Seq(Process) /\ Current' = Current
        /\ \A p \in 1..Current :
             /\ processes'[p].state = "running" => processes[p].state = "running"
             /\ processes[p].closed =>
                  processes'[p].closed /\ processes'[p].written = processes[p].written
    BY <1>2, <1>24, ProcessSteps
  <2>2. UNCHANGED <<environment, capture, queued>>
    BY <1>24 DEF Write, CloseOutput, Exit
  <2>3. pc = "waiting" => Child'.closed /\ position' = Child'.written
    BY <1>2, <2>1, <2>2 DEF Child, Current, capture
  <2> QED
    BY <1>1, <1>2, <2>1, <2>2, <2>3 DEF environment, capture, NoFfmpegLeftBehind
<1>25. CASE RequestShutdown \/ Receive \/ ReceiverEnds
  <2>1. UNCHANGED <<settings, input, processes, capture>> /\ queued' \in Nat
    BY <1>25 DEF RequestShutdown, Receive, ReceiverEnds, environment
  <2>2. NoFfmpegLeftBehind'
    BY <1>3, <2>1 DEF capture, NoFfmpegLeftBehind
  <2>3. TypeOK'
    BY <1>1, <1>2, <1>3, <2>1 DEF capture
  <2>4. Typing'
    BY <1>1, <1>2, <1>3, <2>1 DEF capture
  <2>5. ChildInHand'
    BY <1>1, <1>2, <1>3, <2>1 DEF capture
  <2>6. ReasonHolds'
    <3>1. UNCHANGED <<pc, why, result>>
      BY <2>1 DEF capture
    <3> QED
      BY <1>1, <3>1
  <2> QED
    BY <2>2, <2>3, <2>4, <2>5, <2>6
<1>26. CASE Returned \/ UNCHANGED vars
  BY <1>1, <1>2, <1>3, <1>26 DEF Returned, vars, environment, NoFfmpegLeftBehind
<1> QED
  BY <1>4, <1>5, <1>6, <1>7, <1>8, <1>9, <1>10, <1>11, <1>12, <1>13, <1>14, <1>15, <1>16,
     <1>17, <1>18, <1>20, <1>21, <1>22, <1>23, <1>24, <1>25, <1>26 DEF Next

LEMMA Invariance == Spec => []IInv
<1> QED
  BY InitIInv, StepIInv, PTL DEF Spec

\* The type invariant holds for every configuration.
THEOREM TypeCorrect == Spec => []TypeOK
<1>1. IInv => TypeOK
  BY DEF IInv
<1> QED
  BY <1>1, Invariance, PTL

\* No ffmpeg goes on without the capture that reads it, however often one is
\* lost, cannot be waited for or killed, and wherever the task is aborted.
THEOREM NothingLeftBehind == Spec => []NoFfmpegLeftBehind
<1>1. IInv => NoFfmpegLeftBehind
  BY DEF IInv
<1> QED
  BY <1>1, Invariance, PTL

-----------------------------------------------------------------------------
(* Frames *)

\* Multiples of a frame size, in order.
LEMMA ProductOrder ==
  ASSUME NEW C \in Nat \ {0}, NEW a \in Int, NEW b \in Int, a < b
  PROVE  a * C + C <= b * C
<1> DEFINE d == b - a - 1
<1>1. d \in Nat /\ b = a + 1 + d
  OBVIOUS
<1>2. d * C >= 0
  BY <1>1
<1> HIDE DEF d
<1>3. (a + 1 + d) * C = a * C + C + d * C
  BY <1>1
<1>4. a * C \in Int /\ d * C \in Int
  BY <1>1
<1> QED
  BY <1>1, <1>2, <1>3, <1>4

\* w bytes that do not fill K + 1 frames hold K whole frames at most.
LEMMA WholeFramesOfBytes ==
  ASSUME NEW C \in Nat \ {0}, NEW w \in Nat, NEW k \in 1..(w \div C), NEW K \in Nat,
         w < K * C + C
  PROVE  k \in Nat /\ k <= K
<1>1. k <= K
  OBVIOUS
<1>2. w \div C \in Nat
  OBVIOUS
<1> QED
  BY <1>1, <1>2

\* A frame is that of one process, and has one place in its output.
LEMMA CutsDiffer ==
  ASSUME NEW C \in Nat \ {0}, NEW p, NEW q, NEW k \in Nat, NEW l \in Nat,
         Cut(C, p, k) = Cut(C, q, l)
  PROVE  p = q /\ k = l
<1>1. Cut(C, p, k)[1] = <<p, (k - 1) * C + 1>> /\ Cut(C, q, l)[1] = <<q, (l - 1) * C + 1>>
  BY DEF Cut
<1>2. p = q /\ (k - 1) * C + 1 = (l - 1) * C + 1
  BY <1>1
<1> DEFINE x == (k - 1) * C
           y == (l - 1) * C
<1>3. x \in Int /\ y \in Int
  OBVIOUS
<1>4. k - 1 < l - 1 => x + C <= y
  BY ProductOrder
<1>5. l - 1 < k - 1 => y + C <= x
  BY ProductOrder
<1>6. x = y
  <2>1. x + 1 = y + 1
    BY <1>2
  <2> HIDE DEF x, y
  <2> QED
    BY <1>3, <2>1
<1> HIDE DEF x, y
<1>7. ~(k - 1 < l - 1) /\ ~(l - 1 < k - 1)
  BY <1>3, <1>4, <1>5, <1>6
<1> QED
  BY <1>2, <1>7

LEMMA IsCutMeans ==
  \A f, p, k : IsCut(f, p, k) <=> f.pcm = Cut(ChunkSize, p, k)
BY DEF IsCut, Cut

\* What the queue got, said of cuts.
LEMMA FramesAreWholeMeans ==
  FramesAreWhole <=>
    /\ \A i \in 1..Len(sent) :
         /\ sent[i].sequence = i - 1
         /\ \E p \in 1..Current, k \in 1..MaxBytes : sent[i].pcm = Cut(ChunkSize, p, k)
    /\ \A i \in 1..Len(sent), p \in 1..Current, k \in 2..MaxBytes :
         sent[i].pcm = Cut(ChunkSize, p, k) =>
           i > 1 /\ sent[i - 1].pcm = Cut(ChunkSize, p, k - 1)
BY DEF FramesAreWhole, IsCut, Cut

LEMMA FramesAreWholeNext ==
  FramesAreWhole' <=>
    /\ \A i \in 1..Len(sent') :
         /\ sent'[i].sequence = i - 1
         /\ \E p \in 1..Current', k \in 1..MaxBytes : sent'[i].pcm = Cut(ChunkSize', p, k)
    /\ \A i \in 1..Len(sent'), p \in 1..Current', k \in 2..MaxBytes :
         sent'[i].pcm = Cut(ChunkSize', p, k) =>
           i > 1 /\ sent'[i - 1].pcm = Cut(ChunkSize', p, k - 1)
BY DEF FramesAreWhole, IsCut, Cut

-----------------------------------------------------------------------------
(* The frame in hand *)

\* Steps that end a capture or happen between two.
Leaving ==
  \/ Enter \/ SeeShutdown \/ SpawnFails \/ Delay \/ ReadFails \/ ReadShutdown \/ SendFails
  \/ SendShutdown \/ Wait \/ WaitShutdown \/ ChildFails \/ Stop \/ Reap \/ StopTimeout \/ Abort

\* Steps of ffmpeg, of the application and of the recogniser, and none at all.
Outside ==
  \/ Write \/ CloseOutput \/ Exit \/ RequestShutdown \/ Receive \/ ReceiverEnds
  \/ Returned \/ UNCHANGED vars

\* Every step is one of six, and what the last two do to the frames.
LEMMA NextInv ==
  ASSUME IInv, [Next]_vars
  PROVE  /\ Spawn \/ Read \/ ReadEnd \/ Send \/ Leaving \/ Outside
         /\ Leaving =>
              /\ pc' \notin {"reading", "sending", "waiting"}
              /\ UNCHANGED <<sent, nextSequence>> /\ Current' = Current
              /\ frame' = frame \/ frame' = <<>>
              /\ pc # "sending" => frame' = frame
              /\ pc = "sending" => shutdown \/ ~receiving
         /\ Outside => UNCHANGED capture /\ Current' = Current
<1>1. Spawn \/ Read \/ ReadEnd \/ Send \/ Leaving \/ Outside
  BY DEF Next, Leaving, Outside
<1>2. processes \in Seq(Process)
  BY DEF IInv, TypeOK
<1>3. ASSUME DropChild
      PROVE  Current' = Current
  BY <1>2, <1>3, DropChildKills
<1>4. ASSUME Leaving
      PROVE  /\ pc' \notin {"reading", "sending", "waiting"}
             /\ UNCHANGED <<sent, nextSequence>>
             /\ Current' = Current
             /\ frame' = frame \/ frame' = <<>>
             /\ pc # "sending" => frame' = frame
             /\ pc = "sending" => shutdown \/ ~receiving
  <2>1. CASE \/ Enter \/ SeeShutdown \/ SpawnFails \/ Delay \/ ReadFails \/ ReadShutdown
             \/ SendFails \/ SendShutdown \/ WaitShutdown
    BY <2>1 DEF Enter, SeeShutdown, SpawnFails, Delay, ReadFails, ReadShutdown, SendFails,
       SendShutdown, WaitShutdown, Return, StopFor, Current
  <2>2. CASE Wait
    BY <2>2 DEF Wait, AfterExit, Return, Current
  <2>3. CASE Reap
    BY <2>3 DEF IInv, TypeOK, ReasonHolds, Reap, Return, Current
  <2>4. CASE ChildFails
    BY <1>3, <2>4 DEF ChildFails
  <2>5. CASE StopTimeout
    BY <1>3, <2>5 DEF StopTimeout
  <2>6. CASE Stop
    <3>1. Current \in 1..Current
      BY <1>2, <2>6, LenProperties DEF IInv, ChildInHand, Stop, Current
    <3>2. DropChild
      BY <2>6, <3>1 DEF Stop, DropChild
    <3> QED
      BY <1>3, <2>6, <3>2 DEF Stop
  <2>7. CASE Abort
    <3>1. DropChild /\ shutdown /\ pc' = "returned" /\ frame' = <<>>
      BY <2>7 DEF Abort, Return
    <3>2. pc # "sending" => frame = <<>>
      BY EmptySeq DEF IInv, TypeOK, Typing
    <3> QED
      BY <1>3, <2>7, <3>1, <3>2 DEF Abort
  <2> QED
    BY <1>4, <2>1, <2>2, <2>3, <2>4, <2>5, <2>6, <2>7 DEF Leaving
<1>5. ASSUME Outside
      PROVE  UNCHANGED capture /\ Current' = Current
  <2>1. CASE Write \/ CloseOutput \/ Exit
    BY <1>2, <2>1, ProcessSteps DEF Write, CloseOutput, Exit
  <2>2. CASE \/ RequestShutdown \/ Receive \/ ReceiverEnds \/ Returned \/ UNCHANGED vars
    BY <2>2 DEF RequestShutdown, Receive, ReceiverEnds, Returned, vars, capture, Current
  <2> QED
    BY <1>5, <2>1, <2>2 DEF Outside
<1> QED
  BY <1>1, <1>4, <1>5

LEMMA NumbersStep ==
  ASSUME IInv, NumbersFollow, [Next]_vars
  PROVE  NumbersFollow'
<1>1. /\ shutdown => shutdown'
      /\ ~receiving => ~receiving'
  BY ConfigurationStays
<1>2. nextSequence \in Nat /\ frame \in Seq(Frame) /\ sent \in Seq(Frame)
  BY DEF IInv, TypeOK, Typing
<1>3. Len(frame) = (IF pc = "sending" THEN 1 ELSE 0) /\ Len(sent) \in Nat
  BY <1>2, LenProperties DEF IInv, TypeOK
<1>4. CASE Spawn
  BY <1>1, <1>3, <1>4 DEF Spawn, environment, NumbersFollow
<1>5. CASE Read
  <2>1. pc = "reading" /\ UNCHANGED <<receiving, shutdown, sent>>
    BY <1>5 DEF Read, environment
  <2>2. CASE UNCHANGED <<frame, nextSequence, pc>>
    BY <2>1, <2>2 DEF NumbersFollow
  <2>3. CASE \E bytes : /\ frame' = << [sequence |-> nextSequence, pcm |-> bytes] >>
                        /\ nextSequence' = nextSequence + 1
                        /\ pc' = "sending"
    BY <1>2, <1>3, <2>1, <2>3 DEF NumbersFollow
  <2> QED
    BY <1>5, <2>2, <2>3 DEF Read
<1>6. CASE ReadEnd
  BY <1>1, <1>3, <1>6 DEF ReadEnd, environment, NumbersFollow
<1>7. CASE Send
  <2>1. Len(sent') = Len(sent) + Len(frame)
    BY <1>2, <1>7, ConcatProperties DEF Send
  <2> QED
    BY <1>2, <1>3, <1>7, <2>1 DEF Send, environment, NumbersFollow
<1>8. CASE Leaving
  <2>1. /\ pc' \notin {"reading", "sending", "waiting"}
        /\ UNCHANGED <<sent, nextSequence>>
        /\ pc # "sending" => frame' = frame
        /\ pc = "sending" => shutdown \/ ~receiving
    BY <1>8, NextInv
  <2>2. CASE pc # "sending"
    BY <1>1, <2>1, <2>2 DEF NumbersFollow
  <2>3. CASE pc = "sending"
    BY <1>1, <2>1, <2>3 DEF NumbersFollow
  <2> QED
    BY <2>2, <2>3
<1>9. CASE Outside
  <2>1. UNCHANGED capture
    BY <1>9, NextInv
  <2> QED
    BY <1>1, <2>1 DEF capture, NumbersFollow
<1> QED
  BY <1>4, <1>5, <1>6, <1>7, <1>8, <1>9, NextInv

\* Sending puts the one frame in hand behind the others.
LEMMA SendAppends ==
  ASSUME IInv, Send
  PROVE  /\ Len(sent) \in Nat
         /\ Len(sent') = Len(sent) + 1
         /\ \A i \in 1..Len(sent) : sent'[i] = sent[i]
         /\ sent'[Len(sent) + 1] = frame[1]
<1>1. Len(frame) = 1 /\ frame \in Seq(Frame) /\ sent \in Seq(Frame) /\ Len(sent) \in Nat
  BY LenProperties DEF IInv, TypeOK, Typing, Send
<1>2. /\ Len(sent \o frame) = Len(sent) + Len(frame)
      /\ \A i \in 1..(Len(sent) + Len(frame)) :
           (sent \o frame)[i] = IF i <= Len(sent) THEN sent[i] ELSE frame[i - Len(sent)]
  BY <1>1, ConcatProperties
<1>3. sent' = sent \o frame
  BY DEF Send
<1>4. sent'[Len(sent) + 1] = frame[(Len(sent) + 1) - Len(sent)]
  BY <1>1, <1>2, <1>3
<1> QED
  BY <1>1, <1>2, <1>3, <1>4

\* A frame that is full is the next cut of the current process.
LEMMA CuttingRead ==
  ASSUME IInv, NextIsCut, Read
  PROVE  NextIsCut'
<1>1. pc = "reading" /\ UNCHANGED <<settings, processes, sent>>
  BY DEF Read, environment
<1>2. ChunkSize' = ChunkSize /\ Current' = Current
  BY <1>1 DEF ChunkSize, Current
<1>3. ChunkSize \in Nat \ {0}
  BY <1>1, ChunkSizeType DEF IInv, Typing
<1>4. PICK k \in 0..MaxBytes : Cutting(k)
  BY <1>1 DEF NextIsCut
<1>5. /\ position = k * ChunkSize + Len(buffer)
      /\ Len(buffer) < ChunkSize
      /\ \A i \in 1..Len(buffer) : buffer[i] = <<Current, k * ChunkSize + i>>
      /\ \A j \in 1..k : \E i \in 1..Len(sent) : sent[i].pcm = Cut(ChunkSize, Current, j)
      /\ k > 0 => sent # <<>> /\ sent[Len(sent)].pcm = Cut(ChunkSize, Current, k)
  BY <1>1, <1>4 DEF Cutting
<1>6. PICK n \in 1..(ChunkSize - Len(buffer)) :
        /\ position + n <= Child.written
        /\ position' = position + n
        /\ IF Len(buffer) + n = ChunkSize
           THEN /\ frame' = << [sequence |-> nextSequence, pcm |-> buffer \o Bytes(n)] >>
                /\ nextSequence' = nextSequence + 1
                /\ buffer' = <<>>
                /\ pc' = "sending"
           ELSE buffer' = buffer \o Bytes(n) /\ UNCHANGED <<frame, nextSequence, pc>>
  BY DEF Read
<1> DEFINE bytes == buffer \o Bytes(n)
           start == k * ChunkSize
<1>7. start \in Nat /\ position = start + Len(buffer)
  BY <1>3, <1>4, <1>5
<1>8. /\ Len(buffer) \in Nat /\ n \in Nat
      /\ bytes \in Seq(Byte)
      /\ Len(bytes) = Len(buffer) + n
      /\ \A i \in 1..(Len(buffer) + n) :
           bytes[i] = IF i <= Len(buffer) THEN buffer[i]
                                          ELSE <<Current, position + (i - Len(buffer))>>
  BY <1>1, <1>6, BytesOfRead
<1> HIDE DEF bytes
<1>9. ASSUME NEW i \in 1..(Len(buffer) + n)
      PROVE  bytes[i] = <<Current, start + i>>
  <2>1. CASE i <= Len(buffer)
    BY <1>5, <1>8, <2>1
  <2>2. CASE ~(i <= Len(buffer))
    <3> HIDE DEF start
    <3>1. position + (i - Len(buffer)) = start + i
      BY <1>7, <1>8
    <3> QED
      BY <1>8, <2>2, <3>1
  <2> QED
    BY <2>1, <2>2
<1>10. CASE Len(buffer) + n = ChunkSize
  <2>1. bytes = Cut(ChunkSize, Current, k + 1)
    <3>1. /\ Len(bytes) = ChunkSize /\ DOMAIN bytes = 1..ChunkSize
          /\ bytes = [i \in 1..ChunkSize |-> bytes[i]]
      BY <1>8, <1>10, LenProperties
    <3>2. \A i \in 1..ChunkSize : bytes[i] = <<Current, start + i>>
      BY <1>9, <1>10
    <3>3. k + 1 - 1 = k
      BY <1>4
    <3> QED
      BY <3>1, <3>2, <3>3 DEF Cut
  <2>2. frame'[1].pcm = Cut(ChunkSize, Current, k + 1)
    BY <1>6, <1>10, <2>1 DEF bytes
  <2>3. position' = start + ChunkSize
    <3> HIDE DEF start
    <3> QED
      BY <1>3, <1>6, <1>7, <1>8, <1>10
  <2>4. Cutting(k)'
    BY <1>1, <1>2, <1>5, <1>6, <1>10, <2>2, <2>3 DEF Cutting
  <2> QED
    BY <2>4 DEF NextIsCut
<1>11. CASE Len(buffer) + n # ChunkSize
  <2>1. buffer' = bytes /\ pc' = "reading"
    BY <1>1, <1>6, <1>11 DEF bytes
  <2>2. position' = start + Len(buffer') /\ Len(buffer') < ChunkSize
    <3> HIDE DEF start
    <3>1. Len(buffer') = Len(buffer) + n
      BY <1>8, <2>1
    <3>2. position' = start + (Len(buffer) + n)
      BY <1>6, <1>7, <1>8
    <3>3. Len(buffer) + n < ChunkSize
      BY <1>3, <1>8, <1>11
    <3> QED
      BY <3>1, <3>2, <3>3
  <2>3. \A i \in 1..Len(buffer') : buffer'[i] = <<Current, start + i>>
    BY <1>8, <1>9, <2>1
  <2>4. Cutting(k)'
    BY <1>1, <1>2, <1>5, <2>1, <2>2, <2>3 DEF Cutting
  <2> QED
    BY <2>4 DEF NextIsCut
<1> QED
  BY <1>10, <1>11

LEMMA CuttingStep ==
  ASSUME IInv, NextIsCut, [Next]_vars
  PROVE  NextIsCut'
<1>1. ChunkSize' = ChunkSize
  BY ConfigurationStays
<1>2. CASE Spawn
  <2>1. pc' = "reading" /\ position' = 0 /\ buffer' = <<>>
    BY <1>2 DEF Spawn
  <2>2. ChunkSize \in Nat \ {0}
    BY <1>2, ChunkSizeType DEF IInv, Typing, Spawn
  <2>3. Cutting(0)'
    BY <1>1, <2>1, <2>2 DEF Cutting
  <2> QED
    BY <2>3, BoundsAssumption DEF NextIsCut
<1>3. CASE Read
  BY <1>3, CuttingRead
<1>4. CASE ReadEnd
  <2>1. PICK k \in 0..MaxBytes : Cutting(k)
    BY <1>4 DEF ReadEnd, NextIsCut
  <2>2. pc = "reading" /\ pc' = "waiting" /\ UNCHANGED <<processes, sent, position>>
    BY <1>4 DEF ReadEnd
  <2>3. position < k * ChunkSize + ChunkSize
    <3>1. position = k * ChunkSize + Len(buffer) /\ Len(buffer) < ChunkSize
      BY <2>1, <2>2 DEF Cutting
    <3>2. Len(buffer) \in Nat /\ ChunkSize \in Nat /\ k * ChunkSize \in Nat
      BY <2>1, ChunkSizeType, LenProperties DEF IInv, Typing
    <3> QED
      BY <3>1, <3>2
  <2>4. Cutting(k)'
    BY <1>1, <2>1, <2>2, <2>3 DEF Cutting, Current
  <2> QED
    BY <2>4 DEF NextIsCut
<1>5. CASE Send
  <2>1. PICK k \in 0..MaxBytes : Cutting(k)
    BY <1>5 DEF Send, NextIsCut
  <2>2. /\ pc = "sending" /\ pc' = "reading" /\ sent' = sent \o frame
        /\ UNCHANGED <<processes, position, buffer>>
    BY <1>5 DEF Send
  <2>3. Len(frame) = 1 /\ frame \in Seq(Frame) /\ sent \in Seq(Frame) /\ Len(sent) \in Nat
    BY <2>2, LenProperties DEF IInv, TypeOK, Typing
  <2>4. /\ Len(sent') = Len(sent) + 1
        /\ \A i \in 1..Len(sent) : sent'[i] = sent[i]
        /\ sent'[Len(sent) + 1] = frame[1]
    BY <1>5, SendAppends
  <2>5. ChunkSize \in Nat \ {0}
    BY <2>2, ChunkSizeType DEF IInv, Typing
  <2>6. /\ position = k * ChunkSize + ChunkSize
        /\ buffer = <<>>
        /\ frame[1].pcm = Cut(ChunkSize, Current, k + 1)
        /\ \A j \in 1..k : \E i \in 1..Len(sent) : sent[i].pcm = Cut(ChunkSize, Current, j)
    BY <2>1, <2>2 DEF Cutting
  <2>7. (k + 1) * ChunkSize = k * ChunkSize + ChunkSize
    BY <2>1, <2>5
  <2>8. k + 1 \in 0..MaxBytes
    <3>1. position \in 0..MaxBytes
      BY DEF IInv, TypeOK
    <3> DEFINE start == k * ChunkSize
    <3>2. k <= start /\ start \in Nat /\ position = start + ChunkSize
      BY <2>1, <2>5, <2>6
    <3> HIDE DEF start
    <3> QED
      BY <2>1, <2>5, <3>1, <3>2, BoundsAssumption
  <2>9. \A j \in 1..(k + 1) :
          \E i \in 1..Len(sent') : sent'[i].pcm = Cut(ChunkSize, Current, j)
    <3> TAKE j \in 1..(k + 1)
    <3>1. CASE j = k + 1
      BY <2>3, <2>4, <2>6, <3>1
    <3>2. CASE j # k + 1
      <4>1. j \in 1..k
        BY <2>1, <3>2
      <4>2. PICK i \in 1..Len(sent) : sent[i].pcm = Cut(ChunkSize, Current, j)
        BY <2>6, <4>1
      <4> QED
        BY <2>3, <2>4, <4>2
    <3> QED
      BY <3>1, <3>2
  <2>10. sent' # <<>> /\ sent'[Len(sent')].pcm = Cut(ChunkSize, Current, k + 1)
    BY <2>3, <2>4, <2>6, EmptySeq
  <2>11. /\ position' = (k + 1) * ChunkSize + Len(buffer')
         /\ Len(buffer') < ChunkSize
         /\ 1..Len(buffer') = {}
    BY <2>1, <2>2, <2>5, <2>6, <2>7
  <2>12. Cutting(k + 1)'
    BY <1>1, <2>2, <2>9, <2>10, <2>11 DEF Cutting, Current
  <2> QED
    BY <2>8, <2>12 DEF NextIsCut
<1>6. CASE Leaving
  BY <1>6, NextInv DEF NextIsCut
<1>7. CASE Outside
  <2>1. UNCHANGED capture /\ Current' = Current
    BY <1>7, NextInv
  <2>2. ASSUME NEW k \in 0..MaxBytes, Cutting(k)
        PROVE  Cutting(k)'
    BY <1>1, <2>1, <2>2 DEF capture, Cutting
  <2> QED
    BY <2>1, <2>2 DEF capture, NextIsCut
<1> QED
  BY <1>2, <1>3, <1>4, <1>5, <1>6, <1>7, NextInv

-----------------------------------------------------------------------------
(* What the queue got, and what the capture returns *)

\* The frame that is sent is the first of its process, or follows the last
\* one that was sent.
LEMMA WholeSend ==
  ASSUME IInv, NumbersFollow, NextIsCut, FramesAreWhole, Send
  PROVE  FramesAreWhole'
<1>1. /\ Len(sent) \in Nat
      /\ Len(sent') = Len(sent) + 1
      /\ \A i \in 1..Len(sent) : sent'[i] = sent[i]
      /\ sent'[Len(sent) + 1] = frame[1]
  BY SendAppends
<1>2. pc = "sending" /\ receiving /\ UNCHANGED <<settings, processes>>
  BY DEF Send, environment
<1>3. ChunkSize' = ChunkSize /\ Current' = Current
  BY <1>2 DEF ChunkSize, Current
<1>4. ChunkSize \in Nat \ {0}
  BY <1>2, ChunkSizeType DEF IInv, Typing
<1>5. Current \in 1..Current
  <2>1. Current \in Nat /\ Current > 0
    BY <1>2, LenProperties DEF IInv, TypeOK, ChildInHand, Current
  <2> QED
    BY <2>1
<1>6. frame[1].sequence = Len(sent)
  <2>1. Len(frame) = 1 /\ nextSequence = Len(sent) + Len(frame)
    BY <1>2 DEF IInv, TypeOK, NumbersFollow
  <2> QED
    BY <1>1, <1>2, <2>1 DEF NumbersFollow
<1>7. PICK k \in 0..MaxBytes :
        /\ position = k * ChunkSize + ChunkSize
        /\ frame[1].pcm = Cut(ChunkSize, Current, k + 1)
        /\ k > 0 => sent # <<>> /\ sent[Len(sent)].pcm = Cut(ChunkSize, Current, k)
  BY <1>2 DEF NextIsCut, Cutting
<1>8. k + 1 \in 1..MaxBytes
  <2>1. position \in 0..MaxBytes
    BY DEF IInv, TypeOK
  <2> DEFINE start == k * ChunkSize
  <2>2. k <= start /\ start \in Nat /\ position = start + ChunkSize
    BY <1>4, <1>7
  <2> HIDE DEF start
  <2> QED
    BY <1>4, <1>7, <2>1, <2>2, BoundsAssumption
<1>9. /\ \A i \in 1..Len(sent) :
           /\ sent[i].sequence = i - 1
           /\ \E p \in 1..Current, l \in 1..MaxBytes : sent[i].pcm = Cut(ChunkSize, p, l)
      /\ \A i \in 1..Len(sent), p \in 1..Current, l \in 2..MaxBytes :
           sent[i].pcm = Cut(ChunkSize, p, l) =>
             i > 1 /\ sent[i - 1].pcm = Cut(ChunkSize, p, l - 1)
  BY FramesAreWholeMeans
<1>10. ASSUME NEW i \in 1..Len(sent')
       PROVE  /\ sent'[i].sequence = i - 1
              /\ \E p \in 1..Current', l \in 1..MaxBytes : sent'[i].pcm = Cut(ChunkSize', p, l)
  <2>1. CASE i = Len(sent) + 1
    BY <1>1, <1>3, <1>5, <1>6, <1>7, <1>8, <2>1
  <2>2. CASE i # Len(sent) + 1
    <3>1. i \in 1..Len(sent)
      BY <1>1, <2>2
    <3> QED
      BY <1>1, <1>3, <1>9, <3>1
  <2> QED
    BY <2>1, <2>2
<1>11. ASSUME NEW i \in 1..Len(sent'), NEW p \in 1..Current', NEW l \in 2..MaxBytes,
              sent'[i].pcm = Cut(ChunkSize', p, l)
       PROVE  i > 1 /\ sent'[i - 1].pcm = Cut(ChunkSize', p, l - 1)
  <2>1. CASE i = Len(sent) + 1
    <3>1. Cut(ChunkSize, p, l) = Cut(ChunkSize, Current, k + 1)
      BY <1>1, <1>3, <1>7, <1>11, <2>1
    <3>2. p = Current /\ l = k + 1
      BY <1>4, <1>8, <1>11, <3>1, CutsDiffer
    <3>3. k > 0 /\ k = l - 1
      BY <1>7, <1>11, <3>2
    <3>4. sent # <<>> /\ sent[Len(sent)].pcm = Cut(ChunkSize, p, l - 1)
      BY <1>7, <3>2, <3>3
    <3>5. Len(sent) \in 1..Len(sent) /\ i > 1 /\ i - 1 = Len(sent)
      BY <1>1, <2>1, <3>4, EmptySeq DEF IInv, Typing
    <3> QED
      BY <1>1, <1>3, <3>4, <3>5
  <2>2. CASE i # Len(sent) + 1
    <3>1. i \in 1..Len(sent) /\ sent'[i] = sent[i] /\ p \in 1..Current
      BY <1>1, <1>3, <2>2
    <3>2. i > 1 /\ sent[i - 1].pcm = Cut(ChunkSize, p, l - 1)
      BY <1>3, <1>9, <1>11, <3>1
    <3>3. i - 1 \in 1..Len(sent)
      BY <1>1, <3>1, <3>2
    <3> QED
      BY <1>1, <1>3, <3>2, <3>3
  <2> QED
    BY <2>1, <2>2
<1> QED
  BY <1>10, <1>11, FramesAreWholeNext

\* A process that has written nothing yet has no frame in the queue.
LEMMA WholeSpawn ==
  ASSUME IInv, FramesAreWhole, Spawn
  PROVE  FramesAreWhole'
<1>1. UNCHANGED <<settings, sent>> /\ processes' = Append(processes, Started)
  BY DEF Spawn, environment
<1>2. ChunkSize' = ChunkSize /\ ChunkSize \in Nat
  BY <1>1, ChunkSizeType DEF ChunkSize, IInv, Typing
<1>3. Current \in Nat /\ Current' = Current + 1
  <2>1. processes \in Seq(Process) /\ Started \in Process
    BY BoundsAssumption DEF IInv, TypeOK, Started, Process
  <2> QED
    BY <1>1, <2>1, AppendProperties, LenProperties DEF Current
<1>4. /\ \A i \in 1..Len(sent) :
           /\ sent[i].sequence = i - 1
           /\ \E p \in 1..Current, k \in 1..MaxBytes : sent[i].pcm = Cut(ChunkSize, p, k)
      /\ \A i \in 1..Len(sent), p \in 1..Current, k \in 2..MaxBytes :
           sent[i].pcm = Cut(ChunkSize, p, k) =>
             i > 1 /\ sent[i - 1].pcm = Cut(ChunkSize, p, k - 1)
  BY FramesAreWholeMeans
<1>5. ASSUME NEW i \in 1..Len(sent), NEW p \in 1..Current', NEW k \in 2..MaxBytes,
             sent[i].pcm = Cut(ChunkSize, p, k)
      PROVE  p \in 1..Current
  <2>1. PICK q \in 1..Current, l \in 1..MaxBytes : sent[i].pcm = Cut(ChunkSize, q, l)
    BY <1>4
  <2>2. sent # <<>>
    BY EmptySeq
  <2>3. ChunkSize \in Nat \ {0}
    BY <1>2, <2>2 DEF IInv, Typing
  <2>4. Cut(ChunkSize, p, k) = Cut(ChunkSize, q, l)
    BY <1>5, <2>1
  <2>5. k \in Nat /\ l \in Nat
    BY BoundsAssumption
  <2>6. p = q
    BY <2>3, <2>4, <2>5, CutsDiffer
  <2> QED
    BY <2>6
<1>6. \A i \in 1..Len(sent) :
        /\ sent[i].sequence = i - 1
        /\ \E p \in 1..Current', k \in 1..MaxBytes : sent[i].pcm = Cut(ChunkSize, p, k)
  <2> TAKE i \in 1..Len(sent)
  <2>1. PICK p \in 1..Current, k \in 1..MaxBytes : sent[i].pcm = Cut(ChunkSize, p, k)
    BY <1>4
  <2>2. p \in 1..Current'
    BY <1>3
  <2> QED
    BY <1>4, <2>1, <2>2
<1> QED
  BY <1>1, <1>2, <1>4, <1>5, <1>6, FramesAreWholeNext

LEMMA WholeStep ==
  ASSUME IInv, NumbersFollow, NextIsCut, FramesAreWhole, [Next]_vars
  PROVE  FramesAreWhole'
<1>1. ChunkSize' = ChunkSize
  BY ConfigurationStays
<1>2. ASSUME UNCHANGED sent, Current' = Current
      PROVE  FramesAreWhole'
  BY <1>1, <1>2, FramesAreWholeMeans, FramesAreWholeNext
<1>3. CASE Spawn
  BY <1>3, WholeSpawn
<1>4. CASE Send
  BY <1>4, WholeSend
<1>5. CASE Read \/ ReadEnd
  BY <1>2, <1>5 DEF Read, ReadEnd, Current
<1>6. CASE Leaving
  BY <1>2, <1>6, NextInv
<1>7. CASE Outside
  BY <1>2, <1>7, NextInv DEF capture
<1> QED
  BY <1>3, <1>4, <1>5, <1>6, <1>7, NextInv

\* The whole frames of a process that was read to its end are in the queue.
LEMMA AllOfProcessSent ==
  ASSUME IInv, NextIsCut, pc = "waiting", NEW k \in 1..WholeFrames(Current)
  PROVE  \E i \in SentOf(Current) : IsCut(sent[i], Current, k)
<1>1. Current \in 1..Current /\ position = processes[Current].written /\ position \in Nat
  BY LenProperties DEF IInv, TypeOK, ChildInHand, Child, Current
<1>2. ChunkSize \in Nat \ {0}
  BY ChunkSizeType DEF IInv, Typing
<1>3. PICK K \in 0..MaxBytes :
        /\ position < K * ChunkSize + ChunkSize
        /\ \A j \in 1..K : \E i \in 1..Len(sent) : sent[i].pcm = Cut(ChunkSize, Current, j)
  BY DEF NextIsCut, Cutting
<1>4. k \in 1..(position \div ChunkSize)
  BY <1>1 DEF WholeFrames
<1>5. k \in Nat /\ k <= K
  <2>1. K \in Nat /\ position < K * ChunkSize + ChunkSize
    BY <1>3
  <2> QED
    BY <1>1, <1>2, <1>4, <2>1, WholeFramesOfBytes, Zenon
<1>6. PICK i \in 1..Len(sent) : sent[i].pcm = Cut(ChunkSize, Current, k)
  BY <1>3, <1>4, <1>5
<1>7. Cut(ChunkSize, Current, k)[1] = <<Current, (k - 1) * ChunkSize + 1>>
  BY <1>2 DEF Cut
<1>8. sent[i].pcm[1][1] = Current
  BY <1>6, <1>7
<1> QED
  BY <1>6, <1>8, IsCutMeans DEF SentOf

\* The three ends of the capture: before it starts or when it is told to
\* stop, when ffmpeg exits, and when nobody receives.
LEMMA ReturnStep ==
  ASSUME IInv, NextIsCut, ReturnIsJustified, [Next]_vars
  PROVE  ReturnIsJustified'
<1>1. /\ UNCHANGED <<settings, input>> /\ ChunkSize' = ChunkSize
      /\ shutdown => shutdown'
      /\ ~receiving => ~receiving'
  BY ConfigurationStays
<1>2. CASE pc = "returned"
  <2>1. UNCHANGED vars
    BY <1>2 DEF Next, vars, Enter, SeeShutdown, Spawn, SpawnFails, Delay, Read, ReadEnd,
       ReadFails, ReadShutdown, Send, SendFails, SendShutdown, Wait, WaitShutdown, ChildFails,
       Stop, Reap, StopTimeout, Abort, Returned
  <2> QED
    BY <2>1 DEF vars, environment, ReturnIsJustified, Child, Current, WholeFrames, SentOf, IsCut,
       ChunkSize
<1>3. CASE pc # "returned"
  <2>1. result = "none"
    BY <1>3 DEF IInv, ReasonHolds
  <2>2. ASSUME result' \notin {"ok", "closed", "playback"}
        PROVE  ReturnIsJustified'
    BY <2>2 DEF ReturnIsJustified
  <2>3. ASSUME shutdown'
        PROVE  result' # "closed" /\ result' # "playback" => ReturnIsJustified'
    BY <2>3 DEF ReturnIsJustified
  <2>4. CASE Wait
    <3>1. CASE input # "file"
      BY <2>1, <2>2, <2>4, <3>1 DEF Wait, AfterExit
    <3>2. CASE input = "file" /\ Child.state # "ok"
      BY <1>1, <2>4, <3>2 DEF Wait, AfterExit, Return, ReturnIsJustified
    <3>3. CASE input = "file" /\ Child.state = "ok"
      <4>1. pc = "waiting" /\ UNCHANGED <<settings, processes, sent>> /\ result' = "ok"
        BY <2>4, <3>3 DEF Wait, AfterExit, Return, environment
      <4>2. \A k \in 1..WholeFrames(Current) :
              \E i \in SentOf(Current) : IsCut(sent[i], Current, k)
        BY <4>1, AllOfProcessSent
      <4>3. (\A k \in 1..WholeFrames(Current) :
              \E i \in SentOf(Current) : IsCut(sent[i], Current, k))'
        BY <4>1, <4>2 DEF WholeFrames, SentOf, IsCut, ChunkSize, Current
      <4>4. input' = "file" /\ (Child.state = "ok")'
        BY <1>1, <3>3, <4>1 DEF Child, Current
      <4> QED
        BY <4>1, <4>3, <4>4 DEF ReturnIsJustified
    <3> QED
      BY <3>1, <3>2, <3>3
  <2>5. CASE Reap
    <3>1. /\ why = "shutdown" => shutdown'
          /\ why = "closed" => ~receiving'
      BY <1>1 DEF IInv, ReasonHolds
    <3>2. why \in {"shutdown", "closed", "read"}
      BY <2>5 DEF IInv, TypeOK, ReasonHolds, Reap
    <3> QED
      BY <2>1, <2>2, <2>5, <3>1, <3>2 DEF Reap, Return, ReturnIsJustified
  <2>6. CASE SeeShutdown \/ Delay
    BY <1>1, <2>1, <2>2, <2>3, <2>6 DEF SeeShutdown, Delay, Return
  <2>7. CASE Enter \/ Abort
    BY <2>1, <2>2, <2>7 DEF Enter, Abort, Return
  <2>8. CASE \/ Spawn \/ SpawnFails \/ Read \/ ReadEnd \/ ReadFails \/ ReadShutdown \/ Send
             \/ SendFails \/ SendShutdown \/ WaitShutdown \/ ChildFails \/ Stop \/ StopTimeout
    BY <2>1, <2>2, <2>8 DEF Spawn, SpawnFails, Read, ReadEnd, ReadFails, ReadShutdown, Send,
       SendFails, SendShutdown, WaitShutdown, ChildFails, Stop, StopTimeout
  <2>9. CASE Outside
    BY <2>1, <2>2, <2>9, NextInv DEF capture
  <2> QED
    BY <2>4, <2>5, <2>6, <2>7, <2>8, <2>9 DEF Next, Outside
<1> QED
  BY <1>2, <1>3

-----------------------------------------------------------------------------
LEMMA FrameInvariance == Spec => [](NumbersFollow /\ NextIsCut)
<1>1. Init => NumbersFollow /\ NextIsCut
  BY DEF Init, NumbersFollow, NextIsCut
<1>2. IInv /\ NumbersFollow /\ NextIsCut /\ [Next]_vars => (NumbersFollow /\ NextIsCut)'
  BY NumbersStep, CuttingStep
<1> QED
  BY <1>1, <1>2, Invariance, PTL DEF Spec

\* The queue gets the output of each process cut into whole frames from its
\* first byte on, and numbers without a gap, across every restart: for every
\* frame size, however the bytes arrive and wherever a capture ends.
THEOREM WholeFramesOnly == Spec => []FramesAreWhole
<1>1. Init => FramesAreWhole
  BY DEF Init, FramesAreWhole
<1>2. IInv /\ NumbersFollow /\ NextIsCut /\ FramesAreWhole /\ [Next]_vars =>
        FramesAreWhole'
  BY WholeStep
<1> QED
  BY <1>1, <1>2, Invariance, FrameInvariance, PTL DEF Spec

\* A capture ends well only when it was told to stop or when all of a file was
\* sent, and a live one gives up only when nobody receives.
THEOREM JustifiedReturn == Spec => []ReturnIsJustified
<1>1. Init => ReturnIsJustified
  BY DEF Init, ReturnIsJustified
<1>2. IInv /\ NextIsCut /\ ReturnIsJustified /\ [Next]_vars => ReturnIsJustified'
  BY ReturnStep
<1> QED
  BY <1>1, <1>2, Invariance, FrameInvariance, PTL DEF Spec
=============================================================================
