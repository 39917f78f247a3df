--------------------------- MODULE DeepgramSttProofs ---------------------------
(***************************************************************************)
(* Safety of the Deepgram provider for every capacity of the command       *)
(* channel and every number of frames: its type invariant, that no frame   *)
(* is skipped or sent out of order across reconnects, and that the tasks   *)
(* of a connection end with it.                                            *)
(***************************************************************************)
EXTENDS DeepgramStt, TLAPS, SequenceTheorems

-----------------------------------------------------------------------------
(* The inductive invariant *)

\* The frames the provider took from the queue.
Taken == captured - Len(audio)

\* The queue holds the frames that follow, in order.
QueueIsInOrder == Len(audio) <= captured /\ \A i \in 1..Len(audio) : audio[i] = Taken + i

\* The frame that was taken last is the only one that may be unwritten: in the
\* hands of the sender, or kept for the next connection.
Held(f) == f = Taken /\ last \in {Taken - 1, Taken}
OneInHand ==
  /\ retryFrame # NoFrame => Held(retryFrame) /\ sender.frame = NoFrame
  /\ sender.frame # NoFrame => Held(sender.frame)
  /\ retryFrame = NoFrame /\ sender.frame = NoFrame => last = Taken
  /\ sender.at \in {"select", "KeepAlive", "CloseStream"} => sender.frame = NoFrame
  /\ sender.at = "frame" => sender.frame # NoFrame
  /\ InConnection => retryFrame = NoFrame

\* A connection has its four tasks, and a sender that ended says why.
TasksAtWork ==
  /\ NoTaskOutlivesConnection
  /\ InConnection => sender.at # "none" /\ reader # "none" /\ keepalive # "none" /\ closer # "none"
  /\ SenderDone <=> sender.outcome # "none"

\* Nobody is cancelled before a task has ended, and the auxiliary tasks end by
\* themselves only when the sender has.
CancelFollowsEnd ==
  /\ pc = "connected" =>
       /\ ~cancel
       /\ sender.outcome # "Cancelled" /\ keepalive # "stopped" /\ closer # "stopped"
  /\ keepalive = "failed" \/ closer = "failed" => SenderDone
  /\ pc = "joining" /\ first # "reader" => SenderDone /\ sender.outcome # "Cancelled"

IInv ==
  /\ TypeOK
  /\ QueueIsInOrder
  /\ OneInHand
  /\ NoFrameIsSkipped
  /\ TasksAtWork
  /\ CancelFollowsEnd
-----------------------------------------------------------------------------
(* Lemmas about the operators *)

\* Every delay is between the first and the longest.
LEMMA DelayIsBounded ==
  ASSUME NEW n \in 0..RetryCap
  PROVE  ReconnectDelay(n) \in 1..MAX_RECONNECT_DELAY
<1>1. 2^0 = 1 /\ 2^1 = 2 /\ 2^2 = 4 /\ 2^3 = 8 /\ 2^4 = 16 /\ 2^5 = 32
  OBVIOUS
<1>2. n \in {0, 1, 2, 3, 4, 5, 6}
  BY DEF RetryCap
<1>3. CASE n = 0
  BY <1>1, <1>3 DEF ReconnectDelay, INITIAL_RECONNECT_DELAY, MAX_RECONNECT_DELAY
<1>4. CASE n = 1
  BY <1>1, <1>4 DEF ReconnectDelay, INITIAL_RECONNECT_DELAY, MAX_RECONNECT_DELAY
<1>5. CASE n = 2
  BY <1>1, <1>5 DEF ReconnectDelay, INITIAL_RECONNECT_DELAY, MAX_RECONNECT_DELAY
<1>6. CASE n = 3
  BY <1>1, <1>6 DEF ReconnectDelay, INITIAL_RECONNECT_DELAY, MAX_RECONNECT_DELAY
<1>7. CASE n = 4
  BY <1>1, <1>7 DEF ReconnectDelay, INITIAL_RECONNECT_DELAY, MAX_RECONNECT_DELAY
<1>8. CASE n = 5
  BY <1>1, <1>8 DEF ReconnectDelay, INITIAL_RECONNECT_DELAY, MAX_RECONNECT_DELAY
<1>9. CASE n = 6
  BY <1>1, <1>9 DEF ReconnectDelay, INITIAL_RECONNECT_DELAY, MAX_RECONNECT_DELAY
<1> QED
  BY <1>2, <1>3, <1>4, <1>5, <1>6, <1>7, <1>8, <1>9

\* A retry counts up to the cap.
LEMMA RetriedIsCounted ==
  ASSUME NEW n \in 0..RetryCap
  PROVE  Retried(n) \in 0..RetryCap
BY DEF Retried, RetryCap

\* The frame a new sender starts with is the retried one.
LEMMA SpawnedIs ==
  ASSUME retryFrame \in {NoFrame} \cup Frame
  PROVE  /\ Spawned \in Sender
         /\ Spawned.frame = retryFrame /\ Spawned.outcome = "none"
         /\ Spawned.at = IF retryFrame = NoFrame THEN "select" ELSE "frame"
BY DEF Spawned, NoSender, Sender

\* The sender outside of a connection.
LEMMA NoSenderIs ==
  /\ NoSender \in Sender
  /\ NoSender.at = "none" /\ NoSender.frame = NoFrame /\ NoSender.outcome = "none"
BY DEF NoSender, Sender

\* What SenderReturns leaves behind.
LEMMA SenderReturnsIs ==
  ASSUME sender \in Sender, NEW outcome, NEW frame \in {NoFrame} \cup Frame,
         outcome \in {"Shutdown", "Cancelled", "AudioChannelClosed", "EventChannelClosed",
                      "ConnectionError"},
         SenderReturns(outcome, frame)
  PROVE  /\ sender' \in Sender
         /\ sender'.at = "done" /\ sender'.outcome = outcome /\ sender'.frame = frame
BY DEF SenderReturns, Sender

-----------------------------------------------------------------------------
(* What is left alone *)

\* The frames are where they were while nobody touches them, the loop does not
\* enter a connection, and nothing is kept for one.
LEMMA FramesRest ==
  ASSUME IInv, UNCHANGED <<audio, captured, last, reached, sender, retryFrame>>,
         InConnection' => InConnection \/ retryFrame = NoFrame
  PROVE  QueueIsInOrder' /\ OneInHand' /\ NoFrameIsSkipped'
BY DEF IInv, QueueIsInOrder, OneInHand, Held, NoFrameIsSkipped, Taken

\* The tasks are at work while none of them moves and the loop does not leave
\* or enter the connection.
LEMMA TasksRest ==
  ASSUME IInv, UNCHANGED <<sender, reader, keepalive, closer, cancel, first>>,
         UNCHANGED pc \/ (~InConnection /\ ~InConnection')
  PROVE  TasksAtWork' /\ CancelFollowsEnd'
BY DEF IInv, TasksAtWork, CancelFollowsEnd, NoTaskOutlivesConnection, InConnection, SenderDone

\* A task moves only in a connection.
LEMMA AtWorkInConnection ==
  ASSUME IInv
  PROVE  /\ sender.at # "none" \/ reader # "none" \/ keepalive # "none" \/ closer # "none"
              => InConnection
         /\ sender.at # "none" => retryFrame = NoFrame
BY NoSenderIs DEF IInv, TasksAtWork, NoTaskOutlivesConnection, InConnection, OneInHand

LEMMA InitIInv == Init => IInv
<1> SUFFICES ASSUME Init
             PROVE  IInv
  OBVIOUS
<1>1. /\ pc = "top" /\ retryFrame = NoFrame /\ retryCount = 0 /\ first = "none"
      /\ sender = NoSender /\ reader = "none" /\ keepalive = "none" /\ closer = "none"
      /\ commandQ = <<>> /\ audio = <<>> /\ captured = 0 /\ last = NoFrame /\ reached = {}
  BY DEF Init
<1>2. TypeOK
  <2>1. /\ cancel \in BOOLEAN /\ shutdown \in BOOLEAN /\ eventsOpen \in BOOLEAN
        /\ audioOpen \in BOOLEAN /\ ready \in BOOLEAN
    BY Zenon DEF Init
  <2>2. 0 \in 0..RetryCap
    BY DEF RetryCap
  <2>3. commandQ \in Seq({"KeepAlive", "CloseStream"}) /\ Len(commandQ) <= CommandMax
    BY <1>1, CommandMaxAssumption
  <2>4. captured \in 0..MaxFrames /\ audio \in Seq(Frame)
    BY <1>1, MaxFramesAssumption
  <2> QED
    BY <1>1, <2>1, <2>2, <2>3, <2>4, DelayIsBounded, NoSenderIs DEF TypeOK
<1>3. QueueIsInOrder /\ Taken = 0
  <2>1. Len(audio) = 0
    BY <1>1
  <2>2. Taken = 0
    <3>1. captured = 0
      BY <1>1
    <3> QED
      BY <2>1, <3>1 DEF Taken
  <2>3. 1..Len(audio) = {} /\ Len(audio) <= captured
    BY <1>1, <2>1
  <2> QED
    BY <2>2, <2>3 DEF QueueIsInOrder
<1>4. OneInHand
  BY <1>1, <1>3, NoSenderIs DEF OneInHand, InConnection, NoFrame
<1>5. NoFrameIsSkipped
  BY <1>1 DEF NoFrameIsSkipped
<1>6. TasksAtWork
  BY <1>1, NoSenderIs DEF TasksAtWork, NoTaskOutlivesConnection, InConnection, SenderDone
<1>7. CancelFollowsEnd
  BY <1>1 DEF CancelFollowsEnd
<1> QED
  BY <1>2, <1>3, <1>4, <1>5, <1>6, <1>7 DEF IInv

-----------------------------------------------------------------------------
(* The loop *)

\* run_loop outside of a connection.
LEMMA LoopStep ==
  ASSUME IInv, Top \/ ConnectCancelled \/ ConnectFails \/ WaitEnds
  PROVE  IInv'
<1>1. /\ UNCHANGED <<retryFrame, first, ready, cancel, sender, reader, keepalive, closer,
                     commandQ, audio, capture, shutdown, eventsOpen, history>>
      /\ pc \in {"top", "connecting", "waiting"}
      /\ pc' \in {"top", "connecting", "waiting"} \cup Ended
      /\ retryCount' \in {retryCount, Retried(retryCount)}
  BY DEF Top, ConnectCancelled, ConnectFails, WaitEnds, EmitThen, Ended
<1>2. ~InConnection /\ ~InConnection'
  BY <1>1 DEF InConnection, Ended
<1>3. TypeOK'
  <2>1. retryCount' \in 0..RetryCap
    BY <1>1, RetriedIsCounted DEF IInv, TypeOK
  <2> QED
    BY <1>1, <2>1, DelayIsBounded DEF IInv, TypeOK, capture, history
<1>4. QueueIsInOrder' /\ OneInHand' /\ NoFrameIsSkipped'
  BY <1>1, <1>2, FramesRest DEF capture, history
<1>5. TasksAtWork' /\ CancelFollowsEnd'
  BY <1>1, <1>2, TasksRest
<1> QED
  BY <1>3, <1>4, <1>5 DEF IInv

\* A connection begins: the frame kept for it goes to its sender.
LEMMA ConnectStep ==
  ASSUME IInv, Connect
  PROVE  IInv'
<1>1. /\ UNCHANGED <<retryCount, audio, captured, audioOpen, shutdown, eventsOpen, last, reached>>
      /\ pc = "connecting" /\ pc' = IF eventsOpen THEN "connected" ELSE "EventChannelClosed"
  BY DEF Connect, EmitThen, capture, history
<1>2. CASE ~eventsOpen
  <2>1. /\ UNCHANGED <<ready, sender, retryFrame, reader, keepalive, closer, cancel, first,
                       commandQ>>
        /\ ~InConnection /\ ~InConnection'
    BY <1>1, <1>2 DEF Connect, InConnection
  <2>2. TypeOK'
    BY <1>1, <1>2, <2>1 DEF IInv, TypeOK, Ended
  <2>3. QueueIsInOrder' /\ OneInHand' /\ NoFrameIsSkipped'
    BY <1>1, <2>1, FramesRest
  <2>4. TasksAtWork' /\ CancelFollowsEnd'
    BY <1>1, <2>1, TasksRest
  <2> QED
    BY <2>2, <2>3, <2>4 DEF IInv
<1>3. CASE eventsOpen
  <2>1. /\ pc' = "connected" /\ sender' = Spawned /\ retryFrame' = NoFrame
        /\ reader' = "reading" /\ keepalive' = "ticking" /\ closer' = "watching"
        /\ first' = "none" /\ commandQ' = <<>>
    BY <1>1, <1>3 DEF Connect
  <2>2. cancel' = FALSE /\ ready' = TRUE
    BY <1>3 DEF Connect
  <2>3. /\ sender' \in Sender /\ sender'.frame = retryFrame /\ sender'.outcome = "none"
        /\ sender'.at = IF retryFrame = NoFrame THEN "select" ELSE "frame"
    BY <2>1, SpawnedIs DEF IInv, TypeOK
  <2>4. sender.frame = NoFrame
    BY <1>1, NoSenderIs DEF IInv, TasksAtWork, NoTaskOutlivesConnection
  <2>5. TypeOK'
    <3>1. cancel' \in BOOLEAN /\ ready' \in BOOLEAN
      BY Zenon, <2>2
    <3>2. commandQ' \in Seq({"KeepAlive", "CloseStream"}) /\ Len(commandQ') <= CommandMax
      BY <2>1, CommandMaxAssumption
    <3> QED
      BY <1>1, <2>1, <2>3, <3>1, <3>2 DEF IInv, TypeOK
  <2>6. QueueIsInOrder'
    BY <1>1 DEF IInv, QueueIsInOrder, Taken
  <2>7. OneInHand'
    BY <1>1, <2>1, <2>3, <2>4 DEF IInv, OneInHand, Held, Taken
  <2>8. NoFrameIsSkipped'
    BY <1>1, <2>1, <2>3, <2>4 DEF IInv, NoFrameIsSkipped, TypeOK, Frame, NoFrame
  <2>9. TasksAtWork'
    BY <2>1, <2>3 DEF TasksAtWork, NoTaskOutlivesConnection, InConnection, SenderDone
  <2>10. CancelFollowsEnd'
    BY <2>1, <2>2, <2>3 DEF CancelFollowsEnd
  <2> QED
    BY <2>5, <2>6, <2>7, <2>8, <2>9, <2>10 DEF IInv
<1> QED
  BY <1>2, <1>3

\* The first task that ends: the sender is done, the reader is, or an
\* auxiliary task, which had no other reason than the end of the sender.
LEMMA FirstTaskStep ==
  ASSUME IInv, FirstTask
  PROVE  IInv'
<1>1. /\ UNCHANGED <<retryFrame, retryCount, ready, sender, reader, keepalive, closer, commandQ,
                     audio, captured, audioOpen, shutdown, eventsOpen, last, reached>>
      /\ pc = "connected" /\ pc' = "joining"
      /\ first' \in {"sender", "reader", "keepalive", "closer"} /\ Finished(first')
  BY DEF FirstTask, capture, history
<1>2. cancel' = TRUE
  BY DEF FirstTask
<1>3. InConnection /\ InConnection'
  BY <1>1 DEF InConnection
<1>4. TypeOK'
  <2>1. cancel' \in BOOLEAN
    BY Zenon, <1>2
  <2> QED
    BY <1>1, <2>1 DEF IInv, TypeOK
<1>5. QueueIsInOrder' /\ OneInHand' /\ NoFrameIsSkipped'
  BY <1>1, <1>3, FramesRest
<1>6. TasksAtWork'
  BY <1>1, <1>3 DEF IInv, TasksAtWork, NoTaskOutlivesConnection, InConnection, SenderDone
<1>7. CancelFollowsEnd'
  <2>1. sender.outcome # "Cancelled" /\ keepalive # "stopped" /\ closer # "stopped"
    BY <1>1 DEF IInv, CancelFollowsEnd
  <2>2. keepalive = "failed" \/ closer = "failed" => SenderDone
    BY DEF IInv, CancelFollowsEnd
  <2>3. first' # "reader" => SenderDone
    BY <1>1, <2>1, <2>2 DEF Finished
  <2> QED
    BY <1>1, <2>1, <2>2, <2>3 DEF CancelFollowsEnd, SenderDone
<1> QED
  BY <1>4, <1>5, <1>6, <1>7 DEF IInv

\* The connection is over: the frame that was not written comes back, and its
\* tasks are gone.
LEMMA JoinStep ==
  ASSUME IInv, Join
  PROVE  IInv'
<1>1. /\ UNCHANGED <<cancel, first, ready, commandQ, audio, captured, audioOpen, shutdown,
                     eventsOpen, last, reached>>
      /\ pc = "joining" /\ SenderDone /\ ReaderDone
      /\ retryFrame' = sender.frame /\ sender' = NoSender
      /\ reader' = "none" /\ keepalive' = "none" /\ closer' = "none"
  BY DEF Join, Joined, Unsent, capture, history
<1>2. sender.outcome \in {"Shutdown", "Cancelled", "AudioChannelClosed", "EventChannelClosed",
                          "ConnectionError"}
  BY <1>1 DEF IInv, TypeOK, Sender, TasksAtWork
<1>3. Outcome \in {"Shutdown", "Disconnected", "AudioChannelClosed", "EventChannelClosed"}
  BY <1>2 DEF Outcome, SendAndReadOutcome
<1>4. pc' \in {"waiting"} \cup Ended /\ retryCount' \in 0..RetryCap
  <2>1. CASE Outcome = "Shutdown"
    BY <2>1 DEF Join, Ended, IInv, TypeOK
  <2>2. CASE Outcome = "Disconnected"
    <3>1. PICK stable \in BOOLEAN : retryCount' = Retried(IF stable THEN 0 ELSE retryCount)
      BY <2>2 DEF Join
    <3>2. (IF stable THEN 0 ELSE retryCount) \in 0..RetryCap
      BY DEF IInv, TypeOK, RetryCap
    <3>3. pc' \in {"waiting"} \cup Ended
      BY <2>2 DEF Join, EmitThen, Ended
    <3> QED
      BY <3>1, <3>2, <3>3, RetriedIsCounted
  <2>3. CASE Outcome \in {"AudioChannelClosed", "EventChannelClosed"}
    BY <2>3 DEF Join, Ended, IInv, TypeOK
  <2> QED
    BY <1>3, <2>1, <2>2, <2>3
<1>5. retryFrame = NoFrame /\ InConnection /\ ~InConnection'
  BY <1>1, <1>4 DEF IInv, OneInHand, InConnection, Ended
<1>6. TypeOK'
  <2>1. retryFrame' \in {NoFrame} \cup Frame
    BY <1>1 DEF IInv, TypeOK, Sender
  <2> QED
    BY <1>1, <1>4, <2>1, DelayIsBounded, NoSenderIs DEF IInv, TypeOK
<1>7. QueueIsInOrder'
  BY <1>1 DEF IInv, QueueIsInOrder, Taken
<1>8. OneInHand'
  BY <1>1, <1>5, NoSenderIs DEF IInv, OneInHand, Held, Taken
<1>9. NoFrameIsSkipped'
  BY <1>1, <1>5, NoSenderIs DEF IInv, NoFrameIsSkipped, TypeOK, Frame, NoFrame
<1>10. TasksAtWork'
  BY <1>1, <1>5, NoSenderIs DEF TasksAtWork, NoTaskOutlivesConnection, InConnection, SenderDone
<1>11. CancelFollowsEnd'
  BY <1>1, <1>5 DEF CancelFollowsEnd, InConnection
<1> QED
  BY <1>6, <1>7, <1>8, <1>9, <1>10, <1>11 DEF IInv

-----------------------------------------------------------------------------
(* The sender *)

\* The sender at one of its places, as the step of one of them finds it.
LEMMA SenderAtWork ==
  ASSUME IInv, sender.at \in {"frame", "KeepAlive", "CloseStream", "select"}
  PROVE  /\ InConnection /\ retryFrame = NoFrame /\ ~SenderDone
         /\ sender.outcome = "none" /\ keepalive # "failed" /\ closer # "failed"
         /\ sender.frame \in {NoFrame} \cup Frame /\ sender.started \in BOOLEAN
         /\ pc = "joining" => first = "reader"
<1>1. InConnection /\ retryFrame = NoFrame
  BY AtWorkInConnection
<1>2. ~SenderDone
  BY DEF SenderDone
<1>3. sender.outcome = "none" /\ keepalive # "failed" /\ closer # "failed"
  BY <1>2 DEF IInv, TasksAtWork, CancelFollowsEnd
<1>4. sender.frame \in {NoFrame} \cup Frame /\ sender.started \in BOOLEAN
  BY DEF IInv, TypeOK, Sender
<1>5. pc = "joining" => first = "reader"
  BY <1>2 DEF IInv, CancelFollowsEnd
<1> QED
  BY <1>1, <1>2, <1>3, <1>4, <1>5

\* What a step of the sender has to show: it stays a sender of this connection,
\* and if it ended it says why; Cancelled only in a connection that ends.
LEMMA SenderMoves ==
  ASSUME IInv, sender.at \in {"frame", "KeepAlive", "CloseStream", "select"},
         UNCHANGED <<loop, cancel, reader, keepalive, closer, capture, shutdown, eventsOpen>>,
         sender' \in Sender,
         sender'.at \in {"frame", "KeepAlive", "CloseStream", "select", "done"},
         sender'.at = "done" <=> sender'.outcome # "none",
         sender'.outcome = "Cancelled" => pc = "joining",
         commandQ' \in Seq({"KeepAlive", "CloseStream"}), Len(commandQ') <= CommandMax,
         audio' \in Seq(Frame), last' \in {NoFrame} \cup Frame, reached' \subseteq Frame,
         QueueIsInOrder' /\ OneInHand' /\ NoFrameIsSkipped'
  PROVE  IInv'
<1>1. /\ InConnection /\ InConnection' /\ sender'.at # "none"
      /\ UNCHANGED <<pc, first, retryFrame, retryCount, ready, audioOpen, captured>>
  BY SenderAtWork DEF loop, capture, InConnection
<1>2. TypeOK'
  BY <1>1, DelayIsBounded DEF IInv, TypeOK
<1>3. TasksAtWork'
  BY <1>1 DEF IInv, TasksAtWork, NoTaskOutlivesConnection, InConnection, SenderDone
<1>4. CancelFollowsEnd'
  <2>1. keepalive # "failed" /\ closer # "failed" /\ (pc = "joining" => first = "reader")
    BY SenderAtWork
  <2>2. pc = "connected" => ~cancel /\ keepalive # "stopped" /\ closer # "stopped"
    BY DEF IInv, CancelFollowsEnd
  <2> QED
    BY <1>1, <2>1, <2>2 DEF CancelFollowsEnd
<1> QED
  BY <1>2, <1>3, <1>4 DEF IInv

\* A frame that was written is the one in hand, the last that was taken.
LEMMA FrameWrittenStep ==
  ASSUME IInv, FrameWritten
  PROVE  IInv' /\ last' \in {last, last + 1}
<1>1. /\ UNCHANGED <<loop, cancel, reader, keepalive, closer, commandQ, audio, capture, shutdown,
                     eventsOpen>>
      /\ sender.at = "frame" /\ last' = sender.frame /\ reached' = reached \cup {sender.frame}
  BY DEF FrameWritten
<1>2. UNCHANGED <<pc, retryFrame, captured, audio>>
  BY <1>1 DEF loop, capture
<1>3. sender.frame \in Frame /\ retryFrame = NoFrame /\ sender.outcome = "none"
  BY <1>1, SenderAtWork DEF IInv, OneInHand, Frame
<1>4. sender.frame = Taken /\ last \in {Taken - 1, Taken}
  BY <1>1, <1>3 DEF IInv, OneInHand, Held, Frame, NoFrame
<1>5. /\ sender' \in Sender
      /\ \/ sender'.at = "select" /\ sender'.frame = NoFrame /\ sender'.outcome = "none"
         \/ /\ sender'.at = "done" /\ sender'.frame = sender.frame
            /\ sender'.outcome = "EventChannelClosed"
  <2>1. CASE sender.started \/ eventsOpen
    BY <1>3, <2>1 DEF FrameWritten, IInv, TypeOK, Sender
  <2>2. CASE ~(sender.started \/ eventsOpen)
    BY <1>3, <2>2, SenderReturnsIs DEF FrameWritten, IInv, TypeOK
  <2> QED
    BY <2>1, <2>2
<1>6. Taken' = Taken /\ Taken \in Int
  BY <1>2, <1>3, <1>4 DEF Taken, Frame
<1>7. QueueIsInOrder'
  BY <1>2, <1>6 DEF IInv, QueueIsInOrder
<1>8. OneInHand'
  BY <1>1, <1>2, <1>3, <1>4, <1>5, <1>6 DEF OneInHand, Held, NoFrame, Frame
<1>9. NoFrameIsSkipped'
  BY <1>1, <1>2, <1>3, <1>5 DEF IInv, NoFrameIsSkipped
<1>10. IInv'
  BY <1>1, <1>2, <1>3, <1>5, <1>7, <1>8, <1>9, SenderMoves DEF IInv, TypeOK
<1> QED
  BY <1>1, <1>4, <1>10, <1>6

\* The frame in hand, and the last on a socket, when the sender gives up or
\* fails: as a whole, in part or not at all.
LEMMA FrameStays ==
  ASSUME IInv, sender.at \in {"frame", "KeepAlive", "CloseStream", "select"},
         UNCHANGED <<loop, capture, audio, reached>>,
         sender'.at = "done", sender'.frame = sender.frame,
         last' \in {last} \cup ({sender.frame} \ {NoFrame})
  PROVE  /\ QueueIsInOrder' /\ OneInHand' /\ NoFrameIsSkipped'
         /\ last' \in {last, last + 1} /\ last' \in {NoFrame} \cup Frame
<1>1. UNCHANGED <<pc, retryFrame, captured, audio, reached>> /\ retryFrame = NoFrame
  BY SenderAtWork DEF loop, capture
<1>2. sender.frame \in {NoFrame} \cup Frame /\ last \in {NoFrame} \cup Frame
  BY SenderAtWork DEF IInv, TypeOK
<1>3. sender.frame # NoFrame => sender.frame = Taken /\ last \in {Taken - 1, Taken}
  BY DEF IInv, OneInHand, Held
<1>4. Taken' = Taken
  BY <1>1 DEF Taken
<1>5. last' \in {last, last + 1} /\ last' \in {NoFrame} \cup Frame
  BY <1>2, <1>3 DEF NoFrame, Frame
<1>6. QueueIsInOrder'
  BY <1>1, <1>4 DEF IInv, QueueIsInOrder
<1>7. OneInHand'
  BY <1>1, <1>2, <1>3, <1>4 DEF IInv, OneInHand, Held, NoFrame, Frame
<1>8. NoFrameIsSkipped'
  BY <1>1 DEF IInv, NoFrameIsSkipped
<1> QED
  BY <1>5, <1>6, <1>7, <1>8

\* A write that fails, or a sender that is cancelled, keeps its frame.
LEMMA SenderStops ==
  ASSUME IInv, WriteFails \/ SenderCancelled
  PROVE  IInv' /\ last' \in {last, last + 1}
<1>1. /\ UNCHANGED <<loop, cancel, reader, keepalive, closer, commandQ, audio, capture, shutdown,
                     eventsOpen, reached>>
      /\ sender.at \in {"frame", "KeepAlive", "CloseStream", "select"}
      /\ last' \in {last} \cup ({sender.frame} \ {NoFrame})
  BY DEF WriteFails, SenderCancelled, Writing, GivesUp
<1>2. PICK outcome \in {"ConnectionError", "Cancelled"} :
        SenderReturns(outcome, sender.frame) /\ (outcome = "Cancelled" => cancel)
  BY DEF WriteFails, SenderCancelled
<1>3. /\ sender' \in Sender
      /\ sender'.at = "done" /\ sender'.outcome = outcome /\ sender'.frame = sender.frame
  BY <1>1, <1>2, SenderReturnsIs, SenderAtWork DEF IInv, TypeOK
<1>4. outcome = "Cancelled" => pc = "joining"
  BY <1>1, <1>2, SenderAtWork DEF IInv, CancelFollowsEnd, InConnection
<1>5. /\ QueueIsInOrder' /\ OneInHand' /\ NoFrameIsSkipped'
      /\ last' \in {last, last + 1} /\ last' \in {NoFrame} \cup Frame
  BY <1>1, <1>3, FrameStays
<1>6. IInv'
  BY <1>1, <1>3, <1>4, <1>5, SenderMoves DEF IInv, TypeOK
<1> QED
  BY <1>5, <1>6

\* The sender has no frame in hand, takes none, and writes none.
LEMMA SenderIdle ==
  ASSUME IInv, sender.at \in {"KeepAlive", "CloseStream", "select"},
         UNCHANGED <<loop, audio, capture, history>>,
         sender'.at # "frame", sender'.frame = NoFrame
  PROVE  QueueIsInOrder' /\ OneInHand' /\ NoFrameIsSkipped'
<1>1. UNCHANGED <<pc, retryFrame, captured, audio, last, reached>> /\ retryFrame = NoFrame
  BY SenderAtWork DEF loop, capture, history
<1>2. sender.frame = NoFrame /\ last = Taken /\ Taken' = Taken
  BY <1>1 DEF IInv, OneInHand, Taken
<1>3. QueueIsInOrder'
  BY <1>1, <1>2 DEF IInv, QueueIsInOrder
<1>4. OneInHand'
  BY <1>1, <1>2 DEF OneInHand
<1>5. NoFrameIsSkipped'
  BY <1>1, <1>2 DEF IInv, NoFrameIsSkipped
<1> QED
  BY <1>3, <1>4, <1>5

\* A command was written, was taken, or there is nothing left to take.
LEMMA CommandStep ==
  ASSUME IInv, TextWritten \/ TakeCommand \/ CommandsClosed \/ AudioClosed
  PROVE  IInv'
<1>1. /\ UNCHANGED <<loop, cancel, reader, keepalive, closer, audio, capture, shutdown,
                     eventsOpen, history>>
      /\ sender.at \in {"KeepAlive", "CloseStream", "select"}
  BY DEF TextWritten, TakeCommand, CommandsClosed, AudioClosed
<1>2. sender \in Sender /\ sender.frame = NoFrame /\ sender.outcome = "none"
  BY <1>1, SenderAtWork DEF IInv, TypeOK, OneInHand
<1>3. commandQ' \in Seq({"KeepAlive", "CloseStream"}) /\ Len(commandQ') <= CommandMax
  <2>1. CASE commandQ # <<>> /\ commandQ' = Tail(commandQ)
    BY <2>1, CommandMaxAssumption, HeadTailProperties, LenProperties DEF IInv, TypeOK
  <2>2. CASE UNCHANGED commandQ
    BY <2>2 DEF IInv, TypeOK
  <2> QED
    BY <2>1, <2>2 DEF TextWritten, TakeCommand, CommandsClosed, AudioClosed
<1>4. /\ sender' \in Sender /\ sender'.frame = NoFrame
      /\ \/ sender'.at \in {"KeepAlive", "CloseStream", "select"} /\ sender'.outcome = "none"
         \/ /\ sender'.at = "done"
            /\ sender'.outcome \in {"Shutdown", "ConnectionError", "AudioChannelClosed"}
  <2>1. CASE TextWritten
    <3>1. CASE sender' = [sender EXCEPT !.at = "select"]
      BY <1>2, <3>1 DEF Sender
    <3>2. CASE SenderReturns("Shutdown", NoFrame)
      BY <1>2, <3>2, SenderReturnsIs
    <3> QED
      BY <2>1, <3>1, <3>2 DEF TextWritten
  <2>2. CASE TakeCommand
    <3>1. Head(commandQ) \in {"KeepAlive", "CloseStream"}
      BY <2>2, HeadTailProperties DEF TakeCommand, IInv, TypeOK
    <3> QED
      BY <1>2, <2>2, <3>1 DEF TakeCommand, Sender
  <2>3. CASE CommandsClosed \/ AudioClosed
    BY <1>2, <2>3, SenderReturnsIs DEF CommandsClosed, AudioClosed
  <2> QED
    BY <2>1, <2>2, <2>3
<1>5. QueueIsInOrder' /\ OneInHand' /\ NoFrameIsSkipped'
  BY <1>1, <1>4, SenderIdle
<1>6. audio' \in Seq(Frame) /\ last' \in {NoFrame} \cup Frame /\ reached' \subseteq Frame
  BY <1>1 DEF IInv, TypeOK, history
<1> QED
  BY <1>1, <1>3, <1>4, <1>5, <1>6, SenderMoves

\* The next frame is taken only when the one before was written.
LEMMA TakeFrameStep ==
  ASSUME IInv, TakeFrame
  PROVE  IInv'
<1>1. /\ UNCHANGED <<loop, cancel, reader, keepalive, closer, commandQ, capture, shutdown,
                     eventsOpen, history>>
      /\ sender.at = "select" /\ audio # <<>> /\ audio' = Tail(audio)
      /\ sender' = [sender EXCEPT !.at = "frame", !.frame = Head(audio)]
  BY DEF TakeFrame
<1>2. UNCHANGED <<pc, retryFrame, captured, last, reached>> /\ retryFrame = NoFrame
  BY <1>1, SenderAtWork DEF loop, capture, history
<1>3. sender \in Sender /\ sender.frame = NoFrame /\ sender.outcome = "none" /\ last = Taken
  BY <1>1, <1>2, SenderAtWork DEF IInv, TypeOK, OneInHand
<1>4. audio \in Seq(Frame) /\ captured \in Nat /\ Len(audio) \in Nat /\ Len(audio) <= captured
  BY LenProperties DEF IInv, TypeOK, QueueIsInOrder
<1>5. /\ Head(audio) \in Frame /\ Head(audio) = audio[1] /\ Len(audio) >= 1
      /\ audio' \in Seq(Frame) /\ Len(audio') = Len(audio) - 1
      /\ \A i \in 1..Len(audio') : audio'[i] = audio[i + 1]
  <2>1. Len(audio) # 0
    BY <1>1, <1>4, EmptySeq
  <2> QED
    BY <1>1, <1>4, <2>1, HeadTailProperties
<1>6. Taken \in Nat /\ Taken' = Taken + 1 /\ Head(audio) = Taken'
  BY <1>2, <1>4, <1>5 DEF IInv, QueueIsInOrder, Taken
<1>7. /\ sender' \in Sender /\ sender'.at = "frame" /\ sender'.frame = Taken'
      /\ sender'.outcome = "none" /\ sender'.frame # NoFrame
  <2>1. sender' \in Sender
    BY <1>1, <1>3, <1>5 DEF Sender
  <2>2. sender'.at = "frame" /\ sender'.frame = Head(audio) /\ sender'.outcome = "none"
    BY <1>1, <1>3 DEF Sender
  <2> QED
    BY <1>5, <1>6, <2>1, <2>2 DEF Frame, NoFrame
<1>8. QueueIsInOrder'
  <2>1. Len(audio') <= captured'
    BY <1>2, <1>4, <1>5
  <2>2. ASSUME NEW i \in 1..Len(audio')
        PROVE  audio'[i] = Taken' + i
    <3>1. i + 1 \in 1..Len(audio) /\ audio'[i] = audio[i + 1]
      BY <1>4, <1>5
    <3>2. audio[i + 1] = Taken + (i + 1)
      BY <3>1 DEF IInv, QueueIsInOrder
    <3> QED
      BY <1>6, <3>1, <3>2
  <2> QED
    BY <2>1, <2>2 DEF QueueIsInOrder
<1>9. OneInHand'
  BY <1>2, <1>3, <1>6, <1>7 DEF OneInHand, Held
<1>10. NoFrameIsSkipped'
  <2> SUFFICES ASSUME NEW f \in 1..Taken'
               PROVE  (f \in reached \/ f = sender.frame \/ f = retryFrame)'
    BY DEF NoFrameIsSkipped, Taken
  <2>1. f = Taken' \/ f \in 1..Taken
    BY <1>6
  <2>2. f \in 1..Taken => f \in reached \/ f = NoFrame
    BY <1>2, <1>3 DEF IInv, NoFrameIsSkipped, Taken
  <2> QED
    BY <1>2, <1>6, <1>7, <2>1, <2>2 DEF NoFrame
<1>11. /\ commandQ' \in Seq({"KeepAlive", "CloseStream"}) /\ Len(commandQ') <= CommandMax
       /\ last' \in {NoFrame} \cup Frame /\ reached' \subseteq Frame
  BY <1>1, <1>2 DEF IInv, TypeOK
<1> QED
  BY <1>1, <1>5, <1>7, <1>8, <1>9, <1>10, <1>11, SenderMoves

-----------------------------------------------------------------------------
(* The other tasks, and what is around the provider *)

\* A task other than the sender moves within its connection: the frames rest.
LEMMA OthersRest ==
  ASSUME IInv,
         \/ ReadEvent \/ ConnectionCloses \/ ReaderCancelled
         \/ Tick \/ KeepaliveCancelled \/ KeepaliveSends
         \/ ShutdownSeen \/ CloserCancelled \/ CloserSends
  PROVE  /\ QueueIsInOrder' /\ OneInHand' /\ NoFrameIsSkipped'
         /\ InConnection
         /\ UNCHANGED <<loop, cancel, sender, audio, capture, shutdown, eventsOpen, history>>
<1>1. /\ UNCHANGED <<loop, cancel, sender, audio, capture, shutdown, eventsOpen, history>>
      /\ reader # "none" \/ keepalive # "none" \/ closer # "none"
  BY DEF ReadEvent, ConnectionCloses, ReaderCancelled, Tick, KeepaliveCancelled, KeepaliveSends,
     ShutdownSeen, CloserCancelled, CloserSends
<1>2. InConnection /\ InConnection'
  BY <1>1, AtWorkInConnection DEF InConnection, loop
<1> QED
  BY <1>1, <1>2, FramesRest DEF loop, capture, history

\* What such a step has to show for its own task.
LEMMA OtherMoves ==
  ASSUME IInv,
         \/ ReadEvent \/ ConnectionCloses \/ ReaderCancelled
         \/ Tick \/ KeepaliveCancelled \/ KeepaliveSends
         \/ ShutdownSeen \/ CloserCancelled \/ CloserSends,
         reader' \in {"reading", "Cancelled", "EventChannelClosed", "ConnectionClosed"}
           \/ UNCHANGED reader,
         keepalive' \in {"ticking", "sending", "stopped", "failed"} \/ UNCHANGED keepalive,
         closer' \in {"watching", "sending", "holding", "stopped", "failed"}
           \/ UNCHANGED closer,
         keepalive' = "failed" => SenderDone \/ keepalive = "failed",
         closer' = "failed" => SenderDone \/ closer = "failed",
         keepalive' = "stopped" => cancel \/ keepalive = "stopped",
         closer' = "stopped" => cancel \/ closer = "stopped",
         commandQ' \in Seq({"KeepAlive", "CloseStream"}), Len(commandQ') <= CommandMax
  PROVE  IInv'
<1>1. /\ QueueIsInOrder' /\ OneInHand' /\ NoFrameIsSkipped' /\ InConnection
      /\ UNCHANGED <<loop, cancel, sender, audio, capture, shutdown, eventsOpen, history>>
  BY OthersRest
<1>2. UNCHANGED <<pc, retryFrame, retryCount, first, ready, captured, audioOpen, last, reached>>
  BY <1>1 DEF loop, capture, history
<1>3. TypeOK'
  BY <1>1, <1>2, DelayIsBounded DEF IInv, TypeOK
<1>4. TasksAtWork'
  BY <1>1, <1>2 DEF IInv, TasksAtWork, NoTaskOutlivesConnection, InConnection, SenderDone
<1>5. CancelFollowsEnd'
  BY <1>1, <1>2 DEF IInv, CancelFollowsEnd, SenderDone
<1> QED
  BY <1>1, <1>3, <1>4, <1>5 DEF IInv

LEMMA ReaderStep ==
  ASSUME IInv, ReadEvent \/ ConnectionCloses \/ ReaderCancelled
  PROVE  IInv'
<1>1. /\ UNCHANGED <<keepalive, closer, commandQ>>
      /\ reader' \in {"Cancelled", "EventChannelClosed", "ConnectionClosed"}
  BY DEF ReadEvent, ConnectionCloses, ReaderCancelled
<1>2. commandQ' \in Seq({"KeepAlive", "CloseStream"}) /\ Len(commandQ') <= CommandMax
  BY <1>1 DEF IInv, TypeOK
<1> QED
  BY <1>1, <1>2, OtherMoves

\* A send fails only because the sender, which receives, has ended; otherwise
\* there is a place.
LEMMA SendIs ==
  ASSUME IInv, NEW command \in {"KeepAlive", "CloseStream"}, NEW next, NEW state,
         CommandSent(command, next, state)
  PROVE  /\ commandQ' \in Seq({"KeepAlive", "CloseStream"}) /\ Len(commandQ') <= CommandMax
         /\ state = next \/ (state = "failed" /\ SenderDone)
<1>1. CASE SenderDone /\ state = "failed" /\ UNCHANGED commandQ
  BY <1>1 DEF IInv, TypeOK
<1>2. CASE Len(commandQ) < CommandMax /\ commandQ' = Append(commandQ, command) /\ state = next
  BY <1>2, AppendProperties, LenProperties, CommandMaxAssumption DEF IInv, TypeOK
<1> QED
  BY <1>1, <1>2 DEF CommandSent

LEMMA KeepaliveStep ==
  ASSUME IInv, Tick \/ KeepaliveCancelled \/ KeepaliveSends
  PROVE  IInv'
<1>1. UNCHANGED <<reader, closer>>
  BY DEF Tick, KeepaliveCancelled, KeepaliveSends
<1>2. commandQ' \in Seq({"KeepAlive", "CloseStream"}) /\ Len(commandQ') <= CommandMax
  <2>1. CASE UNCHANGED commandQ
    BY <2>1 DEF IInv, TypeOK
  <2> QED
    BY <2>1, SendIs DEF Tick, KeepaliveCancelled, KeepaliveSends
<1>3. /\ keepalive' \in {"ticking", "sending", "stopped", "failed"}
      /\ keepalive' = "failed" => SenderDone
      /\ keepalive' = "stopped" => cancel
  BY SendIs DEF Tick, KeepaliveCancelled, KeepaliveSends
<1> QED
  BY <1>1, <1>2, <1>3, OtherMoves

LEMMA CloserStep ==
  ASSUME IInv, ShutdownSeen \/ CloserCancelled \/ CloserSends
  PROVE  IInv'
<1>1. UNCHANGED <<reader, keepalive>>
  BY DEF ShutdownSeen, CloserCancelled, CloserSends
<1>2. commandQ' \in Seq({"KeepAlive", "CloseStream"}) /\ Len(commandQ') <= CommandMax
  <2>1. CASE UNCHANGED commandQ
    BY <2>1 DEF IInv, TypeOK
  <2> QED
    BY <2>1, SendIs DEF ShutdownSeen, CloserCancelled, CloserSends
<1>3. /\ closer' \in {"watching", "sending", "holding", "stopped", "failed"}
      /\ closer' = "failed" => SenderDone
      /\ closer' = "stopped" => cancel
  BY SendIs DEF ShutdownSeen, CloserCancelled, CloserSends, AfterClose
<1> QED
  BY <1>1, <1>2, <1>3, OtherMoves

\* A captured frame goes behind those that wait.
LEMMA CaptureStep ==
  ASSUME IInv, Capture
  PROVE  IInv'
<1>1. /\ UNCHANGED <<loop, cancel, sender, reader, keepalive, closer, commandQ, audioOpen,
                     shutdown, eventsOpen, history>>
      /\ captured < MaxFrames /\ captured' = captured + 1
      /\ audio' = Append(audio, captured + 1)
  BY DEF Capture
<1>2. UNCHANGED <<pc, retryFrame, retryCount, first, ready, last, reached>>
  BY <1>1 DEF loop, history
<1>3. audio \in Seq(Frame) /\ captured \in Nat /\ Len(audio) \in Nat /\ Len(audio) <= captured
  BY LenProperties DEF IInv, TypeOK, QueueIsInOrder
<1>4. captured' \in 0..MaxFrames /\ captured + 1 \in Frame
  BY <1>1, <1>3, MaxFramesAssumption DEF Frame
<1>5. /\ audio' \in Seq(Frame) /\ Len(audio') = Len(audio) + 1
      /\ \A i \in 1..Len(audio) : audio'[i] = audio[i]
      /\ audio'[Len(audio) + 1] = captured + 1
  BY <1>1, <1>3, <1>4, AppendProperties
<1>6. Taken' = Taken /\ Taken \in Nat
  BY <1>1, <1>3, <1>5 DEF Taken
<1>7. TypeOK'
  BY <1>1, <1>2, <1>4, <1>5, DelayIsBounded DEF IInv, TypeOK
<1>8. QueueIsInOrder'
  <2>1. Len(audio') <= captured'
    BY <1>1, <1>3, <1>5
  <2>2. ASSUME NEW i \in 1..Len(audio')
        PROVE  audio'[i] = Taken' + i
    <3>1. i \in 1..Len(audio) \/ i = Len(audio) + 1
      BY <1>3, <1>5
    <3>2. CASE i \in 1..Len(audio)
      BY <1>5, <1>6, <3>2 DEF IInv, QueueIsInOrder
    <3>3. CASE i = Len(audio) + 1
      <4>1. Taken + Len(audio) = captured
        BY <1>3 DEF Taken
      <4> QED
        BY <1>3, <1>5, <1>6, <3>3, <4>1
    <3> QED
      BY <3>1, <3>2, <3>3
  <2> QED
    BY <2>1, <2>2 DEF QueueIsInOrder
<1>9. OneInHand'
  BY <1>1, <1>2, <1>6 DEF IInv, OneInHand, Held, InConnection
<1>10. NoFrameIsSkipped'
  BY <1>1, <1>2, <1>6 DEF IInv, NoFrameIsSkipped, Taken
<1>11. TasksAtWork' /\ CancelFollowsEnd'
  BY <1>1, <1>2, TasksRest
<1> QED
  BY <1>7, <1>8, <1>9, <1>10, <1>11 DEF IInv

\* The capture ends, a shutdown is requested, the receiver goes, or nothing
\* happens at all.
LEMMA AroundStep ==
  ASSUME IInv, CaptureEnds \/ RequestShutdown \/ ReceiverEnds \/ UNCHANGED vars
  PROVE  IInv'
<1>1. /\ UNCHANGED <<loop, cancel, sender, reader, keepalive, closer, commandQ, audio, captured,
                     history>>
  BY DEF CaptureEnds, RequestShutdown, ReceiverEnds, vars, capture
<1>2. UNCHANGED <<pc, retryFrame, retryCount, first, ready, last, reached>>
  BY <1>1 DEF loop, history
<1>3. audioOpen' \in BOOLEAN /\ shutdown' \in BOOLEAN /\ eventsOpen' \in BOOLEAN
  <2>1. audioOpen \in BOOLEAN /\ shutdown \in BOOLEAN /\ eventsOpen \in BOOLEAN
    BY DEF IInv, TypeOK
  <2>2. audioOpen' \in {audioOpen, FALSE}
    BY Zenon DEF CaptureEnds, RequestShutdown, ReceiverEnds, vars, capture
  <2>3. shutdown' \in {shutdown, TRUE}
    BY Zenon DEF CaptureEnds, RequestShutdown, ReceiverEnds, vars
  <2>4. eventsOpen' \in {eventsOpen, FALSE}
    BY Zenon DEF CaptureEnds, RequestShutdown, ReceiverEnds, vars
  <2> QED
    BY Zenon, <2>1, <2>2, <2>3, <2>4
<1>4. TypeOK'
  BY <1>1, <1>2, <1>3, DelayIsBounded DEF IInv, TypeOK
<1>5. QueueIsInOrder' /\ OneInHand' /\ NoFrameIsSkipped'
  BY <1>1, <1>2, FramesRest DEF InConnection
<1>6. TasksAtWork' /\ CancelFollowsEnd'
  BY <1>1, <1>2, TasksRest
<1> QED
  BY <1>4, <1>5, <1>6 DEF IInv

\* Every step keeps the invariant, and sends what comes next or what was sent
\* last.
LEMMA NextIInv == IInv /\ [Next]_vars => IInv' /\ last' \in {last, last + 1}
<1> SUFFICES ASSUME IInv, [Next]_vars
             PROVE  IInv' /\ last' \in {last, last + 1}
  OBVIOUS
<1>1. CASE Top \/ ConnectCancelled \/ ConnectFails \/ WaitEnds
  BY <1>1, LoopStep DEF Top, ConnectCancelled, ConnectFails, WaitEnds, history
<1>2. CASE Connect
  BY <1>2, ConnectStep DEF Connect, history
<1>3. CASE FirstTask
  BY <1>3, FirstTaskStep DEF FirstTask, history
<1>4. CASE Join
  BY <1>4, JoinStep DEF Join, history
<1>5. CASE FrameWritten
  BY <1>5, FrameWrittenStep
<1>6. CASE WriteFails \/ SenderCancelled
  BY <1>6, SenderStops
<1>7. CASE TextWritten \/ TakeCommand \/ CommandsClosed \/ AudioClosed
  BY <1>7, CommandStep DEF TextWritten, TakeCommand, CommandsClosed, AudioClosed, history
<1>8. CASE TakeFrame
  BY <1>8, TakeFrameStep DEF TakeFrame, history
<1>9. CASE ReadEvent \/ ConnectionCloses \/ ReaderCancelled
  BY <1>9, ReaderStep DEF ReadEvent, ConnectionCloses, ReaderCancelled, history
<1>10. CASE Tick \/ KeepaliveCancelled \/ KeepaliveSends
  BY <1>10, KeepaliveStep DEF Tick, KeepaliveCancelled, KeepaliveSends, history
<1>11. CASE ShutdownSeen \/ CloserCancelled \/ CloserSends
  BY <1>11, CloserStep DEF ShutdownSeen, CloserCancelled, CloserSends, history
<1>12. CASE Capture
  BY <1>12, CaptureStep DEF Capture, history
<1>13. CASE CaptureEnds \/ RequestShutdown \/ ReceiverEnds
  BY <1>13, AroundStep DEF CaptureEnds, RequestShutdown, ReceiverEnds, history
<1>14. CASE Stopped \/ UNCHANGED vars
  BY <1>14, AroundStep DEF Stopped, vars, history
<1> QED
  BY <1>1, <1>2, <1>3, <1>4, <1>5, <1>6, <1>7, <1>8, <1>9, <1>10, <1>11, <1>12, <1>13, <1>14
  DEF Next

LEMMA Invariant == Spec => []IInv
<1>1. IInv /\ [Next]_vars => IInv'
  BY NextIInv
<1> QED
  BY InitIInv, <1>1, PTL DEF Spec

-----------------------------------------------------------------------------
(* What the provider promises *)

\* The loop and its tasks stay what they are; at most CommandMax commands
\* wait, and every reconnect waits from 1 to 30 seconds.
THEOREM TypeCorrect == Spec => []TypeOK
<1>1. IInv => TypeOK
  BY DEF IInv
<1> QED
  BY Invariant, <1>1, PTL

\* Across every reconnect, a write that fails or is given up included, the
\* frames go over the sockets in the order they were captured: none overtakes
\* another, and only the one that may not have arrived is repeated.
THEOREM FramesGoInOrder == Spec => FramesKeepTheirOrder
<1>1. IInv /\ [Next]_vars => [last' \in {last, last + 1}]_vars
  BY NextIInv
<1> QED
  BY Invariant, <1>1, PTL DEF Spec, FramesKeepTheirOrder

\* A frame that left the queue was written, or somebody still holds it to be:
\* the sender, or run_loop for the next connection.
THEOREM NoneSkipped == Spec => []NoFrameIsSkipped
<1>1. IInv => NoFrameIsSkipped
  BY DEF IInv
<1> QED
  BY Invariant, <1>1, PTL

\* The tasks of a connection end with it, and a sender is cancelled only when
\* the reader has ended: what run_connection must have joined, and in which
\* order the tasks noticed, before run_loop goes on.
THEOREM NoTaskLeft == Spec => []TasksEndWithConnection
<1>1. IInv => TasksEndWithConnection
  <2> SUFFICES ASSUME IInv
               PROVE  TasksEndWithConnection
    OBVIOUS
  <2>1. NoTaskOutlivesConnection
    BY DEF IInv, TasksAtWork
  <2>2. OnlyReaderCancelsSender
    BY DEF IInv, CancelFollowsEnd, OnlyReaderCancelsSender
  <2> QED
    BY <2>1, <2>2 DEF TasksEndWithConnection
<1> QED
  BY Invariant, <1>1, PTL
=============================================================================
