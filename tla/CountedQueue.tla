---------------------------- MODULE CountedQueue ----------------------------
(***************************************************************************)
(* The counted mpsc channel of audio/source.rs (AudioFrameSender and       *)
(* AudioFrameReceiver) and llm/queue.rs (LlmRequestSender and              *)
(* LlmRequestReceiver): a tokio channel beside an atomic counter that      *)
(* len(), is_empty() and is_full() read without a lock.                    *)
(*                                                                         *)
(* A send takes its place in the counter before it touches the channel     *)
(* (QueueReservation::new), and gives it back when the send fails or its   *)
(* future is dropped (Drop); the receiver pops first and decrements        *)
(* afterwards.  Every one of these is a step of its own here.  The channel *)
(* itself is tokio's: a bounded one hands out Maximum permits, and a       *)
(* permit that becomes free goes to the sender that has waited longest.    *)
(***************************************************************************)
EXTENDS Integers, Sequences, FiniteSets, SequencesExt

CONSTANTS
  Producers,  \* the tasks that hold a sender
  Maximum,    \* AUDIO_QUEUE_MAX or LLM_QUEUE_MAX; 0 is unbounded
  MaxSends    \* bound: sends started by each producer

ASSUME ProducersAssumption == IsFiniteSet(Producers)
ASSUME MaximumAssumption == Maximum \in Nat
ASSUME MaxSendsAssumption == MaxSends \in Nat

VARIABLES
  pc,         \* pc[p]: where producer p is in send()
  sent,       \* sent[p]: sends p has started; the message in hand is <<p, sent[p]>>
  waiters,    \* producers queued for a permit, longest wait first
  buffer,     \* messages in the channel
  queued,     \* the atomic counter
  lost,       \* messages still in the channel when the receiver was dropped
  receiver,   \* "waiting", "popped" (before its fetch_sub) or "dropped"
  accepted,   \* history: messages pushed, in order
  delivered   \* history: messages popped, in order

vars == <<pc, sent, waiters, buffer, queued, lost, receiver, accepted, delivered>>

Message == Producers \X (1..MaxSends)
InHand(p) == <<p, sent[p]>>
Sending == {p \in Producers : pc[p] # "idle"}
Granted == {p \in Producers : pc[p] = "granted"}
IsOpen == receiver # "dropped"

\* A permit is free: the bounded channel has Maximum of them, one per message
\* it holds and one per sender that was granted one and has not pushed yet.
HasRoom == Maximum = 0 \/ Len(buffer) + Cardinality(Granted) < Maximum

Init ==
  /\ pc = [p \in Producers |-> "idle"]
  /\ sent = [p \in Producers |-> 0]
  /\ waiters = <<>>
  /\ buffer = <<>>
  /\ queued = 0
  /\ lost = 0
  /\ receiver = "waiting"
  /\ accepted = <<>>
  /\ delivered = <<>>

-----------------------------------------------------------------------------
(* send() *)

Reserve(p) ==
  /\ pc[p] = "idle"
  /\ sent[p] < MaxSends
  /\ pc' = [pc EXCEPT ![p] = "reserved"]
  /\ sent' = [sent EXCEPT ![p] = @ + 1]
  /\ queued' = queued + 1
  /\ UNCHANGED <<waiters, buffer, lost, receiver, accepted, delivered>>

\* The channel takes the message and commit() keeps the place in the counter.
Push(p) ==
  /\ pc' = [pc EXCEPT ![p] = "idle"]
  /\ buffer' = Append(buffer, InHand(p))
  /\ accepted' = Append(accepted, InHand(p))
  /\ UNCHANGED <<sent, waiters, queued, lost, receiver, delivered>>

\* Faulty: the channel is not bounded.
FaultySendNow(p) ==
  /\ pc[p] = "reserved"
  /\ IsOpen
  /\ Push(p)

SendNow(p) ==
  /\ pc[p] = "reserved"
  /\ IsOpen
  /\ HasRoom
  /\ Push(p)

Block(p) ==
  /\ pc[p] = "reserved"
  /\ IsOpen
  /\ ~HasRoom
  /\ pc' = [pc EXCEPT ![p] = "blocked"]
  /\ waiters' = Append(waiters, p)
  /\ UNCHANGED <<sent, buffer, queued, lost, receiver, accepted, delivered>>

SendGranted(p) ==
  /\ pc[p] = "granted"
  /\ IsOpen
  /\ Push(p)

\* p leaves the wait queue, wherever it stands in it.
LeaveQueue(p) ==
  \E i \in 1..Len(waiters) : waiters[i] = p /\ waiters' = RemoveAt(waiters, i)

\* Faulty: an error keeps the place in the counter.
FaultyFail(p) ==
  /\ pc[p] # "idle"
  /\ ~IsOpen
  /\ pc' = [pc EXCEPT ![p] = "idle"]
  /\ IF pc[p] = "blocked" THEN LeaveQueue(p) ELSE UNCHANGED waiters
  /\ UNCHANGED <<sent, buffer, queued, lost, receiver, accepted, delivered>>

\* Faulty: a send that failed is tried again.
RetriedFail(p) ==
  /\ pc[p] # "idle"
  /\ ~IsOpen
  /\ pc' = [pc EXCEPT ![p] = "reserved"]
  /\ IF pc[p] = "blocked" THEN LeaveQueue(p) ELSE UNCHANGED waiters
  /\ UNCHANGED <<sent, buffer, queued, lost, receiver, accepted, delivered>>

\* The send returns Err because the receiver is gone, and the reservation is
\* dropped uncommitted.
Fail(p) ==
  /\ pc[p] # "idle"
  /\ ~IsOpen
  /\ pc' = [pc EXCEPT ![p] = "idle"]
  /\ IF pc[p] = "blocked" THEN LeaveQueue(p) ELSE UNCHANGED waiters
  /\ queued' = queued - 1
  /\ UNCHANGED <<sent, buffer, lost, receiver, accepted, delivered>>

\* A permit is free: it goes to the sender that has waited longest, if one
\* waits.  state is pc as the releasing step leaves it.
HandOn(state) ==
  \/ /\ waiters = <<>>
     /\ pc' = state
     /\ UNCHANGED waiters
  \/ /\ waiters # <<>>
     /\ pc' = [state EXCEPT ![Head(waiters)] = "granted"]
     /\ waiters' = Tail(waiters)

\* The send future is dropped while it waits: shutdown won the select! around
\* it, or its task was aborted.  A permit it had been granted moves on.
Cancel(p) ==
  /\ IsOpen
  /\ \/ /\ pc[p] = "blocked"
        /\ pc' = [pc EXCEPT ![p] = "idle"]
        /\ LeaveQueue(p)
     \/ /\ pc[p] = "granted"
        /\ HandOn([pc EXCEPT ![p] = "idle"])
  /\ queued' = queued - 1
  /\ UNCHANGED <<sent, buffer, lost, receiver, accepted, delivered>>

-----------------------------------------------------------------------------
(* recv() and the end of the receiver *)

Pop ==
  /\ receiver = "waiting"
  /\ buffer # <<>>
  /\ receiver' = "popped"
  /\ buffer' = Tail(buffer)
  /\ delivered' = Append(delivered, Head(buffer))
  /\ HandOn(pc)
  /\ UNCHANGED <<sent, queued, lost, accepted>>

\* Faulty: recv() subtracts whether or not it got a message.
FaultyDecrement ==
  /\ IsOpen
  /\ receiver' = "waiting"
  /\ queued' = queued - 1
  /\ UNCHANGED <<pc, sent, waiters, buffer, lost, accepted, delivered>>

Decrement ==
  /\ receiver = "popped"
  /\ receiver' = "waiting"
  /\ queued' = queued - 1
  /\ UNCHANGED <<pc, sent, waiters, buffer, lost, accepted, delivered>>

\* The receiving task ends.  The channel discards what it still holds and
\* nobody decrements the counter for it.
DropReceiver ==
  /\ receiver = "waiting"
  /\ receiver' = "dropped"
  /\ lost' = Len(buffer)
  /\ buffer' = <<>>
  /\ UNCHANGED <<pc, sent, waiters, queued, accepted, delivered>>

-----------------------------------------------------------------------------
Send(p) == SendNow(p) \/ Block(p) \/ SendGranted(p) \/ Fail(p)
Recv == Pop \/ Decrement

\* All sends of the bounded instance are over and nothing is left to receive.
Quiescent ==
  /\ \A p \in Producers : pc[p] = "idle" /\ sent[p] = MaxSends
  /\ buffer = <<>>
  /\ receiver = "dropped"
  /\ UNCHANGED vars

Next ==
  \/ \E p \in Producers :
       Reserve(p) \/ SendNow(p) \/ Block(p) \/ SendGranted(p) \/ Fail(p) \/ Cancel(p)
  \/ Pop
  \/ Decrement
  \/ DropReceiver
  \/ Quiescent

Spec == Init /\ [][Next]_vars

\* Tokio runs a task that can make progress, and a receiver that is not gone
\* keeps calling recv().  Producers need not start sends, futures need not be
\* cancelled and the receiver need not end.
FairSpec ==
  Spec /\ (\A p \in Producers : WF_vars(Send(p))) /\ WF_vars(Recv)

-----------------------------------------------------------------------------
\* The type invariant: in particular the atomic usize of the queue is a natural
\* number, so no fetch_sub of recv() or of a dropped reservation wraps it.
TypeOK ==
  /\ pc \in [Producers -> {"idle", "reserved", "blocked", "granted"}]
  /\ sent \in [Producers -> 0..MaxSends]
  /\ waiters \in Seq(Producers)
  /\ buffer \in Seq(Message)
  /\ queued \in Nat
  /\ lost \in Nat
  /\ receiver \in {"waiting", "popped", "dropped"}
  /\ accepted \in Seq(Message)
  /\ delivered \in Seq(Message)

\* The counter is exactly the sends under way, the messages in the channel,
\* the message popped but not yet subtracted, and the messages a dropped
\* receiver left behind.  In particular fetch_sub never wraps below zero.
CounterExact ==
  queued = Cardinality(Sending) + Len(buffer) + lost
             + (IF receiver = "popped" THEN 1 ELSE 0)

\* What a reader of the unlocked counter may rely on: len() is never below the
\* number of messages in the channel, so a channel that holds Maximum messages
\* always reports is_full() and one that reports is_empty() is empty; and it
\* exceeds that number by at most one per producer plus one.
GaugeBrackets ==
  IsOpen => /\ Len(buffer) <= queued
            /\ queued <= Len(buffer) + Cardinality(Producers) + 1

\* The channel keeps the promise of FifoChannel whatever the interleaving of
\* reservations, cancellations and receives.
Fifo == INSTANCE FifoChannel WITH open <- IsOpen
ImplementsFifo == Fifo!Spec

\* A send never waits for ever: it is pushed, cancelled, or fails because the
\* receiver ended.  No permit may get lost between a cancelled sender and the
\* next one.
SendReturns == \A p \in Producers : pc[p] # "idle" ~> pc[p] = "idle"
=============================================================================
