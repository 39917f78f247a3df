---------------------------- MODULE FifoChannel ----------------------------
(***************************************************************************)
(* What the audio queue and the LLM request queue promise to the code on   *)
(* both of their sides: a message whose send succeeded is delivered at     *)
(* most once, in the order the sends succeeded, a message whose send       *)
(* failed or was cancelled is never delivered, a bounded channel holds at  *)
(* most Maximum undelivered messages, and a closed one neither accepts     *)
(* nor delivers.                                                           *)
(***************************************************************************)
EXTENDS Integers, Sequences

CONSTANTS
  Producers,  \* the tasks that send
  Maximum,    \* capacity; 0 stands for an unbounded channel
  MaxSends    \* bound: messages sent by each producer, numbered from 1

VARIABLES
  accepted,   \* messages <<producer, number>> accepted so far, in order
  delivered,  \* messages handed to the receiver so far, in order
  open        \* FALSE once the receiving half is gone

channelVars == <<accepted, delivered, open>>

Message == Producers \X (1..MaxSends)

Init ==
  /\ accepted = <<>>
  /\ delivered = <<>>
  /\ open = TRUE

\* A producer's messages are numbered in the order it sends them, so a
\* message accepted twice, or late, breaks the last conjunct.
Accept(m) ==
  /\ open
  /\ Maximum = 0 \/ Len(accepted) - Len(delivered) < Maximum
  /\ \A i \in 1..Len(accepted) : accepted[i][1] = m[1] => accepted[i][2] < m[2]
  /\ accepted' = Append(accepted, m)
  /\ UNCHANGED <<delivered, open>>

Deliver ==
  /\ open
  /\ Len(delivered) < Len(accepted)
  /\ delivered' = Append(delivered, accepted[Len(delivered) + 1])
  /\ UNCHANGED <<accepted, open>>

Close ==
  /\ open
  /\ open' = FALSE
  /\ UNCHANGED <<accepted, delivered>>

Next == (\E m \in Message : Accept(m)) \/ Deliver \/ Close

Spec == Init /\ [][Next]_channelVars
=============================================================================
