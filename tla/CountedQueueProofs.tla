------------------------- MODULE CountedQueueProofs -------------------------
(***************************************************************************)
(* Safety of the counted queue for every set of producers, every capacity  *)
(* and every number of sends: its type invariant, the exactness of the     *)
(* counter, what a reader of the counter may rely on, and that it          *)
(* implements FifoChannel.                                                 *)
(***************************************************************************)
EXTENDS CountedQueue, TLAPS, FiniteSetTheorems, SequenceTheorems

-----------------------------------------------------------------------------
(* The inductive invariant *)

\* The counter is typed as an integer: that it is never negative is a
\* consequence of CounterExact, not a part of the typing the steps preserve.
Typing ==
  /\ pc \in [Producers -> {"idle", "reserved", "blocked", "granted"}]
  /\ sent \in [Producers -> 0..MaxSends]
  /\ waiters \in Seq(Producers)
  /\ buffer \in Seq(Message)
  /\ queued \in Int
  /\ lost \in Nat
  /\ receiver \in {"waiting", "popped", "dropped"}
  /\ accepted \in Seq(Message)
  /\ delivered \in Seq(Message)

\* The wait queue holds blocked producers only, each once: a permit handed on
\* reaches a producer that still wants it.
WaitersBlocked ==
  /\ \A i \in 1..Len(waiters) : pc[waiters[i]] = "blocked"
  /\ \A i, j \in 1..Len(waiters) : waiters[i] = waiters[j] => i = j

\* A bounded channel never owes more than Maximum places.
WithinCapacity == Maximum # 0 => Len(buffer) + Cardinality(Granted) <= Maximum

\* What was accepted and not delivered is in the channel, until it closes.
BufferIsSuffix ==
  /\ IsOpen => lost = 0 /\ accepted = delivered \o buffer
  /\ ~IsOpen => buffer = <<>>

\* A producer's message in hand is newer than all it had accepted.
HandIsNewest ==
  /\ \A p \in Producers : pc[p] # "idle" => sent[p] > 0
  /\ \A i \in 1..Len(accepted) :
       LET p == accepted[i][1]
       IN  accepted[i][2] <= sent[p] /\ (pc[p] # "idle" => accepted[i][2] < sent[p])

IInv ==
  /\ Typing
  /\ CounterExact
  /\ WaitersBlocked
  /\ WithinCapacity
  /\ BufferIsSuffix
  /\ HandIsNewest

-----------------------------------------------------------------------------
(* Lemmas about sets of producers and about the wait queue *)

\* Adding a producer to a set of producers, or taking one out, changes its
\* size by one.
LEMMA ProducerSets ==
  ASSUME NEW S \in SUBSET Producers, NEW p \in Producers
  PROVE  /\ IsFiniteSet(S)
         /\ Cardinality(S) \in Nat
         /\ Cardinality(S) <= Cardinality(Producers)
         /\ Cardinality(Producers) \in Nat
         /\ Cardinality(S \cup {p}) = IF p \in S THEN Cardinality(S) ELSE Cardinality(S) + 1
         /\ Cardinality(S \ {p}) = IF p \in S THEN Cardinality(S) - 1 ELSE Cardinality(S)
         /\ p \in S => Cardinality(S) > 0
<1>1. IsFiniteSet(S) /\ Cardinality(S) <= Cardinality(Producers)
  BY FS_Subset, ProducersAssumption
<1>2. Cardinality(S) \in Nat /\ Cardinality(Producers) \in Nat
  BY <1>1, FS_CardinalityType, ProducersAssumption
<1>3. Cardinality(S \cup {p}) = IF p \in S THEN Cardinality(S) ELSE Cardinality(S) + 1
  BY <1>1, FS_AddElement
<1>4. /\ IsFiniteSet(S \ {p})
      /\ Cardinality(S \ {p}) = IF p \in S THEN Cardinality(S) - 1 ELSE Cardinality(S)
  BY <1>1, FS_RemoveElement
<1>5. Cardinality(S \ {p}) \in Nat
  BY <1>4, FS_CardinalityType
<1> QED
  BY <1>1, <1>2, <1>3, <1>4, <1>5

\* What RemoveAt of the community modules returns.
LEMMA RemoveAtProperties ==
  ASSUME NEW S, NEW s \in Seq(S), NEW k \in 1..Len(s)
  PROVE  /\ RemoveAt(s, k) \in Seq(S)
         /\ Len(RemoveAt(s, k)) = Len(s) - 1
         /\ \A i \in 1..(Len(s) - 1) : RemoveAt(s, k)[i] = IF i < k THEN s[i] ELSE s[i + 1]
<1> DEFINE front == SubSeq(s, 1, k - 1)
           back == SubSeq(s, k + 1, Len(s))
<1>1. Len(s) \in Nat /\ \A i \in 1..Len(s) : s[i] \in S
  BY LenProperties, ElementOfSeq
<1>2. /\ front \in Seq(S)
      /\ Len(front) = k - 1
      /\ \A i \in 1..(k - 1) : front[i] = s[i]
  BY <1>1, SubSeqProperties, Z3
<1>3. /\ back \in Seq(S)
      /\ Len(back) = Len(s) - k
      /\ \A i \in 1..(Len(s) - k) : back[i] = s[k + i]
  BY <1>1, SubSeqProperties, Z3
<1> HIDE DEF front, back
<1>4. /\ front \o back \in Seq(S)
      /\ Len(front \o back) = Len(front) + Len(back)
      /\ \A i \in 1..(Len(front) + Len(back)) :
           (front \o back)[i] = IF i <= Len(front) THEN front[i] ELSE back[i - Len(front)]
  BY <1>2, <1>3, ConcatProperties
<1>5. /\ Len(front) + Len(back) = Len(s) - 1
      /\ \A i \in 1..(Len(s) - 1) : (front \o back)[i] = IF i < k THEN s[i] ELSE s[i + 1]
  <2>1. Len(front) + Len(back) = Len(s) - 1
    BY <1>1, <1>2, <1>3
  <2> SUFFICES ASSUME NEW i \in 1..(Len(s) - 1)
               PROVE  (front \o back)[i] = IF i < k THEN s[i] ELSE s[i + 1]
    BY <2>1
  <2>2. CASE i < k
    BY <1>1, <1>2, <1>4, <2>1, <2>2
  <2>3. CASE ~(i < k)
    <3>1. i - (k - 1) \in 1..(Len(s) - k) /\ k + (i - (k - 1)) = i + 1
      BY <1>1, <2>3
    <3>2. back[i - (k - 1)] = s[i + 1]
      BY <1>3, <3>1
    <3> QED
      BY <1>1, <1>2, <1>4, <2>1, <2>3, <3>2
  <2> QED
    BY <2>2, <2>3
<1> QED
  BY <1>4, <1>5 DEF front, back, RemoveAt

\* Appending to a concatenation appends to its second part.
LEMMA AppendToConcat ==
  ASSUME NEW s \in Seq(Message), NEW t \in Seq(Message), NEW e \in Message
  PROVE  Append(s \o t, e) = s \o Append(t, e)
<1>1. <<e>> \in Seq(Message)
  OBVIOUS
<1>2. Append(t, e) = t \o <<e>>
  BY AppendIsConcat
<1>3. s \o t \in Seq(Message)
  BY ConcatProperties
<1>4. Append(s \o t, e) = (s \o t) \o <<e>>
  BY <1>3, AppendIsConcat
<1>5. (s \o t) \o <<e>> = s \o (t \o <<e>>)
  BY <1>1, ConcatAssociative
<1> QED
  BY <1>2, <1>4, <1>5

\* Moving the head of the second part to the end of the first changes nothing.
LEMMA MoveHead ==
  ASSUME NEW s \in Seq(Message), NEW t \in Seq(Message), t # <<>>
  PROVE  Append(s, Head(t)) \o Tail(t) = s \o t
<1>1. /\ Head(t) \in Message
      /\ Tail(t) \in Seq(Message)
      /\ Len(Tail(t)) = Len(t) - 1
      /\ \A i \in 1..Len(Tail(t)) : Tail(t)[i] = t[i + 1]
      /\ Head(t) = t[1]
      /\ Len(t) \in Nat /\ Len(t) > 0 /\ Len(s) \in Nat
  BY HeadTailProperties, LenProperties, EmptySeq
<1> DEFINE u == Append(s, Head(t))
           v == Tail(t)
<1>2. /\ u \in Seq(Message)
      /\ Len(u) = Len(s) + 1
      /\ \A i \in 1..Len(s) : u[i] = s[i]
      /\ u[Len(s) + 1] = t[1]
  BY <1>1, AppendProperties
<1>3. v \in Seq(Message) /\ Len(v) = Len(t) - 1 /\ \A i \in 1..Len(v) : v[i] = t[i + 1]
  BY <1>1
<1> HIDE DEF u, v
<1>4. /\ s \o t \in Seq(Message)
      /\ Len(s \o t) = Len(s) + Len(t)
      /\ \A i \in 1..(Len(s) + Len(t)) :
           (s \o t)[i] = IF i <= Len(s) THEN s[i] ELSE t[i - Len(s)]
  BY ConcatProperties
<1>5. /\ u \o v \in Seq(Message)
      /\ Len(u \o v) = Len(u) + Len(v)
      /\ \A i \in 1..(Len(u) + Len(v)) :
           (u \o v)[i] = IF i <= Len(u) THEN u[i] ELSE v[i - Len(u)]
  BY <1>2, <1>3, ConcatProperties
<1>6. Len(u \o v) = Len(s \o t)
  BY <1>1, <1>2, <1>3, <1>4, <1>5
<1>7. ASSUME NEW i \in 1..Len(u \o v)
      PROVE  (u \o v)[i] = (s \o t)[i]
  <2>1. i \in 1..(Len(s) + Len(t)) /\ i \in 1..(Len(u) + Len(v))
    BY <1>4, <1>5, <1>6, <1>7
  <2>2. CASE i <= Len(s)
    BY <1>1, <1>2, <1>4, <1>5, <2>1, <2>2
  <2>3. CASE i = Len(s) + 1
    BY <1>1, <1>2, <1>4, <1>5, <2>1, <2>3
  <2>4. CASE i > Len(s) + 1
    <3>1. i - Len(u) \in 1..Len(v) /\ i - Len(s) = (i - Len(u)) + 1
      BY <1>1, <1>2, <1>3, <2>1, <2>4
    <3>2. v[i - Len(u)] = t[i - Len(s)]
      BY <1>3, <3>1
    <3> QED
      BY <1>1, <1>2, <1>4, <1>5, <2>1, <2>4, <3>2
  <2> QED
    BY <1>1, <2>1, <2>2, <2>3, <2>4
<1>8. u \o v = s \o t
  BY <1>4, <1>5, <1>6, <1>7, SeqEqual
<1> QED
  BY <1>8 DEF u, v

\* A producer that leaves the wait queue is gone from it, and the others keep
\* their places.
LEMMA LeaveQueueProperties ==
  ASSUME Typing, WaitersBlocked, NEW p \in Producers, LeaveQueue(p)
  PROVE  /\ waiters' \in Seq(Producers)
         /\ \A i \in 1..Len(waiters') : waiters'[i] # p /\ pc[waiters'[i]] = "blocked"
         /\ \A i, j \in 1..Len(waiters') : waiters'[i] = waiters'[j] => i = j
<1>1. PICK k \in 1..Len(waiters) : waiters[k] = p /\ waiters' = RemoveAt(waiters, k)
  BY DEF LeaveQueue
<1>2. waiters \in Seq(Producers) /\ Len(waiters) \in Nat
  BY LenProperties DEF Typing
<1>3. /\ waiters' \in Seq(Producers)
      /\ Len(waiters') = Len(waiters) - 1
      /\ \A i \in 1..(Len(waiters) - 1) :
           waiters'[i] = IF i < k THEN waiters[i] ELSE waiters[i + 1]
  BY <1>1, <1>2, RemoveAtProperties
<1> DEFINE old(i) == IF i < k THEN i ELSE i + 1
<1>4. \A i \in 1..Len(waiters') :
        old(i) \in 1..Len(waiters) /\ old(i) # k /\ waiters'[i] = waiters[old(i)]
  BY <1>2, <1>3
<1>5. \A i, j \in 1..Len(waiters') : old(i) = old(j) => i = j
  BY <1>2, <1>3
<1> HIDE DEF old
<1>6. \A i \in 1..Len(waiters') : waiters'[i] # p /\ pc[waiters'[i]] = "blocked"
  BY <1>1, <1>4 DEF WaitersBlocked
<1>7. ASSUME NEW i \in 1..Len(waiters'), NEW j \in 1..Len(waiters'), waiters'[i] = waiters'[j]
      PROVE  i = j
  <2>1. /\ waiters[old(i)] = waiters[old(j)]
        /\ old(i) \in 1..Len(waiters) /\ old(j) \in 1..Len(waiters)
    BY <1>4, <1>7
  <2>2. old(i) = old(j)
    BY <2>1 DEF WaitersBlocked
  <2> QED
    BY <1>5, <2>2
<1> QED
  BY <1>3, <1>6, <1>7

\* A permit that is handed on goes to a producer that was blocked: it stays a
\* sender, is granted, and leaves the wait queue.
LEMMA HandOnProperties ==
  ASSUME Typing, WaitersBlocked,
         NEW state \in [Producers -> {"idle", "reserved", "blocked", "granted"}],
         \A i \in 1..Len(waiters) : state[waiters[i]] = "blocked",
         HandOn(state)
  PROVE  /\ pc' \in [Producers -> {"idle", "reserved", "blocked", "granted"}]
         /\ waiters' \in Seq(Producers)
         /\ WaitersBlocked'
         /\ \A q \in Producers : pc'[q] # "idle" <=> state[q] # "idle"
         /\ Cardinality(Granted') <= Cardinality({q \in Producers : state[q] = "granted"}) + 1
<1> DEFINE G == {q \in Producers : state[q] = "granted"}
<1>1. waiters \in Seq(Producers) /\ Len(waiters) \in Nat
  BY LenProperties DEF Typing
<1>2. CASE waiters = <<>> /\ pc' = state /\ waiters' = waiters
  <2>1. Granted' = G
    BY <1>2 DEF Granted
  <2>2. Cardinality(G) \in Nat
    BY FS_Subset, FS_CardinalityType, ProducersAssumption
  <2>3. WaitersBlocked'
    BY <1>2 DEF WaitersBlocked
  <2> QED
    BY <1>1, <1>2, <2>1, <2>2, <2>3
<1>3. CASE /\ waiters # <<>>
           /\ pc' = [state EXCEPT ![Head(waiters)] = "granted"]
           /\ waiters' = Tail(waiters)
  <2>1. /\ Len(waiters) > 0
        /\ Head(waiters) = waiters[1]
        /\ waiters[1] \in Producers
        /\ waiters' \in Seq(Producers)
        /\ Len(waiters') = Len(waiters) - 1
        /\ \A i \in 1..Len(waiters') : waiters'[i] = waiters[i + 1]
    BY <1>1, <1>3, HeadTailProperties, EmptySeq
  <2> DEFINE h == waiters[1]
  <2>2. state[h] = "blocked"
    BY <1>1, <2>1
  <2>3. /\ pc' \in [Producers -> {"idle", "reserved", "blocked", "granted"}]
        /\ \A q \in Producers : pc'[q] = IF q = h THEN "granted" ELSE state[q]
    BY <1>3, <2>1
  <2>4. Granted' = G \cup {h}
    BY <2>1, <2>3 DEF Granted
  <2>5. Cardinality(G \cup {h}) <= Cardinality(G) + 1
    <3>1. G \in SUBSET Producers /\ h \in Producers
      BY <2>1
    <3> HIDE DEF G, h
    <3>2. /\ Cardinality(G) \in Nat
          /\ Cardinality(G \cup {h}) = IF h \in G THEN Cardinality(G) ELSE Cardinality(G) + 1
      BY <3>1, ProducerSets, Zenon
    <3> QED
      BY <3>2
  <2>6. \A i \in 1..Len(waiters') : pc'[waiters'[i]] = "blocked"
    <3> TAKE i \in 1..Len(waiters')
    <3>1. i + 1 \in 1..Len(waiters) /\ i + 1 # 1 /\ 1 \in 1..Len(waiters)
      BY <1>1, <2>1
    <3>2. waiters[i + 1] \in Producers /\ waiters[i + 1] # h
      BY <1>1, <3>1, ElementOfSeq DEF WaitersBlocked
    <3> QED
      BY <2>1, <2>3, <3>1, <3>2
  <2>7. \A i, j \in 1..Len(waiters') : waiters'[i] = waiters'[j] => i = j
    <3> TAKE i, j \in 1..Len(waiters')
    <3>1. i + 1 \in 1..Len(waiters) /\ j + 1 \in 1..Len(waiters)
      BY <1>1, <2>1
    <3> QED
      BY <1>1, <2>1, <3>1 DEF WaitersBlocked
  <2> QED
    BY <2>1, <2>2, <2>3, <2>4, <2>5, <2>6, <2>7 DEF WaitersBlocked
<1> QED
  BY <1>2, <1>3 DEF HandOn

\* The message a sending producer has in hand is a message, and it may be
\* accepted.
LEMMA InHandIsMessage ==
  ASSUME Typing, HandIsNewest, NEW p \in Producers, pc[p] # "idle"
  PROVE  /\ InHand(p) \in Message
         /\ InHand(p)[1] = p
         /\ InHand(p)[2] = sent[p]
<1>1. sent[p] \in 1..MaxSends
  BY MaxSendsAssumption DEF Typing, HandIsNewest
<1> QED
  BY <1>1 DEF InHand, Message

\* A sequence of messages has producers and numbers.
LEMMA AcceptedTypes ==
  ASSUME Typing
  PROVE  /\ Len(accepted) \in Nat /\ Len(buffer) \in Nat /\ Len(delivered) \in Nat
         /\ \A i \in 1..Len(accepted) : accepted[i][1] \in Producers /\ accepted[i][2] \in Nat
<1>1. Len(accepted) \in Nat /\ Len(buffer) \in Nat /\ Len(delivered) \in Nat
  BY LenProperties DEF Typing
<1>2. \A i \in 1..Len(accepted) : accepted[i] \in Message
  BY ElementOfSeq DEF Typing
<1> QED
  BY <1>1, <1>2, MaxSendsAssumption DEF Message

-----------------------------------------------------------------------------
(* Every step preserves the invariant *)

LEMMA InitIInv == Init => IInv
<1> SUFFICES ASSUME Init PROVE IInv
  OBVIOUS
<1>1. Sending = {} /\ Granted = {}
  BY DEF Init, Sending, Granted
<1>2. Cardinality(Sending) = 0 /\ Cardinality(Granted) = 0
  BY <1>1, FS_EmptySet
<1>3. Typing /\ WaitersBlocked /\ HandIsNewest
  BY MaxSendsAssumption DEF Init, Typing, WaitersBlocked, HandIsNewest
<1>4. CounterExact
  BY <1>2 DEF Init, CounterExact
<1>5. WithinCapacity
  BY <1>2, MaximumAssumption DEF Init, WithinCapacity
<1>6. BufferIsSuffix
  BY DEF Init, BufferIsSuffix, IsOpen
<1> QED
  BY <1>3, <1>4, <1>5, <1>6 DEF IInv

LEMMA ReserveStep ==
  ASSUME IInv, NEW p \in Producers, Reserve(p)
  PROVE  IInv'
<1> USE DEF IInv
<1>1. Typing'
  BY MaxSendsAssumption DEF Reserve, Typing
<1>2. CounterExact'
  <2>1. Sending' = Sending \cup {p} /\ p \notin Sending /\ Sending \in SUBSET Producers
    BY DEF Reserve, Sending, Typing
  <2>2. Cardinality(Sending') = Cardinality(Sending) + 1 /\ Cardinality(Sending) \in Nat
    BY <2>1, ProducerSets, Zenon
  <2> QED
    BY <2>2, AcceptedTypes DEF Reserve, CounterExact, Typing
<1>3. WaitersBlocked'
  <2>1. \A i \in 1..Len(waiters) : waiters[i] # p /\ waiters[i] \in Producers
    BY ElementOfSeq DEF Reserve, WaitersBlocked, Typing
  <2> QED
    BY <2>1 DEF Reserve, WaitersBlocked, Typing
<1>4. WithinCapacity'
  <2>1. Granted' = Granted
    BY DEF Reserve, Granted, Typing
  <2> QED
    BY <2>1 DEF Reserve, WithinCapacity
<1>5. BufferIsSuffix'
  BY DEF Reserve, BufferIsSuffix, IsOpen
<1>6. HandIsNewest'
  <2>1. \A q \in Producers : /\ sent[q] \in Nat
                             /\ sent'[q] = IF q = p THEN sent[q] + 1 ELSE sent[q]
                             /\ pc'[q] = IF q = p THEN "reserved" ELSE pc[q]
    BY MaxSendsAssumption DEF Reserve, Typing
  <2>2. accepted' = accepted
    BY DEF Reserve
  <2>3. \A q \in Producers : pc'[q] # "idle" => sent'[q] > 0
    BY <2>1 DEF HandIsNewest
  <2>4. ASSUME NEW i \in 1..Len(accepted')
        PROVE  LET q == accepted'[i][1]
               IN  accepted'[i][2] <= sent'[q] /\ (pc'[q] # "idle" => accepted'[i][2] < sent'[q])
    <3>1. PICK q \in Producers : q = accepted[i][1] /\ accepted[i][2] \in Nat
      BY <2>2, AcceptedTypes
    <3>2. accepted[i][2] <= sent[q] /\ (pc[q] # "idle" => accepted[i][2] < sent[q])
      BY <2>2, <3>1 DEF HandIsNewest
    <3> QED
      BY <2>1, <2>2, <3>1, <3>2
  <2> QED
    BY <2>3, <2>4 DEF HandIsNewest
<1> QED
  BY <1>1, <1>2, <1>3, <1>4, <1>5, <1>6

\* The three ways to push share Push; what they have in common is that the
\* channel owes a place to the message, or has no bound.
LEMMA PushStep ==
  ASSUME IInv, NEW p \in Producers, pc[p] \in {"reserved", "granted"}, IsOpen, Push(p),
         Maximum # 0 => Len(buffer) + 1 + Cardinality(Granted \ {p}) <= Maximum
  PROVE  IInv'
<1> USE DEF IInv
<1>1. InHand(p) \in Message /\ InHand(p)[1] = p /\ InHand(p)[2] = sent[p]
  BY InHandIsMessage
<1>2. /\ Len(buffer') = Len(buffer) + 1
      /\ buffer' \in Seq(Message)
  BY <1>1, AppendProperties DEF Push, Typing
<1>3. /\ Len(accepted') = Len(accepted) + 1
      /\ accepted' \in Seq(Message)
      /\ \A i \in 1..Len(accepted) : accepted'[i] = accepted[i]
      /\ accepted'[Len(accepted) + 1] = InHand(p)
  BY <1>1, AppendProperties DEF Push, Typing
<1>4. \A q \in Producers : pc'[q] = IF q = p THEN "idle" ELSE pc[q]
  BY DEF Push, Typing
<1>5. Typing'
  BY <1>2, <1>3 DEF Push, Typing
<1>6. CounterExact'
  <2>1. Sending' = Sending \ {p} /\ p \in Sending /\ Sending \in SUBSET Producers
    BY <1>4 DEF Sending
  <2>2. Cardinality(Sending') = Cardinality(Sending) - 1 /\ Cardinality(Sending) \in Nat
    BY <2>1, ProducerSets, Zenon
  <2> QED
    BY <1>2, <2>2, AcceptedTypes DEF Push, CounterExact, Typing
<1>7. WaitersBlocked'
  <2>1. \A i \in 1..Len(waiters) : waiters[i] # p /\ waiters[i] \in Producers
    BY ElementOfSeq DEF WaitersBlocked, Typing
  <2> QED
    BY <1>4, <2>1 DEF Push, WaitersBlocked
<1>8. WithinCapacity'
  <2>1. Granted' = Granted \ {p}
    BY <1>4 DEF Granted
  <2> QED
    BY <1>2, <2>1 DEF WithinCapacity
<1>9. BufferIsSuffix'
  <2>1. accepted = delivered \o buffer
    BY DEF BufferIsSuffix
  <2>2. Append(delivered \o buffer, InHand(p)) = delivered \o Append(buffer, InHand(p))
    <3>1. delivered \in Seq(Message) /\ buffer \in Seq(Message)
      BY DEF Typing
    <3> QED
      BY <1>1, <3>1, AppendToConcat
  <2> QED
    BY <2>1, <2>2 DEF Push, BufferIsSuffix, IsOpen
<1>10. HandIsNewest'
  <2>1. \A q \in Producers : sent'[q] = sent[q] /\ sent[q] \in Nat
    BY MaxSendsAssumption DEF Push, Typing
  <2>2. \A q \in Producers : pc'[q] # "idle" => sent'[q] > 0
    BY <1>4, <2>1 DEF HandIsNewest
  <2>3. ASSUME NEW i \in 1..Len(accepted')
        PROVE  LET q == accepted'[i][1]
               IN  accepted'[i][2] <= sent'[q] /\ (pc'[q] # "idle" => accepted'[i][2] < sent'[q])
    <3>1. CASE i = Len(accepted) + 1
      BY <1>1, <1>3, <1>4, <2>1, <3>1
    <3>2. CASE i \in 1..Len(accepted)
      BY <1>3, <1>4, <2>1, <3>2, AcceptedTypes DEF HandIsNewest
    <3> QED
      BY <1>3, <3>1, <3>2, AcceptedTypes
  <2> QED
    BY <2>2, <2>3 DEF HandIsNewest
<1> QED
  BY <1>5, <1>6, <1>7, <1>8, <1>9, <1>10

LEMMA SendNowStep ==
  ASSUME IInv, NEW p \in Producers, SendNow(p)
  PROVE  IInv'
<1>1. Cardinality(Granted \ {p}) = Cardinality(Granted)
  <2>1. Granted \ {p} = Granted
    BY DEF SendNow, Granted
  <2> QED
    BY <2>1, Zenon
<1>2. Granted \in SUBSET Producers /\ Len(buffer) \in Nat
  BY AcceptedTypes DEF Granted, IInv
<1>3. Cardinality(Granted) \in Nat
  BY <1>2, ProducerSets, Zenon
<1>4. Maximum # 0 => Len(buffer) + 1 + Cardinality(Granted \ {p}) <= Maximum
  BY <1>1, <1>2, <1>3, MaximumAssumption DEF SendNow, HasRoom
<1> QED
  BY <1>4, PushStep DEF SendNow

LEMMA SendGrantedStep ==
  ASSUME IInv, NEW p \in Producers, SendGranted(p)
  PROVE  IInv'
<1>1. p \in Granted /\ Granted \in SUBSET Producers
  BY DEF SendGranted, Granted
<1>2. /\ Cardinality(Granted) \in Nat
      /\ Cardinality(Granted \ {p}) = Cardinality(Granted) - 1
  BY <1>1, ProducerSets, Zenon
<1>3. Maximum # 0 => Len(buffer) + 1 + Cardinality(Granted \ {p}) <= Maximum
  BY <1>2, AcceptedTypes, MaximumAssumption DEF IInv, WithinCapacity
<1> QED
  BY <1>3, PushStep DEF SendGranted

LEMMA BlockStep ==
  ASSUME IInv, NEW p \in Producers, Block(p)
  PROVE  IInv'
<1> USE DEF IInv
<1>1. /\ waiters' \in Seq(Producers)
      /\ Len(waiters') = Len(waiters) + 1
      /\ Len(waiters) \in Nat
      /\ \A i \in 1..Len(waiters) : waiters'[i] = waiters[i]
      /\ waiters'[Len(waiters) + 1] = p
  BY AppendProperties, LenProperties DEF Block, Typing
<1>2. \A q \in Producers : pc'[q] = IF q = p THEN "blocked" ELSE pc[q]
  BY DEF Block, Typing
<1>3. \A i \in 1..Len(waiters) : waiters[i] # p /\ waiters[i] \in Producers
  BY ElementOfSeq DEF Block, WaitersBlocked, Typing
<1>4. Typing'
  BY <1>1 DEF Block, Typing
<1>5. CounterExact'
  <2>1. Sending' = Sending
    BY <1>2 DEF Block, Sending
  <2> QED
    BY <2>1 DEF Block, CounterExact
<1>6. WaitersBlocked'
  <2>1. \A i \in 1..Len(waiters') : i \in 1..Len(waiters) \/ i = Len(waiters) + 1
    BY <1>1
  <2>2. \A i \in 1..Len(waiters') : pc'[waiters'[i]] = "blocked"
    BY <1>1, <1>2, <1>3, <2>1 DEF WaitersBlocked
  <2>3. \A i, j \in 1..Len(waiters') : waiters'[i] = waiters'[j] => i = j
    BY <1>1, <1>3, <2>1 DEF WaitersBlocked
  <2> QED
    BY <2>2, <2>3 DEF WaitersBlocked
<1>7. WithinCapacity'
  <2>1. Granted' = Granted
    BY <1>2 DEF Block, Granted
  <2> QED
    BY <2>1 DEF Block, WithinCapacity
<1>8. BufferIsSuffix'
  BY DEF Block, BufferIsSuffix, IsOpen
<1>9. HandIsNewest'
  <2>1. sent' = sent /\ accepted' = accepted
    BY DEF Block
  <2>2. \A q \in Producers : pc'[q] # "idle" <=> pc[q] # "idle"
    BY <1>2 DEF Block
  <2> QED
    BY <2>1, <2>2, AcceptedTypes DEF HandIsNewest
<1> QED
  BY <1>4, <1>5, <1>6, <1>7, <1>8, <1>9

\* A send that ends without a message: p leaves the senders, and the counter
\* goes down by one.
LEMMA GiveUpStep ==
  ASSUME IInv, NEW p \in Producers, pc[p] # "idle",
         pc' \in [Producers -> {"idle", "reserved", "blocked", "granted"}],
         waiters' \in Seq(Producers),
         WaitersBlocked',
         WithinCapacity',
         \A q \in Producers : pc'[q] # "idle" <=> (q # p /\ pc[q] # "idle"),
         queued' = queued - 1,
         UNCHANGED <<sent, buffer, lost, receiver, accepted, delivered>>
  PROVE  IInv'
<1> USE DEF IInv
<1>1. Typing'
  BY DEF Typing
<1>2. CounterExact'
  <2>1. Sending' = Sending \ {p} /\ p \in Sending /\ Sending \in SUBSET Producers
    BY DEF Sending
  <2>2. Cardinality(Sending') = Cardinality(Sending) - 1 /\ Cardinality(Sending) \in Nat
    BY <2>1, ProducerSets, Zenon
  <2> QED
    BY <2>2, AcceptedTypes DEF CounterExact, Typing
<1>3. BufferIsSuffix'
  BY DEF BufferIsSuffix, IsOpen
<1>4. HandIsNewest'
  BY AcceptedTypes DEF HandIsNewest
<1> QED
  BY <1>1, <1>2, <1>3, <1>4

\* What is left of a wait queue that p was not in, or has left.
LEMMA WaitersAfterLeaving ==
  ASSUME Typing, WaitersBlocked, NEW p \in Producers,
         pc' = [pc EXCEPT ![p] = "idle"],
         IF pc[p] = "blocked" THEN LeaveQueue(p) ELSE UNCHANGED waiters
  PROVE  /\ waiters' \in Seq(Producers)
         /\ WaitersBlocked'
         /\ Cardinality(Granted') <= Cardinality(Granted)
         /\ Cardinality(Granted) \in Nat /\ Cardinality(Granted') \in Nat
<1>1. \A q \in Producers : pc'[q] = IF q = p THEN "idle" ELSE pc[q]
  BY DEF Typing
<1>2. /\ waiters' \in Seq(Producers)
      /\ \A i \in 1..Len(waiters') : waiters'[i] # p /\ pc[waiters'[i]] = "blocked"
      /\ \A i, j \in 1..Len(waiters') : waiters'[i] = waiters'[j] => i = j
  <2>1. CASE pc[p] = "blocked"
    BY <2>1, LeaveQueueProperties
  <2>2. CASE pc[p] # "blocked"
    BY <2>2 DEF WaitersBlocked, Typing
  <2> QED
    BY <2>1, <2>2
<1>3. \A i \in 1..Len(waiters') : waiters'[i] \in Producers
  BY <1>2, ElementOfSeq
<1>4. WaitersBlocked'
  BY <1>1, <1>2, <1>3 DEF WaitersBlocked
<1>5. Granted' = Granted \ {p} /\ Granted \in SUBSET Producers
  BY <1>1 DEF Granted
<1>6. /\ Cardinality(Granted) \in Nat
      /\ p \in Granted => Cardinality(Granted) > 0
      /\ Cardinality(Granted') = IF p \in Granted THEN Cardinality(Granted) - 1
                                                  ELSE Cardinality(Granted)
  BY <1>5, ProducerSets, Zenon
<1> QED
  BY <1>2, <1>4, <1>6

LEMMA FailStep ==
  ASSUME IInv, NEW p \in Producers, Fail(p)
  PROVE  IInv'
<1>1. /\ waiters' \in Seq(Producers) /\ WaitersBlocked'
      /\ Cardinality(Granted') <= Cardinality(Granted)
      /\ Cardinality(Granted) \in Nat /\ Cardinality(Granted') \in Nat
  BY WaitersAfterLeaving DEF Fail, IInv
<1>2. WithinCapacity'
  BY <1>1, AcceptedTypes, MaximumAssumption DEF Fail, IInv, WithinCapacity
<1>3. /\ pc' \in [Producers -> {"idle", "reserved", "blocked", "granted"}]
      /\ \A q \in Producers : pc'[q] # "idle" <=> (q # p /\ pc[q] # "idle")
  BY DEF Fail, IInv, Typing
<1> QED
  BY <1>1, <1>2, <1>3, GiveUpStep DEF Fail

LEMMA CancelStep ==
  ASSUME IInv, NEW p \in Producers, Cancel(p)
  PROVE  IInv'
<1>1. CASE pc[p] = "blocked" /\ pc' = [pc EXCEPT ![p] = "idle"] /\ LeaveQueue(p)
  <2>1. /\ waiters' \in Seq(Producers) /\ WaitersBlocked'
        /\ Cardinality(Granted') <= Cardinality(Granted)
        /\ Cardinality(Granted) \in Nat /\ Cardinality(Granted') \in Nat
    BY <1>1, WaitersAfterLeaving DEF IInv
  <2>2. WithinCapacity'
    BY <2>1, AcceptedTypes, MaximumAssumption DEF Cancel, IInv, WithinCapacity
  <2>3. /\ pc' \in [Producers -> {"idle", "reserved", "blocked", "granted"}]
        /\ \A q \in Producers : pc'[q] # "idle" <=> (q # p /\ pc[q] # "idle")
    BY <1>1 DEF IInv, Typing
  <2> QED
    BY <1>1, <2>1, <2>2, <2>3, GiveUpStep DEF Cancel
<1>2. CASE pc[p] = "granted" /\ HandOn([pc EXCEPT ![p] = "idle"])
  <2> DEFINE state == [pc EXCEPT ![p] = "idle"]
  <2>1. /\ state \in [Producers -> {"idle", "reserved", "blocked", "granted"}]
        /\ \A q \in Producers : state[q] = IF q = p THEN "idle" ELSE pc[q]
    BY DEF IInv, Typing
  <2>2. \A i \in 1..Len(waiters) : state[waiters[i]] = "blocked"
    BY <1>2, <2>1, ElementOfSeq DEF IInv, Typing, WaitersBlocked
  <2>3. HandOn(state)
    BY <1>2
  <2> HIDE DEF state
  <2>4. /\ pc' \in [Producers -> {"idle", "reserved", "blocked", "granted"}]
        /\ waiters' \in Seq(Producers)
        /\ WaitersBlocked'
        /\ \A q \in Producers : pc'[q] # "idle" <=> state[q] # "idle"
        /\ Cardinality(Granted') <= Cardinality({q \in Producers : state[q] = "granted"}) + 1
    BY <2>1, <2>2, <2>3, HandOnProperties DEF IInv
  <2> DEFINE G == {q \in Producers : state[q] = "granted"}
  <2>5. Cardinality(G) = Cardinality(Granted \ {p})
    <3>1. G = Granted \ {p}
      BY <2>1 DEF Granted
    <3> QED
      BY <3>1, Zenon
  <2>6. p \in Granted /\ Granted \in SUBSET Producers /\ Granted' \in SUBSET Producers
    BY <1>2 DEF Granted
  <2>7. /\ Cardinality(Granted) \in Nat /\ Cardinality(Granted') \in Nat
        /\ Cardinality(Granted \ {p}) = Cardinality(Granted) - 1
    BY <2>6, ProducerSets, Zenon
  <2> HIDE DEF G
  <2>8. Cardinality(Granted') <= Cardinality(Granted)
    <3>1. Cardinality(Granted') <= Cardinality(G) + 1
      BY <2>4 DEF G
    <3> QED
      BY <2>5, <2>7, <3>1
  <2>9. WithinCapacity'
    BY <2>7, <2>8, AcceptedTypes, MaximumAssumption DEF Cancel, IInv, WithinCapacity
  <2>10. \A q \in Producers : pc'[q] # "idle" <=> (q # p /\ pc[q] # "idle")
    BY <2>1, <2>4
  <2> QED
    BY <1>2, <2>4, <2>9, <2>10, GiveUpStep DEF Cancel
<1> QED
  BY <1>1, <1>2 DEF Cancel

LEMMA PopStep ==
  ASSUME IInv, Pop
  PROVE  IInv'
<1> USE DEF IInv
<1>1. /\ Len(buffer) > 0
      /\ Head(buffer) \in Message
      /\ buffer' \in Seq(Message)
      /\ Len(buffer') = Len(buffer) - 1
  BY HeadTailProperties, AcceptedTypes, EmptySeq DEF Pop, Typing
<1>2. delivered' \in Seq(Message)
  BY <1>1, AppendProperties DEF Pop, Typing
<1>3. /\ pc' \in [Producers -> {"idle", "reserved", "blocked", "granted"}]
      /\ waiters' \in Seq(Producers)
      /\ WaitersBlocked'
      /\ \A q \in Producers : pc'[q] # "idle" <=> pc[q] # "idle"
      /\ Cardinality(Granted') <= Cardinality({q \in Producers : pc[q] = "granted"}) + 1
  <2>1. pc \in [Producers -> {"idle", "reserved", "blocked", "granted"}]
    BY DEF Typing
  <2>2. \A i \in 1..Len(waiters) : pc[waiters[i]] = "blocked"
    BY DEF WaitersBlocked
  <2> QED
    BY <2>1, <2>2, HandOnProperties DEF Pop
<1>4. Typing'
  BY <1>1, <1>2, <1>3 DEF Pop, Typing
<1>5. CounterExact'
  <2>1. Sending' = Sending
    BY <1>3 DEF Sending
  <2>2. Sending \in SUBSET Producers
    BY DEF Sending
  <2>3. Cardinality(Sending) \in Nat /\ Cardinality(Sending') = Cardinality(Sending)
    <3>1. Cardinality(Sending) \in Nat
      BY <2>2, FS_Subset, FS_CardinalityType, ProducersAssumption
    <3> QED
      BY <2>1, <3>1
  <2> QED
    BY <1>1, <2>3, AcceptedTypes DEF Pop, CounterExact, Typing
<1>6. WithinCapacity'
  <2>1. Granted \in SUBSET Producers /\ Granted' \in SUBSET Producers
    BY DEF Granted
  <2>2. Cardinality(Granted) \in Nat /\ Cardinality(Granted') \in Nat
    BY <2>1, FS_Subset, FS_CardinalityType, ProducersAssumption
  <2>3. Cardinality(Granted') <= Cardinality(Granted) + 1
    BY <1>3 DEF Granted
  <2> QED
    BY <1>1, <2>2, <2>3, AcceptedTypes, MaximumAssumption DEF WithinCapacity
<1>7. BufferIsSuffix'
  <2>1. accepted = delivered \o buffer /\ lost = 0 /\ IsOpen /\ IsOpen'
    BY DEF Pop, BufferIsSuffix, IsOpen
  <2>2. delivered' \o buffer' = delivered \o buffer
    BY MoveHead DEF Pop, Typing
  <2> QED
    BY <2>1, <2>2 DEF Pop, BufferIsSuffix
<1>8. HandIsNewest'
  BY <1>3, AcceptedTypes DEF Pop, HandIsNewest
<1> QED
  BY <1>3, <1>4, <1>5, <1>6, <1>7, <1>8

LEMMA DecrementStep ==
  ASSUME IInv, Decrement
  PROVE  IInv'
<1> USE DEF IInv, Decrement
<1>1. Typing'
  BY DEF Typing
<1>2. CounterExact'
  <2>1. Sending' = Sending /\ Sending \in SUBSET Producers
    BY DEF Sending
  <2>2. Cardinality(Sending) \in Nat /\ Cardinality(Sending') = Cardinality(Sending)
    <3>1. Cardinality(Sending) \in Nat
      BY <2>1, FS_Subset, FS_CardinalityType, ProducersAssumption
    <3> QED
      BY <2>1, <3>1
  <2> QED
    BY <2>2, AcceptedTypes DEF CounterExact, Typing
<1>3. WaitersBlocked' /\ HandIsNewest'
  BY DEF WaitersBlocked, HandIsNewest
<1>4. WithinCapacity'
  BY DEF WithinCapacity, Granted
<1>5. BufferIsSuffix'
  BY DEF BufferIsSuffix, IsOpen
<1> QED
  BY <1>1, <1>2, <1>3, <1>4, <1>5

LEMMA DropReceiverStep ==
  ASSUME IInv, DropReceiver
  PROVE  IInv'
<1> USE DEF IInv, DropReceiver
<1>1. Len(buffer) \in Nat /\ buffer' = <<>> /\ Len(buffer') = 0
  BY AcceptedTypes
<1>2. Typing'
  BY <1>1 DEF Typing
<1>3. CounterExact'
  <2>1. lost = 0
    BY DEF BufferIsSuffix, IsOpen
  <2>2. Sending' = Sending /\ Sending \in SUBSET Producers
    BY DEF Sending
  <2>3. Cardinality(Sending) \in Nat /\ Cardinality(Sending') = Cardinality(Sending)
    <3>1. Cardinality(Sending) \in Nat
      BY <2>2, FS_Subset, FS_CardinalityType, ProducersAssumption
    <3> QED
      BY <2>2, <3>1
  <2> QED
    BY <1>1, <2>1, <2>3 DEF CounterExact, Typing
<1>4. WaitersBlocked' /\ HandIsNewest'
  BY DEF WaitersBlocked, HandIsNewest
<1>5. WithinCapacity'
  <2>1. Granted' = Granted /\ Granted \in SUBSET Producers
    BY DEF Granted
  <2>2. Cardinality(Granted) \in Nat /\ Cardinality(Granted') = Cardinality(Granted)
    <3>1. Cardinality(Granted) \in Nat
      BY <2>1, FS_Subset, FS_CardinalityType, ProducersAssumption
    <3> QED
      BY <2>1, <3>1
  <2> QED
    BY <1>1, <2>2, MaximumAssumption DEF WithinCapacity
<1>6. BufferIsSuffix'
  BY DEF BufferIsSuffix, IsOpen
<1> QED
  BY <1>2, <1>3, <1>4, <1>5, <1>6

LEMMA Stutter == IInv /\ UNCHANGED vars => IInv'
  BY DEF vars, IInv, Typing, CounterExact, Sending, WaitersBlocked, WithinCapacity, Granted,
         BufferIsSuffix, IsOpen, HandIsNewest

LEMMA NextIInv == IInv /\ [Next]_vars => IInv'
<1> SUFFICES ASSUME IInv, [Next]_vars PROVE IInv'
  OBVIOUS
<1>1. CASE Next
  <2>1. CASE \E p \in Producers :
               Reserve(p) \/ SendNow(p) \/ Block(p) \/ SendGranted(p) \/ Fail(p) \/ Cancel(p)
    BY <2>1, ReserveStep, SendNowStep, BlockStep, SendGrantedStep, FailStep, CancelStep
  <2>2. CASE Pop
    BY <2>2, PopStep
  <2>3. CASE Decrement
    BY <2>3, DecrementStep
  <2>4. CASE DropReceiver
    BY <2>4, DropReceiverStep
  <2>5. CASE Quiescent
    BY <2>5, Stutter DEF Quiescent
  <2> QED
    BY <1>1, <2>1, <2>2, <2>3, <2>4, <2>5 DEF Next
<1>2. CASE UNCHANGED vars
  BY <1>2, Stutter
<1> QED
  BY <1>1, <1>2

\* The strengthening all the theorems below rest on.
THEOREM Invariance == Spec => []IInv
  BY InitIInv, NextIInv, PTL DEF Spec

-----------------------------------------------------------------------------
(* The properties *)

\* The counter both queues share is exactly the sends under way plus the messages
\* in, just out of, or left in the channel, whatever the interleaving of
\* QueueReservation::new, commit, Drop and the receiver's fetch_sub.
THEOREM CounterExactHolds == Spec => []CounterExact
<1>1. IInv => CounterExact
  BY DEF IInv
<1> QED
  BY <1>1, Invariance, PTL

\* The types of the state; the counter is a natural number, so the fetch_sub
\* of recv() and of Drop never wraps it.
THEOREM TypeCorrect == Spec => []TypeOK
<1>1. IInv => TypeOK
  <2> SUFFICES ASSUME IInv PROVE TypeOK
    OBVIOUS
  <2>1. Sending \in SUBSET Producers
    BY DEF Sending
  <2>2. Cardinality(Sending) \in Nat
    BY <2>1, FS_Subset, FS_CardinalityType, ProducersAssumption
  <2>3. queued \in Nat
    BY <2>2, AcceptedTypes DEF IInv, CounterExact, Typing
  <2> QED
    BY <2>3 DEF IInv, Typing, TypeOK
<1> QED
  BY <1>1, Invariance, PTL

\* While the receiver lives, len() is never below the number of messages in
\* the channel and exceeds it by at most one per producer and one in the
\* receiver's hand.
THEOREM GaugeBracketsHolds == Spec => []GaugeBrackets
<1>1. IInv => GaugeBrackets
  <2> SUFFICES ASSUME IInv, IsOpen
               PROVE  /\ Len(buffer) <= queued
                      /\ queued <= Len(buffer) + Cardinality(Producers) + 1
    BY DEF GaugeBrackets
  <2>1. Sending \in SUBSET Producers
    BY DEF Sending
  <2>2. /\ Cardinality(Sending) \in Nat
        /\ Cardinality(Producers) \in Nat
        /\ Cardinality(Sending) <= Cardinality(Producers)
    BY <2>1, FS_Subset, FS_CardinalityType, ProducersAssumption
  <2>3. lost = 0
    BY DEF IInv, BufferIsSuffix
  <2> QED
    BY <2>2, <2>3, AcceptedTypes DEF IInv, CounterExact, Typing
<1> QED
  BY <1>1, Invariance, PTL

-----------------------------------------------------------------------------
(* Refinement *)

\* A push, immediate or after a permit was granted, is an Accept.
LEMMA PushAccepts ==
  ASSUME IInv, NEW p \in Producers, pc[p] \in {"reserved", "granted"}, IsOpen, Push(p),
         Maximum # 0 => Len(buffer) < Maximum
  PROVE  Fifo!Next
<1>1. InHand(p) \in Message /\ InHand(p)[1] = p /\ InHand(p)[2] = sent[p]
  BY InHandIsMessage DEF IInv
<1>2. Len(accepted) = Len(delivered) + Len(buffer)
  <2>1. delivered \in Seq(Message) /\ buffer \in Seq(Message) /\ accepted = delivered \o buffer
    BY DEF IInv, Typing, BufferIsSuffix
  <2> QED
    BY <2>1, ConcatProperties
<1>3. Maximum = 0 \/ Len(accepted) - Len(delivered) < Maximum
  BY <1>2, AcceptedTypes, MaximumAssumption DEF IInv
<1>4. \A i \in 1..Len(accepted) :
        accepted[i][1] = InHand(p)[1] => accepted[i][2] < InHand(p)[2]
  BY <1>1 DEF IInv, HandIsNewest
<1>5. Fifo!Accept(InHand(p))
  BY <1>3, <1>4 DEF Fifo!Accept, Push, IsOpen
<1>6. InHand(p) \in Fifo!Message
  BY <1>1 DEF Message, Fifo!Message
<1> QED
  BY <1>5, <1>6 DEF Fifo!Next

\* Every step of the queue is a step of the channel, or changes nothing there.
LEMMA StepRefines ==
  ASSUME IInv, [Next]_vars
  PROVE  [Fifo!Next]_(Fifo!channelVars)
<1> USE DEF Fifo!channelVars
<1>1. ASSUME NEW p \in Producers, SendNow(p)
      PROVE  Fifo!Next
  <2>1. Granted \in SUBSET Producers
    BY DEF Granted
  <2>2. Cardinality(Granted) \in Nat
    BY <2>1, FS_Subset, FS_CardinalityType, ProducersAssumption
  <2>3. Maximum # 0 => Len(buffer) < Maximum
    BY <1>1, <2>2, AcceptedTypes, MaximumAssumption DEF SendNow, HasRoom, IInv
  <2> QED
    BY <1>1, <2>3, PushAccepts DEF SendNow
<1>2. ASSUME NEW p \in Producers, SendGranted(p)
      PROVE  Fifo!Next
  <2>1. p \in Granted /\ Granted \in SUBSET Producers
    BY <1>2 DEF SendGranted, Granted
  <2>2. Cardinality(Granted) \in Nat /\ Cardinality(Granted) > 0
    BY <2>1, ProducerSets, Zenon
  <2>3. Maximum # 0 => Len(buffer) < Maximum
    BY <2>2, AcceptedTypes, MaximumAssumption DEF IInv, WithinCapacity
  <2> QED
    BY <1>2, <2>3, PushAccepts DEF SendGranted
<1>3. ASSUME NEW p \in Producers,
             Reserve(p) \/ Block(p) \/ Fail(p) \/ Cancel(p)
      PROVE  UNCHANGED Fifo!channelVars
  BY <1>3 DEF Reserve, Block, Fail, Cancel, IsOpen
<1>4. CASE Pop
  <2>1. /\ delivered \in Seq(Message) /\ buffer \in Seq(Message) /\ buffer # <<>>
        /\ accepted = delivered \o buffer
    BY <1>4 DEF Pop, IInv, Typing, BufferIsSuffix, IsOpen
  <2>2. /\ Len(delivered) \in Nat /\ Len(buffer) \in Nat /\ Len(buffer) > 0
        /\ Len(accepted) = Len(delivered) + Len(buffer)
        /\ Head(buffer) = buffer[1]
    BY <2>1, ConcatProperties, LenProperties, EmptySeq
  <2>3. accepted[Len(delivered) + 1] = Head(buffer)
    <3>1. \A i \in 1..(Len(delivered) + Len(buffer)) :
            accepted[i] = IF i <= Len(delivered) THEN delivered[i] ELSE buffer[i - Len(delivered)]
      BY <2>1, ConcatProperties
    <3> QED
      BY <2>2, <3>1
  <2>4. Fifo!Deliver
    BY <1>4, <2>2, <2>3 DEF Pop, Fifo!Deliver, IsOpen
  <2> QED
    BY <2>4 DEF Fifo!Next
<1>5. CASE Decrement
  BY <1>5 DEF Decrement, IsOpen
<1>6. CASE DropReceiver
  BY <1>6 DEF DropReceiver, IsOpen, Fifo!Next, Fifo!Close
<1>7. CASE UNCHANGED vars
  BY <1>7 DEF vars, IsOpen
<1>8. CASE Quiescent
  BY <1>7, <1>8 DEF Quiescent
<1> QED
  BY <1>1, <1>2, <1>3, <1>4, <1>5, <1>6, <1>7, <1>8 DEF Next

\* The counted queue implements the FIFO channel: no message is delivered
\* twice, out of order, or after its send failed or was cancelled, and a
\* bounded queue holds at most Maximum messages.
THEOREM Refinement == Spec => ImplementsFifo
<1>1. Init => Fifo!Init
  BY DEF Init, Fifo!Init, IsOpen
<1>2. IInv /\ [Next]_vars => [Fifo!Next]_(Fifo!channelVars)
  BY StepRefines
<1> QED
  BY <1>1, <1>2, Invariance, PTL DEF Spec, ImplementsFifo, Fifo!Spec
=============================================================================
