------------------------ MODULE TranscriptWorkerProofs ------------------------
(***************************************************************************)
(* Safety of the transcript worker for every vocabulary, every classifier  *)
(* and every limit: its type invariant, that every question shown becomes  *)
(* one request, and that a question is of one turn of speech.              *)
(*                                                                         *)
(* What a question will be made of is pending in the assembler for a long  *)
(* time; the invariant says of the pending words what the properties say   *)
(* of a question.                                                          *)
(***************************************************************************)
EXTENDS TranscriptWorker, TLAPS, SequenceTheorems, WellFoundedInduction

-----------------------------------------------------------------------------
(* The inductive invariant *)

Increasing(words) == \A i, j \in 1..Len(words) : i < j => words[i] < words[j]

\* The pending words of an assembler, the final ones up to last.
InOrder(w, last) ==
  /\ w.sent = <<>>
  /\ Increasing(w.finals) /\ Increasing(w.interim)
  /\ \A i \in 1..Len(w.finals) : w.finals[i] <= last
  /\ \A i \in 1..Len(w.interim) : last < w.interim[i]

Pending(w) == ToSet(w.finals) \cup ToSet(w.interim)

\* The last final word before event i of the channel, or behind the last event.
From(i) == IF i \in 1..Len(events) THEN events[i].from ELSE finalised

\* The last final word after an event.
After(e) == IF e.isFinal THEN e.to ELSE e.from

Sane(e) == IF e.kind = "Transcript" THEN e.to \in Word /\ e.from < e.to ELSE ~e.isFinal

\* The events in the channel follow one another, and the recogniser them.
EventsFollow == \A i \in 1..Len(events) : Sane(events[i]) /\ From(i + 1) = After(events[i])

\* What is pending was taken since the last pause or change of mode, before what waits
\* in the channel, and the end of its last timed word is known; while paused nothing is.
PendingIsOneTurn ==
  /\ InOrder(window, From(1))
  /\ \A v \in Pending(window) : v \in taken /\ (v \in Timed => v <= pendingEnd)
  /\ paused => Pending(window) = {}

IInv ==
  /\ TypeOK
  /\ QuestionsBecomeRequests
  /\ QuestionIsOneTurn
  /\ EventsFollow
  /\ PendingIsOneTurn

-----------------------------------------------------------------------------
(* Lemmas about numbers and sequences *)

\* A bounded set of numbers has a greatest one.
LEMMA NatHasMax ==
  ASSUME NEW S, S \subseteq Nat, S # {}, NEW n \in Nat, \A x \in S : x <= n
  PROVE  Max(S) \in S /\ \A y \in S : y <= Max(S)
<1> DEFINE Bounds == {u \in Nat : \A x \in S : x <= u}
           Less == OpToRel(<, Nat)
<1>1. IsWellFoundedOn(Less, Nat)
  BY NatLessThanWellFounded
<1>2. \A x, y \in Nat : x < y => <<x, y>> \in Less
  BY DEF OpToRel
<1> HIDE DEF Less
<1>3. Bounds \subseteq Nat /\ n \in Bounds
  OBVIOUS
<1>4. PICK u \in Bounds : \A v \in Bounds : ~(<<v, u>> \in Less)
  <2> HIDE DEF Bounds
  <2> QED
    BY <1>1, <1>3, WFMin
<1>5. u \in Nat /\ \A x \in S : x <= u
  OBVIOUS
<1>6. u \in S
  <2>1. CASE u = 0
    <3>1. PICK x \in S : TRUE
      OBVIOUS
    <3>2. x \in Nat /\ x <= 0
      BY <1>5, <2>1
    <3>3. x = u
      BY <2>1, <3>2
    <3> QED
      BY <3>3
  <2>2. CASE u # 0
    <3>1. u - 1 \in Nat /\ u - 1 < u
      BY <1>5, <2>2
    <3>2. u - 1 \notin Bounds
      BY <1>2, <1>4, <1>5, <3>1
    <3>3. PICK x \in S : ~(x <= u - 1)
      BY <3>1, <3>2
    <3>4. x = u
      BY <1>5, <3>1, <3>3
    <3> QED
      BY <3>4
  <2> QED
    BY <2>1, <2>2
<1>7. \E x \in S : \A y \in S : x >= y
  BY <1>5, <1>6
<1> QED
  BY <1>7 DEF Max

LEMMA WordsAreNumbers == Word \subseteq Nat \ {0}
<1>1. Word = 1..Len(WordClass) /\ Len(WordClass) \in Nat
  BY WordClassAssumption, LenProperties DEF Word
<1> QED
  BY <1>1

LEMMA NoText ==
  /\ <<>> \in Text /\ Len(<<>>) = 0 /\ ToSet(<<>>) = {} /\ Increasing(<<>>)
  /\ \A text : text = <<>> => \A i \in 1..Len(text) : FALSE
<1>1. <<>> \in Text /\ Len(<<>>) = 0
  BY EmptySeq DEF Text
<1>2. ToSet(<<>>) = {}
  BY DEF ToSet
<1> QED
  BY <1>1, <1>2 DEF Increasing

LEMMA TextIs ==
  ASSUME NEW text \in Text
  PROVE  /\ Len(text) \in Nat
         /\ \A i \in 1..Len(text) : text[i] \in Word /\ text[i] \in ToSet(text)
         /\ \A v \in ToSet(text) : \E i \in 1..Len(text) : text[i] = v
         /\ ToSet(text) \subseteq Word
<1>1. Len(text) \in Nat /\ DOMAIN text = 1..Len(text)
  BY LenProperties DEF Text
<1>2. \A i \in 1..Len(text) : text[i] \in Word
  BY ElementOfSeq DEF Text
<1> QED
  BY <1>1, <1>2 DEF ToSet

LEMMA JoinedIs ==
  ASSUME NEW one \in Text, NEW other \in Text, NEW both, both = one \o other
  PROVE  /\ both \in Text /\ Len(both) = Len(one) + Len(other)
         /\ \A i \in 1..Len(one) : both[i] = one[i]
         /\ \A i \in 1..Len(other) : both[Len(one) + i] = other[i]
         /\ ToSet(both) = ToSet(one) \cup ToSet(other)
         /\ \A i \in 1..Len(both) :
              \/ i \in 1..Len(one) /\ both[i] = one[i]
              \/ i - Len(one) \in 1..Len(other) /\ both[i] = other[i - Len(one)]
<1> DEFINE n == Len(one)
           m == Len(other)
<1>1. n \in Nat /\ m \in Nat
  BY TextIs
<1>2. /\ both \in Text /\ Len(both) = n + m
      /\ \A i \in 1..(n + m) : both[i] = IF i <= n THEN one[i] ELSE other[i - n]
  BY ConcatProperties DEF Text
<1> HIDE DEF n, m
<1>3. \A i \in 1..n : i \in 1..(n + m) /\ both[i] = one[i]
  BY <1>1, <1>2
<1>4. \A i \in 1..m : n + i \in 1..(n + m) /\ ~(n + i <= n) /\ (n + i) - n = i
  BY <1>1
<1>5. \A i \in 1..m : both[n + i] = other[i]
  BY <1>2, <1>4
<1>6. \A i \in 1..(n + m) :
        \/ i \in 1..n /\ both[i] = one[i]
        \/ i - n \in 1..m /\ both[i] = other[i - n]
  BY <1>1, <1>2
<1>7. ToSet(both) = ToSet(one) \cup ToSet(other)
  <2>1. DOMAIN both = 1..(n + m) /\ DOMAIN one = 1..n /\ DOMAIN other = 1..m
    BY <1>2, LenProperties DEF Text, n, m
  <2>2. ASSUME NEW v \in ToSet(both)
        PROVE  v \in ToSet(one) \cup ToSet(other)
    BY <1>6, <2>1 DEF ToSet
  <2>3. ASSUME NEW v \in ToSet(one)
        PROVE  v \in ToSet(both)
    BY <1>3, <2>1 DEF ToSet
  <2>4. ASSUME NEW v \in ToSet(other)
        PROVE  v \in ToSet(both)
    BY <1>4, <1>5, <2>1 DEF ToSet
  <2> QED
    BY <2>2, <2>3, <2>4
<1> QED
  BY <1>2, <1>3, <1>5, <1>6, <1>7 DEF n, m

\* A text that continues another one is increasing with it.
LEMMA JoinedIncreases ==
  ASSUME NEW one \in Text, NEW other \in Text, Increasing(one), Increasing(other), NEW last \in Nat,
         \A i \in 1..Len(one) : one[i] <= last, \A i \in 1..Len(other) : last < other[i]
  PROVE  Increasing(one \o other)
<1>1. PICK both : both = one \o other
  OBVIOUS
<1>2. /\ Len(one) \in Nat /\ Len(other) \in Nat /\ Len(both) = Len(one) + Len(other)
      /\ \A i \in 1..Len(both) :
           \/ i \in 1..Len(one) /\ both[i] = one[i]
           \/ i - Len(one) \in 1..Len(other) /\ both[i] = other[i - Len(one)]
  BY <1>1, JoinedIs, TextIs
<1>3. /\ \A i \in 1..Len(one) : one[i] \in Nat
      /\ \A i \in 1..Len(other) : other[i] \in Nat
  BY TextIs, WordsAreNumbers
<1>4. ASSUME NEW i \in 1..Len(both), NEW j \in 1..Len(both), i < j
      PROVE  both[i] < both[j]
  <2>1. CASE i \in 1..Len(one) /\ both[i] = one[i]
    <3>1. CASE j \in 1..Len(one) /\ both[j] = one[j]
      BY <1>4, <2>1, <3>1 DEF Increasing
    <3>2. CASE j - Len(one) \in 1..Len(other) /\ both[j] = other[j - Len(one)]
      BY <1>3, <2>1, <3>2
    <3> QED
      BY <1>2, <3>1, <3>2
  <2>2. CASE i - Len(one) \in 1..Len(other) /\ both[i] = other[i - Len(one)]
    <3>1. j - Len(one) \in 1..Len(other) /\ both[j] = other[j - Len(one)]
      BY <1>2, <1>4, <2>2
    <3>2. i - Len(one) < j - Len(one)
      BY <1>2, <1>4
    <3> QED
      BY <2>2, <3>1, <3>2 DEF Increasing
  <2> QED
    BY <1>2, <2>1, <2>2
<1> QED
  BY <1>1, <1>4 DEF Increasing

-----------------------------------------------------------------------------
(* Lemmas about the assembler *)

LEMMA PreviewIs ==
  ASSUME NEW w \in Window, w.sent = <<>>
  PROVE  /\ Preview(w) = w.finals \o w.interim
         /\ w.finals \in Text /\ w.interim \in Text /\ w.sequence \in Nat
         /\ Preview(w) \in Text /\ ToSet(Preview(w)) = Pending(w)
<1>1. w.finals \in Text /\ w.interim \in Text /\ w.sequence \in Nat
  BY DEF Window
<1>2. Preview(w) = w.finals \o w.interim
  BY DEF Preview, NovelText
<1>3. PICK one \in Text, other \in Text : one = w.finals /\ other = w.interim
  BY <1>1
<1>4. PICK both : both = one \o other
  OBVIOUS
<1>5. both \in Text /\ ToSet(both) = ToSet(one) \cup ToSet(other)
  BY <1>4, JoinedIs
<1> QED
  BY <1>1, <1>2, <1>3, <1>4, <1>5 DEF Pending

LEMMA PreviewInOrder ==
  ASSUME NEW w \in Window, NEW last \in Nat, InOrder(w, last)
  PROVE  Increasing(Preview(w))
<1>1. Preview(w) = w.finals \o w.interim /\ w.finals \in Text /\ w.interim \in Text
  BY PreviewIs DEF InOrder
<1> QED
  BY <1>1, JoinedIncreases DEF InOrder

LEMMA DiscardIs ==
  ASSUME NEW w \in Window, NEW last, NEW u, u = DiscardPending(w)
  PROVE  /\ u \in Window /\ u.sequence = w.sequence
         /\ InOrder(u, last) /\ Pending(u) = {}
<1>1. u = [w EXCEPT !.finals = <<>>, !.interim = <<>>, !.sent = <<>>]
  BY DEF DiscardPending
<1>2. /\ u.finals = <<>> /\ u.interim = <<>> /\ u.sent = <<>> /\ u.sequence = w.sequence
      /\ u \in Window
  BY <1>1, NoText DEF Window
<1> QED
  BY <1>2, NoText DEF InOrder, Pending

\* finish() leaves nothing pending and counts the questions.
LEMMA FinishIs ==
  ASSUME NEW w \in Window, NEW last, NEW u, u = Finish(w)
  PROVE  /\ u \in Window /\ InOrder(u, last) /\ Pending(u) = {}
         /\ u.sequence = IF IsLongEnough(Preview(w)) THEN w.sequence + 1 ELSE w.sequence
<1>1. PICK left \in Window : left = DiscardPending(w)
  BY DiscardIs
<1>2. left.sequence = w.sequence /\ InOrder(left, last) /\ Pending(left) = {}
  BY <1>1, DiscardIs
<1>3. u = IF IsLongEnough(Preview(w)) THEN [left EXCEPT !.sequence = @ + 1] ELSE left
  BY <1>1 DEF Finish
<1>4. CASE IsLongEnough(Preview(w))
  <2>1. /\ u \in Window /\ u.sequence = w.sequence + 1 /\ u.finals = left.finals
        /\ u.interim = left.interim /\ u.sent = left.sent
    BY <1>2, <1>3, <1>4 DEF Window
  <2> QED
    BY <1>2, <1>4, <2>1 DEF InOrder, Pending
<1>5. CASE ~IsLongEnough(Preview(w))
  BY <1>2, <1>3, <1>5
<1> QED
  BY <1>4, <1>5

SpokenIn(text, last, b) == \A i \in 1..Len(text) : last < text[i] /\ text[i] <= b

\* u is what an assembler w becomes when text follows what it holds.
Pushed(u, w, text, last) ==
  /\ u \in Window /\ u.sequence = w.sequence /\ InOrder(u, last)
  /\ Pending(u) \subseteq ToSet(w.finals) \cup ToSet(text)

\* A final transcript replaces the interim one it makes final.
LEMMA PushFinalIs ==
  ASSUME NEW w \in Window, NEW last \in Nat, InOrder(w, last), NEW text \in Text, Increasing(text),
         NEW b \in Nat, SpokenIn(text, last, b), last < b,
         NEW u, u = PushTranscript(w, text, TRUE)
  PROVE  Pushed(u, w, text, b)
<1>1. u = [w EXCEPT !.finals = @ \o text, !.interim = <<>>, !.sent = <<>>]
  BY DEF PushTranscript, NovelText, InOrder
<1>2. w.finals \in Text
  BY DEF Window
<1>3. PICK both \in Text : both = w.finals \o text
  BY <1>2, JoinedIs
<1>4. /\ u.finals = both /\ u.interim = <<>> /\ u.sent = <<>> /\ u.sequence = w.sequence
      /\ u \in Window
  BY <1>1, <1>3, NoText DEF Window
<1>5. Increasing(both)
  BY <1>2, <1>3, JoinedIncreases DEF InOrder, SpokenIn
<1>6. \A i \in 1..Len(both) : both[i] <= b
  <2>1. \A i \in 1..Len(both) :
          \/ i \in 1..Len(w.finals) /\ both[i] = w.finals[i]
          \/ i - Len(w.finals) \in 1..Len(text) /\ both[i] = text[i - Len(w.finals)]
    BY <1>2, <1>3, JoinedIs
  <2>2. \A i \in 1..Len(w.finals) : w.finals[i] <= b
    <3>1. \A i \in 1..Len(w.finals) : w.finals[i] \in Nat /\ w.finals[i] <= last
      BY <1>2, TextIs, WordsAreNumbers DEF InOrder
    <3> QED
      BY <3>1
  <2> QED
    BY <2>1, <2>2 DEF SpokenIn
<1>7. ToSet(both) = ToSet(w.finals) \cup ToSet(text)
  BY <1>2, <1>3, JoinedIs
<1>8. InOrder(u, b)
  <2>1. Increasing(u.interim)
    BY <1>4, NoText, Zenon
  <2>2. Increasing(u.finals)
    BY <1>4, <1>5, Zenon
  <2>3. \A i \in 1..Len(u.finals) : u.finals[i] <= b
    BY <1>4, <1>6, Zenon
  <2>5. \A i \in 1..Len(u.interim) : b < u.interim[i]
    BY <1>4, NoText, Zenon
  <2> QED
    BY <1>4, <2>1, <2>2, <2>3, <2>5 DEF InOrder
<1>9. Pending(u) \subseteq ToSet(w.finals) \cup ToSet(text)
  BY <1>4, <1>7, NoText DEF Pending
<1> QED
  BY <1>4, <1>8, <1>9 DEF Pushed

LEMMA PushInterimIs ==
  ASSUME NEW w \in Window, NEW last \in Nat, InOrder(w, last), NEW text \in Text, Increasing(text),
         NEW b \in Nat, SpokenIn(text, last, b),
         NEW u, u = PushTranscript(w, text, FALSE)
  PROVE  Pushed(u, w, text, last)
<1>1. u = [w EXCEPT !.interim = text]
  BY DEF PushTranscript
<1>2. /\ u.finals = w.finals /\ u.interim = text /\ u.sent = w.sent /\ u.sequence = w.sequence
      /\ u \in Window
  BY <1>1 DEF Window
<1> QED
  BY <1>2 DEF InOrder, Pending, Pushed, SpokenIn

-----------------------------------------------------------------------------
(* Lemmas about what is heard *)

\* The words of a transcript follow those of the last final one.
LEMMA SegmentIs ==
  ASSUME NEW e \in Event, e.to \in Word, e.from < e.to, NEW text, text = Segment(e)
  PROVE  /\ text \in Text /\ Increasing(text) /\ e.from \in Nat /\ e.to \in Nat
         /\ SpokenIn(text, e.from, e.to)
<1>1. PICK a \in Nat, b \in Word : a = e.from /\ b = e.to
  BY DEF Event
<1> DEFINE n == b - a
<1>2. b \in Nat /\ n \in Nat /\ a < b
  BY <1>1, WordsAreNumbers
<1>3. text = [i \in 1..n |-> a + i]
  BY <1>1 DEF Segment
<1>4. \A i \in 1..n : a + i \in Word
  <2>1. Word = 1..Len(WordClass) /\ Len(WordClass) \in Nat
    BY WordClassAssumption, LenProperties DEF Word
  <2>2. b \in 1..Len(WordClass)
    BY <2>1
  <2>3. \A i \in 1..n : a + i \in 1..Len(WordClass)
    BY <1>2, <2>1, <2>2
  <2> QED
    BY <2>1, <2>3
<1>5. text \in Text /\ Len(text) = n
  <2>1. text \in [1..n -> Word]
    BY <1>3, <1>4
  <2>2. text \in Seq(Word)
    BY <1>2, <2>1, SeqDef
  <2>3. Len(text) \in Nat /\ DOMAIN text = 1..Len(text)
    BY <2>2, LenProperties
  <2>4. DOMAIN text = 1..n
    BY <2>1
  <2>5. n \in Nat
    BY <1>2
  <2> HIDE DEF n
  <2>6. PICK m \in Nat : m = Len(text) /\ 1..m = 1..n
    BY <2>3, <2>4
  <2>7. m = n
    BY <2>5, <2>6
  <2> QED
    BY <2>2, <2>6, <2>7 DEF Text
<1>6. \A i \in 1..n : text[i] = a + i
  BY <1>3
<1>7. \A i \in 1..n : a < a + i /\ a + i <= b
  BY <1>2
<1>8. Increasing(text)
  <2>1. \A i, j \in 1..n : i < j => a + i < a + j
    BY <1>2
  <2> QED
    BY <1>5, <1>6, <2>1 DEF Increasing
<1> QED
  BY <1>1, <1>2, <1>5, <1>6, <1>7, <1>8 DEF SpokenIn

\* The first event of the channel is taken.
LEMMA TakenIs ==
  ASSUME IInv, events # <<>>, events' = Tail(events), finalised' = finalised,
         NEW e, e = Head(events)
  PROVE  /\ e \in Event /\ Sane(e) /\ From(1) = e.from /\ From(1)' = After(e)
         /\ EventsFollow' /\ events' \in Seq(Event)
<1>1. PICK queue \in Seq(Event) : queue = events
  BY DEF IInv, TypeOK
<1>2. PICK n \in Nat : n = Len(queue) /\ n >= 1
  <2>1. Len(queue) \in Nat /\ Len(queue) # 0
    BY <1>1, LenProperties, EmptySeq
  <2> QED
    BY <2>1
<1>3. /\ e \in Event /\ e = queue[1] /\ events' \in Seq(Event) /\ Len(events') = n - 1
      /\ \A i \in 1..(n - 1) : events'[i] = queue[i + 1]
  BY <1>1, <1>2, HeadTailProperties
<1>4. 1 \in 1..n
  BY <1>2
<1>5. \A i \in 1..n : Sane(queue[i]) /\ From(i + 1) = After(queue[i])
  BY <1>1, <1>2 DEF IInv, EventsFollow
<1>6. From(1) = e.from /\ From(1 + 1) = After(e) /\ Sane(e)
  BY <1>1, <1>2, <1>3, <1>4, <1>5 DEF From
<1>7. ASSUME NEW i \in 1..n
      PROVE  From(i)' = From(i + 1)
  <2>1. CASE i \in 1..(n - 1)
    <3>1. i + 1 \in 1..n
      BY <1>2, <2>1
    <3> QED
      BY <1>1, <1>2, <1>3, <2>1, <3>1 DEF From
  <2>2. CASE i \notin 1..(n - 1)
    <3>1. i + 1 \notin 1..n
      BY <1>2, <2>2
    <3> QED
      BY <1>1, <1>2, <1>3, <2>2, <3>1 DEF From
  <2> QED
    BY <2>1, <2>2
<1>8. From(1)' = After(e)
  BY <1>4, <1>6, <1>7
<1>9. ASSUME NEW i \in 1..(n - 1)
      PROVE  Sane(events'[i]) /\ From(i + 1)' = After(events'[i])
  <2>1. i + 1 \in 1..n /\ events'[i] = queue[i + 1]
    BY <1>2, <1>3
  <2>2. From(i + 1)' = From((i + 1) + 1)
    BY <1>7, <2>1
  <2> QED
    BY <1>5, <2>1, <2>2
<1>10. EventsFollow'
  BY <1>3, <1>9 DEF EventsFollow
<1> QED
  BY <1>3, <1>6, <1>8, <1>10

\* An event that follows the others is sent.
LEMMA SentIs ==
  ASSUME IInv, NEW e \in Event, Sane(e), e.from = finalised, finalised' = After(e),
         events' = Append(events, e)
  PROVE  From(1)' = From(1) /\ EventsFollow' /\ events' \in Seq(Event)
<1>1. PICK queue \in Seq(Event) : queue = events
  BY DEF IInv, TypeOK
<1>2. PICK n \in Nat : n = Len(queue)
  BY LenProperties
<1>3. /\ events' \in Seq(Event) /\ Len(events') = n + 1 /\ events'[n + 1] = e
      /\ \A i \in 1..n : events'[i] = queue[i]
  BY <1>1, <1>2, AppendProperties
<1>4. \A i \in 1..n : Sane(queue[i]) /\ From(i + 1) = After(queue[i])
  BY <1>1, <1>2 DEF IInv, EventsFollow
<1>5. ASSUME NEW i \in 1..(n + 1)
      PROVE  From(i)' = From(i)
  <2>1. CASE i \in 1..n
    <3>1. i \in 1..(n + 1)
      OBVIOUS
    <3> QED
      BY <1>1, <1>2, <1>3, <2>1, <3>1 DEF From
  <2>2. CASE i = n + 1
    <3>1. i \notin 1..n
      BY <2>2
    <3> QED
      BY <1>1, <1>2, <1>3, <2>2, <3>1 DEF From
  <2> QED
    BY <2>1, <2>2
<1>6. From((n + 1) + 1)' = After(e)
  <2>1. (n + 1) + 1 \notin 1..(n + 1)
    OBVIOUS
  <2> QED
    BY <1>3, <2>1 DEF From
<1>7. ASSUME NEW i \in 1..(n + 1)
      PROVE  Sane(events'[i]) /\ From(i + 1)' = After(events'[i])
  <2>1. CASE i \in 1..n
    <3>1. i + 1 \in 1..(n + 1)
      BY <2>1
    <3>2. From(i + 1)' = From(i + 1)
      BY <1>5, <3>1
    <3>3. Sane(queue[i]) /\ From(i + 1) = After(queue[i]) /\ events'[i] = queue[i]
      BY <1>3, <1>4, <2>1
    <3> QED
      BY <3>2, <3>3
  <2>2. CASE i = n + 1
    BY <1>3, <1>6, <2>2
  <2>3. i \in 1..n \/ i = n + 1
    OBVIOUS
  <2> QED
    BY <2>1, <2>2, <2>3, Zenon
<1>8. EventsFollow'
  BY <1>3, <1>7 DEF EventsFollow
<1>9. 1 \in 1..(n + 1)
  OBVIOUS
<1> QED
  BY <1>3, <1>5, <1>8, <1>9

\* Nothing is sent or taken.
LEMMA EventsStay ==
  ASSUME IInv, UNCHANGED <<events, finalised>>
  PROVE  From(1)' = From(1) /\ EventsFollow'
<1>1. \A i \in Nat : From(i)' = From(i)
  BY DEF From
<1>2. events \in Seq(Event) /\ Len(events) \in Nat
  BY LenProperties DEF IInv, TypeOK
<1>3. \A i \in 1..Len(events) : i + 1 \in Nat
  BY <1>2
<1> QED
  BY <1>1, <1>3 DEF IInv, EventsFollow

LEMMA FromIs ==
  ASSUME IInv
  PROVE  From(1) \in Nat
<1>1. \A i \in 1..Len(events) : events[i] \in Event
  BY ElementOfSeq DEF IInv, TypeOK
<1> QED
  BY <1>1 DEF From, Event, IInv, TypeOK

\* No timed word of a text is later than last_word_end_ms.
LEMMA LastWordEndIs ==
  ASSUME NEW text \in Text, Increasing(text), NEW end, end = LastWordEnd(text)
  PROVE  /\ end \in Nat /\ (end # NoTime => end \in ToSet(text))
         /\ \A v \in ToSet(text) \cap Timed : v <= end
<1> DEFINE ends == {i \in 1..Len(text) : text[i] \in Timed}
<1>1. end = IF ends = {} THEN NoTime ELSE text[Max(ends)]
  BY DEF LastWordEnd
<1>2. \A i \in 1..Len(text) : text[i] \in Word /\ text[i] \in Nat
  BY TextIs, WordsAreNumbers
<1>3. CASE ends = {}
  <2>1. \A v \in ToSet(text) : v \notin Timed
    BY <1>3, TextIs
  <2> QED
    BY <1>1, <1>3, <2>1 DEF NoTime
<1>4. CASE ends # {}
  <2>1. ends \subseteq Nat /\ Len(text) \in Nat /\ \A i \in ends : i <= Len(text)
    BY TextIs
  <2>2. PICK m : m = Max(ends)
    OBVIOUS
  <2>3. m \in ends /\ \A i \in ends : i <= m
    <3> HIDE DEF ends
    <3> QED
      BY <1>4, <2>1, <2>2, NatHasMax
  <2>4. end = text[m] /\ m \in 1..Len(text)
    BY <1>1, <1>4, <2>2, <2>3
  <2>5. ASSUME NEW v \in ToSet(text) \cap Timed
        PROVE  v <= text[m]
    <3>1. PICK i \in 1..Len(text) : text[i] = v
      BY TextIs
    <3>2. i = m \/ i < m
      BY <2>1, <2>3, <2>5, <3>1
    <3>3. text[i] = text[m] \/ text[i] < text[m]
      BY <2>4, <3>2 DEF Increasing
    <3> QED
      BY <1>2, <2>4, <3>1, <3>3
  <2> QED
    BY <1>2, <2>4, <2>5, TextIs
<1> QED
  BY <1>3, <1>4

-----------------------------------------------------------------------------
(* Flushing *)

LEMMA NoQuestionIsOneTurn ==
  ASSUME question' = NoQuestion
  PROVE  QuestionIsOneTurn' /\ question' \in Question
<1>1. /\ question'.words = <<>> /\ question'.reason = "none"
      /\ question' \in Question
  BY NoText DEF NoQuestion, Question, Reasons, NoTime
<1>2. QuestionWordsInOrder'
  BY <1>1, NoText, Zenon DEF QuestionWordsInOrder
<1>3. QuestionTakenSinceDiscard'
  BY <1>1, NoText DEF QuestionTakenSinceDiscard
<1> QED
  BY <1>1, <1>2, <1>3 DEF QuestionIsOneTurn, UtteranceEndCoversQuestion

LEMMA QuestionStays ==
  ASSUME QuestionIsOneTurn, question' = question, taken' = taken
  PROVE  QuestionIsOneTurn'
BY DEF QuestionIsOneTurn, QuestionTakenSinceDiscard, QuestionWordsInOrder,
       UtteranceEndCoversQuestion

\* What flush_transcript_utterance shows of an assembler whose words are in
\* order, taken since the last discard and, after a timed utterance end, not later.
LEMMA FlushShows ==
  ASSUME IInv, NEW w \in Window, NEW last \in Nat, InOrder(w, last),
         \A v \in Pending(w) : v \in taken',
         NEW reason \in Reasons, NEW end \in Nat,
         (reason = "utterance_end" /\ end # NoTime) => \A v \in Pending(w) \cap Timed : v <= end,
         question' = [id |-> w.sequence, mode |-> mode, words |-> Preview(w),
                      reason |-> reason, end |-> end]
  PROVE  QuestionIsOneTurn' /\ question' \in Question /\ question'.id = w.sequence
<1>1. PICK text \in Text : text = Preview(w)
  BY PreviewIs DEF InOrder
<1>2. ToSet(text) = Pending(w) /\ w.sequence \in Nat /\ Increasing(text)
  BY <1>1, PreviewIs, PreviewInOrder DEF InOrder
<1>3. question' = [id |-> w.sequence, mode |-> mode, words |-> text, reason |-> reason,
                   end |-> end]
  BY <1>1
<1>4. question' \in Question /\ question'.id = w.sequence
  <2>1. mode \in {"Voice", "LiveCoding"}
    BY DEF IInv, TypeOK
  <2> QED
    BY <1>2, <1>3, <2>1 DEF Question
<1>5. question'.words = text /\ question'.reason = reason /\ question'.end = end
  BY <1>3
<1>6. QuestionTakenSinceDiscard'
  BY <1>2, <1>5 DEF QuestionTakenSinceDiscard
<1>7. QuestionWordsInOrder'
  BY <1>2, <1>5 DEF QuestionWordsInOrder, Increasing
<1>8. UtteranceEndCoversQuestion'
  BY <1>2, <1>5 DEF UtteranceEndCoversQuestion
<1> QED
  BY <1>4, <1>6, <1>7, <1>8 DEF QuestionIsOneTurn

LEMMA FlushStep ==
  ASSUME IInv, pc = "polled", NEW w \in Window, w.sequence = window.sequence,
         NEW last \in Nat, InOrder(w, last),
         \A v \in Pending(w) : v \in taken',
         NEW reason \in Reasons, NEW end \in Nat,
         (reason = "utterance_end" /\ end # NoTime) => \A v \in Pending(w) \cap Timed : v <= end,
         NEW after \in {"select", "done"}, Flush(w, reason, end, after),
         UNCHANGED <<llm, chunks>>
  PROVE  /\ QuestionsBecomeRequests' /\ QuestionIsOneTurn' /\ PendingIsOneTurn'
         /\ pc' \in {"select", "resolving", "sending", "done"}
         /\ armed' = FALSE /\ deferred' = FALSE /\ pendingEnd' = NoTime
         /\ window' \in Window /\ question' \in Question
<1>1. PICK u : u = Finish(w)
  OBVIOUS
<1>2. /\ u \in Window /\ InOrder(u, From(1)') /\ Pending(u) = {}
      /\ u.sequence = IF IsLongEnough(Preview(w)) THEN w.sequence + 1 ELSE w.sequence
  BY <1>1, FinishIs
<1>3. window' = u /\ armed' = FALSE /\ deferred' = FALSE /\ pendingEnd' = NoTime
  BY <1>1 DEF Flush, DisarmTimer
<1>4. PendingIsOneTurn'
  BY <1>2, <1>3 DEF PendingIsOneTurn
<1>5. question = NoQuestion /\ w.sequence = chunks
  BY DEF IInv, QuestionsBecomeRequests
<1>6. /\ Len(llm') <= chunks'
      /\ \A i \in 1..Len(llm') : llm'[i] = chunks' - Len(llm') + i - 1
  BY DEF IInv, QuestionsBecomeRequests
<1>7. CASE IsLongEnough(Preview(w))
  <2>1. /\ question' = [id |-> w.sequence, mode |-> mode, words |-> Preview(w),
                         reason |-> reason, end |-> end]
        /\ pc' \in {"resolving", "sending"}
    BY <1>7 DEF Flush, AfterShow
  <2>2. QuestionIsOneTurn' /\ question' \in Question /\ question'.id = w.sequence
    BY <2>1, FlushShows
  <2>3. question'.id = chunks' /\ window'.sequence = chunks' + 1
    BY <1>2, <1>3, <1>5, <1>7, <2>2
  <2>4. QuestionsBecomeRequests'
    BY <1>6, <2>1, <2>3 DEF QuestionsBecomeRequests
  <2> QED
    BY <1>2, <1>3, <1>4, <2>1, <2>2, <2>4
<1>8. CASE ~IsLongEnough(Preview(w))
  <2>1. pc' = after /\ question' = NoQuestion
    BY <1>5, <1>8 DEF Flush
  <2>2. window'.sequence = chunks'
    BY <1>2, <1>3, <1>5, <1>8
  <2>3. QuestionsBecomeRequests'
    BY <1>6, <2>1, <2>2 DEF QuestionsBecomeRequests
  <2> QED
    BY <1>2, <1>3, <1>4, <2>1, <2>3, NoQuestionIsOneTurn
<1> QED
  BY <1>7, <1>8

-----------------------------------------------------------------------------
(* The worker's loop *)

LEMMA PendingStays ==
  ASSUME IInv, UNCHANGED <<window, taken, pendingEnd, paused>>, From(1)' = From(1)
  PROVE  PendingIsOneTurn'
BY DEF IInv, PendingIsOneTurn

\* A step that only moves the worker between its places, or that one of the
\* tasks around it takes.
LEMMA QuietStep ==
  ASSUME IInv, UNCHANGED <<paused, mode, pendingEnd, window, llm, chunks, question, taken>>,
         From(1)' = From(1), EventsFollow', TypeOK',
         pc' \in {"resolving", "sending"} => pc \in {"resolving", "sending"},
         pc' \in {"starting", "select", "polled", "done"} =>
           pc \in {"starting", "select", "polled", "done"}
  PROVE  IInv'
<1>1. PendingIsOneTurn'
  BY PendingStays
<1>2. QuestionIsOneTurn'
  BY QuestionStays DEF IInv
<1>3. QuestionsBecomeRequests'
  BY DEF IInv, QuestionsBecomeRequests
<1> QED
  BY <1>1, <1>2, <1>3 DEF IInv

LEMMA WaitingStep ==
  ASSUME IInv, \/ Start \/ StartFails \/ SendFails \/ EmitFails \/ Resolved
               \/ PollCommands \/ PollPending
  PROVE  IInv'
<1>1. /\ UNCHANGED <<paused, mode, commands, commandsOpen, events, timer, window, llm, chunks,
                     question, environment, taken>>
      /\ pc' \in {"select", "polled", "failed", "sending"}
      /\ pc' = "sending" => pc = "resolving"
      /\ pc' = "select" => pc \in {"starting", "polled"}
      /\ pc' = "polled" => pc = "select"
  BY DEF Start, StartFails, SendFails, EmitFails, Resolved, PollCommands, PollPending
<1>2. TypeOK'
  BY <1>1 DEF IInv, TypeOK, timer, environment, recogniser
<1>3. From(1)' = From(1) /\ EventsFollow'
  BY <1>1, EventsStay DEF environment, recogniser
<1> QED
  BY <1>1, <1>2, <1>3, QuietStep DEF timer

LEMMA CommandsEndStep ==
  ASSUME IInv, CommandsEnd
  PROVE  IInv'
<1>1. TypeOK'
  BY DEF IInv, TypeOK, CommandsEnd, timer, environment, recogniser
<1>2. From(1)' = From(1) /\ EventsFollow'
  BY EventsStay DEF CommandsEnd, environment, recogniser
<1> QED
  BY <1>1, <1>2, QuietStep DEF CommandsEnd, timer

LEMMA TimerDefersStep ==
  ASSUME IInv, TimerDefers
  PROVE  IInv'
<1>1. TypeOK'
  BY DEF IInv, TypeOK, TimerDefers, environment, recogniser
<1>2. From(1)' = From(1) /\ EventsFollow'
  BY EventsStay DEF TimerDefers, environment, recogniser
<1> QED
  BY <1>1, <1>2, QuietStep DEF TimerDefers, TimerRuns

LEMMA CommandIsTaken ==
  ASSUME IInv, TakesCommand
  PROVE  commands' \in Seq(Commands) /\ pc = "select"
BY HeadTailProperties DEF IInv, TypeOK, TakesCommand

\* What a pause or a change of mode throws away.
LEMMA DiscardStep ==
  ASSUME IInv, pc = "select", Discard, UNCHANGED <<pc, llm, chunks, question>>
  PROVE  /\ PendingIsOneTurn' /\ QuestionsBecomeRequests' /\ QuestionIsOneTurn'
         /\ window' \in Window /\ taken' \subseteq Word
         /\ armed' = FALSE /\ deferred' = FALSE /\ pendingEnd' = NoTime
<1>1. PICK w \in Window : w = window
  BY DEF IInv, TypeOK
<1>2. PICK u : u = DiscardPending(w)
  OBVIOUS
<1>3. u \in Window /\ u.sequence = w.sequence /\ InOrder(u, From(1)') /\ Pending(u) = {}
  BY <1>2, DiscardIs
<1>4. /\ window' = u /\ taken' = {}
      /\ armed' = FALSE /\ deferred' = FALSE /\ pendingEnd' = NoTime
  BY <1>1, <1>2 DEF Discard, DisarmTimer
<1>5. PendingIsOneTurn'
  BY <1>3, <1>4 DEF PendingIsOneTurn
<1>6. QuestionsBecomeRequests'
  BY <1>1, <1>3, <1>4 DEF IInv, QuestionsBecomeRequests
<1>7. QuestionIsOneTurn'
  BY NoQuestionIsOneTurn DEF IInv, QuestionsBecomeRequests
<1> QED
  BY <1>3, <1>4, <1>5, <1>6, <1>7

LEMMA SetPausedStep ==
  ASSUME IInv, SetPaused
  PROVE  IInv'
<1>1. /\ commands' \in Seq(Commands) /\ pc = "select"
      /\ UNCHANGED <<pc, mode, commandsOpen, events, llm, chunks, question, environment>>
  BY CommandIsTaken DEF SetPaused
<1>2. From(1)' = From(1) /\ EventsFollow'
  BY <1>1, EventsStay DEF environment, recogniser
<1>3. CASE paused' = TRUE /\ Discard
  <2>1. /\ PendingIsOneTurn' /\ QuestionsBecomeRequests' /\ QuestionIsOneTurn'
        /\ window' \in Window /\ taken' \subseteq Word
        /\ armed' = FALSE /\ deferred' = FALSE /\ pendingEnd' = NoTime
    BY <1>1, <1>3, DiscardStep
  <2>2. paused' \in BOOLEAN /\ armed' \in BOOLEAN /\ deferred' \in BOOLEAN
    BY <1>3, <2>1, Zenon
  <2>3. TypeOK'
    BY <1>1, <2>1, <2>2 DEF IInv, TypeOK, environment, recogniser, NoTime
  <2> QED
    BY <1>2, <2>1, <2>3 DEF IInv
<1>4. CASE paused' = FALSE /\ UNCHANGED <<timer, window, taken>>
  <2>1. paused' \in BOOLEAN
    BY <1>4, Zenon
  <2>2. TypeOK'
    BY <1>1, <1>4, <2>1 DEF IInv, TypeOK, environment, recogniser, timer
  <2>3. PendingIsOneTurn'
    BY <1>2, <1>4 DEF IInv, PendingIsOneTurn, timer
  <2>4. QuestionsBecomeRequests'
    BY <1>1, <1>4 DEF IInv, QuestionsBecomeRequests
  <2>5. QuestionIsOneTurn'
    BY <1>1, <1>4, QuestionStays DEF IInv
  <2> QED
    BY <1>2, <2>2, <2>3, <2>4, <2>5 DEF IInv
<1> QED
  BY <1>3, <1>4 DEF SetPaused

LEMMA SetModeStep ==
  ASSUME IInv, SetMode
  PROVE  IInv'
<1>1. /\ commands' \in Seq(Commands) /\ pc = "select" /\ Discard
      /\ mode' \in {"Voice", "LiveCoding"}
      /\ UNCHANGED <<pc, paused, commandsOpen, events, llm, chunks, question, environment>>
  BY CommandIsTaken DEF SetMode
<1>2. /\ PendingIsOneTurn' /\ QuestionsBecomeRequests' /\ QuestionIsOneTurn'
      /\ window' \in Window /\ taken' \subseteq Word
      /\ armed' = FALSE /\ deferred' = FALSE /\ pendingEnd' = NoTime
  BY <1>1, DiscardStep
<1>3. armed' \in BOOLEAN /\ deferred' \in BOOLEAN
  BY <1>2, Zenon
<1>4. TypeOK'
  BY <1>1, <1>2, <1>3 DEF IInv, TypeOK, environment, recogniser, NoTime
<1>5. EventsFollow'
  BY <1>1, EventsStay DEF environment, recogniser
<1> QED
  BY <1>2, <1>4, <1>5 DEF IInv

-----------------------------------------------------------------------------
(* Flushing what is pending *)

\* A flush of the window as it is.
LEMMA WindowFlushStep ==
  ASSUME IInv, pc = "polled", NEW reason \in Reasons, NEW end \in Nat,
         (reason = "utterance_end" /\ end # NoTime) =>
           \A v \in Pending(window) \cap Timed : v <= end,
         NEW after \in {"select", "done"}, Flush(window, reason, end, after),
         UNCHANGED <<paused, mode, commands, commandsOpen, llm, chunks, environment, taken>>,
         EventsFollow', events' \in Seq(Event)
  PROVE  IInv'
<1>1. PICK w \in Window : w = window
  BY DEF IInv, TypeOK
<1>2. PICK last \in Nat : last = From(1)
  BY FromIs
<1>3. InOrder(w, last) /\ \A v \in Pending(w) : v \in taken'
  BY <1>1, <1>2 DEF IInv, PendingIsOneTurn
<1>4. /\ QuestionsBecomeRequests' /\ QuestionIsOneTurn' /\ PendingIsOneTurn'
      /\ pc' \in {"select", "resolving", "sending", "done"}
      /\ armed' = FALSE /\ deferred' = FALSE /\ pendingEnd' = NoTime
      /\ window' \in Window /\ question' \in Question
  BY <1>1, <1>3, FlushStep
<1>5. armed' \in BOOLEAN /\ deferred' \in BOOLEAN
  BY <1>4, Zenon
<1>6. TypeOK'
  BY <1>4, <1>5 DEF IInv, TypeOK, NoTime, environment, recogniser
<1> QED
  BY <1>4, <1>6 DEF IInv

LEMMA TimerFlushesStep ==
  ASSUME IInv, TimerFlushes
  PROVE  IInv'
<1>1. "inactivity_timeout" \in Reasons /\ NoTime \in Nat
  BY DEF Reasons, NoTime
<1>2. EventsFollow' /\ events' \in Seq(Event)
  BY EventsStay DEF TimerFlushes, environment, recogniser, IInv, TypeOK
<1> QED
  BY <1>1, <1>2, WindowFlushStep DEF TimerFlushes, TimerRuns

\* An utterance end that is not stale ends no earlier than any pending word.
LEMMA UtteranceEndStep ==
  ASSUME IInv, UtteranceEnd
  PROVE  IInv'
<1>1. PICK e : e = Head(events)
  OBVIOUS
<1>2. /\ e.kind = "UtteranceEnd" /\ pc = "polled" /\ events # <<>> /\ events' = Tail(events)
      /\ UNCHANGED <<paused, mode, commands, commandsOpen, llm, chunks, environment, taken>>
      /\ \/ pc' = "select" /\ UNCHANGED <<timer, window, question>>
         \/ ~IsStale(e.end) /\ Flush(window, "utterance_end", e.end, "select")
  BY <1>1 DEF UtteranceEnd, TakesEvent
<1>3. /\ e \in Event /\ Sane(e) /\ From(1) = e.from /\ From(1)' = After(e)
      /\ EventsFollow' /\ events' \in Seq(Event)
  BY <1>1, <1>2, TakenIs DEF environment, recogniser
<1>4. CASE pc' = "select" /\ UNCHANGED <<timer, window, question>>
  <2>1. TypeOK'
    BY <1>2, <1>3, <1>4 DEF IInv, TypeOK, timer, environment, recogniser
  <2>2. From(1)' = From(1)
    BY <1>2, <1>3 DEF Sane, After
  <2> QED
    BY <1>2, <1>3, <1>4, <2>1, <2>2, QuietStep DEF timer
<1>5. CASE ~IsStale(e.end) /\ Flush(window, "utterance_end", e.end, "select")
  <2>1. PICK end \in Nat : end = e.end
    BY <1>3 DEF Event
  <2>2. "utterance_end" \in Reasons
    BY DEF Reasons
  <2>3. ASSUME end # NoTime, NEW v \in Pending(window) \cap Timed
        PROVE  v <= end
    <3>1. v \in Nat \ {0} /\ v <= pendingEnd /\ pendingEnd \in Nat
      BY WordsAreNumbers, TimedAssumption DEF IInv, TypeOK, PendingIsOneTurn
    <3>2. ~(end < pendingEnd)
      BY <1>5, <2>1, <2>3, <3>1 DEF IsStale, NoTime
    <3> QED
      BY <3>1, <3>2
  <2> QED
    BY <1>2, <1>3, <1>5, <2>1, <2>2, <2>3, WindowFlushStep
<1> QED
  BY <1>2, <1>4, <1>5

LEMMA EventsEndStep ==
  ASSUME IInv, EventsEnd
  PROVE  IInv'
<1>1. "shutdown" \in Reasons /\ NoTime \in Nat
  BY DEF Reasons, NoTime
<1>2. EventsFollow' /\ events' \in Seq(Event)
  BY EventsStay DEF EventsEnd, environment, recogniser, IInv, TypeOK
<1> QED
  BY <1>1, <1>2, WindowFlushStep DEF EventsEnd

-----------------------------------------------------------------------------
(* Transcripts *)

\* What comes while the worker is paused leaves no trace.
LEMMA IgnoreTranscriptStep ==
  ASSUME IInv, IgnoreTranscript
  PROVE  IInv'
<1>1. /\ UNCHANGED <<paused, mode, commands, commandsOpen, timer, window, llm, chunks,
                     question, environment, taken>>
      /\ paused /\ pc = "polled" /\ pc' = "select" /\ events # <<>> /\ events' = Tail(events)
  BY DEF IgnoreTranscript, TakesEvent
<1>2. EventsFollow' /\ events' \in Seq(Event)
  <2>1. PICK e : e = Head(events)
    OBVIOUS
  <2> QED
    BY <1>1, <2>1, TakenIs DEF environment, recogniser
<1>3. TypeOK'
  BY <1>1, <1>2 DEF IInv, TypeOK, timer, environment, recogniser
<1>4. PICK w \in Window : w = window
  BY DEF IInv, TypeOK
<1>5. Pending(w) = {} /\ InOrder(w, From(1))
  BY <1>1, <1>4 DEF IInv, PendingIsOneTurn
<1>6. InOrder(w, From(1)')
  <2>1. w.finals \in Text /\ w.interim \in Text
    BY DEF Window
  <2>2. PICK one \in Text, other \in Text : one = w.finals /\ other = w.interim
    BY <2>1
  <2>3. /\ \A i \in 1..Len(one) : FALSE
        /\ \A i \in 1..Len(other) : FALSE
    BY <1>5, <2>2, TextIs DEF Pending
  <2> QED
    BY <1>5, <2>2, <2>3 DEF InOrder
<1>7. PendingIsOneTurn'
  BY <1>1, <1>4, <1>5, <1>6 DEF PendingIsOneTurn
<1>8. QuestionsBecomeRequests'
  BY <1>1 DEF IInv, QuestionsBecomeRequests
<1>9. QuestionIsOneTurn'
  BY <1>1, QuestionStays DEF IInv
<1> QED
  BY <1>2, <1>3, <1>7, <1>8, <1>9 DEF IInv

\* What the assembler holds after a transcript: its words are in order, those of
\* older finals and those of the transcript.
LEMMA HeardIs ==
  ASSUME IInv, NEW e \in Event, Sane(e), e.kind = "Transcript", From(1) = e.from,
         NEW text, text = Segment(e), NEW u, u = PushTranscript(window, text, e.isFinal)
  PROVE  /\ u \in Window /\ u.sequence = window.sequence /\ InOrder(u, After(e))
         /\ After(e) \in Nat
         /\ Pending(u) \subseteq ToSet(window.finals) \cup ToSet(text)
         /\ text \in Text /\ Increasing(text) /\ SpokenIn(text, From(1), e.to)
<1>1. PICK w \in Window : w = window
  BY DEF IInv, TypeOK
<1>2. e.to \in Word /\ e.from < e.to
  BY DEF Sane
<1>3. PICK last \in Nat, b \in Nat : last = e.from /\ b = e.to
  BY <1>2, WordsAreNumbers DEF Event
<1>4. InOrder(w, last)
  BY <1>1, <1>3 DEF IInv, PendingIsOneTurn
<1>5. text \in Text /\ Increasing(text) /\ SpokenIn(text, last, b)
  BY <1>2, <1>3, SegmentIs
<1>6. CASE e.isFinal = TRUE
  <2>1. After(e) = b /\ u = PushTranscript(w, text, TRUE) /\ last < b
    BY <1>1, <1>2, <1>3, <1>6 DEF After
  <2>2. Pushed(u, w, text, b)
    BY <1>4, <1>5, <2>1, PushFinalIs
  <2> QED
    BY <1>1, <1>3, <1>5, <2>1, <2>2, Zenon DEF Pushed
<1>7. CASE e.isFinal = FALSE
  <2>1. After(e) = last /\ u = PushTranscript(w, text, FALSE)
    BY <1>1, <1>3, <1>7 DEF After
  <2>2. Pushed(u, w, text, last)
    BY <1>4, <1>5, <2>1, PushInterimIs
  <2> QED
    BY <1>1, <1>3, <1>5, <2>1, <2>2, Zenon DEF Pushed
<1>8. e.isFinal \in BOOLEAN
  BY Zenon DEF Event
<1> QED
  BY <1>6, <1>7, <1>8

\* The end kept for the pending words covers the words just heard and the
\* final ones before them.
LEMMA EndIsKnown ==
  ASSUME IInv, NEW text \in Text, Increasing(text), NEW b, SpokenIn(text, From(1), b),
         pendingEnd' = IF LastWordEnd(text) = NoTime THEN pendingEnd ELSE LastWordEnd(text)
  PROVE  /\ pendingEnd' \in Nat
         /\ \A v \in (ToSet(window.finals) \cup ToSet(text)) \cap Timed : v <= pendingEnd'
<1>0. PICK last \in Nat : last = From(1)
  BY FromIs
<1>1. PICK end : end = LastWordEnd(text)
  OBVIOUS
<1>2. /\ end \in Nat /\ (end # NoTime => end \in ToSet(text))
      /\ \A v \in ToSet(text) \cap Timed : v <= end
  BY <1>1, LastWordEndIs
<1>3. PICK w \in Window : w = window
  BY DEF IInv, TypeOK
<1>4. PICK one \in Text : one = w.finals
  BY DEF Window
<1>5. pendingEnd \in Nat
  BY DEF IInv, TypeOK
<1>6. ASSUME NEW v \in ToSet(one)
      PROVE  v \in Nat \ {0} /\ v <= last /\ (v \in Timed => v <= pendingEnd)
  <2>1. PICK i \in 1..Len(one) : one[i] = v
    BY TextIs
  <2>2. v \in Nat \ {0}
    BY TextIs, WordsAreNumbers
  <2>3. v <= last
    BY <1>0, <1>3, <1>4, <2>1 DEF IInv, PendingIsOneTurn, InOrder
  <2>4. v \in Timed => v <= pendingEnd
    BY <1>3, <1>4 DEF IInv, PendingIsOneTurn, Pending
  <2> QED
    BY <2>2, <2>3, <2>4
<1>7. ASSUME NEW v \in ToSet(text)
      PROVE  v \in Nat \ {0} /\ last < v
  <2>1. PICK i \in 1..Len(text) : text[i] = v
    BY TextIs
  <2> QED
    BY <1>0, <2>1, TextIs, WordsAreNumbers DEF SpokenIn
<1>8. CASE end = NoTime
  <2>1. pendingEnd' = pendingEnd
    BY <1>1, <1>8
  <2>2. ASSUME NEW v \in ToSet(text) \cap Timed
        PROVE  FALSE
    BY <1>2, <1>7, <1>8 DEF NoTime
  <2> QED
    BY <1>3, <1>4, <1>5, <1>6, <2>1, <2>2
<1>9. CASE end # NoTime
  <2>1. pendingEnd' = end /\ last < end
    BY <1>1, <1>2, <1>7, <1>9
  <2>2. ASSUME NEW v \in ToSet(one)
        PROVE  v <= end
    BY <1>2, <1>6, <2>1
  <2> QED
    BY <1>2, <1>3, <1>4, <2>1, <2>2
<1> QED
  BY <1>8, <1>9

LEMMA TranscriptStep ==
  ASSUME IInv, Transcript
  PROVE  IInv'
<1>0. PICK e : e = Head(events)
  OBVIOUS
<1>1. PICK text : text = Segment(e)
  OBVIOUS
<1>2. PICK u : u = PushTranscript(window, text, e.isFinal)
  OBVIOUS
<1>3. /\ pc = "polled" /\ events # <<>> /\ e.kind = "Transcript" /\ events' = Tail(events)
      /\ ~paused /\ taken' = taken \cup ToSet(text)
      /\ UNCHANGED <<paused, mode, commands, commandsOpen, llm, chunks, environment>>
  BY <1>0, <1>1, <1>2 DEF Transcript, TakesEvent
<1>4. \/ Flush(u, "speech_final", NoTime, "select")
      \/ Hear(u, text) /\ pc' = "select" /\ question' = question
  BY <1>0, <1>1, <1>2 DEF Transcript
<1>5. /\ e \in Event /\ Sane(e) /\ From(1) = e.from /\ From(1)' = After(e)
      /\ EventsFollow' /\ events' \in Seq(Event)
  BY <1>0, <1>3, TakenIs DEF environment, recogniser
<1>6. /\ u \in Window /\ u.sequence = window.sequence /\ InOrder(u, After(e)) /\ After(e) \in Nat
      /\ Pending(u) \subseteq ToSet(window.finals) \cup ToSet(text)
      /\ text \in Text /\ Increasing(text) /\ SpokenIn(text, From(1), e.to)
  BY <1>1, <1>2, <1>3, <1>5, HeardIs
<1>7. \A v \in Pending(u) : v \in taken'
  <2>1. \A v \in ToSet(window.finals) : v \in taken
    BY DEF IInv, PendingIsOneTurn, Pending
  <2> QED
    BY <1>3, <1>6, <2>1
<1>8. taken' \subseteq Word
  BY <1>3, <1>6, TextIs DEF IInv, TypeOK
<1>9. CASE Flush(u, "speech_final", NoTime, "select")
  <2>1. "speech_final" \in Reasons /\ NoTime \in Nat
    BY DEF Reasons, NoTime
  <2>2. PICK last \in Nat : last = After(e)
    BY <1>6
  <2>3. /\ QuestionsBecomeRequests' /\ QuestionIsOneTurn' /\ PendingIsOneTurn'
        /\ pc' \in {"select", "resolving", "sending", "done"}
        /\ armed' = FALSE /\ deferred' = FALSE /\ pendingEnd' = NoTime
        /\ window' \in Window /\ question' \in Question
    BY <1>3, <1>6, <1>7, <1>9, <2>1, <2>2, FlushStep
  <2>4. armed' \in BOOLEAN /\ deferred' \in BOOLEAN
    BY <2>3, Zenon
  <2>5. TypeOK'
    BY <1>3, <1>5, <1>8, <2>3, <2>4 DEF IInv, TypeOK, NoTime, environment, recogniser
  <2> QED
    BY <1>5, <2>3, <2>5 DEF IInv
<1>10. CASE Hear(u, text) /\ pc' = "select" /\ question' = question
  <2>1. /\ window' = u /\ armed' = TRUE /\ deferred' = FALSE
        /\ pendingEnd' = IF LastWordEnd(text) = NoTime THEN pendingEnd ELSE LastWordEnd(text)
    BY <1>10 DEF Hear
  <2>2. /\ pendingEnd' \in Nat
        /\ \A v \in (ToSet(window.finals) \cup ToSet(text)) \cap Timed : v <= pendingEnd'
    BY <1>6, <2>1, EndIsKnown
  <2>3. armed' \in BOOLEAN /\ deferred' \in BOOLEAN
    BY <2>1, Zenon
  <2>4. TypeOK'
    BY <1>3, <1>5, <1>6, <1>8, <1>10, <2>1, <2>2, <2>3
    DEF IInv, TypeOK, environment, recogniser
  <2>5. PendingIsOneTurn'
    BY <1>3, <1>5, <1>6, <1>7, <2>1, <2>2 DEF PendingIsOneTurn
  <2>6. QuestionsBecomeRequests'
    BY <1>3, <1>6, <1>10, <2>1 DEF IInv, QuestionsBecomeRequests
  <2>7. QuestionIsOneTurn'
    BY <1>3, <1>10, NoQuestionIsOneTurn DEF IInv, QuestionsBecomeRequests
  <2> QED
    BY <1>5, <2>4, <2>5, <2>6, <2>7 DEF IInv
<1> QED
  BY <1>4, <1>9, <1>10

-----------------------------------------------------------------------------
(* The request and the tasks around the worker *)

\* The request sent has the next id of the queue.
LEMMA SendRequestStep ==
  ASSUME IInv, SendRequest
  PROVE  IInv'
<1>1. /\ UNCHANGED <<paused, mode, commands, commandsOpen, events, timer, window, environment,
                     taken>>
      /\ pc = "sending" /\ pc' \in {"failed", "select", "done"}
      /\ llm' = Append(llm, question.id) /\ chunks' = chunks + 1 /\ question' = NoQuestion
  BY DEF SendRequest, AfterSend
<1>2. /\ question.id = chunks /\ window.sequence = chunks + 1
      /\ llm \in Seq(Nat) /\ chunks \in Nat /\ Len(llm) <= chunks
      /\ \A i \in 1..Len(llm) : llm[i] = chunks - Len(llm) + i - 1
  BY <1>1 DEF IInv, TypeOK, QuestionsBecomeRequests
<1>3. PICK n \in Nat : n = Len(llm)
  BY <1>2, LenProperties
<1>4. /\ llm' \in Seq(Nat) /\ Len(llm') = n + 1 /\ llm'[n + 1] = chunks
      /\ \A i \in 1..n : llm'[i] = llm[i]
  BY <1>1, <1>2, <1>3, AppendProperties
<1>5. ASSUME NEW i \in 1..(n + 1)
      PROVE  llm'[i] = chunks' - (n + 1) + i - 1
  <2>1. CASE i = n + 1
    BY <1>1, <1>2, <1>4, <2>1
  <2>2. CASE i \in 1..n
    <3>1. llm[i] = chunks - n + i - 1
      BY <1>2, <1>3, <2>2
    <3>2. chunks' - (n + 1) + i - 1 = chunks - n + i - 1
      BY <1>1, <1>2, <2>2
    <3> QED
      BY <1>4, <2>2, <3>1, <3>2
  <2> QED
    BY <2>1, <2>2
<1>6. QuestionsBecomeRequests'
  BY <1>1, <1>2, <1>3, <1>4, <1>5 DEF QuestionsBecomeRequests
<1>7. PendingIsOneTurn' /\ EventsFollow'
  BY <1>1, PendingStays, EventsStay DEF timer, environment, recogniser
<1>8. QuestionIsOneTurn' /\ question' \in Question
  BY <1>1, NoQuestionIsOneTurn
<1>9. chunks' \in Nat
  BY <1>1, <1>2
<1>10. TypeOK'
  BY <1>1, <1>4, <1>8, <1>9 DEF IInv, TypeOK, timer, environment, recogniser
<1> QED
  BY <1>6, <1>7, <1>8, <1>10 DEF IInv

LEMMA IssueStep ==
  ASSUME IInv, NEW c \in Commands, Issue(c)
  PROVE  IInv'
<1>1. commands' \in Seq(Commands)
  BY AppendProperties DEF IInv, TypeOK, Issue
<1>2. issued' \in Nat
  BY DEF IInv, TypeOK, Issue
<1>3. TypeOK'
  BY <1>1, <1>2 DEF IInv, TypeOK, Issue, worker, timer, recogniser
<1>4. From(1)' = From(1) /\ EventsFollow'
  BY EventsStay DEF Issue, recogniser
<1> QED
  BY <1>3, <1>4, QuietStep DEF Issue, worker, timer

LEMMA EndsStep ==
  ASSUME IInv, AppEnds \/ RecogniserEnds \/ OutputEnds
  PROVE  IInv'
<1>1. /\ UNCHANGED <<worker, commands, events, llm, finalised, reports, llmOpen, issued, taken>>
      /\ appOpen' \in {appOpen, FALSE} /\ sttOpen' \in {sttOpen, FALSE}
      /\ outputOpen' \in {outputOpen, FALSE}
  <2>1. CASE AppEnds
    BY <2>1, Zenon DEF AppEnds, recogniser
  <2>2. CASE RecogniserEnds
    BY <2>2, Zenon DEF RecogniserEnds
  <2>3. CASE OutputEnds
    BY <2>3, Zenon DEF OutputEnds, recogniser
  <2> QED
    BY <2>1, <2>2, <2>3
<1>2. appOpen' \in BOOLEAN /\ sttOpen' \in BOOLEAN /\ outputOpen' \in BOOLEAN
  BY <1>1, Zenon DEF IInv, TypeOK
<1>3. TypeOK'
  BY <1>1, <1>2 DEF IInv, TypeOK, worker, timer
<1>4. From(1)' = From(1) /\ EventsFollow'
  BY <1>1, EventsStay
<1> QED
  BY <1>1, <1>3, <1>4, QuietStep DEF worker, timer

\* An event is sent: a transcript of what follows the last final one, or an utterance
\* end.
LEMMA RecogniserStep ==
  ASSUME IInv,
         \/ \E b \in Word : \E isFinal, speechFinal \in BOOLEAN :
              Recognise(b, isFinal, speechFinal)
         \/ \E end \in {NoTime} \cup Timed : RecogniseEnd(end)
  PROVE  IInv'
<1>1. /\ UNCHANGED <<worker, commands, llm, appOpen, sttOpen, llmOpen, outputOpen, issued, taken>>
      /\ reports' = reports + 1
  BY DEF Recognise, RecogniseEnd, Sends
<1>2. PICK e \in Event : /\ Sane(e) /\ e.from = finalised /\ finalised' = After(e)
                         /\ events' = Append(events, e)
  <2>1. finalised \in Nat
    BY DEF IInv, TypeOK
  <2>2. CASE \E b \in Word : \E isFinal, speechFinal \in BOOLEAN :
               Recognise(b, isFinal, speechFinal)
    <3>1. PICK b \in Word, isFinal \in BOOLEAN, speechFinal \in BOOLEAN :
                 Recognise(b, isFinal, speechFinal)
      BY <2>2
    <3>2. b \in Nat
      BY WordsAreNumbers
    <3>3. PICK e : e = [kind |-> "Transcript", from |-> finalised, to |-> b, isFinal |-> isFinal,
                        speechFinal |-> speechFinal, end |-> NoTime]
      OBVIOUS
    <3>4. /\ e \in Event /\ e.kind = "Transcript" /\ e.to = b /\ e.from = finalised
          /\ e.isFinal = isFinal
      BY <2>1, <3>2, <3>3 DEF Event, NoTime
    <3>5. /\ b > finalised /\ events' = Append(events, e)
          /\ finalised' = IF isFinal THEN b ELSE finalised
      BY <3>1, <3>3 DEF Recognise, Sends
    <3> QED
      BY <2>1, <3>2, <3>4, <3>5 DEF Sane, After
  <2>3. CASE \E end \in {NoTime} \cup Timed : RecogniseEnd(end)
    <3>1. PICK end \in {NoTime} \cup Timed : RecogniseEnd(end)
      BY <2>3
    <3>2. end \in Nat
      BY WordsAreNumbers, TimedAssumption DEF NoTime
    <3>3. PICK e : e = [kind |-> "UtteranceEnd", from |-> finalised, to |-> finalised,
                        isFinal |-> FALSE, speechFinal |-> FALSE, end |-> end]
      OBVIOUS
    <3>4. /\ e \in Event /\ e.kind = "UtteranceEnd" /\ e.from = finalised /\ e.isFinal = FALSE
      BY <2>1, <3>2, <3>3 DEF Event
    <3>5. finalised' = finalised /\ events' = Append(events, e)
      BY <3>1, <3>3 DEF RecogniseEnd, Sends
    <3> QED
      BY <3>4, <3>5 DEF Sane, After
  <2> QED
    BY <2>2, <2>3
<1>3. From(1)' = From(1) /\ EventsFollow' /\ events' \in Seq(Event)
  BY <1>2, SentIs
<1>4. finalised' \in Nat /\ reports' \in Nat
  <2>1. e.from \in Nat /\ e.to \in Nat
    BY <1>2 DEF Event
  <2> QED
    BY <1>1, <1>2, <2>1 DEF After, IInv, TypeOK
<1>5. TypeOK'
  BY <1>1, <1>3, <1>4 DEF IInv, TypeOK, worker, timer
<1> QED
  BY <1>1, <1>3, <1>5, QuietStep DEF worker, timer

\* The LLM worker takes the oldest request, or ends and drops them all.
LEMMA LlmStep ==
  ASSUME IInv, LlmTakes \/ LlmEnds
  PROVE  IInv'
<1>1. /\ UNCHANGED <<worker, commands, events, appOpen, recogniser, outputOpen, issued, taken>>
      /\ llmOpen' = llmOpen \/ llmOpen' = FALSE
      /\ llm' = <<>> \/ (llm # <<>> /\ llm' = Tail(llm))
      /\ chunks' = chunks
  BY DEF LlmTakes, LlmEnds, environment, worker
<1>2. /\ llm \in Seq(Nat) /\ chunks \in Nat /\ Len(llm) <= chunks
      /\ \A i \in 1..Len(llm) : llm[i] = chunks - Len(llm) + i - 1
  BY DEF IInv, TypeOK, QuestionsBecomeRequests
<1>3. /\ llm' \in Seq(Nat) /\ Len(llm') <= chunks'
      /\ \A i \in 1..Len(llm') : llm'[i] = chunks' - Len(llm') + i - 1
  <2>1. CASE llm' = <<>>
    BY <1>1, <1>2, <2>1, EmptySeq
  <2>2. CASE llm # <<>> /\ llm' = Tail(llm)
    <3>1. PICK n \in Nat : n = Len(llm) /\ n > 0
      BY <1>2, <2>2, EmptySeq, LenProperties
    <3>2. /\ llm' \in Seq(Nat) /\ Len(llm') = n - 1
          /\ \A i \in 1..(n - 1) : llm'[i] = llm[i + 1]
      BY <1>2, <2>2, <3>1, HeadTailProperties
    <3>3. ASSUME NEW i \in 1..(n - 1)
          PROVE  llm'[i] = chunks - (n - 1) + i - 1
      <4>1. i + 1 \in 1..n
        BY <3>1
      <4>2. llm[i + 1] = chunks - n + (i + 1) - 1
        BY <1>2, <3>1, <4>1
      <4>3. chunks - n + (i + 1) - 1 = chunks - (n - 1) + i - 1
        BY <1>2, <3>1
      <4> QED
        BY <3>2, <4>2, <4>3
    <3> QED
      BY <1>1, <1>2, <3>1, <3>2, <3>3
  <2> QED
    BY <1>1, <2>1, <2>2
<1>4. QuestionsBecomeRequests'
  BY <1>1, <1>3 DEF IInv, QuestionsBecomeRequests, worker
<1>5. PendingIsOneTurn' /\ EventsFollow'
  BY <1>1, PendingStays, EventsStay DEF worker, timer, recogniser
<1>6. QuestionIsOneTurn'
  BY <1>1, QuestionStays DEF IInv, worker
<1>7. llmOpen' \in BOOLEAN
  BY <1>1, Zenon DEF IInv, TypeOK
<1>8. TypeOK'
  BY <1>1, <1>3, <1>7 DEF IInv, TypeOK, worker, timer, recogniser
<1> QED
  BY <1>4, <1>5, <1>6, <1>8 DEF IInv

LEMMA NothingHappens ==
  ASSUME IInv, UNCHANGED vars
  PROVE  IInv'
<1>1. TypeOK'
  BY DEF IInv, TypeOK, vars, timer, environment, recogniser
<1>2. From(1)' = From(1) /\ EventsFollow'
  BY EventsStay DEF vars, environment, recogniser
<1> QED
  BY <1>1, <1>2, QuietStep DEF vars, timer

-----------------------------------------------------------------------------
(* The specification *)

LEMMA InitIInv == Init => IInv
<1> SUFFICES ASSUME Init
             PROVE  IInv
  OBVIOUS
<1>1. /\ window \in Window /\ window.sequence = 0 /\ window.finals = <<>>
      /\ window.interim = <<>> /\ window.sent = <<>>
  BY NoText DEF Init, EmptyWindow, Window
<1>2. /\ question.words = <<>> /\ question.reason = "none" /\ question \in Question
      /\ question = NoQuestion
  BY NoText DEF Init, NoQuestion, Question, Reasons, NoTime
<1>3. QuestionIsOneTurn
  <2>1. QuestionWordsInOrder
    BY <1>2, NoText, Zenon DEF QuestionWordsInOrder
  <2>2. QuestionTakenSinceDiscard
    BY <1>2, NoText DEF QuestionTakenSinceDiscard
  <2> QED
    BY <1>2, <2>1, <2>2 DEF QuestionIsOneTurn, UtteranceEndCoversQuestion
<1>4. PendingIsOneTurn
  <2>1. PICK text : text = <<>>
    OBVIOUS
  <2>2. ToSet(text) = {} /\ Increasing(text) /\ \A i \in 1..Len(text) : FALSE
    BY <2>1, NoText
  <2>3. InOrder(window, From(1)) /\ Pending(window) = {}
    BY <1>1, <2>1, <2>2 DEF InOrder, Pending
  <2> QED
    BY <2>3 DEF PendingIsOneTurn
<1>5. QuestionsBecomeRequests
  <2>1. Len(llm) = 0 /\ chunks = 0 /\ pc = "starting"
    BY EmptySeq DEF Init
  <2> QED
    BY <1>1, <1>2, <2>1 DEF QuestionsBecomeRequests
<1>6. TypeOK
  <2>1. commands \in Seq(Commands) /\ llm \in Seq(Nat) /\ events \in Seq(Event)
    BY EmptySeq DEF Init
  <2> QED
    BY <1>1, <1>2, <2>1 DEF Init, TypeOK, NoTime
<1>7. EventsFollow
  <2>1. Len(events) = 0
    BY EmptySeq DEF Init
  <2> QED
    BY <2>1 DEF EventsFollow
<1> QED
  BY <1>3, <1>4, <1>5, <1>6, <1>7 DEF IInv

LEMMA NextIInv == IInv /\ [Next]_vars => IInv'
<1> SUFFICES ASSUME IInv, [Next]_vars
             PROVE  IInv'
  OBVIOUS
<1>1. CASE \/ Start \/ StartFails \/ SendFails \/ EmitFails \/ Resolved
           \/ PollCommands \/ PollPending
  BY <1>1, WaitingStep
<1>2. CASE SetPaused \/ SetMode \/ CommandsEnd
  BY <1>2, SetPausedStep, SetModeStep, CommandsEndStep
<1>3. CASE TimerDefers \/ TimerFlushes
  BY <1>3, TimerDefersStep, TimerFlushesStep
<1>4. CASE IgnoreTranscript \/ Transcript
  BY <1>4, IgnoreTranscriptStep, TranscriptStep
<1>5. CASE UtteranceEnd \/ EventsEnd \/ SendRequest
  BY <1>5, UtteranceEndStep, EventsEndStep, SendRequestStep
<1>6. CASE \/ \E b \in Word : \E isFinal, speechFinal \in BOOLEAN :
                Recognise(b, isFinal, speechFinal)
           \/ \E end \in {NoTime} \cup Timed : RecogniseEnd(end)
  BY <1>6, RecogniserStep
<1>7. CASE \E c \in Commands : Issue(c)
  BY <1>7, IssueStep
<1>8. CASE AppEnds \/ RecogniserEnds \/ OutputEnds \/ LlmTakes \/ LlmEnds
  BY <1>8, EndsStep, LlmStep
<1>9. CASE Stopped \/ UNCHANGED vars
  BY <1>9, NothingHappens DEF Stopped
<1> QED
  BY <1>1, <1>2, <1>3, <1>4, <1>5, <1>6, <1>7, <1>8, <1>9 DEF Next

LEMMA Invariance == Spec => []IInv
BY InitIInv, NextIInv, PTL DEF Spec

\* The locals of the loop, the assembler and the channels keep their types
\* (run of app/transcript_worker.rs), whatever is said and commanded.
THEOREM TypeCorrect == Spec => []TypeOK
<1>1. IInv => TypeOK
  BY DEF IInv
<1> QED
  BY <1>1, Invariance, PTL

\* Every question flush_transcript_utterance shows becomes one request to the
\* LLM, in the order shown and with consecutive ids, whatever the length of
\* the queue and wherever the worker stops.
THEOREM EveryQuestionIsRequested == Spec => []QuestionsBecomeRequests
<1>1. IInv => QuestionsBecomeRequests
  BY DEF IInv
<1> QED
  BY <1>1, Invariance, PTL

\* A question is of one turn of speech: only words of events taken since the last
\* pause or change of mode that was obeyed, each once and in the order spoken, and none
\* later than the utterance end that closed it (handle_deepgram_event, discard_pending).
\* Events that waited in the channel meanwhile are taken after it and count as such.
THEOREM QuestionsAreOneTurn == Spec => []QuestionIsOneTurn
<1>1. IInv => QuestionIsOneTurn
  BY DEF IInv
<1> QED
  BY <1>1, Invariance, PTL
=============================================================================
