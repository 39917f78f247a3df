--------------------------- MODULE RetrievalProofs ---------------------------
(***************************************************************************)
(* Safety of the retrieval pipeline for every set of texts and snippets:   *)
(* its type invariant, that a wait in resolve() can be answered, and that  *)
(* a context holds only what searches of its own turn found.               *)
(*                                                                         *)
(* The invariant follows the last search sent: the knowledge worker keeps  *)
(* the newest request it finds, and that is the one the pipeline knows as  *)
(* last_search_id, until reset() forgets it.                               *)
(***************************************************************************)
EXTENDS Retrieval, TLAPS, SequenceTheorems, WellFoundedInduction

-----------------------------------------------------------------------------
(* The inductive invariant *)

Completed == UNION {[ids -> Report] : ids \in SUBSET SearchId}

Pipelines ==
  [turn : Turn, nextId : 0..MaxSearches, dispatched : BOOLEAN, lastQuery : Texts \cup {None},
   lastId : SearchId \cup {None}, accumulated : [Snippets -> Kept], completed : Completed,
   failed : BOOLEAN]

\* What is kept of a snippet is of this turn, and no completed search of the
\* turn found it with a better score.
Scored(p) ==
  /\ \A s \in Snippets : p.accumulated[s].score > 0 => p.accumulated[s].turn = p.turn
  /\ \A i \in DOMAIN p.completed : \A s \in Snippets :
       p.completed[i][s] <= p.accumulated[s].score

\* The bounds of the model are not reached while there is text to search for.
InBounds ==
  /\ pipeline.turn <= utterance
  /\ pc # "listening" \/ text # None => utterance < MaxUtterances
  /\ pc = "listening" /\ text # None => pipeline.nextId < MaxSearches

Typing == TypeOK /\ pipeline \in Pipelines /\ InBounds

\* Requests queue up in the order of their ids, and the last one queued is the
\* last one the pipeline knows of; what was skipped was sent before it.
InOrder(p, queue, skipped) ==
  /\ \A i \in 1..Len(queue) : queue[i].id < p.nextId
  /\ \A i, j \in 1..Len(queue) : i < j => queue[i].id < queue[j].id
  /\ \A i \in skipped : i < p.nextId
  /\ p.lastId # None =>
       /\ p.lastId \notin skipped
       /\ queue # <<>> => queue[Len(queue)].id = p.lastId

\* The search r is the last one of the pipeline p.
IsLast(r, p) == r.id = p.lastId /\ r.query = p.lastQuery /\ r.turn = p.turn

Answers(r, p) == r.id = p.lastId /\ r.turn = p.turn

\* The last search of a turn is queued, under way, answered, taken, failed or
\* lost with its worker.
Somewhere(p, queue, underway, answers, open) ==
  p.lastId # None =>
    \/ \E i \in 1..Len(queue) : IsLast(queue[i], p)
    \/ underway # None /\ IsLast(underway, p)
    \/ \E i \in 1..Len(answers) : Answers(answers[i], p)
    \/ p.lastId \in DOMAIN p.completed
    \/ p.failed
    \/ ~open

NewestIsLast == InOrder(pipeline, requests, coalesced)

LastIsSomewhere ==
  pc # "sending" => Somewhere(pipeline, requests, search, results, workerOpen)

\* resolve() waits for the last search, which is for its text and unanswered.
WaitsForLast ==
  pc = "waiting" =>
    /\ awaited # None
    /\ pipeline.lastId = awaited
    /\ pipeline.lastQuery = text
    /\ awaited \notin DOMAIN pipeline.completed

ContextIsSent == pc # "sending" => context = NoContext

IInv ==
  /\ Typing
  /\ Scored(pipeline)
  /\ NewestIsLast
  /\ LastIsSomewhere
  /\ WaitsForLast
  /\ ContextIsSent
  /\ ContextFromThisTurn

-----------------------------------------------------------------------------
(* Induction *)

\* A set that holds 0 and with every number the next one holds them all.
LEMMA Inductive ==
  ASSUME NEW S, 0 \in S, \A n \in Nat : n \in S => n + 1 \in S
  PROVE  Nat \subseteq S
<1> DEFINE Rest == Nat \ S
           Less == OpToRel(<, Nat)
<1>1. IsWellFoundedOn(Less, Nat)
  BY NatLessThanWellFounded
<1>2. \A x, y \in Nat : x < y => <<x, y>> \in Less
  BY DEF OpToRel
<1> HIDE DEF Less
<1>3. ASSUME Rest # {}
      PROVE  FALSE
  <2>1. PICK n \in Rest : \A m \in Rest : ~(<<m, n>> \in Less)
    <3> Rest \subseteq Nat
      OBVIOUS
    <3> HIDE DEF Rest
    <3> QED
      BY <1>1, <1>3, WFMin
  <2>2. n \in Nat /\ n # 0 /\ n \notin S
    OBVIOUS
  <2>3. n - 1 \in Nat /\ n - 1 < n /\ (n - 1) + 1 = n
    BY <2>2
  <2>4. n - 1 \in S
    BY <1>2, <2>1, <2>2, <2>3
  <2>5. (n - 1) + 1 \in S
    BY <2>3, <2>4
  <2> QED
    BY <2>2, <2>3, <2>5
<1> QED
  BY <1>3

-----------------------------------------------------------------------------
(* Lemmas about the pipeline *)

\* drain_ready takes the results one after the other.
LEMMA DrainingIs ==
  ASSUME results \in Seq(SearchResult), NEW p, NEW n \in Nat, n = Len(results)
  PROVE  /\ Draining(p)[0] = p
         /\ \A k \in 1..n : Draining(p)[k] = Accept(Draining(p)[k - 1], results[k])
<1> DEFINE Starts(f, m) ==
             f = [k \in 0..m |-> IF k = 0 THEN p ELSE Accept(f[k - 1], results[k])]
           S == {m \in Nat : \E f : Starts(f, m)}
<1>1. 0 \in S
  <2>1. PICK f : f = [k \in 0..0 |-> p]
    OBVIOUS
  <2>2. Starts(f, 0)
    BY <2>1
  <2> QED
    BY <2>2
<1>2. ASSUME NEW m \in Nat, m \in S
      PROVE  m + 1 \in S
  <2>1. PICK f : Starts(f, m)
    BY <1>2
  <2>2. PICK g : g = [k \in 0..(m + 1) |-> IF k = m + 1 THEN Accept(f[m], results[m + 1])
                                                   ELSE f[k]]
    OBVIOUS
  <2>3. ASSUME NEW k \in 0..(m + 1)
        PROVE  g[k] = IF k = 0 THEN p ELSE Accept(g[k - 1], results[k])
    <3>1. CASE k = 0
      BY <2>1, <2>2, <3>1
    <3>2. CASE k # 0 /\ k # m + 1
      <4>1. k \in 0..m /\ k - 1 \in 0..(m + 1) /\ k - 1 # m + 1
        BY <3>2
      <4>2. g[k] = f[k] /\ g[k - 1] = f[k - 1]
        BY <2>2, <3>2, <4>1
      <4>3. f[k] = Accept(f[k - 1], results[k])
        BY <2>1, <3>2, <4>1
      <4> QED
        BY <3>2, <4>2, <4>3
    <3>3. CASE k = m + 1
      <4>1. k # 0 /\ k - 1 = m /\ m \in 0..(m + 1) /\ m # m + 1
        BY <3>3
      <4>2. g[k] = Accept(f[m], results[m + 1]) /\ g[m] = f[m]
        BY <2>2, <3>3, <4>1
      <4> QED
        BY <3>3, <4>1, <4>2
    <3> QED
      BY <3>1, <3>2, <3>3
  <2>4. Starts(g, m + 1)
    BY <2>2, <2>3
  <2> QED
    BY <2>4
<1>3. Nat \subseteq S
  <2> HIDE DEF S
  <2> QED
    BY <1>1, <1>2, Inductive
<1>4. PICK f : Starts(f, n)
  BY <1>3
<1>5. Starts(Draining(p), n)
  BY <1>4 DEF Draining
<1>6. PICK h : h = Draining(p)
  OBVIOUS
<1>7. h = [k \in 0..n |-> IF k = 0 THEN p ELSE Accept(h[k - 1], results[k])]
  BY <1>5, <1>6
<1>8. h[0] = p /\ \A k \in 1..n : h[k] = Accept(h[k - 1], results[k])
  BY <1>7
<1> QED
  BY <1>6, <1>8

LEMMA CompletedIs ==
  ASSUME NEW c \in Completed
  PROVE  DOMAIN c \subseteq SearchId /\ \A i \in DOMAIN c : c[i] \in Report
<1>1. PICK ids \in SUBSET SearchId : c \in [ids -> Report]
  BY DEF Completed
<1> QED
  BY <1>1

LEMMA CompletedGrows ==
  ASSUME NEW c \in Completed, NEW id \in SearchId, NEW report \in Report,
         NEW d, d = [i \in DOMAIN c \cup {id} |-> IF i = id THEN report ELSE c[i]]
  PROVE  d \in Completed
<1>1. DOMAIN c \cup {id} \in SUBSET SearchId /\ \A i \in DOMAIN c : c[i] \in Report
  BY CompletedIs
<1>2. d \in [DOMAIN c \cup {id} -> Report]
  BY <1>1
<1> QED
  BY <1>1, <1>2 DEF Completed

LEMMA ScoresAre ==
  ASSUME NEW report \in Report, NEW s \in Snippets
  PROVE  report[s] \in Score /\ report[s] \in Nat
BY DEF Report, Score

\* q is what a pipeline p can become when it takes results.
Took(p, q) ==
  /\ q \in Pipelines /\ Scored(q)
  /\ q.turn = p.turn /\ q.nextId = p.nextId /\ q.dispatched = p.dispatched
  /\ q.lastQuery = p.lastQuery /\ q.lastId = p.lastId
  /\ p.failed => q.failed
  /\ DOMAIN p.completed \subseteq DOMAIN q.completed

\* The result r was taken: its search is completed, or the turn has failed.
IsTaken(r, q) == r.turn = q.turn => r.id \in DOMAIN q.completed \/ q.failed

\* accept_result takes a result of the pipeline's turn, and only its search is
\* completed by it.
LEMMA AcceptIs ==
  ASSUME NEW p \in Pipelines, Scored(p), NEW r \in SearchResult, NEW q, q = Accept(p, r)
  PROVE  /\ Took(p, q) /\ IsTaken(r, q)
         /\ DOMAIN q.completed \subseteq DOMAIN p.completed \cup {r.id}
<1>1. CASE ~IsCurrent(p, r)
  <2>1. q = p /\ r.turn # p.turn
    BY <1>1 DEF Accept, IsCurrent
  <2> QED
    BY <2>1 DEF Took, IsTaken
<1>2. CASE IsCurrent(p, r) /\ r.report = Failure
  <2>1. q = [p EXCEPT !.failed = TRUE]
    BY <1>2 DEF Accept
  <2>2. /\ q \in Pipelines /\ q.failed = TRUE /\ q.turn = p.turn /\ q.nextId = p.nextId
        /\ q.dispatched = p.dispatched /\ q.lastQuery = p.lastQuery /\ q.lastId = p.lastId
        /\ q.accumulated = p.accumulated /\ q.completed = p.completed
    BY <2>1 DEF Pipelines
  <2>3. Scored(q)
    BY <2>2 DEF Scored
  <2> QED
    BY <2>2, <2>3 DEF Took, IsTaken
<1>3. CASE IsCurrent(p, r) /\ r.report # Failure
  <2>1. PICK report \in Report : report = r.report
    BY <1>3 DEF SearchResult
  <2>2. PICK id \in SearchId : id = r.id
    BY DEF SearchResult
  <2> DEFINE found(s) == [score |-> report[s], turn |-> r.turn, utterance |-> r.utterance,
                          query |-> r.query]
  <2>3. PICK acc : acc = [s \in Snippets |-> IF Better(p.accumulated[s], found(s)) THEN found(s)
                                                        ELSE p.accumulated[s]]
    OBVIOUS
  <2>4. PICK c \in Completed : c = p.completed
    BY DEF Pipelines
  <2>5. PICK d : d = [i \in DOMAIN c \cup {id} |-> IF i = id THEN report ELSE c[i]]
    OBVIOUS
  <2>6. q = [p EXCEPT !.accumulated = acc, !.completed = d]
    BY <1>3, <2>1, <2>2, <2>3, <2>4, <2>5 DEF Accept
  <2>7. ASSUME NEW s \in Snippets
        PROVE  /\ p.accumulated[s] \in Kept /\ found(s) \in Kept /\ acc[s] \in Kept
               /\ acc[s] = p.accumulated[s] \/ acc[s] = found(s)
               /\ report[s] <= acc[s].score /\ p.accumulated[s].score <= acc[s].score
    <3>1. p.accumulated[s] \in Kept
      BY DEF Pipelines
    <3>2. found(s) \in Kept /\ found(s).score = report[s]
      BY ScoresAre DEF SearchResult, Kept
    <3>3. acc[s] = IF Better(p.accumulated[s], found(s)) THEN found(s) ELSE p.accumulated[s]
      BY <2>3
    <3> HIDE DEF found
    <3>4. p.accumulated[s].score \in Nat /\ found(s).score \in Nat
      BY <3>1, <3>2 DEF Kept, Score
    <3> QED
      BY <3>1, <3>2, <3>3, <3>4 DEF Better
  <2>8. acc \in [Snippets -> Kept]
    BY <2>3, <2>7
  <2>9. d \in Completed
    BY <2>5, CompletedGrows
  <2>10. /\ q \in Pipelines /\ q.turn = p.turn /\ q.nextId = p.nextId /\ q.failed = p.failed
         /\ q.dispatched = p.dispatched /\ q.lastQuery = p.lastQuery /\ q.lastId = p.lastId
         /\ q.accumulated = acc /\ q.completed = d
    <3> HIDE DEF found
    <3> QED
      BY <2>6, <2>8, <2>9 DEF Pipelines
  <2>11. ASSUME NEW s \in Snippets, acc[s].score > 0
         PROVE  acc[s].turn = p.turn
    <3>1. CASE acc[s] = found(s)
      BY <1>3, <3>1 DEF IsCurrent
    <3>2. CASE acc[s] = p.accumulated[s]
      BY <2>11, <3>2 DEF Scored
    <3> QED
      BY <2>7, <3>1, <3>2
  <2>12. ASSUME NEW i \in DOMAIN d, NEW s \in Snippets
         PROVE  d[i][s] <= acc[s].score
    <3>1. CASE i = id
      BY <2>5, <2>7, <3>1
    <3>2. CASE i # id
      <4>1. i \in DOMAIN c /\ d[i] = c[i]
        BY <2>5, <3>2
      <4>2. c[i][s] <= p.accumulated[s].score
        BY <2>4, <4>1 DEF Scored
      <4>3. c[i] \in Report
        BY <4>1, CompletedIs
      <4>4. c[i][s] \in Nat
        BY <4>3, ScoresAre
      <4> HIDE DEF found
      <4>5. p.accumulated[s].score \in Nat /\ acc[s].score \in Nat
        <5>1. p.accumulated[s] \in Kept /\ acc[s] \in Kept
          BY <2>7
        <5> QED
          BY <5>1 DEF Kept, Score
      <4>6. p.accumulated[s].score <= acc[s].score
        BY <2>7
      <4> QED
        BY <4>1, <4>2, <4>4, <4>5, <4>6
    <3> QED
      BY <3>1, <3>2
  <2>13. Scored(q)
    <3> HIDE DEF found
    <3> QED
      BY <2>10, <2>11, <2>12 DEF Scored
  <2>14. DOMAIN q.completed = DOMAIN p.completed \cup {r.id}
    BY <2>2, <2>4, <2>5, <2>10
  <2> HIDE DEF found
  <2> QED
    BY <2>10, <2>13, <2>14 DEF Took, IsTaken
<1> QED
  BY <1>1, <1>2, <1>3

\* What was taken stays taken.
LEMMA TookTwice ==
  ASSUME NEW p, NEW q, NEW u, Took(p, q), Took(q, u)
  PROVE  Took(p, u) /\ \A r : IsTaken(r, q) => IsTaken(r, u)
BY DEF Took, IsTaken

LEMMA DrainIs ==
  ASSUME NEW p \in Pipelines, Scored(p), results \in Seq(SearchResult), NEW q, q = Drain(p)
  PROVE  Took(p, q) /\ \A i \in 1..Len(results) : IsTaken(results[i], q)
<1>1. PICK n \in Nat : n = Len(results)
  BY LenProperties
<1>2. PICK f : f = Draining(p)
  OBVIOUS
<1>3. f[0] = p /\ \A k \in 1..n : f[k] = Accept(f[k - 1], results[k])
  BY <1>1, <1>2, DrainingIs
<1> DEFINE Done(k) == Took(p, f[k]) /\ \A i \in 1..k : IsTaken(results[i], f[k])
           S == {k \in Nat : k <= n => Done(k)}
<1>4. 0 \in S
  BY <1>3 DEF Took
<1>5. ASSUME NEW k \in Nat, k \in S
      PROVE  k + 1 \in S
  <2>1. CASE ~(k + 1 <= n)
    BY <2>1
  <2>2. CASE k + 1 <= n
    <3>1. k <= n /\ k + 1 \in 1..n /\ (k + 1) - 1 = k
      BY <2>2
    <3>2. Took(p, f[k]) /\ \A i \in 1..k : IsTaken(results[i], f[k])
      BY <1>5, <3>1
    <3>3. PICK u \in Pipelines : u = f[k] /\ Scored(u)
      BY <3>2 DEF Took
    <3>4. PICK r \in SearchResult : r = results[k + 1]
      BY <1>1, <3>1, ElementOfSeq
    <3>5. PICK v : v = f[k + 1] /\ v = Accept(u, r)
      BY <1>3, <3>1, <3>3, <3>4
    <3>6. Took(u, v) /\ IsTaken(r, v)
      BY <3>3, <3>5, AcceptIs
    <3>7. Took(p, v) /\ \A i \in 1..k : IsTaken(results[i], v)
      BY <3>2, <3>3, <3>6, TookTwice
    <3>8. \A i \in 1..(k + 1) : IsTaken(results[i], v)
      <4>1. \A i \in 1..(k + 1) : i \in 1..k \/ i = k + 1
        OBVIOUS
      <4> QED
        BY <3>4, <3>6, <3>7, <4>1
    <3>9. Done(k + 1)
      BY <3>5, <3>7, <3>8
    <3> QED
      BY <3>9
  <2> QED
    BY <2>1, <2>2
<1>6. Nat \subseteq S
  <2> HIDE DEF S
  <2> QED
    BY <1>4, <1>5, Inductive
<1>7. Done(n)
  BY <1>6
<1>8. q = f[n]
  BY <1>1, <1>2 DEF Drain
<1> HIDE DEF S
<1> QED
  BY <1>1, <1>7, <1>8

LEMMA PipelineIs ==
  ASSUME NEW p \in Pipelines
  PROVE  /\ p.turn \in Turn /\ p.nextId \in 0..MaxSearches
         /\ p.lastQuery \in Texts \cup {None} /\ p.lastId \in SearchId \cup {None}
         /\ p.accumulated \in [Snippets -> Kept] /\ DOMAIN p.completed \subseteq SearchId
         /\ \A i \in DOMAIN p.completed : p.completed[i] \in Report
         /\ p.dispatched \in BOOLEAN /\ p.failed \in BOOLEAN
<1>1. p.completed \in Completed
  BY DEF Pipelines
<1>2. /\ DOMAIN p.completed \subseteq SearchId
      /\ \A i \in DOMAIN p.completed : p.completed[i] \in Report
  BY <1>1, CompletedIs
<1> QED
  BY <1>2 DEF Pipelines

\* A pipeline that starts a turn knows of no search.
LEMMA NewTurnIs ==
  ASSUME NEW turn \in Turn, NEW nextId \in 0..MaxSearches, NEW q, q = NewTurn(turn, nextId)
  PROVE  /\ q \in Pipelines /\ Scored(q) /\ q.turn = turn /\ q.nextId = nextId
         /\ q.lastId = None
<1>1. NotFound \in Kept /\ NotFound.score = 0
  BY BoundsAssumption DEF NotFound, Kept, Score, Turn
<1>2. <<>> \in Completed /\ DOMAIN <<>> = {}
  <2>1. DOMAIN <<>> = {}
    OBVIOUS
  <2>2. <<>> \in [{} -> Report]
    OBVIOUS
  <2> QED
    BY <2>1, <2>2 DEF Completed
<1>3. [s \in Snippets |-> NotFound] \in [Snippets -> Kept]
  BY <1>1
<1>4. /\ q \in Pipelines /\ q.turn = turn /\ q.nextId = nextId /\ q.lastId = None
      /\ q.accumulated = [s \in Snippets |-> NotFound] /\ q.completed = <<>>
  BY <1>2, <1>3 DEF NewTurn, Pipelines
<1>5. Scored(q)
  <2>1. \A s \in Snippets : ~(q.accumulated[s].score > 0)
    BY <1>1, <1>4
  <2> QED
    BY <1>2, <1>4, <2>1 DEF Scored
<1> QED
  BY <1>4, <1>5

\* The context resolve() puts together is of the pipeline's turn.
LEMMA FinishIs ==
  ASSUME NEW p \in Pipelines, Scored(p), NEW id, Finish(p, id)
  PROVE  /\ pc' = "sending" /\ pipeline' \in Pipelines /\ Scored(pipeline')
         /\ pipeline'.turn = p.turn /\ pipeline'.nextId = p.nextId
         /\ pipeline'.lastId = p.lastId
         /\ context' \in [snippets : SUBSET Snippets, failed : BOOLEAN]
         /\ ContextFromThisTurn'
<1>1. PICK chosen \in Contexts(p, id) :
         /\ context' = [snippets |-> chosen, failed |-> chosen = {} /\ p.failed]
         /\ pipeline' = [p EXCEPT !.failed = p.failed /\ ~(chosen = {} /\ p.failed)]
  BY DEF Finish
<1>2. chosen \subseteq Candidates(p, id) /\ chosen \subseteq Snippets
  BY DEF Contexts, Candidates
<1>3. ASSUME NEW s \in chosen
      PROVE  p.accumulated[s].turn = p.turn
  <2>1. p.accumulated[s].score \in Nat
    BY <1>2, PipelineIs DEF Kept, Score
  <2>2. CASE IsExtra(p, s)
    BY <1>2, <2>1, <2>2 DEF IsExtra, Strong, Scored
  <2>3. CASE Final(p, id)[s] > 0
    <3>1. id \in DOMAIN p.completed
      BY <1>2, <2>3 DEF Final
    <3>2. PICK report \in Report : report = p.completed[id]
      BY <3>1, PipelineIs
    <3>3. report[s] > 0 /\ report[s] <= p.accumulated[s].score /\ report[s] \in Nat
      BY <1>2, <2>3, <3>1, <3>2, ScoresAre DEF Final, Scored
    <3>4. p.accumulated[s].score > 0
      BY <2>1, <3>3
    <3> QED
      BY <1>2, <3>4 DEF Scored
  <2> QED
    BY <1>2, <2>2, <2>3 DEF Candidates
<1>4. PICK failed : failed = (p.failed /\ ~(chosen = {} /\ p.failed)) /\ failed \in BOOLEAN
  OBVIOUS
<1>5. pipeline' = [p EXCEPT !.failed = failed]
  BY <1>1, <1>4, Zenon
<1>6. /\ pipeline' \in Pipelines /\ pipeline'.turn = p.turn /\ pipeline'.nextId = p.nextId
      /\ pipeline'.lastId = p.lastId /\ pipeline'.accumulated = p.accumulated
      /\ pipeline'.completed = p.completed
  BY <1>4, <1>5 DEF Pipelines
<1>7. Scored(pipeline')
  BY <1>6 DEF Scored
<1>8. PICK none \in BOOLEAN : none = (chosen = {} /\ p.failed)
  OBVIOUS
<1>9. context' = [snippets |-> chosen, failed |-> none]
  BY <1>1, <1>8, Zenon
<1>10. context' \in [snippets : SUBSET Snippets, failed : BOOLEAN] /\ context'.snippets = chosen
  BY <1>2, <1>8, <1>9
<1>11. ContextFromThisTurn'
  BY <1>3, <1>6, <1>10 DEF ContextFromThisTurn
<1> QED
  BY <1>6, <1>7, <1>10, <1>11 DEF Finish

-----------------------------------------------------------------------------
(* Searching ahead *)

\* The pipeline once everything that has arrived is taken: its last search is
\* no longer among the answers.
LEMMA DrainedIs ==
  ASSUME IInv, NEW p, p = Drain(pipeline)
  PROVE  /\ Took(pipeline, p)
         /\ pc # "sending" => Somewhere(p, requests, search, <<>>, workerOpen)
         /\ InOrder(p, requests, coalesced)
<1>1. results \in Seq(SearchResult) /\ pipeline \in Pipelines /\ Scored(pipeline)
  BY DEF IInv, Typing, TypeOK
<1>2. PICK was \in Pipelines : was = pipeline /\ Scored(was)
  BY <1>1
<1>3. Took(was, p) /\ \A i \in 1..Len(results) : IsTaken(results[i], p)
  BY <1>1, <1>2, DrainIs
<1>4. ASSUME pc # "sending", p.lastId # None
      PROVE  \/ \E i \in 1..Len(requests) : IsLast(requests[i], p)
             \/ search # None /\ IsLast(search, p)
             \/ p.lastId \in DOMAIN p.completed
             \/ p.failed
             \/ ~workerOpen
  <2>1. /\ p.turn = was.turn /\ p.lastId = was.lastId /\ p.lastQuery = was.lastQuery
        /\ was.failed => p.failed
        /\ DOMAIN was.completed \subseteq DOMAIN p.completed
    BY <1>3 DEF Took
  <2>2. Somewhere(was, requests, search, results, workerOpen) /\ was.lastId # None
    BY <1>2, <1>4, <2>1 DEF IInv, LastIsSomewhere
  <2>3. CASE \E i \in 1..Len(results) : Answers(results[i], was)
    BY <1>3, <2>1, <2>3 DEF Answers, IsTaken
  <2> QED
    BY <2>1, <2>2, <2>3 DEF Somewhere, IsLast
<1>5. pc # "sending" => Somewhere(p, requests, search, <<>>, workerOpen)
  BY <1>4 DEF Somewhere
<1>6. InOrder(p, requests, coalesced)
  BY <1>2, <1>3 DEF IInv, NewestIsLast, InOrder, Took
<1> QED
  BY <1>2, <1>3, <1>5, <1>6

\* dispatch() queues the search that becomes the last one of the pipeline.
LEMMA DispatchIs ==
  ASSUME IInv, NEW p \in Pipelines, Scored(p), InOrder(p, requests, coalesced),
         p.nextId < MaxSearches, NEW query \in Texts,
         NEW q, q = Dispatched(p, query), NEW queue, queue = Requested(p, query)
  PROVE  /\ q \in Pipelines /\ Scored(q) /\ q.turn = p.turn /\ q.nextId = p.nextId + 1
         /\ queue \in Seq(Search) /\ InOrder(q, queue, coalesced)
         /\ Somewhere(q, queue, search, <<>>, workerOpen)
         /\ workerOpen => q.lastId = p.nextId /\ q.lastQuery = query
<1>1. /\ p.nextId \in SearchId /\ p.nextId + 1 \in 0..MaxSearches /\ MaxSearches \in Nat
      /\ p.turn \in Turn
  <2>1. p.nextId \in 0..MaxSearches /\ p.turn \in Turn /\ MaxSearches \in Nat
    BY PipelineIs, BoundsAssumption
  <2>2. p.nextId \in Nat /\ p.nextId < MaxSearches
    BY <2>1
  <2> QED
    BY <2>1, <2>2 DEF SearchId
<1>2. requests \in Seq(Search) /\ utterance \in Turn
  BY DEF IInv, Typing, TypeOK
<1>3. PICK id : id = p.nextId /\ id \in SearchId /\ id \in Nat
  BY <1>1 DEF SearchId
<1>4. ASSUME NEW i \in 1..Len(requests)
      PROVE  requests[i].id \in Nat /\ requests[i].id < id
  <2>1. requests[i] \in Search
    BY <1>2, ElementOfSeq
  <2>2. requests[i].id \in SearchId
    BY <2>1 DEF Search
  <2> QED
    BY <1>3, <2>2 DEF SearchId, InOrder
<1>5. CASE ~workerOpen
  <2>1. q = [p EXCEPT !.nextId = id + 1, !.failed = TRUE] /\ queue = requests
    BY <1>3, <1>5 DEF Dispatched, Requested
  <2>2. /\ q \in Pipelines /\ q.turn = p.turn /\ q.nextId = id + 1 /\ q.failed = TRUE
        /\ q.lastId = p.lastId /\ q.accumulated = p.accumulated /\ q.completed = p.completed
    BY <1>1, <1>3, <2>1 DEF Pipelines
  <2>3. Scored(q)
    BY <2>2 DEF Scored
  <2>4. InOrder(q, queue, coalesced)
    <3>1. /\ \A i \in 1..Len(requests) : requests[i].id < q.nextId
          /\ \A i \in coalesced : i < q.nextId
      <4>1. \A i \in coalesced : i \in Nat /\ i < id
        BY <1>3 DEF IInv, Typing, TypeOK, InOrder, SearchId
      <4> QED
        BY <1>3, <1>4, <2>2, <4>1
    <3> QED
      BY <2>1, <2>2, <3>1 DEF InOrder
  <2> QED
    BY <1>2, <1>3, <1>5, <2>1, <2>2, <2>3, <2>4 DEF Somewhere
<1>6. CASE workerOpen
  <2>1. PICK r : r = [id |-> id, turn |-> p.turn, query |-> query, utterance |-> utterance]
    OBVIOUS
  <2>2. r \in Search /\ r.id = id /\ r.turn = p.turn /\ r.query = query
    BY <1>1, <1>2, <1>3, <2>1 DEF Search
  <2>3. /\ q = [p EXCEPT !.nextId = id + 1, !.dispatched = TRUE, !.lastQuery = query, !.lastId = id]
        /\ queue = Append(requests, r)
    BY <1>3, <1>6, <2>1 DEF Dispatched, Requested
  <2>4. /\ q \in Pipelines /\ q.turn = p.turn /\ q.nextId = id + 1 /\ q.lastId = id
        /\ q.lastQuery = query /\ q.accumulated = p.accumulated /\ q.completed = p.completed
    BY <1>1, <1>3, <2>3 DEF Pipelines
  <2>5. Scored(q)
    BY <2>4 DEF Scored
  <2>6. PICK n \in Nat : n = Len(requests)
    BY <1>2, LenProperties
  <2>7. /\ queue \in Seq(Search) /\ Len(queue) = n + 1 /\ queue[n + 1] = r
        /\ \A i \in 1..n : queue[i] = requests[i]
    BY <1>2, <2>2, <2>3, <2>6, AppendProperties
  <2>8. \A i \in 1..n : queue[i].id \in Nat /\ queue[i].id < id
    BY <1>4, <2>6, <2>7
  <2>9. InOrder(q, queue, coalesced)
    <3>1. \A i \in 1..(n + 1) : i \in 1..n \/ i = n + 1
      BY <2>6
    <3>2. \A i \in 1..(n + 1) : queue[i].id < id + 1
      BY <1>3, <2>2, <2>7, <2>8, <3>1
    <3>3. ASSUME NEW i \in 1..(n + 1), NEW j \in 1..(n + 1), i < j
          PROVE  queue[i].id < queue[j].id
      <4>1. i \in 1..n
        BY <2>6, <3>3
      <4>2. CASE j = n + 1
        BY <2>2, <2>7, <2>8, <4>1, <4>2
      <4>3. CASE j \in 1..n
        BY <2>6, <2>7, <3>3, <4>1, <4>3 DEF InOrder
      <4> QED
        BY <3>1, <4>2, <4>3
    <3>4. \A i \in coalesced : i \in Nat /\ i < id
      BY <1>3 DEF IInv, Typing, TypeOK, InOrder, SearchId
    <3>5. (\A i \in coalesced : i < id + 1) /\ id \notin coalesced
      BY <1>3, <3>4
    <3> QED
      BY <2>2, <2>4, <2>7, <3>2, <3>3, <3>5 DEF InOrder
  <2>10. IsLast(queue[n + 1], q) /\ n + 1 \in 1..Len(queue)
    BY <2>2, <2>4, <2>6, <2>7 DEF IsLast
  <2>11. Somewhere(q, queue, search, <<>>, workerOpen)
    BY <2>10 DEF Somewhere
  <2> QED
    BY <1>3, <2>4, <2>5, <2>7, <2>9, <2>11
<1> QED
  BY <1>5, <1>6

\* What prefetch() leaves when it is called with a text.
LEMMA HearStep ==
  ASSUME IInv, NEW query \in Texts, NEW isFinal, NEW due, Hear(query, isFinal, due)
  PROVE  IInv'
<1>1. PICK p : p = Drain(pipeline)
  OBVIOUS
<1>2. /\ Took(pipeline, p) /\ InOrder(p, requests, coalesced)
      /\ pc # "sending" => Somewhere(p, requests, search, <<>>, workerOpen)
  BY <1>1, DrainedIs
<1>3. /\ pc = "listening" /\ utterance < MaxUtterances /\ p.nextId + 1 < MaxSearches
      /\ text' = query /\ results' = <<>>
      /\ \/ pipeline' = p /\ UNCHANGED requests
         \/ pipeline' = Dispatched(p, query) /\ requests' = Requested(p, query)
      /\ UNCHANGED <<pc, awaited, context, search, workerOpen, utterance, coalesced>>
  BY <1>1 DEF Hear
<1>4. p \in Pipelines /\ Scored(p) /\ p.turn = pipeline.turn /\ p.nextId \in Nat
  BY <1>2, PipelineIs DEF Took
<1>5. PICK q : q = pipeline'
  OBVIOUS
<1>6. /\ q \in Pipelines /\ Scored(q) /\ q.turn = pipeline.turn /\ q.nextId < MaxSearches
      /\ requests' \in Seq(Search) /\ InOrder(q, requests', coalesced)
      /\ Somewhere(q, requests', search, <<>>, workerOpen)
  <2>1. MaxSearches \in Nat /\ p.nextId < MaxSearches
    BY <1>3, <1>4, BoundsAssumption
  <2>2. CASE q = p /\ UNCHANGED requests
    <3>1. requests \in Seq(Search)
      BY DEF IInv, Typing, TypeOK
    <3> QED
      BY <1>2, <1>3, <1>4, <2>1, <2>2, <3>1
  <2>3. CASE q = Dispatched(p, query) /\ requests' = Requested(p, query)
    <3>1. PICK queue : queue = requests'
      OBVIOUS
    <3>2. /\ q \in Pipelines /\ Scored(q) /\ q.turn = p.turn /\ q.nextId = p.nextId + 1
          /\ queue \in Seq(Search) /\ InOrder(q, queue, coalesced)
          /\ Somewhere(q, queue, search, <<>>, workerOpen)
      BY <1>2, <1>4, <2>1, <2>3, <3>1, DispatchIs
    <3> QED
      BY <1>3, <1>4, <3>1, <3>2
  <2> QED
    BY <1>3, <1>5, <2>2, <2>3
<1>7. Typing'
  <2>1. results' \in Seq(SearchResult)
    BY <1>3, EmptySeq
  <2>2. TypeOK'
    BY <1>3, <1>5, <1>6, <2>1, PipelineIs DEF IInv, Typing, TypeOK
  <2>3. InBounds'
    BY <1>3, <1>5, <1>6 DEF IInv, Typing, InBounds
  <2> QED
    BY <1>5, <1>6, <2>2, <2>3 DEF Typing
<1>8. Scored(pipeline)' /\ NewestIsLast' /\ LastIsSomewhere'
  BY <1>3, <1>5, <1>6 DEF NewestIsLast, LastIsSomewhere, Scored
<1>9. WaitsForLast' /\ ContextIsSent'
  BY <1>3 DEF IInv, WaitsForLast, ContextIsSent
<1>10. ContextFromThisTurn'
  BY <1>3 DEF IInv, ContextIsSent, NoContext, ContextFromThisTurn
<1> QED
  BY <1>7, <1>8, <1>9, <1>10 DEF IInv

-----------------------------------------------------------------------------
(* resolve() *)

\* Putting the context together ends the wait.
LEMMA FinishStep ==
  ASSUME IInv, utterance < MaxUtterances, NEW p \in Pipelines, Scored(p), NEW id, Finish(p, id),
         p.turn = pipeline.turn, InOrder(p, requests', coalesced),
         requests' \in Seq(Search), results' \in Seq(SearchResult),
         awaited' \in SearchId \cup {None},
         UNCHANGED <<text, search, workerOpen, utterance, coalesced>>
  PROVE  IInv'
<1>1. /\ pc' = "sending" /\ pipeline' \in Pipelines /\ Scored(pipeline')
      /\ pipeline'.turn = p.turn /\ pipeline'.nextId = p.nextId
      /\ pipeline'.lastId = p.lastId
      /\ context' \in [snippets : SUBSET Snippets, failed : BOOLEAN]
      /\ ContextFromThisTurn'
  BY FinishIs
<1>2. PICK q \in Pipelines : q = pipeline'
  BY <1>1
<1>3. TypeOK'
  BY <1>1, <1>2, PipelineIs DEF IInv, Typing, TypeOK
<1>4. InBounds'
  BY <1>1 DEF IInv, Typing, InBounds
<1>5. NewestIsLast'
  BY <1>1 DEF NewestIsLast, InOrder
<1>6. LastIsSomewhere' /\ WaitsForLast' /\ ContextIsSent'
  BY <1>1 DEF LastIsSomewhere, WaitsForLast, ContextIsSent
<1>7. Scored(pipeline)'
  BY <1>1 DEF Scored
<1> QED
  BY <1>1, <1>3, <1>4, <1>5, <1>6, <1>7 DEF IInv, Typing

\* When the last search is for this text it is waited for; otherwise a search
\* is sent.  Either way the search waited for is the last one.
LEMMA ResolveStep ==
  ASSUME IInv, Resolve
  PROVE  IInv'
<1>1. PICK drained : drained = Drain(pipeline)
  OBVIOUS
<1>2. PICK reuses : reuses = Reuses(drained, text)
  OBVIOUS
<1>3. PICK p : p = IF reuses THEN drained ELSE Dispatched(drained, text)
  OBVIOUS
<1>4. PICK id : id = IF reuses \/ workerOpen THEN p.lastId ELSE None
  OBVIOUS
<1>5. /\ pc = "listening" /\ text \in Long /\ results' = <<>> /\ awaited' = id
      /\ requests' = IF reuses THEN requests ELSE Requested(drained, text)
      /\ IF id = None \/ id \in DOMAIN p.completed
         THEN Finish(p, id)
         ELSE pc' = "waiting" /\ pipeline' = p /\ UNCHANGED context
      /\ UNCHANGED <<text, search, workerOpen, utterance, coalesced>>
  BY <1>1, <1>2, <1>3, <1>4 DEF Resolve
<1>6. text \in Texts /\ text # None
  BY <1>5, LongAssumption, NoneAssumption
<1>7. utterance < MaxUtterances /\ pipeline.nextId < MaxSearches
  BY <1>5, <1>6 DEF IInv, Typing, InBounds
<1>8. /\ Took(pipeline, drained) /\ InOrder(drained, requests, coalesced)
      /\ Somewhere(drained, requests, search, <<>>, workerOpen)
  BY <1>1, <1>5, DrainedIs
<1>9. /\ drained \in Pipelines /\ Scored(drained) /\ drained.turn = pipeline.turn
      /\ drained.nextId < MaxSearches
  BY <1>7, <1>8 DEF Took
<1>10. /\ p \in Pipelines /\ Scored(p) /\ p.turn = pipeline.turn
       /\ requests' \in Seq(Search) /\ InOrder(p, requests', coalesced)
       /\ Somewhere(p, requests', search, <<>>, workerOpen)
       /\ id # None => p.lastId = id /\ p.lastQuery = text
  <2>1. CASE reuses
    <3>1. p = drained /\ requests' = requests /\ id = p.lastId /\ p.lastQuery = text
      BY <1>2, <1>3, <1>4, <1>5, <2>1 DEF Reuses
    <3>2. requests \in Seq(Search)
      BY DEF IInv, Typing, TypeOK
    <3> QED
      BY <1>8, <1>9, <3>1, <3>2
  <2>2. CASE ~reuses
    <3>1. PICK queue : queue = requests'
      OBVIOUS
    <3>2. p = Dispatched(drained, text) /\ queue = Requested(drained, text)
      BY <1>3, <1>5, <2>2, <3>1
    <3>3. PICK query \in Texts : query = text
      BY <1>6
    <3>4. /\ p \in Pipelines /\ Scored(p) /\ p.turn = drained.turn
          /\ queue \in Seq(Search) /\ InOrder(p, queue, coalesced)
          /\ Somewhere(p, queue, search, <<>>, workerOpen)
          /\ workerOpen => p.lastQuery = query
      BY <1>8, <1>9, <3>2, <3>3, DispatchIs
    <3> QED
      BY <1>4, <1>9, <2>2, <3>1, <3>3, <3>4
  <2> QED
    BY <2>1, <2>2
<1>11. id \in SearchId \cup {None} /\ results' \in Seq(SearchResult)
  BY <1>4, <1>5, <1>10, PipelineIs, EmptySeq
<1>12. CASE id = None \/ id \in DOMAIN p.completed
  <2>1. Finish(p, id)
    BY <1>5, <1>12
  <2> QED
    BY <1>5, <1>7, <1>10, <1>11, <2>1, FinishStep
<1>13. CASE ~(id = None \/ id \in DOMAIN p.completed)
  <2>1. pc' = "waiting" /\ pipeline' = p /\ UNCHANGED context
    BY <1>5, <1>13
  <2>2. TypeOK'
    BY <1>5, <1>10, <1>11, <2>1, PipelineIs DEF IInv, Typing, TypeOK
  <2>3. InBounds'
    BY <1>5, <1>7, <1>10, <2>1 DEF IInv, Typing, InBounds
  <2>4. Scored(pipeline)' /\ NewestIsLast' /\ LastIsSomewhere'
    BY <1>5, <1>10, <2>1 DEF NewestIsLast, LastIsSomewhere, Scored
  <2>5. WaitsForLast'
    BY <1>5, <1>10, <1>13, <2>1 DEF WaitsForLast
  <2>6. ContextIsSent' /\ ContextFromThisTurn'
    BY <1>5, <2>1 DEF IInv, ContextIsSent, NoContext, ContextFromThisTurn
  <2> QED
    BY <1>10, <2>1, <2>2, <2>3, <2>4, <2>5, <2>6 DEF IInv, Typing
<1> QED
  BY <1>12, <1>13

\* What is waited for is not among the answers that are taken on the way.
LEMMA TakeResultStep ==
  ASSUME IInv, TakeResult
  PROVE  IInv'
<1>1. PICK was \in Pipelines : was = pipeline /\ Scored(was)
  BY DEF IInv, Typing
<1>2. results \in Seq(SearchResult) /\ results # <<>> /\ results' = Tail(results)
  BY DEF IInv, Typing, TypeOK, TakeResult
<1>3. PICK r \in SearchResult : r = Head(results)
  BY <1>2, HeadTailProperties
<1>4. PICK p : p = Accept(was, r)
  OBVIOUS
<1>5. /\ Took(was, p) /\ IsTaken(r, p)
      /\ DOMAIN p.completed \subseteq DOMAIN was.completed \cup {r.id}
  BY <1>1, <1>4, AcceptIs
<1>6. /\ pc = "waiting"
      /\ IF r.id = awaited THEN Finish(p, awaited)
                           ELSE pipeline' = p /\ UNCHANGED <<pc, context>>
      /\ UNCHANGED <<text, awaited, requests, search, workerOpen, utterance, coalesced>>
  BY <1>1, <1>3, <1>4 DEF TakeResult
<1>7. PICK n \in Nat : n = Len(results)
  BY <1>2, LenProperties
<1>8. /\ results' \in Seq(SearchResult) /\ Len(results') = n - 1 /\ n > 0
      /\ \A i \in 1..(n - 1) : results'[i] = results[i + 1]
      /\ r = results[1]
  <2>1. n # 0
    BY <1>2, <1>7, EmptySeq
  <2> QED
    BY <1>2, <1>3, <1>7, <2>1, HeadTailProperties
<1>9. /\ p \in Pipelines /\ Scored(p) /\ p.turn = was.turn /\ p.nextId = was.nextId
      /\ p.lastQuery = was.lastQuery /\ p.lastId = was.lastId
      /\ was.failed => p.failed
      /\ DOMAIN was.completed \subseteq DOMAIN p.completed
  BY <1>5 DEF Took
<1>10. InOrder(p, requests, coalesced) /\ utterance < MaxUtterances
  BY <1>1, <1>6, <1>9 DEF IInv, NewestIsLast, InOrder, Typing, InBounds
<1>11. /\ requests \in Seq(Search) /\ awaited \in SearchId \cup {None}
  BY DEF IInv, Typing, TypeOK
<1>12. CASE r.id = awaited
  <2>1. PICK id : id = awaited
    OBVIOUS
  <2>2. Finish(p, id)
    BY <1>6, <1>12, <2>1
  <2> QED
    BY <1>1, <1>6, <1>8, <1>9, <1>10, <1>11, <2>2, FinishStep
<1>13. CASE r.id # awaited
  <2>1. pipeline' = p /\ pc' = "waiting" /\ context' = context
    BY <1>6, <1>13
  <2>2. TypeOK'
    BY <1>6, <1>8, <1>9, <2>1, PipelineIs DEF IInv, Typing, TypeOK
  <2>3. InBounds'
    BY <1>1, <1>6, <1>9, <1>10, <2>1 DEF IInv, Typing, InBounds
  <2>4. /\ awaited # None /\ p.lastId = awaited /\ p.lastQuery = text
        /\ awaited \notin DOMAIN p.completed
    BY <1>1, <1>5, <1>6, <1>9, <1>13 DEF IInv, WaitsForLast
  <2>5. Somewhere(p, requests, search, results', workerOpen)
    <3>1. Somewhere(was, requests, search, results, workerOpen) /\ was.lastId # None
      BY <1>1, <1>6, <1>9, <2>4 DEF IInv, LastIsSomewhere
    <3>2. CASE \E i \in 1..Len(results) : Answers(results[i], was)
      <4>1. PICK i \in 1..n : Answers(results[i], was)
        BY <1>7, <3>2
      <4>2. i # 1
        BY <1>8, <1>9, <1>13, <2>4, <4>1 DEF Answers
      <4>3. i - 1 \in 1..(n - 1) /\ (i - 1) + 1 = i
        BY <4>2
      <4>4. results'[i - 1] = results[i] /\ i - 1 \in 1..Len(results')
        BY <1>8, <4>3
      <4>5. Answers(results'[i - 1], p)
        BY <1>9, <4>1, <4>4 DEF Answers
      <4> QED
        BY <4>4, <4>5 DEF Somewhere
    <3> QED
      BY <1>9, <3>1, <3>2 DEF Somewhere, IsLast
  <2>6. Scored(pipeline)' /\ NewestIsLast' /\ LastIsSomewhere'
    BY <1>6, <1>9, <1>10, <2>1, <2>5 DEF NewestIsLast, LastIsSomewhere, Scored
  <2>7. WaitsForLast'
    BY <1>6, <2>1, <2>4 DEF WaitsForLast
  <2>8. ContextIsSent' /\ ContextFromThisTurn'
    BY <1>6, <2>1 DEF IInv, ContextIsSent, NoContext, ContextFromThisTurn
  <2> QED
    BY <1>9, <2>1, <2>2, <2>3, <2>6, <2>7, <2>8 DEF IInv, Typing
<1> QED
  BY <1>12, <1>13

LEMMA DeadlineStep ==
  ASSUME IInv, Deadline \/ ResultsClosed
  PROVE  IInv'
<1>1. PICK was \in Pipelines : was = pipeline /\ Scored(was)
  BY DEF IInv, Typing
<1>2. PICK id : id = awaited
  OBVIOUS
<1>3. PICK p : /\ p = was \/ p = [was EXCEPT !.failed = TRUE]
               /\ Finish(p, id)
  BY <1>1, <1>2 DEF Deadline, ResultsClosed
<1>4. /\ p \in Pipelines /\ p.turn = was.turn /\ p.nextId = was.nextId /\ p.lastId = was.lastId
      /\ p.accumulated = was.accumulated /\ p.completed = was.completed
  BY <1>3 DEF Pipelines
<1>5. Scored(p) /\ InOrder(p, requests, coalesced)
  BY <1>1, <1>4 DEF Scored, IInv, NewestIsLast, InOrder
<1>6. /\ pc = "waiting"
      /\ UNCHANGED <<text, awaited, requests, search, results, workerOpen, utterance, coalesced>>
  BY DEF Deadline, ResultsClosed, worker
<1>7. utterance < MaxUtterances
  BY <1>6 DEF IInv, Typing, InBounds
<1>8. /\ requests' \in Seq(Search) /\ results' \in Seq(SearchResult)
      /\ awaited' \in SearchId \cup {None}
  BY <1>6 DEF IInv, Typing, TypeOK
<1> QED
  BY <1>1, <1>3, <1>4, <1>5, <1>6, <1>7, <1>8, FinishStep

-----------------------------------------------------------------------------
(* Starting over *)

\* A short text leaves the pipeline as it is.
LEMMA DropShortStep ==
  ASSUME IInv, DropShort
  PROVE  IInv'
<1>1. /\ pc = "listening" /\ text \in Texts /\ text' = None /\ utterance' = utterance + 1
      /\ UNCHANGED <<pc, pipeline, awaited, context, requests, search, results, workerOpen,
                     coalesced>>
  BY DEF DropShort, worker
<1>2. utterance < MaxUtterances /\ utterance \in Nat /\ MaxUtterances \in Nat
  BY <1>1, NoneAssumption, BoundsAssumption DEF IInv, Typing, TypeOK, InBounds, Turn
<1>3. utterance' \in Turn
  BY <1>1, <1>2 DEF Turn
<1>4. TypeOK'
  BY <1>1, <1>3 DEF IInv, Typing, TypeOK
<1>5. pipeline.turn \in Nat
  BY DEF IInv, Typing, TypeOK, Turn
<1>6. InBounds'
  BY <1>1, <1>2, <1>5 DEF IInv, Typing, InBounds
<1>7. Scored(pipeline)' /\ NewestIsLast' /\ LastIsSomewhere'
  BY <1>1 DEF IInv, NewestIsLast, LastIsSomewhere, Scored
<1>8. WaitsForLast' /\ ContextIsSent' /\ ContextFromThisTurn'
  BY <1>1 DEF IInv, WaitsForLast, ContextIsSent, NoContext, ContextFromThisTurn
<1> QED
  BY <1>1, <1>4, <1>6, <1>7, <1>8 DEF IInv, Typing

\* reset() forgets the last search; what is queued or under way is of an
\* earlier turn from then on.
LEMMA ResetStep ==
  ASSUME IInv, Discard \/ Submit
  PROVE  IInv'
<1>1. /\ pc' = "listening" /\ text' = None /\ pipeline' = Reset(pipeline) /\ results' = <<>>
      /\ utterance' = utterance + 1 /\ utterance < MaxUtterances
      /\ UNCHANGED <<requests, search, workerOpen, coalesced>>
      /\ awaited' \in {awaited, None} /\ context' \in {context, NoContext}
      /\ context' = NoContext
  BY DEF Discard, Submit, IInv, Typing, InBounds, ContextIsSent
<1>2. /\ utterance \in Nat /\ MaxUtterances \in Nat /\ pipeline.turn \in Nat
      /\ pipeline.turn <= utterance /\ pipeline.nextId \in 0..MaxSearches
  BY BoundsAssumption DEF IInv, Typing, TypeOK, InBounds, Turn
<1>3. utterance' \in Turn /\ pipeline.turn + 1 \in Turn
  BY <1>1, <1>2 DEF Turn
<1>4. PICK turn \in Turn, nextId \in 0..MaxSearches :
         turn = pipeline.turn + 1 /\ nextId = pipeline.nextId
  BY <1>2, <1>3
<1>5. PICK q : q = pipeline' /\ q = NewTurn(turn, nextId)
  BY <1>1, <1>4 DEF Reset
<1>6. /\ q \in Pipelines /\ Scored(q) /\ q.turn = turn /\ q.nextId = nextId /\ q.lastId = None
  BY <1>5, NewTurnIs
<1>7. TypeOK'
  <2>1. results' \in Seq(SearchResult)
    BY <1>1, EmptySeq
  <2>2. awaited' \in SearchId \cup {None}
    BY <1>1 DEF IInv, Typing, TypeOK
  <2>3. context' \in [snippets : SUBSET Snippets, failed : BOOLEAN]
    BY <1>1 DEF NoContext
  <2>4. /\ requests' \in Seq(Search) /\ search' \in Search \cup {None}
        /\ workerOpen' \in BOOLEAN /\ coalesced' \subseteq SearchId
    BY <1>1 DEF IInv, Typing, TypeOK
  <2>5. /\ q.turn \in Turn /\ q.nextId \in 0..MaxSearches
        /\ q.lastQuery \in Texts \cup {None} /\ q.lastId \in SearchId \cup {None}
        /\ q.accumulated \in [Snippets -> Kept] /\ DOMAIN q.completed \subseteq SearchId
        /\ \A i \in DOMAIN q.completed : q.completed[i] \in Report
        /\ q.dispatched \in BOOLEAN /\ q.failed \in BOOLEAN
    BY <1>6, PipelineIs
  <2> QED
    BY <1>1, <1>3, <1>5, <2>1, <2>2, <2>3, <2>4, <2>5 DEF TypeOK
<1>8. InBounds'
  <2>1. turn <= utterance'
    BY <1>1, <1>2, <1>4
  <2> QED
    BY <1>1, <1>5, <1>6, <2>1 DEF InBounds
<1>9. NewestIsLast'
  BY <1>1, <1>4, <1>5, <1>6 DEF IInv, NewestIsLast, InOrder
<1>10. LastIsSomewhere'
  BY <1>5, <1>6 DEF LastIsSomewhere, Somewhere
<1>11. Scored(pipeline)'
  BY <1>5, <1>6 DEF Scored
<1>12. WaitsForLast' /\ ContextIsSent' /\ ContextFromThisTurn'
  BY <1>1 DEF WaitsForLast, ContextIsSent, NoContext, ContextFromThisTurn
<1> QED
  BY <1>5, <1>6, <1>7, <1>8, <1>9, <1>10, <1>11, <1>12 DEF IInv, Typing

-----------------------------------------------------------------------------
(* The knowledge worker *)

\* What its steps leave alone.
LEMMA PipelineStays ==
  ASSUME IInv, UNCHANGED <<pc, text, pipeline, awaited, context, utterance>>
  PROVE  /\ InBounds' /\ Scored(pipeline)' /\ WaitsForLast' /\ ContextIsSent'
         /\ ContextFromThisTurn'
BY DEF IInv, Typing, InBounds, Scored, WaitsForLast, ContextIsSent, ContextFromThisTurn

\* The newest request is taken, and it is the last one the pipeline knows of.
LEMMA StartSearchStep ==
  ASSUME IInv, StartSearch
  PROVE  IInv'
<1>1. /\ requests # <<>> /\ search = None /\ search' = Last(requests) /\ requests' = <<>>
      /\ coalesced' = coalesced \cup {requests[i].id : i \in {j \in 1..Len(requests) :
                                                                requests[j] # Last(requests)}}
      /\ UNCHANGED <<pc, text, pipeline, awaited, context, results, workerOpen, utterance>>
  BY DEF StartSearch, Newest
<1>2. requests \in Seq(Search)
  BY DEF IInv, Typing, TypeOK
<1>3. PICK n \in Nat : n = Len(requests) /\ n > 0
  BY <1>1, <1>2, EmptySeq, LenProperties
<1>4. PICK r \in Search : r = requests[n] /\ search' = r
  BY <1>1, <1>2, <1>3, ElementOfSeq DEF Last
<1>5. r # None
  BY <1>4, NoSearchAssumption
<1>6. ASSUME NEW i \in 1..n, requests[i] # r
      PROVE  requests[i].id \in SearchId /\ requests[i].id < r.id
  <2>1. requests[i] \in Search
    BY <1>2, <1>3, ElementOfSeq
  <2>2. i < n /\ n \in 1..n
    BY <1>3, <1>4, <1>6
  <2>3. requests[i].id < requests[n].id
    BY <1>3, <2>2 DEF IInv, NewestIsLast, InOrder
  <2> QED
    BY <1>4, <2>1, <2>3 DEF Search
<1>7. /\ requests' \in Seq(Search) /\ Len(requests') = 0
  BY <1>1, EmptySeq
<1>8. coalesced' \subseteq SearchId
  BY <1>1, <1>3, <1>4, <1>6 DEF IInv, Typing, TypeOK, Last
<1>9. Typing'
  <2>1. TypeOK'
    BY <1>1, <1>4, <1>7, <1>8 DEF IInv, Typing, TypeOK
  <2> QED
    BY <1>1, <2>1, PipelineStays DEF IInv, Typing
<1>10. NewestIsLast'
  <2>1. \A i \in coalesced' :
          i \in coalesced \/ \E j \in 1..n : requests[j] # r /\ requests[j].id = i
    BY <1>1, <1>3, <1>4 DEF Last
  <2>2. \A i \in coalesced' : i < pipeline.nextId
    BY <1>3, <2>1 DEF IInv, NewestIsLast, InOrder
  <2>3. pipeline.lastId # None => pipeline.lastId \notin coalesced'
    <3>1. SUFFICES ASSUME pipeline.lastId # None, pipeline.lastId \in coalesced'
                   PROVE  FALSE
      OBVIOUS
    <3>2. pipeline.lastId \notin coalesced /\ r.id = pipeline.lastId
      BY <1>1, <1>3, <1>4, <3>1 DEF IInv, NewestIsLast, InOrder
    <3>3. PICK j \in 1..n : requests[j] # r /\ requests[j].id = r.id
      BY <2>1, <3>1, <3>2
    <3>4. requests[j].id < r.id /\ requests[j].id \in Int
      BY <1>6, <3>3 DEF SearchId
    <3> QED
      BY <3>3, <3>4
  <2> QED
    BY <1>1, <1>7, <2>2, <2>3 DEF NewestIsLast, InOrder
<1>11. LastIsSomewhere'
  <2>1. SUFFICES ASSUME pc # "sending", pipeline.lastId # None
                 PROVE  Somewhere(pipeline, requests', search', results, workerOpen)
    BY <1>1 DEF LastIsSomewhere, Somewhere
  <2>2. Somewhere(pipeline, requests, search, results, workerOpen)
    BY <2>1 DEF IInv, LastIsSomewhere
  <2>3. CASE \E i \in 1..Len(requests) : IsLast(requests[i], pipeline)
    <3>1. PICK i \in 1..n : IsLast(requests[i], pipeline)
      BY <1>3, <2>3
    <3>2. requests[i].id = r.id
      BY <1>1, <1>3, <1>4, <2>1, <3>1 DEF IInv, NewestIsLast, InOrder, IsLast
    <3>3. requests[i] = r
      <4>1. SUFFICES ASSUME requests[i] # r
                     PROVE  FALSE
        OBVIOUS
      <4>2. requests[i].id < r.id /\ requests[i].id \in Int
        BY <1>6, <4>1 DEF SearchId
      <4> QED
        BY <3>2, <4>2
    <3>4. search' # None /\ IsLast(search', pipeline)
      BY <1>4, <1>5, <3>1, <3>3
    <3> QED
      BY <3>4 DEF Somewhere
  <2> QED
    BY <1>1, <2>1, <2>2, <2>3 DEF Somewhere
<1> QED
  BY <1>1, <1>9, <1>10, <1>11, PipelineStays DEF IInv

LEMMA FinishSearchStep ==
  ASSUME IInv, FinishSearch
  PROVE  IInv'
<1>1. PICK report \in Report \cup {Failure} :
         results' = Append(results, [id |-> search.id, turn |-> search.turn,
                                     query |-> search.query, report |-> report,
                                     utterance |-> search.utterance])
  BY DEF FinishSearch
<1>2. /\ search # None /\ search' = None
      /\ UNCHANGED <<pc, text, pipeline, awaited, context, requests, workerOpen, utterance,
                     coalesced>>
  BY DEF FinishSearch
<1>3. PICK was \in Search : was = search
  BY <1>2 DEF IInv, Typing, TypeOK
<1>4. PICK r : r = [id |-> was.id, turn |-> was.turn, query |-> was.query, report |-> report,
                    utterance |-> was.utterance]
  OBVIOUS
<1>5. r \in SearchResult /\ r.id = was.id /\ r.turn = was.turn
  BY <1>4 DEF SearchResult, Search
<1>6. results \in Seq(SearchResult) /\ results' = Append(results, r)
  BY <1>1, <1>3, <1>4 DEF IInv, Typing, TypeOK
<1>7. PICK n \in Nat : n = Len(results)
  BY <1>6, LenProperties
<1>8. /\ results' \in Seq(SearchResult) /\ Len(results') = n + 1 /\ results'[n + 1] = r
      /\ \A i \in 1..n : results'[i] = results[i]
  BY <1>5, <1>6, <1>7, AppendProperties
<1>9. Typing'
  <2>1. TypeOK'
    BY <1>2, <1>8 DEF IInv, Typing, TypeOK
  <2> QED
    BY <1>2, <2>1, PipelineStays DEF IInv, Typing
<1>10. NewestIsLast'
  BY <1>2 DEF IInv, NewestIsLast
<1>11. LastIsSomewhere'
  <2>1. SUFFICES ASSUME pc # "sending", pipeline.lastId # None
                 PROVE  Somewhere(pipeline, requests, None, results', workerOpen)
    BY <1>2 DEF LastIsSomewhere, Somewhere
  <2>2. Somewhere(pipeline, requests, was, results, workerOpen)
    BY <1>3, <2>1 DEF IInv, LastIsSomewhere
  <2>3. \A i \in 1..n : i \in 1..(n + 1)
    OBVIOUS
  <2>4. CASE IsLast(was, pipeline)
    <3>1. Answers(results'[n + 1], pipeline) /\ n + 1 \in 1..Len(results')
      BY <1>5, <1>8, <2>4 DEF Answers, IsLast
    <3> QED
      BY <3>1 DEF Somewhere
  <2>5. CASE \E i \in 1..Len(results) : Answers(results[i], pipeline)
    <3>1. PICK i \in 1..n : Answers(results[i], pipeline)
      BY <1>7, <2>5
    <3>2. Answers(results'[i], pipeline) /\ i \in 1..Len(results')
      BY <1>8, <2>3, <3>1
    <3> QED
      BY <3>2 DEF Somewhere
  <2> QED
    BY <2>1, <2>2, <2>4, <2>5 DEF Somewhere
<1> QED
  BY <1>2, <1>9, <1>10, <1>11, PipelineStays DEF IInv

LEMMA WorkerEndsStep ==
  ASSUME IInv, WorkerEnds
  PROVE  IInv'
<1>1. /\ workerOpen' = FALSE /\ requests' = <<>> /\ search' = None
      /\ UNCHANGED <<pc, text, pipeline, awaited, context, results, utterance, coalesced>>
  BY DEF WorkerEnds
<1>2. requests' \in Seq(Search) /\ Len(requests') = 0
  BY <1>1, EmptySeq
<1>3. workerOpen' \in BOOLEAN
  BY <1>1, Zenon
<1>4. TypeOK'
  BY <1>1, <1>2, <1>3 DEF IInv, Typing, TypeOK
<1>5. NewestIsLast'
  BY <1>1, <1>2 DEF IInv, NewestIsLast, InOrder
<1>6. LastIsSomewhere'
  BY <1>1 DEF LastIsSomewhere, Somewhere
<1> QED
  BY <1>1, <1>4, <1>5, <1>6, PipelineStays DEF IInv, Typing

LEMMA NothingHappens ==
  ASSUME IInv, UNCHANGED vars
  PROVE  IInv'
<1>1. UNCHANGED <<pc, text, pipeline, awaited, context, utterance, requests, search, results,
                  workerOpen, coalesced>>
  BY DEF vars, worker
<1>2. TypeOK'
  BY <1>1 DEF IInv, Typing, TypeOK
<1>3. NewestIsLast' /\ LastIsSomewhere'
  BY <1>1 DEF IInv, NewestIsLast, LastIsSomewhere
<1> QED
  BY <1>1, <1>2, <1>3, PipelineStays DEF IInv, Typing

-----------------------------------------------------------------------------
(* The specification *)

LEMMA InitIInv == Init => IInv
<1> SUFFICES ASSUME Init
             PROVE  IInv
  OBVIOUS
<1>1. 0 \in Turn /\ 0 \in 0..MaxSearches
  BY BoundsAssumption DEF Turn
<1>2. PICK p : p = pipeline /\ p = NewTurn(0, 0)
  BY DEF Init
<1>3. /\ p \in Pipelines /\ Scored(p) /\ p.turn = 0 /\ p.nextId = 0 /\ p.lastId = None
  BY <1>1, <1>2, NewTurnIs
<1>4. /\ requests \in Seq(Search) /\ results \in Seq(SearchResult) /\ Len(requests) = 0
      /\ context \in [snippets : SUBSET Snippets, failed : BOOLEAN] /\ context.snippets = {}
  BY EmptySeq DEF Init, NoContext
<1>5. TypeOK
  BY <1>1, <1>2, <1>3, <1>4, PipelineIs DEF Init, TypeOK
<1>6. InBounds
  BY <1>2, <1>3 DEF Init, InBounds
<1>7. NewestIsLast /\ LastIsSomewhere
  BY <1>2, <1>3, <1>4 DEF Init, NewestIsLast, InOrder, LastIsSomewhere, Somewhere
<1>8. WaitsForLast /\ ContextIsSent /\ ContextFromThisTurn
  BY <1>4 DEF Init, WaitsForLast, ContextIsSent, ContextFromThisTurn
<1> QED
  BY <1>2, <1>3, <1>5, <1>6, <1>7, <1>8 DEF IInv, Typing

LEMMA NextIInv == IInv /\ [Next]_vars => IInv'
<1> SUFFICES ASSUME IInv, [Next]_vars
             PROVE  IInv'
  OBVIOUS
<1>1. CASE \E query \in Texts, isFinal, due \in BOOLEAN : Hear(query, isFinal, due)
  BY <1>1, HearStep
<1>2. CASE DropShort \/ Discard \/ Submit
  BY <1>2, DropShortStep, ResetStep
<1>3. CASE Resolve \/ TakeResult \/ Deadline \/ ResultsClosed
  BY <1>3, ResolveStep, TakeResultStep, DeadlineStep
<1>4. CASE StartSearch \/ FinishSearch \/ WorkerEnds
  BY <1>4, StartSearchStep, FinishSearchStep, WorkerEndsStep
<1>5. CASE Silence \/ UNCHANGED vars
  BY <1>5, NothingHappens DEF Silence
<1> QED
  BY <1>1, <1>2, <1>3, <1>4, <1>5 DEF Next

LEMMA Invariance == Spec => []IInv
BY InitIInv, NextIInv, PTL DEF Spec

\* The pipeline of app/retrieval.rs and the channels of the knowledge worker
\* keep their types, and completed searches are ones that were dispatched.
THEOREM TypeCorrect == Spec => []TypeOK
<1>1. IInv => TypeOK
  BY DEF IInv, Typing
<1> QED
  BY <1>1, Invariance, PTL

\* The search resolve() waits for is never one the knowledge worker skips, and
\* until the wait ends it is queued, under way or answered, unless a search of
\* the turn failed or the worker has gone.
THEOREM WaitsCanBeAnswered == Spec => []AwaitedCanAnswer
<1>1. IInv => AwaitedCanAnswer
  <2> SUFFICES ASSUME IInv, pc = "waiting"
               PROVE  AwaitedCanAnswer
    BY DEF AwaitedCanAnswer, AwaitedIsNotSkipped, AwaitedIsForThisText
  <2>1. /\ awaited # None /\ pipeline.lastId = awaited /\ pipeline.lastQuery = text
        /\ awaited \notin DOMAIN pipeline.completed
    BY DEF IInv, WaitsForLast
  <2>2. AwaitedIsNotSkipped
    BY <2>1 DEF IInv, NewestIsLast, InOrder, AwaitedIsNotSkipped
  <2>3. Somewhere(pipeline, requests, search, results, workerOpen)
    BY DEF IInv, LastIsSomewhere
  <2>4. AwaitedIsForThisText
    BY <2>1, <2>3 DEF Somewhere, IsLast, Answers, AwaitedIsForThisText
  <2> QED
    BY <2>2, <2>4 DEF AwaitedCanAnswer
<1> QED
  BY <1>1, Invariance, PTL

\* turn_id keeps turns apart: whatever answers arrive late, the context
\* resolve() returns holds only what searches of its own turn found.
THEOREM TurnsDoNotMix == Spec => []ContextFromThisTurn
<1>1. IInv => ContextFromThisTurn
  BY DEF IInv
<1> QED
  BY <1>1, Invariance, PTL
=============================================================================
