----------------------------- MODULE Retrieval -----------------------------
(***************************************************************************)
(* The retrieval pipeline of app/retrieval.rs, driven by the interviewer's *)
(* transcript worker, and the knowledge worker of knowledge/mod.rs.        *)
(*                                                                         *)
(* While text grows the pipeline sends searches ahead; at the end of the   *)
(* utterance it waits for the search of the final text and puts together   *)
(* a context.  The knowledge worker skips every queued search but the      *)
(* newest, so many searches are never answered, and answers arrive long    *)
(* after the text has changed.  turn_id separates one utterance's answers  *)
(* from the next one's.                                                    *)
(***************************************************************************)
EXTENDS Integers, Sequences, FiniteSets, SequencesExt

CONSTANTS
  Texts,          \* texts an utterance may have, trimmed
  Long,           \* those with at least MIN_UTTERANCE_CHARS characters
  Snippets,       \* ids of the indexed chunks
  TopK,           \* RAG_TOP_K
  None,           \* no text, no search
  MaxUtterances,  \* bound: utterances
  MaxSearches     \* bound: searches dispatched

ASSUME LongAssumption == Long \subseteq Texts
ASSUME NoneAssumption == None \notin Texts
ASSUME TopKAssumption == TopK \in Nat \ {0}
ASSUME SnippetsAssumption == IsFiniteSet(Snippets)
ASSUME BoundsAssumption == MaxUtterances \in Nat /\ MaxSearches \in Nat

VARIABLES
  pc,         \* the transcript worker: "listening", "waiting" (in resolve) or "sending"
  text,       \* what the assembler's preview shows
  pipeline,   \* RetrievalPipeline
  awaited,    \* search_id of the resolve under way
  context,    \* what resolve() returned: snippets, or an error
  requests,   \* the search request channel
  search,     \* the search the knowledge worker is on
  results,    \* the search result channel
  workerOpen, \* the knowledge worker lives
  utterance,  \* history: utterances ended so far
  coalesced   \* history: ids of searches the knowledge worker skipped

worker == <<requests, search, results, workerOpen, coalesced>>
vars == <<pc, text, pipeline, awaited, context, worker, utterance>>

\* Scores as the pipeline tells them apart: below min_score (which also
\* stands for no hit), at least min_score, and at least min_score plus
\* ACCUMULATED_SCORE_MARGIN.
Score == 0..2
Weak == 1
Strong == 2

\* A search finds at most top_k snippets.
Report == {r \in [Snippets -> Score] : Cardinality({s \in Snippets : r[s] > 0}) <= TopK}

\* The report of a search that failed: it says nothing of any snippet.
Failure == <<>>

SearchId == 0..(MaxSearches - 1)
Turn == 0..MaxUtterances

\* utterance is history: the one the text of the search belonged to.
Search == [id : SearchId, turn : Turn, query : Texts, utterance : Turn]

ASSUME NoSearchAssumption == None \notin Search

\* What is kept of a snippet; the rest is history: the search that found it.
Kept == [score : Score, turn : Turn, utterance : Turn, query : Texts \cup {None}]
NotFound == [score |-> 0, turn |-> 0, utterance |-> 0, query |-> None]

NewTurn(turn, nextId) ==
  [turn |-> turn, nextId |-> nextId, dispatched |-> FALSE, lastQuery |-> None, lastId |-> None,
   accumulated |-> [s \in Snippets |-> NotFound], completed |-> <<>>, failed |-> FALSE]

NoContext == [snippets |-> {}, failed |-> FALSE]

Init ==
  /\ pc = "listening"
  /\ text = None
  /\ pipeline = NewTurn(0, 0)
  /\ awaited = None
  /\ context = NoContext
  /\ requests = <<>>
  /\ search = None
  /\ results = <<>>
  /\ workerOpen = TRUE
  /\ utterance = 0
  /\ coalesced = {}

-----------------------------------------------------------------------------
(* accept_result, drain_ready, reset, dispatch *)

\* Faulty: the answers of an earlier turn are taken.
FaultyIsCurrent(p, r) == TRUE

IsCurrent(p, r) == r.turn = p.turn

Better(current, new) == new.score > current.score

\* Faulty: a failed search counts as completed.
FaultyAccept(p, r) ==
  IF IsCurrent(p, r) /\ r.report = Failure
  THEN [p EXCEPT !.failed = TRUE,
                 !.completed = [i \in DOMAIN @ \cup {r.id} |-> IF i = r.id THEN Failure ELSE @[i]]]
  ELSE p

\* completed maps the searches answered to their reports.
Accept(p, r) ==
  IF ~IsCurrent(p, r) THEN p
  ELSE IF r.report = Failure THEN [p EXCEPT !.failed = TRUE]
  ELSE LET found(s) == [score |-> r.report[s], turn |-> r.turn, utterance |-> r.utterance,
                        query |-> r.query]
       IN  [p EXCEPT
              !.accumulated = [s \in Snippets |-> IF Better(@[s], found(s)) THEN found(s)
                                                                             ELSE @[s]],
              !.completed = [i \in DOMAIN @ \cup {r.id} |-> IF i = r.id THEN r.report ELSE @[i]]]

\* The pipeline after each of the results that have arrived, from p on.
Draining(p) ==
  LET after[n \in 0..Len(results)] == IF n = 0 THEN p ELSE Accept(after[n - 1], results[n])
  IN  after

\* Everything that has arrived is taken.
Drain(p) == Draining(p)[Len(results)]

\* reset(): the drain at its end finds only answers of earlier turns.
Reset(p) == NewTurn(p.turn + 1, p.nextId)

\* dispatch(query) of p; an id is used up even when the worker is gone.
Dispatched(p, query) ==
  IF workerOpen
  THEN [p EXCEPT !.nextId = @ + 1, !.dispatched = TRUE, !.lastQuery = query, !.lastId = p.nextId]
  ELSE [p EXCEPT !.nextId = @ + 1, !.failed = TRUE]

Requested(p, query) ==
  IF workerOpen
  THEN Append(requests, [id |-> p.nextId, turn |-> p.turn, query |-> query,
                         utterance |-> utterance])
  ELSE requests

-----------------------------------------------------------------------------
(* The transcript worker *)

\* Nothing new, or too soon after the last search of an interim.
Skips(p, query, isFinal, due) ==
  query = p.lastQuery \/ (~isFinal /\ p.dispatched /\ ~due)

\* A transcript event changes the text, and prefetch() looks at it.  due: the
\* refresh interval has passed.
Hear(query, isFinal, due) ==
  LET p == Drain(pipeline)
  IN  /\ pc = "listening"
      /\ utterance < MaxUtterances
      /\ p.nextId + 1 < MaxSearches
      /\ text' = query
      /\ results' = <<>>
      /\ IF Skips(p, query, isFinal, due)
         THEN pipeline' = p /\ UNCHANGED requests
         ELSE pipeline' = Dispatched(p, query) /\ requests' = Requested(p, query)
      /\ UNCHANGED <<pc, awaited, context, search, workerOpen, utterance, coalesced>>

\* The text is thrown away because it is too short: queue_transcript_chunk
\* returns before it gets to the pipeline.
DropShort ==
  /\ pc = "listening"
  /\ text \in Texts \ Long
  /\ text' = None
  /\ utterance' = utterance + 1
  /\ UNCHANGED <<pc, pipeline, awaited, context, worker>>

\* A pause or a mode change.
Discard ==
  /\ pc = "listening"
  /\ utterance < MaxUtterances
  /\ text' = None
  /\ pipeline' = Reset(pipeline)
  /\ results' = <<>>
  /\ utterance' = utterance + 1
  /\ UNCHANGED <<pc, awaited, context, requests, search, workerOpen, coalesced>>

Final(p, id) == IF id \in DOMAIN p.completed THEN p.completed[id] ELSE [s \in Snippets |-> 0]

\* An earlier answer counts when it clears the margin.
IsExtra(p, s) == p.accumulated[s].score >= Strong

Candidates(p, id) == {s \in Snippets : Final(p, id)[s] > 0 \/ IsExtra(p, s)}

\* What the final search found, best first, then the others, best first.
Rank(p, id, s) ==
  IF Final(p, id)[s] > 0 THEN Strong + Final(p, id)[s] ELSE p.accumulated[s].score

\* The contexts of at most top_k snippets; ties are left open.  The cut by
\* max_context_chars is not modelled.
Contexts(p, id) ==
  LET all == Candidates(p, id)
      size == IF Cardinality(all) < TopK THEN Cardinality(all) ELSE TopK
  IN  {chosen \in SUBSET all :
         /\ Cardinality(chosen) = size
         /\ \A s \in chosen, t \in all \ chosen : Rank(p, id, s) >= Rank(p, id, t)}

\* resolve() puts the context together; an error is reported only when there
\* is nothing to show.
Finish(p, id) ==
  /\ pc' = "sending"
  /\ \E chosen \in Contexts(p, id) :
       LET failed == chosen = {} /\ p.failed
       IN  /\ context' = [snippets |-> chosen, failed |-> failed]
           /\ pipeline' = [p EXCEPT !.failed = p.failed /\ ~failed]

\* The last search sent is the one for this very text.
Reuses(p, query) == query = p.lastQuery

\* The utterance ends and resolve() is called with its text.
Resolve ==
  LET drained == Drain(pipeline)
      reuses == Reuses(drained, text)
      p == IF reuses THEN drained ELSE Dispatched(drained, text)
      id == IF reuses \/ workerOpen THEN p.lastId ELSE None
  IN  /\ pc = "listening"
      /\ text \in Long
      /\ results' = <<>>
      /\ requests' = IF reuses THEN requests ELSE Requested(drained, text)
      /\ awaited' = id
      /\ IF id = None \/ id \in DOMAIN p.completed
         THEN Finish(p, id)
         ELSE pc' = "waiting" /\ pipeline' = p /\ UNCHANGED context
      /\ UNCHANGED <<text, search, workerOpen, utterance, coalesced>>

TakeResult ==
  /\ pc = "waiting"
  /\ results # <<>>
  /\ results' = Tail(results)
  /\ LET p == Accept(pipeline, Head(results))
     IN  IF Head(results).id = awaited
         THEN Finish(p, awaited)
         ELSE pipeline' = p /\ UNCHANGED <<pc, context>>
  /\ UNCHANGED <<text, awaited, requests, search, workerOpen, utterance, coalesced>>

\* Faulty: the wait has no deadline.
FaultyDeadline ==
  /\ pc = "waiting"
  /\ ~workerOpen
  /\ Finish(pipeline, awaited)
  /\ UNCHANGED <<text, awaited, worker, utterance>>

\* final_wait_ms is over.
Deadline ==
  /\ pc = "waiting"
  /\ Finish(pipeline, awaited)
  /\ UNCHANGED <<text, awaited, worker, utterance>>

\* results.recv() returns None.
ResultsClosed ==
  /\ pc = "waiting"
  /\ results = <<>>
  /\ ~workerOpen
  /\ Finish([pipeline EXCEPT !.failed = TRUE], awaited)
  /\ UNCHANGED <<text, awaited, worker, utterance>>

\* The request is in the LLM queue; the pipeline starts a new turn.
Submit ==
  /\ pc = "sending"
  /\ pc' = "listening"
  /\ text' = None
  /\ pipeline' = Reset(pipeline)
  /\ results' = <<>>
  /\ awaited' = None
  /\ context' = NoContext
  /\ utterance' = utterance + 1
  /\ UNCHANGED <<requests, search, workerOpen, coalesced>>

-----------------------------------------------------------------------------
(* The knowledge worker *)

\* Faulty: the oldest request is kept and the rest is skipped.
FaultyNewest == Head(requests)

Newest == Last(requests)

\* recv(), then try_recv() until the channel is empty.
StartSearch ==
  /\ workerOpen
  /\ search = None
  /\ requests # <<>>
  /\ search' = Newest
  /\ coalesced' = coalesced \cup {requests[i].id : i \in {j \in 1..Len(requests) :
                                                             requests[j] # Newest}}
  /\ requests' = <<>>
  /\ UNCHANGED <<pc, text, pipeline, awaited, context, results, workerOpen, utterance>>

FinishSearch ==
  /\ workerOpen
  /\ search # None
  /\ \E report \in Report \cup {Failure} :
       results' = Append(results, [id |-> search.id, turn |-> search.turn, query |-> search.query,
                                   report |-> report, utterance |-> search.utterance])
  /\ search' = None
  /\ UNCHANGED <<pc, text, pipeline, awaited, context, requests, workerOpen, utterance, coalesced>>

\* The task ends early; what is in the result channel can still be taken.
WorkerEnds ==
  /\ workerOpen
  /\ workerOpen' = FALSE
  /\ requests' = <<>>
  /\ search' = None
  /\ UNCHANGED <<pc, text, pipeline, awaited, context, results, utterance, coalesced>>

-----------------------------------------------------------------------------
\* The interviewer says nothing more.
Silence == pc = "listening" /\ UNCHANGED vars

Next ==
  \/ \E query \in Texts, isFinal, due \in BOOLEAN : Hear(query, isFinal, due)
  \/ DropShort \/ Discard
  \/ Resolve \/ TakeResult \/ Deadline \/ ResultsClosed \/ Submit
  \/ StartSearch \/ FinishSearch \/ WorkerEnds
  \/ Silence

Spec == Init /\ [][Next]_vars

\* The timer of the wait expires.  Nothing is assumed of the knowledge worker
\* and its provider.
FairSpec == Spec /\ WF_vars(Deadline)

-----------------------------------------------------------------------------
SearchResult == [id : SearchId, turn : Turn, query : Texts, report : Report \cup {Failure},
                 utterance : Turn]

\* The type invariant: the RetrievalPipeline, whose completed searches are
\* reports under ids that were dispatched, and both channels of the worker.
TypeOK ==
  /\ pc \in {"listening", "waiting", "sending"}
  /\ text \in Texts \cup {None}
  /\ pipeline.turn \in Turn
  /\ pipeline.nextId \in 0..MaxSearches
  /\ pipeline.lastQuery \in Texts \cup {None}
  /\ pipeline.lastId \in SearchId \cup {None}
  /\ pipeline.accumulated \in [Snippets -> Kept]
  /\ DOMAIN pipeline.completed \subseteq SearchId
  /\ \A i \in DOMAIN pipeline.completed : pipeline.completed[i] \in Report
  /\ pipeline.dispatched \in BOOLEAN /\ pipeline.failed \in BOOLEAN
  /\ awaited \in SearchId \cup {None}
  /\ context \in [snippets : SUBSET Snippets, failed : BOOLEAN]
  /\ requests \in Seq(Search)
  /\ search \in Search \cup {None}
  /\ results \in Seq(SearchResult)
  /\ workerOpen \in BOOLEAN
  /\ utterance \in Turn
  /\ coalesced \subseteq SearchId

\* The search resolve() waits for is the newest one sent, so it is not among
\* those the knowledge worker skips: a wait is cut short by its deadline only
\* because the search is slow, has failed before, or its worker is gone.
AwaitedIsNotSkipped == pc = "waiting" => awaited \notin coalesced

\* resolve() waits for the search of the text it was called with: that search
\* is queued, under way, answered but not taken, or was taken as a failure.
AwaitedIsForThisText ==
  pc = "waiting" =>
    /\ pipeline.lastId = awaited
    /\ pipeline.lastQuery = text
    /\ \/ \E i \in 1..Len(requests) : requests[i].id = awaited /\ requests[i].query = text
       \/ search # None /\ search.id = awaited /\ search.query = text
       \/ \E i \in 1..Len(results) : results[i].id = awaited
       \/ pipeline.failed
       \/ ~workerOpen

\* A wait is not in vain: an answer for its text can still come.
AwaitedCanAnswer == AwaitedIsNotSkipped /\ AwaitedIsForThisText

\* A context holds only what the searches of its own turn found: an answer
\* that arrives after a reset is not mixed into the next question.
ContextFromThisTurn ==
  \A s \in context.snippets : pipeline.accumulated[s].turn = pipeline.turn

\* The wait ends, whatever the knowledge worker does.
ResolveReturns == pc = "waiting" ~> pc = "sending"

\* README.md:108, "stale results from an earlier utterance are discarded":
\* what is in a context was found for the utterance it is sent with, or at
\* least by a search for the very same text.
ContextFromThisUtterance ==
  \A s \in context.snippets :
    \/ pipeline.accumulated[s].utterance = utterance
    \/ pipeline.accumulated[s].query = text
=============================================================================
