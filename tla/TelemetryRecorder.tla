--------------------------- MODULE TelemetryRecorder ---------------------------
(***************************************************************************)
(* TelemetryRecorder of telemetry.rs: what the recorder gathers for the    *)
(* summary while it writes the events down.                                *)
(*                                                                         *)
(* A time is the number of the interviewer's questions that were ready     *)
(* before it, which tells the speech of one question from that of another; *)
(* the times of an answer are the set of those that were noted.  A delta   *)
(* is its number, a final transcript a word, and a boundary always comes   *)
(* with the end of its last word.  Counters, latencies and the wording of  *)
(* the records are left out, and so is the speech of the candidate, which  *)
(* is only written down.                                                   *)
(***************************************************************************)
EXTENDS Integers, Sequences

CONSTANTS
  Requests,  \* the request ids: <<speaker, number>>
  None       \* no request, no time

Interviewer == "interviewer"

\* draft_started_ms and the last_* fields
NoTimes == [draft |-> None, final |-> None, speechFinal |-> None, utteranceEnd |-> None,
            wordEnd |-> None, toBoundary |-> None]

\* RequestMetrics::default()
NoMetrics == [noted |-> {}, speech |-> NoTimes, answer |-> <<>>]

NewUtterance == [noted |-> {}, text |-> <<>>]

\* utteranceOpen: active_utterance, always the last one.
EmptyRecorder ==
  [now |-> 0, requests |-> [r \in Requests |-> NoMetrics], active |-> None, last |-> NoTimes,
   draftActive |-> FALSE, utterances |-> <<>>, utteranceOpen |-> FALSE, segments |-> <<>>,
   pending |-> <<>>, liveCoding |-> <<>>]

-----------------------------------------------------------------------------
(* Requests *)

Note(rec, r, what) == [rec EXCEPT !.requests[r].noted = @ \cup {what}]

\* Faulty: a question of the candidate takes the times of the speech, too.
FaultyQuestion(rec, r) ==
  [Note(rec, r, "ready") EXCEPT !.requests[r].speech = rec.last, !.last = NoTimes,
                                !.draftActive = FALSE, !.now = @ + 1]

\* A question of the interviewer takes the times of the speech before it.
Question(rec, r) ==
  LET noted == Note(rec, r, "ready")
  IN  IF r[1] # Interviewer
      THEN noted
      ELSE [noted EXCEPT !.requests[r].speech = rec.last, !.last = NoTimes,
                         !.draftActive = FALSE, !.now = @ + 1]

Started(rec, r) == [Note(rec, r, "started") EXCEPT !.active = r]

Delta(rec, r, delta) ==
  [Note(rec, r, "token") EXCEPT !.requests[r].answer = Append(@, delta)]

Completed(rec, r) == [Note(rec, r, "completed") EXCEPT !.active = None]

\* An error of the LLM worker fails the request being answered.
Failed(rec) ==
  IF rec.active = None THEN rec ELSE [Note(rec, rec.active, "failed") EXCEPT !.active = None]

\* A revision is of the request being answered, or of none.
Revised(rec) == [rec EXCEPT !.liveCoding = Append(@, rec.active)]

-----------------------------------------------------------------------------
(* Speech of the interviewer *)

StartDraft(rec) ==
  [rec EXCEPT !.draftActive = TRUE, !.last = [NoTimes EXCEPT !.draft = rec.now]]

Draft(rec, empty) ==
  IF empty THEN [rec EXCEPT !.draftActive = FALSE]
  ELSE IF rec.draftActive THEN rec
  ELSE [rec EXCEPT !.draftActive = TRUE, !.last.draft = rec.now]

NoteUtterance(rec, what) == [rec EXCEPT !.utterances[Len(rec.utterances)].noted = @ \cup {what}]

WithUtterance(rec) ==
  IF rec.utteranceOpen
  THEN rec
  ELSE [rec EXCEPT !.utterances = Append(@, NewUtterance), !.utteranceOpen = TRUE]

\* finish_recognition_segment
FinishSegment(rec) ==
  IF rec.pending = <<>>
  THEN rec
  ELSE [rec EXCEPT !.segments = Append(@, rec.pending), !.pending = <<>>]

Interim(rec) == NoteUtterance(rec, "interim")

Final(rec, word) ==
  [NoteUtterance(rec, "final") EXCEPT
     !.last.final = rec.now, !.last.wordEnd = rec.now,
     !.utterances[Len(rec.utterances)].text = Append(@, word),
     !.pending = Append(@, word)]

\* Faulty: the segment is not finished, only copied.
FaultySpeechFinal(rec) ==
  [NoteUtterance(rec, "speechFinal") EXCEPT
     !.last.speechFinal = rec.now, !.last.toBoundary = rec.now,
     !.segments = Append(@, rec.pending)]

\* A speech_final that was not deferred
SpeechFinal(rec) ==
  FinishSegment([NoteUtterance(rec, "speechFinal") EXCEPT
                   !.last.speechFinal = rec.now, !.last.toBoundary = rec.now])

Transcript(rec, e) ==
  LET drafted == IF rec.draftActive THEN rec ELSE StartDraft(rec)
      opened  == WithUtterance(drafted)
      heard   == IF e.final THEN Final(opened, e.word) ELSE Interim(opened)
  IN  IF e.boundary THEN SpeechFinal(heard) ELSE heard

\* A second start closes the utterance that had one.
SpeechStarted(rec) ==
  LET drafted == StartDraft(rec)
      closed  == [drafted EXCEPT
                    !.utteranceOpen = @ /\ "speechStarted" \notin
                                             rec.utterances[Len(rec.utterances)].noted]
  IN  NoteUtterance(WithUtterance(closed), "speechStarted")

\* An utterance end that was neither ignored nor deferred.
UtteranceEnd(rec) ==
  LET ended  == IF rec.utteranceOpen
                THEN [NoteUtterance(rec, "utteranceEnd") EXCEPT !.utteranceOpen = FALSE]
                ELSE rec
      timed  == [ended EXCEPT !.last.utteranceEnd = IF rec.draftActive THEN rec.now ELSE @,
                              !.last.wordEnd = rec.now, !.last.toBoundary = rec.now]
  IN  FinishSegment(timed)

-----------------------------------------------------------------------------
\* record(): every other event is written down and leaves no trace here.
Record(rec, e) ==
  CASE e.kind = "Transcript"        -> Question(rec, e.id)
    [] e.kind = "Retrieval"         -> Note(rec, e.id, "retrieval")
    [] e.kind = "LlmQueued"         -> Note(rec, e.id, "queued")
    [] e.kind = "AnswerStarted"     -> Started(rec, e.id)
    [] e.kind = "AnswerDelta"       -> Delta(rec, e.id, e.delta)
    [] e.kind = "AnswerUsage"       -> Note(rec, e.id, "usage")
    [] e.kind = "AnswerCompleted"   -> Completed(rec, e.id)
    [] e.kind = "LlmError"          -> Failed(rec)
    [] e.kind = "LiveCodingUpdated" -> Revised(rec)
    [] e.kind = "TranscriptDraft"   -> Draft(rec, e.empty)
    [] e.kind = "SttTranscript"     -> Transcript(rec, e)
    [] e.kind = "SpeechStarted"     -> SpeechStarted(rec)
    [] e.kind = "UtteranceEnd"      -> IF e.applied THEN UtteranceEnd(rec) ELSE rec
    [] OTHER                        -> rec

\* finish(): a segment that was not finished is one, too.
Summarised(rec) == FinishSegment(rec)

Noted(rec, what) == {r \in Requests : what \in rec.requests[r].noted}
=============================================================================
