--------------------------- MODULE TerminalRenderer ---------------------------
(***************************************************************************)
(* TerminalRenderer of output/terminal.rs, and the statistics both sinks   *)
(* keep of the events that pass.                                           *)
(*                                                                         *)
(* The terminal is a sequence of blocks: an answer with its deltas, which  *)
(* is one line that stays open until the answer ends, or a note (a status, *)
(* a question, an error), which is known by its place among the notes.     *)
(***************************************************************************)
EXTENDS Integers, Sequences

CONSTANT None  \* no answer

NoStats == [started |-> 0, completed |-> 0, failed |-> 0, transcripts |-> 0, statuses |-> 0]

\* stopped: the overlay was told that the pipeline stopped.
EmptyTerminal ==
  [active |-> None, pending |-> <<>>, stats |-> NoStats, screen |-> <<>>, stopped |-> FALSE]

Silent == {"SttTranscript", "SpeechStarted", "UtteranceEnd", "TranscriptDraft", "Retrieval",
           "LlmQueued", "AnswerUsage"}

\* A block of the screen: an answer, a question or another note.  place is that of
\* a passive event, 0 for an answer.
Block(what, id, place) ==
  [what |-> what, id |-> id, place |-> place, deltas |-> <<>>, end |-> "open"]

Shown(t, block) == [t EXCEPT !.screen = Append(@, block)]

\* The stream of the answer that is shown.
Streamed(t, delta) == [t EXCEPT !.screen[Len(t.screen)].deltas = Append(@, delta)]

Begin(t, id) == Shown([t EXCEPT !.active = id, !.stats.started = @ + 1], Block("answer", id, 0))

Note(t, e) == Shown(t, Block("note", None, e.place))

\* render_passive: a queue is shown when it is longer than one.
RenderPassive(t, e) ==
  CASE e.kind = "AnswerStarted" -> Begin(t, e.id)
    [] e.kind = "Status"        -> Note([t EXCEPT !.stats.statuses = @ + 1], e)
    [] e.kind = "Transcript"    -> Shown([t EXCEPT !.stats.transcripts = @ + 1],
                                         Block("question", e.id, e.place))
    [] e.kind = "LlmError"      -> Note([t EXCEPT !.stats.failed = @ + 1], e)
    [] e.kind = "QueueState"    -> IF e.len > 1 THEN Note(t, e) ELSE t
    [] OTHER                    -> Note(t, e)

\* What is rendered while no answer is shown.
RenderIdle(t, e) ==
  IF e.kind \in Silent \cup {"AnswerDelta", "AnswerCompleted"} THEN t ELSE RenderPassive(t, e)

\* Faulty: only the first of the pending events is rendered.
FaultyFlushPending(t) ==
  IF t.pending = <<>> THEN t
                      ELSE RenderIdle([t EXCEPT !.pending = Tail(@)], Head(t.pending))

\* An event that waited is rendered, unless an answer has begun meanwhile.
Again(t, e) == IF t.active = None THEN RenderIdle(t, e) ELSE [t EXCEPT !.pending = Append(@, e)]

\* flush_pending: the events that wait, one after the other.
Flushing(t) ==
  LET flushed[n \in 0..Len(t.pending)] ==
        IF n = 0 THEN [t EXCEPT !.pending = <<>>] ELSE Again(flushed[n - 1], t.pending[n])
  IN  flushed

FlushPending(t) == Flushing(t)[Len(t.pending)]

End(t, how) == [t EXCEPT !.active = None, !.screen[Len(t.screen)].end = how]

\* render(): deltas and completions of another answer are dropped.
Render(t, e) ==
  IF t.active = None THEN RenderIdle(t, e)
  ELSE CASE e.kind \in Silent -> t
         [] e.kind = "AnswerDelta" -> IF e.id = t.active THEN Streamed(t, e.delta) ELSE t
         [] e.kind = "AnswerCompleted" ->
              IF e.id = t.active
              THEN FlushPending([End(t, "completed") EXCEPT !.stats.completed = @ + 1])
              ELSE t
         [] e.kind = "LlmError" -> FlushPending([End(t, "failed") EXCEPT !.stats.failed = @ + 1])
         [] OTHER -> [t EXCEPT !.pending = Append(@, e)]

\* update_stats of output/channel.rs; the overlay shows the events itself.
Forward(t, e) ==
  CASE e.kind = "Status"          -> [t EXCEPT !.stats.statuses = @ + 1, !.stopped = e.stopped]
    [] e.kind = "Transcript"      -> [t EXCEPT !.stats.transcripts = @ + 1]
    [] e.kind = "AnswerStarted"   -> [t EXCEPT !.stats.started = @ + 1]
    [] e.kind = "AnswerCompleted" -> [t EXCEPT !.stats.completed = @ + 1]
    [] e.kind = "LlmError"        -> [t EXCEPT !.stats.failed = @ + 1]
    [] OTHER                      -> t
=============================================================================
