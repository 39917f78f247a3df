---------------------------- MODULE AppSnapshot ----------------------------
(***************************************************************************)
(* AppSnapshot of output/state.rs, the reducer both sinks show, with the   *)
(* live-coding state the overlay keeps beside it (overlay/mod.rs).  Only   *)
(* what the conversation is made of is here: the fields about speech       *)
(* recognition, drafts and queue lengths are left out.                     *)
(***************************************************************************)
EXTENDS Integers, Sequences

CONSTANTS
  None,  \* no request
  Blank  \* LiveCodingState::default()

\* A turn is known by its request; an answer is the deltas it is made of.
NewTurn(id) == [id |-> id, answer |-> <<>>, status |-> "Pending"]

EmptySnapshot ==
  [llmStatus |-> "Idle", currentId |-> None, current |-> <<>>, conversation |-> <<>>,
   liveCoding |-> Blank]

\* f applied to the turn of request id, if there is one.
Update(turns, id, f(_)) ==
  [i \in 1..Len(turns) |-> IF turns[i].id = id THEN f(turns[i]) ELSE turns[i]]

Show(s, id) ==
  IF \E i \in 1..Len(s.conversation) : s.conversation[i].id = id
  THEN s
  ELSE [s EXCEPT !.conversation = Append(@, NewTurn(id))]

Start(s, id) ==
  [s EXCEPT !.llmStatus = "Working", !.currentId = id, !.current = <<>>,
            !.conversation = Update(@, id, LAMBDA t : [t EXCEPT !.answer = <<>>,
                                                                !.status = "Streaming"])]

\* A delta of an answer that is not the current one is ignored.
Extend(s, id, delta) ==
  IF s.currentId # id
  THEN s
  ELSE [s EXCEPT !.current = Append(@, delta),
                 !.conversation = Update(@, id, LAMBDA t : [t EXCEPT !.answer =
                                                                       Append(@, delta)])]

Complete(s, id) ==
  IF s.currentId # id
  THEN s
  ELSE [s EXCEPT !.llmStatus = "Idle",
                 !.conversation = Update(@, id, LAMBDA t : [t EXCEPT !.status = "Completed"])]

\* Faulty: a failed answer goes on streaming.
FaultyFail(s) == [s EXCEPT !.llmStatus = "Error"]

Fail(s) ==
  [s EXCEPT !.llmStatus = "Error",
            !.conversation = Update(@, s.currentId, LAMBDA t : [t EXCEPT !.status = "Failed"])]

\* llm_status is left as it was.
Clear(s) ==
  [s EXCEPT !.currentId = None, !.current = <<>>, !.conversation = <<>>, !.liveCoding = Blank]

\* apply(), and the LiveCodingUpdated arm of apply_output().
Apply(s, e) ==
  CASE e.kind = "Transcript"        -> Show(s, e.id)
    [] e.kind = "AnswerStarted"     -> Start(s, e.id)
    [] e.kind = "AnswerDelta"       -> Extend(s, e.id, e.delta)
    [] e.kind = "AnswerCompleted"   -> Complete(s, e.id)
    [] e.kind = "LlmError"          -> Fail(s)
    [] e.kind = "LiveCodingUpdated" -> [s EXCEPT !.liveCoding = e.state]
    [] e.kind = "HistoryCleared"    -> Clear(s)
=============================================================================
