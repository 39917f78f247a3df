---------------------------- MODULE MCOutputWorker ----------------------------
(***************************************************************************)
(* Small instances of OutputWorker.                                        *)
(***************************************************************************)
EXTENDS OutputWorker

Quiet ==
  [sink |-> "terminal", questions |-> [s \in Speakers |-> 0], modes |-> {"voice"},
   answers |-> 2, words |-> 0, marks |-> 0, deltas |-> 1, usage |-> FALSE, clears |-> 0,
   failures |-> FALSE, notices |-> <<>>]

\* The two speakers ask at the same time.
Answers ==
  [Quiet EXCEPT !.questions = [s \in Speakers |-> 1], !.modes = {"live_coding"},
                !.words = 1]

\* An answer is long enough for several notes to wait.
Notes ==
  [Quiet EXCEPT !.failures = TRUE, !.questions.candidate = 1, !.deltas = 2, !.usage = TRUE,
                !.notices = <<"Status", "ModeChanged", "Status">>]

\* The interviewer speaks, stops and speaks again; no answer comes yet.
Speech == [Quiet EXCEPT !.questions.interviewer = 2, !.modes = {"live_coding"}, !.answers = 0,
                        !.words = 3, !.marks = 1]

\* A question of several segments and utterances.
Segments == [Quiet EXCEPT !.questions.interviewer = 1, !.modes = {"live_coding"}, !.words = 2,
                          !.marks = 1]

\* The history is cleared between live-coding answers.
LiveCoding ==
  [Quiet EXCEPT !.questions.candidate = 2, !.modes = {"voice", "live_coding"},
                !.clears = 1]

\* One question, with its retrieval, where anything may fail.
Failures == [Quiet EXCEPT !.failures = TRUE, !.questions.interviewer = 1, !.words = 1]

\* The same with the overlay's channel as the sink: the overlay quits.
Overlay == [Failures EXCEPT !.sink = "overlay"]

MCScenarios == {Answers, Notes, Speech, Segments, LiveCoding, Failures, Overlay}
MCStop == {[Quiet EXCEPT !.sink = "overlay", !.notices = <<"Status">>]}
=============================================================================
