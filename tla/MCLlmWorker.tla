---------------------------- MODULE MCLlmWorker ----------------------------
(* Two speakers, one of them the interviewer; codes of at most three lines.  *)
EXTENDS LlmWorker

CONSTANTS interviewer, candidate

MCSpeakers == {interviewer, candidate}

Line(content) == Append(content, "newline")

\* The interviewer's second code differs from the first in two places, the
\* candidate's is one line of it.
MCCode ==
  [r \in Request |->
     CASE r.speaker = candidate -> <<Line(<<"b">>)>>
       [] r.number = 1 -> <<Line(<<"a">>), Line(<<"b">>), Line(<<"c">>)>>
       [] OTHER -> <<Line(<<"x", "y">>), Line(<<"b">>), <<"c">>>>]

Ended == UNION {[1..n -> {Line(<<>>), Line(<<"a">>), Line(<<"b", "b">>)}] : n \in 0..3}
Unended == {[code EXCEPT ![Len(code)] = Front(@)] :
              code \in {c \in Ended : c # <<>> /\ Last(c) # Line(<<>>)}}
MCCodes == Ended \cup Unended
=============================================================================
