-------------------------- MODULE TranscriptWindow --------------------------
(***************************************************************************)
(* The TranscriptWindowAssembler of transcript/window.rs as operators on a *)
(* record, and the classifier of app/boundary.rs.  A text is a sequence of *)
(* words; a word counts as one character of MIN_UTTERANCE_CHARS, and       *)
(* WordClass says what the classifier sees in it.                          *)
(***************************************************************************)
EXTENDS Integers, Sequences, SequencesExt

CONSTANTS
  MinUtteranceChars,   \* MIN_UTTERANCE_CHARS, validated positive by config.rs
  ShortFragmentWords,  \* texts up to this length may be short fragments; 6 in the code
  WordClass            \* WordClass[w] is one of WordClasses

WordClasses == {"plain", "dangling", "setup", "request", "question", "mark"}

ASSUME MinUtteranceCharsAssumption == MinUtteranceChars \in Nat \ {0}
ASSUME ShortFragmentWordsAssumption == ShortFragmentWords \in Nat
ASSUME WordClassAssumption == WordClass \in Seq(WordClasses)

Word == DOMAIN WordClass
Text == Seq(Word)

\* pending_finals is kept joined: only its concatenation is ever read.
Window == [finals : Text, interim : Text, sent : Text, sequence : Nat]

EmptyWindow == [finals |-> <<>>, interim |-> <<>>, sent |-> <<>>, sequence |-> 0]

\* What current adds to an already sent previous; <<>> when nothing.
NovelText(previous, current) ==
  IF previous # <<>> /\ IsPrefix(previous, current)
  THEN SubSeq(current, Len(previous) + 1, Len(current))
  ELSE current

PushTranscript(w, text, isFinal) ==
  IF isFinal
  THEN [w EXCEPT !.finals = @ \o NovelText(w.sent, text),
                 !.interim = <<>>,
                 !.sent = <<>>]
  ELSE [w EXCEPT !.interim = text]

Preview(w) == w.finals \o NovelText(w.sent, w.interim)

HasUnfinalizedInterim(w) == w.interim # <<>>

DiscardPending(w) == [w EXCEPT !.finals = <<>>, !.interim = <<>>, !.sent = <<>>]

IsLongEnough(text) == Len(text) >= MinUtteranceChars

\* Faulty: a text that is too short uses up a sequence number.
FaultyFinish(w) == [DiscardPending(w) EXCEPT !.sequence = @ + 1]

\* finish() takes everything pending; a text that is too short is lost and
\* uses up no sequence number.
Finish(w) ==
  LET taken == DiscardPending(w)
  IN  IF IsLongEnough(Preview(w)) THEN [taken EXCEPT !.sequence = @ + 1] ELSE taken

-----------------------------------------------------------------------------
Has(text, class) == \E i \in 1..Len(text) : WordClass[text[i]] = class

Asks(text) == Has(text, "request") \/ Has(text, "question")

\* boundary_deferral(text) is Some: a speech boundary after this text does not
\* end the question.  A text that ends with a question mark always ends it.
BoundaryDeferral(text) ==
  /\ text # <<>>
  /\ WordClass[Last(text)] # "mark"
  /\ \/ WordClass[Last(text)] = "dangling"
     \/ Has(text, "setup") /\ ~Has(text, "request")
     \/ Len(text) <= ShortFragmentWords /\ ~Asks(text)
=============================================================================
