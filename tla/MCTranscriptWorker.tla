------------------------- MODULE MCTranscriptWorker -------------------------
(* Three words, one of each kind the boundary classifier tells apart that    *)
(* matters to the loop: a request word, a dangling word and a plain one.  A  *)
(* question needs two words and one word alone may be a short fragment.      *)
EXTENDS TranscriptWorker

MCWordClass == <<"plain", "dangling", "request">>
=============================================================================
