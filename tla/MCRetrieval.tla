---------------------------- MODULE MCRetrieval ----------------------------
(* One text that is long enough to be a question, one that is not, and two   *)
(* snippets that compete for a single place in the context.                  *)
EXTENDS Retrieval

CONSTANTS short, long, s1, s2

MCTexts == {short, long}
MCLong == {long}
MCSnippets == {s1, s2}
=============================================================================
