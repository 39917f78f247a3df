--------------------------- MODULE MCDeepgramStt ---------------------------
(* Two frames, and a command channel of one place, so that a KeepAlive can *)
(* stand in the way of CloseStream.  Connections are not bounded.            *)
EXTENDS DeepgramStt
=============================================================================
