---------------------------- MODULE MCAudioCapture ----------------------------
(* Frames of two bytes into a queue of one place, frames of three bytes into *)
(* an unbounded queue, and a sample rate that leaves nothing of a frame.     *)
EXTENDS AudioCapture

MCSettings ==
  {[rate |-> 500, channels |-> 1, chunkMs |-> 2, queueMax |-> 1],
   [rate |-> 250, channels |-> 2, chunkMs |-> 3, queueMax |-> 0],
   [rate |-> 100, channels |-> 1, chunkMs |-> 4, queueMax |-> 0]}
=============================================================================
