------------------------------ MODULE MCSession ------------------------------
(* Three controls, and two statuses of the recognisers of both speakers: one *)
(* connects, or fails to.                                                    *)
EXTENDS Session
=============================================================================
