--------------------------- MODULE MCCountedQueue ---------------------------
(* A bounded queue of one place, as the unit tests of both queues use, with  *)
(* three senders so that two can wait for the permit of the same pop.        *)
EXTENDS CountedQueue

CONSTANTS p1, p2, p3

MCProducers == {p1, p2, p3}
=============================================================================
