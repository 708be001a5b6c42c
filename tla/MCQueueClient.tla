--------------------------- MODULE MCQueueClient ---------------------------
(* A small instance of module QueueClient. *)
EXTENDS QueueClient

CONSTANTS m1, m2, m3

\* No bound, one place, two places.
SmallSizes == {-1, 1, 2}

=============================================================================
