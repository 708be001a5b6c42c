------------------------------- MODULE MCHub -------------------------------
(* A small instance of module Hub. *)
EXTENDS Hub, TLC

CONSTANTS c1, i1

OneId == c1 :> i1

=============================================================================
