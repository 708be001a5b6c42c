---------------------------- MODULE MCCorrelation ----------------------------
(* Small instances of module Correlation. *)
EXTENDS Correlation, TLC

CONSTANTS c1, c2, i1, i2, i3

\* Every call has an id of its own.
OwnIds == (c1 :> i1) @@ (c2 :> i2)

=============================================================================
