------------------------------ MODULE MCRouter ------------------------------
(* Small instances of module Router. *)
EXTENDS Router, TLC

CONSTANTS c1, c2, c3

\* Three connections of one network, the first and the last under one name.
SharedNameOf == (c1 :> "a") @@ (c2 :> "b") @@ (c3 :> "a")

\* Three connections of one network that all ask for the same name.
SameNameOf == (c1 :> "a") @@ (c2 :> "a") @@ (c3 :> "a")
OneNetOf == (c1 :> "n") @@ (c2 :> "n") @@ (c3 :> "n")

\* Two networks in which the same name is used once each.
TwoNetOf == (c1 :> "n") @@ (c2 :> "n") @@ (c3 :> "m")

\* Two connections of one network that ask for the same name.
PairNameOf == (c1 :> "a") @@ (c2 :> "a")
PairNetOf == (c1 :> "n") @@ (c2 :> "n")

=============================================================================
