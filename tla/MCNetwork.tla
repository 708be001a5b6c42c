----------------------------- MODULE MCNetwork -----------------------------
(* Small instances of module Network. *)
EXTENDS Network, TLC

CONSTANTS s1, s2, s3, d1, d2, b1, r1, q1, q2

\* Two direct messages, a broadcast, a random and two round robin messages.
SixTypeOf ==
    (d1 :> "Direct") @@ (d2 :> "Direct") @@ (b1 :> "Broadcast")
    @@ (r1 :> "Random") @@ (q1 :> "RoundRobin") @@ (q2 :> "RoundRobin")
SixSenderOf ==
    (d1 :> s1) @@ (d2 :> s2) @@ (b1 :> s1) @@ (r1 :> s1) @@ (q1 :> s2) @@ (q2 :> s1)
SixTargetOf ==
    (d1 :> s2) @@ (d2 :> s1) @@ (b1 :> s1) @@ (r1 :> s1) @@ (q1 :> s1) @@ (q2 :> s1)

\* One client sends a random message.
OneTypeOf == r1 :> "Random"
OneSenderOf == r1 :> s1
OneTargetOf == r1 :> s1

=============================================================================
