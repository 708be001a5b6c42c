------------------------------ MODULE Delivery ------------------------------
(***************************************************************************)
(* What a network of the router promises for a message, without saying how *)
(* it chooses the receivers: the abstract specification of module Network. *)
(*                                                                         *)
(* A message is accepted or refused by who is a member when it comes.  Its *)
(* receivers are chosen once, among the members of that moment.  Each of   *)
(* them then gets the message once, or a write to it fails and it is no    *)
(* member any more.  The sender hears of it before anybody gets it.        *)
(***************************************************************************)
EXTENDS Naturals, Sequences

CONSTANTS
    Clients,    \* as in module Network
    Messages,
    TypeOf,
    SenderOf,
    TargetOf,
    NoAck

VARIABLES
    members,    \* the clients of the network
    phase,      \* "new", "accepted", "refused", "ready", "chosen" or "closed"
    chosen,     \* clients the message has still to be delivered to
    got,        \* clients it was delivered to
    told        \* replies to the sender

vars == <<members, phase, chosen, got, told>>

Init ==
    /\ members \in SUBSET Clients
    /\ phase = [m \in Messages |-> "new"]
    /\ chosen = [m \in Messages |-> {}]
    /\ got = [m \in Messages |-> {}]
    /\ told = [m \in Messages |-> <<>>]

\* A message may go to S when its receivers are chosen among the members.  A
\* Random or RoundRobin message may come back to its sender: the code leaves
\* out nobody, although RandomTest waits for it on the other clients only
\* (Network: RandomReachesAnother).
MayReach(m, S) ==
    \/ TypeOf[m] = "Direct" /\ S = {TargetOf[m]}
    \/ TypeOf[m] = "Broadcast" /\ S = members \ {SenderOf[m]}
    \/ TypeOf[m] \in {"Random", "RoundRobin"} /\ \E c \in members : S = {c}
    \/ TypeOf[m] \in {"Random", "RoundRobin"} /\ members = {} /\ S = {}

Become(m, p) == phase' = [phase EXCEPT ![m] = p]

Join(c) ==
    /\ members' = members \union {c}
    /\ UNCHANGED <<phase, chosen, got, told>>

Leave(c) ==
    /\ members' = members \ {c}
    /\ UNCHANGED <<phase, chosen, got, told>>

\* Only a Direct message is refused, and only if its receiver is not there.
Receive(m) ==
    /\ phase[m] = "new"
    /\ IF TypeOf[m] = "Direct" /\ TargetOf[m] \notin members THEN Become(m, "refused")
       ELSE IF m \in NoAck THEN Become(m, "ready") ELSE Become(m, "accepted")
    /\ UNCHANGED <<members, chosen, got, told>>

\* The sender is told, or is found to be gone.
Tell(m) ==
    /\ \/ phase[m] = "accepted" /\ Become(m, "ready")
       \/ phase[m] = "refused" /\ Become(m, "closed")
    /\ \/ /\ told' = [told EXCEPT ![m] =
                  Append(@, IF phase[m] = "accepted" THEN "ack" ELSE "error")]
          /\ UNCHANGED members
       \/ /\ members' = members \ {SenderOf[m]}
          /\ UNCHANGED told
    /\ UNCHANGED <<chosen, got>>

\* The receivers are chosen.
Choose(m) ==
    /\ phase[m] = "ready"
    /\ \E S \in SUBSET Clients :
          /\ MayReach(m, S)
          /\ chosen' = [chosen EXCEPT ![m] = S]
          /\ Become(m, IF S = {} THEN "closed" ELSE "chosen")
    /\ UNCHANGED <<members, got, told>>

\* One of them is served, or dropped; after the last the message is done with.
Serve(m, c) ==
    /\ phase[m] = "chosen"
    /\ c \in chosen[m]
    /\ chosen' = [chosen EXCEPT ![m] = @ \ {c}]
    /\ Become(m, IF chosen[m] = {c} THEN "closed" ELSE "chosen")
    /\ \/ /\ got' = [got EXCEPT ![m] = @ \union {c}]
          /\ UNCHANGED members
       \/ /\ members' = members \ {c}
          /\ UNCHANGED got
    /\ UNCHANGED told

Next ==
    \/ \E c \in Clients : Join(c) \/ Leave(c)
    \/ \E m \in Messages :
          \/ Receive(m) \/ Tell(m) \/ Choose(m)
          \/ \E c \in Clients : Serve(m, c)

Spec == Init /\ [][Next]_vars

=============================================================================
