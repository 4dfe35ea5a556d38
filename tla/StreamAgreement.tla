-------------------------- MODULE StreamAgreement --------------------------
(***************************************************************************)
(* What the negotiation of a bytestream promises its two users: each of    *)
(* them tries, and ends connected or without a connection; the connection  *)
(* is chosen once, and who is connected is connected by the chosen one.    *)
(* Who chooses, and how many connections compete, is not said here.        *)
(***************************************************************************)
CONSTANTS Peer, Stream, NoStream

VARIABLES
    phase,    \* phase[p]: how far the user p is
    choice,   \* the connection chosen, or NoStream
    using     \* using[p]: the connection p's user is given, or NoStream

vars == <<phase, choice, using>>

Init ==
    /\ phase = [p \in Peer |-> "out"]
    /\ choice = NoStream
    /\ using = [p \in Peer |-> NoStream]

Try(p) ==
    /\ phase[p] = "out"
    /\ phase' = [phase EXCEPT ![p] = "trying"]
    /\ UNCHANGED <<choice, using>>

Choose(p, s) ==
    /\ choice = NoStream
    /\ phase[p] = "trying"
    /\ choice' = s
    /\ UNCHANGED <<phase, using>>

\* p is connected, by the choice made before or, if there is none, its own.
Join(p, s) ==
    /\ phase[p] = "trying"
    /\ choice \in {NoStream, s}
    /\ choice' = s
    /\ phase' = [phase EXCEPT ![p] = "in"]
    /\ using' = [using EXCEPT ![p] = s]

Leave(p) ==
    /\ phase[p] \in {"trying", "in"}
    /\ phase' = [phase EXCEPT ![p] = "left"]
    /\ using' = [using EXCEPT ![p] = NoStream]
    /\ UNCHANGED choice

Next ==
    \E p \in Peer :
        \/ Try(p)
        \/ \E s \in Stream : Choose(p, s)
        \/ \E s \in Stream : Join(p, s)
        \/ Leave(p)

Spec == Init /\ [][Next]_vars

=============================================================================
