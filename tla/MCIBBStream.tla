---------------------------- MODULE MCIBBStream ----------------------------
(* Instances of IBBStream for TLC: alice connects, bob is asked.   *)
EXTENDS IBBStream, TLC

CONSTANTS alice, bob, i1, t1, t2

MCOther == (alice :> bob) @@ (bob :> alice)
MCHome == (i1 :> alice) @@ (t1 :> bob) @@ (t2 :> bob)
LiveMaxBytes == (i1 :> 3) @@ (t1 :> 1) @@ (t2 :> 1)
SafetyMaxBytes == (i1 :> 2) @@ (t1 :> 1) @@ (t2 :> 0)
=============================================================================
