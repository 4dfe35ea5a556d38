--------------------------- MODULE MCCapsManager ---------------------------
EXTENDS CapsManager, TLC
CONSTANTS a, b, n, v1, v2, e

MCClients == {[node |-> n, ver |-> v1, exts |-> {e}], [node |-> n, ver |-> v2, exts |-> {e}],
              [node |-> n, ver |-> NoVersion, exts |-> {}]}
MCSymmetry == Permutations(Jids)
=============================================================================
