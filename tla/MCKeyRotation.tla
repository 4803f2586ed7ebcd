--------------------------- MODULE MCKeyRotation ---------------------------
(* One tenant that is there and one that can be registered, two workers of   *)
(* which either may be restarted late, and two rotations.                    *)
EXTENDS KeyRotation, TLC

CONSTANTS t1, t2, w1, w2, a1, a2, a3

Twins == Permutations({w1, w2}) \union Permutations({a1, a2, a3})
=============================================================================
