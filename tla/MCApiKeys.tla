----------------------------- MODULE MCApiKeys -----------------------------
(* Two keys with the same first 12 characters: two requests with the first, *)
(* interchangeable, in one worker, and one with the second in another.      *)
EXTENDS ApiKeys, TLC

CONSTANTS r1, r2, r3, w1, w2, k1, k2, p1

MCWorkerOf == [r \in Requests |-> IF r = r3 THEN w2 ELSE w1]
MCKeyOf == [r \in Requests |-> IF r = r3 THEN k2 ELSE k1]
MCPrefixOf == [r \in Requests |-> p1]
Twins == Permutations({r1, r2})
=============================================================================
