-------------------------- MODULE MCOrderCreation --------------------------
(* Two calls about one order with different API keys, and one about another *)
(* order with the second key: r3 can wait for r2's key row while r2 waits   *)
(* for r1's index entry.                                                    *)
EXTENDS OrderCreation

CONSTANTS r1, r2, r3, o1, o2, k1, k2

MCRefOf == [r \in Requests |-> IF r = r3 THEN o2 ELSE o1]
MCApiKeyOf == [r \in Requests |-> IF r = r1 THEN k1 ELSE k2]
=============================================================================
