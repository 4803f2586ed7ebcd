----------------------------- MODULE MCRefunds ------------------------------
(* A refund, its retry with the same key and merchant_refund_id, and for    *)
(* the larger instance one of the admin's, who takes no key's lock.         *)
EXTENDS Refunds

CONSTANTS r1, r2, r3, k1, id1

MCApiKeyOf == [r \in Requests |-> IF r = r3 THEN None ELSE k1]
MCRefundIdOf == [r \in Requests |-> IF r = r3 THEN None ELSE id1]
=============================================================================
