--------------------------- MODULE MCOrderStatus ---------------------------
(* Two orders of two tenants.  MCApart gives them merchant_order_ids of     *)
(* their own, MCShared one and the same.                                    *)
EXTENDS OrderStatus

CONSTANTS o1, o2, t1, t2, g1

MCTenantOf == [o \in Orders |-> IF o = o1 THEN t1 ELSE t2]
MCApart == [o \in Orders |-> o]
MCShared == [o \in Orders |-> "ORD-1"]
MCPollerOrder == [g \in Pollers |-> o1]
=============================================================================
