------------------------- MODULE MCWebhookDispatch -------------------------
(* Notices in the memory of one worker: a crash takes all of them.          *)
EXTENDS WebhookDispatch

CONSTANTS d1, d2, u1

MCWorkerOf == [d \in Tasks |-> u1]
=============================================================================
