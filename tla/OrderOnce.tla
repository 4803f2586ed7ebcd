----------------------------- MODULE OrderOnce -----------------------------
(* What POST /v1/orders promises its callers, with no database and no       *)
(* PhonePe in sight: an order reference is given at most one order, the     *)
(* order is never replaced, and every successful answer names it.  A        *)
(* request may also be answered with an error, or never.                    *)
CONSTANTS Requests,   \* the create calls; a client's retry is a call of its own
          Refs,       \* the (tenant_id, merchant_order_id) pairs
          RefOf,      \* the reference each call is about
          None,       \* no answer yet
          Error       \* an error answer

VARIABLES created,    \* the orders that exist, named by the call that made them
          answers     \* what each call was told

vars == <<created, answers>>

Init == /\ created = {}
        /\ answers = [r \in Requests |-> None]

Create(r) == /\ \A o \in created : RefOf[o] # RefOf[r]
             /\ created' = created \union {r}
             /\ UNCHANGED answers

AnswerOrder(r, o) == /\ answers[r] = None
                     /\ o \in created
                     /\ RefOf[o] = RefOf[r]
                     /\ answers' = [answers EXCEPT ![r] = o]
                     /\ UNCHANGED created

AnswerError(r) == /\ answers[r] = None
                  /\ answers' = [answers EXCEPT ![r] = Error]
                  /\ UNCHANGED created

Next == \E r \in Requests : \/ Create(r)
                            \/ AnswerError(r)
                            \/ \E o \in created : AnswerOrder(r, o)

Spec == Init /\ [][Next]_vars
=============================================================================
