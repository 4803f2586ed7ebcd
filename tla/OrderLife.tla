----------------------------- MODULE OrderLife -----------------------------
(* One order as the parts of the system see it from outside: its payment at *)
(* PhonePe, its row in the orders table and what deliveries without a       *)
(* signature have said of it.  OrderCreation stores the row, OrderStatus    *)
(* changes its status, and Refunds reads it; what each of them may take for *)
(* granted of the others is here.  An end without money, FAILED, EXPIRED or *)
(* one the tables do not name, is "FAILED"; a payment or a status that is   *)
(* open is "PENDING".                                                       *)
CONSTANT None

VARIABLES payment,    \* the order's payment at PhonePe
          status,     \* the committed orders.status, None before the order is stored
          claims      \* the ends that events without a signature named for the order

vars == <<payment, status, claims>>

Ends == {"COMPLETED", "FAILED"}

Init == /\ payment = "PENDING"
        /\ status = None
        /\ claims = {}

\* The create call commits.
OrderStored == /\ status = None
               /\ status' = "PENDING"
               /\ UNCHANGED <<payment, claims>>

\* The payment ends, once and for all.
PaymentEnds == /\ payment = "PENDING"
               /\ payment' \in Ends
               /\ UNCHANGED <<status, claims>>

\* The webhook takes an event that nobody signed at its word.
Claim == /\ status # None
         /\ \E end \in Ends : claims' = claims \union {end}
         /\ UNCHANGED <<payment, status>>

\* A poll or a webhook brings the status in line with the payment or with what an
\* unsigned event said, or a poll or a late event puts it back to PENDING.
StatusChanges == /\ status # None
                 /\ status' \in ({"PENDING", payment} \union claims) \ {status}
                 /\ UNCHANGED <<payment, claims>>

Next == OrderStored \/ PaymentEnds \/ Claim \/ StatusChanges

Spec == Init /\ [][Next]_vars
=============================================================================
