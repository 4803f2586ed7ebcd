--------------------------- MODULE OrderCreation ---------------------------
(* POST /v1/orders: OrderService.create_or_get_order inside the transaction *)
(* of its request (get_db), behind the API-key dependency, against          *)
(* Postgres at READ COMMITTED and PhonePe's checkout endpoint.              *)
(*                                                                          *)
(* An order row is named by the request that built it (order ids are fresh  *)
(* uuid4s), so its tenant and merchant_order_id are RefOf[id].  A row that  *)
(* was flushed and not committed is the session row of a live request with  *)
(* that request's name.                                                     *)
EXTENDS Naturals, FiniteSets

CONSTANTS Requests,   \* the create calls; a client's retry is a call of its own
          Refs,       \* the (tenant_id, merchant_order_id) pairs
          ApiKeys,
          RefOf,      \* the reference a call is about
          ApiKeyOf,   \* the API key it carries
          PoolSize,   \* the connections of the pool: pool_size + max_overflow
          None,
          Error

ASSUME RefOfAssumption == RefOf \in [Requests -> Refs]
ASSUME ApiKeyOfAssumption == ApiKeyOf \in [Requests -> ApiKeys]
ASSUME PoolSizeAssumption == PoolSize \in Nat \ {0}
ASSUME NoneAssumption == None \notin Requests
ASSUME ErrorAssumption == Error \notin Requests \union {None}

Row == [id : Requests,
        status : {"CREATED", "PENDING", "FAILED"},
        payment : Requests \union {None}]

ASSUME NoRowAssumption == None \notin Row

VARIABLES
  build,      \* whether this FastAPI release leaves get_db before or after it answers
  pc,         \* how far each request has got
  session,    \* the Order object in the request's session
  rows,       \* the committed order rows
  calls,      \* the payment calls on their way to PhonePe
  payments,   \* the payment calls PhonePe accepted, each named by its request
  declined,   \* those it answered below 400 and accepted no payment for
  response    \* the answer each client received: an order, Error, or None

vars == <<build, pc, session, rows, calls, payments, declined, response>>

Builds == {"commit-first", "respond-first"}

\* The phases in which a request has an open transaction: it holds a pool
\* connection, and its flushed rows and row locks are kept from the others.
InTransaction ==
  {"authenticating", "waiting", "lookup", "insert", "initiate", "called", "finish", "failing"}

\* A request in "broken" has lost its transaction to a failed COMMIT and is still
\* to answer; one in "answer" has committed and is still to answer.
Phases == {"received", "broken", "answer", "done"} \union InTransaction

TypeOK ==
  /\ build \in Builds
  /\ pc \in [Requests -> Phases]
  /\ session \in [Requests -> Row \union {None}]
  /\ rows \subseteq Row
  /\ calls \subseteq Requests
  /\ payments \subseteq Requests
  /\ declined \subseteq Requests
  /\ response \in [Requests -> Requests \union {Error, None}]

Init ==
  /\ build \in Builds
  /\ pc = [r \in Requests |-> "received"]
  /\ session = [r \in Requests |-> None]
  /\ rows = {}
  /\ calls = {}
  /\ payments = {}
  /\ declined = {}
  /\ response = [r \in Requests |-> None]

-----------------------------------------------------------------------------
\* Locks and visibility

\* (A slip: the key is looked up FOR SHARE, so those who wait to update it hold its row.)
KeyHoldersShared(k) ==
  {r \in Requests : ApiKeyOf[r] = k /\ pc[r] \in InTransaction \ {"authenticating"}}

\* The requests whose last_used_at update keeps key k's row locked: from the
\* flush in authenticate_api_key to the end of their transaction.
KeyHolders(k) ==
  {r \in Requests :
     ApiKeyOf[r] = k /\ pc[r] \in InTransaction \ {"authenticating", "waiting"}}

\* The requests that hold reference ref in the unique index with a row that
\* they flushed and have not committed.
IndexHolders(ref) ==
  {r \in Requests : /\ pc[r] \in InTransaction
                    /\ session[r] # None
                    /\ session[r].id = r
                    /\ RefOf[r] = ref}

\* The rows a statement of any transaction sees for ref (READ COMMITTED).
Committed(ref) == {o \in rows : RefOf[o.id] = ref}

Goto(r, phase) == pc' = [pc EXCEPT ![r] = phase]

-----------------------------------------------------------------------------
\* The API-key dependency

\* The requests whose session has a connection; after a failed COMMIT it keeps it until
\* get_db rolls back.
Connected == {r \in Requests : pc[r] \in InTransaction \union {"broken"}}

\* get_db's session takes a connection with its first statement, once one is free.
Connect(r) ==
  /\ pc[r] = "received"
  /\ Cardinality(Connected) < PoolSize
  /\ Goto(r, "authenticating")
  /\ UNCHANGED <<build, session, rows, calls, payments, declined, response>>

\* The pool had no connection within its timeout (the other endpoints draw on it too):
\* an unhandled error, 500.
PoolTimeout(r) ==
  /\ pc[r] = "received"
  /\ Goto(r, "done")
  /\ response' = [response EXCEPT ![r] = Error]
  /\ UNCHANGED <<build, session, rows, calls, payments, declined>>

\* An unknown or revoked key, or an inactive tenant: rolled back, 401 or 403.
RejectKey(r) ==
  /\ pc[r] = "authenticating"
  /\ Goto(r, "done")
  /\ response' = [response EXCEPT ![r] = Error]
  /\ UNCHANGED <<build, session, rows, calls, payments, declined>>

\* The key and its tenant were selected and are good: last_used_at is set and flushed.
AcceptKey(r) ==
  /\ pc[r] = "authenticating"
  /\ Goto(r, "waiting")
  /\ UNCHANGED <<build, session, rows, calls, payments, declined, response>>

\* The flush had to wait for the row lock of any other request with the same key; no
\* timeout and no check ends that wait.
Authenticate(r) ==
  /\ pc[r] = "waiting"
  /\ KeyHolders(ApiKeyOf[r]) = {}
  /\ Goto(r, "lookup")
  /\ UNCHANGED <<build, session, rows, calls, payments, declined, response>>

\* check_api_key_rate_limit raises 429.
Throttle(r) ==
  /\ pc[r] = "lookup"
  /\ Goto(r, "failing")
  /\ UNCHANGED <<build, session, rows, calls, payments, declined, response>>

-----------------------------------------------------------------------------
\* OrderService.create_or_get_order

\* (A slip: the lookup also serves a row that another request has only flushed.)
FindExistingUncommitted(r) ==
  /\ pc[r] = "lookup"
  /\ \E o \in Committed(RefOf[r]) \union {session[h] : h \in IndexHolders(RefOf[r])} :
       session' = [session EXCEPT ![r] = o]
  /\ Goto(r, "finish")
  /\ UNCHANGED <<build, rows, calls, payments, declined, response>>

\* The idempotency lookup finds the order: it is returned as it is.
FindExisting(r) ==
  /\ pc[r] = "lookup"
  /\ \E o \in Committed(RefOf[r]) : session' = [session EXCEPT ![r] = o]
  /\ Goto(r, "finish")
  /\ UNCHANGED <<build, rows, calls, payments, declined, response>>

FindNothing(r) ==
  /\ pc[r] = "lookup"
  /\ Committed(RefOf[r]) = {}
  /\ Goto(r, "insert")
  /\ UNCHANGED <<build, session, rows, calls, payments, declined, response>>

\* (A slip: no unique constraint, so the INSERT waits for nobody and always succeeds.)
InsertWithoutIndex(r) ==
  /\ pc[r] = "insert"
  /\ session' = [session EXCEPT ![r] = [id |-> r, status |-> "CREATED", payment |-> None]]
  /\ Goto(r, "initiate")
  /\ UNCHANGED <<build, rows, calls, payments, declined, response>>

\* Flush the new row.  The unique index on (tenant_id, merchant_order_id)
\* makes the INSERT wait for a transaction that holds the same pair.
InsertOrder(r) ==
  /\ pc[r] = "insert"
  /\ IndexHolders(RefOf[r]) = {}
  /\ Committed(RefOf[r]) = {}
  /\ session' = [session EXCEPT ![r] = [id |-> r, status |-> "CREATED", payment |-> None]]
  /\ Goto(r, "initiate")
  /\ UNCHANGED <<build, rows, calls, payments, declined, response>>

\* (A slip: the conflict is swallowed and the checkout goes on.)
InsertConflictIgnored(r) ==
  /\ pc[r] = "insert"
  /\ Committed(RefOf[r]) # {}
  /\ session' = [session EXCEPT ![r] = [id |-> r, status |-> "CREATED", payment |-> None]]
  /\ Goto(r, "initiate")
  /\ UNCHANGED <<build, rows, calls, payments, declined, response>>

\* The pair was committed since the lookup: IntegrityError, which nothing
\* catches, so it surfaces as a 500.
InsertConflict(r) ==
  /\ pc[r] = "insert"
  /\ IndexHolders(RefOf[r]) = {}
  /\ Committed(RefOf[r]) # {}
  /\ Goto(r, "failing")
  /\ UNCHANGED <<build, session, rows, calls, payments, declined, response>>

\* PhonePeClient(tenant) cannot decrypt the tenant's secret.
ClientFails(r) ==
  /\ pc[r] = "initiate"
  /\ Goto(r, "failing")
  /\ UNCHANGED <<build, session, rows, calls, payments, declined, response>>

InitiatePayment(r) ==
  /\ pc[r] = "initiate"
  /\ calls' = calls \union {r}
  /\ Goto(r, "called")
  /\ UNCHANGED <<build, session, rows, payments, declined, response>>

\* The two ways create_or_get_order updates the flushed row.
Recorded(o, payment) == [o EXCEPT !.status = "PENDING", !.payment = payment]
InitFailed(o) == [o EXCEPT !.status = "FAILED"]

\* PhonePe's answer to the call of r, below 400, has been given.
Answered(r) == r \in payments \union declined

\* (A slip: PhonePe's own word for the state is stored as the order's status.)
RecordPaymentRawState(r) ==
  /\ pc[r] = "called"
  /\ Answered(r)
  /\ session' = [session EXCEPT ![r] = [@ EXCEPT !.status = "INITIATED", !.payment = r]]
  /\ Goto(r, "finish")
  /\ UNCHANGED <<build, rows, calls, payments, declined, response>>

\* An answer below 400 arrives, and nothing asks what it says: the order is PENDING with
\* the id the answer names, flushed together with its first transaction row.  An answer
\* that takes no payment may name no id.
RecordPayment(r) ==
  /\ pc[r] = "called"
  /\ Answered(r)
  /\ \E payment \in {r} \union (IF r \in declined THEN {None} ELSE {}) :
       session' = [session EXCEPT ![r] = Recorded(@, payment)]
  /\ Goto(r, "finish")
  /\ UNCHANGED <<build, rows, calls, payments, declined, response>>

\* (A slip: the exception is recorded and not re-raised.)
PaymentFailureSwallowed(r) ==
  /\ pc[r] = "called"
  /\ session' = [session EXCEPT ![r] = InitFailed(@)]
  /\ Goto(r, "finish")
  /\ UNCHANGED <<build, rows, calls, payments, declined, response>>

\* An error status, a second 401, an answer that is no JSON object, a lost answer
\* or a 30 s timeout: the FAILED status is flushed and the exception re-raised.
PaymentFails(r) ==
  /\ pc[r] = "called"
  /\ session' = [session EXCEPT ![r] = InitFailed(@)]
  /\ Goto(r, "failing")
  /\ UNCHANGED <<build, rows, calls, payments, declined, response>>

-----------------------------------------------------------------------------
\* The end of the request: get_db and the answer

\* The committed rows once r's transaction commits: its own row joins them.
WithSession(r) == IF session[r].id = r THEN rows \union {session[r]} ELSE rows

Commit(r) ==
  /\ pc[r] = "finish"
  /\ build = "respond-first" => response[r] # None
  /\ rows' = WithSession(r)
  /\ Goto(r, IF response[r] = None THEN "answer" ELSE "done")
  /\ UNCHANGED <<build, session, calls, payments, declined, response>>

\* 201 with the order in the session, before the commit in a respond-first
\* release and after it in a commit-first one.
Respond(r) ==
  /\ \/ build = "commit-first" /\ pc[r] = "answer" /\ Goto(r, "done")
     \/ build = "respond-first" /\ pc[r] = "finish" /\ response[r] = None /\ UNCHANGED pc
  /\ response' = [response EXCEPT ![r] = session[r].id]
  /\ UNCHANGED <<build, session, rows, calls, payments, declined>>

\* (A slip: the error is answered and the transaction is left open.)
RollbackForgotten(r) ==
  /\ pc[r] \in {"failing", "broken"}
  /\ response' = [response EXCEPT ![r] = IF @ = None THEN Error ELSE @]
  /\ UNCHANGED <<build, pc, session, rows, calls, payments, declined>>

\* The exception reaches get_db: rollback, and an error answer.
Rollback(r) ==
  /\ pc[r] \in {"failing", "broken"}
  /\ session' = [session EXCEPT ![r] = None]
  /\ response' = [response EXCEPT ![r] = IF @ = None THEN Error ELSE @]
  /\ Goto(r, "done")
  /\ UNCHANGED <<build, rows, calls, payments, declined>>

\* COMMIT raises in get_db: the transaction was refused, or it was done and
\* its acknowledgement was lost.
CommitFails(r) ==
  /\ pc[r] = "finish"
  /\ build = "respond-first" => response[r] # None
  /\ rows' \in {rows, WithSession(r)}
  /\ session' = [session EXCEPT ![r] = None]
  /\ Goto(r, "broken")
  /\ UNCHANGED <<build, calls, payments, declined, response>>

\* The worker dies, or its connection does: Postgres drops what the request
\* had not committed, and the client is told nothing more.
Crash(r) ==
  /\ pc[r] \in InTransaction \union {"broken", "answer"}
  /\ session' = [session EXCEPT ![r] = None]
  /\ Goto(r, "done")
  /\ UNCHANGED <<build, rows, calls, payments, declined, response>>

-----------------------------------------------------------------------------
\* PhonePe, as initiate_payment uses it: a call that was sent is accepted, declined in
\* an answer below 400, or dropped (lost or refused by an error status) at any later
\* time, also after its caller gave up.
PhonePeAccepts(r) ==
  /\ r \in calls
  /\ calls' = calls \ {r}
  /\ payments' = payments \union {r}
  /\ UNCHANGED <<build, pc, session, rows, declined, response>>

PhonePeDeclines(r) ==
  /\ r \in calls
  /\ calls' = calls \ {r}
  /\ declined' = declined \union {r}
  /\ UNCHANGED <<build, pc, session, rows, payments, response>>

PhonePeDrops(r) ==
  /\ r \in calls
  /\ calls' = calls \ {r}
  /\ UNCHANGED <<build, pc, session, rows, payments, declined, response>>

-----------------------------------------------------------------------------
Step(r) ==
  \/ Connect(r) \/ RejectKey(r) \/ AcceptKey(r) \/ Authenticate(r) \/ Throttle(r)
  \/ FindExisting(r) \/ FindNothing(r) \/ InsertOrder(r) \/ InsertConflict(r)
  \/ ClientFails(r) \/ InitiatePayment(r) \/ RecordPayment(r) \/ PaymentFails(r)
  \/ Commit(r) \/ CommitFails(r) \/ Respond(r) \/ Rollback(r)

PhonePe(r) == PhonePeAccepts(r) \/ PhonePeDeclines(r) \/ PhonePeDrops(r)

\* Every request has ended and PhonePe has nothing left to decide.
AllDone ==
  /\ \A r \in Requests : pc[r] = "done"
  /\ calls = {}
  /\ UNCHANGED vars

Next == (\E r \in Requests : Step(r) \/ PoolTimeout(r) \/ Crash(r) \/ PhonePe(r)) \/ AllDone

\* A worker runs the requests it has; nothing obliges it to crash, the pool to time out
\* or PhonePe to answer (the client's timeout, PaymentFails, is a step of the request).
Spec == Init /\ [][Next]_vars /\ \A r \in Requests : WF_vars(Step(r))

-----------------------------------------------------------------------------
\* Properties

\* A merchant_order_id of a tenant has at most one stored order, whatever the
\* interleaving of lookups, inserts, commits and crashes.
OneOrderPerReference ==
  \A o, p \in rows : RefOf[o.id] = RefOf[p.id] => o = p

\* While a checkout for a reference is between its INSERT and the end of its
\* transaction, no other request is there for the same reference, and no order
\* of that reference is stored: the call to PhonePe is made under the index entry.
ExclusiveCheckout ==
  \A r, q \in Requests :
    (r \in IndexHolders(RefOf[r]) /\ RefOf[q] = RefOf[r]) =>
      /\ q \in IndexHolders(RefOf[r]) => q = r
      /\ \A o \in rows : o.id # q

\* Whatever fails, crashes or comes late, what create_or_get_order leaves in the table is
\* PENDING, never CREATED and never the FAILED / PHONEPE_INIT_FAILED row that its except
\* clause flushes; PhonePe answered the order's own call, and what the order names is
\* that call's payment, or none where PhonePe took none.  That PhonePe took one is not
\* among it: initiate_payment does not look at what an answer below 400 says.
StoredOrdersWereAnswered ==
  \A o \in rows :
    /\ o.status = "PENDING"
    /\ Answered(o.id)
    /\ o.payment = o.id \/ (o.payment = None /\ o.id \in declined)

\* A client that was told of an order was told of one that is stored, under the
\* reference it asked for; in a respond-first release this holds of the answers
\* that return an existing order.
AnswersAreDurable ==
  \A r \in Requests :
    response[r] \in Requests /\ (build = "commit-first" \/ response[r] # r) =>
      RefOf[response[r]] = RefOf[r] /\ \E o \in rows : o.id = response[r]

\* PhonePe is never called for a reference whose order is stored, nor for one
\* that another request is calling about.
CallsOnlyForNewOrders ==
  [][\A r \in calls' \ calls :
       /\ Committed(RefOf[r]) = {}
       /\ \A q \in Requests \ {r} : RefOf[q] = RefOf[r] => pc[q] # "called"]_vars

\* Every request ends, though nothing bounds the wait for a key's row or an index entry
\* and even if the pool's timeout never came: no set of pool connections, key rows and
\* index entries has the requests wait for one another.
EveryRequestEnds == \A r \in Requests : <>(pc[r] = "done")

\* Request r waits for a lock of request h: for the row of its key, or for the index
\* entry of its reference.
WaitsFor(r, h) ==
  \/ pc[r] = "waiting" /\ h \in KeyHolders(ApiKeyOf[r])
  \/ pc[r] = "insert" /\ h \in IndexHolders(RefOf[r])

\* No set of requests waits for one another's locks, how many there ever are: who is
\* waited for may wait for an index entry itself, but the holder of that entry waits
\* for no lock, only for PhonePe, which has a timeout.
WaitsAreShort ==
  \A r, h, i, j \in Requests : WaitsFor(r, h) /\ WaitsFor(h, i) => ~WaitsFor(i, j)

\* The transaction of r is over, no order came of it, and nobody was told of one,
\* but for r's own caller in a release that responds before it commits.
CutOff(r) ==
  /\ pc[r] \in {"broken", "done"}
  /\ \A o \in rows : o.id # r
  /\ response[r] \in Requests => build = "respond-first" /\ response[r] = r

\* PhonePe accepts two payments for a reference only if all but one of them are of
\* requests that were cut off: no interleaving of calls, only the failure of one that
\* PhonePe took, makes a tenant's customer pay twice.
SecondPaymentsFollowFailures ==
  \A p, q \in payments : RefOf[p] = RefOf[q] /\ p # q => CutOff(p) \/ CutOff(q)

\* README.md:35 and docs/requirement.md:104: a retry never has PhonePe accept a
\* second payment for the same order.
OnePaymentPerOrder ==
  \A p, q \in payments : RefOf[p] = RefOf[q] => p = q

\* Creation implements the abstract promise.  The answers a respond-first
\* release gives before its commit are outside the promise, so they are hidden.
Abstract == INSTANCE OrderOnce
  WITH created <- {o.id : o \in rows},
       answers <- [r \in Requests |-> IF build = "commit-first" THEN response[r] ELSE None]

\* Each request's answer and each stored order are those of a create-once
\* register: one order per reference, never replaced, named by every success.
ImplementsOrderOnce == Abstract!Spec

\* The order of request o as OrderLife sees it; how its payment ends is not seen here.
RowStatus(o) ==
  IF \E row \in rows : row.id = o THEN (CHOOSE row \in rows : row.id = o).status ELSE None

Life(o) ==
  INSTANCE OrderLife
    WITH payment <- "PENDING", status <- RowStatus(o), claims <- {}

\* Whatever fails or crashes, creation only ever stores orders, as PENDING, where there
\* was none: OrderLife's first step, on which OrderStatus and Refunds go on.
OnlyStoresOrders ==
  /\ \A o \in Requests : Life(o)!Init
  /\ [][\A o \in Requests : [Life(o)!OrderStored]_(Life(o)!vars)]_vars
=============================================================================
