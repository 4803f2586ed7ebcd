------------------------------ MODULE Refunds ------------------------------
(* POST /v1/orders/{id}/refund and the admin's /admin/orders/{id}/refund:    *)
(* RefundService.process_refund inside the transaction of its request, about *)
(* one order, whose status other requests and webhooks change meanwhile, as  *)
(* module OrderLife says.                                                    *)
CONSTANTS Requests,   \* the refund calls; a retry is a call of its own
          ApiKeys,
          ApiKeyOf,   \* the API key a call carries; None for the admin's
          RefundIds,
          RefundIdOf, \* the merchant_refund_id it carries, or None
          None,
          Error

ASSUME ApiKeyOfAssumption == ApiKeyOf \in [Requests -> ApiKeys \union {None}]
ASSUME RefundIdOfAssumption == RefundIdOf \in [Requests -> RefundIds \union {None}]
ASSUME NoneAssumption == None \notin ApiKeys \union RefundIds

RefundStates == {"PENDING", "COMPLETED", "FAILED"}
Statuses == {"PENDING", "SUCCESS", "FAILED"}

\* What PhonePe makes of a call that reaches it: a refund in some state, or none, told
\* in an answer below 400 all the same.
Outcomes == RefundStates \union {"DECLINED"}

\* A REFUND row of the transactions table, named by the call that built it.
Row == [call : Requests, status : Statuses]

ASSUME MarksAssumption ==
  /\ None \notin Row \union Statuses \union Outcomes
  /\ Error \notin Statuses \union {None}

VARIABLES
  build,     \* whether this FastAPI release leaves get_db before or after it answers
  payment,   \* the order's payment at PhonePe
  status,    \* the committed orders.status, None before the order is stored
  claims,    \* the ends that events without a signature named for the order
  pc,        \* how far each request has got
  session,   \* the row each request has flushed and not committed
  rows,      \* the committed REFUND rows
  calls,     \* the refund calls on their way to PhonePe
  refunds,   \* what PhonePe made of each call, None before it answers
  response   \* what each caller was told: a status, Error, or None

order == <<payment, status, claims>>

\* The order's own steps.
Order == INSTANCE OrderLife

vars == <<build, order, pc, session, rows, calls, refunds, response>>

Builds == {"commit-first", "respond-first"}

InTransaction == {"waiting", "lookup", "checked", "called", "finish", "failing"}
Phases == {"received", "broken", "answer", "done"} \union InTransaction

TypeOK ==
  /\ build \in Builds
  /\ payment \in RefundStates
  /\ status \in RefundStates \union {None}
  /\ claims \subseteq {"COMPLETED", "FAILED"}
  /\ pc \in [Requests -> Phases]
  /\ session \in [Requests -> Row \union {None}]
  /\ rows \subseteq Row
  /\ calls \subseteq Requests
  /\ refunds \in [Requests -> Outcomes \union {None}]
  /\ response \in [Requests -> Statuses \union {Error, None}]

Init ==
  /\ build \in Builds
  /\ Order!Init
  /\ pc = [r \in Requests |-> "received"]
  /\ session = [r \in Requests |-> None]
  /\ rows = {}
  /\ calls = {}
  /\ refunds = [r \in Requests |-> None]
  /\ response = [r \in Requests |-> None]

-----------------------------------------------------------------------------
\* Helpers

\* The requests whose last_used_at update keeps key k's row locked.
KeyHolders(k) == {r \in Requests : ApiKeyOf[r] = k /\ pc[r] \in InTransaction \ {"waiting"}}

\* (A slip: PhonePe's own word is stored.)
CanonicalRaw(word) == word

\* status_map of initiate_refund, PENDING for what it does not name.
Canonical(word) ==
  CASE word = "COMPLETED" -> "SUCCESS" [] word = "FAILED" -> "FAILED" [] OTHER -> "PENDING"

\* What an answer may say of that outcome: of a refund, its state or an older one, or a
\* word the table does not name; of none, that it failed, or a code not in the table.
Words(outcome) ==
  IF outcome = "DECLINED" THEN {"FAILED", "BAD_REQUEST"}
                          ELSE {outcome, "PENDING", "CONFIRMED"}

Goto(r, phase) == pc' = [pc EXCEPT ![r] = phase]

-----------------------------------------------------------------------------
\* The dependencies of the endpoints

\* No connection, a bad key, an inactive or unknown tenant.
Reject(r) ==
  /\ pc[r] = "received"
  /\ Goto(r, "done")
  /\ response' = [response EXCEPT ![r] = Error]
  /\ UNCHANGED <<build, order, session, rows, calls, refunds>>

\* A tenant's key is good, and last_used_at is flushed; the admin's call has no key.
Accept(r) ==
  /\ pc[r] = "received"
  /\ Goto(r, IF ApiKeyOf[r] = None THEN "lookup" ELSE "waiting")
  /\ UNCHANGED <<build, order, session, rows, calls, refunds, response>>

\* The flush had to wait for the row lock of the key, and nothing but the lock ends that
\* wait.
Authenticate(r) ==
  /\ pc[r] = "waiting"
  /\ KeyHolders(ApiKeyOf[r]) = {}
  /\ Goto(r, "lookup")
  /\ UNCHANGED <<build, order, session, rows, calls, refunds, response>>

-----------------------------------------------------------------------------
\* RefundService.process_refund

\* (A slip: what has not failed can be refunded.)
CheckNotFailed(r) ==
  /\ pc[r] = "lookup"
  /\ status \notin {None, "FAILED"}
  /\ Goto(r, "checked")
  /\ UNCHANGED <<build, order, session, rows, calls, refunds, response>>

\* The order is there, COMPLETED, and for no less than the refund.
Check(r) ==
  /\ pc[r] = "lookup"
  /\ status = "COMPLETED"
  /\ Goto(r, "checked")
  /\ UNCHANGED <<build, order, session, rows, calls, refunds, response>>

\* 429, no such order, another status, too high an amount, unreadable credentials.
Deny(r) ==
  /\ pc[r] = "lookup"
  /\ Goto(r, "failing")
  /\ UNCHANGED <<build, order, session, rows, calls, refunds, response>>

\* initiate_refund; nobody has looked for a refund of this merchant_refund_id.
InitiateRefund(r) ==
  /\ pc[r] = "checked"
  /\ calls' = calls \union {r}
  /\ Goto(r, "called")
  /\ UNCHANGED <<build, order, session, rows, refunds, response>>

\* PhonePe's answer, if below 400, arrives: a REFUND row with the status it names is
\* flushed, whether PhonePe took the refund or not.
RecordRefund(r) ==
  /\ pc[r] = "called"
  /\ refunds[r] # None
  /\ \E word \in Words(refunds[r]) :
       session' = [session EXCEPT ![r] = [call |-> r, status |-> Canonical(word)]]
  /\ Goto(r, "finish")
  /\ UNCHANGED <<build, order, rows, calls, refunds, response>>

\* (A slip: the failure is recorded as a FAILED refund, not raised.)
RefundFailsRecorded(r) ==
  /\ pc[r] = "called"
  /\ session' = [session EXCEPT ![r] = [call |-> r, status |-> "FAILED"]]
  /\ Goto(r, "finish")
  /\ UNCHANGED <<build, order, rows, calls, refunds, response>>

\* (A slip: the HTTP client has no timeout, so only a refusal ends the wait.)
RefundFailsUntimed(r) ==
  /\ pc[r] = "called"
  /\ r \notin calls
  /\ Goto(r, "failing")
  /\ UNCHANGED <<build, order, session, rows, calls, refunds, response>>

\* An error status, a lost answer, a 30 s timeout, a failed flush: RefundException.
RefundFails(r) ==
  /\ pc[r] \in {"checked", "called"}
  /\ Goto(r, "failing")
  /\ UNCHANGED <<build, order, session, rows, calls, refunds, response>>

-----------------------------------------------------------------------------
\* The end of the request: get_db and the answer

Commit(r) ==
  /\ pc[r] = "finish"
  /\ build = "respond-first" => response[r] # None
  /\ rows' = rows \union {session[r]}
  /\ Goto(r, IF response[r] = None THEN "answer" ELSE "done")
  /\ UNCHANGED <<build, order, session, calls, refunds, response>>

\* The row's status is told, before the commit in a respond-first release.
Respond(r) ==
  /\ \/ build = "commit-first" /\ pc[r] = "answer" /\ Goto(r, "done")
     \/ build = "respond-first" /\ pc[r] = "finish" /\ response[r] = None /\ UNCHANGED pc
  /\ response' = [response EXCEPT ![r] = session[r].status]
  /\ UNCHANGED <<build, order, session, rows, calls, refunds>>

\* (A slip: a failed COMMIT is logged, and the answer given all the same.)
CommitFailsLogged(r) ==
  /\ pc[r] = "finish"
  /\ build = "respond-first" => response[r] # None
  /\ rows' \in {rows, rows \union {session[r]}}
  /\ Goto(r, "answer")
  /\ UNCHANGED <<build, order, session, calls, refunds, response>>

\* COMMIT raises: it was refused, or done and its acknowledgement lost.
CommitFails(r) ==
  /\ pc[r] = "finish"
  /\ build = "respond-first" => response[r] # None
  /\ rows' \in {rows, rows \union {session[r]}}
  /\ session' = [session EXCEPT ![r] = None]
  /\ Goto(r, "broken")
  /\ UNCHANGED <<build, order, calls, refunds, response>>

\* The exception reaches get_db: rollback, and an error answer.
Rollback(r) ==
  /\ pc[r] \in {"failing", "broken"}
  /\ session' = [session EXCEPT ![r] = None]
  /\ response' = [response EXCEPT ![r] = IF @ = None THEN Error ELSE @]
  /\ Goto(r, "done")
  /\ UNCHANGED <<build, order, rows, calls, refunds>>

\* The worker dies: what was not committed is gone, the caller is told nothing.
Crash(r) ==
  /\ pc[r] \in InTransaction \union {"broken", "answer"}
  /\ session' = [session EXCEPT ![r] = None]
  /\ Goto(r, "done")
  /\ UNCHANGED <<build, order, rows, calls, refunds, response>>

-----------------------------------------------------------------------------
\* PhonePe: a call is answered, with a refund or without, or dropped (lost, or refused by
\* an error status) at any later time, and a pending refund settles.  The callback about
\* that names the refund, which the webhook looks up as an order: it changes no REFUND row.
AnswersCall(r) ==
  /\ r \in calls
  /\ calls' = calls \ {r}
  /\ \E outcome \in Outcomes : refunds' = [refunds EXCEPT ![r] = outcome]
  /\ UNCHANGED <<build, order, pc, session, rows, response>>

DropsCall(r) ==
  /\ r \in calls
  /\ calls' = calls \ {r}
  /\ UNCHANGED <<build, order, pc, session, rows, refunds, response>>

RefundSettles(r) ==
  /\ refunds[r] = "PENDING"
  /\ \E state \in {"COMPLETED", "FAILED"} : refunds' = [refunds EXCEPT ![r] = state]
  /\ UNCHANGED <<build, order, pc, session, rows, calls, response>>

\* The order is stored, its payment ends, events without a signature are believed and
\* its status changes meanwhile: the steps of module OrderLife, which OrderCreation and
\* OrderStatus are shown to implement.
OrderMoves ==
  /\ Order!Next
  /\ UNCHANGED <<build, pc, session, rows, calls, refunds, response>>

-----------------------------------------------------------------------------
Step(r) ==
  \/ Reject(r) \/ Accept(r) \/ Authenticate(r) \/ Check(r) \/ Deny(r)
  \/ InitiateRefund(r) \/ RecordRefund(r) \/ RefundFails(r)
  \/ Commit(r) \/ CommitFails(r) \/ Respond(r) \/ Rollback(r)

PhonePe(r) == AnswersCall(r) \/ DropsCall(r) \/ RefundSettles(r)

\* Every request has ended and PhonePe has nothing left to decide.
AllDone ==
  /\ \A r \in Requests : pc[r] = "done"
  /\ calls = {}
  /\ UNCHANGED vars

Next ==
  (\E r \in Requests : Step(r) \/ Crash(r) \/ PhonePe(r)) \/ OrderMoves \/ AllDone

\* A worker runs the requests it has; nobody is obliged to crash or to answer.
Spec == Init /\ [][Next]_vars /\ \A r \in Requests : WF_vars(Step(r))

-----------------------------------------------------------------------------
\* Properties

\* Whatever fails between PhonePe's answer and the commit, a recorded refund is one of a
\* call PhonePe answered below 400, and what its row says of the end is so: SUCCESS of a
\* refund that was completed, FAILED of one that failed or was never taken, and so never
\* of one that goes on.  A PENDING row may be of a refund PhonePe never took.
RowsAreReal ==
  \A row \in rows :
    /\ refunds[row.call] # None
    /\ row.status = "SUCCESS" => refunds[row.call] = "COMPLETED"
    /\ row.status = "FAILED" => refunds[row.call] \in {"FAILED", "DECLINED"}

\* A caller that is told a refund's status finds the row stored with that status, in
\* a commit-first release; a respond-first one tells before it commits.
ToldIsRecorded ==
  build = "commit-first" =>
    \A r \in Requests :
      response[r] \in Statuses => [call |-> r, status |-> response[r]] \in rows

\* PhonePe is asked for a refund only of a payment that has completed, or that an event
\* without a signature said had, although the status was read earlier and the order may
\* be PENDING again when PhonePe is asked.
RefundsFollowPayment ==
  \A r \in Requests :
    r \in calls \/ refunds[r] # None => payment = "COMPLETED" \/ "COMPLETED" \in claims

\* Every request ends, though nothing bounds the wait for a key's row: calls with one key
\* wait for one another's answers, and these come or time out.
EveryRefundEnds == \A r \in Requests : <>(pc[r] = "done")

\* docs/requirement.md:116: refunds follow the same idempotent pattern as orders, so
\* a merchant_refund_id has at most one recorded refund.
OneRowPerRefund ==
  \A o, p \in rows :
    RefundIdOf[o.call] # None /\ RefundIdOf[o.call] = RefundIdOf[p.call] => o = p
=============================================================================
