------------------------ MODULE OrderCreationProofs ------------------------
(* Proofs about OrderCreation for any set of requests, references and keys. *)
EXTENDS OrderCreation, TLAPS

\* What a request's session holds in each phase.  Before its INSERT nothing;
\* until PhonePe answers, its own row; then its own row with what PhonePe
\* answered for it, or a stored order of the reference it asked for.
SessionFits ==
  \A r \in Requests :
    /\ pc[r] \in {"received", "authenticating", "waiting", "lookup", "insert", "broken"} =>
         session[r] = None
    /\ pc[r] \in {"initiate", "called"} => session[r] \in Row /\ session[r].id = r
    /\ pc[r] = "failing" /\ session[r] # None => session[r].id = r
    /\ pc[r] \in {"finish", "answer"} =>
         /\ session[r] \in Row
         /\ RefOf[session[r].id] = RefOf[r]
         /\ session[r].id = r =>
              /\ session[r].status = "PENDING"
              /\ Answered(r)
              /\ session[r].payment = r \/ (session[r].payment = None /\ r \in declined)
         /\ session[r].id # r \/ pc[r] = "answer" => session[r] \in rows

\* The request that built a stored order has ended its transaction.
BuildersCommitted == \A o \in rows : pc[o.id] \in {"broken", "answer", "done"}

\* An answer is given at the end of a request, or just before its commit.
AnswersComeLate ==
  \A r \in Requests :
    response[r] # None =>
      pc[r] = "done" \/ (build = "respond-first" /\ pc[r] \in {"finish", "broken"})

IInv == /\ TypeOK
        /\ SessionFits
        /\ BuildersCommitted
        /\ AnswersComeLate
        /\ ExclusiveCheckout
        /\ OneOrderPerReference
        /\ StoredOrdersWereAnswered
        /\ AnswersAreDurable

-----------------------------------------------------------------------------
\* One lemma per conjunct of IInv: the steps that can disturb it one by one,
\* the others together.

\* Recording PhonePe's answer, or the lack of one, keeps the row a row of its order.
LEMMA RowUpdates ==
  ASSUME NEW o \in Row, NEW p \in Requests \union {None}
  PROVE  /\ Recorded(o, p) \in Row
         /\ Recorded(o, p).id = o.id
         /\ Recorded(o, p).status = "PENDING"
         /\ Recorded(o, p).payment = p
         /\ InitFailed(o) \in Row
         /\ InitFailed(o).id = o.id
BY DEF Recorded, InitFailed, Row

\* After PhonePe's answer, or the lack of one, the session holds the same order.
LEMMA SessionUpdated ==
  ASSUME TypeOK, SessionFits, NEW r \in Requests, RecordPayment(r) \/ PaymentFails(r)
  PROVE  /\ session' \in [Requests -> Row \union {None}]
         /\ session'[r] \in Row /\ session'[r].id = r
         /\ RecordPayment(r) =>
              /\ session'[r].status = "PENDING"
              /\ session'[r].payment = r \/ (session'[r].payment = None /\ r \in declined)
         /\ \A q \in Requests \ {r} : session'[q] = session[q]
<1>1. session[r] \in Row /\ session[r].id = r
  BY DEF SessionFits, RecordPayment, PaymentFails
<1>2. \A p \in Requests \union {None} :
         /\ Recorded(session[r], p) \in Row
         /\ Recorded(session[r], p).id = r
         /\ Recorded(session[r], p).status = "PENDING"
         /\ Recorded(session[r], p).payment = p
  BY <1>1, RowUpdates
<1>3. InitFailed(session[r]) \in Row /\ InitFailed(session[r]).id = r
  BY <1>1, RowUpdates
<1>4. CASE RecordPayment(r)
  <2>1. PICK p \in {r} \union (IF r \in declined THEN {None} ELSE {}) :
          session' = [session EXCEPT ![r] = Recorded(@, p)]
    BY <1>4 DEF RecordPayment
  <2>2. p \in Requests \union {None} /\ (p = r \/ (p = None /\ r \in declined))
    BY <2>1
  <2>3. session'[r] = Recorded(session[r], p)
    BY <2>1 DEF TypeOK
  <2> QED
    BY <1>2, <2>1, <2>2, <2>3 DEF TypeOK
<1>5. CASE PaymentFails(r)
  BY <1>3, <1>5 DEF PaymentFails, TypeOK, RecordPayment, Goto
<1> QED
  BY <1>4, <1>5

\* The types are kept; a step that reads session[r] needs to know that it
\* holds a row.
LEMMA TypeStep ==
  TypeOK /\ SessionFits /\ [Next]_vars => TypeOK'
<1> SUFFICES ASSUME TypeOK, SessionFits, [Next]_vars PROVE TypeOK'
  OBVIOUS
<1> USE NoneAssumption, ErrorAssumption, NoRowAssumption, RefOfAssumption
    DEF TypeOK, Phases, InTransaction, Goto
<1>1. ASSUME NEW r \in Requests,
              \/ Connect(r) \/ PoolTimeout(r) \/ RejectKey(r)
              \/ AcceptKey(r) \/ Authenticate(r) \/ Throttle(r) \/ FindNothing(r)
              \/ InsertConflict(r) \/ ClientFails(r) \/ InitiatePayment(r)
              \/ Rollback(r) \/ Crash(r) \/ PhonePeAccepts(r)
              \/ PhonePeDeclines(r) \/ PhonePeDrops(r)
       PROVE TypeOK'
  BY <1>1 DEF Connect, PoolTimeout, RejectKey, AcceptKey, Authenticate, Throttle,
       FindNothing, InsertConflict, ClientFails, InitiatePayment, Rollback,
       Crash, PhonePeAccepts, PhonePeDeclines, PhonePeDrops
<1>2. ASSUME NEW r \in Requests, FindExisting(r) PROVE TypeOK'
  BY <1>2 DEF FindExisting, Committed
<1>3. ASSUME NEW r \in Requests, InsertOrder(r) PROVE TypeOK'
  BY <1>3 DEF InsertOrder, Committed, Row
<1>4. ASSUME NEW r \in Requests, RecordPayment(r) PROVE TypeOK'
  BY <1>4, SessionUpdated DEF RecordPayment
<1>5. ASSUME NEW r \in Requests, PaymentFails(r) PROVE TypeOK'
  BY <1>5, SessionUpdated DEF PaymentFails
<1>6. ASSUME NEW r \in Requests, Commit(r) PROVE TypeOK'
  BY <1>6 DEF Commit, WithSession, SessionFits
<1>7. ASSUME NEW r \in Requests, CommitFails(r) PROVE TypeOK'
  BY <1>7 DEF CommitFails, WithSession, SessionFits
<1>8. ASSUME NEW r \in Requests, Respond(r) PROVE TypeOK'
  BY <1>8 DEF Respond, SessionFits, Row
<1>9. CASE UNCHANGED vars
  BY <1>9 DEF vars
<1> QED
  BY <1>1, <1>2, <1>3, <1>4, <1>5, <1>6, <1>7, <1>8, <1>9 DEF Next, Step, PhonePe, AllDone

\* Each phase hands the next one the session it expects.
LEMMA SessionFitsStep ==
  IInv /\ TypeOK' /\ [Next]_vars => SessionFits'
<1> SUFFICES ASSUME IInv, TypeOK', [Next]_vars PROVE SessionFits'
  OBVIOUS
<1> USE NoneAssumption, ErrorAssumption, NoRowAssumption, RefOfAssumption
    DEF IInv, TypeOK, SessionFits, BuildersCommitted, Row, Phases,
        InTransaction, Goto, Answered
<1>1. ASSUME NEW r \in Requests,
              \/ Connect(r) \/ PoolTimeout(r) \/ RejectKey(r)
              \/ AcceptKey(r) \/ Authenticate(r) \/ Throttle(r) \/ FindNothing(r)
              \/ InsertConflict(r) \/ ClientFails(r) \/ InitiatePayment(r)
              \/ Respond(r) \/ PhonePeAccepts(r) \/ PhonePeDeclines(r) \/ PhonePeDrops(r)
       PROVE SessionFits'
  BY <1>1 DEF Connect, PoolTimeout, RejectKey, AcceptKey, Authenticate, Throttle,
       FindNothing, InsertConflict, ClientFails, InitiatePayment, Respond,
       PhonePeAccepts, PhonePeDeclines, PhonePeDrops
<1>2. ASSUME NEW r \in Requests, FindExisting(r) PROVE SessionFits'
  BY <1>2 DEF FindExisting, Committed
<1>3. ASSUME NEW r \in Requests, InsertOrder(r) PROVE SessionFits'
  BY <1>3 DEF InsertOrder, Committed
<1>4. ASSUME NEW r \in Requests, RecordPayment(r) PROVE SessionFits'
  <2>1. session'[r] \in Row /\ session'[r].id = r
    BY <1>4, SessionUpdated
  <2>2. \A q \in Requests \ {r} : session'[q] = session[q]
    BY <1>4, SessionUpdated
  <2>3. /\ session'[r].status = "PENDING"
        /\ session'[r].payment = r \/ (session'[r].payment = None /\ r \in declined)
    BY <1>4, SessionUpdated
  <2> QED
    BY <1>4, <2>1, <2>2, <2>3 DEF RecordPayment
<1>5. ASSUME NEW r \in Requests, PaymentFails(r) PROVE SessionFits'
  <2>1. session'[r] \in Row /\ session'[r].id = r
    BY <1>5, SessionUpdated
  <2>2. \A q \in Requests \ {r} : session'[q] = session[q]
    BY <1>5, SessionUpdated
  <2> QED
    BY <1>5, <2>1, <2>2 DEF PaymentFails
<1>6. ASSUME NEW r \in Requests, Commit(r) PROVE SessionFits'
  BY <1>6 DEF Commit, WithSession
<1>7. ASSUME NEW r \in Requests, CommitFails(r) PROVE SessionFits'
  BY <1>7 DEF CommitFails, WithSession
<1>8. ASSUME NEW r \in Requests, Rollback(r) PROVE SessionFits'
  BY <1>8 DEF Rollback
<1>9. ASSUME NEW r \in Requests, Crash(r) PROVE SessionFits'
  BY <1>9 DEF Crash
<1>10. CASE UNCHANGED vars
  BY <1>10 DEF vars
<1> QED
  BY <1>1, <1>2, <1>3, <1>4, <1>5, <1>6, <1>7, <1>8, <1>9, <1>10
     DEF Next, Step, PhonePe, AllDone

\* Only a commit stores a row, and it ends its builder's transaction.
LEMMA BuildersStep ==
  IInv /\ TypeOK' /\ [Next]_vars => BuildersCommitted'
<1> SUFFICES ASSUME IInv, TypeOK', [Next]_vars PROVE BuildersCommitted'
  OBVIOUS
<1> USE NoneAssumption, ErrorAssumption, NoRowAssumption, RefOfAssumption
    DEF IInv, TypeOK, SessionFits, BuildersCommitted, Row, Phases,
        InTransaction, Goto
<1>1. ASSUME NEW r \in Requests,
              \/ Connect(r) \/ PoolTimeout(r) \/ RejectKey(r)
              \/ AcceptKey(r) \/ Authenticate(r) \/ Throttle(r) \/ FindExisting(r)
              \/ FindNothing(r) \/ InsertOrder(r) \/ InsertConflict(r)
              \/ ClientFails(r) \/ InitiatePayment(r) \/ RecordPayment(r)
              \/ PaymentFails(r) \/ Respond(r) \/ Rollback(r) \/ Crash(r)
              \/ PhonePeAccepts(r) \/ PhonePeDeclines(r) \/ PhonePeDrops(r)
       PROVE BuildersCommitted'
  BY <1>1 DEF Connect, PoolTimeout, RejectKey, AcceptKey, Authenticate, Throttle,
       FindExisting, FindNothing, InsertOrder, InsertConflict, ClientFails,
       InitiatePayment, RecordPayment, PaymentFails, Respond, Rollback, Crash,
       PhonePeAccepts, PhonePeDeclines, PhonePeDrops, Committed
<1>2. ASSUME NEW r \in Requests, Commit(r) PROVE BuildersCommitted'
  BY <1>2 DEF Commit, WithSession
<1>3. ASSUME NEW r \in Requests, CommitFails(r) PROVE BuildersCommitted'
  BY <1>3 DEF CommitFails, WithSession
<1>4. CASE UNCHANGED vars
  BY <1>4 DEF vars
<1> QED
  BY <1>1, <1>2, <1>3, <1>4 DEF Next, Step, PhonePe, AllDone

\* No step answers a request that has more of its transaction to run than a
\* commit.
LEMMA AnswersLateStep ==
  IInv /\ TypeOK' /\ [Next]_vars => AnswersComeLate'
<1> SUFFICES ASSUME IInv, TypeOK', [Next]_vars PROVE AnswersComeLate'
  OBVIOUS
<1> USE NoneAssumption, ErrorAssumption, NoRowAssumption, RefOfAssumption
    DEF IInv, TypeOK, AnswersComeLate, Phases, InTransaction, Goto
<1>1. ASSUME NEW r \in Requests,
              \/ Connect(r) \/ PoolTimeout(r) \/ RejectKey(r)
              \/ AcceptKey(r) \/ Authenticate(r) \/ Throttle(r) \/ FindExisting(r)
              \/ FindNothing(r) \/ InsertOrder(r) \/ InsertConflict(r)
              \/ ClientFails(r) \/ InitiatePayment(r) \/ RecordPayment(r)
              \/ PaymentFails(r) \/ CommitFails(r) \/ Rollback(r) \/ Crash(r)
              \/ PhonePeAccepts(r) \/ PhonePeDeclines(r) \/ PhonePeDrops(r)
       PROVE AnswersComeLate'
  BY <1>1 DEF Connect, PoolTimeout, RejectKey, AcceptKey, Authenticate, Throttle,
       FindExisting, FindNothing, InsertOrder, InsertConflict, ClientFails,
       InitiatePayment, RecordPayment, PaymentFails, CommitFails, Rollback,
       Crash, PhonePeAccepts, PhonePeDeclines, PhonePeDrops, Committed, WithSession
<1>2. ASSUME NEW r \in Requests, Commit(r) PROVE AnswersComeLate'
  BY <1>2 DEF Commit, WithSession
<1>3. ASSUME NEW r \in Requests, Respond(r) PROVE AnswersComeLate'
  BY <1>3 DEF Respond
<1>4. CASE UNCHANGED vars
  BY <1>4 DEF vars
<1> QED
  BY <1>1, <1>2, <1>3, <1>4 DEF Next, Step, PhonePe, AllDone

\* A request comes to hold the index entry only by InsertOrder, which waits
\* until nobody holds it and fails if the pair is stored; a row is stored
\* only by the request that holds its entry, which lets go of it in the same
\* step.
LEMMA ExclusiveStep ==
  IInv /\ TypeOK' /\ [Next]_vars => ExclusiveCheckout'
<1> SUFFICES ASSUME IInv, TypeOK', [Next]_vars PROVE ExclusiveCheckout'
  OBVIOUS
<1> USE NoneAssumption, ErrorAssumption, NoRowAssumption, RefOfAssumption
    DEF IInv, TypeOK, SessionFits, BuildersCommitted, ExclusiveCheckout,
        IndexHolders, Row, Phases, InTransaction, Goto
<1>1. ASSUME NEW r \in Requests,
              \/ Connect(r) \/ PoolTimeout(r) \/ RejectKey(r)
              \/ AcceptKey(r) \/ Authenticate(r) \/ Throttle(r) \/ FindNothing(r)
              \/ InsertConflict(r) \/ ClientFails(r) \/ InitiatePayment(r)
              \/ Respond(r) \/ Rollback(r) \/ Crash(r) \/ PhonePeAccepts(r)
              \/ PhonePeDeclines(r) \/ PhonePeDrops(r)
       PROVE ExclusiveCheckout'
  BY <1>1 DEF Connect, PoolTimeout, RejectKey, AcceptKey, Authenticate, Throttle,
       FindNothing, InsertConflict, ClientFails, InitiatePayment, Respond,
       Rollback, Crash, PhonePeAccepts, PhonePeDeclines, PhonePeDrops
<1>2. ASSUME NEW r \in Requests, FindExisting(r) PROVE ExclusiveCheckout'
  <2>1. PICK o \in rows : session' = [session EXCEPT ![r] = o]
    BY <1>2 DEF FindExisting, Committed
  <2>2. o.id # r
    BY <1>2, <2>1 DEF FindExisting
  <2>3. \A ref : IndexHolders(ref)' \subseteq IndexHolders(ref)
    BY <1>2, <2>1, <2>2 DEF FindExisting
  <2> QED
    BY <1>2, <2>3 DEF FindExisting
<1>3. ASSUME NEW r \in Requests, InsertOrder(r) PROVE ExclusiveCheckout'
  BY <1>3 DEF InsertOrder, Committed
<1>4. ASSUME NEW r \in Requests, RecordPayment(r) PROVE ExclusiveCheckout'
  <2>1. session'[r] \in Row /\ session'[r].id = r /\ session'[r] # None
    BY <1>4, SessionUpdated
  <2>2. \A q \in Requests \ {r} : session'[q] = session[q]
    BY <1>4, SessionUpdated
  <2>3. session[r] # None /\ session[r].id = r
    BY <1>4 DEF RecordPayment
  <2> QED
    BY <1>4, <2>1, <2>2, <2>3 DEF RecordPayment
<1>5. ASSUME NEW r \in Requests, PaymentFails(r) PROVE ExclusiveCheckout'
  <2>1. session'[r] \in Row /\ session'[r].id = r /\ session'[r] # None
    BY <1>5, SessionUpdated
  <2>2. \A q \in Requests \ {r} : session'[q] = session[q]
    BY <1>5, SessionUpdated
  <2>3. session[r] # None /\ session[r].id = r
    BY <1>5 DEF PaymentFails
  <2> QED
    BY <1>5, <2>1, <2>2, <2>3 DEF PaymentFails
<1>6. ASSUME NEW r \in Requests, Commit(r) PROVE ExclusiveCheckout'
  BY <1>6 DEF Commit, WithSession
<1>7. ASSUME NEW r \in Requests, CommitFails(r) PROVE ExclusiveCheckout'
  BY <1>7 DEF CommitFails, WithSession
<1>8. CASE UNCHANGED vars
  BY <1>8 DEF vars
<1> QED
  BY <1>1, <1>2, <1>3, <1>4, <1>5, <1>6, <1>7, <1>8 DEF Next, Step, PhonePe, AllDone

\* The row a commit adds had its index entry to itself.
LEMMA OneOrderStep ==
  IInv /\ TypeOK' /\ [Next]_vars => OneOrderPerReference'
<1> SUFFICES ASSUME IInv, TypeOK', [Next]_vars PROVE OneOrderPerReference'
  OBVIOUS
<1> USE NoneAssumption, ErrorAssumption, NoRowAssumption, RefOfAssumption
    DEF IInv, TypeOK, SessionFits, ExclusiveCheckout, OneOrderPerReference,
        IndexHolders, Row, InTransaction
<1>1. ASSUME NEW r \in Requests,
              \/ Connect(r) \/ PoolTimeout(r) \/ RejectKey(r)
              \/ AcceptKey(r) \/ Authenticate(r) \/ Throttle(r) \/ FindExisting(r)
              \/ FindNothing(r) \/ InsertOrder(r) \/ InsertConflict(r)
              \/ ClientFails(r) \/ InitiatePayment(r) \/ RecordPayment(r)
              \/ PaymentFails(r) \/ Respond(r) \/ Rollback(r) \/ Crash(r)
              \/ PhonePeAccepts(r) \/ PhonePeDeclines(r) \/ PhonePeDrops(r)
       PROVE OneOrderPerReference'
  BY <1>1 DEF Connect, PoolTimeout, RejectKey, AcceptKey, Authenticate, Throttle,
       FindExisting, FindNothing, InsertOrder, InsertConflict, ClientFails,
       InitiatePayment, RecordPayment, PaymentFails, Respond, Rollback, Crash,
       PhonePeAccepts, PhonePeDeclines, PhonePeDrops, Committed
<1>2. ASSUME NEW r \in Requests, Commit(r) PROVE OneOrderPerReference'
  BY <1>2 DEF Commit, WithSession
<1>3. ASSUME NEW r \in Requests, CommitFails(r) PROVE OneOrderPerReference'
  BY <1>3 DEF CommitFails, WithSession
<1>4. CASE UNCHANGED vars
  BY <1>4 DEF vars
<1> QED
  BY <1>1, <1>2, <1>3, <1>4 DEF Next, Step, PhonePe, AllDone

\* The row a commit adds was recorded from PhonePe's answer to its own call.
LEMMA AnsweredStep ==
  IInv /\ TypeOK' /\ [Next]_vars => StoredOrdersWereAnswered'
<1> SUFFICES ASSUME IInv, TypeOK', [Next]_vars PROVE StoredOrdersWereAnswered'
  OBVIOUS
<1> USE NoneAssumption, ErrorAssumption, NoRowAssumption, RefOfAssumption
    DEF IInv, TypeOK, SessionFits, StoredOrdersWereAnswered, Row, Answered
<1>1. ASSUME NEW r \in Requests,
              \/ Connect(r) \/ PoolTimeout(r) \/ RejectKey(r)
              \/ AcceptKey(r) \/ Authenticate(r) \/ Throttle(r) \/ FindExisting(r)
              \/ FindNothing(r) \/ InsertOrder(r) \/ InsertConflict(r)
              \/ ClientFails(r) \/ InitiatePayment(r) \/ RecordPayment(r)
              \/ PaymentFails(r) \/ Respond(r) \/ Rollback(r) \/ Crash(r)
              \/ PhonePeAccepts(r) \/ PhonePeDeclines(r) \/ PhonePeDrops(r)
       PROVE StoredOrdersWereAnswered'
  BY <1>1 DEF Connect, PoolTimeout, RejectKey, AcceptKey, Authenticate, Throttle,
       FindExisting, FindNothing, InsertOrder, InsertConflict, ClientFails,
       InitiatePayment, RecordPayment, PaymentFails, Respond, Rollback, Crash,
       PhonePeAccepts, PhonePeDeclines, PhonePeDrops, Committed
<1>2. ASSUME NEW r \in Requests, Commit(r) PROVE StoredOrdersWereAnswered'
  BY <1>2 DEF Commit, WithSession
<1>3. ASSUME NEW r \in Requests, CommitFails(r) PROVE StoredOrdersWereAnswered'
  BY <1>3 DEF CommitFails, WithSession
<1>4. CASE UNCHANGED vars
  BY <1>4 DEF vars
<1> QED
  BY <1>1, <1>2, <1>3, <1>4 DEF Next, Step, PhonePe, AllDone

\* An answer names the session's order, which by then is stored.
LEMMA DurableStep ==
  IInv /\ TypeOK' /\ [Next]_vars => AnswersAreDurable'
<1> SUFFICES ASSUME IInv, TypeOK', [Next]_vars PROVE AnswersAreDurable'
  OBVIOUS
<1> USE NoneAssumption, ErrorAssumption, NoRowAssumption, RefOfAssumption
    DEF IInv, TypeOK, SessionFits, AnswersComeLate, AnswersAreDurable, Row
<1>1. ASSUME NEW r \in Requests,
              \/ Connect(r) \/ PoolTimeout(r) \/ RejectKey(r)
              \/ AcceptKey(r) \/ Authenticate(r) \/ Throttle(r) \/ FindExisting(r)
              \/ FindNothing(r) \/ InsertOrder(r) \/ InsertConflict(r)
              \/ ClientFails(r) \/ InitiatePayment(r) \/ RecordPayment(r)
              \/ PaymentFails(r) \/ Rollback(r) \/ Crash(r)
              \/ PhonePeAccepts(r) \/ PhonePeDeclines(r) \/ PhonePeDrops(r)
       PROVE AnswersAreDurable'
  BY <1>1 DEF Connect, PoolTimeout, RejectKey, AcceptKey, Authenticate, Throttle,
       FindExisting, FindNothing, InsertOrder, InsertConflict, ClientFails,
       InitiatePayment, RecordPayment, PaymentFails, Rollback, Crash,
       PhonePeAccepts, PhonePeDeclines, PhonePeDrops, Committed
<1>2. ASSUME NEW r \in Requests, Commit(r) PROVE AnswersAreDurable'
  BY <1>2 DEF Commit, WithSession
<1>3. ASSUME NEW r \in Requests, CommitFails(r) PROVE AnswersAreDurable'
  BY <1>3 DEF CommitFails, WithSession
<1>4. ASSUME NEW r \in Requests, Respond(r) PROVE AnswersAreDurable'
  BY <1>4 DEF Respond
<1>5. CASE UNCHANGED vars
  BY <1>5 DEF vars
<1> QED
  BY <1>1, <1>2, <1>3, <1>4, <1>5 DEF Next, Step, PhonePe, AllDone

-----------------------------------------------------------------------------
\* Before the first request nothing is stored, held or answered.
LEMMA InitIInv == Init => IInv
BY NoneAssumption, ErrorAssumption, NoRowAssumption
   DEF Init, IInv, TypeOK, SessionFits, BuildersCommitted, AnswersComeLate,
       ExclusiveCheckout, OneOrderPerReference, StoredOrdersWereAnswered,
       AnswersAreDurable, IndexHolders, Phases, InTransaction

\* IInv is inductive: what the request of one step does cannot upset the
\* transaction, the index entry or the answer of another.
THEOREM InductiveInvariant == Spec => []IInv
<1>1. IInv /\ [Next]_vars => IInv'
  <2> SUFFICES ASSUME IInv, [Next]_vars PROVE IInv'
    OBVIOUS
  <2>1. TypeOK'
    BY TypeStep DEF IInv
  <2>2. SessionFits' /\ BuildersCommitted' /\ AnswersComeLate'
    BY <2>1, SessionFitsStep, BuildersStep, AnswersLateStep
  <2>3. ExclusiveCheckout' /\ OneOrderPerReference'
    BY <2>1, ExclusiveStep, OneOrderStep
  <2>4. StoredOrdersWereAnswered' /\ AnswersAreDurable'
    BY <2>1, AnsweredStep, DurableStep
  <2> QED
    BY <2>1, <2>2, <2>3, <2>4 DEF IInv
<1> QED
  BY InitIInv, <1>1, PTL DEF Spec

\* Every variable of a checkout keeps its type.
THEOREM TypeCorrect == Spec => []TypeOK
BY InductiveInvariant, PTL DEF IInv

\* At most one stored order per tenant and merchant_order_id, for any number of
\* concurrent and repeated POST /v1/orders calls, crashes and lost commits.
THEOREM AtMostOneOrder == Spec => []OneOrderPerReference
BY InductiveInvariant, PTL DEF IInv

\* The call to PhonePe is made under the exclusive hold of the index entry.
THEOREM CheckoutIsExclusive == Spec => []ExclusiveCheckout
BY InductiveInvariant, PTL DEF IInv

\* What is stored by creation is PENDING, and PhonePe answered its own call: it names that
\* call's payment, or none where PhonePe took none.
THEOREM StoredWasAnswered == Spec => []StoredOrdersWereAnswered
BY InductiveInvariant, PTL DEF IInv

\* A client is told only of stored orders (but see respond-first releases).
THEOREM ToldIsStored == Spec => []AnswersAreDurable
BY InductiveInvariant, PTL DEF IInv

\* PhonePe is not called again once the order is stored, nor by two requests at
\* once.  The caller holds the index entry (SessionFits), so ExclusiveCheckout
\* rules out both a stored order and another caller.
THEOREM NoCallForStoredOrder == Spec => CallsOnlyForNewOrders
<1> DEFINE Quiet == \A r \in calls' \ calls :
                      /\ Committed(RefOf[r]) = {}
                      /\ \A q \in Requests \ {r} : RefOf[q] = RefOf[r] => pc[q] # "called"
<1>1. IInv /\ [Next]_vars => [Quiet]_vars
  <2> SUFFICES ASSUME IInv, Next, NEW r \in calls' \ calls
               PROVE  /\ Committed(RefOf[r]) = {}
                      /\ \A q \in Requests \ {r} : RefOf[q] = RefOf[r] => pc[q] # "called"
    OBVIOUS
  <2>1. r \in Requests /\ InitiatePayment(r)
    <3>1. PICK q \in Requests :
           Step(q) \/ PoolTimeout(q) \/ Crash(q) \/ PhonePe(q)
      BY DEF Next, AllDone, vars
    <3>2. InitiatePayment(q)
      BY <3>1 DEF Step, PhonePe,
           Connect, PoolTimeout, RejectKey, AcceptKey, Authenticate, Throttle, FindExisting,
           FindNothing, InsertOrder, InsertConflict, ClientFails, RecordPayment,
           PaymentFails, Commit, CommitFails, Respond, Rollback, Crash,
           PhonePeAccepts, PhonePeDeclines, PhonePeDrops
    <3>3. q = r
      BY <3>2 DEF InitiatePayment
    <3> QED
      BY <3>2, <3>3
  <2>2. r \in IndexHolders(RefOf[r])
    BY <2>1, NoRowAssumption DEF InitiatePayment, IInv, SessionFits,
        IndexHolders, InTransaction
  <2>3. Committed(RefOf[r]) = {}
    BY <2>1, <2>2 DEF IInv, ExclusiveCheckout, Committed, TypeOK, Row
  <2>4. ASSUME NEW q \in Requests \ {r}, RefOf[q] = RefOf[r], pc[q] = "called" PROVE FALSE
    <3>1. q \in IndexHolders(RefOf[r])
      BY <2>4, NoRowAssumption DEF IInv, SessionFits, IndexHolders, InTransaction
    <3> QED
      BY <2>1, <2>2, <2>4, <3>1 DEF IInv, ExclusiveCheckout
  <2> QED
    BY <2>3, <2>4
<1> QED
  BY <1>1, InductiveInvariant, PTL DEF Spec, CallsOnlyForNewOrders

-----------------------------------------------------------------------------
\* The stored orders and the answers, as the abstract register sees them.
Stored == {o.id : o \in rows}
Told == [r \in Requests |-> IF build = "commit-first" THEN response[r] ELSE None]

\* A commit creates the order of its request, or changes no order.
LEMMA CommitCreates ==
  ASSUME IInv, NEW r \in Requests, pc[r] = "finish", rows' \in {rows, WithSession(r)},
         UNCHANGED <<build, response>>
  PROVE  Abstract!Create(r) \/ UNCHANGED Abstract!vars
<1>1. CASE rows' = rows
  BY <1>1 DEF Abstract!vars
<1>2. CASE rows' # rows
  <2>1. session[r] \in Row /\ session[r].id = r /\ rows' = rows \union {session[r]}
    BY <1>2 DEF IInv, SessionFits, WithSession
  <2>2. r \in IndexHolders(RefOf[r])
    BY <2>1, NoRowAssumption DEF IndexHolders, InTransaction
  <2>3. \A o \in rows : RefOf[o.id] # RefOf[r]
    BY <2>2 DEF IInv, TypeOK, ExclusiveCheckout, Row
  <2>4. Stored' = Stored \union {r}
    BY <2>1 DEF Stored
  <2> QED
    BY <2>3, <2>4 DEF Abstract!Create, Stored
<1> QED
  BY <1>1, <1>2

\* An error answer is one for the register too, unless it is hidden or not the first.
LEMMA ErrorAnswers ==
  ASSUME IInv, NEW r \in Requests, UNCHANGED <<build, rows>>,
         response' = [response EXCEPT ![r] = IF @ = None THEN Error ELSE @]
  PROVE  Abstract!AnswerError(r) \/ UNCHANGED Abstract!vars
<1>1. CASE build = "commit-first" /\ response[r] = None
  <2>1. Told' = [Told EXCEPT ![r] = Error]
    BY <1>1 DEF Told, IInv, TypeOK
  <2> QED
    BY <1>1, <2>1 DEF Abstract!AnswerError, Told
<1>2. CASE build # "commit-first" \/ response[r] # None
  <2>1. Told' = Told
    BY <1>2 DEF Told, IInv, TypeOK
  <2> QED
    BY <2>1 DEF Abstract!vars, Told
<1> QED
  BY <1>1, <1>2

\* A success answer of a commit-first release is the register's answer.
LEMMA SuccessAnswers ==
  ASSUME IInv, NEW r \in Requests, Respond(r)
  PROVE  (\E o \in Stored : Abstract!AnswerOrder(r, o)) \/ UNCHANGED Abstract!vars
<1>1. CASE build = "commit-first"
  <2>1. pc[r] = "answer" /\ response[r] = None
    BY <1>1 DEF Respond, IInv, AnswersComeLate
  <2>2. session[r] \in rows /\ RefOf[session[r].id] = RefOf[r]
    BY <2>1 DEF IInv, SessionFits
  <2>3. Told' = [Told EXCEPT ![r] = session[r].id]
    BY <1>1 DEF Told, Respond, IInv, TypeOK
  <2>4. PICK o \in Stored : o = session[r].id
    BY <2>2 DEF Stored
  <2>5. Abstract!AnswerOrder(r, o)
    BY <1>1, <2>1, <2>2, <2>3, <2>4 DEF Abstract!AnswerOrder, Respond, Told, Stored
  <2> QED
    BY <2>5
<1>2. CASE build # "commit-first"
  BY <1>2 DEF Respond, Abstract!vars
<1> QED
  BY <1>1, <1>2

\* Order creation implements the create-once register: in a commit-first release
\* every answer, and in any release every stored order, is one the register gives.
THEOREM CreationIsOrderOnce == Spec => ImplementsOrderOnce
<1>1. Init => Abstract!Init
  BY DEF Init, Abstract!Init
<1>2. IInv /\ [Next]_vars => [Abstract!Next]_(Abstract!vars)
  <2> SUFFICES ASSUME IInv, [Next]_vars PROVE [Abstract!Next]_(Abstract!vars)
    OBVIOUS
  <2>1. ASSUME NEW r \in Requests,
               \/ Connect(r) \/ AcceptKey(r) \/ Authenticate(r) \/ Throttle(r)
               \/ FindExisting(r)
               \/ FindNothing(r) \/ InsertOrder(r) \/ InsertConflict(r)
               \/ ClientFails(r) \/ InitiatePayment(r) \/ RecordPayment(r)
               \/ PaymentFails(r) \/ Crash(r) \/ PhonePeAccepts(r) \/ PhonePeDeclines(r)
               \/ PhonePeDrops(r)
        PROVE  UNCHANGED Abstract!vars
    BY <2>1 DEF Connect, AcceptKey, Authenticate, Throttle, FindExisting, FindNothing,
         InsertOrder,
         InsertConflict, ClientFails, InitiatePayment, RecordPayment, PaymentFails,
         Crash, PhonePeAccepts, PhonePeDeclines, PhonePeDrops, Abstract!vars
  <2>2. ASSUME NEW r \in Requests, Commit(r) \/ CommitFails(r)
        PROVE  [Abstract!Next]_(Abstract!vars)
    <3>1. Abstract!Create(r) \/ UNCHANGED Abstract!vars
      BY <2>2, CommitCreates DEF Commit, CommitFails
    <3> QED
      BY <3>1 DEF Abstract!Next
  <2>3. ASSUME NEW r \in Requests, PoolTimeout(r) \/ RejectKey(r) \/ Rollback(r)
        PROVE  [Abstract!Next]_(Abstract!vars)
    <3>1. response' = [response EXCEPT ![r] = IF @ = None THEN Error ELSE @]
      BY <2>3 DEF PoolTimeout, RejectKey, Rollback, IInv, AnswersComeLate, TypeOK
    <3>2. Abstract!AnswerError(r) \/ UNCHANGED Abstract!vars
      BY <2>3, <3>1, ErrorAnswers DEF PoolTimeout, RejectKey, Rollback
    <3> QED
      BY <3>2 DEF Abstract!Next
  <2>4. ASSUME NEW r \in Requests, Respond(r) PROVE [Abstract!Next]_(Abstract!vars)
    BY <2>4, SuccessAnswers DEF Abstract!Next, Stored
  <2>5. CASE UNCHANGED vars
    BY <2>5 DEF vars, Abstract!vars
  <2> QED
    BY <2>1, <2>2, <2>3, <2>4, <2>5 DEF Next, Step, PhonePe, AllDone
<1> QED
  BY <1>1, <1>2, InductiveInvariant, PTL DEF Spec, ImplementsOrderOnce, Abstract!Spec
-----------------------------------------------------------------------------
\* Waiting, and paying twice

\* Who holds an index entry is past its INSERT: it waits for no lock.
LEMMA HoldersWaitForNobody ==
  ASSUME SessionFits, NEW ref, NEW i \in IndexHolders(ref), NEW j
  PROVE  ~WaitsFor(i, j)
BY DEF SessionFits, IndexHolders, WaitsFor

\* WaitsAreShort: no deadlock over key rows and index entries, however many requests,
\* references and keys there are.  A request waits for a key's row before it holds
\* anything, and for an index entry when it holds its key's row only.
THEOREM NoRequestsDeadlock == Spec => []WaitsAreShort
<1>1. IInv => WaitsAreShort
  <2> SUFFICES ASSUME IInv, NEW r \in Requests, NEW h \in Requests, NEW i \in Requests,
                      NEW j \in Requests, WaitsFor(r, h), WaitsFor(h, i)
               PROVE  ~WaitsFor(i, j)
    BY DEF WaitsAreShort
  <2>1. CASE h \in KeyHolders(ApiKeyOf[r])
    <3>1. i \in IndexHolders(RefOf[h])
      BY <2>1 DEF WaitsFor, KeyHolders
    <3> QED
      BY <3>1, HoldersWaitForNobody DEF IInv
  <2>2. CASE h \in IndexHolders(RefOf[r])
    BY <2>2, HoldersWaitForNobody DEF IInv
  <2> QED
    BY <2>1, <2>2 DEF WaitsFor
<1> QED
  BY <1>1, InductiveInvariant, PTL

\* A request that called PhonePe keeps its own row in the session to the end of its
\* transaction, and is told of no other order.
PayersFit ==
  \A r \in calls \union payments :
    /\ pc[r] \in {"called", "finish", "failing", "broken", "answer", "done"}
    /\ pc[r] \in {"called", "finish", "failing", "answer"} =>
         session[r] # None /\ session[r].id = r
    /\ response[r] \in {None, Error, r}

LEMMA PayersStep ==
  IInv /\ PayersFit /\ [Next]_vars => PayersFit'
<1> SUFFICES ASSUME IInv, PayersFit, [Next]_vars PROVE PayersFit'
  OBVIOUS
<1> USE NoRowAssumption DEF IInv, TypeOK, SessionFits, PayersFit, Goto
<1>1. ASSUME NEW r \in Requests,
             \/ Connect(r) \/ PoolTimeout(r) \/ RejectKey(r)
             \/ AcceptKey(r) \/ Authenticate(r) \/ Throttle(r)
             \/ FindExisting(r) \/ FindNothing(r) \/ InsertOrder(r) \/ InsertConflict(r)
             \/ ClientFails(r)
      PROVE  PayersFit'
  BY <1>1 DEF Connect, PoolTimeout, RejectKey, AcceptKey, Authenticate, Throttle, FindExisting,
       FindNothing, InsertOrder, InsertConflict, ClientFails
<1>2. ASSUME NEW r \in Requests, InitiatePayment(r) PROVE PayersFit'
  <2>1. response[r] = None
    BY <1>2 DEF InitiatePayment, AnswersComeLate
  <2> QED
    BY <1>2, <2>1 DEF InitiatePayment
<1>3. ASSUME NEW r \in Requests, RecordPayment(r) \/ PaymentFails(r) PROVE PayersFit'
  <2>1. session'[r] # None /\ session'[r].id = r
        /\ \A q \in Requests \ {r} : session'[q] = session[q]
    BY <1>3, SessionUpdated
  <2> QED
    BY <1>3, <2>1 DEF RecordPayment, PaymentFails
<1>4. ASSUME NEW r \in Requests, Commit(r) \/ CommitFails(r) \/ Crash(r) PROVE PayersFit'
  BY <1>4 DEF Commit, CommitFails, Crash
<1>5. ASSUME NEW r \in Requests, Respond(r) PROVE PayersFit'
  BY <1>5 DEF Respond
<1>6. ASSUME NEW r \in Requests, Rollback(r) PROVE PayersFit'
  BY <1>6 DEF Rollback
<1>7. ASSUME NEW r \in Requests, PhonePe(r) PROVE PayersFit'
  BY <1>7 DEF PhonePe, PhonePeAccepts, PhonePeDeclines, PhonePeDrops
<1>8. CASE UNCHANGED vars
  BY <1>8 DEF vars
<1> QED
  BY <1>1, <1>2, <1>3, <1>4, <1>5, <1>6, <1>7, <1>8 DEF Next, Step, AllDone

\* A request that called PhonePe holds its reference, or has stored its order, or was
\* cut off.
LEMMA PayersHoldOrLose ==
  ASSUME IInv, PayersFit, NEW r \in payments, ~CutOff(r)
  PROVE  r \in IndexHolders(RefOf[r]) \/ \E o \in rows : o.id = r
<1> USE DEF IInv, TypeOK, PayersFit
<1>1. r \in Requests
  OBVIOUS
<1>2. CASE pc[r] \in {"called", "finish", "failing"}
  BY <1>1, <1>2 DEF IndexHolders, InTransaction
<1>3. CASE pc[r] = "answer"
  BY <1>1, <1>3 DEF SessionFits
<1>4. CASE pc[r] \in {"broken", "done"} /\ response[r] = r /\ build = "commit-first"
  BY <1>1, <1>4 DEF AnswersAreDurable
<1>5. CASE pc[r] \in {"broken", "done"} /\ ~(response[r] = r /\ build = "commit-first")
  BY <1>1, <1>5, NoneAssumption, ErrorAssumption DEF CutOff, Builds
<1> QED
  BY <1>2, <1>3, <1>4, <1>5

\* SecondPaymentsFollowFailures: of the payments for a reference at most one belongs to
\* a request that was not cut off, for any number of calls.  Two that were not would
\* both hold the reference or have an order stored under it.
THEOREM DoublePaymentsHaveACause == Spec => []SecondPaymentsFollowFailures
<1>1. Init => PayersFit
  BY DEF Init, PayersFit
<1>2. IInv /\ PayersFit => SecondPaymentsFollowFailures
  <2> SUFFICES ASSUME IInv, PayersFit, NEW p \in payments, NEW q \in payments,
                      RefOf[p] = RefOf[q], p # q, ~CutOff(p), ~CutOff(q)
               PROVE  FALSE
    BY DEF SecondPaymentsFollowFailures
  <2> DEFINE Holds(r) == r \in IndexHolders(RefOf[r])
             Stores(r) == \E o \in rows : o.id = r
  <2>1. p \in Requests /\ q \in Requests
    BY DEF IInv, TypeOK
  <2>2. (Holds(p) \/ Stores(p)) /\ (Holds(q) \/ Stores(q))
    BY PayersHoldOrLose
  <2>3. ~(Holds(p) /\ Holds(q))
    BY <2>1 DEF IInv, ExclusiveCheckout
  <2>4. ~(Holds(p) /\ Stores(q)) /\ ~(Holds(q) /\ Stores(p))
    BY <2>1 DEF IInv, ExclusiveCheckout
  <2>5. ~(Stores(p) /\ Stores(q))
    BY DEF IInv, OneOrderPerReference
  <2> QED
    BY <2>2, <2>3, <2>4, <2>5
<1> QED
  BY <1>1, <1>2, PayersStep, InductiveInvariant, PTL DEF Spec
-----------------------------------------------------------------------------
\* The orders as OrderLife

\* A stored order keeps its status, and one that a step adds is PENDING.
LEMMA StoredStaysPending ==
  ASSUME IInv, IInv', NEW o \in Requests, rows \subseteq rows'
  PROVE  [Life(o)!OrderStored]_(Life(o)!vars)
<1>1. CASE \E row \in rows : row.id = o
  <2>1. RowStatus(o) = "PENDING" /\ RowStatus(o)' = "PENDING"
    BY <1>1 DEF RowStatus, IInv, StoredOrdersWereAnswered
  <2> QED
    BY <2>1 DEF Life!vars
<1>2. CASE ~\E row \in rows : row.id = o
  <2>1. RowStatus(o) = None
    BY <1>2 DEF RowStatus
  <2>2. RowStatus(o)' \in {None, "PENDING"}
    BY DEF RowStatus, IInv, StoredOrdersWereAnswered
  <2> QED
    BY <2>1, <2>2 DEF Life!OrderStored, Life!vars
<1> QED
  BY <1>1, <1>2

\* OnlyStoresOrders, for any requests: what OrderStatus takes for StoreOrder, and
\* Refunds for OrderStored, is all that creation does to an order.
THEOREM CreationStoresOrders == Spec => OnlyStoresOrders
<1> DEFINE Begin == \A o \in Requests : Life(o)!Init
           Live == \A o \in Requests : [Life(o)!OrderStored]_(Life(o)!vars)
<1>1. Init => Begin
  BY DEF Init, Life!Init, RowStatus
<1>2. [Next]_vars => rows \subseteq rows'
  BY DEF Next, Step, PhonePe, AllDone, vars, Connect, PoolTimeout,
     RejectKey, AcceptKey, Authenticate,
     Throttle, FindExisting, FindNothing, InsertOrder, InsertConflict, ClientFails,
     InitiatePayment, RecordPayment, PaymentFails, Commit, CommitFails, WithSession, Respond,
     Rollback, Crash, PhonePeAccepts, PhonePeDeclines, PhonePeDrops
<1>3. IInv /\ IInv' /\ [Next]_vars => Live
  BY <1>2, StoredStaysPending
<1>4. OnlyStoresOrders <=> Begin /\ [][Live]_vars
  BY DEF OnlyStoresOrders
<1> HIDE DEF Begin, Live
<1> QED
  BY <1>1, <1>3, <1>4, InductiveInvariant, PTL DEF Spec
=============================================================================
