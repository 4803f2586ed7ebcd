--------------------------- MODULE RefundsProofs ---------------------------
(* Proofs about Refunds for any calls, keys and refund ids.                 *)
EXTENDS Refunds, TLAPS

\* The stored order is PENDING, or has the status of its payment or one that an event
\* without a signature named.
StatusIsEarned == status \in {None, "PENDING", payment} \union claims

\* Who passed the check did so after the payment had completed, or was said to have.
CheckedIsPaid ==
  \A r \in Requests :
    pc[r] = "checked" => payment = "COMPLETED" \/ "COMPLETED" \in claims

\* A call is sent once, after its check, and answered once.
CalledOnce ==
  \A r \in Requests :
    /\ r \in calls => refunds[r] = None
    /\ pc[r] \in {"received", "waiting", "lookup", "checked"} =>
         r \notin calls /\ refunds[r] = None

\* A flushed row is real, one that is to be committed or answered is there, and one
\* that is to be answered after the commit is stored.
SessionFits ==
  \A r \in Requests :
    /\ session[r] # None =>
         /\ session[r].call = r
         /\ refunds[r] # None
         /\ session[r].status = "SUCCESS" => refunds[r] = "COMPLETED"
         /\ session[r].status = "FAILED" => refunds[r] \in {"FAILED", "DECLINED"}
    /\ pc[r] \in {"finish", "answer"} => session[r] # None
    /\ pc[r] = "answer" => session[r] \in rows

IInv == /\ TypeOK
        /\ StatusIsEarned
        /\ CheckedIsPaid
        /\ RefundsFollowPayment
        /\ CalledOnce
        /\ SessionFits
        /\ RowsAreReal
        /\ ToldIsRecorded

-----------------------------------------------------------------------------
\* Whatever PhonePe says, a status comes of it.
LEMMA CanonicalType == \A word : Canonical(word) \in Statuses
BY DEF Canonical, Statuses

\* A final status is stored only if PhonePe's word for it fits the outcome of the call.
LEMMA FinalFitsOutcome ==
  ASSUME NEW outcome \in Outcomes, NEW word \in Words(outcome)
  PROVE  /\ Canonical(word) = "SUCCESS" => outcome = "COMPLETED"
         /\ Canonical(word) = "FAILED" => outcome \in {"FAILED", "DECLINED"}
BY DEF Words, Canonical, Outcomes, RefundStates

\* The types are kept.
LEMMA TypeStep ==
  IInv /\ [Next]_vars => TypeOK'
<1> SUFFICES ASSUME IInv, [Next]_vars PROVE TypeOK'
  OBVIOUS
<1> USE MarksAssumption DEF IInv, TypeOK, Goto, order, Phases, InTransaction
<1>1. ASSUME NEW r \in Requests, Reject(r) PROVE TypeOK'
  BY <1>1 DEF Reject
<1>2. ASSUME NEW r \in Requests, Authenticate(r) PROVE TypeOK'
  BY <1>2 DEF Authenticate
<1>3. ASSUME NEW r \in Requests, Accept(r) PROVE TypeOK'
  BY <1>3 DEF Accept
<1>4. ASSUME NEW r \in Requests, Check(r) PROVE TypeOK'
  BY <1>4 DEF Check
<1>5. ASSUME NEW r \in Requests, Deny(r) PROVE TypeOK'
  BY <1>5 DEF Deny
<1>6. ASSUME NEW r \in Requests, InitiateRefund(r) PROVE TypeOK'
  BY <1>6 DEF InitiateRefund
<1>7. ASSUME NEW r \in Requests, RecordRefund(r) PROVE TypeOK'
  <2>1. PICK word \in Words(refunds[r]) :
          session' = [session EXCEPT ![r] = [call |-> r, status |-> Canonical(word)]]
    BY <1>7 DEF RecordRefund
  <2>2. [call |-> r, status |-> Canonical(word)] \in Row
    BY CanonicalType DEF Row
  <2> QED
    BY <1>7, <2>1, <2>2 DEF RecordRefund
<1>8. ASSUME NEW r \in Requests, RefundFails(r) PROVE TypeOK'
  BY <1>8 DEF RefundFails
<1>9. ASSUME NEW r \in Requests, Commit(r) PROVE TypeOK'
  <2>1. session[r] \in Row
    BY <1>9 DEF Commit, SessionFits
  <2> QED
    BY <1>9, <2>1 DEF Commit
<1>10. ASSUME NEW r \in Requests, CommitFails(r) PROVE TypeOK'
  <2>1. session[r] \in Row
    BY <1>10 DEF CommitFails, SessionFits
  <2> QED
    BY <1>10, <2>1 DEF CommitFails
<1>11. ASSUME NEW r \in Requests, Respond(r) PROVE TypeOK'
  <2>1. session[r] \in Row
    BY <1>11 DEF Respond, SessionFits
  <2>2. session[r].status \in Statuses
    BY <2>1 DEF Row
  <2> QED
    BY <1>11, <2>2 DEF Respond
<1>12. ASSUME NEW r \in Requests, Rollback(r) PROVE TypeOK'
  BY <1>12 DEF Rollback
<1>13. ASSUME NEW r \in Requests, Crash(r) PROVE TypeOK'
  BY <1>13 DEF Crash
<1>14. ASSUME NEW r \in Requests, AnswersCall(r) PROVE TypeOK'
  BY <1>14 DEF AnswersCall
<1>15. ASSUME NEW r \in Requests, DropsCall(r) PROVE TypeOK'
  BY <1>15 DEF DropsCall
<1>16. ASSUME NEW r \in Requests, RefundSettles(r) PROVE TypeOK'
  BY <1>16 DEF RefundSettles, Outcomes, RefundStates
<1>17. CASE OrderMoves
  BY <1>17 DEF OrderMoves, Order!Next, Order!OrderStored, Order!PaymentEnds,
              Order!Claim, Order!StatusChanges, Order!Ends, RefundStates
<1>18. CASE UNCHANGED vars
  BY <1>18 DEF vars, order
<1> QED
  BY <1>1, <1>2, <1>3, <1>4, <1>5, <1>6, <1>7, <1>8, <1>9, <1>10, <1>11, <1>12, <1>13,
     <1>14, <1>15, <1>16, <1>17, <1>18
     DEF Next, Step, PhonePe, AllDone

\* OrderMoves is the only action about the order: an ended payment stays ended, and what
\* was claimed stays claimed.
LEMMA EarnedStep ==
  IInv /\ [Next]_vars => StatusIsEarned'
<1> SUFFICES ASSUME IInv, [Next]_vars PROVE StatusIsEarned'
  OBVIOUS
<1> USE MarksAssumption DEF IInv, TypeOK, Goto, order, StatusIsEarned
<1>1. ASSUME NEW r \in Requests, Reject(r) PROVE StatusIsEarned'
  BY <1>1 DEF Reject
<1>2. ASSUME NEW r \in Requests, Authenticate(r) PROVE StatusIsEarned'
  BY <1>2 DEF Authenticate
<1>3. ASSUME NEW r \in Requests, Accept(r) PROVE StatusIsEarned'
  BY <1>3 DEF Accept
<1>4. ASSUME NEW r \in Requests, Check(r) PROVE StatusIsEarned'
  BY <1>4 DEF Check
<1>5. ASSUME NEW r \in Requests, Deny(r) PROVE StatusIsEarned'
  BY <1>5 DEF Deny
<1>6. ASSUME NEW r \in Requests, InitiateRefund(r) PROVE StatusIsEarned'
  BY <1>6 DEF InitiateRefund
<1>7. ASSUME NEW r \in Requests, RecordRefund(r) PROVE StatusIsEarned'
  BY <1>7 DEF RecordRefund
<1>8. ASSUME NEW r \in Requests, RefundFails(r) PROVE StatusIsEarned'
  BY <1>8 DEF RefundFails
<1>9. ASSUME NEW r \in Requests, Commit(r) PROVE StatusIsEarned'
  BY <1>9 DEF Commit
<1>10. ASSUME NEW r \in Requests, CommitFails(r) PROVE StatusIsEarned'
  BY <1>10 DEF CommitFails
<1>11. ASSUME NEW r \in Requests, Respond(r) PROVE StatusIsEarned'
  BY <1>11 DEF Respond
<1>12. ASSUME NEW r \in Requests, Rollback(r) PROVE StatusIsEarned'
  BY <1>12 DEF Rollback
<1>13. ASSUME NEW r \in Requests, Crash(r) PROVE StatusIsEarned'
  BY <1>13 DEF Crash
<1>14. ASSUME NEW r \in Requests, AnswersCall(r) PROVE StatusIsEarned'
  BY <1>14 DEF AnswersCall
<1>15. ASSUME NEW r \in Requests, DropsCall(r) PROVE StatusIsEarned'
  BY <1>15 DEF DropsCall
<1>16. ASSUME NEW r \in Requests, RefundSettles(r) PROVE StatusIsEarned'
  BY <1>16 DEF RefundSettles, Outcomes, RefundStates
<1>17. CASE OrderMoves
  BY <1>17 DEF OrderMoves, Order!Next, Order!OrderStored, Order!PaymentEnds,
              Order!Claim, Order!StatusChanges, Order!Ends
<1>18. CASE UNCHANGED vars
  BY <1>18 DEF vars, order
<1> QED
  BY <1>1, <1>2, <1>3, <1>4, <1>5, <1>6, <1>7, <1>8, <1>9, <1>10, <1>11, <1>12, <1>13,
     <1>14, <1>15, <1>16, <1>17, <1>18
     DEF Next, Step, PhonePe, AllDone

\* Check saw COMPLETED, which was earned or claimed.
LEMMA CheckedStep ==
  IInv /\ [Next]_vars => CheckedIsPaid'
<1> SUFFICES ASSUME IInv, [Next]_vars PROVE CheckedIsPaid'
  OBVIOUS
<1> USE MarksAssumption DEF IInv, TypeOK, Goto, order, StatusIsEarned, CheckedIsPaid
<1>1. ASSUME NEW r \in Requests, Reject(r) PROVE CheckedIsPaid'
  BY <1>1 DEF Reject
<1>2. ASSUME NEW r \in Requests, Authenticate(r) PROVE CheckedIsPaid'
  BY <1>2 DEF Authenticate
<1>3. ASSUME NEW r \in Requests, Accept(r) PROVE CheckedIsPaid'
  BY <1>3 DEF Accept
<1>4. ASSUME NEW r \in Requests, Check(r) PROVE CheckedIsPaid'
  BY <1>4 DEF Check, Outcomes, RefundStates
<1>5. ASSUME NEW r \in Requests, Deny(r) PROVE CheckedIsPaid'
  BY <1>5 DEF Deny
<1>6. ASSUME NEW r \in Requests, InitiateRefund(r) PROVE CheckedIsPaid'
  BY <1>6 DEF InitiateRefund
<1>7. ASSUME NEW r \in Requests, RecordRefund(r) PROVE CheckedIsPaid'
  BY <1>7 DEF RecordRefund
<1>8. ASSUME NEW r \in Requests, RefundFails(r) PROVE CheckedIsPaid'
  BY <1>8 DEF RefundFails
<1>9. ASSUME NEW r \in Requests, Commit(r) PROVE CheckedIsPaid'
  BY <1>9 DEF Commit
<1>10. ASSUME NEW r \in Requests, CommitFails(r) PROVE CheckedIsPaid'
  BY <1>10 DEF CommitFails
<1>11. ASSUME NEW r \in Requests, Respond(r) PROVE CheckedIsPaid'
  BY <1>11 DEF Respond
<1>12. ASSUME NEW r \in Requests, Rollback(r) PROVE CheckedIsPaid'
  BY <1>12 DEF Rollback
<1>13. ASSUME NEW r \in Requests, Crash(r) PROVE CheckedIsPaid'
  BY <1>13 DEF Crash
<1>14. ASSUME NEW r \in Requests, AnswersCall(r) PROVE CheckedIsPaid'
  BY <1>14 DEF AnswersCall
<1>15. ASSUME NEW r \in Requests, DropsCall(r) PROVE CheckedIsPaid'
  BY <1>15 DEF DropsCall
<1>16. ASSUME NEW r \in Requests, RefundSettles(r) PROVE CheckedIsPaid'
  BY <1>16 DEF RefundSettles, Outcomes, RefundStates
<1>17. CASE OrderMoves
  BY <1>17 DEF OrderMoves, Order!Next, Order!OrderStored, Order!PaymentEnds,
              Order!Claim, Order!StatusChanges, Order!Ends
<1>18. CASE UNCHANGED vars
  BY <1>18 DEF vars, order
<1> QED
  BY <1>1, <1>2, <1>3, <1>4, <1>5, <1>6, <1>7, <1>8, <1>9, <1>10, <1>11, <1>12, <1>13,
     <1>14, <1>15, <1>16, <1>17, <1>18
     DEF Next, Step, PhonePe, AllDone

\* Only what was checked is sent.
LEMMA PaidStep ==
  IInv /\ [Next]_vars => RefundsFollowPayment'
<1> SUFFICES ASSUME IInv, [Next]_vars PROVE RefundsFollowPayment'
  OBVIOUS
<1> USE MarksAssumption DEF IInv, TypeOK, Goto, order, CheckedIsPaid, RefundsFollowPayment
<1>1. ASSUME NEW r \in Requests, Reject(r) PROVE RefundsFollowPayment'
  BY <1>1 DEF Reject
<1>2. ASSUME NEW r \in Requests, Authenticate(r) PROVE RefundsFollowPayment'
  BY <1>2 DEF Authenticate
<1>3. ASSUME NEW r \in Requests, Accept(r) PROVE RefundsFollowPayment'
  BY <1>3 DEF Accept
<1>4. ASSUME NEW r \in Requests, Check(r) PROVE RefundsFollowPayment'
  BY <1>4 DEF Check
<1>5. ASSUME NEW r \in Requests, Deny(r) PROVE RefundsFollowPayment'
  BY <1>5 DEF Deny
<1>6. ASSUME NEW r \in Requests, InitiateRefund(r) PROVE RefundsFollowPayment'
  BY <1>6 DEF InitiateRefund
<1>7. ASSUME NEW r \in Requests, RecordRefund(r) PROVE RefundsFollowPayment'
  BY <1>7 DEF RecordRefund
<1>8. ASSUME NEW r \in Requests, RefundFails(r) PROVE RefundsFollowPayment'
  BY <1>8 DEF RefundFails
<1>9. ASSUME NEW r \in Requests, Commit(r) PROVE RefundsFollowPayment'
  BY <1>9 DEF Commit
<1>10. ASSUME NEW r \in Requests, CommitFails(r) PROVE RefundsFollowPayment'
  BY <1>10 DEF CommitFails
<1>11. ASSUME NEW r \in Requests, Respond(r) PROVE RefundsFollowPayment'
  BY <1>11 DEF Respond
<1>12. ASSUME NEW r \in Requests, Rollback(r) PROVE RefundsFollowPayment'
  BY <1>12 DEF Rollback
<1>13. ASSUME NEW r \in Requests, Crash(r) PROVE RefundsFollowPayment'
  BY <1>13 DEF Crash
<1>14. ASSUME NEW r \in Requests, AnswersCall(r) PROVE RefundsFollowPayment'
  BY <1>14 DEF AnswersCall
<1>15. ASSUME NEW r \in Requests, DropsCall(r) PROVE RefundsFollowPayment'
  BY <1>15 DEF DropsCall
<1>16. ASSUME NEW r \in Requests, RefundSettles(r) PROVE RefundsFollowPayment'
  BY <1>16 DEF RefundSettles, Outcomes, RefundStates
<1>17. CASE OrderMoves
  BY <1>17 DEF OrderMoves, Order!Next, Order!OrderStored, Order!PaymentEnds,
              Order!Claim, Order!StatusChanges, Order!Ends
<1>18. CASE UNCHANGED vars
  BY <1>18 DEF vars, order
<1> QED
  BY <1>1, <1>2, <1>3, <1>4, <1>5, <1>6, <1>7, <1>8, <1>9, <1>10, <1>11, <1>12, <1>13,
     <1>14, <1>15, <1>16, <1>17, <1>18
     DEF Next, Step, PhonePe, AllDone

\* A phase is never entered twice.
LEMMA CalledStep ==
  IInv /\ [Next]_vars => CalledOnce'
<1> SUFFICES ASSUME IInv, [Next]_vars PROVE CalledOnce'
  OBVIOUS
<1> USE MarksAssumption DEF IInv, TypeOK, Goto, order, Phases, InTransaction, CalledOnce
<1>1. ASSUME NEW r \in Requests, Reject(r) PROVE CalledOnce'
  BY <1>1 DEF Reject
<1>2. ASSUME NEW r \in Requests, Authenticate(r) PROVE CalledOnce'
  BY <1>2 DEF Authenticate
<1>3. ASSUME NEW r \in Requests, Accept(r) PROVE CalledOnce'
  BY <1>3 DEF Accept
<1>4. ASSUME NEW r \in Requests, Check(r) PROVE CalledOnce'
  BY <1>4 DEF Check
<1>5. ASSUME NEW r \in Requests, Deny(r) PROVE CalledOnce'
  BY <1>5 DEF Deny
<1>6. ASSUME NEW r \in Requests, InitiateRefund(r) PROVE CalledOnce'
  BY <1>6 DEF InitiateRefund
<1>7. ASSUME NEW r \in Requests, RecordRefund(r) PROVE CalledOnce'
  BY <1>7 DEF RecordRefund
<1>8. ASSUME NEW r \in Requests, RefundFails(r) PROVE CalledOnce'
  BY <1>8 DEF RefundFails
<1>9. ASSUME NEW r \in Requests, Commit(r) PROVE CalledOnce'
  BY <1>9 DEF Commit
<1>10. ASSUME NEW r \in Requests, CommitFails(r) PROVE CalledOnce'
  BY <1>10 DEF CommitFails
<1>11. ASSUME NEW r \in Requests, Respond(r) PROVE CalledOnce'
  BY <1>11 DEF Respond
<1>12. ASSUME NEW r \in Requests, Rollback(r) PROVE CalledOnce'
  BY <1>12 DEF Rollback
<1>13. ASSUME NEW r \in Requests, Crash(r) PROVE CalledOnce'
  BY <1>13 DEF Crash
<1>14. ASSUME NEW r \in Requests, AnswersCall(r) PROVE CalledOnce'
  BY <1>14 DEF AnswersCall
<1>15. ASSUME NEW r \in Requests, DropsCall(r) PROVE CalledOnce'
  BY <1>15 DEF DropsCall
<1>16. ASSUME NEW r \in Requests, RefundSettles(r) PROVE CalledOnce'
  BY <1>16 DEF RefundSettles, Outcomes, RefundStates
<1>17. CASE OrderMoves
  BY <1>17 DEF OrderMoves, Order!Next, Order!OrderStored, Order!PaymentEnds,
              Order!Claim, Order!StatusChanges, Order!Ends
<1>18. CASE UNCHANGED vars
  BY <1>18 DEF vars, order
<1> QED
  BY <1>1, <1>2, <1>3, <1>4, <1>5, <1>6, <1>7, <1>8, <1>9, <1>10, <1>11, <1>12, <1>13,
     <1>14, <1>15, <1>16, <1>17, <1>18
     DEF Next, Step, PhonePe, AllDone

\* RecordRefund flushes what is real, and neither PhonePe nor time unmakes it.
LEMMA FitsStep ==
  IInv /\ [Next]_vars => SessionFits'
<1> SUFFICES ASSUME IInv, [Next]_vars PROVE SessionFits'
  OBVIOUS
<1> USE MarksAssumption DEF IInv, TypeOK, Goto, order, SessionFits
<1>1. ASSUME NEW r \in Requests, Reject(r) PROVE SessionFits'
  BY <1>1 DEF Reject
<1>2. ASSUME NEW r \in Requests, Authenticate(r) PROVE SessionFits'
  BY <1>2 DEF Authenticate
<1>3. ASSUME NEW r \in Requests, Accept(r) PROVE SessionFits'
  BY <1>3 DEF Accept
<1>4. ASSUME NEW r \in Requests, Check(r) PROVE SessionFits'
  BY <1>4 DEF Check
<1>5. ASSUME NEW r \in Requests, Deny(r) PROVE SessionFits'
  BY <1>5 DEF Deny
<1>6. ASSUME NEW r \in Requests, InitiateRefund(r) PROVE SessionFits'
  BY <1>6 DEF InitiateRefund
<1>7. ASSUME NEW r \in Requests, RecordRefund(r) PROVE SessionFits'
  <2>1. PICK word \in Words(refunds[r]) :
          session' = [session EXCEPT ![r] = [call |-> r, status |-> Canonical(word)]]
    BY <1>7 DEF RecordRefund
  <2>2. /\ refunds[r] # None
        /\ Canonical(word) = "SUCCESS" => refunds[r] = "COMPLETED"
        /\ Canonical(word) = "FAILED" => refunds[r] \in {"FAILED", "DECLINED"}
    BY <1>7, FinalFitsOutcome DEF RecordRefund
  <2>3. [call |-> r, status |-> Canonical(word)] # None
    BY CanonicalType DEF Row
  <2> QED
    BY <1>7, <2>1, <2>2, <2>3 DEF RecordRefund
<1>8. ASSUME NEW r \in Requests, RefundFails(r) PROVE SessionFits'
  BY <1>8 DEF RefundFails
<1>9. ASSUME NEW r \in Requests, Commit(r) PROVE SessionFits'
  BY <1>9 DEF Commit
<1>10. ASSUME NEW r \in Requests, CommitFails(r) PROVE SessionFits'
  BY <1>10 DEF CommitFails
<1>11. ASSUME NEW r \in Requests, Respond(r) PROVE SessionFits'
  BY <1>11 DEF Respond
<1>12. ASSUME NEW r \in Requests, Rollback(r) PROVE SessionFits'
  BY <1>12 DEF Rollback
<1>13. ASSUME NEW r \in Requests, Crash(r) PROVE SessionFits'
  BY <1>13 DEF Crash
<1>14. ASSUME NEW r \in Requests, AnswersCall(r) PROVE SessionFits'
  <2>1. refunds[r] = None
    BY <1>14 DEF AnswersCall, CalledOnce
  <2> QED
    BY <1>14, <2>1 DEF AnswersCall, Outcomes, RefundStates
<1>15. ASSUME NEW r \in Requests, DropsCall(r) PROVE SessionFits'
  BY <1>15 DEF DropsCall
<1>16. ASSUME NEW r \in Requests, RefundSettles(r) PROVE SessionFits'
  BY <1>16 DEF RefundSettles, Outcomes, RefundStates
<1>17. CASE OrderMoves
  BY <1>17 DEF OrderMoves, Order!Next, Order!OrderStored, Order!PaymentEnds,
              Order!Claim, Order!StatusChanges, Order!Ends
<1>18. CASE UNCHANGED vars
  BY <1>18 DEF vars, order
<1> QED
  BY <1>1, <1>2, <1>3, <1>4, <1>5, <1>6, <1>7, <1>8, <1>9, <1>10, <1>11, <1>12, <1>13,
     <1>14, <1>15, <1>16, <1>17, <1>18
     DEF Next, Step, PhonePe, AllDone

\* What is committed was flushed.
LEMMA RealStep ==
  IInv /\ [Next]_vars => RowsAreReal'
<1> SUFFICES ASSUME IInv, [Next]_vars PROVE RowsAreReal'
  OBVIOUS
<1> USE MarksAssumption DEF IInv, TypeOK, Goto, order, Row, RowsAreReal
<1>1. ASSUME NEW r \in Requests, Reject(r) PROVE RowsAreReal'
  BY <1>1 DEF Reject
<1>2. ASSUME NEW r \in Requests, Authenticate(r) PROVE RowsAreReal'
  BY <1>2 DEF Authenticate
<1>3. ASSUME NEW r \in Requests, Accept(r) PROVE RowsAreReal'
  BY <1>3 DEF Accept
<1>4. ASSUME NEW r \in Requests, Check(r) PROVE RowsAreReal'
  BY <1>4 DEF Check
<1>5. ASSUME NEW r \in Requests, Deny(r) PROVE RowsAreReal'
  BY <1>5 DEF Deny
<1>6. ASSUME NEW r \in Requests, InitiateRefund(r) PROVE RowsAreReal'
  BY <1>6 DEF InitiateRefund
<1>7. ASSUME NEW r \in Requests, RecordRefund(r) PROVE RowsAreReal'
  BY <1>7 DEF RecordRefund
<1>8. ASSUME NEW r \in Requests, RefundFails(r) PROVE RowsAreReal'
  BY <1>8 DEF RefundFails
<1>9. ASSUME NEW r \in Requests, Commit(r) PROVE RowsAreReal'
  <2>1. session[r] # None
    BY <1>9 DEF Commit, SessionFits
  <2> QED
    BY <1>9, <2>1 DEF Commit, SessionFits
<1>10. ASSUME NEW r \in Requests, CommitFails(r) PROVE RowsAreReal'
  <2>1. session[r] # None
    BY <1>10 DEF CommitFails, SessionFits
  <2> QED
    BY <1>10, <2>1 DEF CommitFails, SessionFits
<1>11. ASSUME NEW r \in Requests, Respond(r) PROVE RowsAreReal'
  BY <1>11 DEF Respond
<1>12. ASSUME NEW r \in Requests, Rollback(r) PROVE RowsAreReal'
  BY <1>12 DEF Rollback
<1>13. ASSUME NEW r \in Requests, Crash(r) PROVE RowsAreReal'
  BY <1>13 DEF Crash
<1>14. ASSUME NEW r \in Requests, AnswersCall(r) PROVE RowsAreReal'
  <2>1. refunds[r] = None
    BY <1>14 DEF AnswersCall, CalledOnce
  <2> QED
    BY <1>14, <2>1 DEF AnswersCall, Outcomes, RefundStates
<1>15. ASSUME NEW r \in Requests, DropsCall(r) PROVE RowsAreReal'
  BY <1>15 DEF DropsCall
<1>16. ASSUME NEW r \in Requests, RefundSettles(r) PROVE RowsAreReal'
  BY <1>16 DEF RefundSettles, Outcomes, RefundStates
<1>17. CASE OrderMoves
  BY <1>17 DEF OrderMoves, Order!Next, Order!OrderStored, Order!PaymentEnds,
              Order!Claim, Order!StatusChanges, Order!Ends
<1>18. CASE UNCHANGED vars
  BY <1>18 DEF vars, order
<1> QED
  BY <1>1, <1>2, <1>3, <1>4, <1>5, <1>6, <1>7, <1>8, <1>9, <1>10, <1>11, <1>12, <1>13,
     <1>14, <1>15, <1>16, <1>17, <1>18
     DEF Next, Step, PhonePe, AllDone

\* The answer of a commit-first release is given from a row that is stored.
LEMMA ToldStep ==
  IInv /\ [Next]_vars => ToldIsRecorded'
<1> SUFFICES ASSUME IInv, [Next]_vars PROVE ToldIsRecorded'
  OBVIOUS
<1> USE MarksAssumption DEF IInv, TypeOK, Goto, order, ToldIsRecorded
<1>1. ASSUME NEW r \in Requests, Reject(r) PROVE ToldIsRecorded'
  BY <1>1 DEF Reject
<1>2. ASSUME NEW r \in Requests, Authenticate(r) PROVE ToldIsRecorded'
  BY <1>2 DEF Authenticate
<1>3. ASSUME NEW r \in Requests, Accept(r) PROVE ToldIsRecorded'
  BY <1>3 DEF Accept
<1>4. ASSUME NEW r \in Requests, Check(r) PROVE ToldIsRecorded'
  BY <1>4 DEF Check
<1>5. ASSUME NEW r \in Requests, Deny(r) PROVE ToldIsRecorded'
  BY <1>5 DEF Deny
<1>6. ASSUME NEW r \in Requests, InitiateRefund(r) PROVE ToldIsRecorded'
  BY <1>6 DEF InitiateRefund
<1>7. ASSUME NEW r \in Requests, RecordRefund(r) PROVE ToldIsRecorded'
  BY <1>7 DEF RecordRefund
<1>8. ASSUME NEW r \in Requests, RefundFails(r) PROVE ToldIsRecorded'
  BY <1>8 DEF RefundFails
<1>9. ASSUME NEW r \in Requests, Commit(r) PROVE ToldIsRecorded'
  BY <1>9 DEF Commit
<1>10. ASSUME NEW r \in Requests, CommitFails(r) PROVE ToldIsRecorded'
  BY <1>10 DEF CommitFails
<1>11. ASSUME NEW r \in Requests, Respond(r) PROVE ToldIsRecorded'
  <2>1. session[r] \in Row /\ session[r].call = r
    BY <1>11 DEF Respond, SessionFits
  <2>2. session[r] = [call |-> r, status |-> session[r].status]
    BY <2>1 DEF Row
  <2>3. build = "commit-first" => session[r] \in rows
    BY <1>11 DEF Respond, SessionFits
  <2> QED
    BY <1>11, <2>2, <2>3 DEF Respond
<1>12. ASSUME NEW r \in Requests, Rollback(r) PROVE ToldIsRecorded'
  BY <1>12 DEF Rollback
<1>13. ASSUME NEW r \in Requests, Crash(r) PROVE ToldIsRecorded'
  BY <1>13 DEF Crash
<1>14. ASSUME NEW r \in Requests, AnswersCall(r) PROVE ToldIsRecorded'
  BY <1>14 DEF AnswersCall
<1>15. ASSUME NEW r \in Requests, DropsCall(r) PROVE ToldIsRecorded'
  BY <1>15 DEF DropsCall
<1>16. ASSUME NEW r \in Requests, RefundSettles(r) PROVE ToldIsRecorded'
  BY <1>16 DEF RefundSettles, Outcomes, RefundStates
<1>17. CASE OrderMoves
  BY <1>17 DEF OrderMoves, Order!Next, Order!OrderStored, Order!PaymentEnds,
              Order!Claim, Order!StatusChanges, Order!Ends
<1>18. CASE UNCHANGED vars
  BY <1>18 DEF vars, order
<1> QED
  BY <1>1, <1>2, <1>3, <1>4, <1>5, <1>6, <1>7, <1>8, <1>9, <1>10, <1>11, <1>12, <1>13,
     <1>14, <1>15, <1>16, <1>17, <1>18
     DEF Next, Step, PhonePe, AllDone

\* IInv holds in every reachable state: rows, sessions, PhonePe and the order agree.
THEOREM InductiveInvariant == Spec => []IInv
<1>1. Init => IInv
  BY MarksAssumption
     DEF Init, Order!Init, IInv, TypeOK, Phases, RefundStates, StatusIsEarned,
         CheckedIsPaid, RefundsFollowPayment, CalledOnce, SessionFits,
         RowsAreReal, ToldIsRecorded
<1>2. IInv /\ [Next]_vars => IInv'
  BY TypeStep, EarnedStep, CheckedStep, PaidStep, CalledStep, FitsStep, RealStep,
     ToldStep DEF IInv
<1> QED
  BY <1>1, <1>2, PTL DEF Spec

\* TypeOK: in particular only the three statuses of the table are ever stored.
THEOREM TypeCorrect == Spec => []TypeOK
<1>1. IInv => TypeOK
  BY DEF IInv
<1> QED
  BY <1>1, InductiveInvariant, PTL

\* RowsAreReal: whatever fails, a recorded refund is of a call PhonePe answered, and no row
\* says SUCCESS of a refund that is not completed or FAILED of one that goes on.
THEOREM RecordedRefundsAreReal == Spec => []RowsAreReal
<1>1. IInv => RowsAreReal
  BY DEF IInv
<1> QED
  BY <1>1, InductiveInvariant, PTL

\* ToldIsRecorded: after the commit, and whatever happened to it, no caller is misled.
THEOREM ToldRefundsAreRecorded == Spec => []ToldIsRecorded
<1>1. IInv => ToldIsRecorded
  BY DEF IInv
<1> QED
  BY <1>1, InductiveInvariant, PTL

\* RefundsFollowPayment: the stale check is harmless, for a completed payment stays so; what
\* it lets through besides was said to be completed by an event without a signature.
THEOREM OnlyPaidIsRefunded == Spec => []RefundsFollowPayment
<1>1. IInv => RefundsFollowPayment
  BY DEF IInv
<1> QED
  BY <1>1, InductiveInvariant, PTL
-----------------------------------------------------------------------------
\* How many rows

\* A call records one row at most, and ends its transaction with it.
OneRowPerCall ==
  /\ \A o \in rows : pc[o.call] \in {"broken", "answer", "done"}
  /\ \A o, p \in rows : o.call = p.call => o = p

LEMMA OneRowStep ==
  IInv /\ OneRowPerCall /\ [Next]_vars => OneRowPerCall'
<1> SUFFICES ASSUME IInv, OneRowPerCall, [Next]_vars PROVE OneRowPerCall'
  OBVIOUS
<1> USE DEF IInv, TypeOK, Goto, OneRowPerCall
<1>1. ASSUME NEW r \in Requests, Commit(r) \/ CommitFails(r) PROVE OneRowPerCall'
  <2>1. pc[r] = "finish" /\ session[r] # None /\ session[r].call = r
    BY <1>1 DEF Commit, CommitFails, SessionFits
  <2>2. \A o \in rows : o.call # r
    BY <2>1
  <2>3. rows' \subseteq rows \union {session[r]}
    BY <1>1 DEF Commit, CommitFails
  <2>4. \A o, p \in rows' : o.call = p.call => o = p
    BY <2>1, <2>2, <2>3
  <2>5. pc'[r] \in {"broken", "answer", "done"} /\ \A q \in Requests \ {r} : pc'[q] = pc[q]
    BY <1>1 DEF Commit, CommitFails
  <2>6. \A o \in rows : o.call \in Requests
    BY DEF Row
  <2> QED
    BY <2>1, <2>3, <2>4, <2>5, <2>6
<1>2. ASSUME NEW r \in Requests, Step(r) \/ Crash(r), ~(Commit(r) \/ CommitFails(r))
      PROVE  OneRowPerCall'
  <2>1. rows' = rows
    BY <1>2 DEF Step, Crash, Reject, Accept, Authenticate, Check, Deny, InitiateRefund,
         RecordRefund, RefundFails, Respond, Rollback
  <2>2. \A q \in Requests : pc[q] \in {"broken", "answer", "done"} =>
                               pc'[q] \in {"broken", "answer", "done"}
    BY <1>2 DEF Step, Crash, Reject, Accept, Authenticate, Check, Deny, InitiateRefund,
         RecordRefund, RefundFails, Respond, Rollback
  <2>3. \A o \in rows : o.call \in Requests
    BY DEF Row
  <2> QED
    BY <2>1, <2>2, <2>3
<1>3. CASE UNCHANGED <<pc, rows>>
  BY <1>3
<1> QED
  BY <1>1, <1>2, <1>3
     DEF Next, PhonePe, AnswersCall, DropsCall, RefundSettles, OrderMoves, AllDone, vars

\* No two calls are about one refund.
RefundIdsApart ==
  \A r, q \in Requests : RefundIdOf[r] # None /\ RefundIdOf[r] = RefundIdOf[q] => r = q

\* OneRowPerRefund: a call never records its refund twice, whatever becomes of its
\* commit; what repeated_refund refutes needs a second call with the same id.
THEOREM OnlyRepeatedCallsRecordTwice ==
  ASSUME RefundIdsApart
  PROVE  Spec => []OneRowPerRefund
<1>1. Init => OneRowPerCall
  BY DEF Init, OneRowPerCall
<1>2. IInv /\ OneRowPerCall => OneRowPerRefund
  <2> SUFFICES ASSUME IInv, OneRowPerCall, NEW o \in rows, NEW p \in rows,
                      RefundIdOf[o.call] # None, RefundIdOf[o.call] = RefundIdOf[p.call]
               PROVE  o = p
    BY DEF OneRowPerRefund
  <2>1. o.call \in Requests /\ p.call \in Requests
    BY DEF IInv, TypeOK, Row
  <2> QED
    BY <2>1 DEF RefundIdsApart, OneRowPerCall
<1> QED
  BY <1>1, <1>2, OneRowStep, InductiveInvariant, PTL DEF Spec
=============================================================================
