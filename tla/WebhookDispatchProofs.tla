----------------------- MODULE WebhookDispatchProofs -----------------------
(* Proofs about WebhookDispatch for any tasks, workers and MaxRetries.      *)
EXTENDS WebhookDispatch, TLAPS

\* The acceptances of a task are attempts of its own, and an attempt that is
\* still to be answered is not among them.
Counted(d) ==
  /\ unheard[d] <= accepted[d]
  /\ accepted[d] <= attempt[d]
  /\ pc[d] = "post" => accepted[d] < attempt[d]

\* An acceptance that was heard leads to the commit of it, and past that only to
\* the end of the task or to a broken session.
Heard(d) ==
  /\ pc[d] = "save" \/ d \in broken => accepted[d] > unheard[d]
  /\ d \notin broken =>
       /\ accepted[d] <= unheard[d] + 1
       /\ pc[d] \in {"unspawned", "log", "loop", "post"} => accepted[d] = unheard[d]

\* The row of a task: none before it is logged, FAILED only past its end, and
\* FORWARDED with an attempt only past its end or in a broken session.
Logged(d) ==
  /\ pc[d] \in {"unspawned", "log"} => row[d] = None /\ attempt[d] = 0
  /\ row[d] # None /\ row[d].status = "FAILED" => pc[d] \in {"done", "lost"}
  /\ row[d] # None /\ row[d].attempts > 0 => pc[d] \in {"done", "lost"} \/ d \in broken

\* RowsTellTheTruth for one task.
Truthful(d) ==
  row[d] # None =>
    \/ row[d].status = "FORWARDED" /\ row[d].attempts = 0
    \/ row[d].status = "FORWARDED" /\ accepted[d] > unheard[d]
    \/ row[d] = [status |-> "FAILED", attempts |-> MaxRetries] /\ accepted[d] = unheard[d]

TaskInv(d) == Counted(d) /\ Heard(d) /\ Logged(d) /\ Truthful(d)

IInv == TypeOK /\ \A d \in Tasks : TaskInv(d)

-----------------------------------------------------------------------------
\* A task whose part of the state is not touched keeps its invariant.
LEMMA Untouched ==
  ASSUME NEW d, TaskInv(d),
         pc'[d] = pc[d], attempt'[d] = attempt[d], row'[d] = row[d],
         accepted'[d] = accepted[d], unheard'[d] = unheard[d],
         d \in broken' <=> d \in broken
  PROVE  TaskInv(d)'
BY DEF TaskInv, Counted, Heard, Logged, Truthful

\* A step of one task leaves the other tasks as they are.
LEMMA OthersUntouched ==
  ASSUME TypeOK, NEW d \in Tasks, Spawn(d) \/ Dispatch(d), NEW e \in Tasks \ {d}
  PROVE  /\ pc'[e] = pc[e] /\ attempt'[e] = attempt[e] /\ row'[e] = row[e]
         /\ accepted'[e] = accepted[e] /\ unheard'[e] = unheard[e]
         /\ e \in broken' <=> e \in broken
<1> USE DEF TypeOK, Goto, Saved
<1>1. CASE Spawn(d) BY <1>1 DEF Spawn
<1>2. CASE LogNotice(d) BY <1>2 DEF LogNotice
<1>3. CASE LogFails(d) BY <1>3 DEF LogFails
<1>4. CASE Accepted(d) BY <1>4 DEF Accepted
<1>5. CASE AnswerLost(d) BY <1>5 DEF AnswerLost
<1>6. CASE Refused(d) BY <1>6 DEF Refused
<1>7. CASE SaveForwarded(d) BY <1>7 DEF SaveForwarded
<1>8. CASE SaveFails(d) BY <1>8 DEF SaveFails
<1>9. CASE NextAttempt(d) BY <1>9 DEF NextAttempt
<1>10. CASE GiveUp(d) BY <1>10 DEF GiveUp
<1>11. CASE GiveUpFails(d) BY <1>11 DEF GiveUpFails
<1> QED
  BY <1>1, <1>2, <1>3, <1>4, <1>5, <1>6, <1>7, <1>8, <1>9, <1>10, <1>11 DEF Dispatch

\* What a task saves is a row.
LEMMA SavedIsARow ==
  ASSUME TypeOK, NEW d \in Tasks, NEW status \in {"FORWARDED", "FAILED"}, Saved(d, status)
  PROVE  /\ row' \in [Tasks -> Rows \union {None}]
         /\ row'[d] = [status |-> status, attempts |-> attempt[d]]
         /\ row'[d].status = status /\ row'[d].attempts = attempt[d]
         /\ row'[d] # None
<1>1. [status |-> status, attempts |-> attempt[d]] \in Rows
  BY DEF TypeOK, Rows
<1> QED
  BY <1>1, NoneAssumption DEF TypeOK, Saved

\* A step of one task keeps the types: an attempt that is made is still to be
\* counted as accepted, and NextAttempt stops at MaxRetries.
LEMMA TypeStep ==
  ASSUME TypeOK, NEW d \in Tasks, TaskInv(d), Spawn(d) \/ Dispatch(d)
  PROVE  TypeOK'
<1> USE MaxRetriesAssumption DEF TypeOK, Goto
<1>1. CASE Spawn(d) BY <1>1 DEF Spawn
<1>2. CASE LogNotice(d) BY <1>2, SavedIsARow DEF LogNotice
<1>3. CASE LogFails(d) BY <1>3, SavedIsARow DEF LogFails
<1>4. CASE Accepted(d) BY <1>4 DEF Accepted, TaskInv, Counted
<1>5. CASE AnswerLost(d) BY <1>5 DEF AnswerLost, TaskInv, Counted
<1>6. CASE Refused(d) BY <1>6 DEF Refused
<1>7. CASE SaveForwarded(d) BY <1>7, SavedIsARow DEF SaveForwarded
<1>8. CASE SaveFails(d) BY <1>8, SavedIsARow DEF SaveFails
<1>9. CASE NextAttempt(d) BY <1>9 DEF NextAttempt
<1>10. CASE GiveUp(d) BY <1>10, SavedIsARow DEF GiveUp
<1>11. CASE GiveUpFails(d) BY <1>11, SavedIsARow DEF GiveUpFails
<1> QED
  BY <1>1, <1>2, <1>3, <1>4, <1>5, <1>6, <1>7, <1>8, <1>9, <1>10, <1>11 DEF Dispatch

\* A step of a task keeps the invariant of that task.
LEMMA TaskStep ==
  ASSUME TypeOK, NEW d \in Tasks, TaskInv(d), Spawn(d) \/ Dispatch(d)
  PROVE  TaskInv(d)'
<1> USE MaxRetriesAssumption DEF TypeOK, Goto, TaskInv, Counted, Heard, Logged, Truthful
<1>1. CASE Spawn(d) BY <1>1 DEF Spawn
<1>2. CASE LogNotice(d)
  <2>1. row'[d] # None /\ row'[d].status = "FORWARDED" /\ row'[d].attempts = attempt[d]
    BY <1>2, SavedIsARow DEF LogNotice
  <2> QED
    BY <1>2, <2>1 DEF LogNotice
<1>3. CASE LogFails(d)
  <2>1. CASE Saved(d, "FORWARDED")
    <3>1. row'[d] # None /\ row'[d].status = "FORWARDED" /\ row'[d].attempts = attempt[d]
      BY <2>1, SavedIsARow
    <3> QED
      BY <1>3, <3>1 DEF LogFails
  <2>2. CASE UNCHANGED row
    BY <1>3, <2>2 DEF LogFails
  <2> QED
    BY <1>3, <2>1, <2>2 DEF LogFails
<1>4. CASE Accepted(d) BY <1>4 DEF Accepted
<1>5. CASE AnswerLost(d) BY <1>5 DEF AnswerLost
<1>6. CASE Refused(d) BY <1>6 DEF Refused
<1>7. CASE SaveForwarded(d)
  <2>1. row'[d] # None /\ row'[d].status = "FORWARDED" /\ row'[d].attempts = attempt[d]
    BY <1>7, SavedIsARow DEF SaveForwarded
  <2> QED
    BY <1>7, <2>1 DEF SaveForwarded
<1>8. CASE SaveFails(d)
  <2>1. CASE Saved(d, "FORWARDED")
    <3>1. row'[d] # None /\ row'[d].status = "FORWARDED" /\ row'[d].attempts = attempt[d]
      BY <2>1, SavedIsARow
    <3> QED
      BY <1>8, <3>1 DEF SaveFails
  <2>2. CASE UNCHANGED row
    BY <1>8, <2>2 DEF SaveFails
  <2> QED
    BY <1>8, <2>1, <2>2 DEF SaveFails
<1>9. CASE NextAttempt(d) BY <1>9 DEF NextAttempt
<1>10. CASE GiveUp(d) BY <1>10, SavedIsARow DEF GiveUp
<1>11. CASE GiveUpFails(d) BY <1>11, SavedIsARow DEF GiveUpFails
<1> QED
  BY <1>1, <1>2, <1>3, <1>4, <1>5, <1>6, <1>7, <1>8, <1>9, <1>10, <1>11 DEF Dispatch

\* Losing a task keeps its invariant: its row and its counts stay as they are.
LEMMA CrashStep ==
  ASSUME TypeOK, \A d \in Tasks : TaskInv(d), NEW u \in Workers, Crash(u)
  PROVE  TypeOK' /\ \A d \in Tasks : TaskInv(d)'
<1>1. TypeOK'
  BY DEF TypeOK, Crash
<1>2. ASSUME NEW d \in Tasks PROVE TaskInv(d)'
  <2>1. CASE pc'[d] = pc[d]
    BY <2>1, <1>2, Untouched DEF Crash
  <2>2. CASE pc'[d] = "lost"
    BY <2>2, <1>2 DEF Crash, TypeOK, TaskInv, Counted, Heard, Logged, Truthful
  <2> QED
    BY <2>1, <2>2, <1>2 DEF Crash, TypeOK
<1> QED
  BY <1>1, <1>2

\* IInv holds in every reachable state: the webhook_logs row of a task, its
\* loop variable and what its endpoint has taken fit together in every phase.
THEOREM InductiveInvariant == Spec => []IInv
<1>1. Init => IInv
  BY MaxRetriesAssumption
     DEF Init, IInv, TypeOK, TaskInv, Counted, Heard, Logged, Truthful
<1>2. IInv /\ [Next]_vars => IInv'
  <2> SUFFICES ASSUME IInv, [Next]_vars PROVE IInv'
    OBVIOUS
  <2>1. ASSUME NEW d \in Tasks, Spawn(d) \/ Dispatch(d) PROVE IInv'
    <3>1. TypeOK'
      BY <2>1, TypeStep DEF IInv
    <3>2. ASSUME NEW e \in Tasks PROVE TaskInv(e)'
      <4>1. CASE e = d
        BY <4>1, <2>1, TaskStep DEF IInv
      <4>2. CASE e # d
        BY <4>2, <3>2, <2>1, OthersUntouched, Untouched DEF IInv
      <4> QED
        BY <4>1, <4>2
    <3> QED
      BY <3>1, <3>2 DEF IInv
  <2>2. ASSUME NEW u \in Workers, Crash(u) PROVE IInv'
    BY <2>2, CrashStep DEF IInv
  <2>3. CASE UNCHANGED vars
    <3>1. TypeOK'
      BY <2>3 DEF IInv, TypeOK, vars
    <3>2. ASSUME NEW d \in Tasks PROVE TaskInv(d)'
      BY <2>3, <3>2, Untouched DEF IInv, vars
    <3> QED
      BY <3>1, <3>2 DEF IInv
  <2> QED
    BY <2>1, <2>2, <2>3 DEF Next, AllDone
<1> QED
  BY <1>1, <1>2, PTL DEF Spec

\* TypeOK: in particular no task makes more attempts than WEBHOOK_MAX_RETRIES.
THEOREM TypeCorrect == Spec => []TypeOK
<1>1. IInv => TypeOK
  BY DEF IInv
<1> QED
  BY <1>1, InductiveInvariant, PTL

\* RowsTellTheTruth: past its first commit a row of webhook_logs is true of its
\* notice, for every number of retries and wherever a commit fails.
THEOREM RowsAreTrue == Spec => []RowsTellTheTruth
<1>1. IInv => RowsTellTheTruth
  BY DEF IInv, TaskInv, Truthful, RowsTellTheTruth
<1> QED
  BY <1>1, InductiveInvariant, PTL

\* RepeatsAreExplained: a second acceptance needs an unheard answer or a failed
\* commit before it.
THEOREM RepeatsHaveACause == Spec => []RepeatsAreExplained
<1>1. IInv => RepeatsAreExplained
  BY DEF IInv, TypeOK, TaskInv, Heard, RepeatsAreExplained
<1> QED
  BY <1>1, InductiveInvariant, PTL

\* A step of a task leaves the outcome in its row alone: whoever could write again
\* is past its end, or has a session that cannot commit any more.
LEMMA OutcomeKept ==
  ASSUME TypeOK, NEW d \in Tasks, TaskInv(d), Spawn(d) \/ Dispatch(d),
         row[d] # None, row[d].status = "FAILED" \/ row[d].attempts > 0
  PROVE  row'[d] = row[d]
<1>1. pc[d] \in {"done", "lost"} \/ d \in broken
  BY DEF TaskInv, Logged
<1>2. CASE Spawn(d) BY <1>2 DEF Spawn
<1>3. CASE LogNotice(d) BY <1>3 DEF LogNotice, TaskInv, Logged
<1>4. CASE LogFails(d) BY <1>4 DEF LogFails, TaskInv, Logged
<1>5. CASE Accepted(d) \/ AnswerLost(d) \/ Refused(d) \/ NextAttempt(d)
  BY <1>5 DEF Accepted, AnswerLost, Refused, NextAttempt
<1>6. CASE SaveForwarded(d) BY <1>1, <1>6 DEF SaveForwarded
<1>7. CASE SaveFails(d) BY <1>1, <1>7 DEF SaveFails
<1>8. CASE GiveUp(d) BY <1>1, <1>8 DEF GiveUp
<1>9. CASE GiveUpFails(d) BY <1>1, <1>9 DEF GiveUpFails
<1> QED
  BY <1>2, <1>3, <1>4, <1>5, <1>6, <1>7, <1>8, <1>9 DEF Dispatch

\* OutcomesAreFinal: the outcome a row of webhook_logs states is never rewritten,
\* for any number of retries, although the task may go on after a failed commit.
THEOREM OutcomesAreNeverRewritten == Spec => OutcomesAreFinal
<1> DEFINE Kept == \A d \in Tasks :
                     row[d] # None /\ (row[d].status = "FAILED" \/ row[d].attempts > 0) =>
                       row'[d] = row[d]
<1>1. IInv /\ [Next]_vars => [Kept]_vars
  <2> SUFFICES ASSUME IInv, [Next]_vars, NEW d \in Tasks,
                      row[d] # None, row[d].status = "FAILED" \/ row[d].attempts > 0
               PROVE  row'[d] = row[d]
    OBVIOUS
  <2>1. ASSUME NEW e \in Tasks, Spawn(e) \/ Dispatch(e) PROVE row'[d] = row[d]
    <3>1. CASE e = d
      BY <3>1, <2>1, OutcomeKept DEF IInv
    <3>2. CASE e # d
      BY <3>2, <2>1, OthersUntouched DEF IInv
    <3> QED
      BY <3>1, <3>2
  <2>2. ASSUME NEW u \in Workers, Crash(u) PROVE row'[d] = row[d]
    BY <2>2 DEF Crash
  <2>3. CASE UNCHANGED vars
    BY <2>3 DEF vars
  <2> QED
    BY <2>1, <2>2, <2>3 DEF Next, AllDone
<1> QED
  BY <1>1, InductiveInvariant, PTL DEF Spec, OutcomesAreFinal
=============================================================================
