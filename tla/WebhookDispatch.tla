-------------------------- MODULE WebhookDispatch --------------------------
(* The outbound dispatcher, dispatch_outbound_webhook: an asyncio task in   *)
(* the memory of one uvicorn worker that logs a notice in webhook_logs,     *)
(* POSTs it to the tenant's endpoint with retries and logs the outcome.     *)
(* The log row says FORWARDED from its first commit on.                     *)
EXTENDS Naturals

CONSTANTS Tasks,         \* the notices handed to the dispatcher
          Workers,
          WorkerOf,      \* the worker whose event loop runs a task
          MaxRetries,    \* settings.WEBHOOK_MAX_RETRIES
          None

ASSUME WorkerOfAssumption == WorkerOf \in [Tasks -> Workers]
ASSUME MaxRetriesAssumption == MaxRetries \in Nat

VARIABLES
  pc,         \* how far each task has got
  attempt,    \* the loop variable of the task
  row,        \* its committed row of webhook_logs
  broken,     \* the tasks whose session cannot commit any more
  accepted,   \* how many of its POSTs the endpoint processed with a 2xx answer
  unheard     \* how many of those answers never arrived (timeout, reset)

vars == <<pc, attempt, row, broken, accepted, unheard>>

Rows == [status : {"FORWARDED", "FAILED"}, attempts : 0..MaxRetries]

ASSUME NoneAssumption == None \notin Rows

TypeOK ==
  /\ pc \in [Tasks -> {"unspawned", "log", "loop", "post", "save", "done", "lost"}]
  /\ attempt \in [Tasks -> 0..MaxRetries]
  /\ row \in [Tasks -> Rows \union {None}]
  /\ broken \subseteq Tasks
  /\ accepted \in [Tasks -> 0..MaxRetries]
  /\ unheard \in [Tasks -> 0..MaxRetries]

Init ==
  /\ pc = [d \in Tasks |-> "unspawned"]
  /\ attempt = [d \in Tasks |-> 0]
  /\ row = [d \in Tasks |-> None]
  /\ broken = {}
  /\ accepted = [d \in Tasks |-> 0]
  /\ unheard = [d \in Tasks |-> 0]

Goto(d, phase) == pc' = [pc EXCEPT ![d] = phase]

\* The row as the next UPDATE leaves it.
Saved(d, status) == row' = [row EXCEPT ![d] = [status |-> status, attempts |-> attempt[d]]]

-----------------------------------------------------------------------------
\* An inbound webhook or the reconciler creates the task.
Spawn(d) ==
  /\ pc[d] = "unspawned"
  /\ Goto(d, "log")
  /\ UNCHANGED <<attempt, row, broken, accepted, unheard>>

\* INSERT and COMMIT of the log row, before any attempt.
LogNotice(d) ==
  /\ pc[d] = "log"
  /\ Saved(d, "FORWARDED")
  /\ Goto(d, "loop")
  /\ UNCHANGED <<attempt, broken, accepted, unheard>>

\* The commit raises, although it may have reached the database.  Nothing
\* catches it: the task is over, and the notice was never sent.
LogFails(d) ==
  /\ pc[d] = "log"
  /\ UNCHANGED row \/ Saved(d, "FORWARDED")
  /\ Goto(d, "lost")
  /\ UNCHANGED <<attempt, broken, accepted, unheard>>

Accepted(d) ==
  /\ pc[d] = "post"
  /\ accepted' = [accepted EXCEPT ![d] = @ + 1]
  /\ Goto(d, "save")
  /\ UNCHANGED <<attempt, row, broken, unheard>>

\* The endpoint processes the notice, but its answer does not arrive in time.
AnswerLost(d) ==
  /\ pc[d] = "post"
  /\ accepted' = [accepted EXCEPT ![d] = @ + 1]
  /\ unheard' = [unheard EXCEPT ![d] = @ + 1]
  /\ Goto(d, "loop")
  /\ UNCHANGED <<attempt, row, broken>>

\* (A slip: any answer at all counts as a delivery.)
RefusedCounts(d) ==
  /\ pc[d] = "post"
  /\ Goto(d, "save")
  /\ UNCHANGED <<attempt, row, broken, accepted, unheard>>

\* Another status, or no connection: the endpoint has not taken the notice.
Refused(d) ==
  /\ pc[d] = "post"
  /\ Goto(d, "loop")
  /\ UNCHANGED <<attempt, row, broken, accepted, unheard>>

\* (A slip: the loop goes on after the delivery was saved.)
SaveForwardedGoOn(d) ==
  /\ pc[d] = "save"
  /\ d \notin broken
  /\ Saved(d, "FORWARDED")
  /\ Goto(d, "loop")
  /\ UNCHANGED <<attempt, broken, accepted, unheard>>

\* A 2xx answer: the row is committed as FORWARDED and the task returns.
SaveForwarded(d) ==
  /\ pc[d] = "save"
  /\ d \notin broken
  /\ Saved(d, "FORWARDED")
  /\ Goto(d, "done")
  /\ UNCHANGED <<attempt, broken, accepted, unheard>>

\* (A slip: the failed commit is rolled back, and the session can commit again.)
SaveFailsRolledBack(d) ==
  /\ pc[d] = "save"
  /\ \/ UNCHANGED row
     \/ d \notin broken /\ Saved(d, "FORWARDED")
  /\ Goto(d, "loop")
  /\ UNCHANGED <<attempt, broken, accepted, unheard>>

\* That commit raises, although it may have reached the database.  The except
\* around the POST takes it for a failed delivery.  Nothing rolls the session
\* back, so that every later commit of the task raises too.
SaveFails(d) ==
  /\ pc[d] = "save"
  /\ \/ UNCHANGED row
     \/ d \notin broken /\ Saved(d, "FORWARDED")
  /\ broken' = broken \union {d}
  /\ Goto(d, "loop")
  /\ UNCHANGED <<attempt, accepted, unheard>>

\* (A slip: one attempt too many.)
NextAttemptOnceMore(d) ==
  /\ pc[d] = "loop"
  /\ attempt[d] <= MaxRetries
  /\ attempt' = [attempt EXCEPT ![d] = @ + 1]
  /\ Goto(d, "post")
  /\ UNCHANGED <<row, broken, accepted, unheard>>

\* (A slip: the attempt is not counted.)
NextAttemptUncounted(d) ==
  /\ pc[d] = "loop"
  /\ attempt[d] < MaxRetries
  /\ Goto(d, "post")
  /\ UNCHANGED <<attempt, row, broken, accepted, unheard>>

\* The first attempt, or another one once the back-off is over.
NextAttempt(d) ==
  /\ pc[d] = "loop"
  /\ attempt[d] < MaxRetries
  /\ attempt' = [attempt EXCEPT ![d] = @ + 1]
  /\ Goto(d, "post")
  /\ UNCHANGED <<row, broken, accepted, unheard>>

\* The last attempt failed: the row is committed as FAILED.
GiveUp(d) ==
  /\ pc[d] = "loop"
  /\ attempt[d] = MaxRetries
  /\ d \notin broken
  /\ Saved(d, "FAILED")
  /\ Goto(d, "done")
  /\ UNCHANGED <<attempt, broken, accepted, unheard>>

\* That commit raises, with nothing to catch it.
GiveUpFails(d) ==
  /\ pc[d] = "loop"
  /\ attempt[d] = MaxRetries
  /\ \/ UNCHANGED row
     \/ d \notin broken /\ Saved(d, "FAILED")
  /\ Goto(d, "lost")
  /\ UNCHANGED <<attempt, broken, accepted, unheard>>

\* The worker dies or shuts down, and with it the tasks in its memory.  A commit
\* under way was done (its action, then this one) or not.
Crash(u) ==
  LET live == {d \in Tasks : WorkerOf[d] = u /\ pc[d] \in {"log", "post", "save", "loop"}}
  IN /\ live # {}
     /\ pc' = [d \in Tasks |-> IF d \in live THEN "lost" ELSE pc[d]]
     /\ UNCHANGED <<attempt, row, broken, accepted, unheard>>

\* Every task has returned or is gone: nothing is left to do.
AllDone ==
  /\ \A d \in Tasks : pc[d] \in {"done", "lost"}
  /\ UNCHANGED vars

Dispatch(d) == \/ LogNotice(d) \/ LogFails(d)
               \/ Accepted(d) \/ AnswerLost(d) \/ Refused(d)
               \/ SaveForwarded(d) \/ SaveFails(d)
               \/ NextAttempt(d) \/ GiveUp(d) \/ GiveUpFails(d)

Next == \/ \E d \in Tasks : Spawn(d) \/ Dispatch(d)
        \/ \E u \in Workers : Crash(u)
        \/ AllDone

\* The event loop runs its tasks; every await ends, by its timeout at the latest.
Spec == Init /\ [][Next]_vars /\ \A d \in Tasks : WF_vars(Dispatch(d))
-----------------------------------------------------------------------------
\* Properties

\* What webhook_logs says of a notice beyond the first commit is true: FAILED rows
\* stand for MaxRetries attempts of which no acceptance was heard, FORWARDED rows
\* with an attempt for one that was heard, however commits failed in between.
RowsTellTheTruth ==
  \A d \in Tasks :
    row[d] # None =>
      \/ row[d].status = "FORWARDED" /\ row[d].attempts = 0
      \/ row[d].status = "FORWARDED" /\ accepted[d] > unheard[d]
      \/ row[d] = [status |-> "FAILED", attempts |-> MaxRetries] /\ accepted[d] = unheard[d]

\* A tenant gets a notice again only for an answer that was not heard, unless the
\* commit after a delivery failed, which sends it out again to the last attempt.
RepeatsAreExplained ==
  \A d \in Tasks : accepted[d] > unheard[d] + 1 => d \in broken

\* Once the log row of a notice says how it ended, nothing rewrites it: neither the
\* attempts that go on after a commit that was done and raised, nor giving up after
\* them, nor a commit under way when the worker dies.
OutcomesAreFinal ==
  [][\A d \in Tasks :
       row[d] # None /\ (row[d].status = "FAILED" \/ row[d].attempts > 0) =>
         row'[d] = row[d]]_vars

\* Every dispatch ends, delivered, given up or lost: no outcome of its POSTs and
\* commits keeps it retrying.
DispatchEnds == \A d \in Tasks : pc[d] = "log" ~> pc[d] \in {"done", "lost"}
=============================================================================
