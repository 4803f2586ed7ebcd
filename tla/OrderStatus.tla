---------------------------- MODULE OrderStatus ----------------------------
(* How a stored order's status follows its payment at PhonePe, along the    *)
(* three paths that write it: GET /v1/orders/{id} (get_and_sync_order_      *)
(* status), PhonePe's inbound webhooks (process_inbound_phonepe_webhook)    *)
(* and the background reconciler.  Each path is a transaction at READ       *)
(* COMMITTED: SQLAlchemy loads the row once, compares in memory, and its    *)
(* UPDATE names only the columns whose value changed since that load.       *)
EXTENDS Naturals, FiniteSets

CONSTANTS Orders,
          TenantOf,         \* the tenant of an order
          MerchantIdOf,     \* its merchant_order_id, unique per tenant only
          Pollers,          \* clients that keep asking for the status of one order
          PollerOrder,
          Events,           \* webhook deliveries; a redelivery is a delivery of its own
          Unsigned,         \* those without a signature; the others are verified with the
                            \* client_secret of a tenant, which is that tenant's own
          Rekeyed,          \* tenants whose stored secret may not be readable, or not the one
                            \* PhonePe signed with, when a delivery arrives
          Reconcilers,      \* one run_reconciliation_loop per uvicorn worker
          FinalWords,       \* PhonePe's words for the end of a payment: one for each kind
                            \* the tables tell apart, and "CANCELLED", which neither names
          Suspendable,      \* tenants an operator may have set inactive when a pass meets them
          MaxCrashes,       \* the bound on the crashes of a behaviour
          None

Actors == Pollers \union Events \union Reconcilers

ASSUME ActorsAssumption == /\ Pollers \intersect Events = {}
                           /\ Pollers \intersect Reconcilers = {}
                           /\ Events \intersect Reconcilers = {}
ASSUME PollerOrderAssumption == PollerOrder \in [Pollers -> Orders]
ASSUME OneIdPerTenantAssumption ==
  \A o, p \in Orders : TenantOf[o] = TenantOf[p] /\ MerchantIdOf[o] = MerchantIdOf[p] => o = p
ASSUME MaxCrashesAssumption == MaxCrashes \in Nat

Open == {"CREATED", "PENDING"}
Terminal == {"COMPLETED", "FAILED", "EXPIRED"}
Statuses == Open \union Terminal

ASSUME NoneAssumption == None \notin Orders \union Statuses \union {"KEEP"}

ASSUME FinalWordsAssumption ==
  FinalWords \subseteq {"COMPLETED", "PAYMENT_ERROR", "EXPIRED", "CANCELLED"}
Words == {"INITIATED"} \union FinalWords

VARIABLES
  payment,    \* PhonePe's word for each order's payment
  db,         \* the committed status of each order, None before it is stored
  old,        \* the orders older than the reconciler's threshold
  pc,         \* how far each actor has got
  target,     \* the order an actor's session is about, for an event also its sender's
  loaded,     \* the status each actor's session loaded
  reply,      \* the canonical status each actor was told
  writes,     \* the rows an actor's open transaction has updated, hence locked
  todo,       \* the rest of a reconciler's batch
  crashes,    \* how many transactions were lost so far
  notices,    \* the webhooks handed to the dispatcher: what tenants are told
  claims      \* the ends that events without a signature named and that were believed

vars ==
  <<payment, db, old, pc, target, loaded, reply, writes, todo, crashes, notices, claims>>

NoWrites == [o \in Orders |-> None]

TypeOK ==
  /\ payment \in [Orders -> Words]
  /\ db \in [Orders -> Statuses \union {None}]
  /\ old \subseteq Orders
  /\ pc \in [Actors -> {"idle", "ask", "apply", "next", "finish", "unsent", "sent", "done"}]
  /\ target \in [Actors -> Orders \union {None}]
  /\ loaded \in [Actors -> [Orders -> Statuses \union {None}]]
  /\ reply \in [Actors -> Statuses \union {None}]
  /\ writes \in [Actors -> [Orders -> Statuses \union {"KEEP", None}]]
  /\ todo \in [Reconcilers -> SUBSET Orders]
  /\ crashes \in 0..MaxCrashes
  /\ notices \subseteq [order : Orders, status : Statuses]
  /\ claims \subseteq [order : Orders, status : Terminal]

Init ==
  /\ payment = [o \in Orders |-> "INITIATED"]
  /\ db = [o \in Orders |-> None]
  /\ old = {}
  /\ pc = [a \in Actors |-> IF a \in Events THEN "unsent" ELSE "idle"]
  /\ target = [a \in Actors |-> None]
  /\ loaded = [a \in Actors |-> NoWrites]
  /\ reply = [a \in Actors |-> None]
  /\ writes = [a \in Actors |-> NoWrites]
  /\ todo = [w \in Reconcilers |-> {}]
  /\ crashes = 0
  /\ notices = {}
  /\ claims = {}

-----------------------------------------------------------------------------
\* Helpers

\* (A slip: a word the table does not name counts as a failure.)
CanonicalPessimist(word) ==
  CASE word = "COMPLETED"     -> "COMPLETED"
    [] word = "EXPIRED"       -> "EXPIRED"
    [] OTHER                  -> "FAILED"

\* (A slip: PhonePe's word is stored as it is.)
CanonicalRaw(word) == word

\* The status_map of check_order_status and that of the webhook, which agree.
Canonical(word) ==
  CASE word = "COMPLETED"     -> "COMPLETED"
    [] word = "PAYMENT_ERROR" -> "FAILED"
    [] word = "EXPIRED"       -> "EXPIRED"
    [] OTHER                  -> "PENDING"

\* Nobody but a has updated the row of o in a transaction that is still open.
RowFree(a, o) == \A b \in Actors \ {a} : writes[b][o] = None

Goto(a, phase) == pc' = [pc EXCEPT ![a] = phase]

\* The session of a ends: what it loaded, was told and updated is forgotten.
EndSession(a) ==
  /\ target' = [target EXCEPT ![a] = None]
  /\ loaded' = [loaded EXCEPT ![a] = NoWrites]
  /\ reply' = [reply EXCEPT ![a] = None]
  /\ writes' = [writes EXCEPT ![a] = NoWrites]

\* COMMIT: only the columns that changed reach the row.
CommitWrites(a) ==
  db' = [o \in Orders |-> IF writes[a][o] \in Statuses THEN writes[a][o] ELSE db[o]]

-----------------------------------------------------------------------------
\* The rest of the system and the world

\* The create request commits (OrderCreation), after PhonePe has the payment.
StoreOrder(o) ==
  /\ db[o] = None
  /\ db' = [db EXCEPT ![o] = "PENDING"]
  /\ UNCHANGED <<payment, old, pc, target, loaded, reply,
                 writes, todo, crashes, notices, claims>>

\* The payment ends; PhonePe does not take an end back.
PaymentEnds(o) ==
  /\ payment[o] = "INITIATED"
  /\ \E w \in FinalWords : payment' = [payment EXCEPT ![o] = w]
  /\ UNCHANGED <<db, old, pc, target, loaded, reply, writes, todo, crashes, notices, claims>>

Age(o) ==
  /\ db[o] # None
  /\ o \notin old
  /\ old' = old \union {o}
  /\ UNCHANGED <<payment, db, pc, target, loaded, reply,
                 writes, todo, crashes, notices, claims>>

\* What a delivery about o may say: PhonePe signs how the payment stands, and nothing
\* ties the word of a delivery without a signature to the payment.
Says(e, o) == IF e \in Unsigned THEN {"PENDING"} \union Terminal ELSE {Canonical(payment[o])}

\* A delivery is sent; it may arrive much later.
SendEvent(e, o) ==
  /\ pc[e] = "unsent"
  /\ target' = [target EXCEPT ![e] = o]
  /\ \E status \in Says(e, o) : reply' = [reply EXCEPT ![e] = status]
  /\ Goto(e, "sent")
  /\ UNCHANGED <<payment, db, old, loaded, writes, todo, crashes, notices, claims>>

-----------------------------------------------------------------------------
\* Asking PhonePe: get_and_sync_order_status, for a poller or a reconciler

AfterSync(a) == IF a \in Pollers THEN "finish" ELSE "next"

Ask(a) ==
  /\ pc[a] = "ask"
  /\ reply' = [reply EXCEPT ![a] = Canonical(payment[target[a]])]
  /\ Goto(a, "apply")
  /\ UNCHANGED <<payment, db, old, target, loaded, writes, todo, crashes, notices, claims>>

\* The poll of PhonePe fails: logged, and the order is returned as loaded.
AskFails(a) ==
  /\ pc[a] = "ask"
  /\ Goto(a, AfterSync(a))
  /\ UNCHANGED <<payment, db, old, target, loaded, reply,
                 writes, todo, crashes, notices, claims>>

\* (A slip: the status is assigned whether or not it differs from the loaded
\* one, and the UPDATE names it.)
ApplyAlways(a) ==
  LET o == target[a] IN
  /\ pc[a] = "apply" /\ a \notin Events
  /\ RowFree(a, o)
  /\ writes' = [writes EXCEPT ![a][o] = reply[a]]
  /\ notices' = IF a \in Reconcilers /\ reply[a] # loaded[a][o]
                THEN notices \union {[order |-> o, status |-> reply[a]]} ELSE notices
  /\ Goto(a, AfterSync(a))
  /\ reply' = [reply EXCEPT ![a] = None]
  /\ UNCHANGED <<payment, db, old, target, loaded, todo, crashes, claims>>

\* PhonePe's status is the loaded one: nothing to write.
ApplyNothing(a) ==
  /\ pc[a] = "apply" /\ a \notin Events
  /\ reply[a] = loaded[a][target[a]]
  /\ Goto(a, AfterSync(a))
  /\ reply' = [reply EXCEPT ![a] = None]
  /\ UNCHANGED <<payment, db, old, target, loaded, writes, todo, crashes, notices, claims>>

\* The status changed: the UPDATE is flushed once the row is free.  The
\* reconciler hands the tenant's webhook to the dispatcher at once.
Apply(a) ==
  LET o == target[a] IN
  /\ pc[a] = "apply" /\ a \notin Events
  /\ reply[a] # loaded[a][o]
  /\ RowFree(a, o)
  /\ writes' = [writes EXCEPT ![a][o] = reply[a]]
  /\ notices' = IF a \in Reconcilers
                THEN notices \union {[order |-> o, status |-> reply[a]]} ELSE notices
  /\ Goto(a, AfterSync(a))
  /\ reply' = [reply EXCEPT ![a] = None]
  /\ UNCHANGED <<payment, db, old, target, loaded, todo, crashes, claims>>

-----------------------------------------------------------------------------
\* GET /v1/orders/{merchant_order_id}

\* (A slip: only a forced request polls PhonePe.)
PollLoadForcedOnly(g, force) ==
  LET o == PollerOrder[g] IN
  /\ pc[g] = "idle"
  /\ db[o] # None
  /\ target' = [target EXCEPT ![g] = o]
  /\ loaded' = [loaded EXCEPT ![g][o] = db[o]]
  /\ Goto(g, IF force THEN "ask" ELSE "finish")
  /\ UNCHANGED <<payment, db, old, reply, writes, todo, crashes, notices, claims>>

\* An order that is still open, or any order with force_sync, is polled.
PollLoad(g, force) ==
  LET o == PollerOrder[g] IN
  /\ pc[g] = "idle"
  /\ db[o] # None
  /\ target' = [target EXCEPT ![g] = o]
  /\ loaded' = [loaded EXCEPT ![g][o] = db[o]]
  /\ Goto(g, IF force \/ db[o] \in Open THEN "ask" ELSE "finish")
  /\ UNCHANGED <<payment, db, old, reply, writes, todo, crashes, notices, claims>>

PollCommit(g) ==
  /\ g \in Pollers
  /\ pc[g] = "finish"
  /\ CommitWrites(g)
  /\ EndSession(g)
  /\ Goto(g, "idle")
  /\ UNCHANGED <<payment, old, todo, crashes, notices, claims>>

-----------------------------------------------------------------------------
\* POST /v1/webhooks/phonepe

\* The stored orders the lookup by merchant_order_id alone finds.
FoundBy(o) == {p \in Orders : db[p] # None /\ MerchantIdOf[p] = MerchantIdOf[o]}

\* The delivery is answered and changes nothing: there is no such order yet
\* (logged PROCESSED all the same), two tenants have one (scalar_one_or_none
\* raises, 500), or its signature is not one that the stored secret of the tenant
\* of the one found verifies (401), or that secret cannot be decrypted (500).
EventIgnored(e) ==
  /\ pc[e] = "sent"
  /\ LET found == FoundBy(target[e]) IN
       \/ Cardinality(found) # 1
       \/ /\ e \notin Unsigned
          /\ \E o \in found : TenantOf[o] # TenantOf[target[e]] \/ TenantOf[o] \in Rekeyed
  /\ EndSession(e)
  /\ Goto(e, "done")
  /\ UNCHANGED <<payment, db, old, todo, crashes, notices, claims>>

\* The lookup finds one order.  Its tenant's secret verifies the delivery, if it
\* carries a signature at all; one without is taken at its word.
EventLoad(e) ==
  /\ pc[e] = "sent"
  /\ \E o \in FoundBy(target[e]) :
       /\ FoundBy(target[e]) = {o}
       /\ e \in Unsigned \/ TenantOf[o] = TenantOf[target[e]]
       /\ target' = [target EXCEPT ![e] = o]
       /\ loaded' = [loaded EXCEPT ![e][o] = db[o]]
  /\ Goto(e, "apply")
  /\ UNCHANGED <<payment, db, old, reply, writes, todo, crashes, notices, claims>>

\* (A slip: the tenant is told that the payment completed whatever the event says.)
EventApplyHasty(e) ==
  LET o == target[e] IN
  /\ pc[e] = "apply" /\ e \in Events
  /\ RowFree(e, o)
  /\ writes' = [writes EXCEPT ![e][o] = IF reply[e] = loaded[e][o] THEN "KEEP" ELSE reply[e]]
  /\ notices' = notices \union {[order |-> o, status |-> "COMPLETED"]}
  /\ claims' = IF e \in Unsigned /\ reply[e] \in Terminal
               THEN claims \union {[order |-> o, status |-> reply[e]]} ELSE claims
  /\ Goto(e, "finish")
  /\ reply' = [reply EXCEPT ![e] = None]
  /\ UNCHANGED <<payment, db, old, target, loaded, todo, crashes>>

\* The status is assigned unconditionally, but the UPDATE, which always writes
\* updated_at, names it only if it differs from the loaded one.  The dispatch
\* task is created before the commit.
EventApply(e) ==
  LET o == target[e] IN
  /\ pc[e] = "apply" /\ e \in Events
  /\ RowFree(e, o)
  /\ writes' = [writes EXCEPT ![e][o] = IF reply[e] = loaded[e][o] THEN "KEEP" ELSE reply[e]]
  /\ notices' = notices \union {[order |-> o, status |-> reply[e]]}
  /\ claims' = IF e \in Unsigned /\ reply[e] \in Terminal
               THEN claims \union {[order |-> o, status |-> reply[e]]} ELSE claims
  /\ Goto(e, "finish")
  /\ reply' = [reply EXCEPT ![e] = None]
  /\ UNCHANGED <<payment, db, old, target, loaded, todo, crashes>>

EventCommit(e) ==
  /\ e \in Events
  /\ pc[e] = "finish"
  /\ CommitWrites(e)
  /\ EndSession(e)
  /\ Goto(e, "done")
  /\ UNCHANGED <<payment, old, todo, crashes, notices, claims>>

-----------------------------------------------------------------------------
\* run_reconciliation_loop

\* One SELECT loads every open order past the threshold (at most 100; the bound
\* on Orders keeps below that) into the session of the pass.
SelectBatch(w) ==
  LET batch == {o \in old : db[o] \in Open} IN
  /\ pc[w] = "idle"
  /\ batch # {}
  /\ todo' = [todo EXCEPT ![w] = batch]
  /\ loaded' = [loaded EXCEPT ![w] = [o \in Orders |-> IF o \in batch THEN db[o] ELSE None]]
  /\ Goto(w, "next")
  /\ UNCHANGED <<payment, db, old, target, reply, writes, crashes, notices, claims>>

\* (A slip: the order stays in the batch while it is worked on.)
NextOrderAgain(w) ==
  /\ pc[w] = "next"
  /\ \E o \in todo[w] : target' = [target EXCEPT ![w] = o]
  /\ Goto(w, "ask")
  /\ UNCHANGED <<payment, db, old, loaded, reply, writes, todo, crashes, notices, claims>>

\* The next order of the batch, in whatever order the SELECT returned it.  The
\* session still holds the status of the batch SELECT (identity map).
NextOrder(w) ==
  /\ pc[w] = "next"
  /\ \E o \in todo[w] : /\ target' = [target EXCEPT ![w] = o]
                        /\ todo' = [todo EXCEPT ![w] = @ \ {o}]
  /\ Goto(w, "ask")
  /\ UNCHANGED <<payment, db, old, loaded, reply, writes, crashes, notices, claims>>

\* Its tenant is inactive.
SkipOrder(w) ==
  /\ pc[w] = "next"
  /\ \E o \in todo[w] : /\ TenantOf[o] \in Suspendable
                        /\ todo' = [todo EXCEPT ![w] = @ \ {o}]
  /\ UNCHANGED <<payment, db, old, pc, target, loaded, reply,
                 writes, crashes, notices, claims>>

\* The pass is over and its session is closed.  Nothing commits it.
EndPass(w) ==
  /\ pc[w] = "next"
  /\ todo[w] = {}
  /\ EndSession(w)
  /\ Goto(w, "idle")
  /\ UNCHANGED <<payment, db, old, todo, crashes, notices, claims>>

\* The UPDATE that a is about to flush waits for the end of b's transaction.
WaitsFor(a, b) ==
  /\ pc[a] = "apply" /\ b # a
  /\ a \in Events \/ reply[a] # loaded[a][target[a]]
  /\ writes[b][target[a]] # None

\* Postgres finds w waiting in a cycle of row locks and aborts its transaction;
\* every later query of the session raises, so the pass comes to nothing.
DeadlockVictim(w) ==
  /\ \E cycle \in SUBSET Reconcilers :
       /\ w \in cycle
       /\ \A v \in cycle : \E u, t \in cycle : WaitsFor(v, u) /\ WaitsFor(t, v)
  /\ EndSession(w)
  /\ todo' = [todo EXCEPT ![w] = {}]
  /\ Goto(w, "idle")
  /\ UNCHANGED <<payment, db, old, crashes, notices, claims>>

-----------------------------------------------------------------------------
\* The worker, or its connection, dies, or a statement fails: the open transaction is
\* rolled back.  PhonePe is not answered; a redelivery is another event.
Crash(a) ==
  /\ pc[a] \notin {"idle", "unsent", "done"}
  /\ crashes < MaxCrashes
  /\ crashes' = crashes + 1
  /\ EndSession(a)
  /\ Goto(a, IF a \in Events THEN "done" ELSE "idle")
  /\ todo' = [w \in Reconcilers |-> IF w = a THEN {} ELSE todo[w]]
  /\ UNCHANGED <<payment, db, old, notices, claims>>

World == \E o \in Orders : StoreOrder(o) \/ PaymentEnds(o) \/ Age(o)

Poll(g) == (\E force \in BOOLEAN : PollLoad(g, force)) \/ PollCommit(g)

Event(e) == \/ \E o \in Orders : SendEvent(e, o)
            \/ EventIgnored(e) \/ EventLoad(e) \/ EventApply(e) \/ EventCommit(e)

Reconcile(w) == \/ SelectBatch(w) \/ NextOrder(w) \/ SkipOrder(w) \/ EndPass(w)
                \/ DeadlockVictim(w)

Sync(a) == Ask(a) \/ AskFails(a) \/ ApplyNothing(a) \/ Apply(a)

Next == \/ World
        \/ \E g \in Pollers : Poll(g)
        \/ \E e \in Events : Event(e)
        \/ \E w \in Reconcilers : Reconcile(w)
        \/ \E a \in Actors : Sync(a) \/ Crash(a)

\* Orders get stored and grow old; clients keep polling and the loop keeps
\* running; PhonePe answers a question asked again and again some time; a row
\* lock that keeps being released is granted (Postgres queues its waiters).
Fairness ==
  /\ \A o \in Orders : WF_vars(StoreOrder(o)) /\ WF_vars(Age(o))
  /\ \A g \in Pollers : WF_vars(Poll(g))
  /\ \A e \in Events : WF_vars(EventApply(e) \/ EventCommit(e))
  /\ \A w \in Reconcilers :
       WF_vars(SelectBatch(w) \/ NextOrder(w) \/ EndPass(w) \/ DeadlockVictim(w))
  /\ \A a \in Pollers \union Reconcilers :
       SF_vars(Ask(a)) /\ SF_vars(ApplyNothing(a) \/ Apply(a))

Spec == Init /\ [][Next]_vars /\ Fairness

-----------------------------------------------------------------------------
\* Properties

\* What the words mean, for the properties to compare the code's tables with.
Ended(o, status) ==
  \/ status = "COMPLETED" /\ payment[o] = "COMPLETED"
  \/ status = "FAILED" /\ payment[o] = "PAYMENT_ERROR"
  \/ status = "EXPIRED" /\ payment[o] = "EXPIRED"

\* An event without a signature said that o ended so, and was believed.
Claimed(o, status) == [order |-> o, status |-> status] \in claims

\* However late an answer or an event is applied, and over whatever status, an
\* order is never stored as ended unless its own payment ended that way, or an
\* event that nobody verified said so.
OutcomesAreReal ==
  \A o \in Orders : db[o] \in Terminal => Ended(o, db[o]) \/ Claimed(o, db[o])

\* No tenant is told of an end of a payment that did not end that way, although
\* the webhook is handed out before, or without, the commit of the status; but for
\* an end that an event said which nobody verified.
NoticesAreReal ==
  \A n \in notices :
    n.status \in Terminal => Ended(n.order, n.status) \/ Claimed(n.order, n.status)

\* What is about to commit a status for o: an event, or a poll that loaded a claim.
EventCommits(o) == \E e \in Events : pc[e] = "finish" /\ target[e] = o

PollCommitsOverClaim(o) ==
  \E g \in Pollers : pc[g] = "finish" /\ target[g] = o /\ Claimed(o, loaded[g][o])

\* Only an event can reopen an order that ended: a status poll, although it writes
\* what PhonePe said some time ago over a row that another transaction may have ended
\* since it was loaded, does so only where the end it loaded was one that an event
\* without a signature had claimed.
OnlyEventsReopen ==
  [][\A o \in Orders : db[o] \in Terminal /\ db'[o] \in Open =>
       EventCommits(o) \/ PollCommitsOverClaim(o)]_vars

\* A client that keeps polling ends up with an end of its payment stored for good,
\* whichever events were lost, late, repeated or out of order, and although the
\* reconcilers lock the row again and again; and if it keeps asking with force_sync,
\* it is the payment's own end, whatever unsigned events claimed.
PollingHeals ==
  \A g \in Pollers :
    LET o == PollerOrder[g]
        HasEnded == Canonical(payment[o]) \in Terminal
    IN /\ <>[](HasEnded => db[o] \in Terminal)
       /\ []<><<PollLoad(g, TRUE)>>_vars => <>[](HasEnded => Ended(o, db[o]))

\* A reconciliation pass ends, although two workers' passes lock the rows of
\* their batches in opposite orders and hold them to the end.
PassesEnd == \A w \in Reconcilers : pc[w] # "idle" ~> pc[w] = "idle"

\* README.md:41: the reconciler brings the stored status in line with PhonePe's.
ReconcilerHeals ==
  \A o \in Orders :
    <>[](Canonical(payment[o]) \in Terminal => db[o] \in Terminal)

\* docs/requirement.md:102 and :108: a merchant_order_id is unique per tenant only,
\* and a webhook updates its order: one about a stored order is applied to it, unless
\* its transaction fails.
EventsReachTheirOrder ==
  [][\A e \in Events :
       pc[e] = "sent" /\ pc'[e] # "sent" /\ db[target[e]] # None /\ crashes' = crashes =>
         pc'[e] = "apply" /\ target'[e] = target[e]]_vars

\* An order as OrderLife sees it: EXPIRED and what the tables do not name are FAILED.
PaymentOf(o) ==
  CASE payment[o] = "INITIATED" -> "PENDING"
    [] payment[o] = "COMPLETED" -> "COMPLETED"
    [] OTHER                    -> "FAILED"

StatusOf(o) ==
  CASE db[o] \in Open     -> "PENDING"
    [] db[o] = "EXPIRED"  -> "FAILED"
    [] OTHER              -> db[o]

ClaimsOf(o) ==
  {IF c.status = "COMPLETED" THEN "COMPLETED" ELSE "FAILED" :
     c \in {d \in claims : d.order = o}}

Life(o) ==
  INSTANCE OrderLife WITH payment <- PaymentOf(o), status <- StatusOf(o), claims <- ClaimsOf(o)

\* Polls, webhooks and reconcilers together do nothing to an order that OrderLife,
\* which Refunds relies on, does not foresee: however stale what they compare and
\* write, the status moves to that of the order's own payment, to one that an event
\* without a signature named, or back to PENDING, and never before the order is stored.
ImplementsOrderLife ==
  /\ \A o \in Orders : Life(o)!Init
  /\ [][\A o \in Orders : [Life(o)!Next]_(Life(o)!vars)]_vars
=============================================================================
