------------------------- MODULE OrderStatusProofs -------------------------
(* Proofs about OrderStatus for any orders, clients, events and reconcilers, *)
(* whatever merchant_order_ids the orders share and whatever the events that *)
(* nobody signed say.                                                        *)
EXTENDS OrderStatus, FiniteSetTheorems, TLAPS

\* No two orders share a merchant_order_id.
IdsApart == \A o, p \in Orders : MerchantIdOf[o] = MerchantIdOf[p] => o = p

\* An actor that was told a status is about to compare it, and one that is to ask
\* or to compare has an order.
Placed ==
  \A a \in Actors :
    /\ pc[a] \in {"ask", "apply", "sent"} => target[a] \in Orders
    /\ pc[a] \in {"apply", "sent"} => reply[a] \in {"PENDING"} \union Terminal
    /\ reply[a] # None => pc[a] \in {"apply", "sent"}
    /\ a \in Events => pc[a] \in {"unsent", "sent", "apply", "finish", "done"}

TypeInv == TypeOK /\ Placed

\* What an actor is about to compare is an end of that payment, unless it is what an
\* event without a signature said.
RepliesAreReal ==
  \A a \in Actors :
    reply[a] \in Terminal => a \in Events \intersect Unsigned \/ Ended(target[a], reply[a])

\* An end on its way to the table is one of that payment, or was claimed and believed.
WritesAreReal ==
  \A a \in Actors, o \in Orders :
    writes[a][o] \in Terminal => Ended(o, writes[a][o]) \/ Claimed(o, writes[a][o])

\* An event writes the row it was matched with only.
EventsWriteTheirOrder ==
  \A e \in Events, o \in Orders :
    writes[e][o] # None => pc[e] = "finish" /\ target[e] = o

\* A client's poll is about to write PENDING only over an end that was claimed: if
\* what it loaded was a real end, PhonePe did not call the payment open when asked.
PollsOpenClaims ==
  \A g \in Pollers :
    LET o == target[g] IN
    /\ pc[g] \in {"ask", "apply"} =>
         /\ loaded[g][o] \in {"PENDING"} \union Terminal
         /\ loaded[g][o] \in Terminal => Ended(o, loaded[g][o]) \/ Claimed(o, loaded[g][o])
    /\ pc[g] = "apply" /\ reply[g] = "PENDING" =>
         loaded[g][o] = "PENDING" \/ Claimed(o, loaded[g][o])
    /\ \A p \in Orders :
         /\ writes[g][p] \in {None, "PENDING"} \union Terminal
         /\ writes[g][p] = "PENDING" => pc[g] = "finish" /\ p = o /\ Claimed(o, loaded[g][o])

StoredNeverCreated == \A o \in Orders : db[o] # "CREATED"

WritesNeverCreated == \A a \in Actors, o \in Orders : writes[a][o] # "CREATED"

\* Whatever is asked about, written or in a batch is an order that was stored.
WorkIsStored ==
  /\ \A a \in Actors : pc[a] \in {"ask", "apply"} => db[target[a]] # None
  /\ \A a \in Actors, o \in Orders : writes[a][o] # None => db[o] # None
  /\ \A w \in Reconcilers : \A o \in todo[w] : db[o] # None

IInv == /\ TypeOK
        /\ Placed
        /\ RepliesAreReal
        /\ WritesAreReal
        /\ OutcomesAreReal
        /\ NoticesAreReal
        /\ StoredNeverCreated
        /\ WritesNeverCreated
        /\ EventsWriteTheirOrder
        /\ PollsOpenClaims

-----------------------------------------------------------------------------
\* A signed event is applied to the order it is about, or not at all: only the secret
\* of that order's tenant verifies it, and the tenant has one order with that id.
LEMMA LoadedIsOwn ==
  ASSUME TypeOK, Placed, NEW e \in Events \ Unsigned, EventLoad(e),
         NEW o \in FoundBy(target[e]), FoundBy(target[e]) = {o}
  PROVE  o = target[e]
<1>1. target[e] \in Orders /\ o \in Orders /\ MerchantIdOf[o] = MerchantIdOf[target[e]]
  BY DEF EventLoad, Placed, FoundBy, Actors
<1>2. TenantOf[o] = TenantOf[target[e]]
  BY DEF EventLoad
<1> QED
  BY <1>1, <1>2, OneIdPerTenantAssumption

\* The tables give one of four statuses, whatever PhonePe says.
LEMMA CanonicalType == \A word : Canonical(word) \in {"PENDING"} \union Terminal
BY DEF Canonical, Terminal

\* The tables make an end of a payment of nothing but that end.
LEMMA CanonicalIsReal ==
  ASSUME NEW o, Canonical(payment[o]) \in Terminal
  PROVE  Ended(o, Canonical(payment[o]))
BY DEF Canonical, Terminal, Ended

\* PhonePe does not call a payment open that ended in a way the tables name.
LEMMA EndedIsNotOpen ==
  ASSUME NEW o, NEW s \in Terminal, Ended(o, s)
  PROVE  Canonical(payment[o]) # "PENDING"
BY DEF Ended, Canonical, Terminal


\* The types are kept.
LEMMA TypeStep ==
  TypeInv /\ [Next]_vars => TypeOK'
<1> SUFFICES ASSUME TypeInv, [Next]_vars PROVE TypeOK'
  OBVIOUS
<1> USE FinalWordsAssumption, NoneAssumption, ActorsAssumption, PollerOrderAssumption,
        MaxCrashesAssumption, CanonicalType DEF TypeInv, TypeOK, Placed, Goto, EndSession,
        NoWrites, AfterSync, CommitWrites, Actors, Statuses, Open, Terminal
<1>1. ASSUME NEW o \in Orders, StoreOrder(o) PROVE TypeOK'
  BY <1>1 DEF StoreOrder
<1>2. ASSUME NEW o \in Orders, PaymentEnds(o) PROVE TypeOK'
  BY <1>2 DEF PaymentEnds, Words
<1>3. ASSUME NEW o \in Orders, Age(o) PROVE TypeOK'
  BY <1>3 DEF Age
<1>4. ASSUME NEW g \in Pollers, NEW force \in BOOLEAN, PollLoad(g, force) PROVE TypeOK'
  BY <1>4 DEF PollLoad
<1>5. ASSUME NEW g \in Pollers, PollCommit(g) PROVE TypeOK'
  BY <1>5 DEF PollCommit
<1>6. ASSUME NEW e \in Events, NEW o \in Orders, SendEvent(e, o) PROVE TypeOK'
  <2>1. PICK status \in Says(e, o) : reply' = [reply EXCEPT ![e] = status]
    BY <1>6 DEF SendEvent
  <2>2. status \in {"PENDING"} \union Terminal
    BY DEF Says
  <2> QED
    BY <1>6, <2>1, <2>2 DEF SendEvent
<1>7. ASSUME NEW e \in Events, EventIgnored(e) PROVE TypeOK'
  BY <1>7 DEF EventIgnored
<1>8. ASSUME NEW e \in Events, EventLoad(e) PROVE TypeOK'
  <2>1. PICK o \in FoundBy(target[e]) :
          /\ FoundBy(target[e]) = {o}
          /\ target' = [target EXCEPT ![e] = o]
          /\ loaded' = [loaded EXCEPT ![e][o] = db[o]]
    BY <1>8 DEF EventLoad
  <2>2. o \in Orders /\ db[o] # None
    BY <2>1 DEF FoundBy
  <2> QED
    BY <1>8, <2>1, <2>2 DEF EventLoad
<1>9. ASSUME NEW e \in Events, EventApply(e) PROVE TypeOK'
  BY <1>9 DEF EventApply
<1>10. ASSUME NEW e \in Events, EventCommit(e) PROVE TypeOK'
  BY <1>10 DEF EventCommit
<1>11. ASSUME NEW w \in Reconcilers, SelectBatch(w) PROVE TypeOK'
  BY <1>11 DEF SelectBatch
<1>12. ASSUME NEW w \in Reconcilers, NextOrder(w) PROVE TypeOK'
  BY <1>12 DEF NextOrder
<1>13. ASSUME NEW w \in Reconcilers, SkipOrder(w) PROVE TypeOK'
  BY <1>13 DEF SkipOrder
<1>14. ASSUME NEW w \in Reconcilers, EndPass(w) PROVE TypeOK'
  BY <1>14 DEF EndPass
<1>15. ASSUME NEW w \in Reconcilers, DeadlockVictim(w) PROVE TypeOK'
  BY <1>15 DEF DeadlockVictim
<1>16. ASSUME NEW a \in Actors, Ask(a) PROVE TypeOK'
  BY <1>16 DEF Ask
<1>17. ASSUME NEW a \in Actors, AskFails(a) PROVE TypeOK'
  BY <1>17 DEF AskFails
<1>18. ASSUME NEW a \in Actors, ApplyNothing(a) PROVE TypeOK'
  BY <1>18 DEF ApplyNothing
<1>19. ASSUME NEW a \in Actors, Apply(a) PROVE TypeOK'
  BY <1>19 DEF Apply
<1>20. ASSUME NEW a \in Actors, Crash(a) PROVE TypeOK'
  BY <1>20 DEF Crash
<1>21. CASE UNCHANGED vars
  BY <1>21 DEF vars
<1> HIDE DEF TypeOK, TypeOK, Actors
<1> QED
  BY <1>1, <1>2, <1>3, <1>4, <1>5, <1>6, <1>7, <1>8, <1>9,
     <1>10, <1>11, <1>12, <1>13, <1>14, <1>15, <1>16, <1>17,
     <1>18, <1>19, <1>20, <1>21
     DEF Next, World, Poll, Event, Reconcile, Sync

\* Phases, targets and answers keep fitting one another.
LEMMA PlacedStep ==
  TypeInv /\ [Next]_vars => Placed'
<1> SUFFICES ASSUME TypeInv, [Next]_vars PROVE Placed'
  OBVIOUS
<1> USE FinalWordsAssumption, NoneAssumption, ActorsAssumption, PollerOrderAssumption,
        CanonicalType DEF TypeInv, TypeOK, Placed, Goto, EndSession, AfterSync, Actors,
        Statuses, Open, Terminal
<1>1. ASSUME NEW o \in Orders, StoreOrder(o) PROVE Placed'
  BY <1>1 DEF StoreOrder
<1>2. ASSUME NEW o \in Orders, PaymentEnds(o) PROVE Placed'
  BY <1>2 DEF PaymentEnds
<1>3. ASSUME NEW o \in Orders, Age(o) PROVE Placed'
  BY <1>3 DEF Age
<1>4. ASSUME NEW g \in Pollers, NEW force \in BOOLEAN, PollLoad(g, force) PROVE Placed'
  BY <1>4 DEF PollLoad
<1>5. ASSUME NEW g \in Pollers, PollCommit(g) PROVE Placed'
  BY <1>5 DEF PollCommit
<1>6. ASSUME NEW e \in Events, NEW o \in Orders, SendEvent(e, o) PROVE Placed'
  <2>1. PICK status \in Says(e, o) : reply' = [reply EXCEPT ![e] = status]
    BY <1>6 DEF SendEvent
  <2>2. status \in {"PENDING"} \union Terminal
    BY DEF Says
  <2> QED
    BY <1>6, <2>1, <2>2 DEF SendEvent
<1>7. ASSUME NEW e \in Events, EventIgnored(e) PROVE Placed'
  BY <1>7 DEF EventIgnored
<1>8. ASSUME NEW e \in Events, EventLoad(e) PROVE Placed'
  <2>1. PICK o \in FoundBy(target[e]) :
          /\ FoundBy(target[e]) = {o}
          /\ target' = [target EXCEPT ![e] = o]
          /\ loaded' = [loaded EXCEPT ![e][o] = db[o]]
    BY <1>8 DEF EventLoad
  <2>2. o \in Orders /\ db[o] # None
    BY <2>1 DEF FoundBy
  <2> QED
    BY <1>8, <2>1, <2>2 DEF EventLoad
<1>9. ASSUME NEW e \in Events, EventApply(e) PROVE Placed'
  BY <1>9 DEF EventApply
<1>10. ASSUME NEW e \in Events, EventCommit(e) PROVE Placed'
  BY <1>10 DEF EventCommit
<1>11. ASSUME NEW w \in Reconcilers, SelectBatch(w) PROVE Placed'
  BY <1>11 DEF SelectBatch
<1>12. ASSUME NEW w \in Reconcilers, NextOrder(w) PROVE Placed'
  BY <1>12 DEF NextOrder
<1>13. ASSUME NEW w \in Reconcilers, SkipOrder(w) PROVE Placed'
  BY <1>13 DEF SkipOrder
<1>14. ASSUME NEW w \in Reconcilers, EndPass(w) PROVE Placed'
  BY <1>14 DEF EndPass
<1>15. ASSUME NEW w \in Reconcilers, DeadlockVictim(w) PROVE Placed'
  BY <1>15 DEF DeadlockVictim
<1>16. ASSUME NEW a \in Actors, Ask(a) PROVE Placed'
  BY <1>16 DEF Ask
<1>17. ASSUME NEW a \in Actors, AskFails(a) PROVE Placed'
  BY <1>17 DEF AskFails
<1>18. ASSUME NEW a \in Actors, ApplyNothing(a) PROVE Placed'
  BY <1>18 DEF ApplyNothing
<1>19. ASSUME NEW a \in Actors, Apply(a) PROVE Placed'
  BY <1>19 DEF Apply
<1>20. ASSUME NEW a \in Actors, Crash(a) PROVE Placed'
  BY <1>20 DEF Crash
<1>21. CASE UNCHANGED vars
  BY <1>21 DEF vars
<1> HIDE DEF Placed, TypeOK, Actors
<1> QED
  BY <1>1, <1>2, <1>3, <1>4, <1>5, <1>6, <1>7, <1>8, <1>9,
     <1>10, <1>11, <1>12, <1>13, <1>14, <1>15, <1>16, <1>17,
     <1>18, <1>19, <1>20, <1>21
     DEF Next, World, Poll, Event, Reconcile, Sync

\* What PhonePe says of an end is true when it is said and stays so.
LEMMA RepliesStep ==
  IInv /\ [Next]_vars => RepliesAreReal'
<1> SUFFICES ASSUME IInv, [Next]_vars PROVE RepliesAreReal'
  OBVIOUS
<1> USE FinalWordsAssumption, NoneAssumption, ActorsAssumption, PollerOrderAssumption DEF
        IInv, TypeOK, Placed, Goto, EndSession, NoWrites, CommitWrites, AfterSync, Actors,
        Statuses, Open, Terminal, RepliesAreReal
<1>1. ASSUME NEW o \in Orders, StoreOrder(o) PROVE RepliesAreReal'
  BY <1>1 DEF StoreOrder, Ended, Claimed
<1>2. ASSUME NEW o \in Orders, PaymentEnds(o) PROVE RepliesAreReal'
  <2>1. \A p \in Orders, s \in Terminal : Ended(p, s) => Ended(p, s)'
    BY <1>2 DEF PaymentEnds, Ended, Claimed
  <2> QED
    BY <1>2, <2>1 DEF PaymentEnds, Claimed
<1>3. ASSUME NEW o \in Orders, Age(o) PROVE RepliesAreReal'
  BY <1>3 DEF Age, Ended, Claimed
<1>4. ASSUME NEW g \in Pollers, NEW force \in BOOLEAN, PollLoad(g, force) PROVE RepliesAreReal'
  BY <1>4 DEF PollLoad, Ended, Claimed
<1>5. ASSUME NEW g \in Pollers, PollCommit(g) PROVE RepliesAreReal'
  BY <1>5 DEF PollCommit, Ended, Claimed
<1>6. ASSUME NEW e \in Events, NEW o \in Orders, SendEvent(e, o) PROVE RepliesAreReal'
  <2>1. Canonical(payment[o]) \in Terminal => Ended(o, Canonical(payment[o]))
    BY CanonicalIsReal
  <2>2. target'[e] = o /\ (e \in Unsigned \/ reply'[e] = Canonical(payment[o]))
    BY <1>6 DEF SendEvent, Says
  <2> QED
    BY <1>6, <2>1, <2>2 DEF SendEvent, Ended
<1>7. ASSUME NEW e \in Events, EventIgnored(e) PROVE RepliesAreReal'
  BY <1>7 DEF EventIgnored, Ended, Claimed
<1>8. ASSUME NEW e \in Events, EventLoad(e) PROVE RepliesAreReal'
  <2>1. PICK o \in FoundBy(target[e]) :
          /\ FoundBy(target[e]) = {o}
          /\ target' = [target EXCEPT ![e] = o]
          /\ loaded' = [loaded EXCEPT ![e][o] = db[o]]
    BY <1>8 DEF EventLoad
  <2>2. e \in Unsigned \/ o = target[e]
    BY <1>8, <2>1, LoadedIsOwn
  <2> QED
    BY <1>8, <2>1, <2>2 DEF EventLoad, Ended
<1>9. ASSUME NEW e \in Events, EventApply(e) PROVE RepliesAreReal'
  BY <1>9 DEF EventApply, Ended, Claimed
<1>10. ASSUME NEW e \in Events, EventCommit(e) PROVE RepliesAreReal'
  BY <1>10 DEF EventCommit, Ended, Claimed
<1>11. ASSUME NEW w \in Reconcilers, SelectBatch(w) PROVE RepliesAreReal'
  BY <1>11 DEF SelectBatch, Ended, Claimed
<1>12. ASSUME NEW w \in Reconcilers, NextOrder(w) PROVE RepliesAreReal'
  BY <1>12 DEF NextOrder, Ended, Claimed
<1>13. ASSUME NEW w \in Reconcilers, SkipOrder(w) PROVE RepliesAreReal'
  BY <1>13 DEF SkipOrder, Ended, Claimed
<1>14. ASSUME NEW w \in Reconcilers, EndPass(w) PROVE RepliesAreReal'
  BY <1>14 DEF EndPass, Ended, Claimed
<1>15. ASSUME NEW w \in Reconcilers, DeadlockVictim(w) PROVE RepliesAreReal'
  BY <1>15 DEF DeadlockVictim, Ended, Claimed
<1>16. ASSUME NEW a \in Actors, Ask(a) PROVE RepliesAreReal'
  <2>1. Canonical(payment[target[a]]) \in Terminal =>
          Ended(target[a], Canonical(payment[target[a]]))
    BY CanonicalIsReal
  <2>2. reply'[a] = Canonical(payment[target[a]])
    BY <1>16 DEF Ask
  <2> QED
    BY <1>16, <2>1, <2>2 DEF Ask, Ended
<1>17. ASSUME NEW a \in Actors, AskFails(a) PROVE RepliesAreReal'
  BY <1>17 DEF AskFails, Ended, Claimed
<1>18. ASSUME NEW a \in Actors, ApplyNothing(a) PROVE RepliesAreReal'
  BY <1>18 DEF ApplyNothing, Ended, Claimed
<1>19. ASSUME NEW a \in Actors, Apply(a) PROVE RepliesAreReal'
  BY <1>19 DEF Apply, Ended, Claimed
<1>20. ASSUME NEW a \in Actors, Crash(a) PROVE RepliesAreReal'
  BY <1>20 DEF Crash, Ended, Claimed
<1>21. CASE UNCHANGED vars
  BY <1>21 DEF vars, Ended, Claimed
<1> HIDE DEF RepliesAreReal, TypeOK, Actors
<1> QED
  BY <1>1, <1>2, <1>3, <1>4, <1>5, <1>6, <1>7, <1>8, <1>9,
     <1>10, <1>11, <1>12, <1>13, <1>14, <1>15, <1>16, <1>17,
     <1>18, <1>19, <1>20, <1>21
     DEF Next, World, Poll, Event, Reconcile, Sync

\* An end is written to the row of the order it was told of.
LEMMA WritesStep ==
  IInv /\ [Next]_vars => WritesAreReal'
<1> SUFFICES ASSUME IInv, [Next]_vars PROVE WritesAreReal'
  OBVIOUS
<1> USE FinalWordsAssumption, NoneAssumption, ActorsAssumption, PollerOrderAssumption DEF
        IInv, TypeOK, Placed, Goto, EndSession, NoWrites, CommitWrites, AfterSync, Actors,
        Statuses, Open, Terminal, RepliesAreReal, WritesAreReal
<1>1. ASSUME NEW o \in Orders, StoreOrder(o) PROVE WritesAreReal'
  BY <1>1 DEF StoreOrder, Ended, Claimed
<1>2. ASSUME NEW o \in Orders, PaymentEnds(o) PROVE WritesAreReal'
  <2>1. \A p \in Orders, s \in Terminal : Ended(p, s) => Ended(p, s)'
    BY <1>2 DEF PaymentEnds, Ended, Claimed
  <2> QED
    BY <1>2, <2>1 DEF PaymentEnds, Claimed
<1>3. ASSUME NEW o \in Orders, Age(o) PROVE WritesAreReal'
  BY <1>3 DEF Age, Ended, Claimed
<1>4. ASSUME NEW g \in Pollers, NEW force \in BOOLEAN, PollLoad(g, force) PROVE WritesAreReal'
  BY <1>4 DEF PollLoad, Ended, Claimed
<1>5. ASSUME NEW g \in Pollers, PollCommit(g) PROVE WritesAreReal'
  BY <1>5 DEF PollCommit, Ended, Claimed
<1>6. ASSUME NEW e \in Events, NEW o \in Orders, SendEvent(e, o) PROVE WritesAreReal'
  BY <1>6 DEF SendEvent, Ended, Claimed
<1>7. ASSUME NEW e \in Events, EventIgnored(e) PROVE WritesAreReal'
  BY <1>7 DEF EventIgnored, Ended, Claimed
<1>8. ASSUME NEW e \in Events, EventLoad(e) PROVE WritesAreReal'
  BY <1>8 DEF EventLoad, Ended, Claimed
<1>9. ASSUME NEW e \in Events, EventApply(e) PROVE WritesAreReal'
  BY <1>9 DEF EventApply, Ended, Claimed
<1>10. ASSUME NEW e \in Events, EventCommit(e) PROVE WritesAreReal'
  BY <1>10 DEF EventCommit, Ended, Claimed
<1>11. ASSUME NEW w \in Reconcilers, SelectBatch(w) PROVE WritesAreReal'
  BY <1>11 DEF SelectBatch, Ended, Claimed
<1>12. ASSUME NEW w \in Reconcilers, NextOrder(w) PROVE WritesAreReal'
  BY <1>12 DEF NextOrder, Ended, Claimed
<1>13. ASSUME NEW w \in Reconcilers, SkipOrder(w) PROVE WritesAreReal'
  BY <1>13 DEF SkipOrder, Ended, Claimed
<1>14. ASSUME NEW w \in Reconcilers, EndPass(w) PROVE WritesAreReal'
  BY <1>14 DEF EndPass, Ended, Claimed
<1>15. ASSUME NEW w \in Reconcilers, DeadlockVictim(w) PROVE WritesAreReal'
  BY <1>15 DEF DeadlockVictim, Ended, Claimed
<1>16. ASSUME NEW a \in Actors, Ask(a) PROVE WritesAreReal'
  BY <1>16 DEF Ask, Ended, Claimed
<1>17. ASSUME NEW a \in Actors, AskFails(a) PROVE WritesAreReal'
  BY <1>17 DEF AskFails, Ended, Claimed
<1>18. ASSUME NEW a \in Actors, ApplyNothing(a) PROVE WritesAreReal'
  BY <1>18 DEF ApplyNothing, Ended, Claimed
<1>19. ASSUME NEW a \in Actors, Apply(a) PROVE WritesAreReal'
  BY <1>19 DEF Apply, Ended, Claimed
<1>20. ASSUME NEW a \in Actors, Crash(a) PROVE WritesAreReal'
  BY <1>20 DEF Crash, Ended, Claimed
<1>21. CASE UNCHANGED vars
  BY <1>21 DEF vars, Ended, Claimed
<1> HIDE DEF WritesAreReal, TypeOK, Actors
<1> QED
  BY <1>1, <1>2, <1>3, <1>4, <1>5, <1>6, <1>7, <1>8, <1>9,
     <1>10, <1>11, <1>12, <1>13, <1>14, <1>15, <1>16, <1>17,
     <1>18, <1>19, <1>20, <1>21
     DEF Next, World, Poll, Event, Reconcile, Sync

\* Only what a transaction has written is committed.
LEMMA OutcomesStep ==
  IInv /\ [Next]_vars => OutcomesAreReal'
<1> SUFFICES ASSUME IInv, [Next]_vars PROVE OutcomesAreReal'
  OBVIOUS
<1> USE FinalWordsAssumption, NoneAssumption, ActorsAssumption, PollerOrderAssumption DEF
        IInv, TypeOK, Placed, Goto, EndSession, NoWrites, CommitWrites, AfterSync, Actors,
        Statuses, Open, Terminal, WritesAreReal, OutcomesAreReal
<1>1. ASSUME NEW o \in Orders, StoreOrder(o) PROVE OutcomesAreReal'
  BY <1>1 DEF StoreOrder, Ended, Claimed
<1>2. ASSUME NEW o \in Orders, PaymentEnds(o) PROVE OutcomesAreReal'
  <2>1. \A p \in Orders, s \in Terminal : Ended(p, s) => Ended(p, s)'
    BY <1>2 DEF PaymentEnds, Ended, Claimed
  <2> QED
    BY <1>2, <2>1 DEF PaymentEnds, Claimed
<1>3. ASSUME NEW o \in Orders, Age(o) PROVE OutcomesAreReal'
  BY <1>3 DEF Age, Ended, Claimed
<1>4. ASSUME NEW g \in Pollers, NEW force \in BOOLEAN, PollLoad(g, force)
      PROVE  OutcomesAreReal'
  BY <1>4 DEF PollLoad, Ended, Claimed
<1>5. ASSUME NEW g \in Pollers, PollCommit(g) PROVE OutcomesAreReal'
  BY <1>5 DEF PollCommit, Ended, Claimed
<1>6. ASSUME NEW e \in Events, NEW o \in Orders, SendEvent(e, o) PROVE OutcomesAreReal'
  BY <1>6 DEF SendEvent, Ended, Claimed
<1>7. ASSUME NEW e \in Events, EventIgnored(e) PROVE OutcomesAreReal'
  BY <1>7 DEF EventIgnored, Ended, Claimed
<1>8. ASSUME NEW e \in Events, EventLoad(e) PROVE OutcomesAreReal'
  BY <1>8 DEF EventLoad, Ended, Claimed
<1>9. ASSUME NEW e \in Events, EventApply(e) PROVE OutcomesAreReal'
  BY <1>9 DEF EventApply, Ended, Claimed
<1>10. ASSUME NEW e \in Events, EventCommit(e) PROVE OutcomesAreReal'
  BY <1>10 DEF EventCommit, Ended, Claimed
<1>11. ASSUME NEW w \in Reconcilers, SelectBatch(w) PROVE OutcomesAreReal'
  BY <1>11 DEF SelectBatch, Ended, Claimed
<1>12. ASSUME NEW w \in Reconcilers, NextOrder(w) PROVE OutcomesAreReal'
  BY <1>12 DEF NextOrder, Ended, Claimed
<1>13. ASSUME NEW w \in Reconcilers, SkipOrder(w) PROVE OutcomesAreReal'
  BY <1>13 DEF SkipOrder, Ended, Claimed
<1>14. ASSUME NEW w \in Reconcilers, EndPass(w) PROVE OutcomesAreReal'
  BY <1>14 DEF EndPass, Ended, Claimed
<1>15. ASSUME NEW w \in Reconcilers, DeadlockVictim(w) PROVE OutcomesAreReal'
  BY <1>15 DEF DeadlockVictim, Ended, Claimed
<1>16. ASSUME NEW a \in Actors, Ask(a) PROVE OutcomesAreReal'
  BY <1>16 DEF Ask, Ended, Claimed
<1>17. ASSUME NEW a \in Actors, AskFails(a) PROVE OutcomesAreReal'
  BY <1>17 DEF AskFails, Ended, Claimed
<1>18. ASSUME NEW a \in Actors, ApplyNothing(a) PROVE OutcomesAreReal'
  BY <1>18 DEF ApplyNothing, Ended, Claimed
<1>19. ASSUME NEW a \in Actors, Apply(a) PROVE OutcomesAreReal'
  BY <1>19 DEF Apply, Ended, Claimed
<1>20. ASSUME NEW a \in Actors, Crash(a) PROVE OutcomesAreReal'
  BY <1>20 DEF Crash, Ended, Claimed
<1>21. CASE UNCHANGED vars
  BY <1>21 DEF vars, Ended, Claimed
<1> HIDE DEF OutcomesAreReal, TypeOK, Actors
<1> QED
  BY <1>1, <1>2, <1>3, <1>4, <1>5, <1>6, <1>7, <1>8, <1>9,
     <1>10, <1>11, <1>12, <1>13, <1>14, <1>15, <1>16, <1>17,
     <1>18, <1>19, <1>20, <1>21
     DEF Next, World, Poll, Event, Reconcile, Sync

\* A notice says what is written at the same step.
LEMMA NoticesStep ==
  IInv /\ [Next]_vars => NoticesAreReal'
<1> SUFFICES ASSUME IInv, [Next]_vars PROVE NoticesAreReal'
  OBVIOUS
<1> USE FinalWordsAssumption, NoneAssumption, ActorsAssumption, PollerOrderAssumption DEF
        IInv, TypeOK, Placed, Goto, EndSession, NoWrites, CommitWrites, AfterSync, Actors,
        Statuses, Open, Terminal, RepliesAreReal, NoticesAreReal
<1>1. ASSUME NEW o \in Orders, StoreOrder(o) PROVE NoticesAreReal'
  BY <1>1 DEF StoreOrder, Ended, Claimed
<1>2. ASSUME NEW o \in Orders, PaymentEnds(o) PROVE NoticesAreReal'
  <2>1. \A p \in Orders, s \in Terminal : Ended(p, s) => Ended(p, s)'
    BY <1>2 DEF PaymentEnds, Ended, Claimed
  <2> QED
    BY <1>2, <2>1 DEF PaymentEnds, Claimed
<1>3. ASSUME NEW o \in Orders, Age(o) PROVE NoticesAreReal'
  BY <1>3 DEF Age, Ended, Claimed
<1>4. ASSUME NEW g \in Pollers, NEW force \in BOOLEAN, PollLoad(g, force) PROVE NoticesAreReal'
  BY <1>4 DEF PollLoad, Ended, Claimed
<1>5. ASSUME NEW g \in Pollers, PollCommit(g) PROVE NoticesAreReal'
  BY <1>5 DEF PollCommit, Ended, Claimed
<1>6. ASSUME NEW e \in Events, NEW o \in Orders, SendEvent(e, o) PROVE NoticesAreReal'
  BY <1>6 DEF SendEvent, Ended, Claimed
<1>7. ASSUME NEW e \in Events, EventIgnored(e) PROVE NoticesAreReal'
  BY <1>7 DEF EventIgnored, Ended, Claimed
<1>8. ASSUME NEW e \in Events, EventLoad(e) PROVE NoticesAreReal'
  BY <1>8 DEF EventLoad, Ended, Claimed
<1>9. ASSUME NEW e \in Events, EventApply(e) PROVE NoticesAreReal'
  BY <1>9 DEF EventApply, Ended, Claimed
<1>10. ASSUME NEW e \in Events, EventCommit(e) PROVE NoticesAreReal'
  BY <1>10 DEF EventCommit, Ended, Claimed
<1>11. ASSUME NEW w \in Reconcilers, SelectBatch(w) PROVE NoticesAreReal'
  BY <1>11 DEF SelectBatch, Ended, Claimed
<1>12. ASSUME NEW w \in Reconcilers, NextOrder(w) PROVE NoticesAreReal'
  BY <1>12 DEF NextOrder, Ended, Claimed
<1>13. ASSUME NEW w \in Reconcilers, SkipOrder(w) PROVE NoticesAreReal'
  BY <1>13 DEF SkipOrder, Ended, Claimed
<1>14. ASSUME NEW w \in Reconcilers, EndPass(w) PROVE NoticesAreReal'
  BY <1>14 DEF EndPass, Ended, Claimed
<1>15. ASSUME NEW w \in Reconcilers, DeadlockVictim(w) PROVE NoticesAreReal'
  BY <1>15 DEF DeadlockVictim, Ended, Claimed
<1>16. ASSUME NEW a \in Actors, Ask(a) PROVE NoticesAreReal'
  BY <1>16 DEF Ask, Ended, Claimed
<1>17. ASSUME NEW a \in Actors, AskFails(a) PROVE NoticesAreReal'
  BY <1>17 DEF AskFails, Ended, Claimed
<1>18. ASSUME NEW a \in Actors, ApplyNothing(a) PROVE NoticesAreReal'
  BY <1>18 DEF ApplyNothing, Ended, Claimed
<1>19. ASSUME NEW a \in Actors, Apply(a) PROVE NoticesAreReal'
  BY <1>19 DEF Apply, Ended, Claimed
<1>20. ASSUME NEW a \in Actors, Crash(a) PROVE NoticesAreReal'
  BY <1>20 DEF Crash, Ended, Claimed
<1>21. CASE UNCHANGED vars
  BY <1>21 DEF vars, Ended, Claimed
<1> HIDE DEF NoticesAreReal, TypeOK, Actors
<1> QED
  BY <1>1, <1>2, <1>3, <1>4, <1>5, <1>6, <1>7, <1>8, <1>9,
     <1>10, <1>11, <1>12, <1>13, <1>14, <1>15, <1>16, <1>17,
     <1>18, <1>19, <1>20, <1>21
     DEF Next, World, Poll, Event, Reconcile, Sync

\* No path writes CREATED once the order is stored.
LEMMA NeverCreatedStep ==
  IInv /\ [Next]_vars => StoredNeverCreated'
<1> SUFFICES ASSUME IInv, [Next]_vars PROVE StoredNeverCreated'
  OBVIOUS
<1> USE FinalWordsAssumption, NoneAssumption, ActorsAssumption, PollerOrderAssumption DEF
        IInv, TypeOK, Placed, Goto, EndSession, NoWrites, CommitWrites, AfterSync, Actors,
        Statuses, Open, Terminal, StoredNeverCreated, WritesNeverCreated
<1>1. ASSUME NEW o \in Orders, StoreOrder(o) PROVE StoredNeverCreated'
  BY <1>1 DEF StoreOrder
<1>2. ASSUME NEW o \in Orders, PaymentEnds(o) PROVE StoredNeverCreated'
  BY <1>2 DEF PaymentEnds
<1>3. ASSUME NEW o \in Orders, Age(o) PROVE StoredNeverCreated'
  BY <1>3 DEF Age
<1>4. ASSUME NEW g \in Pollers, NEW force \in BOOLEAN, PollLoad(g, force)
      PROVE  StoredNeverCreated'
  BY <1>4 DEF PollLoad
<1>5. ASSUME NEW g \in Pollers, PollCommit(g) PROVE StoredNeverCreated'
  BY <1>5 DEF PollCommit
<1>6. ASSUME NEW e \in Events, NEW o \in Orders, SendEvent(e, o) PROVE StoredNeverCreated'
  BY <1>6 DEF SendEvent, Says
<1>7. ASSUME NEW e \in Events, EventIgnored(e) PROVE StoredNeverCreated'
  BY <1>7 DEF EventIgnored
<1>8. ASSUME NEW e \in Events, EventLoad(e) PROVE StoredNeverCreated'
  BY <1>8 DEF EventLoad
<1>9. ASSUME NEW e \in Events, EventApply(e) PROVE StoredNeverCreated'
  BY <1>9 DEF EventApply
<1>10. ASSUME NEW e \in Events, EventCommit(e) PROVE StoredNeverCreated'
  BY <1>10 DEF EventCommit
<1>11. ASSUME NEW w \in Reconcilers, SelectBatch(w) PROVE StoredNeverCreated'
  BY <1>11 DEF SelectBatch
<1>12. ASSUME NEW w \in Reconcilers, NextOrder(w) PROVE StoredNeverCreated'
  BY <1>12 DEF NextOrder
<1>13. ASSUME NEW w \in Reconcilers, SkipOrder(w) PROVE StoredNeverCreated'
  BY <1>13 DEF SkipOrder
<1>14. ASSUME NEW w \in Reconcilers, EndPass(w) PROVE StoredNeverCreated'
  BY <1>14 DEF EndPass
<1>15. ASSUME NEW w \in Reconcilers, DeadlockVictim(w) PROVE StoredNeverCreated'
  BY <1>15 DEF DeadlockVictim
<1>16. ASSUME NEW a \in Actors, Ask(a) PROVE StoredNeverCreated'
  BY <1>16 DEF Ask
<1>17. ASSUME NEW a \in Actors, AskFails(a) PROVE StoredNeverCreated'
  BY <1>17 DEF AskFails
<1>18. ASSUME NEW a \in Actors, ApplyNothing(a) PROVE StoredNeverCreated'
  BY <1>18 DEF ApplyNothing
<1>19. ASSUME NEW a \in Actors, Apply(a) PROVE StoredNeverCreated'
  BY <1>19 DEF Apply
<1>20. ASSUME NEW a \in Actors, Crash(a) PROVE StoredNeverCreated'
  BY <1>20 DEF Crash
<1>21. CASE UNCHANGED vars
  BY <1>21 DEF vars
<1> HIDE DEF StoredNeverCreated, TypeOK, Actors
<1> QED
  BY <1>1, <1>2, <1>3, <1>4, <1>5, <1>6, <1>7, <1>8, <1>9,
     <1>10, <1>11, <1>12, <1>13, <1>14, <1>15, <1>16, <1>17,
     <1>18, <1>19, <1>20, <1>21
     DEF Next, World, Poll, Event, Reconcile, Sync

\* No table gives CREATED.
LEMMA WrittenStep ==
  IInv /\ [Next]_vars => WritesNeverCreated'
<1> SUFFICES ASSUME IInv, [Next]_vars PROVE WritesNeverCreated'
  OBVIOUS
<1> USE FinalWordsAssumption, NoneAssumption, ActorsAssumption, PollerOrderAssumption DEF
        IInv, TypeOK, Placed, Goto, EndSession, NoWrites, CommitWrites, AfterSync, Actors,
        Statuses, Open, Terminal, WritesNeverCreated
<1>1. ASSUME NEW o \in Orders, StoreOrder(o) PROVE WritesNeverCreated'
  BY <1>1 DEF StoreOrder
<1>2. ASSUME NEW o \in Orders, PaymentEnds(o) PROVE WritesNeverCreated'
  BY <1>2 DEF PaymentEnds
<1>3. ASSUME NEW o \in Orders, Age(o) PROVE WritesNeverCreated'
  BY <1>3 DEF Age
<1>4. ASSUME NEW g \in Pollers, NEW force \in BOOLEAN, PollLoad(g, force)
      PROVE  WritesNeverCreated'
  BY <1>4 DEF PollLoad
<1>5. ASSUME NEW g \in Pollers, PollCommit(g) PROVE WritesNeverCreated'
  BY <1>5 DEF PollCommit
<1>6. ASSUME NEW e \in Events, NEW o \in Orders, SendEvent(e, o) PROVE WritesNeverCreated'
  BY <1>6 DEF SendEvent, Says
<1>7. ASSUME NEW e \in Events, EventIgnored(e) PROVE WritesNeverCreated'
  BY <1>7 DEF EventIgnored
<1>8. ASSUME NEW e \in Events, EventLoad(e) PROVE WritesNeverCreated'
  BY <1>8 DEF EventLoad
<1>9. ASSUME NEW e \in Events, EventApply(e) PROVE WritesNeverCreated'
  BY <1>9 DEF EventApply
<1>10. ASSUME NEW e \in Events, EventCommit(e) PROVE WritesNeverCreated'
  BY <1>10 DEF EventCommit
<1>11. ASSUME NEW w \in Reconcilers, SelectBatch(w) PROVE WritesNeverCreated'
  BY <1>11 DEF SelectBatch
<1>12. ASSUME NEW w \in Reconcilers, NextOrder(w) PROVE WritesNeverCreated'
  BY <1>12 DEF NextOrder
<1>13. ASSUME NEW w \in Reconcilers, SkipOrder(w) PROVE WritesNeverCreated'
  BY <1>13 DEF SkipOrder
<1>14. ASSUME NEW w \in Reconcilers, EndPass(w) PROVE WritesNeverCreated'
  BY <1>14 DEF EndPass
<1>15. ASSUME NEW w \in Reconcilers, DeadlockVictim(w) PROVE WritesNeverCreated'
  BY <1>15 DEF DeadlockVictim
<1>16. ASSUME NEW a \in Actors, Ask(a) PROVE WritesNeverCreated'
  BY <1>16 DEF Ask
<1>17. ASSUME NEW a \in Actors, AskFails(a) PROVE WritesNeverCreated'
  BY <1>17 DEF AskFails
<1>18. ASSUME NEW a \in Actors, ApplyNothing(a) PROVE WritesNeverCreated'
  BY <1>18 DEF ApplyNothing
<1>19. ASSUME NEW a \in Actors, Apply(a) PROVE WritesNeverCreated'
  BY <1>19 DEF Apply
<1>20. ASSUME NEW a \in Actors, Crash(a) PROVE WritesNeverCreated'
  BY <1>20 DEF Crash
<1>21. CASE UNCHANGED vars
  BY <1>21 DEF vars
<1> HIDE DEF WritesNeverCreated, TypeOK, Actors
<1> QED
  BY <1>1, <1>2, <1>3, <1>4, <1>5, <1>6, <1>7, <1>8, <1>9,
     <1>10, <1>11, <1>12, <1>13, <1>14, <1>15, <1>16, <1>17,
     <1>18, <1>19, <1>20, <1>21
     DEF Next, World, Poll, Event, Reconcile, Sync

\* An event writes one row, that of its target, in one step before its commit.
LEMMA EventsWriteStep ==
  IInv /\ [Next]_vars => EventsWriteTheirOrder'
<1> SUFFICES ASSUME IInv, [Next]_vars PROVE EventsWriteTheirOrder'
  OBVIOUS
<1> USE FinalWordsAssumption, NoneAssumption, ActorsAssumption, PollerOrderAssumption DEF
        IInv, TypeOK, Placed, Goto, EndSession, NoWrites, CommitWrites, AfterSync, Actors,
        Statuses, Open, Terminal, EventsWriteTheirOrder
<1>1. ASSUME NEW o \in Orders, StoreOrder(o) PROVE EventsWriteTheirOrder'
  BY <1>1 DEF StoreOrder
<1>2. ASSUME NEW o \in Orders, PaymentEnds(o) PROVE EventsWriteTheirOrder'
  BY <1>2 DEF PaymentEnds
<1>3. ASSUME NEW o \in Orders, Age(o) PROVE EventsWriteTheirOrder'
  BY <1>3 DEF Age
<1>4. ASSUME NEW g \in Pollers, NEW force \in BOOLEAN, PollLoad(g, force)
      PROVE  EventsWriteTheirOrder'
  BY <1>4 DEF PollLoad
<1>5. ASSUME NEW g \in Pollers, PollCommit(g) PROVE EventsWriteTheirOrder'
  BY <1>5 DEF PollCommit
<1>6. ASSUME NEW e \in Events, NEW o \in Orders, SendEvent(e, o) PROVE EventsWriteTheirOrder'
  BY <1>6 DEF SendEvent, Says
<1>7. ASSUME NEW e \in Events, EventIgnored(e) PROVE EventsWriteTheirOrder'
  BY <1>7 DEF EventIgnored
<1>8. ASSUME NEW e \in Events, EventLoad(e) PROVE EventsWriteTheirOrder'
  <2>1. pc[e] = "sent" /\ pc' = [pc EXCEPT ![e] = "apply"] /\ writes' = writes
    BY <1>8 DEF EventLoad
  <2>2. \A o \in Orders : writes[e][o] = None
    BY <2>1
  <2>3. \A d \in Events : d # e => target'[d] = target[d]
    BY <1>8 DEF EventLoad
  <2> QED
    BY <2>1, <2>2, <2>3
<1>9. ASSUME NEW e \in Events, EventApply(e) PROVE EventsWriteTheirOrder'
  BY <1>9 DEF EventApply
<1>10. ASSUME NEW e \in Events, EventCommit(e) PROVE EventsWriteTheirOrder'
  BY <1>10 DEF EventCommit
<1>11. ASSUME NEW w \in Reconcilers, SelectBatch(w) PROVE EventsWriteTheirOrder'
  BY <1>11 DEF SelectBatch
<1>12. ASSUME NEW w \in Reconcilers, NextOrder(w) PROVE EventsWriteTheirOrder'
  BY <1>12 DEF NextOrder
<1>13. ASSUME NEW w \in Reconcilers, SkipOrder(w) PROVE EventsWriteTheirOrder'
  BY <1>13 DEF SkipOrder
<1>14. ASSUME NEW w \in Reconcilers, EndPass(w) PROVE EventsWriteTheirOrder'
  BY <1>14 DEF EndPass
<1>15. ASSUME NEW w \in Reconcilers, DeadlockVictim(w) PROVE EventsWriteTheirOrder'
  BY <1>15 DEF DeadlockVictim
<1>16. ASSUME NEW a \in Actors, Ask(a) PROVE EventsWriteTheirOrder'
  BY <1>16 DEF Ask
<1>17. ASSUME NEW a \in Actors, AskFails(a) PROVE EventsWriteTheirOrder'
  BY <1>17 DEF AskFails
<1>18. ASSUME NEW a \in Actors, ApplyNothing(a) PROVE EventsWriteTheirOrder'
  BY <1>18 DEF ApplyNothing
<1>19. ASSUME NEW a \in Actors, Apply(a) PROVE EventsWriteTheirOrder'
  BY <1>19 DEF Apply
<1>20. ASSUME NEW a \in Actors, Crash(a) PROVE EventsWriteTheirOrder'
  BY <1>20 DEF Crash
<1>21. CASE UNCHANGED vars
  BY <1>21 DEF vars
<1> HIDE DEF EventsWriteTheirOrder, TypeOK, Actors
<1> QED
  BY <1>1, <1>2, <1>3, <1>4, <1>5, <1>6, <1>7, <1>8, <1>9,
     <1>10, <1>11, <1>12, <1>13, <1>14, <1>15, <1>16, <1>17,
     <1>18, <1>19, <1>20, <1>21
     DEF Next, World, Poll, Event, Reconcile, Sync

\* A poll compares PhonePe's answer with a status at least as old as the answer.
LEMMA PollsStep ==
  IInv /\ [Next]_vars => PollsOpenClaims'
<1> SUFFICES ASSUME IInv, [Next]_vars PROVE PollsOpenClaims'
  OBVIOUS
<1> USE FinalWordsAssumption, NoneAssumption, ActorsAssumption, PollerOrderAssumption DEF
        IInv, TypeOK, Placed, Goto, EndSession, NoWrites, CommitWrites, AfterSync, Actors,
        Statuses, Open, Terminal, OutcomesAreReal, StoredNeverCreated, PollsOpenClaims
<1>1. ASSUME NEW o \in Orders, StoreOrder(o) PROVE PollsOpenClaims'
  BY <1>1 DEF StoreOrder, Ended, Claimed
<1>2. ASSUME NEW o \in Orders, PaymentEnds(o) PROVE PollsOpenClaims'
  <2>1. \A p \in Orders, s \in Terminal : Ended(p, s) => Ended(p, s)'
    BY <1>2 DEF PaymentEnds, Ended, Claimed
  <2> QED
    BY <1>2, <2>1 DEF PaymentEnds, Claimed
<1>3. ASSUME NEW o \in Orders, Age(o) PROVE PollsOpenClaims'
  BY <1>3 DEF Age, Ended, Claimed
<1>4. ASSUME NEW g \in Pollers, NEW force \in BOOLEAN, PollLoad(g, force)
      PROVE  PollsOpenClaims'
  <2>1. /\ pc[g] = "idle" /\ pc'[g] \in {"ask", "finish"}
        /\ UNCHANGED <<payment, writes, claims>>
        /\ target'[g] \in Orders /\ loaded'[g][target'[g]] = db[target'[g]]
        /\ db[target'[g]] \in {"PENDING"} \union Terminal
    BY <1>4 DEF PollLoad
  <2>2. \A h \in Pollers : h # g => /\ pc'[h] = pc[h] /\ target'[h] = target[h]
                                   /\ loaded'[h] = loaded[h] /\ reply'[h] = reply[h]
    BY <1>4 DEF PollLoad
  <2>3. \A q \in Orders : \A st :
          Ended(q, st)' = Ended(q, st) /\ Claimed(q, st)' = Claimed(q, st)
    BY <2>1 DEF Ended, Claimed
  <2> QED
    BY <2>1, <2>2, <2>3
<1>5. ASSUME NEW g \in Pollers, PollCommit(g) PROVE PollsOpenClaims'
  BY <1>5 DEF PollCommit, Ended, Claimed
<1>6. ASSUME NEW e \in Events, NEW o \in Orders, SendEvent(e, o) PROVE PollsOpenClaims'
  BY <1>6 DEF SendEvent, Ended, Claimed
<1>7. ASSUME NEW e \in Events, EventIgnored(e) PROVE PollsOpenClaims'
  BY <1>7 DEF EventIgnored, Ended, Claimed
<1>8. ASSUME NEW e \in Events, EventLoad(e) PROVE PollsOpenClaims'
  <2>1. PICK o \in FoundBy(target[e]) :
          /\ target' = [target EXCEPT ![e] = o]
          /\ loaded' = [loaded EXCEPT ![e][o] = db[o]]
    BY <1>8 DEF EventLoad
  <2>2. UNCHANGED <<payment, reply, writes, claims>> /\ pc' = [pc EXCEPT ![e] = "apply"]
    BY <1>8 DEF EventLoad
  <2>3. \A g \in Pollers : /\ g # e /\ pc'[g] = pc[g]
                           /\ target'[g] = target[g] /\ loaded'[g] = loaded[g]
    BY <2>1, <2>2
  <2>4. \A q \in Orders : \A st :
          Ended(q, st)' = Ended(q, st) /\ Claimed(q, st)' = Claimed(q, st)
    BY <2>2 DEF Ended, Claimed
  <2> QED
    BY <2>2, <2>3, <2>4
<1>9. ASSUME NEW e \in Events, EventApply(e) PROVE PollsOpenClaims'
  BY <1>9 DEF EventApply, Ended, Claimed
<1>10. ASSUME NEW e \in Events, EventCommit(e) PROVE PollsOpenClaims'
  BY <1>10 DEF EventCommit, Ended, Claimed
<1>11. ASSUME NEW w \in Reconcilers, SelectBatch(w) PROVE PollsOpenClaims'
  BY <1>11 DEF SelectBatch, Ended, Claimed
<1>12. ASSUME NEW w \in Reconcilers, NextOrder(w) PROVE PollsOpenClaims'
  BY <1>12 DEF NextOrder, Ended, Claimed
<1>13. ASSUME NEW w \in Reconcilers, SkipOrder(w) PROVE PollsOpenClaims'
  BY <1>13 DEF SkipOrder, Ended, Claimed
<1>14. ASSUME NEW w \in Reconcilers, EndPass(w) PROVE PollsOpenClaims'
  BY <1>14 DEF EndPass, Ended, Claimed
<1>15. ASSUME NEW w \in Reconcilers, DeadlockVictim(w) PROVE PollsOpenClaims'
  <2>1. \A g \in Pollers : /\ g # w /\ pc'[g] = pc[g] /\ target'[g] = target[g]
                           /\ loaded'[g] = loaded[g] /\ reply'[g] = reply[g]
                           /\ writes'[g] = writes[g]
    BY <1>15 DEF DeadlockVictim
  <2>2. \A q \in Orders : \A st :
          Ended(q, st)' = Ended(q, st) /\ Claimed(q, st)' = Claimed(q, st)
    BY <1>15 DEF DeadlockVictim, Ended, Claimed
  <2> QED
    BY <2>1, <2>2
<1>16. ASSUME NEW a \in Actors, Ask(a) PROVE PollsOpenClaims'
  <2>1. CASE a \notin Pollers
    BY <1>16, <2>1 DEF Ask, Ended, Claimed
  <2>2. CASE a \in Pollers
    <3>1. loaded[a][target[a]] \in Terminal =>
            \/ Canonical(payment[target[a]]) # "PENDING"
            \/ Claimed(target[a], loaded[a][target[a]])
      <4>1. pc[a] = "ask" /\ (loaded[a][target[a]] \in Terminal =>
              \/ Ended(target[a], loaded[a][target[a]])
              \/ Claimed(target[a], loaded[a][target[a]]))
        BY <1>16, <2>2 DEF Ask
      <4> QED
        BY <4>1, EndedIsNotOpen
    <3>2. reply'[a] = Canonical(payment[target[a]])
      BY <1>16 DEF Ask
    <3> QED
      BY <1>16, <2>2, <3>1, <3>2 DEF Ask, Ended, Claimed
  <2> QED
    BY <2>1, <2>2
<1>17. ASSUME NEW a \in Actors, AskFails(a) PROVE PollsOpenClaims'
  BY <1>17 DEF AskFails, Ended, Claimed
<1>18. ASSUME NEW a \in Actors, ApplyNothing(a) PROVE PollsOpenClaims'
  BY <1>18 DEF ApplyNothing, Ended, Claimed
<1>19. ASSUME NEW a \in Actors, Apply(a) PROVE PollsOpenClaims'
  BY <1>19 DEF Apply, Ended, Claimed
<1>20. ASSUME NEW a \in Actors, Crash(a) PROVE PollsOpenClaims'
  BY <1>20 DEF Crash, Ended, Claimed
<1>21. CASE UNCHANGED vars
  BY <1>21 DEF vars, Ended, Claimed
<1> HIDE DEF PollsOpenClaims, TypeOK, Actors
<1> QED
  BY <1>1, <1>2, <1>3, <1>4, <1>5, <1>6, <1>7, <1>8, <1>9,
     <1>10, <1>11, <1>12, <1>13, <1>14, <1>15, <1>16, <1>17,
     <1>18, <1>19, <1>20, <1>21
     DEF Next, World, Poll, Event, Reconcile, Sync

\* Orders are never deleted, and only stored ones are loaded.
LEMMA StoredStep ==
  TypeInv /\ WorkIsStored /\ [Next]_vars => WorkIsStored'
<1> SUFFICES ASSUME TypeInv /\ WorkIsStored, [Next]_vars PROVE WorkIsStored'
  OBVIOUS
<1> USE FinalWordsAssumption, NoneAssumption, ActorsAssumption, PollerOrderAssumption
        DEF TypeInv, TypeOK, Placed, Goto, EndSession, NoWrites, CommitWrites, AfterSync,
        Actors, Statuses, Open, Terminal, WorkIsStored
<1>1. ASSUME NEW o \in Orders, StoreOrder(o) PROVE WorkIsStored'
  BY <1>1 DEF StoreOrder
<1>2. ASSUME NEW o \in Orders, PaymentEnds(o) PROVE WorkIsStored'
  BY <1>2 DEF PaymentEnds
<1>3. ASSUME NEW o \in Orders, Age(o) PROVE WorkIsStored'
  BY <1>3 DEF Age
<1>4. ASSUME NEW g \in Pollers, NEW force \in BOOLEAN, PollLoad(g, force) PROVE WorkIsStored'
  BY <1>4 DEF PollLoad
<1>5. ASSUME NEW g \in Pollers, PollCommit(g) PROVE WorkIsStored'
  BY <1>5 DEF PollCommit
<1>6. ASSUME NEW e \in Events, NEW o \in Orders, SendEvent(e, o) PROVE WorkIsStored'
  BY <1>6 DEF SendEvent, Says
<1>7. ASSUME NEW e \in Events, EventIgnored(e) PROVE WorkIsStored'
  BY <1>7 DEF EventIgnored
<1>8. ASSUME NEW e \in Events, EventLoad(e) PROVE WorkIsStored'
  <2>1. PICK o \in FoundBy(target[e]) : target' = [target EXCEPT ![e] = o]
    BY <1>8 DEF EventLoad
  <2>2. o \in Orders /\ db[o] # None
    BY <2>1 DEF FoundBy
  <2> QED
    BY <1>8, <2>1, <2>2 DEF EventLoad
<1>9. ASSUME NEW e \in Events, EventApply(e) PROVE WorkIsStored'
  BY <1>9 DEF EventApply
<1>10. ASSUME NEW e \in Events, EventCommit(e) PROVE WorkIsStored'
  BY <1>10 DEF EventCommit
<1>11. ASSUME NEW w \in Reconcilers, SelectBatch(w) PROVE WorkIsStored'
  BY <1>11 DEF SelectBatch
<1>12. ASSUME NEW w \in Reconcilers, NextOrder(w) PROVE WorkIsStored'
  BY <1>12 DEF NextOrder
<1>13. ASSUME NEW w \in Reconcilers, SkipOrder(w) PROVE WorkIsStored'
  BY <1>13 DEF SkipOrder
<1>14. ASSUME NEW w \in Reconcilers, EndPass(w) PROVE WorkIsStored'
  BY <1>14 DEF EndPass
<1>15. ASSUME NEW w \in Reconcilers, DeadlockVictim(w) PROVE WorkIsStored'
  BY <1>15 DEF DeadlockVictim
<1>16. ASSUME NEW a \in Actors, Ask(a) PROVE WorkIsStored'
  BY <1>16 DEF Ask
<1>17. ASSUME NEW a \in Actors, AskFails(a) PROVE WorkIsStored'
  BY <1>17 DEF AskFails
<1>18. ASSUME NEW a \in Actors, ApplyNothing(a) PROVE WorkIsStored'
  BY <1>18 DEF ApplyNothing
<1>19. ASSUME NEW a \in Actors, Apply(a) PROVE WorkIsStored'
  BY <1>19 DEF Apply
<1>20. ASSUME NEW a \in Actors, Crash(a) PROVE WorkIsStored'
  BY <1>20 DEF Crash
<1>21. CASE UNCHANGED vars
  BY <1>21 DEF vars
<1> HIDE DEF WorkIsStored, TypeOK, Actors
<1> QED
  BY <1>1, <1>2, <1>3, <1>4, <1>5, <1>6, <1>7, <1>8, <1>9,
     <1>10, <1>11, <1>12, <1>13, <1>14, <1>15, <1>16, <1>17,
     <1>18, <1>19, <1>20, <1>21
     DEF Next, World, Poll, Event, Reconcile, Sync

-----------------------------------------------------------------------------
LEMMA InitTypeInv == Init => TypeInv
BY MaxCrashesAssumption, ActorsAssumption
   DEF Init, TypeInv, TypeOK, Placed, NoWrites, Actors, Words, Statuses, Open, Terminal

LEMMA InitIInv == Init => IInv
BY InitTypeInv, NoneAssumption
   DEF Init, IInv, TypeInv, RepliesAreReal, WritesAreReal, OutcomesAreReal, NoticesAreReal,
       StoredNeverCreated, WritesNeverCreated, EventsWriteTheirOrder, PollsOpenClaims,
       NoWrites, Actors, Statuses, Open, Terminal

\* The state of the three paths is always well-typed, whatever ids the orders have.
THEOREM TypeCorrect == Spec => []TypeOK
<1>1. TypeInv /\ [Next]_vars => TypeInv'
  BY TypeStep, PlacedStep DEF TypeInv
<1>2. TypeInv => TypeOK
  BY DEF TypeInv
<1> QED
  BY InitTypeInv, <1>1, <1>2, PTL DEF Spec

\* IInv, which the theorems below follow from, is kept by every step.
THEOREM InductiveInvariant == Spec => []IInv
<1>1. IInv /\ [Next]_vars => IInv'
  <2>1. IInv => TypeInv
    BY DEF IInv, TypeInv
  <2> QED
    BY <2>1, TypeStep, PlacedStep, RepliesStep, WritesStep, OutcomesStep, NoticesStep,
       NeverCreatedStep, WrittenStep, EventsWriteStep, PollsStep DEF IInv
<1> QED
  BY InitIInv, <1>1, PTL DEF Spec

\* An order is never stored as ended unless its own payment ended that way.
THEOREM StoredOutcomesAreReal == Spec => []OutcomesAreReal
<1>1. IInv => OutcomesAreReal
  BY DEF IInv
<1> QED
  BY InductiveInvariant, <1>1, PTL

\* No tenant is told of an end that is not that of the payment.
THEOREM AnnouncedOutcomesAreReal == Spec => []NoticesAreReal
<1>1. IInv => NoticesAreReal
  BY DEF IInv
<1> QED
  BY InductiveInvariant, <1>1, PTL

\* A status poll never reopens an order that ended, unless the end it loaded was one
\* that an event without a signature claimed: otherwise only an event's commit does.
THEOREM PollsNeverReopen == Spec => OnlyEventsReopen
<1> DEFINE Reopens(o) == db[o] \in Terminal /\ db'[o] \in Open
           A == \A o \in Orders : Reopens(o) => EventCommits(o) \/ PollCommitsOverClaim(o)
<1>1. ASSUME IInv, [Next]_vars PROVE A
  <2> SUFFICES ASSUME NEW o \in Orders, Reopens(o)
               PROVE  EventCommits(o) \/ PollCommitsOverClaim(o)
    OBVIOUS
  <2> DEFINE Goal == EventCommits(o) \/ PollCommitsOverClaim(o)
  <2> USE <1>1, NoneAssumption DEF IInv, TypeOK, Statuses, Open, Terminal
  <2>1. ASSUME World PROVE Goal
    BY <2>1 DEF World, StoreOrder, PaymentEnds, Age
  <2>2. ASSUME NEW g \in Pollers, PollCommit(g) PROVE Goal
    <3>1. writes[g][o] = "PENDING"
      BY <2>2 DEF PollCommit, CommitWrites, PollsOpenClaims, Actors
    <3> QED
      BY <3>1 DEF PollsOpenClaims, PollCommitsOverClaim
  <2>3. ASSUME NEW e \in Events, EventCommit(e) PROVE Goal
    <3>1. writes[e][o] # None
      BY <2>3 DEF EventCommit, CommitWrites, Actors
    <3> QED
      BY <3>1 DEF EventsWriteTheirOrder, EventCommits
  <2>4. CASE UNCHANGED db
    BY <2>4
  <2>5. World \/ UNCHANGED db \/ (\E g \in Pollers : PollCommit(g))
              \/ (\E e \in Events : EventCommit(e))
    BY <1>1 DEF Next, vars, Poll, Event, Reconcile, Sync, PollLoad, SendEvent, EventIgnored,
       EventLoad, EventApply, SelectBatch, NextOrder, SkipOrder, EndPass, DeadlockVictim,
       Ask, AskFails, ApplyNothing, Apply, Crash
  <2> QED
    BY <2>1, <2>2, <2>3, <2>4, <2>5
<1>2. A => [A]_vars
  OBVIOUS
<1> QED
  BY InductiveInvariant, <1>1, <1>2, PTL DEF Spec, OnlyEventsReopen
-----------------------------------------------------------------------------
\* Who waits for whom

\* A row is updated by one open transaction at a time, and a poll or an event
\* that has updated its row is about to commit.
LocksFit ==
  /\ \A a, b \in Actors, o \in Orders :
       writes[a][o] # None /\ writes[b][o] # None => a = b
  /\ \A a \in Actors \ Reconcilers, o \in Orders :
       writes[a][o] # None => pc[a] = "finish"

\* Whoever waits for a row while somebody waits for a row of his is a reconciler,
\* and everybody waits for one transaction only.
OnlyPassesHoldAndWait ==
  /\ \A a, b, c \in Actors : WaitsFor(a, b) /\ WaitsFor(b, c) => b \in Reconcilers
  /\ \A a, b, c \in Actors : WaitsFor(a, b) /\ WaitsFor(a, c) => b = c

\* A row is updated only when nobody else has, and a reconciler's pass is the only
\* transaction that goes on after an update.
LEMMA LocksStep ==
  TypeInv /\ LocksFit /\ [Next]_vars => LocksFit'
<1> SUFFICES ASSUME TypeInv /\ LocksFit, [Next]_vars PROVE LocksFit'
  OBVIOUS
<1> USE FinalWordsAssumption, NoneAssumption, ActorsAssumption, PollerOrderAssumption
        DEF TypeInv, TypeOK, Placed, Goto, EndSession, NoWrites, CommitWrites, AfterSync,
        Actors, Statuses, Open, Terminal, LocksFit
<1>1. ASSUME NEW o \in Orders, StoreOrder(o) PROVE LocksFit'
  BY <1>1 DEF StoreOrder
<1>2. ASSUME NEW o \in Orders, PaymentEnds(o) PROVE LocksFit'
  BY <1>2 DEF PaymentEnds
<1>3. ASSUME NEW o \in Orders, Age(o) PROVE LocksFit'
  BY <1>3 DEF Age
<1>4. ASSUME NEW g \in Pollers, NEW force \in BOOLEAN, PollLoad(g, force) PROVE LocksFit'
  BY <1>4 DEF PollLoad
<1>5. ASSUME NEW g \in Pollers, PollCommit(g) PROVE LocksFit'
  BY <1>5 DEF PollCommit
<1>6. ASSUME NEW e \in Events, NEW o \in Orders, SendEvent(e, o) PROVE LocksFit'
  BY <1>6 DEF SendEvent, Says
<1>7. ASSUME NEW e \in Events, EventIgnored(e) PROVE LocksFit'
  BY <1>7 DEF EventIgnored
<1>8. ASSUME NEW e \in Events, EventLoad(e) PROVE LocksFit'
  <2>1. pc[e] = "sent" /\ pc' = [pc EXCEPT ![e] = "apply"] /\ writes' = writes
    BY <1>8 DEF EventLoad
  <2> QED
    BY <2>1
<1>9. ASSUME NEW e \in Events, EventApply(e) PROVE LocksFit'
  BY <1>9 DEF EventApply, RowFree
<1>10. ASSUME NEW e \in Events, EventCommit(e) PROVE LocksFit'
  BY <1>10 DEF EventCommit
<1>11. ASSUME NEW w \in Reconcilers, SelectBatch(w) PROVE LocksFit'
  BY <1>11 DEF SelectBatch
<1>12. ASSUME NEW w \in Reconcilers, NextOrder(w) PROVE LocksFit'
  BY <1>12 DEF NextOrder
<1>13. ASSUME NEW w \in Reconcilers, SkipOrder(w) PROVE LocksFit'
  BY <1>13 DEF SkipOrder
<1>14. ASSUME NEW w \in Reconcilers, EndPass(w) PROVE LocksFit'
  BY <1>14 DEF EndPass
<1>15. ASSUME NEW w \in Reconcilers, DeadlockVictim(w) PROVE LocksFit'
  <2>1. /\ writes' = [writes EXCEPT ![w] = NoWrites]
        /\ pc' = [pc EXCEPT ![w] = "idle"]
    BY <1>15 DEF DeadlockVictim
  <2> QED
    BY <2>1
<1>16. ASSUME NEW a \in Actors, Ask(a) PROVE LocksFit'
  BY <1>16 DEF Ask
<1>17. ASSUME NEW a \in Actors, AskFails(a) PROVE LocksFit'
  BY <1>17 DEF AskFails
<1>18. ASSUME NEW a \in Actors, ApplyNothing(a) PROVE LocksFit'
  BY <1>18 DEF ApplyNothing
<1>19. ASSUME NEW a \in Actors, Apply(a) PROVE LocksFit'
  BY <1>19 DEF Apply, RowFree
<1>20. ASSUME NEW a \in Actors, Crash(a) PROVE LocksFit'
  BY <1>20 DEF Crash
<1>21. CASE UNCHANGED vars
  BY <1>21 DEF vars
<1> HIDE DEF LocksFit, TypeOK, Actors
<1> QED
  BY <1>1, <1>2, <1>3, <1>4, <1>5, <1>6, <1>7, <1>8, <1>9,
     <1>10, <1>11, <1>12, <1>13, <1>14, <1>15, <1>16, <1>17,
     <1>18, <1>19, <1>20, <1>21
     DEF Next, World, Poll, Event, Reconcile, Sync

\* A cycle of row locks is one of reconcilers, whatever polls and events do: so
\* DeadlockVictim, whose cycles are of reconcilers, is all that Postgres's deadlock
\* detection has to do here, and no client's poll is ever its victim.
THEOREM OnlyPassesDeadlock == Spec => []OnlyPassesHoldAndWait
<1>1. Init => LocksFit
  BY DEF Init, LocksFit, NoWrites, Actors
<1>2. TypeInv /\ [Next]_vars => TypeInv'
  BY TypeStep, PlacedStep DEF TypeInv
<1>3. TypeInv /\ LocksFit => OnlyPassesHoldAndWait
  BY DEF TypeInv, Placed, LocksFit, OnlyPassesHoldAndWait, WaitsFor
<1> QED
  BY InitTypeInv, <1>1, <1>2, <1>3, LocksStep, PTL DEF Spec

-----------------------------------------------------------------------------
\* Where events go

\* Work is done on stored orders only, whatever ids the orders have.
THEOREM OnlyStoredOrdersAreWorkedOn == Spec => [](TypeInv /\ WorkIsStored)
<1>1. Init => WorkIsStored
  BY DEF Init, WorkIsStored, NoWrites, Actors
<1>2. TypeInv /\ [Next]_vars => TypeInv'
  BY TypeStep, PlacedStep DEF TypeInv
<1> QED
  BY InitTypeInv, <1>1, <1>2, StoredStep, PTL DEF Spec

\* With ids apart, the lookup of a stored order by its id finds that order alone.
LEMMA FoundAlone ==
  ASSUME IdsApart, NEW o \in Orders, db[o] # None
  PROVE  FoundBy(o) = {o} /\ Cardinality(FoundBy(o)) = 1
<1>1. FoundBy(o) = {o}
  BY DEF FoundBy, IdsApart
<1> QED
  BY <1>1, FS_Singleton

\* EventsReachTheirOrder: a shared merchant_order_id, or a stored secret that is not the
\* one PhonePe signs with, is the only reason why an event about a stored order is not
\* applied to it (shared_id shows that the first is one).
THEOREM EventsReachOrdersOfTheirOwnId ==
  ASSUME IdsApart, \A o \in Orders : TenantOf[o] \notin Rekeyed
  PROVE  Spec => EventsReachTheirOrder
<1> DEFINE Leaves(e) ==
             pc[e] = "sent" /\ pc'[e] # "sent" /\ db[target[e]] # None /\ crashes' = crashes
           Reaches(e) == pc'[e] = "apply" /\ target'[e] = target[e]
           A == \A e \in Events : Leaves(e) => Reaches(e)
<1>1. ASSUME TypeInv, [Next]_vars PROVE A
  <2> SUFFICES ASSUME NEW e \in Events, Leaves(e) PROVE Reaches(e)
    OBVIOUS
  <2> USE ActorsAssumption, <1>1 DEF TypeInv, TypeOK, Placed, Actors
  <2>1. FoundBy(target[e]) = {target[e]} /\ Cardinality(FoundBy(target[e])) = 1
    BY FoundAlone
  <2>2. ~EventIgnored(e)
    BY <2>1 DEF EventIgnored
  <2>3. CASE EventLoad(e)
    BY <2>1, <2>3 DEF EventLoad, Goto
  <2>4. EventIgnored(e) \/ EventLoad(e)
    <3>1. ASSUME NEW o \in Orders, StoreOrder(o) \/ PaymentEnds(o) \/ Age(o) PROVE FALSE
      BY <3>1 DEF StoreOrder, PaymentEnds, Age
    <3>2. ASSUME NEW g \in Pollers, Poll(g) PROVE FALSE
      BY <3>2 DEF Poll, PollLoad, PollCommit, Goto
    <3>3. ASSUME NEW d \in Events, d # e, Event(d) PROVE FALSE
      BY <3>3 DEF Event, SendEvent, EventIgnored, EventLoad, EventApply, EventCommit, Goto
    <3>4. ASSUME Event(e) PROVE EventIgnored(e) \/ EventLoad(e)
      BY <3>4 DEF Event, SendEvent, EventApply, EventCommit
    <3>5. ASSUME NEW w \in Reconcilers, Reconcile(w) PROVE FALSE
      BY <3>5 DEF Reconcile, SelectBatch, NextOrder, SkipOrder, EndPass, DeadlockVictim, Goto
    <3>6. ASSUME NEW a \in Actors, Sync(a) PROVE FALSE
      <4>1. pc' = pc \/ \E phase : pc[a] \in {"ask", "apply"} /\ Goto(a, phase)
        BY <3>6 DEF Sync, Ask, AskFails, ApplyNothing, Apply
      <4> QED
        BY <4>1 DEF Goto
    <3>7. ASSUME NEW a \in Actors, Crash(a) PROVE FALSE
      BY <3>7, MaxCrashesAssumption DEF Crash
    <3> QED
      BY <3>1, <3>2, <3>3, <3>4, <3>5, <3>6, <3>7 DEF Next, World, vars
  <2> QED
    BY <2>2, <2>3, <2>4
<1>2. A => [A]_vars
  OBVIOUS
<1> QED
  BY OnlyStoredOrdersAreWorkedOn, <1>1, PTL DEF Spec, EventsReachTheirOrder

-----------------------------------------------------------------------------
\* The orders as OrderLife sees them

\* An end of a payment that the tables name is, to OrderLife, the payment itself.
LEMMA EndedIsPayment ==
  ASSUME NEW o, NEW s \in Terminal, Ended(o, s)
  PROVE  PaymentOf(o) = IF s = "EXPIRED" THEN "FAILED" ELSE s
BY DEF Ended, PaymentOf, Terminal

\* An end that was claimed is, to OrderLife, one of its claims.
LEMMA ClaimIsSeen ==
  ASSUME NEW o, NEW s \in Terminal, Claimed(o, s)
  PROVE  (IF s = "COMPLETED" THEN "COMPLETED" ELSE "FAILED") \in ClaimsOf(o)
BY DEF Claimed, ClaimsOf

\* What an actor has written is, once committed, the payment's status, one that was
\* claimed, or PENDING.
LEMMA WrittenStatus ==
  ASSUME IInv, WorkIsStored, NEW a \in Actors, CommitWrites(a), UNCHANGED <<payment, claims>>,
         NEW o \in Orders
  PROVE  [Life(o)!Next]_(Life(o)!vars)
<1> USE NoneAssumption DEF IInv, TypeOK, Statuses, Open, Terminal
<1>1. PaymentOf(o)' = PaymentOf(o) /\ ClaimsOf(o)' = ClaimsOf(o)
  BY DEF PaymentOf, ClaimsOf
<1>2. CASE writes[a][o] \notin Statuses
  <2>1. db'[o] = db[o]
    BY <1>2 DEF CommitWrites
  <2> QED
    BY <1>1, <2>1 DEF Life!vars, StatusOf
<1>3. CASE writes[a][o] \in Statuses
  <2>1. db'[o] = writes[a][o] /\ db[o] # None
    BY <1>3 DEF CommitWrites, WorkIsStored
  <2>2. StatusOf(o) # None
    BY <2>1 DEF StatusOf
  <2>3. CASE writes[a][o] = "PENDING"
    <3>1. StatusOf(o)' = "PENDING"
      BY <2>1, <2>3 DEF StatusOf
    <3> QED
      BY <1>1, <2>2, <3>1 DEF Life!Next, Life!StatusChanges, Life!vars
  <2>4. CASE writes[a][o] \in Terminal
    <3>1. Ended(o, writes[a][o]) \/ Claimed(o, writes[a][o])
      BY <2>4 DEF WritesAreReal
    <3>2. CASE Ended(o, writes[a][o])
      <4>1. StatusOf(o)' = PaymentOf(o)
        BY <2>1, <2>4, <3>2, EndedIsPayment DEF StatusOf
      <4> QED
        BY <1>1, <2>2, <4>1 DEF Life!Next, Life!StatusChanges, Life!vars
    <3>3. CASE Claimed(o, writes[a][o])
      <4>1. StatusOf(o)' \in ClaimsOf(o)
        BY <2>1, <2>4, <3>3, ClaimIsSeen DEF StatusOf
      <4> QED
        BY <1>1, <2>2, <4>1 DEF Life!Next, Life!StatusChanges, Life!vars
    <3> QED
      BY <3>1, <3>2, <3>3
  <2> QED
    BY <1>3, <2>3, <2>4 DEF WritesNeverCreated
<1> QED
  BY <1>2, <1>3

\* Whatever step is taken, it does to each order what OrderLife lets happen to it.
LEMMA LifeStep ==
  ASSUME IInv, WorkIsStored, [Next]_vars, NEW o \in Orders
  PROVE  [Life(o)!Next]_(Life(o)!vars)
<1> USE NoneAssumption DEF IInv, TypeOK, Statuses, Open, Terminal
<1>1. ASSUME NEW p \in Orders, StoreOrder(p) PROVE [Life(o)!Next]_(Life(o)!vars)
  <2>1. PaymentOf(o)' = PaymentOf(o) /\ ClaimsOf(o)' = ClaimsOf(o)
    BY <1>1 DEF StoreOrder, PaymentOf, ClaimsOf
  <2>2. CASE p = o
    <3>1. StatusOf(o) = None /\ StatusOf(o)' = "PENDING"
      BY <1>1, <2>2 DEF StoreOrder, StatusOf
    <3> QED
      BY <2>1, <3>1 DEF Life!Next, Life!OrderStored
  <2>3. CASE p # o
    <3>1. StatusOf(o)' = StatusOf(o)
      BY <1>1, <2>3 DEF StoreOrder, StatusOf
    <3> QED
      BY <2>1, <3>1 DEF Life!vars
  <2> QED
    BY <2>2, <2>3
<1>2. ASSUME NEW p \in Orders, PaymentEnds(p) PROVE [Life(o)!Next]_(Life(o)!vars)
  <2>1. StatusOf(o)' = StatusOf(o) /\ ClaimsOf(o)' = ClaimsOf(o)
    BY <1>2 DEF PaymentEnds, StatusOf, ClaimsOf
  <2>2. CASE p = o
    <3>1. payment[o] = "INITIATED" /\ payment'[o] \in FinalWords
      BY <1>2, <2>2 DEF PaymentEnds
    <3>2. payment'[o] # "INITIATED"
      BY <3>1, FinalWordsAssumption
    <3>3. PaymentOf(o) = "PENDING" /\ PaymentOf(o)' \in {"COMPLETED", "FAILED"}
      BY <3>1, <3>2 DEF PaymentOf
    <3> QED
      BY <2>1, <3>3 DEF Life!Next, Life!PaymentEnds, Life!Ends
  <2>3. CASE p # o
    <3>1. PaymentOf(o)' = PaymentOf(o)
      BY <1>2, <2>3 DEF PaymentEnds, PaymentOf
    <3> QED
      BY <2>1, <3>1 DEF Life!vars
  <2> QED
    BY <2>2, <2>3
<1>3. ASSUME NEW a \in Actors, CommitWrites(a), UNCHANGED <<payment, claims>>
      PROVE  [Life(o)!Next]_(Life(o)!vars)
  BY <1>3, WrittenStatus
<1>4. ASSUME NEW e \in Events, EventApply(e) PROVE [Life(o)!Next]_(Life(o)!vars)
  <2>1. PaymentOf(o)' = PaymentOf(o) /\ StatusOf(o)' = StatusOf(o)
    BY <1>4 DEF EventApply, PaymentOf, StatusOf
  <2> DEFINE claim == [order |-> target[e], status |-> reply[e]]
             EndOf(c) == IF c.status = "COMPLETED" THEN "COMPLETED" ELSE "FAILED"
  <2>2. CASE claims' = claims \/ target[e] # o
    <3>1. {d \in claims' : d.order = o} = {d \in claims : d.order = o}
      BY <1>4, <2>2 DEF EventApply
    <3>2. ClaimsOf(o)' = ClaimsOf(o)
      BY <3>1 DEF ClaimsOf
    <3> QED
      BY <2>1, <3>2 DEF Life!vars
  <2>3. CASE claims' = claims \union {claim} /\ reply[e] \in Terminal /\ target[e] = o
    <3>1. {d \in claims' : d.order = o} = {d \in claims : d.order = o} \union {claim}
      BY <2>3
    <3>2. ClaimsOf(o)' = ClaimsOf(o) \union {EndOf(claim)} /\ EndOf(claim) \in Life(o)!Ends
      <4> DEFINE mine == {d \in claims : d.order = o}
      <4>1. ClaimsOf(o)' = {EndOf(c) : c \in mine \union {claim}}
        BY <3>1 DEF ClaimsOf
      <4>2. ClaimsOf(o) = {EndOf(c) : c \in mine}
        BY DEF ClaimsOf
      <4>3. EndOf(claim) \in Life(o)!Ends
        BY DEF Life!Ends
      <4> HIDE DEF EndOf, mine, claim
      <4> QED
        BY <4>1, <4>2, <4>3
    <3>3. StatusOf(o) # None
      <4>1. db[o] # None
        BY <1>4, <2>3 DEF EventApply, WorkIsStored, Actors
      <4> QED
        BY <4>1 DEF StatusOf
    <3> QED
      BY <2>1, <3>2, <3>3 DEF Life!Next, Life!Claim
  <2> QED
    BY <1>4, <2>2, <2>3 DEF EventApply
<1>5. CASE UNCHANGED <<payment, db, claims>>
  BY <1>5 DEF Life!vars, PaymentOf, StatusOf, ClaimsOf
<1>6. \/ \E p \in Orders : StoreOrder(p) \/ PaymentEnds(p)
      \/ \E a \in Actors : CommitWrites(a) /\ UNCHANGED <<payment, claims>>
      \/ \E e \in Events : EventApply(e)
      \/ UNCHANGED <<payment, db, claims>>
  BY DEF Next, World, Poll, Event, Reconcile, Sync, vars, Actors, Age, PollLoad, PollCommit,
     SendEvent, EventIgnored, EventLoad, EventCommit, SelectBatch, NextOrder,
     SkipOrder, EndPass, DeadlockVictim, Ask, AskFails, ApplyNothing, Apply, Crash
<1> QED
  BY <1>1, <1>2, <1>3, <1>4, <1>5, <1>6

LEMMA LifeInit ==
  ASSUME Init, NEW o \in Orders
  PROVE  Life(o)!Init
BY NoneAssumption
   DEF Init, Life!Init, PaymentOf, StatusOf, ClaimsOf, Statuses, Open, Terminal

\* Each order of the table lives as OrderLife says: what Refunds takes for granted of
\* its order holds of every order here.
THEOREM EveryOrderLives ==
  ASSUME NEW o \in Orders
  PROVE  Spec => Life(o)!Spec
<1>1. Init => Life(o)!Init
  BY LifeInit
<1>2. IInv /\ WorkIsStored /\ [Next]_vars => [Life(o)!Next]_(Life(o)!vars)
  BY LifeStep
<1> QED
  BY <1>1, <1>2, InductiveInvariant, OnlyStoredOrdersAreWorkedOn, PTL DEF Spec, Life!Spec

\* ImplementsOrderLife: the same of all orders at once, as the run checks it.
THEOREM OrdersLive == Spec => ImplementsOrderLife
<1> DEFINE Begin == \A o \in Orders : Life(o)!Init
           Live == \A o \in Orders : [Life(o)!Next]_(Life(o)!vars)
<1>1. Init => Begin
  BY LifeInit
<1>2. IInv /\ WorkIsStored /\ [Next]_vars => Live
  BY LifeStep
<1>3. ImplementsOrderLife <=> Begin /\ [][Live]_vars
  BY DEF ImplementsOrderLife
<1> HIDE DEF Begin, Live
<1> QED
  BY <1>1, <1>2, <1>3, InductiveInvariant, OnlyStoredOrdersAreWorkedOn, PTL DEF Spec
=============================================================================
