------------------------- MODULE TokenCacheProofs -------------------------
(* Proofs about TokenCache for any calls, workers, lifetimes and bounds.    *)
EXTENDS TokenCache, TLAPS

\* PhonePe has carried out no call that is still to end.
EndsOnce ==
  \A c \in Calls : processed[c] <= 1 /\ (pc[c] # "done" => processed[c] = 0)

\* A call on its second try holds a token of its own credentials.
SecondTriesAreFresh ==
  \A c \in Calls :
    /\ c \in retried => pc[c] \in {"oauth", "store", "fallback", "send", "done"}
    /\ pc[c] \in {"store", "fallback"} \/ (pc[c] = "send" /\ c \in retried) =>
         token[c].cred = cred[c]

\* A refused call has ended, with a token.
RefusedHaveEnded ==
  \A c \in Calls : outcome[c] = "refused" => pc[c] = "done" /\ token[c] # None

IInv == /\ TypeOK
        /\ EntriesExpireFirst
        /\ EndsOnce
        /\ SecondTriesAreFresh
        /\ RefusedHaveEnded
        /\ RefusalsHaveACause

-----------------------------------------------------------------------------
\* A time to live is a number, and leaves the buffer of a life that has room for it.
LEMMA TtlFits ==
  ASSUME NEW life \in Lifetimes \union {DefaultLife}
  PROVE  /\ Ttl(life) \in Nat /\ life \in Nat
         /\ life >= Buffer + MinTtl => Ttl(life) + Buffer = life
BY TimesAssumption, LifetimesAssumption DEF Ttl

\* A call holds None or a token, and a token has a birth, a life and an end.
LEMMA HeldToken ==
  ASSUME TypeOK, NEW c \in Calls, token[c] # None
  PROVE  /\ token[c] \in Tokens
         /\ token[c].born \in Nat /\ token[c].life \in Lifetimes
         /\ token[c].stated \in Lifetimes \union {DefaultLife}
         /\ Expiry(token[c]) \in Nat
<1>1. token[c] \in Tokens
  BY DEF TypeOK
<1>2. /\ token[c].born \in 0..MaxTime /\ token[c].life \in Lifetimes
      /\ token[c].stated \in Lifetimes \union {DefaultLife}
  BY <1>1 DEF Tokens, Clock
<1>3. token[c].born \in Nat
  BY <1>2, TimesAssumption
<1>4. token[c].life \in Nat
  BY <1>2, LifetimesAssumption
<1> QED
  BY <1>1, <1>2, <1>3, <1>4 DEF Expiry

\* What is to be cached is an entry, and one that EntriesExpireFirst lets be.
LEMMA EntryFits ==
  ASSUME TypeOK, NEW c \in Calls, pc[c] \in {"store", "fallback"}
  PROVE  /\ Entry(c) \in Entries
         /\ (/\ Entry(c).at <= Entry(c).token.born + Buffer
             /\ Entry(c).token.stated = Entry(c).token.life
             /\ Entry(c).token.life >= Buffer + MinTtl) =>
               Entry(c).until <= Expiry(Entry(c).token)
<1>1. token[c] # None
  BY DEF TypeOK
<1>2. /\ token[c] \in Tokens /\ token[c].life \in Lifetimes /\ token[c].born \in Nat
      /\ token[c].stated \in Lifetimes \union {DefaultLife}
  BY <1>1, HeldToken
<1>3. /\ Ttl(token[c].stated) \in Nat /\ token[c].life \in Nat
      /\ token[c].stated = token[c].life /\ token[c].life >= Buffer + MinTtl =>
           Ttl(token[c].stated) + Buffer = token[c].life
  BY <1>2, TtlFits
<1>4. now \in Nat /\ now \in Clock
  BY TimesAssumption DEF TypeOK, Clock
<1> QED
  BY <1>2, <1>3, <1>4, TimesAssumption DEF Entry, Entries, Expiry

\* The types are kept.
LEMMA TypeStep ==
  IInv /\ [Next]_vars => TypeOK'
<1> SUFFICES ASSUME IInv, [Next]_vars PROVE TypeOK'
  OBVIOUS
<1> USE TimesAssumption, NoneAssumption DEF IInv, TypeOK, Goto, End
<1>1. ASSUME NEW c \in Calls, Start(c) PROVE TypeOK'
  BY <1>1 DEF Start
<1>2. ASSUME NEW c \in Calls, Hit(c) PROVE TypeOK'
  <2>1. PICK entry \in Sources(c) : Live(entry) /\ token' = [token EXCEPT ![c] = entry.token]
    BY <1>2 DEF Hit
  <2>2. redis \in Entries \union {None} /\ memory[WorkerOf[c]] \in Entries \union {None}
    BY WorkerOfAssumption
  <2>3. entry \in Entries
    BY <2>1, <2>2 DEF Sources, Live
  <2>4. entry.token \in Tokens
    BY <2>3 DEF Entries
  <2> QED
    BY <1>2, <2>1, <2>4 DEF Hit
<1>3. ASSUME NEW c \in Calls, Miss(c) PROVE TypeOK'
  BY <1>3 DEF Miss
<1>4. ASSUME NEW c \in Calls, Issue(c) PROVE TypeOK'
  <2>1. PICK life \in Lifetimes, stated \in Lifetimes \union {DefaultLife} :
          token' = [token EXCEPT
                     ![c] = [cred |-> cred[c], born |-> now, life |-> life, stated |-> stated]]
    BY <1>4 DEF Issue
  <2>2. cred[c] \in Creds /\ now \in Clock
    BY <1>4 DEF Issue
  <2>3. [cred |-> cred[c], born |-> now, life |-> life, stated |-> stated] \in Tokens
    BY <2>2 DEF Tokens
  <2> QED
    BY <1>4, <2>1, <2>3 DEF Issue
<1>5. ASSUME NEW c \in Calls, IssueFails(c) PROVE TypeOK'
  BY <1>5 DEF IssueFails
<1>6. ASSUME NEW c \in Calls, StoreInRedis(c) PROVE TypeOK'
  BY <1>6, EntryFits DEF StoreInRedis
<1>7. ASSUME NEW c \in Calls, StoreInMemory(c) PROVE TypeOK'
  BY <1>7, EntryFits DEF StoreInMemory
<1>8. ASSUME NEW c \in Calls, CarriedOut(c) PROVE TypeOK'
  BY <1>8 DEF CarriedOut, EndsOnce
<1>9. ASSUME NEW c \in Calls, SendFails(c) PROVE TypeOK'
  BY <1>9 DEF SendFails
<1>10. ASSUME NEW c \in Calls, Refresh(c) PROVE TypeOK'
  BY <1>10 DEF Refresh
<1>11. ASSUME NEW c \in Calls, RefusedAgain(c) PROVE TypeOK'
  BY <1>11 DEF RefusedAgain
<1>12. CASE ReplaceCredentials
  BY <1>12 DEF ReplaceCredentials, Creds
<1>13. ASSUME NEW k \in Creds, Withdraw(k) PROVE TypeOK'
  BY <1>13 DEF Withdraw
<1>14. CASE Tick
  BY <1>14 DEF Tick, Clock
<1>15. CASE UNCHANGED vars
  BY <1>15 DEF vars
<1> QED
  BY <1>1, <1>2, <1>3, <1>4, <1>5, <1>6, <1>7, <1>8, <1>9, <1>10, <1>11, <1>12, <1>13,
     <1>14, <1>15
     DEF Next, Call, AllDone

\* Only the two stores change entries, and expiries do not move.
LEMMA EntriesStep ==
  IInv /\ [Next]_vars => EntriesExpireFirst'
<1> SUFFICES ASSUME IInv, [Next]_vars PROVE EntriesExpireFirst'
  OBVIOUS
<1> USE DEF IInv, TypeOK, Goto, End, EntriesExpireFirst
<1>1. ASSUME NEW c \in Calls, Start(c) PROVE EntriesExpireFirst'
  BY <1>1 DEF Start
<1>2. ASSUME NEW c \in Calls, Hit(c) PROVE EntriesExpireFirst'
  BY <1>2 DEF Hit
<1>3. ASSUME NEW c \in Calls, Miss(c) PROVE EntriesExpireFirst'
  BY <1>3 DEF Miss
<1>4. ASSUME NEW c \in Calls, Issue(c) PROVE EntriesExpireFirst'
  BY <1>4 DEF Issue
<1>5. ASSUME NEW c \in Calls, IssueFails(c) PROVE EntriesExpireFirst'
  BY <1>5 DEF IssueFails
<1>6. ASSUME NEW c \in Calls, StoreInRedis(c) PROVE EntriesExpireFirst'
  BY <1>6, EntryFits DEF StoreInRedis
<1>7. ASSUME NEW c \in Calls, StoreInMemory(c) PROVE EntriesExpireFirst'
  BY <1>7, EntryFits DEF StoreInMemory
<1>8. ASSUME NEW c \in Calls, CarriedOut(c) PROVE EntriesExpireFirst'
  BY <1>8 DEF CarriedOut
<1>9. ASSUME NEW c \in Calls, SendFails(c) PROVE EntriesExpireFirst'
  BY <1>9 DEF SendFails
<1>10. ASSUME NEW c \in Calls, Refresh(c) PROVE EntriesExpireFirst'
  BY <1>10 DEF Refresh
<1>11. ASSUME NEW c \in Calls, RefusedAgain(c) PROVE EntriesExpireFirst'
  BY <1>11 DEF RefusedAgain
<1>12. CASE ReplaceCredentials
  BY <1>12 DEF ReplaceCredentials
<1>13. ASSUME NEW k \in Creds, Withdraw(k) PROVE EntriesExpireFirst'
  BY <1>13 DEF Withdraw
<1>14. CASE Tick
  BY <1>14 DEF Tick
<1>15. CASE UNCHANGED vars
  BY <1>15 DEF vars
<1> QED
  BY <1>1, <1>2, <1>3, <1>4, <1>5, <1>6, <1>7, <1>8, <1>9, <1>10, <1>11, <1>12, <1>13,
     <1>14, <1>15
     DEF Next, Call, AllDone

\* Only CarriedOut counts, and it ends its call.
LEMMA EndsStep ==
  IInv /\ [Next]_vars => EndsOnce'
<1> SUFFICES ASSUME IInv, [Next]_vars PROVE EndsOnce'
  OBVIOUS
<1> USE DEF IInv, TypeOK, Goto, End, EndsOnce
<1>1. ASSUME NEW c \in Calls, Start(c) PROVE EndsOnce'
  BY <1>1 DEF Start
<1>2. ASSUME NEW c \in Calls, Hit(c) PROVE EndsOnce'
  BY <1>2 DEF Hit
<1>3. ASSUME NEW c \in Calls, Miss(c) PROVE EndsOnce'
  BY <1>3 DEF Miss
<1>4. ASSUME NEW c \in Calls, Issue(c) PROVE EndsOnce'
  BY <1>4 DEF Issue
<1>5. ASSUME NEW c \in Calls, IssueFails(c) PROVE EndsOnce'
  BY <1>5 DEF IssueFails
<1>6. ASSUME NEW c \in Calls, StoreInRedis(c) PROVE EndsOnce'
  BY <1>6 DEF StoreInRedis
<1>7. ASSUME NEW c \in Calls, StoreInMemory(c) PROVE EndsOnce'
  BY <1>7 DEF StoreInMemory
<1>8. ASSUME NEW c \in Calls, CarriedOut(c) PROVE EndsOnce'
  BY <1>8 DEF CarriedOut
<1>9. ASSUME NEW c \in Calls, SendFails(c) PROVE EndsOnce'
  BY <1>9 DEF SendFails
<1>10. ASSUME NEW c \in Calls, Refresh(c) PROVE EndsOnce'
  BY <1>10 DEF Refresh
<1>11. ASSUME NEW c \in Calls, RefusedAgain(c) PROVE EndsOnce'
  BY <1>11 DEF RefusedAgain
<1>12. CASE ReplaceCredentials
  BY <1>12 DEF ReplaceCredentials
<1>13. ASSUME NEW k \in Creds, Withdraw(k) PROVE EndsOnce'
  BY <1>13 DEF Withdraw
<1>14. CASE Tick
  BY <1>14 DEF Tick
<1>15. CASE UNCHANGED vars
  BY <1>15 DEF vars
<1> QED
  BY <1>1, <1>2, <1>3, <1>4, <1>5, <1>6, <1>7, <1>8, <1>9, <1>10, <1>11, <1>12, <1>13,
     <1>14, <1>15
     DEF Next, Call, AllDone

\* Only Issue lets a call on its second try hold a token.
LEMMA FreshStep ==
  IInv /\ [Next]_vars => SecondTriesAreFresh'
<1> SUFFICES ASSUME IInv, [Next]_vars PROVE SecondTriesAreFresh'
  OBVIOUS
<1> USE DEF IInv, TypeOK, Goto, End, SecondTriesAreFresh
<1>1. ASSUME NEW c \in Calls, Start(c) PROVE SecondTriesAreFresh'
  BY <1>1 DEF Start
<1>2. ASSUME NEW c \in Calls, Hit(c) PROVE SecondTriesAreFresh'
  BY <1>2 DEF Hit
<1>3. ASSUME NEW c \in Calls, Miss(c) PROVE SecondTriesAreFresh'
  BY <1>3 DEF Miss
<1>4. ASSUME NEW c \in Calls, Issue(c) PROVE SecondTriesAreFresh'
  BY <1>4 DEF Issue
<1>5. ASSUME NEW c \in Calls, IssueFails(c) PROVE SecondTriesAreFresh'
  BY <1>5 DEF IssueFails
<1>6. ASSUME NEW c \in Calls, StoreInRedis(c) PROVE SecondTriesAreFresh'
  BY <1>6 DEF StoreInRedis
<1>7. ASSUME NEW c \in Calls, StoreInMemory(c) PROVE SecondTriesAreFresh'
  BY <1>7 DEF StoreInMemory
<1>8. ASSUME NEW c \in Calls, CarriedOut(c) PROVE SecondTriesAreFresh'
  BY <1>8 DEF CarriedOut
<1>9. ASSUME NEW c \in Calls, SendFails(c) PROVE SecondTriesAreFresh'
  BY <1>9 DEF SendFails
<1>10. ASSUME NEW c \in Calls, Refresh(c) PROVE SecondTriesAreFresh'
  BY <1>10 DEF Refresh
<1>11. ASSUME NEW c \in Calls, RefusedAgain(c) PROVE SecondTriesAreFresh'
  BY <1>11 DEF RefusedAgain
<1>12. CASE ReplaceCredentials
  BY <1>12 DEF ReplaceCredentials
<1>13. ASSUME NEW k \in Creds, Withdraw(k) PROVE SecondTriesAreFresh'
  BY <1>13 DEF Withdraw
<1>14. CASE Tick
  BY <1>14 DEF Tick
<1>15. CASE UNCHANGED vars
  BY <1>15 DEF vars
<1> QED
  BY <1>1, <1>2, <1>3, <1>4, <1>5, <1>6, <1>7, <1>8, <1>9, <1>10, <1>11, <1>12, <1>13,
     <1>14, <1>15
     DEF Next, Call, AllDone

\* What has ended does not change any more.
LEMMA RefusedStep ==
  IInv /\ [Next]_vars => RefusedHaveEnded'
<1> SUFFICES ASSUME IInv, [Next]_vars PROVE RefusedHaveEnded'
  OBVIOUS
<1> USE DEF IInv, TypeOK, Goto, End, RefusedHaveEnded
<1>1. ASSUME NEW c \in Calls, Start(c) PROVE RefusedHaveEnded'
  BY <1>1 DEF Start
<1>2. ASSUME NEW c \in Calls, Hit(c) PROVE RefusedHaveEnded'
  BY <1>2 DEF Hit
<1>3. ASSUME NEW c \in Calls, Miss(c) PROVE RefusedHaveEnded'
  BY <1>3 DEF Miss
<1>4. ASSUME NEW c \in Calls, Issue(c) PROVE RefusedHaveEnded'
  BY <1>4 DEF Issue
<1>5. ASSUME NEW c \in Calls, IssueFails(c) PROVE RefusedHaveEnded'
  BY <1>5 DEF IssueFails
<1>6. ASSUME NEW c \in Calls, StoreInRedis(c) PROVE RefusedHaveEnded'
  BY <1>6 DEF StoreInRedis
<1>7. ASSUME NEW c \in Calls, StoreInMemory(c) PROVE RefusedHaveEnded'
  BY <1>7 DEF StoreInMemory
<1>8. ASSUME NEW c \in Calls, CarriedOut(c) PROVE RefusedHaveEnded'
  BY <1>8 DEF CarriedOut
<1>9. ASSUME NEW c \in Calls, SendFails(c) PROVE RefusedHaveEnded'
  BY <1>9 DEF SendFails
<1>10. ASSUME NEW c \in Calls, Refresh(c) PROVE RefusedHaveEnded'
  BY <1>10 DEF Refresh
<1>11. ASSUME NEW c \in Calls, RefusedAgain(c) PROVE RefusedHaveEnded'
  <2>1. token[c] # None
    BY <1>11 DEF RefusedAgain
  <2> QED
    BY <1>11, <2>1 DEF RefusedAgain
<1>12. CASE ReplaceCredentials
  BY <1>12 DEF ReplaceCredentials
<1>13. ASSUME NEW k \in Creds, Withdraw(k) PROVE RefusedHaveEnded'
  BY <1>13 DEF Withdraw
<1>14. CASE Tick
  BY <1>14 DEF Tick
<1>15. CASE UNCHANGED vars
  BY <1>15 DEF vars
<1> QED
  BY <1>1, <1>2, <1>3, <1>4, <1>5, <1>6, <1>7, <1>8, <1>9, <1>10, <1>11, <1>12, <1>13,
     <1>14, <1>15
     DEF Next, Call, AllDone

\* A token of its own credentials is refused for one of two reasons, and neither
\* goes away.
LEMMA RefusalStep ==
  IInv /\ [Next]_vars => RefusalsHaveACause'
<1> SUFFICES ASSUME IInv, [Next]_vars,
                    NEW c \in Calls, outcome'[c] = "refused"
             PROVE  cred'[c] \in withdrawn' \/ (Expiry(token[c]) <= now)'
  BY DEF RefusalsHaveACause
<1>1. \/ /\ outcome[c] = "refused"
         /\ cred'[c] = cred[c] /\ token'[c] = token[c]
      \/ RefusedAgain(c)
  <2> USE NoneAssumption DEF IInv, TypeOK, Goto, End, RefusedHaveEnded
  <2>1. ASSUME NEW d \in Calls, \/ Start(d) \/ Hit(d) \/ Miss(d) \/ Issue(d)
                                  \/ StoreInRedis(d) \/ StoreInMemory(d) \/ Refresh(d)
        PROVE  outcome[c] = "refused" /\ cred'[c] = cred[c] /\ token'[c] = token[c]
    BY <2>1 DEF Start, Hit, Miss, Issue, StoreInRedis, StoreInMemory, Refresh
  <2>2. ASSUME NEW d \in Calls, IssueFails(d) \/ CarriedOut(d) \/ SendFails(d)
        PROVE  outcome[c] = "refused" /\ cred'[c] = cred[c] /\ token'[c] = token[c]
    BY <2>2 DEF IssueFails, CarriedOut, SendFails
  <2>3. ASSUME NEW d \in Calls, RefusedAgain(d), d # c
        PROVE  outcome[c] = "refused" /\ cred'[c] = cred[c] /\ token'[c] = token[c]
    BY <2>3 DEF RefusedAgain
  <2>4. ASSUME ReplaceCredentials \/ (\E k \in Creds : Withdraw(k)) \/ Tick \/ UNCHANGED vars
        PROVE  outcome[c] = "refused" /\ cred'[c] = cred[c] /\ token'[c] = token[c]
    BY <2>4 DEF ReplaceCredentials, Withdraw, Tick, vars
  <2> QED
    BY <2>1, <2>2, <2>3, <2>4 DEF Next, Call, AllDone
<1>2. withdrawn \subseteq withdrawn' /\ (now' = now \/ now' = now + 1)
  BY DEF Next, Call, Start, Hit, Miss, Issue, IssueFails, StoreInRedis, StoreInMemory,
     CarriedOut, SendFails, Refresh, RefusedAgain, ReplaceCredentials, Withdraw, Tick, AllDone,
     vars
<1>3. now \in Nat
  BY TimesAssumption DEF IInv, TypeOK, Clock
<1>4. CASE outcome[c] = "refused" /\ cred'[c] = cred[c] /\ token'[c] = token[c]
  <2>1. cred[c] \in withdrawn \/ Expiry(token[c]) <= now
    BY <1>4 DEF IInv, RefusalsHaveACause
  <2>2. token[c] # None
    BY <1>4 DEF IInv, RefusedHaveEnded
  <2>3. Expiry(token[c]) \in Nat
    BY <2>2, HeldToken DEF IInv
  <2>4. (Expiry(token[c]))' = Expiry(token[c])
    BY <1>4 DEF Expiry
  <2> QED
    BY <1>2, <1>3, <1>4, <2>1, <2>3, <2>4
<1>5. CASE RefusedAgain(c)
  <2>1. token[c] # None
    BY <1>5 DEF RefusedAgain, IInv, TypeOK
  <2>2. Expiry(token[c]) \in Nat
    BY <2>1, HeldToken DEF IInv
  <2>3. token[c].cred = cred[c]
    BY <1>5 DEF RefusedAgain, IInv, SecondTriesAreFresh
  <2>4. cred[c] \in withdrawn \/ Expiry(token[c]) <= now
    BY <1>3, <1>5, <2>2, <2>3 DEF RefusedAgain, Honoured
  <2> QED
    BY <1>5, <2>4 DEF RefusedAgain, Expiry
<1> QED
  BY <1>1, <1>4, <1>5

\* IInv holds in every reachable state: caches, calls and clock fit together.
THEOREM InductiveInvariant == Spec => []IInv
<1>1. Init => IInv
  BY TimesAssumption, NoneAssumption
     DEF Init, IInv, TypeOK, Creds, Clock, EntriesExpireFirst, EndsOnce,
         SecondTriesAreFresh, RefusedHaveEnded, RefusalsHaveACause
<1>2. IInv /\ [Next]_vars => IInv'
  BY TypeStep, EntriesStep, EndsStep, FreshStep, RefusedStep, RefusalStep DEF IInv
<1> QED
  BY <1>1, <1>2, PTL DEF Spec

\* TypeOK: in particular a call that is to be sent holds a token.
THEOREM TypeCorrect == Spec => []TypeOK
<1>1. IInv => TypeOK
  BY DEF IInv
<1> QED
  BY <1>1, InductiveInvariant, PTL

\* EntriesExpireFirst: for any lifetimes and however long anything takes, the safety
\* buffer is all the time that a token's way into the cache may take.
THEOREM PromptEntriesExpireFirst == Spec => []EntriesExpireFirst
<1>1. IInv => EntriesExpireFirst
  BY DEF IInv
<1> QED
  BY <1>1, InductiveInvariant, PTL

\* CarriedOutOnce: the retry on 401 never repeats what PhonePe carried out.
THEOREM AtMostOnce == Spec => []CarriedOutOnce
<1>1. IInv => CarriedOutOnce
  BY DEF IInv, EndsOnce, CarriedOutOnce
<1> QED
  BY <1>1, InductiveInvariant, PTL

\* RefusalsHaveACause: a stale token never costs the call, for any number of calls.
THEOREM RefusalsAreDeserved == Spec => []RefusalsHaveACause
<1>1. IInv => RefusalsHaveACause
  BY DEF IInv
<1> QED
  BY <1>1, InductiveInvariant, PTL
=============================================================================
