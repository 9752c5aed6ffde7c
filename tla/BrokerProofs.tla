---------------------------- MODULE BrokerProofs ----------------------------
(***************************************************************************)
(* Proofs about Broker for any number of threads and ids, any ttl, any     *)
(* clock and any number of calls.  Inv is inductive: its type part and its *)
(* frames stand on their own, the lock makes what is read under it fresh,  *)
(* and fresh entries make the histories balance.                           *)
(***************************************************************************)
EXTENDS Broker, TLAPS

(* Initially every call is over and the store is empty.                    *)
LEMMA InitInv == Init => Inv
<1> SUFFICES ASSUME Init PROVE Inv
    OBVIOUS
<1> USE ConstantsAssumption DEF Init, Absent
<1>1. TypeOK
    BY DEF TypeOK, Entries, States, Places, Waiting, Critical, Results
<1>2. NothingStaleUnderLock
    BY DEF NothingStaleUnderLock, Critical
<1>3. FramesOK
  <2> SUFFICES ASSUME NEW t \in Threads
               PROVE  /\ pc[t] = "idle" /\ result[t] = "NONE"
                      /\ now[t] <= clock
      BY Zenon DEF FramesOK
  <2> QED OBVIOUS
<1>4. ExpiredNeverEarly
    BY DEF ExpiredNeverEarly
<1>5. EachMintSettlesOnce
    BY DEF EachMintSettlesOnce
<1>6. LivesAfterIssue
    BY DEF LivesAfterIssue
<1> QED BY <1>1, <1>2, <1>3, <1>4, <1>5, <1>6 DEF Inv

-----------------------------------------------------------------------------

(* A call that begins leaves the types of its locals right.                *)
LEMMA BeginType ==
    ASSUME TypeOK, NEW t \in Threads, NEW p \in Places, NEW i \in Ids \cup {NoId},
           NEW d \in 0..MaxTtl, NEW n \in Nat, Begin(t, p, i, d, n)
    PROVE  TypeOK'
BY DEF TypeOK, Begin, history, Results

(* So does a call that ends.                                               *)
LEMMA ReturnType ==
    ASSUME TypeOK, NEW t \in Threads, NEW r \in Results, Return(t, r)
    PROVE  /\ clock' \in Nat
           /\ pc' \in [Threads -> Places]
           /\ id' \in [Threads -> Ids \cup {NoId}]
           /\ ttl' \in [Threads -> 0..MaxTtl]
           /\ now' \in [Threads -> Nat]
           /\ entry' \in [Threads -> Entries]
           /\ doomed' \in [Threads -> SUBSET Ids]
           /\ result' \in [Threads -> Results]
           /\ calls' \in [Threads -> Nat]
BY ConstantsAssumption
   DEF TypeOK, Return, Entries, States, Absent, Places

(* And an entry that is written is an entry.                               *)
LEMMA PutType ==
    ASSUME TypeOK, NEW i \in Ids, NEW s \in States, NEW e \in Nat, Put(i, s, e)
    PROVE  store' \in [Ids -> Entries]
BY DEF TypeOK, Put, Entries

(* No step leaves the type invariant.                                      *)
LEMMA TypeStep == TypeOK /\ FramesOK /\ [Next]_vars => TypeOK'
<1> SUFFICES ASSUME TypeOK, FramesOK, [Next]_vars PROVE TypeOK'
    OBVIOUS
<1> USE ConstantsAssumption
<1>a. ASSUME NEW t \in Threads, Raise(t) PROVE TypeOK'
    BY <1>a DEF Raise, TypeOK, locals, history, Results
<1>1. ASSUME NEW t \in Threads, MintCall(t) PROVE TypeOK'
  <2>1. PICK candidate \in Candidates, d \in Ttls, i \in GivenIds, n \in Readings :
            MintAdmits(candidate, d, i, n) /\ Begin(t, "mint_wait", i, d, n)
      BY <1>1 DEF MintCall
  <2>2. d \in 0..MaxTtl /\ i \in Ids /\ n \in Nat
      BY <2>1 DEF MintAdmits, TtlAccepted, ReadingAccepted, Ttls, Readings, BadReading, TypeOK
  <2> QED BY <2>1, <2>2, BeginType DEF Places, Waiting
<1>2. ASSUME NEW t \in Threads, MintRejected(t) PROVE TypeOK'
    BY <1>2, <1>a DEF MintRejected
<1>3. ASSUME NEW t \in Threads, MintLock(t) PROVE TypeOK'
  <2>1. id[t] \in Ids
      BY <1>3 DEF MintLock, Acquire, FramesOK, MintAdmits
  <2> QED BY <1>3, <2>1 DEF MintLock, Acquire, TypeOK, Places, Critical, history
<1>4. ASSUME NEW t \in Threads, MintCollision(t) PROVE TypeOK'
    BY <1>4, ReturnType DEF MintCollision, Release, TypeOK, Results, history
<1>5. ASSUME NEW t \in Threads, MintStore(t) PROVE TypeOK'
  <2>1. id[t] \in Ids /\ Expiry(now[t], ttl[t]) \in Nat
      BY <1>5 DEF MintStore, FramesOK, MintAdmits, TypeOK, Expiry
  <2>2. store' \in [Ids -> Entries]
      BY <1>5, <2>1, PutType DEF MintStore, States
  <2>3. issued' \in [Ids -> Nat] /\ minted' \in [Ids -> Nat]
      BY <1>5, <2>1 DEF MintStore, TypeOK
  <2>4. pc' \in [Threads -> Places]
      BY <1>5 DEF MintStore, TypeOK, Places
  <2> QED BY <1>5, <2>2, <2>3, <2>4 DEF MintStore, Release, TypeOK, locals
<1>6. ASSUME NEW t \in Threads, MintReturn(t) PROVE TypeOK'
    BY <1>6, ReturnType DEF MintReturn, TypeOK, Results, history
<1>7. ASSUME NEW t \in Threads, ConsumeCall(t) PROVE TypeOK'
  <2>1. PICK i \in GivenIds, n \in Readings :
            ConsumeAdmits(i, n) /\ Begin(t, "consume_wait", i, 0, n)
      BY <1>7 DEF ConsumeCall
  <2>2. i \in Ids /\ n \in Nat /\ 0 \in 0..MaxTtl
      BY <2>1 DEF ConsumeAdmits, ReadingAccepted, Readings, BadReading, TypeOK
  <2> QED BY <2>1, <2>2, BeginType DEF Places, Waiting
<1>8. ASSUME NEW t \in Threads, ConsumeRejected(t) PROVE TypeOK'
    BY <1>8, <1>a DEF ConsumeRejected
<1>9. ASSUME NEW t \in Threads, ConsumeLock(t) PROVE TypeOK'
  <2>1. id[t] \in Ids
      BY <1>9 DEF ConsumeLock, Acquire, FramesOK
  <2> QED BY <1>9, <2>1 DEF ConsumeLock, Acquire, TypeOK, Places, Critical, history
<1>10. ASSUME NEW t \in Threads, ConsumeNotLive(t) PROVE TypeOK'
  <2>1. Receipt(entry[t].state) \in Results
      BY <1>10 DEF ConsumeNotLive, Receipt, TypeOK, Entries, States, Results
  <2> QED BY <1>10, <2>1, ReturnType DEF ConsumeNotLive, Release, TypeOK, history
<1>11. ASSUME NEW t \in Threads, ConsumeExpire(t) \/ ConsumeWin(t) PROVE TypeOK'
  <2>1. id[t] \in Ids
      BY <1>11 DEF ConsumeExpire, ConsumeWin, FramesOK
  <2>2. store' \in [Ids -> Entries]
    <3>1. entry[t].expires \in Nat
        BY DEF TypeOK, Entries
    <3>2. \E s \in States : Put(id[t], s, entry[t].expires)
        BY <1>11 DEF ConsumeExpire, ConsumeWin, States
    <3> QED BY <2>1, <3>1, <3>2, PutType
  <2>3. /\ issued' \in [Ids -> Nat] /\ minted' \in [Ids -> Nat]
        /\ won' \in [Ids -> Nat] /\ lapsed' \in [Ids -> Nat]
      BY <1>11, <2>1 DEF ConsumeExpire, ConsumeWin, TypeOK
  <2>4. lock' = NoThread /\ \E r \in Results : Return(t, r)
      BY <1>11 DEF ConsumeExpire, ConsumeWin, Release, Results
  <2> QED BY <2>2, <2>3, <2>4, ReturnType DEF TypeOK
<1>12. ASSUME NEW t \in Threads, PruneCall(t) PROVE TypeOK'
    BY <1>12, BeginType DEF PruneCall, Places, Waiting
<1>13. ASSUME NEW t \in Threads, PruneLock(t) PROVE TypeOK'
    BY <1>13 DEF PruneLock, Acquire, Finalized, TypeOK, Places, Critical, history
<1>14. ASSUME NEW t \in Threads, PruneDelete(t) PROVE TypeOK'
  <2>1. store' \in [Ids -> Entries]
      BY <1>14 DEF PruneDelete, TypeOK, Entries, States, Absent
  <2> QED BY <1>14, <2>1, ReturnType DEF PruneDelete, Release, TypeOK, Results, history
<1>15. CASE Tick
    BY <1>15 DEF Tick, TypeOK, locals, history
<1>16. CASE UNCHANGED vars
    BY <1>16 DEF vars, TypeOK, locals, history
<1> QED BY <1>1, <1>2, <1>3, <1>4, <1>5, <1>6, <1>7, <1>8, <1>9, <1>10, <1>11,
           <1>12, <1>13, <1>14, <1>15, <1>16
        DEF Next, Call, Proceed, AllReturned

-----------------------------------------------------------------------------

(* The lock.  A call that begins, or ends outside the lock, changes        *)
(* nothing of what a thread inside it has read.                            *)
LEMMA LockStep ==
    TypeOK /\ NothingStaleUnderLock /\ FramesOK /\ [Next]_vars => NothingStaleUnderLock'
<1> SUFFICES ASSUME TypeOK, NothingStaleUnderLock, FramesOK, [Next]_vars,
                    NEW u \in Threads
             PROVE  /\ pc'[u] \in Critical <=> lock' = u
                    /\ pc'[u] \in {"mint_locked", "consume_locked"} => entry'[u] = store'[id'[u]]
                    /\ pc'[u] = "prune_locked" => doomed'[u] = Finalized'
    BY Zenon DEF NothingStaleUnderLock
<1> DEFINE Fresh == /\ pc'[u] \in Critical <=> lock' = u
                    /\ pc'[u] \in {"mint_locked", "consume_locked"}
                         => entry'[u] = store'[id'[u]]
                    /\ pc'[u] = "prune_locked" => doomed'[u] = Finalized'
<1> USE ConstantsAssumption
<1>1. ASSUME NEW t \in Threads, Raise(t) PROVE Fresh
    BY <1>1 DEF Raise, NothingStaleUnderLock, locals, Finalized
<1>2. ASSUME NEW t \in Threads, NEW p \in Waiting, NEW i, NEW d, NEW n, Begin(t, p, i, d, n)
      PROVE  Fresh
    BY <1>2 DEF Begin, NothingStaleUnderLock, TypeOK, Critical, Waiting, Finalized
<1>3. ASSUME NEW t \in Threads, MintLock(t) \/ ConsumeLock(t) PROVE Fresh
    BY <1>3 DEF MintLock, ConsumeLock, Acquire, NothingStaleUnderLock, TypeOK, Critical
<1>4. ASSUME NEW t \in Threads, PruneLock(t) PROVE Fresh
    BY <1>4 DEF PruneLock, Acquire, NothingStaleUnderLock, TypeOK, Critical, Finalized
<1>5. ASSUME NEW t \in Threads, pc[t] \in Critical, pc' \in [Threads -> Places],
             pc'[t] \notin Critical, \A v \in Threads \ {t} : pc'[v] = pc[v], lock' = NoThread
      PROVE  Fresh
    BY <1>5 DEF NothingStaleUnderLock, TypeOK, Critical
<1>6. ASSUME NEW t \in Threads, MintReturn(t) PROVE Fresh
    BY <1>6 DEF MintReturn, Return, NothingStaleUnderLock, TypeOK, Critical, Finalized
<1>7. ASSUME NEW t \in Threads,
             \/ MintCollision(t) \/ MintStore(t)  \/ ConsumeNotLive(t)
             \/ ConsumeExpire(t) \/ ConsumeWin(t) \/ PruneDelete(t)
      PROVE  Fresh
  <2>1. pc[t] \in Critical /\ lock' = NoThread
      BY <1>7 DEF MintCollision, MintStore, ConsumeNotLive, ConsumeExpire, ConsumeWin,
                  PruneDelete, Release, Critical
  <2>2. pc' = [pc EXCEPT ![t] = "idle"] \/ pc' = [pc EXCEPT ![t] = "mint_build"]
      BY <1>7 DEF MintCollision, MintStore, ConsumeNotLive, ConsumeExpire, ConsumeWin,
                  PruneDelete, Return
  <2> QED BY <1>5, <2>1, <2>2 DEF TypeOK, Places, Critical
<1>8. CASE Tick
    BY <1>8 DEF Tick, NothingStaleUnderLock, locals, Finalized
<1>9. CASE UNCHANGED vars
    BY <1>9 DEF vars, NothingStaleUnderLock, locals, Finalized
<1>10. ASSUME NEW t \in Threads, Call(t) PROVE Fresh
    BY <1>1, <1>2, <1>10 DEF Call, MintCall, MintRejected, ConsumeCall, ConsumeRejected,
                            PruneCall, Waiting
<1>11. ASSUME NEW t \in Threads, Proceed(t) PROVE Fresh
    BY <1>3, <1>4, <1>6, <1>7, <1>11 DEF Proceed
<1> QED BY <1>8, <1>9, <1>10, <1>11 DEF Next, AllReturned

-----------------------------------------------------------------------------

(* The frames.  Only the thread that steps touches its own locals, and the *)
(* clock never goes back.                                                  *)
LEMMA FramesStep == TypeOK /\ FramesOK /\ [Next]_vars => FramesOK'
<1> DEFINE Frame(u) ==
        /\ pc[u] \in {"mint_wait", "mint_locked", "mint_build"}
             => MintAdmits(TRUE, ttl[u], id[u], now[u])
        /\ pc[u] \in {"consume_wait", "consume_locked"} => id[u] \in Ids
        /\ pc[u] = "idle" <=> result[u] # "PENDING"
        /\ now[u] <= clock
<1> SUFFICES ASSUME TypeOK, \A u \in Threads : Frame(u), [Next]_vars, NEW u \in Threads
             PROVE  Frame(u)'
    BY Zenon DEF FramesOK
<1> USE DEF MintAdmits, ReadingAccepted
<1>1. ASSUME NEW t \in Threads, Raise(t) PROVE Frame(u)'
    BY <1>1 DEF Raise, TypeOK, locals
<1>2. ASSUME NEW t \in Threads, MintCall(t) PROVE Frame(u)'
  <2>1. PICK candidate \in Candidates, d \in Ttls, i \in GivenIds, n \in Readings :
            MintAdmits(candidate, d, i, n) /\ Begin(t, "mint_wait", i, d, n)
      BY <1>2 DEF MintCall
  <2>2. n <= clock /\ clock' = clock
      BY <2>1 DEF Begin, Readings, BadReading, TypeOK
  <2>3. CASE u = t
      BY <2>1, <2>2, <2>3 DEF Begin, TypeOK, Candidates
  <2>4. CASE u # t
      BY <2>1, <2>4 DEF Begin, TypeOK
  <2> QED BY <2>3, <2>4
<1>3. ASSUME NEW t \in Threads, ConsumeCall(t) PROVE Frame(u)'
  <2>1. PICK i \in GivenIds, n \in Readings :
            ConsumeAdmits(i, n) /\ Begin(t, "consume_wait", i, 0, n)
      BY <1>3 DEF ConsumeCall
  <2>2. n <= clock /\ clock' = clock
      BY <2>1 DEF Begin, Readings, BadReading, TypeOK
  <2> QED BY <2>1, <2>2 DEF Begin, TypeOK, ConsumeAdmits
<1>4. ASSUME NEW t \in Threads, PruneCall(t) PROVE Frame(u)'
    BY <1>4 DEF PruneCall, Begin, TypeOK
<1>5. ASSUME NEW t \in Threads, MintLock(t) \/ ConsumeLock(t) \/ PruneLock(t)
      PROVE  Frame(u)'
    BY <1>5 DEF MintLock, ConsumeLock, PruneLock, Acquire, TypeOK
<1>6. ASSUME NEW t \in Threads, MintStore(t) PROVE Frame(u)'
    BY <1>6 DEF MintStore, TypeOK, locals
<1>7. ASSUME NEW t \in Threads, NEW r \in Results \ {"PENDING"}, Return(t, r)
      PROVE  Frame(u)'
    BY <1>7 DEF Return, TypeOK
<1>8. ASSUME NEW t \in Threads,
             \/ MintCollision(t) \/ MintReturn(t) \/ ConsumeNotLive(t)
             \/ ConsumeExpire(t) \/ ConsumeWin(t) \/ PruneDelete(t)
      PROVE  Frame(u)'
  <2>1. entry[t].state # "ISSUED" => Receipt(entry[t].state) \in Results \ {"PENDING"}
      BY DEF Receipt, TypeOK, Entries, States, Results
  <2>2. \E r \in Results \ {"PENDING"} : Return(t, r)
      BY <1>8, <2>1 DEF MintCollision, MintReturn, ConsumeNotLive, ConsumeExpire,
                        ConsumeWin, PruneDelete, Results
  <2> QED BY <1>7, <2>2
<1>9. CASE Tick
    BY <1>9 DEF Tick, TypeOK, locals
<1>10. CASE UNCHANGED vars
    BY <1>10 DEF vars, locals
<1>11. ASSUME NEW t \in Threads, Call(t) PROVE Frame(u)'
    BY <1>1, <1>2, <1>3, <1>4, <1>11 DEF Call, MintRejected, ConsumeRejected
<1>12. ASSUME NEW t \in Threads, Proceed(t) PROVE Frame(u)'
    BY <1>5, <1>6, <1>8, <1>12 DEF Proceed
<1> QED BY <1>9, <1>10, <1>11, <1>12 DEF Next, AllReturned

-----------------------------------------------------------------------------

(* A thread that decides does so on the store as it is.                    *)
LEMMA EntryIsFresh ==
    ASSUME TypeOK, NothingStaleUnderLock, FramesOK, NEW t \in Threads,
           pc[t] \in {"mint_locked", "consume_locked"}
    PROVE  id[t] \in Ids /\ entry[t] = store[id[t]] /\ now[t] <= clock
BY DEF TypeOK, NothingStaleUnderLock, FramesOK, MintAdmits

(* The steps that leave the store and the histories alone.                 *)
Quiet(t) ==
    \/ Call(t) \/ MintLock(t) \/ MintCollision(t) \/ MintReturn(t)
    \/ ConsumeLock(t) \/ ConsumeNotLive(t) \/ PruneLock(t)

LEMMA QuietSteps ==
    ASSUME TypeOK, NEW t \in Threads, Quiet(t)
    PROVE  /\ store' = store /\ issued' = issued /\ clock' = clock
           /\ minted' = minted /\ won' = won /\ lapsed' = lapsed
BY DEF Quiet, Call, MintCall, MintRejected, ConsumeCall, ConsumeRejected, PruneCall, Begin,
       Raise, MintLock, MintCollision, MintReturn, ConsumeLock, ConsumeNotLive, PruneLock,
       Acquire, Return, history

(* Nothing is recorded EXPIRED early.                                      *)
LEMMA EarlyStep ==
    TypeOK /\ NothingStaleUnderLock /\ FramesOK /\ ExpiredNeverEarly /\ [Next]_vars
        => ExpiredNeverEarly'
<1> SUFFICES ASSUME TypeOK, NothingStaleUnderLock, FramesOK, ExpiredNeverEarly, [Next]_vars,
                    NEW i \in Ids, store'[i].state = "EXPIRED"
             PROVE  clock' >= store'[i].expires
    BY DEF ExpiredNeverEarly
<1>1. ASSUME NEW t \in Threads, Quiet(t) PROVE clock' >= store'[i].expires
    BY <1>1, QuietSteps DEF ExpiredNeverEarly
<1>2. ASSUME NEW t \in Threads, MintStore(t) PROVE clock' >= store'[i].expires
    BY <1>2, EntryIsFresh DEF MintStore, Put, ExpiredNeverEarly, TypeOK
<1>3. ASSUME NEW t \in Threads, ConsumeExpire(t) PROVE clock' >= store'[i].expires
  <2>1. id[t] \in Ids /\ now[t] <= clock /\ clock' = clock
      BY <1>3, EntryIsFresh DEF ConsumeExpire, Return
  <2>2. now[t] >= entry[t].expires
      BY <1>3 DEF ConsumeExpire, Due
  <2>3. store' = [store EXCEPT ![id[t]] = [state |-> "EXPIRED", expires |-> entry[t].expires]]
      BY <1>3 DEF ConsumeExpire, Put
  <2>4. entry[t].expires \in Nat /\ now[t] \in Nat /\ clock \in Nat
      BY DEF TypeOK, Entries
  <2> QED BY <2>1, <2>2, <2>3, <2>4 DEF ExpiredNeverEarly, TypeOK
<1>4. ASSUME NEW t \in Threads, ConsumeWin(t) PROVE clock' >= store'[i].expires
    BY <1>4, EntryIsFresh DEF ConsumeWin, Put, Return, ExpiredNeverEarly, TypeOK
<1>5. ASSUME NEW t \in Threads, PruneDelete(t) PROVE clock' >= store'[i].expires
    BY <1>5 DEF PruneDelete, Absent, Return, ExpiredNeverEarly, TypeOK
<1>6. CASE Tick
    BY <1>6 DEF Tick, ExpiredNeverEarly, TypeOK, Entries
<1>7. CASE UNCHANGED vars
    BY <1>7 DEF vars, ExpiredNeverEarly
<1> QED BY <1>1, <1>2, <1>3, <1>4, <1>5, <1>6, <1>7
        DEF Next, Proceed, Quiet, AllReturned

(* What is stored expires after it was issued: mint admits nothing else,   *)
(* and no other step changes an expiry.                                    *)
LEMMA IssueStep ==
    TypeOK /\ NothingStaleUnderLock /\ FramesOK /\ LivesAfterIssue /\ [Next]_vars
        => LivesAfterIssue'
<1> SUFFICES ASSUME TypeOK, NothingStaleUnderLock, FramesOK, LivesAfterIssue, [Next]_vars,
                    NEW i \in Ids, store'[i].state # "ABSENT"
             PROVE  issued'[i] < store'[i].expires
    BY DEF LivesAfterIssue
<1> DEFINE Lives == issued'[i] < store'[i].expires
<1>1. ASSUME NEW t \in Threads, Quiet(t) PROVE Lives
    BY <1>1, QuietSteps DEF LivesAfterIssue
<1>2. ASSUME NEW t \in Threads, MintStore(t) PROVE Lives
  <2>1. id[t] \in Ids /\ Expiry(now[t], ttl[t]) > now[t]
      BY <1>2 DEF MintStore, FramesOK, MintAdmits
  <2>2. /\ issued' = [issued EXCEPT ![id[t]] = now[t]]
        /\ store' = [store EXCEPT ![id[t]] = [state |-> "ISSUED",
                                             expires |-> Expiry(now[t], ttl[t])]]
      BY <1>2 DEF MintStore, Put
  <2>3. Expiry(now[t], ttl[t]) \in Nat /\ now[t] \in Nat
      BY ConstantsAssumption DEF Expiry, TypeOK
  <2> QED BY <2>1, <2>2, <2>3 DEF LivesAfterIssue, TypeOK
<1>3. ASSUME NEW t \in Threads, ConsumeExpire(t) \/ ConsumeWin(t) PROVE Lives
  <2>1. id[t] \in Ids /\ entry[t] = store[id[t]] /\ store[id[t]].state # "ABSENT"
      BY <1>3, EntryIsFresh DEF ConsumeExpire, ConsumeWin
  <2>2. issued' = issued /\ \E s \in States : Put(id[t], s, entry[t].expires)
      BY <1>3 DEF ConsumeExpire, ConsumeWin, States
  <2> QED BY <2>1, <2>2 DEF Put, LivesAfterIssue, TypeOK
<1>4. ASSUME NEW t \in Threads, PruneDelete(t) PROVE Lives
    BY <1>4 DEF PruneDelete, Absent, LivesAfterIssue, history
<1>5. CASE Tick
    BY <1>5 DEF Tick, LivesAfterIssue, history
<1>6. CASE UNCHANGED vars
    BY <1>6 DEF vars, LivesAfterIssue, history
<1> QED BY <1>1, <1>2, <1>3, <1>4, <1>5, <1>6
        DEF Next, Proceed, Quiet, AllReturned

(* The histories balance.                                                  *)
LEMMA SettleStep ==
    TypeOK /\ NothingStaleUnderLock /\ FramesOK /\ EachMintSettlesOnce /\ [Next]_vars
        => EachMintSettlesOnce'
<1> DEFINE Live(i) == IF store[i].state = "ISSUED" THEN 1 ELSE 0
<1> SUFFICES ASSUME TypeOK, NothingStaleUnderLock, FramesOK, EachMintSettlesOnce, [Next]_vars,
                    NEW i \in Ids
             PROVE  minted'[i] = won'[i] + lapsed'[i] + Live(i)'
    BY DEF EachMintSettlesOnce
<1> DEFINE Balanced == minted'[i] = won'[i] + lapsed'[i] + Live(i)'
<1>0. /\ minted[i] = won[i] + lapsed[i] + Live(i)
      /\ minted[i] \in Nat /\ won[i] \in Nat /\ lapsed[i] \in Nat
    BY DEF EachMintSettlesOnce, TypeOK
<1>1. ASSUME NEW t \in Threads, Quiet(t) PROVE Balanced
    BY <1>0, <1>1, QuietSteps
<1>2. ASSUME NEW t \in Threads, MintStore(t) PROVE Balanced
    BY <1>0, <1>2, EntryIsFresh DEF MintStore, Put, TypeOK
<1>3. ASSUME NEW t \in Threads, ConsumeExpire(t) PROVE Balanced
    BY <1>0, <1>3, EntryIsFresh DEF ConsumeExpire, Put, TypeOK
<1>4. ASSUME NEW t \in Threads, ConsumeWin(t) PROVE Balanced
    BY <1>0, <1>4, EntryIsFresh DEF ConsumeWin, Put, TypeOK
<1>5. ASSUME NEW t \in Threads, PruneDelete(t) PROVE Balanced
  <2>1. doomed[t] = Finalized
      BY <1>5 DEF PruneDelete, NothingStaleUnderLock
  <2> QED BY <1>0, <1>5, <2>1 DEF PruneDelete, Finalized, Absent, history
<1>6. CASE Tick
    BY <1>0, <1>6 DEF Tick, history
<1>7. CASE UNCHANGED vars
    BY <1>0, <1>7 DEF vars, history
<1> QED BY <1>1, <1>2, <1>3, <1>4, <1>5, <1>6, <1>7
        DEF Next, Proceed, Quiet, AllReturned

-----------------------------------------------------------------------------

(* Inv holds in every state of every behaviour of the broker.              *)
THEOREM Invariance == Spec => []Inv
<1>1. Inv /\ [Next]_vars => Inv'
    BY TypeStep, LockStep, FramesStep, EarlyStep, IssueStep, SettleStep DEF Inv
<1> QED BY InitInv, <1>1, PTL DEF Spec

(* Every variable keeps its type, for any number of threads and ids.       *)
THEOREM TypeCorrectness == Spec => []TypeOK
<1>1. Inv => TypeOK
    BY DEF Inv
<1> QED BY Invariance, <1>1, PTL

(* Single use: each minting of an id is consumed once, or recorded expired *)
(* once, or still live, whatever the threads of the process do.            *)
THEOREM SingleUse == Spec => []EachMintSettlesOnce
<1>1. Inv => EachMintSettlesOnce
    BY DEF Inv
<1> QED BY Invariance, <1>1, PTL

(* Nothing is recorded EXPIRED before its time.                            *)
THEOREM NoEarlyExpiry == Spec => []ExpiredNeverEarly
<1>1. Inv => ExpiredNeverEarly
    BY DEF Inv
<1> QED BY Invariance, <1>1, PTL

(* Nothing is recorded EXPIRED while the clock still shows what it showed  *)
(* to mint, whatever the ttl and however large the readings are.           *)
THEOREM NoExpiryAtBirth == Spec => []NoneExpiresAtBirth
<1>1. Inv => NoneExpiresAtBirth
    BY DEF Inv, TypeOK, Entries, ExpiredNeverEarly, LivesAfterIssue, NoneExpiresAtBirth
<1> QED BY Invariance, <1>1, PTL

(* What a thread has read inside the lock is current while it is inside.   *)
THEOREM FreshUnderLock == Spec => []NothingStaleUnderLock
<1>1. Inv => NothingStaleUnderLock
    BY DEF Inv
<1> QED BY Invariance, <1>1, PTL

-----------------------------------------------------------------------------

(* What mint checked before it took the lock is all that the constructor   *)
(* checks after it has given it back.                                      *)
LEMMA BuildAccepts ==
    ASSUME TypeOK, FramesOK, NEW t \in Threads, pc[t] = "mint_build"
    PROVE  CapabilityAccepts(id[t], now[t], Expiry(now[t], ttl[t]), ttl[t])
<1>1. MintAdmits(TRUE, ttl[t], id[t], now[t])
    BY DEF FramesOK
<1>2. Expiry(now[t], ttl[t]) >= 0
    BY ConstantsAssumption DEF Expiry, TypeOK
<1> QED BY <1>1, <1>2 DEF MintAdmits, CapabilityAccepts, ReadingAccepted

(* A mint whose entry is in the store returns its capability.              *)
THEOREM MintsAreReturned == Spec => StoredMintsAreReturned
<1> DEFINE Step == \A t \in Threads :
                      pc[t] = "mint_build" /\ pc'[t] = "idle" => result'[t] = "MINTED"
<1>1. Inv /\ [Next]_vars => Step
  <2> SUFFICES ASSUME Inv, [Next]_vars, NEW u \in Threads,
                      pc[u] = "mint_build", pc'[u] = "idle"
               PROVE  result'[u] = "MINTED"
      OBVIOUS
  <2> USE DEF Inv
  <2>1. CapabilityAccepts(id[u], now[u], Expiry(now[u], ttl[u]), ttl[u])
      BY BuildAccepts
  <2>2. CASE MintReturn(u)
      BY <2>1, <2>2 DEF MintReturn, Return, TypeOK
  <2>3. ASSUME NEW t \in Threads, Call(t) \/ Proceed(t), ~MintReturn(u)
        PROVE  pc'[u] = pc[u]
    <3>1. CASE t = u
        BY <2>3, <3>1
        DEF Call, Proceed, MintCall, MintRejected, ConsumeCall, ConsumeRejected, PruneCall,
            Begin, Raise, MintLock, ConsumeLock, PruneLock, Acquire, MintCollision, MintStore,
            ConsumeNotLive, ConsumeExpire, ConsumeWin, PruneDelete
    <3>2. CASE t # u
        BY <2>3, <3>2
        DEF Call, Proceed, MintCall, MintRejected, ConsumeCall, ConsumeRejected, PruneCall,
            Begin, Raise, MintLock, ConsumeLock, PruneLock, Acquire, MintCollision, MintStore,
            MintReturn, ConsumeNotLive, ConsumeExpire, ConsumeWin, PruneDelete, Return, TypeOK
    <3> QED BY <3>1, <3>2
  <2>4. (Tick \/ UNCHANGED vars) => pc' = pc
      BY DEF Tick, vars
  <2> QED BY <2>2, <2>3, <2>4 DEF Next, AllReturned
<1>2. Inv /\ [Next]_vars => [Step]_vars
    BY <1>1
<1> QED BY <1>2, Invariance, PTL DEF Spec, StoredMintsAreReturned

-----------------------------------------------------------------------------

(* The broker implements the ledger: its initial state is the ledger's and *)
(* each of its steps is a step of the ledger or leaves it unchanged.       *)
THEOREM Refinement == Spec => ImplementsLedger
<1> USE ConstantsAssumption
<1>1. Init => L!Init
    BY DEF Init, L!Init, Absent
<1>2. Inv /\ [Next]_vars => [L!Next]_(L!ledger)
  <2> SUFFICES ASSUME Inv, [Next]_vars PROVE L!Next \/ UNCHANGED L!ledger
      OBVIOUS
  <2> USE DEF Inv
  <2> DEFINE standing == [i \in Ids |-> store[i].state]
             answer   == [t \in Threads |->
                             IF pc[t] = "mint_build" THEN "MINTED" ELSE result[t]]
  (* Calls. *)
  <2>1. ASSUME NEW t \in Threads, NEW p \in Waiting, NEW i \in Ids \cup {NoId}, NEW d, NEW n,
               Begin(t, p, i, d, n)
        PROVE  L!Ask(t, i)
    <3>1. answer' = [answer EXCEPT ![t] = "PENDING"]
        BY <2>1 DEF Begin, TypeOK, Waiting
    <3> QED BY <2>1, <3>1 DEF Begin, L!Ask, history
  <2>2. ASSUME NEW t \in Threads, Raise(t) PROVE L!Refuse(t)
    <3>1. answer' = [answer EXCEPT ![t] = "RAISED"]
        BY <2>2 DEF Raise, TypeOK
    <3> QED BY <2>2, <3>1 DEF Raise, L!Refuse, locals, history
  <2>3. ASSUME NEW t \in Threads, Call(t) PROVE L!Next
    <3>1. CASE MintCall(t)
        BY <2>1, <3>1 DEF MintCall, MintAdmits, Waiting, L!Next
    <3>2. CASE ConsumeCall(t)
        BY <2>1, <3>2 DEF ConsumeCall, ConsumeAdmits, Waiting, L!Next
    <3>3. CASE PruneCall(t)
        BY <2>1, <3>3 DEF PruneCall, Waiting, L!Next
    <3>4. CASE MintRejected(t) \/ ConsumeRejected(t)
        BY <2>2, <3>4 DEF MintRejected, ConsumeRejected, L!Next
    <3> QED BY <2>3, <3>1, <3>2, <3>3, <3>4 DEF Call
  (* Steps that the ledger does not see. *)
  <2>4. ASSUME NEW t \in Threads, MintLock(t) \/ ConsumeLock(t) \/ PruneLock(t)
        PROVE  UNCHANGED L!ledger
    <3>1. answer' = answer
        BY <2>4 DEF MintLock, ConsumeLock, PruneLock, Acquire, TypeOK
    <3> QED BY <2>4, <3>1 DEF MintLock, ConsumeLock, PruneLock, L!ledger, history
  <2>5. (Tick \/ UNCHANGED vars) => UNCHANGED L!ledger
      BY DEF Tick, vars, locals, history, L!ledger
  <2>6. ASSUME NEW t \in Threads, MintReturn(t) PROVE UNCHANGED L!ledger
    <3>1. CapabilityAccepts(id[t], now[t], Expiry(now[t], ttl[t]), ttl[t])
        BY <2>6, BuildAccepts DEF MintReturn
    <3>2. answer' = answer
        BY <2>6, <3>1 DEF MintReturn, Return, TypeOK
    <3> QED BY <2>6, <3>2 DEF MintReturn, Return, L!ledger, history
  (* Answers. *)
  <2>7. ASSUME NEW t \in Threads, pc[t] \notin {"idle", "mint_build"}, NEW r, Return(t, r)
        PROVE  /\ answer[t] = "PENDING"
               /\ answer' = [answer EXCEPT ![t] = r]
               /\ id' = id
      BY <2>7 DEF FramesOK, Return, TypeOK
  <2>8. ASSUME NEW i \in Ids, NEW s, NEW e, Put(i, s, e)
        PROVE  standing' = [standing EXCEPT ![i] = s]
      BY <2>8 DEF Put, TypeOK
  <2>9. ASSUME NEW t \in Threads, MintCollision(t) PROVE L!Refuse(t)
      BY <2>7, <2>9 DEF MintCollision, L!Refuse, history
  <2>10. ASSUME NEW t \in Threads, MintStore(t) PROVE L!Issue(t, id[t])
    <3>1. id[t] \in Ids /\ standing[id[t]] = "ABSENT"
        BY <2>10, EntryIsFresh DEF MintStore
    <3>2. standing' = [standing EXCEPT ![id[t]] = "ISSUED"]
        BY <2>8, <2>10, <3>1 DEF MintStore
    <3>3. answer[t] = "PENDING" /\ answer' = [answer EXCEPT ![t] = "MINTED"]
        BY <2>10 DEF MintStore, FramesOK, TypeOK
    <3> QED BY <2>10, <3>1, <3>2, <3>3 DEF MintStore, L!Issue, L!Answer, locals
  <2>11. ASSUME NEW t \in Threads, ConsumeNotLive(t) PROVE L!Report(t, id[t])
    <3>1. id[t] \in Ids /\ standing[id[t]] = entry[t].state
        BY <2>11, EntryIsFresh DEF ConsumeNotLive
    <3>2. L!Told(entry[t].state) = Receipt(entry[t].state)
        BY DEF L!Told, Receipt
    <3> QED BY <2>7, <2>11, <3>1, <3>2
            DEF ConsumeNotLive, L!Report, L!Answer, history
  <2>12. ASSUME NEW t \in Threads, ConsumeExpire(t) PROVE L!Lapse(t, id[t])
    <3>1. id[t] \in Ids /\ standing[id[t]] = "ISSUED"
        BY <2>12, EntryIsFresh DEF ConsumeExpire
    <3> QED BY <2>7, <2>8, <2>12, <3>1 DEF ConsumeExpire, L!Lapse, L!Answer
  <2>13. ASSUME NEW t \in Threads, ConsumeWin(t) PROVE L!Spend(t, id[t])
    <3>1. id[t] \in Ids /\ standing[id[t]] = "ISSUED"
        BY <2>13, EntryIsFresh DEF ConsumeWin
    <3> QED BY <2>7, <2>8, <2>13, <3>1 DEF ConsumeWin, L!Spend, L!Answer
  <2>14. ASSUME NEW t \in Threads, PruneDelete(t) PROVE L!Forget(t)
    <3>1. doomed[t] = L!Settled
        BY <2>14 DEF PruneDelete, NothingStaleUnderLock, Finalized, L!Settled
    <3>2. standing' = [i \in Ids |-> IF i \in L!Settled THEN "ABSENT" ELSE standing[i]]
        BY <2>14, <3>1 DEF PruneDelete, Absent
    <3> QED BY <2>7, <2>14, <3>2 DEF PruneDelete, L!Forget, L!Answer, history
  <2>15. ASSUME NEW t \in Threads, id[t] \in Ids,
                \/ L!Issue(t, id[t]) \/ L!Report(t, id[t]) \/ L!Lapse(t, id[t])
                \/ L!Spend(t, id[t])
         PROVE  L!Next
    <3>1. CASE L!Issue(t, id[t])
        BY <2>15, <3>1 DEF L!Next, L!Issue, L!Answer
    <3>2. CASE L!Report(t, id[t])
        BY <2>15, <3>2 DEF L!Next
    <3>3. CASE L!Lapse(t, id[t])
        BY <2>15, <3>3 DEF L!Next, L!Lapse, L!Answer
    <3>4. CASE L!Spend(t, id[t])
        BY <2>15, <3>4 DEF L!Next, L!Spend, L!Answer
    <3> QED BY <2>15, <3>1, <3>2, <3>3, <3>4
  <2>16. ASSUME NEW t \in Threads, Proceed(t) PROVE L!Next \/ UNCHANGED L!ledger
    <3>1. CASE MintCollision(t) \/ PruneDelete(t)
        BY <2>9, <2>14, <3>1 DEF L!Next
    <3>2. CASE MintStore(t) \/ ConsumeNotLive(t) \/ ConsumeExpire(t) \/ ConsumeWin(t)
      <4>1. id[t] \in Ids
          BY <3>2, EntryIsFresh DEF MintStore, ConsumeNotLive, ConsumeExpire, ConsumeWin
      <4> QED BY <2>10, <2>11, <2>12, <2>13, <2>15, <3>2, <4>1
    <3> QED BY <2>4, <2>6, <2>16, <3>1, <3>2 DEF Proceed
  <2> QED BY <2>3, <2>5, <2>16 DEF Next, AllReturned
<1> QED BY <1>1, <1>2, Invariance, PTL DEF Spec, ImplementsLedger, L!Spec

-----------------------------------------------------------------------------
(* What the ledger promises, and with it what the broker does.             *)

(* The ledger's variables, as the broker has them.                         *)
standing == [i \in Ids |-> store[i].state]
answer   == [t \in Threads |-> IF pc[t] = "mint_build" THEN "MINTED" ELSE result[t]]

LedgerInv ==
    /\ standing \in [Ids -> L!Standings]
    /\ minted \in [Ids -> Nat] /\ won \in [Ids -> Nat] /\ lapsed \in [Ids -> Nat]
    /\ L!Conservation

LEMMA LedgerInvariance == L!Spec => []LedgerInv
<1>1. L!Init => LedgerInv
  <2> SUFFICES ASSUME L!Init PROVE LedgerInv
      OBVIOUS
  <2>1. /\ standing = [i \in Ids |-> "ABSENT"]
        /\ minted = [i \in Ids |-> 0] /\ won = [i \in Ids |-> 0] /\ lapsed = [i \in Ids |-> 0]
      BY DEF L!Init, standing
  <2>2. L!Conservation
      BY <2>1 DEF L!Conservation, standing
  <2> HIDE DEF standing
  <2> QED BY <2>1, <2>2 DEF LedgerInv, L!Standings
<1>2. LedgerInv /\ [L!Next]_(L!ledger) => LedgerInv'
  <2> SUFFICES ASSUME LedgerInv, [L!Next]_(L!ledger) PROVE LedgerInv'
      OBVIOUS
  <2> DEFINE Live(i)     == IF standing[i] = "ISSUED" THEN 1 ELSE 0
             Balanced(i) == minted[i] = won[i] + lapsed[i] + Live(i)
             Typed       == /\ standing \in [Ids -> L!Standings] /\ minted \in [Ids -> Nat]
                            /\ won \in [Ids -> Nat] /\ lapsed \in [Ids -> Nat]
  <2>1. L!Conservation <=> \A i \in Ids : Balanced(i)
      BY DEF L!Conservation, standing
  <2>2. L!Conservation' <=> \A i \in Ids : Balanced(i)'
      BY DEF L!Conservation, standing
  <2>3. ASSUME NEW t \in Threads, NEW i \in Ids, NEW s \in L!Standings,
               standing' = [standing EXCEPT ![i] = s],
               \/ standing[i] # "ISSUED" /\ s = "ISSUED"
                  /\ minted' = [minted EXCEPT ![i] = @ + 1] /\ UNCHANGED <<won, lapsed>>
               \/ standing[i] = "ISSUED" /\ s # "ISSUED"
                  /\ won' = [won EXCEPT ![i] = @ + 1] /\ UNCHANGED <<minted, lapsed>>
               \/ standing[i] = "ISSUED" /\ s # "ISSUED"
                  /\ lapsed' = [lapsed EXCEPT ![i] = @ + 1] /\ UNCHANGED <<minted, won>>
        PROVE  Typed' /\ \A j \in Ids : Balanced(j)'
    <3> HIDE DEF standing
    <3>1. Typed /\ \A j \in Ids : Balanced(j)
        BY <2>1 DEF LedgerInv
    <3>2. Typed'
        BY <2>3, <3>1
    <3>3. \A j \in Ids : Balanced(j)'
        BY <2>3, <3>1
    <3> QED BY <3>2, <3>3
  <2>4. ASSUME NEW t \in Threads, NEW i \in Ids, L!Issue(t, i) \/ L!Spend(t, i) \/ L!Lapse(t, i)
        PROVE  Typed' /\ \A j \in Ids : Balanced(j)'
    <3>1. {"ISSUED", "CONSUMED", "EXPIRED"} \subseteq L!Standings
        BY DEF L!Standings
    <3>2. CASE L!Issue(t, i)
      <4>1. /\ standing[i] # "ISSUED" /\ standing' = [standing EXCEPT ![i] = "ISSUED"]
            /\ minted' = [minted EXCEPT ![i] = @ + 1] /\ UNCHANGED <<won, lapsed>>
          BY <3>2 DEF L!Issue, standing
      <4> HIDE DEF standing, Typed, Balanced
      <4> QED BY <2>3, <3>1, <4>1
    <3>3. CASE L!Spend(t, i)
      <4>1. /\ standing[i] = "ISSUED" /\ standing' = [standing EXCEPT ![i] = "CONSUMED"]
            /\ won' = [won EXCEPT ![i] = @ + 1] /\ UNCHANGED <<minted, lapsed>>
          BY <3>3 DEF L!Spend, standing
      <4> HIDE DEF standing, Typed, Balanced
      <4> QED BY <2>3, <3>1, <4>1
    <3>4. CASE L!Lapse(t, i)
      <4>1. /\ standing[i] = "ISSUED" /\ standing' = [standing EXCEPT ![i] = "EXPIRED"]
            /\ lapsed' = [lapsed EXCEPT ![i] = @ + 1] /\ UNCHANGED <<minted, won>>
          BY <3>4 DEF L!Lapse, standing
      <4> HIDE DEF standing, Typed, Balanced
      <4> QED BY <2>3, <3>1, <4>1
    <3> QED BY <2>4, <3>2, <3>3, <3>4
  <2>5. ASSUME UNCHANGED <<standing, minted, won, lapsed>>
        PROVE  Typed' /\ \A j \in Ids : Balanced(j)'
    <3> HIDE DEF standing
    <3> QED BY <2>1, <2>5 DEF LedgerInv
  <2>6. ASSUME NEW t \in Threads, L!Forget(t)
        PROVE  Typed' /\ \A j \in Ids : Balanced(j)'
    <3>1. /\ standing' = [i \in Ids |-> IF standing[i] \in {"CONSUMED", "EXPIRED"}
                                        THEN "ABSENT" ELSE standing[i]]
          /\ UNCHANGED <<minted, won, lapsed>>
        BY <2>6 DEF L!Forget, L!Settled, standing
    <3> HIDE DEF standing
    <3> QED BY <2>1, <3>1 DEF LedgerInv, L!Standings
  <2>7. Typed' /\ \A j \in Ids : Balanced(j)'
    <3>1. ASSUME NEW t \in Threads, NEW i, L!Refuse(t) \/ L!Ask(t, i) \/ L!Report(t, i)
          PROVE  UNCHANGED <<standing, minted, won, lapsed>>
        BY <3>1 DEF L!Refuse, L!Ask, L!Report, standing
    <3>2. UNCHANGED L!ledger => UNCHANGED <<standing, minted, won, lapsed>>
        BY DEF L!ledger, standing
    <3> HIDE DEF Typed, Balanced
    <3> QED BY <2>4, <2>5, <2>6, <3>1, <3>2 DEF L!Next
  <2> QED BY <2>2, <2>7 DEF LedgerInv
<1> QED BY <1>1, <1>2, PTL DEF L!Spec

(* The ledger balances, of itself: whoever asks for what, each minting of  *)
(* an id is consumed once, or recorded expired once, or still live.        *)
THEOREM LedgerBalances == L!Spec => [](L!Conservation)
<1>1. LedgerInv => L!Conservation
    BY DEF LedgerInv
<1> QED BY <1>1, LedgerInvariance, PTL

(* A win is recorded exactly when one caller, the one that asked, is told. *)
THEOREM LedgerTells == L!Spec => L!EachWinIsTold
<1> DEFINE Told(t) == /\ answer[t] = "PENDING" /\ answer'[t] = "CONSUMED"
                      /\ \A u \in Threads \ {t} : answer'[u] = answer[u]
           Recorded == \A i \in Ids : won'[i] # won[i] => \E t \in Threads : id[t] = i /\ Told(t)
           Win(t) == /\ Told(t) /\ standing[id[t]] = "ISSUED"
                     /\ won' = [won EXCEPT ![id[t]] = @ + 1]
           Winning == \A t \in Threads :
                         answer[t] = "PENDING" /\ answer'[t] = "CONSUMED" => Win(t)
<1>1. ASSUME LedgerInv, [L!Next]_(L!ledger) PROVE Recorded /\ Winning
  <2>1. /\ DOMAIN answer = Threads /\ DOMAIN answer' = Threads
        /\ standing \in [Ids -> L!Standings]
      BY <1>1 DEF answer, LedgerInv
  <2>2. ASSUME NEW t \in Threads, NEW i \in Ids, L!Spend(t, i) PROVE Recorded /\ Winning
    <3>1. /\ id[t] = i /\ answer[t] = "PENDING" /\ answer' = [answer EXCEPT ![t] = "CONSUMED"]
          /\ standing[i] = "ISSUED" /\ won' = [won EXCEPT ![i] = @ + 1]
        BY <2>2 DEF L!Spend, L!Answer, answer, standing
    <3> HIDE DEF answer, standing
    <3>2. Told(t)
        BY <2>1, <3>1
    <3>3. Recorded
        BY <3>1, <3>2
    <3>4. \A u \in Threads : answer[u] = "PENDING" /\ answer'[u] = "CONSUMED" => u = t
        BY <3>2
    <3> QED BY <3>1, <3>2, <3>3, <3>4
  <2>3. ASSUME won' = won, \A t \in Threads : answer'[t] \in {answer[t]} \cup
                               {"PENDING", "RAISED", "MINTED", "EXPIRED", "UNKNOWN",
                                "ALREADY_CONSUMED", "PRUNED"}
        PROVE  Recorded /\ Winning
    <3> HIDE DEF answer, standing
    <3> QED BY <2>3
  <2>4. ASSUME NEW t \in Threads, NEW a, answer' = [answer EXCEPT ![t] = a], won' = won,
               a \in {"PENDING", "RAISED", "MINTED", "EXPIRED", "UNKNOWN",
                      "ALREADY_CONSUMED", "PRUNED"}
        PROVE  Recorded /\ Winning
    <3> HIDE DEF answer, standing, Recorded, Winning
    <3>1. \A u \in Threads : answer'[u] \in {answer[u], a}
        BY <2>1, <2>4
    <3> QED BY <2>3, <2>4, <3>1
  <2> HIDE DEF Recorded, Winning
  <2>5. ASSUME NEW t \in Threads, NEW i, L!Ask(t, i) \/ L!Refuse(t) \/ L!Forget(t)
        PROVE  Recorded /\ Winning
    <3>1. /\ won' = won
          /\ \E a \in {"PENDING", "RAISED", "PRUNED"} : answer' = [answer EXCEPT ![t] = a]
        BY <2>5 DEF L!Ask, L!Refuse, L!Forget, L!Answer, answer
    <3> HIDE DEF answer
    <3> QED BY <2>4, <3>1
  <2>6. ASSUME NEW t \in Threads, NEW i \in Ids, L!Issue(t, i) \/ L!Lapse(t, i)
        PROVE  Recorded /\ Winning
    <3>1. /\ won' = won
          /\ \E a \in {"MINTED", "EXPIRED"} : answer' = [answer EXCEPT ![t] = a]
        BY <2>6 DEF L!Issue, L!Lapse, L!Answer, answer
    <3> HIDE DEF answer
    <3> QED BY <2>4, <3>1
  <2>7. ASSUME NEW t \in Threads, NEW i \in Ids, L!Report(t, i) PROVE Recorded /\ Winning
    <3> DEFINE a == L!Told(standing[i])
    <3>1. /\ won' = won /\ standing[i] # "ISSUED"
          /\ answer' = [answer EXCEPT ![t] = a]
        BY <2>7 DEF L!Report, L!Answer, answer, standing
    <3>2. standing[i] \in {"ABSENT", "CONSUMED", "EXPIRED"}
        BY <2>1, <3>1 DEF L!Standings
    <3>3. a \in {"UNKNOWN", "ALREADY_CONSUMED", "EXPIRED"}
      <4> HIDE DEF standing
      <4> QED BY <3>2 DEF L!Told
    <3> HIDE DEF answer, a
    <3> QED BY <2>4, <3>1, <3>3
  <2>8. ASSUME UNCHANGED L!ledger PROVE Recorded /\ Winning
    <3>1. won' = won /\ answer' = answer
        BY <2>8 DEF L!ledger, answer
    <3> HIDE DEF answer
    <3> QED BY <2>3, <3>1
  <2> QED BY <1>1, <2>2, <2>5, <2>6, <2>7, <2>8 DEF L!Next
<1>2. ASSUME Recorded, Winning PROVE L!TellsWins
  <2>1. \A t \in Threads : Told(t) <=> L!IsTold(t, "CONSUMED")
      BY DEF L!IsTold, answer
  <2> HIDE DEF Told
  <2> QED BY <1>2, <2>1 DEF L!TellsWins, answer, standing
<1>3. LedgerInv /\ [L!Next]_(L!ledger) => [L!TellsWins]_(L!ledger)
    BY <1>1, <1>2
<1> QED BY <1>3, LedgerInvariance, PTL DEF L!Spec, L!EachWinIsTold

(* Whatever the threads of a process do, each win is told to the one call  *)
(* that won it, and no call is told of a win that is not its own.          *)
THEOREM WinsAreTold == Spec => L!EachWinIsTold
BY Refinement, LedgerTells, PTL DEF ImplementsLedger

(* And the histories balance because the ledger's do.                      *)
THEOREM ConservationHolds == Spec => [](L!Conservation)
BY Refinement, LedgerBalances, PTL DEF ImplementsLedger

-----------------------------------------------------------------------------
(* Ids that come back, and entries that stay.                              *)

(* An id may be minted again (see MintedIdsAreUnique), but never while it  *)
(* is live and never on top of an unsettled minting: all its earlier ones  *)
(* have been consumed or recorded expired.                                 *)
RecycledIdsWereSettled ==
    [][\A i \in Ids : minted'[i] # minted[i] => /\ minted[i] = won[i] + lapsed[i]
                                                /\ store[i].state = "ABSENT"]_vars

(* A live entry is taken out of that state, or has its expiry changed, by  *)
(* nobody but a consume call for its id that holds the lock: prune leaves  *)
(* it where it is, however late, and a store of unconsumed ids only grows. *)
OnlyConsumeEndsIt ==
    [][\A i \in Ids :
          store[i].state = "ISSUED" /\ store'[i] # store[i]
             => /\ \E t \in Threads : lock = t /\ pc[t] = "consume_locked" /\ id[t] = i
                /\ store'[i].state \in {"CONSUMED", "EXPIRED"}
                /\ store'[i].expires = store[i].expires]_vars

(* What a step does to one id.                                             *)
LEMMA OneId ==
    ASSUME Inv, [Next]_vars, NEW i \in Ids
    PROVE  /\ minted'[i] # minted[i] => store[i].state = "ABSENT"
           /\ store[i].state = "ISSUED" /\ store'[i] # store[i]
                => /\ \E t \in Threads : lock = t /\ pc[t] = "consume_locked" /\ id[t] = i
                   /\ store'[i].state \in {"CONSUMED", "EXPIRED"}
                   /\ store'[i].expires = store[i].expires
<1> DEFINE Only == /\ minted'[i] # minted[i] => store[i].state = "ABSENT"
                   /\ store[i].state = "ISSUED" /\ store'[i] # store[i]
                        => /\ \E t \in Threads : /\ lock = t /\ pc[t] = "consume_locked"
                                                 /\ id[t] = i
                           /\ store'[i].state \in {"CONSUMED", "EXPIRED"}
                           /\ store'[i].expires = store[i].expires
<1> USE DEF Inv
<1>1. ASSUME NEW t \in Threads, Quiet(t) PROVE Only
    BY <1>1, QuietSteps
<1>2. ASSUME NEW t \in Threads, MintStore(t) PROVE Only
    BY <1>2, EntryIsFresh DEF MintStore, Put, TypeOK
<1>3. ASSUME NEW t \in Threads, ConsumeExpire(t) \/ ConsumeWin(t) PROVE Only
  <2>1. /\ id[t] \in Ids /\ entry[t] = store[id[t]] /\ pc[t] = "consume_locked" /\ lock = t
        /\ minted' = minted
      BY <1>3, EntryIsFresh DEF ConsumeExpire, ConsumeWin, NothingStaleUnderLock, Critical
  <2>2. PICK s \in {"CONSUMED", "EXPIRED"} :
            store' = [store EXCEPT ![id[t]] = [state |-> s, expires |-> store[id[t]].expires]]
      BY <1>3, <2>1 DEF ConsumeExpire, ConsumeWin, Put
  <2> QED BY <2>1, <2>2 DEF TypeOK
<1>4. ASSUME NEW t \in Threads, PruneDelete(t) PROVE Only
  <2>1. doomed[t] = Finalized
      BY <1>4 DEF PruneDelete, NothingStaleUnderLock
  <2> QED BY <1>4, <2>1 DEF PruneDelete, Finalized, Absent, history
<1>5. CASE Tick
    BY <1>5 DEF Tick, history
<1>6. CASE UNCHANGED vars
    BY <1>6 DEF vars, history
<1> QED BY <1>1, <1>2, <1>3, <1>4, <1>5, <1>6 DEF Next, Proceed, Quiet, AllReturned

(* What an id was minted for is settled before it is minted again.         *)
THEOREM RecycledIds == Spec => RecycledIdsWereSettled
<1>1. ASSUME Inv, [Next]_vars, NEW i \in Ids, minted'[i] # minted[i]
      PROVE  minted[i] = won[i] + lapsed[i] /\ store[i].state = "ABSENT"
  <2>1. store[i].state = "ABSENT"
      BY <1>1, OneId
  <2>2. minted[i] = won[i] + lapsed[i] + 0
      BY <1>1, <2>1 DEF Inv, EachMintSettlesOnce
  <2> QED BY <1>1, <2>1, <2>2 DEF Inv, TypeOK
<1>2. Inv /\ [Next]_vars =>
         [\A i \in Ids : minted'[i] # minted[i] => /\ minted[i] = won[i] + lapsed[i]
                                                   /\ store[i].state = "ABSENT"]_vars
    BY <1>1
<1> QED BY <1>2, Invariance, PTL DEF Spec, RecycledIdsWereSettled

(* A live id stays in the store until a consume call for it settles it.    *)
THEOREM LiveEntriesStay == Spec => OnlyConsumeEndsIt
<1>1. Inv /\ [Next]_vars =>
         [\A i \in Ids :
             store[i].state = "ISSUED" /\ store'[i] # store[i]
                => /\ \E t \in Threads : lock = t /\ pc[t] = "consume_locked" /\ id[t] = i
                   /\ store'[i].state \in {"CONSUMED", "EXPIRED"}
                   /\ store'[i].expires = store[i].expires]_vars
    BY OneId
<1> QED BY <1>1, Invariance, PTL DEF Spec, OnlyConsumeEndsIt
=============================================================================
