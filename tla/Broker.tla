------------------------------- MODULE Broker -------------------------------
(***************************************************************************)
(* moiras/broker.py: the in-memory, thread-safe broker of synthetic        *)
(* single-use capabilities, as the threads that call it see it.            *)
(*                                                                         *)
(* A call is split where another thread can run in between: the clock is   *)
(* read BEFORE the lock is asked for, the entry is read when the lock is   *)
(* taken, the store is written and the lock released later, and mint still *)
(* has to build the capability after that.                                 *)
(*                                                                         *)
(* Time is an integer number of ticks of the monotonic clock, which any    *)
(* thread reads and nobody sets back.                                      *)
(***************************************************************************)
EXTENDS Integers

CONSTANTS
    Threads,     \* the threads that share one broker
    Ids,         \* ids the id factory produces and validate_id accepts
    BadId,       \* anything validate_id refuses
    NoId,        \* a thread that has asked about no id
    NoThread,    \* the holder of a free lock
    MaxTtl,      \* _MAX_TTL_S
    AbsorbFrom,  \* clock readings so large that adding a ttl rounds back to
                 \* the reading itself (a ttl below half a float spacing)
    MaxClock,    \* bound: the clock stops here
    MaxCalls     \* bound: calls each thread makes

BadReading == -1 \* a clock that returns no finite number >= 0

ASSUME ConstantsAssumption ==
    /\ MaxTtl \in Nat \ {0}
    /\ AbsorbFrom \in Nat
    /\ MaxClock \in Nat
    /\ MaxCalls \in Nat
    /\ NoThread \notin Threads
    /\ BadId \notin Ids
    /\ NoId \notin Ids

VARIABLES
    clock,   \* the monotonic clock
    store,   \* _store: id -> state and expires_at_monotonic, or Absent
    lock,    \* holder of _lock
    pc,      \* where each thread is in the call it makes
    id,      \* its capability_id
    ttl,     \* its ttl (mint)
    now,     \* its clock reading
    entry,   \* the store's entry for its id, as read under the lock
    doomed,  \* prune's list of finalized ids
    result,  \* what its last call returned; "PENDING" while it runs
    calls,   \* calls it has begun
    issued,  \* history: the reading at which each id was last minted
    minted,  \* history: how often each id entered the store
    won,     \* history: how often each id was recorded CONSUMED
    lapsed   \* history: how often each id was recorded EXPIRED

locals  == <<id, ttl, now, entry, doomed>>
history == <<issued, minted, won, lapsed>>
vars    == <<clock, store, lock, pc, locals, result, calls, history>>

-----------------------------------------------------------------------------
(* The store.                                                              *)

States  == {"ABSENT", "ISSUED", "CONSUMED", "EXPIRED"}
Entries == [state : States, expires : Nat]
Absent  == [state |-> "ABSENT", expires |-> 0]

(* Mutant: prune takes whatever the store holds, live ids included.        *)
FinalizedOrLive == {i \in Ids : store[i].state # "ABSENT"}

Finalized == {i \in Ids : store[i].state \in {"CONSUMED", "EXPIRED"}}

Put(i, s, e) == store' = [store EXCEPT ![i] = [state |-> s, expires |-> e]]

(* now + ttl in floating point.  It cannot overflow: a reading near the    *)
(* largest float absorbs every ttl of at most MaxTtl.                      *)
Expiry(n, d) == IF n >= AbsorbFrom THEN n ELSE n + d

TtlAccepted(d) == 0 < d /\ d <= MaxTtl

(* Mutant: a reading below zero passes.                                    *)
AnyReading(n) == TRUE

ReadingAccepted(n) == n >= 0

(* Mutant: mint trusts its caller's ttl.                                   *)
MintAdmitsAnyTtl(candidate, d, i, n) ==
    candidate /\ i \in Ids /\ ReadingAccepted(n) /\ Expiry(n, d) > n

(* Mutant: whether the capability would live at all is not asked.          *)
MintAdmitsDead(candidate, d, i, n) ==
    candidate /\ TtlAccepted(d) /\ i \in Ids /\ ReadingAccepted(n)

(* Everything mint checks before it asks for the lock.                     *)
MintAdmits(candidate, d, i, n) ==
    /\ candidate
    /\ TtlAccepted(d)
    /\ i \in Ids
    /\ ReadingAccepted(n)
    /\ Expiry(n, d) > n

(* Everything SyntheticCapability.__post_init__ checks, after the store    *)
(* has been written.                                                       *)
CapabilityAccepts(i, since, expires, d) ==
    /\ i \in Ids
    /\ ReadingAccepted(since) /\ ReadingAccepted(expires)
    /\ TtlAccepted(d)
    /\ expires = Expiry(since, d)

-----------------------------------------------------------------------------
(* The states of a call.                                                   *)

Waiting  == {"mint_wait", "consume_wait", "prune_wait"}
Critical == {"mint_locked", "consume_locked", "prune_locked"}
Places   == {"idle", "mint_build"} \cup Waiting \cup Critical

Results == {"NONE", "PENDING", "RAISED", "MINTED", "PRUNED",
            "CONSUMED", "EXPIRED", "ALREADY_CONSUMED", "UNKNOWN"}

Init ==
    /\ clock = 0
    /\ store = [i \in Ids |-> Absent]
    /\ lock = NoThread
    /\ pc = [t \in Threads |-> "idle"]
    /\ id = [t \in Threads |-> NoId]
    /\ ttl = [t \in Threads |-> 0]
    /\ now = [t \in Threads |-> 0]
    /\ entry = [t \in Threads |-> Absent]
    /\ doomed = [t \in Threads |-> {}]
    /\ result = [t \in Threads |-> "NONE"]
    /\ calls = [t \in Threads |-> 0]
    /\ issued = [i \in Ids |-> 0]
    /\ minted = [i \in Ids |-> 0]
    /\ won = [i \in Ids |-> 0]
    /\ lapsed = [i \in Ids |-> 0]

(* Thread t, out of any call, begins one and waits at place p.             *)
Begin(t, p, i, d, n) ==
    /\ pc[t] = "idle"
    /\ calls[t] < MaxCalls
    /\ pc' = [pc EXCEPT ![t] = p]
    /\ id' = [id EXCEPT ![t] = i]
    /\ ttl' = [ttl EXCEPT ![t] = d]
    /\ now' = [now EXCEPT ![t] = n]
    /\ calls' = [calls EXCEPT ![t] = @ + 1]
    /\ result' = [result EXCEPT ![t] = "PENDING"]
    /\ UNCHANGED <<clock, store, lock, entry, doomed, history>>

(* A call that raises before it has touched anything shared.               *)
Raise(t) ==
    /\ pc[t] = "idle"
    /\ calls[t] < MaxCalls
    /\ calls' = [calls EXCEPT ![t] = @ + 1]
    /\ result' = [result EXCEPT ![t] = "RAISED"]
    /\ UNCHANGED <<clock, store, lock, pc, locals, history>>

(* Mutants: the lock is entered while another thread holds it; the lock is *)
(* tested and not taken.                                                   *)
Barge(t, from, to) ==
    pc[t] = from /\ lock' = t /\ pc' = [pc EXCEPT ![t] = to]

PeekOnly(t, from, to) ==
    pc[t] = from /\ lock = NoThread /\ lock' = lock /\ pc' = [pc EXCEPT ![t] = to]

(* `with self._lock:` taken, and released on the way out, by return or by  *)
(* an exception.                                                           *)
Acquire(t, from, to) ==
    /\ pc[t] = from
    /\ lock = NoThread
    /\ lock' = t
    /\ pc' = [pc EXCEPT ![t] = to]

Release(t) == lock' = NoThread

(* The call is over: its locals are gone, r is what it returned.           *)
Return(t, r) ==
    /\ pc' = [pc EXCEPT ![t] = "idle"]
    /\ result' = [result EXCEPT ![t] = r]
    /\ ttl' = [ttl EXCEPT ![t] = 0]
    /\ now' = [now EXCEPT ![t] = 0]
    /\ entry' = [entry EXCEPT ![t] = Absent]
    /\ doomed' = [doomed EXCEPT ![t] = {}]
    /\ UNCHANGED <<id, clock, calls>>

-----------------------------------------------------------------------------
(* mint                                                                    *)

(* What a caller, its id factory and the clock can hand to a call.         *)
Candidates == BOOLEAN              \* is the decision a shadow-mode candidate?
Ttls       == 0..(MaxTtl + 1)      \* the two ends stand for every refused ttl
GivenIds   == Ids \cup {BadId}
Readings   == {clock, BadReading}

MintCall(t) ==
    \E candidate \in Candidates, d \in Ttls, i \in GivenIds, n \in Readings :
        /\ MintAdmits(candidate, d, i, n)
        /\ Begin(t, "mint_wait", i, d, n)

MintRejected(t) ==
    \E candidate \in Candidates, d \in Ttls, i \in GivenIds, n \in Readings :
        /\ ~MintAdmits(candidate, d, i, n)
        /\ Raise(t)

MintLock(t) ==
    /\ Acquire(t, "mint_wait", "mint_locked")
    /\ entry' = [entry EXCEPT ![t] = store[id[t]]]
    /\ UNCHANGED <<clock, store, id, ttl, now, doomed, result, calls, history>>

(* Mutant: the exception leaves the lock held.                             *)
MintCollisionKeepsLock(t) ==
    /\ pc[t] = "mint_locked"
    /\ entry[t].state # "ABSENT"
    /\ Return(t, "RAISED")
    /\ UNCHANGED <<store, lock, history>>

MintCollision(t) ==
    /\ pc[t] = "mint_locked"
    /\ entry[t].state # "ABSENT"
    /\ Release(t)
    /\ Return(t, "RAISED")
    /\ UNCHANGED <<store, history>>

MintStore(t) ==
    /\ pc[t] = "mint_locked"
    /\ entry[t].state = "ABSENT"
    /\ Put(id[t], "ISSUED", Expiry(now[t], ttl[t]))
    /\ issued' = [issued EXCEPT ![id[t]] = now[t]]
    /\ minted' = [minted EXCEPT ![id[t]] = @ + 1]
    /\ Release(t)
    /\ pc' = [pc EXCEPT ![t] = "mint_build"]
    /\ UNCHANGED <<clock, locals, result, calls, won, lapsed>>

(* The capability is built outside the lock; were it refused, its entry    *)
(* would stay behind in the store.                                         *)
MintReturn(t) ==
    /\ pc[t] = "mint_build"
    /\ Return(t, IF CapabilityAccepts(id[t], now[t], Expiry(now[t], ttl[t]), ttl[t])
                 THEN "MINTED" ELSE "RAISED")
    /\ UNCHANGED <<store, lock, history>>

-----------------------------------------------------------------------------
(* consume                                                                 *)

ConsumeAdmits(i, n) == i \in Ids /\ ReadingAccepted(n)

ConsumeCall(t) ==
    \E i \in GivenIds, n \in Readings :
        /\ ConsumeAdmits(i, n)
        /\ Begin(t, "consume_wait", i, 0, n)

ConsumeRejected(t) ==
    \E i \in GivenIds, n \in Readings :
        /\ ~ConsumeAdmits(i, n)
        /\ Raise(t)

ConsumeLock(t) ==
    /\ Acquire(t, "consume_wait", "consume_locked")
    /\ entry' = [entry EXCEPT ![t] = store[id[t]]]
    /\ UNCHANGED <<clock, store, id, ttl, now, doomed, result, calls, history>>

(* The id is not live: the store is left alone.                            *)
Receipt(s) == CASE s = "ABSENT"   -> "UNKNOWN"
                [] s = "CONSUMED" -> "ALREADY_CONSUMED"
                [] s = "EXPIRED"  -> "EXPIRED"

ConsumeNotLive(t) ==
    /\ pc[t] = "consume_locked"
    /\ entry[t].state # "ISSUED"
    /\ Release(t)
    /\ Return(t, Receipt(entry[t].state))
    /\ UNCHANGED <<store, history>>

(* Mutant: the boundary moved by one tick.                                 *)
DueEarly(n, e) == n + 1 >= e.expires

Due(n, e) == n >= e.expires

ConsumeExpire(t) ==
    /\ pc[t] = "consume_locked"
    /\ entry[t].state = "ISSUED"
    /\ Due(now[t], entry[t])
    /\ Put(id[t], "EXPIRED", entry[t].expires)
    /\ lapsed' = [lapsed EXCEPT ![id[t]] = @ + 1]
    /\ Release(t)
    /\ Return(t, "EXPIRED")
    /\ UNCHANGED <<issued, minted, won>>

ConsumeWin(t) ==
    /\ pc[t] = "consume_locked"
    /\ entry[t].state = "ISSUED"
    /\ ~Due(now[t], entry[t])
    /\ Put(id[t], "CONSUMED", entry[t].expires)
    /\ won' = [won EXCEPT ![id[t]] = @ + 1]
    /\ Release(t)
    /\ Return(t, "CONSUMED")
    /\ UNCHANGED <<issued, minted, lapsed>>

-----------------------------------------------------------------------------
(* prune                                                                   *)

PruneCall(t) == Begin(t, "prune_wait", NoId, 0, 0)

PruneLock(t) ==
    /\ Acquire(t, "prune_wait", "prune_locked")
    /\ doomed' = [doomed EXCEPT ![t] = Finalized]
    /\ UNCHANGED <<clock, store, id, ttl, now, entry, result, calls, history>>

PruneDelete(t) ==
    /\ pc[t] = "prune_locked"
    /\ store' = [i \in Ids |-> IF i \in doomed[t] THEN Absent ELSE store[i]]
    /\ Release(t)
    /\ Return(t, "PRUNED")
    /\ UNCHANGED history

-----------------------------------------------------------------------------

(* Time passes between any two steps of any thread.                        *)
Tick ==
    /\ clock < MaxClock
    /\ clock' = clock + 1
    /\ UNCHANGED <<store, lock, pc, locals, result, calls, history>>

(* Every thread is out of the broker, and may stay out: the only way the   *)
(* system stops.                                                           *)
AllReturned ==
    /\ \A t \in Threads : pc[t] = "idle"
    /\ UNCHANGED vars

Call(t) ==
    \/ MintCall(t) \/ MintRejected(t)
    \/ ConsumeCall(t) \/ ConsumeRejected(t)
    \/ PruneCall(t)

Proceed(t) ==
    \/ MintLock(t) \/ MintCollision(t) \/ MintStore(t) \/ MintReturn(t)
    \/ ConsumeLock(t) \/ ConsumeNotLive(t) \/ ConsumeExpire(t) \/ ConsumeWin(t)
    \/ PruneLock(t) \/ PruneDelete(t)

Next ==
    \/ \E t \in Threads : Call(t) \/ Proceed(t)
    \/ Tick
    \/ AllReturned

Spec == Init /\ [][Next]_vars

(* A thread inside a call keeps running, and one that waits for a lock     *)
(* that stays free gets it.  No thread has to begin a call, and nothing is *)
(* assumed of a lock that others keep taking.                              *)
FairSpec == Spec /\ \A t \in Threads : WF_vars(Proceed(t))

-----------------------------------------------------------------------------
(* Properties.                                                             *)

(* Every variable stays in its type.                                       *)
TypeOK ==
    /\ clock \in Nat
    /\ store \in [Ids -> Entries]
    /\ lock \in Threads \cup {NoThread}
    /\ pc \in [Threads -> Places]
    /\ id \in [Threads -> Ids \cup {NoId}]
    /\ ttl \in [Threads -> 0..MaxTtl]
    /\ now \in [Threads -> Nat]
    /\ entry \in [Threads -> Entries]
    /\ doomed \in [Threads -> SUBSET Ids]
    /\ result \in [Threads -> Results]
    /\ calls \in [Threads -> Nat]
    /\ issued \in [Ids -> Nat]
    /\ minted \in [Ids -> Nat]
    /\ won \in [Ids -> Nat]
    /\ lapsed \in [Ids -> Nat]

(* A minted capability is consumed at most once, or recorded expired at    *)
(* most once, never both, and never lost while live: however consume, mint *)
(* and prune of different threads interleave, the ids' histories balance.  *)
EachMintSettlesOnce ==
    \A i \in Ids :
        minted[i] = won[i] + lapsed[i] + (IF store[i].state = "ISSUED" THEN 1 ELSE 0)

(* Nothing is recorded EXPIRED before its time, although the reading that  *)
(* decides it was taken before the lock was.                               *)
ExpiredNeverEarly ==
    \A i \in Ids : store[i].state = "EXPIRED" => clock >= store[i].expires

(* Nothing is recorded EXPIRED at the instant of its own issue: although a *)
(* large reading absorbs the ttl, whoever asks while the clock still shows *)
(* what it showed to mint finds the capability live or consumed.           *)
NoneExpiresAtBirth ==
    \A i \in Ids : store[i].state = "EXPIRED" => issued[i] < clock

(* A thread inside `with self._lock` decides on an entry that is still the *)
(* store's, and prune deletes ids that are still finalized: nothing read   *)
(* under the lock is stale when it is used, and whoever is inside holds    *)
(* the lock.                                                               *)
NothingStaleUnderLock ==
    \A t \in Threads :
        /\ pc[t] \in Critical <=> lock = t
        /\ pc[t] \in {"mint_locked", "consume_locked"} => entry[t] = store[id[t]]
        /\ pc[t] = "prune_locked" => doomed[t] = Finalized

(* What the calls under way rest on: they carry what their own checks let  *)
(* through, their reading is of the past, and no thread that is out of the *)
(* broker waits for an answer.                                             *)
FramesOK ==
    \A t \in Threads :
        /\ pc[t] \in {"mint_wait", "mint_locked", "mint_build"}
             => MintAdmits(TRUE, ttl[t], id[t], now[t])
        /\ pc[t] \in {"consume_wait", "consume_locked"} => id[t] \in Ids
        /\ pc[t] = "idle" <=> result[t] # "PENDING"
        /\ now[t] <= clock

(* What is in the store was to expire after it was issued.                 *)
LivesAfterIssue ==
    \A i \in Ids : store[i].state # "ABSENT" => issued[i] < store[i].expires

(* The inductive invariant of the proofs.                                  *)
Inv ==
    /\ TypeOK
    /\ NothingStaleUnderLock
    /\ FramesOK
    /\ ExpiredNeverEarly
    /\ LivesAfterIssue
    /\ EachMintSettlesOnce

(* A mint that has put its id in the store returns the capability: the     *)
(* constructor, which runs after the lock is released, never refuses what  *)
(* mint's own checks let through and leaves a live id nobody was given.    *)
StoredMintsAreReturned ==
    [][\A t \in Threads :
          pc[t] = "mint_build" /\ pc'[t] = "idle" => result'[t] = "MINTED"]_vars

(* Every call answers with the truth about its id at one instant, and that *)
(* instant is when the store changes.                                      *)
L == INSTANCE Ledger WITH
        Callers  <- Threads,
        standing <- [i \in Ids |-> store[i].state],
        asked    <- id,
        answer   <- [t \in Threads |->
                        IF pc[t] = "mint_build" THEN "MINTED" ELSE result[t]]

ImplementsLedger == L!Spec

(* Every call of mint, consume or prune returns: no path, the collision    *)
(* that raises inside the lock included, leaves a thread waiting for good. *)
EveryCallReturns == \A t \in Threads : pc[t] # "idle" ~> pc[t] = "idle"

-----------------------------------------------------------------------------
(* What the documentation says and the code does not do.                   *)

(* "any ambiguity about eligibility, TTL, or id uniqueness raises rather   *)
(* than silently producing a capability" (BrokerError): no id is ever      *)
(* minted twice.                                                           *)
MintedIdsAreUnique == \A i \in Ids : minted[i] <= 1

(* A capability is not consumed once it has expired (the broker's test     *)
(* test_expired_capability_cannot_be_consumed, with one thread).           *)
ConsumedBeforeExpiry ==
    [][\A i \in Ids :
          store[i].state = "ISSUED" /\ store'[i].state = "CONSUMED"
            => clock < store[i].expires]_vars
=============================================================================
