------------------------------- MODULE Ledger -------------------------------
(***************************************************************************)
(* What the capability broker promises, with no lock, no clock and no      *)
(* interleaving: a ledger of ids.  Each id stands ABSENT, ISSUED, CONSUMED *)
(* or EXPIRED; a caller asks one question at a time and the answer it gets *)
(* is the truth about the id it asked for at ONE instant of its call, the  *)
(* instant at which the ledger changes if it changes at all.               *)
(*                                                                         *)
(* Broker.tla, which has the lock, the clock and the threads of            *)
(* moiras/broker.py, is shown to implement this specification.             *)
(***************************************************************************)
EXTENDS Integers

CONSTANTS Callers,  \* the threads of the process that share one broker
          Ids,      \* the capability ids the id factory can produce
          NoId      \* what a question that is about no id asks for

VARIABLES standing, \* standing[i]: what the broker's store says of id i
          asked,    \* asked[t]: the id caller t's question is about
          answer,   \* answer[t]: the last answer of caller t
          minted,   \* minted[i]: how often i was put in the store
          won,      \* won[i]: how often i was consumed
          lapsed    \* lapsed[i]: how often i was recorded as expired

ledger == <<standing, asked, answer, minted, won, lapsed>>

Standings == {"ABSENT", "ISSUED", "CONSUMED", "EXPIRED"}

Settled == {i \in Ids : standing[i] \in {"CONSUMED", "EXPIRED"}}

Init ==
    /\ standing = [i \in Ids |-> "ABSENT"]
    /\ asked = [t \in Callers |-> NoId]
    /\ answer = [t \in Callers |-> "NONE"]
    /\ minted = [i \in Ids |-> 0]
    /\ won = [i \in Ids |-> 0]
    /\ lapsed = [i \in Ids |-> 0]

-----------------------------------------------------------------------------

(* A caller enters mint or consume with id i, or prune with none.          *)
Ask(t, i) ==
    /\ asked' = [asked EXCEPT ![t] = i]
    /\ answer' = [answer EXCEPT ![t] = "PENDING"]
    /\ UNCHANGED <<standing, minted, won, lapsed>>

(* A call raises: the ledger is untouched.                                 *)
Refuse(t) ==
    /\ answer' = [answer EXCEPT ![t] = "RAISED"]
    /\ UNCHANGED <<standing, asked, minted, won, lapsed>>

Answer(t, a) ==
    /\ answer[t] = "PENDING"
    /\ answer' = [answer EXCEPT ![t] = a]
    /\ asked' = asked

(* The one way into the ledger: an id that is not in it.                   *)
Issue(t, i) ==
    /\ asked[t] = i
    /\ standing[i] = "ABSENT"
    /\ standing' = [standing EXCEPT ![i] = "ISSUED"]
    /\ minted' = [minted EXCEPT ![i] = @ + 1]
    /\ Answer(t, "MINTED")
    /\ UNCHANGED <<won, lapsed>>

(* The two ways a live id settles, each taken by exactly one call.         *)
Spend(t, i) ==
    /\ asked[t] = i
    /\ standing[i] = "ISSUED"
    /\ standing' = [standing EXCEPT ![i] = "CONSUMED"]
    /\ won' = [won EXCEPT ![i] = @ + 1]
    /\ Answer(t, "CONSUMED")
    /\ UNCHANGED <<minted, lapsed>>

Lapse(t, i) ==
    /\ asked[t] = i
    /\ standing[i] = "ISSUED"
    /\ standing' = [standing EXCEPT ![i] = "EXPIRED"]
    /\ lapsed' = [lapsed EXCEPT ![i] = @ + 1]
    /\ Answer(t, "EXPIRED")
    /\ UNCHANGED <<minted, won>>

(* What a caller is told of an id that is not live.                        *)
Told(s) == CASE s = "ABSENT"   -> "UNKNOWN"
             [] s = "CONSUMED" -> "ALREADY_CONSUMED"
             [] s = "EXPIRED"  -> "EXPIRED"

Report(t, i) ==
    /\ asked[t] = i
    /\ standing[i] # "ISSUED"
    /\ Answer(t, Told(standing[i]))
    /\ UNCHANGED <<standing, minted, won, lapsed>>

(* prune forgets every settled id and no other.                            *)
Forget(t) ==
    /\ standing' = [i \in Ids |-> IF i \in Settled THEN "ABSENT" ELSE standing[i]]
    /\ Answer(t, "PRUNED")
    /\ UNCHANGED <<minted, won, lapsed>>

Next ==
    \E t \in Callers :
        \/ Refuse(t) \/ Forget(t)
        \/ \E i \in Ids \cup {NoId} : Ask(t, i)
        \/ \E i \in Ids : Issue(t, i) \/ Spend(t, i) \/ Lapse(t, i) \/ Report(t, i)

Spec == Init /\ [][Next]_ledger

-----------------------------------------------------------------------------

(* Every time an id was minted it was consumed once, or recorded expired   *)
(* once, or it is still live: never two of them, never none.               *)
Conservation ==
    \A i \in Ids :
        minted[i] = won[i] + lapsed[i] + (IF standing[i] = "ISSUED" THEN 1 ELSE 0)

(* t is told a, and so is nobody else at that instant.                     *)
IsTold(t, a) ==
    /\ answer[t] = "PENDING" /\ answer'[t] = a
    /\ \A u \in Callers \ {t} : answer'[u] = answer[u]

(* An id is consumed exactly when one caller, the one that asked for it,   *)
(* is told so: no caller is told of a win that is not recorded, nor two of *)
(* the same, and no win is recorded that nobody is told of.                *)
TellsWins ==
    /\ \A i \in Ids :
          won'[i] # won[i] => \E t \in Callers : asked[t] = i /\ IsTold(t, "CONSUMED")
    /\ \A t \in Callers :
          answer[t] = "PENDING" /\ answer'[t] = "CONSUMED"
             => /\ IsTold(t, "CONSUMED")
                /\ standing[asked[t]] = "ISSUED"
                /\ won' = [won EXCEPT ![asked[t]] = @ + 1]

EachWinIsTold == [][TellsWins]_ledger
=============================================================================
