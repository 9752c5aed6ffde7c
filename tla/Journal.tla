------------------------------ MODULE Journal -------------------------------
(***************************************************************************)
(* What EvidenceRecorder promises, without threads, locks or files: a call *)
(* of record that returns has its line on disk, once; a call that raises,  *)
(* or that dies with its process, may or may not have; and no line gets    *)
(* there after its call has ended.                                         *)
(***************************************************************************)
EXTENDS Naturals

CONSTANT Records

VARIABLES landed,   \* the lines on disk for each record
          outcome   \* how its call stands

vars == <<landed, outcome>>

Init ==
    /\ landed = [x \in Records |-> 0]
    /\ outcome = [x \in Records |-> "UNUSED"]

Begin(x) ==
    /\ outcome[x] = "UNUSED"
    /\ outcome' = [outcome EXCEPT ![x] = "PENDING"]
    /\ UNCHANGED landed

Land(x) ==
    /\ outcome[x] = "PENDING" /\ landed[x] = 0
    /\ landed' = [landed EXCEPT ![x] = 1]
    /\ UNCHANGED outcome

Answer(x) ==
    /\ outcome[x] = "PENDING" /\ landed[x] = 1
    /\ outcome' = [outcome EXCEPT ![x] = "RECORDED"]
    /\ UNCHANGED landed

Raise(x) ==
    /\ outcome[x] \in {"UNUSED", "PENDING"}
    /\ outcome' = [outcome EXCEPT ![x] = "RAISED"]
    /\ UNCHANGED landed

Die ==
    /\ outcome' = [x \in Records |-> IF outcome[x] = "PENDING" THEN "LOST" ELSE outcome[x]]
    /\ UNCHANGED landed

Next == Die \/ \E x \in Records : Begin(x) \/ Land(x) \/ Answer(x) \/ Raise(x)

Spec == Init /\ [][Next]_vars

-----------------------------------------------------------------------------

(* A call that returned has its line on disk, once; no record ever has     *)
(* two, and a call that was not made has none.                             *)
OnDiskOnce ==
    \A x \in Records :
        /\ landed[x] \in {0, 1}
        /\ outcome[x] = "RECORDED" => landed[x] = 1
        /\ outcome[x] = "UNUSED" => landed[x] = 0

(* A call that has ended, however it has, stays as it ended, and so does   *)
(* what is on disk for it: no line lands late and none is taken away.      *)
EndedCallsStand ==
    [][\A x \in Records :
          /\ outcome[x] \in {"RECORDED", "RAISED", "LOST"}
                => outcome'[x] = outcome[x] /\ landed'[x] = landed[x]
          /\ landed'[x] >= landed[x]]_vars
=============================================================================
