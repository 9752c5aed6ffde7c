----------------------------- MODULE MCEvidence -----------------------------
(* Evidence on two attempts of one execution.                              *)
EXTENDS Evidence, TLC

CONSTANTS first, second

Attempts == {[execution |-> "e", attempt |-> n] : n \in {first, second}}

(* Only the attempts can be exchanged: nothing in Evidence names one.      *)
Symmetry == Permutations({first, second})

(* Recommendations at two times, outcomes before, at and after them.       *)
FewRecords ==
    {[level |-> "RECOMMENDATION", key |-> k, time |-> t, code |-> c] :
        k \in Attempts, t \in {1, 2},
        c \in {"RECOMMEND_SHADOW_CANDIDATE_ONLY", "RECOMMEND_HUMAN_REVIEW"}}
    \cup
    {[level |-> "HUMAN_OUTCOME", key |-> k, time |-> t, label |-> l] :
        k \in Attempts, t \in {1, 2, 3}, l \in HumanOutcomes}
    \cup
    {[level |-> "OBSERVATION", key |-> k, time |-> 3, class |-> "REAL_PROGRESS"] :
        k \in Attempts}
    \cup {NotARecord}
=============================================================================
