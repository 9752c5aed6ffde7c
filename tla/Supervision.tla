---------------------------- MODULE Supervision -----------------------------
(***************************************************************************)
(* moiras/supervisor.py: supervise composes compare_snapshots, when it is  *)
(* given snapshots, assess and aggregate into one inert report.  A pure    *)
(* function; executed and mode are constant and left out.                  *)
(***************************************************************************)
EXTENDS Risk, Council, Sentinel

(* The other arguments: is opinions a sequence, the snapshots (any tuple,  *)
(* of anything) and the threshold.                                         *)
Extras ==
    [sequence : BOOLEAN,
     snapshots : {None} \cup Seq(ExecutionSnapshots \cup {None}),
     threshold : {None} \cup Int]

Plain == [sequence |-> TRUE, snapshots |-> None, threshold |-> None]

SentinelResult(x) ==
    IF x.snapshots = None THEN None
    ELSE CompareSnapshots(x.snapshots[1], x.snapshots[2], x.threshold)

Refused(x) ==
    \/ ~x.sequence
    \/ (x.snapshots = None) # (x.threshold = None)
    \/ x.snapshots # None /\ Len(x.snapshots) # 2
    \/ SentinelResult(x) = Raised

Recommendation ==
    [STOP_AND_HUMAN               |-> "RECOMMEND_HALT_FOR_HUMAN",
     HUMAN_REQUIRED               |-> "RECOMMEND_HUMAN_REVIEW",
     MITIGATE_AND_REASSESS        |-> "RECOMMEND_MITIGATE_THEN_REASSESS",
     SHADOW_AUTOAPPROVE_CANDIDATE |-> "RECOMMEND_SHADOW_CANDIDATE_ONLY"]

Counterfactual ==
    [STOP_AND_HUMAN               |-> "WOULD_STOP_FOR_HUMAN_DECISION",
     HUMAN_REQUIRED               |-> "WOULD_REQUIRE_HUMAN_APPROVAL_GATE",
     MITIGATE_AND_REASSESS        |-> "WOULD_REQUIRE_MITIGATION_AND_REASSESSMENT",
     SHADOW_AUTOAPPROVE_CANDIDATE |-> "WOULD_REQUIRE_SEPARATE_AUTHORIZATION_GATE"]

ShadowReports ==
    [risk : RiskAssessments, decision : CouncilDecisions,
     recommendation : Range(Recommendation), counterfactual : Range(Counterfactual),
     sentinel : SentinelResults \cup {None}]

Report(a, d, result) ==
    [risk |-> Assess(a), decision |-> d, recommendation |-> Recommendation[d.verdict],
     counterfactual |-> Counterfactual[d.verdict], sentinel |-> result]

(* Mutants: extras that are refused are reported; an execution that seems  *)
(* inactive is judged as if its environment were not disposable.           *)
SuperviseUnchecked(a, p, x) ==
    LET d == Aggregate(Assess(a), p, a.environment)
    IN  IF d = Raised THEN Raised
        ELSE Report(a, d, IF Refused(x) THEN Raised ELSE SentinelResult(x))

SuperviseWary(a, p, x) ==
    LET wary == ~Refused(x) /\ ClassOf(SentinelResult(x)) = "PROBABLE_INACTIVITY"
        d == Aggregate(Assess(a), p, IF wary THEN "UNKNOWN" ELSE a.environment)
    IN  IF Refused(x) \/ d = Raised THEN Raised ELSE Report(a, d, SentinelResult(x))

Supervise(a, p, x) ==
    LET d == Aggregate(Assess(a), p, a.environment)
    IN  IF Refused(x) \/ d = Raised THEN Raised ELSE Report(a, d, SentinelResult(x))
=============================================================================
