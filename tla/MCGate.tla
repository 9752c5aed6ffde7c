------------------------------- MODULE MCGate -------------------------------
(* Gate on the shipped scenarios, and on short suites that mix them with   *)
(* scenarios that fail in every way there is.                              *)
EXTENDS Gate

FourRoles == {SECURITY, INTEGRITY, GOVERNANCE, OPERATIONS}

Shipped == Range(SCENARIOS)

(* It passes, but its name looks like a secret.                            *)
Unpublishable == [SCENARIOS[1] EXCEPT !.name = <<"w", ".", "sk-">>]

(* A wrong expectation of each kind, and a scenario for each exception.    *)
Failing ==
    {[SCENARIOS[1] EXCEPT !.verdict = "HUMAN_REQUIRED"],
     [SCENARIOS[1] EXCEPT !.recommendation = "RECOMMEND_HUMAN_REVIEW"],
     [SCENARIOS[10] EXCEPT !.sentinel = "INDETERMINATE"],
     [SCENARIOS[10] EXCEPT !.sentinel = None],
     [SCENARIOS[1] EXCEPT !.sentinel = "REAL_PROGRESS"],
     [SCENARIOS[3] EXCEPT !.extras.threshold = 300],
     [SCENARIOS[10] EXCEPT !.extras.snapshots[2].offset = 9],
     [SCENARIOS[1] EXCEPT !.opinions[2] = NotAnOpinion]}

Elements == Shipped \cup Failing \cup {Unpublishable, NotAScenario}

FewSuites ==
    {None, SCENARIOS, Append(SCENARIOS, Unpublishable)} \cup
    {Append(SCENARIOS, s) : s \in Failing} \cup SeqOf(Elements, 2) \cup
    [1..3 -> Failing \cup {SCENARIOS[1], SCENARIOS[9], Unpublishable, NotAScenario}]

-----------------------------------------------------------------------------

(* The gate tells the truth about every scenario, in order: the shipped    *)
(* ones and what is like them pass, the others fail, an exception in one   *)
(* of them hides neither it nor those after it, and success is claimed     *)
(* exactly when nothing failed.                                            *)
GateTellsTheTruth ==
    report # None =>
        /\ NotAScenario \notin Range(suite)
        /\ [k \in DOMAIN report.scenarios |-> report.scenarios[k].passed]
              = [k \in DOMAIN suite |-> suite[k] \in Shipped \cup {Unpublishable}]
        /\ report.success <=> Range(suite) \cap Failing = {}
        /\ report.passed + report.failed = Len(suite) /\ report.total = Len(suite)
=============================================================================
