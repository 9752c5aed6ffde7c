-------------------------- MODULE SupervisorProofs --------------------------
(***************************************************************************)
(* What every report says, for any set of roles, any panel and any         *)
(* snapshots: proofs of what the run supervisor checks.  The report of a   *)
(* state is a function of the other three variables, and that is the       *)
(* inductive invariant; the rest is what SupervisionProofs says of         *)
(* supervise.                                                              *)
(***************************************************************************)
EXTENDS Supervisor, SupervisionProofs

Inv ==
    /\ action \in ActionRequests
    /\ panel \in Panels
    /\ extras \in Extras
    /\ report = Supervise(action, panel, extras)

-----------------------------------------------------------------------------
(* Which reports name a candidate.                                         *)
LEMMA CandidateMeans ==
    ASSUME NEW a \in ActionRequests, NEW p \in Panels, NEW x \in Extras
    PROVE  Candidate(Supervise(a, p, x)) <=>
              /\ ~Refused(x)
              /\ a.type \notin HARD_STOP_ACTIONS
              /\ Selection(p) = "SELECTED" /\ ~Vetoed(p) /\ ~Diverges(p)
              /\ Combined(Assess(a), p) < 40 /\ a.environment = "DISPOSABLE"
<1> DEFINE b == Assess(a)
           d == Aggregate(b, p, a.environment)
<1>1. b \in RiskAssessments /\ a.environment \in Environments
      /\ Raised \notin CouncilDecisions
      /\ (IsHardStop(b) <=> a.type \in HARD_STOP_ACTIONS)
    BY AssessMeans, SupervisorAssumption DEF ActionRequests
<1>2. Candidate(Supervise(a, p, x)) <=> ~Refused(x) /\ d # Raised /\ Admits(d)
    BY SupervisorAssumption, SuperviseMeans DEF Candidate
<1>3. /\ IsHardStop(b) => ~Admits(d)
      /\ ~IsHardStop(b) => (d = Raised <=> Selection(p) = "AGGREGATION_ERROR")
      /\ ~IsHardStop(b) /\ d # Raised =>
            (Admits(d) <=> /\ Selection(p) = "SELECTED"
                           /\ ~Vetoed(p) /\ ~Diverges(p)
                           /\ Combined(b, p) < 40 /\ a.environment = "DISPOSABLE")
    BY <1>1, AggregateMeans
<1> HIDE DEF b, d
<1> QED BY <1>1, <1>2, <1>3 DEF b

-----------------------------------------------------------------------------
(* The state.                                                              *)

(* The report on show is always that of the present action, panel and      *)
(* other arguments: supervise keeps nothing from one call to the next.     *)
THEOREM Invariance == Spec => []Inv
<1>1. Init => Inv
  <2>1. Plain \in Extras
      BY DEF Plain, Extras
  <2> QED BY <2>1, SupervisorAssumption DEF Init, Inv, Panels
<1>2. Inv /\ [Next]_vars => Inv'
  <2> SUFFICES ASSUME Inv, [Next]_vars PROVE Inv'
      OBVIOUS
  <2>1. ASSUME NEW o \in Menu, Hear(o) PROVE Inv'
    <3>1. Append(panel, o) \in Panels
        BY SupervisorAssumption, AppendProperties DEF Inv, Panels
    <3> QED BY <2>1, <3>1 DEF Inv, Hear
  <2>2. ASSUME NEW f \in DOMAIN Values, NEW v \in Values[f], Revise(f, v) PROVE Inv'
    <3>1. [action EXCEPT ![f] = v] \in ActionRequests
        BY <2>2 DEF Inv, Values, ActionRequests
    <3> QED BY <2>2, <3>1 DEF Inv, Revise
  <2>3. ASSUME NEW x \in GivenExtras, Watch(x) PROVE Inv'
      BY <2>3, SupervisorAssumption DEF Inv, Watch
  <2>4. CASE UNCHANGED vars
      BY <2>4 DEF Inv, vars
  <2> QED BY <2>1, <2>2, <2>3, <2>4 DEF Next
<1> QED BY <1>1, <1>2, PTL DEF Spec

(* supervise either raises or returns a well-formed ShadowReport.          *)
THEOREM TypeCorrectness == Spec => []TypeOK
<1>1. Inv => TypeOK
    BY SupervisorAssumption, SuperviseMeans DEF Inv, TypeOK, Panels
<1> QED BY <1>1, Invariance, PTL

(* The six hard stops, and nothing else, stop for a human with a score of  *)
(* ten, whatever else the panel holds.                                     *)
THEOREM HardStops == Spec => []HardStopAlwaysStops
<1>1. Inv => HardStopAlwaysStops
  <2> SUFFICES ASSUME Inv, ~Refused(extras)
               PROVE  action.type \in HARD_STOP_ACTIONS <=>
                          /\ report # Raised
                          /\ report.decision.verdict = "STOP_AND_HUMAN"
                          /\ report.decision.score = 100
      BY DEF HardStopAlwaysStops, HARD_STOP_ACTIONS
  <2> DEFINE b == Assess(action)
             d == Aggregate(b, panel, action.environment)
  <2>1. /\ b \in RiskAssessments /\ action.environment \in Environments
        /\ Raised \notin CouncilDecisions /\ panel \in Panels
        /\ (IsHardStop(b) <=> action.type \in HARD_STOP_ACTIONS)
      BY AssessMeans, SupervisorAssumption DEF Inv, ActionRequests
  <2>2. /\ report = Raised <=> d = Raised
        /\ report # Raised => report.decision = d
      BY SupervisorAssumption, SuperviseMeans DEF Inv
  <2>3. CASE IsHardStop(b)
    <3>1. d = Stop(b) /\ d \in CouncilDecisions \cup {Raised}
        BY <2>1, <2>3, AggregateMeans
    <3>2. d.verdict = "STOP_AND_HUMAN" /\ d.score = 100
        BY <3>1 DEF Stop
    <3>3. d # Raised
      <4>1. Stop(b) \in CouncilDecisions
        <5>1. "STOP_AND_HUMAN" \in Verdicts /\ 100 \in Scores
            BY DEF Verdicts, Scores
        <5>2. b.reasons \cup {IF b.bypass THEN "HARD_STOP_ACTION" ELSE "SCORE_TEN"}
                  \in SUBSET ReasonCodes
            BY <2>1 DEF RiskAssessments, ReasonCodes, ActionReasons, CouncilReasons
        <5> QED BY <5>1, <5>2 DEF Stop, CouncilDecisions
      <4> QED BY <2>1, <3>1, <4>1
    <3> HIDE DEF b, d
    <3> QED BY <2>1, <2>2, <2>3, <3>2, <3>3
  <2>4. CASE ~IsHardStop(b)
    <3>1. d # Raised => d.verdict # "STOP_AND_HUMAN"
        BY <2>1, <2>4, AggregateMeans
    <3> HIDE DEF b, d
    <3> QED BY <2>1, <2>2, <2>4, <3>1
  <2> QED BY <2>3, <2>4
<1> QED BY <1>1, Invariance, PTL

(* A candidate is harmless in all six fields of its request: a dimension   *)
(* that is not at its least scores 40 or more, or the environment is not   *)
(* disposable, and no council lowers the score.                            *)
THEOREM CandidatesAreHarmless == Spec => []CandidateIsHarmless
<1>1. Inv => CandidateIsHarmless
  <2> SUFFICES ASSUME Inv, Candidate(report)
               PROVE  CandidateIsHarmless
      BY DEF CandidateIsHarmless
  <2>1. /\ action \in ActionRequests
        /\ action.type \notin HARD_STOP_ACTIONS
        /\ Combined(Assess(action), panel) < 40
        /\ action.environment = "DISPOSABLE"
      BY CandidateMeans DEF Inv
  <2>2. RiskScore(action) < 40
    <3>1. Combined(Assess(action), panel) >= RiskScore(action)
          /\ Combined(Assess(action), panel) \in Scores
        BY <2>1, AssessMeans, CombinedMeans DEF Inv
    <3> QED BY <2>1, <3>1, RiskMeans DEF Scores
  <2>3. /\ BaselineMinScore[action.type] < 40
        /\ \A s \in FiveScores(action) : s < 40
    <3>1. \A s \in FiveScores(action) : s \in Scores
        BY <2>1, DimensionsMean
    <3>2. BaselineMinScore[action.type] \in Scores
        BY <2>1 DEF ActionRequests, ActionTypes, BaselineMinScore, Scores
    <3> QED BY <2>1, <2>2, <3>1, <3>2, RiskMeans DEF Scores
  <2>4. action.type \in {"PUBLIC_WEB_READ", "CREATE_TEMP_FILE", "EDIT_DOCUMENTATION",
                         "EDIT_CODE", "DELETE_REPRODUCIBLE_CACHE"}
      BY <2>1, <2>3 DEF ActionRequests, ActionTypes, BaselineMinScore
  <2>5. ReversibilityScore[action.reversibility] < 40 /\ ScopeScore[action.scope] < 40
        /\ FlagScore(action.sensitive) < 40 /\ FlagScore(action.external) < 40
      BY <2>3 DEF FiveScores
  <2>6. action.reversibility = "REVERSIBLE" /\ action.scope = "SINGLE"
      BY <2>1, <2>5 DEF ActionRequests, Reversibilities, Scopes, ReversibilityScore, ScopeScore
  <2>7. ~action.sensitive /\ ~action.external
      BY <2>5 DEF FlagScore
  <2> QED BY <2>1, <2>4, <2>6, <2>7 DEF CandidateIsHarmless
<1> QED BY <1>1, Invariance, PTL

(* Only the harmless way to create a temporary file is free of risk.       *)
THEOREM ZeroIsUnique == Spec => []ZeroRiskOnlyThere
<1>1. Inv => ZeroRiskOnlyThere
  <2> DEFINE Free == [type |-> "CREATE_TEMP_FILE", environment |-> "DISPOSABLE",
                      reversibility |-> "REVERSIBLE", scope |-> "SINGLE",
                      sensitive |-> FALSE, external |-> FALSE]
             a == action
  <2> SUFFICES ASSUME Inv, report # Raised
               PROVE  report.risk.score = 0 <=> a = Free
      BY DEF ZeroRiskOnlyThere
  <2>1. a \in ActionRequests /\ report.risk = Assess(a)
      BY SupervisorAssumption, SuperviseMeans DEF Inv
  <2>2. BaselineMinScore[a.type] \in Scores
        /\ (BaselineMinScore[a.type] = 0 <=> a.type = "CREATE_TEMP_FILE")
      BY <2>1 DEF ActionRequests, ActionTypes, BaselineMinScore, Scores
  <2>3. /\ ReversibilityScore[a.reversibility] = 0 <=> a.reversibility = "REVERSIBLE"
        /\ ScopeScore[a.scope] = 0 <=> a.scope = "SINGLE"
        /\ EnvironmentScore[a.environment] = 0 <=> a.environment = "DISPOSABLE"
      BY <2>1 DEF ActionRequests, Reversibilities, Scopes, Environments,
                  ReversibilityScore, ScopeScore, EnvironmentScore
  <2>4. /\ FlagScore(a.sensitive) = 0 <=> ~a.sensitive
        /\ FlagScore(a.external) = 0 <=> ~a.external
      BY DEF FlagScore
  <2>5. /\ RiskScore(a) \in Scores
        /\ RiskScore(a) = BaselineMinScore[a.type] \/ RiskScore(a) \in FiveScores(a)
        /\ RiskScore(a) >= BaselineMinScore[a.type]
        /\ \A s \in FiveScores(a) : s \in Scores /\ RiskScore(a) >= s
      BY <2>1, RiskMeans, DimensionsMean
  <2>6. RiskScore(a) = 0 <=> /\ BaselineMinScore[a.type] = 0
                             /\ \A s \in FiveScores(a) : s = 0
      BY <2>2, <2>5 DEF Scores
  <2>7. (\A s \in FiveScores(a) : s = 0) <=>
            /\ ReversibilityScore[a.reversibility] = 0 /\ ScopeScore[a.scope] = 0
            /\ EnvironmentScore[a.environment] = 0
            /\ FlagScore(a.sensitive) = 0 /\ FlagScore(a.external) = 0
      BY DEF FiveScores
  <2>8. a = Free <=> /\ a.type = "CREATE_TEMP_FILE" /\ a.environment = "DISPOSABLE"
                     /\ a.reversibility = "REVERSIBLE" /\ a.scope = "SINGLE"
                     /\ ~a.sensitive /\ ~a.external
      BY <2>1 DEF ActionRequests
  <2>9. report.risk.score = 0 <=> a.type \notin HARD_STOP_ACTIONS /\ RiskScore(a) = 0
      BY <2>1, AssessMeans
  <2>10. a.type = "CREATE_TEMP_FILE" => a.type \notin HARD_STOP_ACTIONS
      BY DEF HARD_STOP_ACTIONS
  <2> HIDE DEF Free
  <2> QED BY <2>2, <2>3, <2>4, <2>6, <2>7, <2>8, <2>9, <2>10
<1> QED BY <1>1, Invariance, PTL

(* Declared more dangerous, an action scores no less in any dimension.     *)
LEMMA RiskRises ==
    ASSUME NEW a \in ActionRequests, NEW b \in ActionRequests, Escalates(a, b)
    PROVE  Assess(b).score >= Assess(a).score
<1>1. a.type = b.type
    BY DEF Escalates
<1>2. /\ ReversibilityScore[b.reversibility] >= ReversibilityScore[a.reversibility]
      /\ ScopeScore[b.scope] >= ScopeScore[a.scope]
      /\ EnvironmentScore[b.environment] >= EnvironmentScore[a.environment]
      /\ FlagScore(b.sensitive) >= FlagScore(a.sensitive)
      /\ FlagScore(b.external) >= FlagScore(a.external)
  <2>0. /\ a.reversibility \in Reversibilities /\ b.reversibility \in Reversibilities
        /\ a.scope \in Scopes /\ b.scope \in Scopes
        /\ a.environment \in Environments /\ b.environment \in Environments
      BY DEF ActionRequests
  <2>1. a.reversibility = b.reversibility \/ <<a.reversibility, b.reversibility>> \in Worse
      BY DEF Escalates
  <2>2. a.scope = b.scope \/ <<a.scope, b.scope>> \in Worse
      BY DEF Escalates
  <2>3. a.environment = b.environment \/ <<a.environment, b.environment>> \in Worse
      BY DEF Escalates
  <2>4. ReversibilityScore[b.reversibility] >= ReversibilityScore[a.reversibility]
      BY <2>0, <2>1 DEF Worse, ReversibilityScore, Reversibilities
  <2>5. ScopeScore[b.scope] >= ScopeScore[a.scope]
      BY <2>0, <2>2 DEF Worse, ScopeScore, Scopes
  <2>6. EnvironmentScore[b.environment] >= EnvironmentScore[a.environment]
      BY <2>0, <2>3 DEF Worse, EnvironmentScore, Environments
  <2>7. FlagScore(b.sensitive) >= FlagScore(a.sensitive)
        /\ FlagScore(b.external) >= FlagScore(a.external)
      BY DEF Escalates, FlagScore
  <2> QED BY <2>4, <2>5, <2>6, <2>7
<1>3. \A s \in FiveScores(a) : \E t \in FiveScores(b) : t >= s
    BY <1>2 DEF FiveScores
<1>4. RiskScore(b) >= RiskScore(a)
  <2>1. /\ RiskScore(a) \in Scores /\ RiskScore(b) \in Scores
        /\ \A s \in FiveScores(a) \cup FiveScores(b) : s \in Scores
      BY RiskMeans, DimensionsMean
  <2>2. CASE RiskScore(a) = BaselineMinScore[a.type]
      BY <1>1, <2>2, RiskMeans
  <2>3. CASE RiskScore(a) \in FiveScores(a)
    <3>1. PICK t \in FiveScores(b) : t >= RiskScore(a)
        BY <1>3, <2>3
    <3>2. RiskScore(b) >= t
        BY RiskMeans
    <3> QED BY <2>1, <3>1, <3>2 DEF Scores
  <2> QED BY <2>2, <2>3, RiskMeans
<1> QED BY <1>1, <1>4, AssessMeans

(* ... and the worst of it and of what the council says is no less either. *)
LEMMA CombinedRises ==
    ASSUME NEW b \in RiskAssessments, NEW c \in RiskAssessments, NEW p \in Panels,
           c.score >= b.score
    PROVE  Combined(c, p) >= Combined(b, p)
<1>1. /\ b.score \in Scores /\ c.score \in Scores
      /\ Combined(b, p) \in Scores /\ Combined(c, p) \in Scores
    BY CombinedMeans DEF RiskAssessments
<1>2. CASE Combined(b, p) = b.score
  <2>1. Combined(c, p) >= c.score
      BY CombinedMeans
  <2>2. \A x, y, z \in Scores : x >= y /\ y >= z => x >= z
      BY DEF Scores
  <2>3. Combined(c, p) >= b.score
      BY <1>1, <2>1, <2>2
  <2> QED BY <1>2, <2>3
<1>3. CASE \E o \in Opinions(p) : Combined(b, p) = o.score
  <2>1. PICK o \in Opinions(p) : Combined(b, p) = o.score
      BY <1>3
  <2>2. Combined(c, p) >= o.score
      BY CombinedMeans
  <2> QED BY <2>1, <2>2
<1>4. Combined(b, p) = b.score \/ \E o \in Opinions(p) : Combined(b, p) = o.score
    BY CombinedMeans
<1> QED BY <1>2, <1>3, <1>4

(* To declare an action more dangerous never lowers its risk and never     *)
(* makes a candidate of what was none, whatever panel is heard.            *)
THEOREM EscalationIsSafe == Spec => EscalationNeverAdmits
<1>1. ASSUME Inv, Inv', panel' = panel, extras' = extras, Escalates(action, action')
      PROVE  /\ Candidate(report') => Candidate(report)
             /\ report # Raised /\ report' # Raised
                  => report'.risk.score >= report.risk.score
  <2> DEFINE b == Assess(action)
             c == Assess(action')
  <2>1. /\ action \in ActionRequests /\ panel \in Panels /\ extras \in Extras
        /\ report = Supervise(action, panel, extras)
      BY <1>1 DEF Inv
  <2>2. PICK a2 \in ActionRequests : /\ a2 = action'
                                     /\ report' = Supervise(a2, panel, extras)
      BY <1>1 DEF Inv
  <2>3. Escalates(action, a2)
      BY <1>1, <2>2
  <2>4. /\ b \in RiskAssessments /\ Assess(a2) \in RiskAssessments
        /\ Assess(a2).score >= b.score
      BY <2>1, <2>3, AssessMeans, RiskRises
  <2>5. /\ Combined(b, panel) \in Scores /\ Combined(Assess(a2), panel) \in Scores
        /\ Combined(Assess(a2), panel) >= Combined(b, panel)
      BY <2>1, <2>4, CombinedMeans, CombinedRises
  <2>6. Combined(Assess(a2), panel) < 40 => Combined(b, panel) < 40
      BY <2>5 DEF Scores
  <2>7. a2.type = action.type /\ (a2.environment = "DISPOSABLE" =>
                                     action.environment = "DISPOSABLE")
      BY <2>3 DEF Escalates, Worse
  <2>8. Candidate(report') => Candidate(report)
    <3>1. Candidate(Supervise(a2, panel, extras)) =>
              /\ ~Refused(extras)
              /\ a2.type \notin HARD_STOP_ACTIONS
              /\ Selection(panel) = "SELECTED" /\ ~Vetoed(panel) /\ ~Diverges(panel)
              /\ Combined(Assess(a2), panel) < 40 /\ a2.environment = "DISPOSABLE"
        BY <2>1, CandidateMeans
    <3>2. /\ ~Refused(extras)
          /\ action.type \notin HARD_STOP_ACTIONS
          /\ Selection(panel) = "SELECTED" /\ ~Vetoed(panel) /\ ~Diverges(panel)
          /\ Combined(b, panel) < 40 /\ action.environment = "DISPOSABLE"
          => Candidate(report)
        BY <2>1, CandidateMeans
    <3> HIDE DEF b
    <3> QED BY <2>2, <2>6, <2>7, <3>1, <3>2
  <2>9. report # Raised /\ report' # Raised =>
            report.risk = b /\ report'.risk = Assess(a2)
      BY <2>1, <2>2, SuperviseMeans, SupervisorAssumption
  <2> QED BY <2>4, <2>8, <2>9
<1>2. Inv /\ Inv' => [panel' = panel /\ extras' = extras /\ Escalates(action, action')
          => /\ Candidate(report') => Candidate(report)
             /\ report # Raised /\ report' # Raised
                  => report'.risk.score >= report.risk.score]_vars
    BY <1>1
<1> QED BY <1>2, Invariance, PTL DEF Spec, EscalationNeverAdmits

(* Snapshots passed along are described and change nothing else: neither   *)
(* the decision, nor what is recommended, nor what would have happened.    *)
THEOREM SentinelIsInert == Spec => SentinelOnlyDescribes
<1>1. ASSUME Inv, Inv', action' = action, panel' = panel,
             report # Raised, report' # Raised
      PROVE  /\ report'.decision = report.decision
             /\ report'.recommendation = report.recommendation
             /\ report'.counterfactual = report.counterfactual
  <2>1. /\ action \in ActionRequests /\ panel \in Panels /\ extras \in Extras
        /\ report = Supervise(action, panel, extras)
      BY <1>1 DEF Inv
  <2>2. PICK x \in Extras : report' = Supervise(action, panel, x)
      BY <1>1 DEF Inv
  <2> QED BY <1>1, <2>1, <2>2, SuperviseMeans, SupervisorAssumption
<1>2. Inv /\ Inv' => [action' = action /\ panel' = panel
                      /\ report # Raised /\ report' # Raised
          => /\ report'.decision = report.decision
             /\ report'.recommendation = report.recommendation
             /\ report'.counterfactual = report.counterfactual]_vars
    BY <1>1
<1> QED BY <1>2, Invariance, PTL DEF Spec, SentinelOnlyDescribes
=============================================================================
