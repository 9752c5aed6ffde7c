------------------------- MODULE DeliberationProofs -------------------------
(***************************************************************************)
(* Proofs about Deliberation, for any finite set of roles, any baselines,  *)
(* any answers and panels of any length.                                   *)
(*                                                                         *)
(* The decision a state shows is the one aggregate computes of what was    *)
(* heard so far; so the proofs are about what aggregate makes of a panel   *)
(* (SupervisionProofs), and about what one more opinion changes.           *)
(***************************************************************************)
EXTENDS Deliberation, SupervisionProofs

Inv == TypeOK /\ decision = Aggregate(baseline, panel, environment)

-----------------------------------------------------------------------------
(* The invariant.                                                          *)

LEMMA InitInv == Init => Inv
<1> SUFFICES ASSUME Init PROVE Inv
    OBVIOUS
<1>1. <<>> \in Panels
    BY EmptySeq DEF Panels
<1>2. baseline \in RiskAssessments /\ environment \in Environments /\ panel = <<>>
      /\ decision = Aggregate(baseline, panel, environment)
    BY CouncilAssumption DEF Init
<1> QED BY <1>1, <1>2, AggregateMeans, CouncilAssumption DEF Inv, TypeOK, Panels

(* A panel that has heard one more.                                        *)
LEMMA OneMore ==
    ASSUME NEW p \in Panels, NEW o \in CouncilOpinions \cup {NotAnOpinion}
    PROVE  LET q == Append(p, o)
           IN  /\ q \in Panels /\ Len(q) = Len(p) + 1
               /\ DOMAIN p \subseteq DOMAIN q
               /\ \A k \in DOMAIN p : q[k] = p[k]
               /\ Opinions(p) \subseteq Opinions(q)
<1> DEFINE q == Append(p, o)
<1>1. /\ q \in Panels /\ Len(q) = Len(p) + 1
      /\ \A k \in 1..Len(p) : q[k] = p[k]
    BY AppendProperties DEF Panels
<1>2. DOMAIN p \subseteq DOMAIN q /\ \A k \in DOMAIN p : q[k] = p[k]
    BY <1>1, PanelMembers
<1> HIDE DEF q
<1>3. Opinions(p) \subseteq Opinions(q)
    BY <1>2 DEF Opinions
<1> QED BY <1>1, <1>2, <1>3 DEF q

(* A step hears one more, or changes nothing.                              *)
LEMMA StepHears ==
    ASSUME Inv, [Next]_vars
    PROVE  \/ UNCHANGED vars
           \/ /\ UNCHANGED <<baseline, environment>>
              /\ decision' = Aggregate(baseline, panel', environment)
              /\ \E o \in CouncilOpinions \cup {NotAnOpinion} : panel' = Append(panel, o)
BY CouncilAssumption DEF Next, Hear, Closed

LEMMA StepInv == Inv /\ [Next]_vars => Inv'
<1> SUFFICES ASSUME Inv, [Next]_vars PROVE Inv'
    OBVIOUS
<1>1. CASE UNCHANGED vars
    BY <1>1 DEF vars, Inv, TypeOK
<1>2. ASSUME NEW o \in CouncilOpinions \cup {NotAnOpinion}, panel' = Append(panel, o),
             UNCHANGED <<baseline, environment>>,
             decision' = Aggregate(baseline, panel', environment)
      PROVE  Inv'
  <2>1. panel' \in Panels
      BY <1>2, OneMore DEF Inv, TypeOK, Panels
  <2>2. decision' \in CouncilDecisions \cup {Raised}
      BY <1>2, <2>1, AggregateMeans, CouncilAssumption DEF Inv, TypeOK
  <2> QED BY <1>2, <2>1, <2>2 DEF Inv, TypeOK, Panels
<1> QED BY <1>1, <1>2, StepHears

(* The decision shown is what aggregate makes of what was heard.           *)
THEOREM Invariance == Spec => []Inv
BY InitInv, StepInv, PTL DEF Spec

(* Every variable keeps its type: aggregate answers with a decision, or    *)
(* raises, whatever panel it is given.                                     *)
THEOREM TypeCorrectness == Spec => []TypeOK
<1>1. Inv => TypeOK
    BY DEF Inv
<1> QED BY <1>1, Invariance, PTL

-----------------------------------------------------------------------------
(* Decisions.                                                              *)

(* What a panel without objections is, and what the algorithm checks.      *)
LEMMA CleanMeans ==
    ASSUME NEW floor \in Int, NEW b \in RiskAssessments, b.score < floor, NEW p \in Panels
    PROVE  CleanPanel(p, floor) <=> Usable(p) /\ Combined(b, p) < floor
<1>1. ASSUME AllEligible(p), OneVoicePerRole(p)
      PROVE  /\ Opinions(p) = {p[k] : k \in DOMAIN p} /\ Opinions(p) # {}
             /\ \A k \in DOMAIN p : p[k] \in CouncilOpinions
  <2>1. Opinions(p) = {p[k] : k \in DOMAIN p}
      BY <1>1 DEF Opinions, AllEligible
  <2>2. DOMAIN p # {}
      BY <1>1, CouncilAssumption DEF OneVoicePerRole
  <2> QED BY <1>1, <2>1, <2>2, PanelMembers DEF AllEligible
<1>2. CleanPanel(p, floor) <=>
        /\ AllEligible(p) /\ OneVoicePerRole(p)
        /\ \A k \in DOMAIN p : ~p[k].veto /\ p[k].score < floor
        /\ \A j, k \in DOMAIN p : p[j].score - p[k].score <= 30
    BY PanelMembers, CouncilAssumption DEF CleanPanel, AllEligible, Eligible, OneVoicePerRole
<1>3. ASSUME AllEligible(p), OneVoicePerRole(p)
      PROVE  /\ ~Vetoed(p) <=> \A k \in DOMAIN p : ~p[k].veto
             /\ Combined(b, p) < floor <=> \A k \in DOMAIN p : p[k].score < floor
             /\ ~Diverges(p) <=> \A j, k \in DOMAIN p : p[j].score - p[k].score <= 30
  <2>1. /\ Opinions(p) = {p[k] : k \in DOMAIN p} /\ Opinions(p) # {}
        /\ \A k \in DOMAIN p : p[k].score \in Int
      BY <1>1, <1>3 DEF CouncilOpinions, Scores
  <2>2. ~Vetoed(p) <=> \A k \in DOMAIN p : ~p[k].veto
      BY <2>1 DEF Vetoed
  <2>3. Combined(b, p) < floor <=> \A k \in DOMAIN p : p[k].score < floor
    <3>1. /\ Combined(b, p) \in Int /\ b.score \in Int
          /\ Combined(b, p) = b.score \/ \E k \in DOMAIN p : Combined(b, p) = p[k].score
          /\ \A k \in DOMAIN p : Combined(b, p) >= p[k].score
        BY <2>1, CombinedMeans DEF Scores, RiskAssessments
    <3> QED BY <2>1, <3>1
  <2>4. ~Diverges(p) <=> \A j, k \in DOMAIN p : p[j].score - p[k].score <= 30
    <3>1. Diverges(p) <=> \E o, q \in Opinions(p) : o.score - q.score > 30
        BY <2>1, DivergesMeans
    <3>2. Diverges(p) <=> \E j, k \in DOMAIN p : p[j].score - p[k].score > 30
        BY <2>1, <3>1
    <3> QED BY <2>1, <3>2
  <2> QED BY <2>2, <2>3, <2>4
<1> QED BY <1>2, <1>3, SelectedMeans DEF Usable

(* Shadow candidates are exactly the panels without objections or higher   *)
(* scores, on low baselines in a disposable environment.                                               *)
THEOREM CandidatesAreClean == Spec => []CandidateIffClean
<1>1. ASSUME Inv PROVE CandidateIffClean
  <2>1. /\ baseline \in RiskAssessments /\ environment \in Environments /\ panel \in Panels
        /\ decision = Aggregate(baseline, panel, environment)
        /\ baseline.score \in Int /\ baseline.bypass \in BOOLEAN
    <3>1. /\ baseline \in RiskAssessments /\ environment \in Environments
          /\ panel \in Panels /\ decision = Aggregate(baseline, panel, environment)
        BY <1>1 DEF Inv, TypeOK, Panels
    <3> QED BY <3>1 DEF RiskAssessments, Scores
  <2>2. CASE IsHardStop(baseline)
    <3>1. ~Admits(decision)
        BY <2>1, <2>2, AggregateMeans, CouncilAssumption
    <3> QED BY <2>1, <2>2, <3>1 DEF IsHardStop, CandidateIffClean
  <2>3. CASE ~IsHardStop(baseline)
    <3>1. Admits(decision) <=>
             /\ Selection(panel) = "SELECTED"
             /\ ~Vetoed(panel) /\ ~Diverges(panel)
             /\ Combined(baseline, panel) < 40 /\ environment = "DISPOSABLE"
      <4>1. decision = Raised => Selection(panel) # "SELECTED" /\ ~Admits(decision)
          BY <2>1, <2>3, AggregateMeans, CouncilAssumption DEF Admits
      <4> QED BY <2>1, <2>3, <4>1, AggregateMeans, CouncilAssumption
    <3>2. Combined(baseline, panel) < 40 => baseline.score < 40
        BY <2>1, CombinedMeans DEF Scores
    <3> QED BY <2>1, <2>3, <3>1, <3>2, CleanMeans DEF IsHardStop, Usable, CandidateIffClean
  <2> QED BY <2>2, <2>3
<1> QED BY <1>1, Invariance, PTL

(* What is sent back is exactly what no hard stop and no objection stands  *)
(* in the way of, with a worst score from 4 to below 7.                    *)
THEOREM MiddlingIsMitigated == Spec => []MitigateIffMiddling
<1>1. ASSUME Inv PROVE MitigateIffMiddling
  <2> DEFINE c == Combined(baseline, panel)
             Mitigates == decision # Raised /\ decision.verdict = "MITIGATE_AND_REASSESS"
             Middling == baseline.score >= 40 \/ \E k \in DOMAIN panel : panel[k].score >= 40
  <2>1. /\ baseline \in RiskAssessments /\ environment \in Environments /\ panel \in Panels
        /\ decision = Aggregate(baseline, panel, environment)
      BY <1>1 DEF Inv, TypeOK, Panels
  <2>2. /\ baseline.score \in Int /\ baseline.bypass \in BOOLEAN
        /\ c \in Int /\ baseline.score <= c
      BY <2>1, CombinedMeans DEF RiskAssessments, Scores
  <2>3. CASE IsHardStop(baseline)
    <3>1. ~Mitigates
        BY <2>1, <2>3, AggregateMeans, CouncilAssumption DEF Stop
    <3> QED BY <2>2, <2>3, <3>1 DEF IsHardStop, MitigateIffMiddling
  <2>4. CASE ~IsHardStop(baseline)
    <3>1. Mitigates <=> Usable(panel) /\ Band(c, environment).verdict = "MITIGATE_AND_REASSESS"
      <4>1. decision = Raised => ~Usable(panel)
          BY <2>1, <2>4, AggregateMeans, CouncilAssumption DEF Usable
      <4> QED BY <2>1, <2>4, <4>1, AggregateMeans, CouncilAssumption
    <3>2. Band(c, environment).verdict = "MITIGATE_AND_REASSESS" <=> 40 <= c /\ c < 70
        BY <2>2 DEF Band, HumanRequiredFloor, MitigateFloor
    <3>3. baseline.score < 70 => (CleanPanel(panel, 70) <=> Usable(panel) /\ c < 70)
        BY <2>1, CleanMeans
    <3>4. ASSUME Usable(panel) PROVE 40 <= c <=> Middling
      <4>1. /\ \A k \in DOMAIN panel : panel[k] \in Opinions(panel) /\ panel[k].score \in Int
            /\ \A o \in Opinions(panel) : \E k \in DOMAIN panel : o = panel[k]
        <5>1. \A k \in DOMAIN panel : panel[k] # NotAnOpinion
            BY <2>1, <3>4, SelectedMeans DEF Usable, AllEligible
        <5>2. \A k \in DOMAIN panel : panel[k] \in Opinions(panel) /\ panel[k] \in CouncilOpinions
            BY <2>1, <5>1, PanelMembers
        <5>3. \A o \in CouncilOpinions : o.score \in Int
            BY DEF CouncilOpinions, Scores
        <5> QED BY <5>2, <5>3 DEF Opinions
      <4>2. /\ c = baseline.score \/ \E k \in DOMAIN panel : c = panel[k].score
            /\ \A k \in DOMAIN panel : c >= panel[k].score
          BY <2>1, <4>1, CombinedMeans
      <4> QED BY <2>2, <4>1, <4>2
    <3> QED BY <2>2, <2>4, <3>1, <3>2, <3>3, <3>4 DEF IsHardStop, MitigateIffMiddling
  <2> QED BY <2>3, <2>4
<1> QED BY <1>1, Invariance, PTL

(* No decision shows a score below the baseline's or any opinion's.        *)
THEOREM NeverUnderstated == Spec => []ScoreNeverUnderstated
<1>1. ASSUME Inv PROVE ScoreNeverUnderstated
  <2>1. /\ baseline \in RiskAssessments /\ environment \in Environments /\ panel \in Panels
        /\ decision = Aggregate(baseline, panel, environment)
      BY <1>1 DEF Inv, TypeOK, Panels
  <2>2. CASE IsHardStop(baseline)
    <3>1. decision.score = 100
        BY <2>1, <2>2, AggregateMeans, CouncilAssumption DEF Stop
    <3>2. baseline.score \in Scores
        BY <2>1 DEF RiskAssessments
    <3>3. \A o \in Opinions(panel) : o.score \in Scores
        BY <2>1, PanelMembers DEF CouncilOpinions
    <3> QED BY <3>1, <3>2, <3>3 DEF ScoreNeverUnderstated, Scores
  <2>3. CASE ~IsHardStop(baseline)
      BY <2>1, <2>3, AggregateMeans, CouncilAssumption, CombinedMeans DEF ScoreNeverUnderstated
  <2> QED BY <2>2, <2>3
<1> QED BY <1>1, Invariance, PTL
-----------------------------------------------------------------------------
(* What one more opinion changes.                                          *)

(* The score shown never falls when another opinion is heard.              *)
THEOREM ScoresRise == Spec => ScoreOnlyRises
<1>1. ASSUME Inv, [Next]_vars
      PROVE  [decision # Raised /\ decision' # Raised => decision'.score >= decision.score]_vars
  <2> SUFFICES ASSUME decision # Raised, decision' # Raised, ~UNCHANGED vars
               PROVE  decision'.score >= decision.score
      OBVIOUS
  <2>1. PICK o \in CouncilOpinions \cup {NotAnOpinion} :
            panel' = Append(panel, o) /\ decision' = Aggregate(baseline, panel', environment)
      BY <1>1, StepHears
  <2>2. /\ baseline \in RiskAssessments /\ environment \in Environments /\ panel \in Panels
        /\ decision = Aggregate(baseline, panel, environment)
      BY <1>1 DEF Inv, TypeOK, Panels
  <2>3. panel' \in Panels /\ Opinions(panel) \subseteq Opinions(panel')
      BY <2>1, <2>2, OneMore
  <2>4. CASE IsHardStop(baseline)
      BY <2>1, <2>2, <2>3, <2>4, AggregateMeans, CouncilAssumption DEF Stop
  <2>5. CASE ~IsHardStop(baseline)
    <3>1. decision.score = Combined(baseline, panel)
        BY <2>2, <2>5, AggregateMeans, CouncilAssumption
    <3>2. decision'.score = Combined(baseline, panel')
        BY <2>1, <2>2, <2>3, <2>5, AggregateMeans, CouncilAssumption
    <3> QED BY <2>2, <2>3, <3>1, <3>2, CombinedMeans
  <2> QED BY <2>4, <2>5
<1> QED BY <1>1, Invariance, PTL DEF Spec, ScoreOnlyRises

(* The loop over the opinions stops where it stopped before.               *)
LEMMA SpoiledStays ==
    ASSUME NEW p \in Panels, NEW o \in CouncilOpinions \cup {NotAnOpinion},
           Selection(p) = "AGGREGATION_ERROR"
    PROVE  Selection(Append(p, o)) = "AGGREGATION_ERROR"
<1> DEFINE q == Append(p, o)
<1>1. /\ q \in Panels /\ DOMAIN p = 1..Len(p) /\ Len(p) \in Nat /\ DOMAIN q = 1..(Len(p) + 1)
      /\ \A k \in DOMAIN p : q[k] = p[k]
    BY OneMore, PanelMembers
<1> HIDE DEF q
<1>2. Spoilers(p) # {} /\ p[Min(Spoilers(p))] = NotAnOpinion
    BY DEF Selection
<1>3. /\ Spoilers(p) \in SUBSET Nat /\ Spoilers(q) \in SUBSET Nat
      /\ Spoilers(p) = Spoilers(q) \cap (1..Len(p)) /\ Spoilers(q) \subseteq 1..(Len(p) + 1)
    BY <1>1 DEF Spoilers
<1>4. Min(Spoilers(q)) = Min(Spoilers(p)) /\ Min(Spoilers(p)) \in DOMAIN p
  <2>1. /\ Min(Spoilers(p)) \in Spoilers(p) /\ \A y \in Spoilers(p) : Min(Spoilers(p)) <= y
        /\ Min(Spoilers(q)) \in Spoilers(q) /\ \A y \in Spoilers(q) : Min(Spoilers(q)) <= y
      BY <1>2, <1>3, MinOfScores
  <2>2. Min(Spoilers(p)) \in Spoilers(q) /\ Min(Spoilers(p)) \in 1..Len(p)
      BY <1>3, <2>1
  <2>3. Min(Spoilers(q)) <= Min(Spoilers(p))
      BY <2>1, <2>2
  <2>4. Min(Spoilers(q)) \in 1..Len(p)
      BY <1>1, <1>3, <2>1, <2>2, <2>3
  <2>5. Min(Spoilers(p)) <= Min(Spoilers(q))
      BY <1>3, <2>1, <2>4
  <2> QED BY <1>1, <2>2, <2>3, <2>4, <2>5
<1> QED BY <1>1, <1>2, <1>3, <1>4 DEF Selection, q

(* A panel of which one more opinion makes one that is judged by its       *)
(* scores was only incomplete, and an exception stays one.                 *)
THEOREM RefusalsAreFinal == Spec => RefusalIsFinal
<1> DEFINE Step == /\ decision = Raised => decision' = Raised
                   /\ decision # Raised /\ decision' # Raised
                         /\ "COUNCIL_INCOMPLETE" \notin decision.reasons
                         => decision'.verdict \in {"HUMAN_REQUIRED", "STOP_AND_HUMAN"}
<1>1. ASSUME Inv, [Next]_vars PROVE [Step]_vars
  <2> SUFFICES ASSUME ~UNCHANGED vars PROVE Step
      OBVIOUS
  <2>1. PICK o \in CouncilOpinions \cup {NotAnOpinion} :
            panel' = Append(panel, o) /\ decision' = Aggregate(baseline, panel', environment)
      BY <1>1, StepHears
  <2>2. /\ baseline \in RiskAssessments /\ environment \in Environments /\ panel \in Panels
        /\ decision = Aggregate(baseline, panel, environment)
      BY <1>1 DEF Inv, TypeOK, Panels
  <2>3. /\ panel' \in Panels /\ Len(panel') = Len(panel) + 1
        /\ DOMAIN panel \subseteq DOMAIN panel'
        /\ \A k \in DOMAIN panel : panel'[k] = panel[k]
      BY <2>1, <2>2, OneMore
  <2>4. decision = Raised => decision' = Raised
    <3>1. decision = Raised => ~IsHardStop(baseline) /\ Selection(panel) = "AGGREGATION_ERROR"
      <4>1. Stop(baseline) \in CouncilDecisions
        <5>1. IsHardStop(baseline) => decision = Stop(baseline)
            BY <2>2, AggregateMeans, CouncilAssumption
        <5> QED BY <2>2 DEF Stop, CouncilDecisions, RiskAssessments, Verdicts, Scores,
                            ReasonCodes, ActionReasons, CouncilReasons
      <4> QED BY <2>2, <4>1, AggregateMeans, CouncilAssumption
    <3> QED BY <2>1, <2>2, <2>3, <3>1, SpoiledStays, AggregateMeans, CouncilAssumption
  <2>5. ASSUME decision # Raised, decision' # Raised,
               decision'.verdict \notin {"HUMAN_REQUIRED", "STOP_AND_HUMAN"}
        PROVE  "COUNCIL_INCOMPLETE" \in decision.reasons
    <3>1. ~IsHardStop(baseline) /\ Selection(panel') = "SELECTED"
      <4>1. ~IsHardStop(baseline)
          BY <2>1, <2>2, <2>3, <2>5, AggregateMeans, CouncilAssumption DEF Stop
      <4> QED BY <2>1, <2>2, <2>3, <2>5, <4>1, AggregateMeans, CouncilAssumption DEF Usable
    <3>2. Spoilers(panel) = {}
        BY <2>3, <3>1, SelectedMeans DEF Spoilers, AllEligible
    <3>3. ~Duplicated(panel)
      <4>1. ~Duplicated(panel')
          BY <3>1 DEF Selection
      <4>2. \A r \in Roles : Speakers(panel, r) \subseteq Speakers(panel', r)
          BY <2>3 DEF Speakers
      <4> QED BY <2>2, <2>3, <4>1, <4>2, DuplicatedMeans
    <3>4. Len(panel) # Cardinality(Roles)
      <4>1. Len(panel') = Cardinality(Roles) /\ Len(panel) \in Nat
          BY <2>2, <2>3, <3>1, SelectedMeans, AsManyAsRoles, PanelMembers
      <4> QED BY <2>3, <4>1
    <3>5. Selection(panel) = "COUNCIL_INCOMPLETE"
        BY <3>2, <3>3, <3>4 DEF Selection
    <3> QED BY <2>2, <2>5, <3>1, <3>5, AggregateMeans, CouncilAssumption
  <2> QED BY <2>4, <2>5
<1> QED BY <1>1, Invariance, PTL DEF Spec, RefusalIsFinal

(* Two panels with the same opinions, of which both or neither can be used *)
(* and for the same reason, get the same decision.                         *)
LEMMA SameDecision ==
    ASSUME NEW b, NEW env, NEW p, NEW q,
           Opinions(q) = Opinions(p), Selection(q) = Selection(p)
    PROVE  Aggregate(b, q, env) = Aggregate(b, p, env)
<1>1. Scored(q) = Scored(p) /\ (Vetoed(q) <=> Vetoed(p))
    BY DEF Scored, Vetoed
<1>2. Combined(b, q) = Combined(b, p) /\ (Diverges(q) <=> Diverges(p))
    BY <1>1 DEF Combined, Diverges
<1> QED BY <1>1, <1>2 DEF Aggregate

(* The panel in another order: the voice at k is the one that was at f[k]. *)
Reordered(p, f) == [k \in DOMAIN p |-> p[f[k]]]

(* Another order, with a way back, keeps the opinions and the selection.   *)
LEMMA ReorderingKeeps ==
    ASSUME NEW p \in Panels, NotAnOpinion \notin Range(p),
           NEW f \in [DOMAIN p -> DOMAIN p], NEW g \in [DOMAIN p -> DOMAIN p],
           \A j \in DOMAIN p : f[g[j]] = j /\ g[f[j]] = j
    PROVE  LET q == Reordered(p, f)
           IN  Opinions(q) = Opinions(p) /\ Selection(q) = Selection(p)
<1> DEFINE q == Reordered(p, f)
<1>1. /\ Len(p) \in Nat /\ DOMAIN p = 1..Len(p)
      /\ \A j \in DOMAIN p : p[j] # NotAnOpinion
    BY PanelMembers DEF Range
<1>2. \A j \in DOMAIN p : p[j] \in CouncilOpinions
    BY <1>1, PanelMembers
<1>3. /\ DOMAIN q = DOMAIN p
      /\ \A j \in DOMAIN p : /\ f[j] \in DOMAIN p /\ q[j] = p[f[j]]
                             /\ g[j] \in DOMAIN p /\ q[g[j]] = p[j]
    BY DEF Reordered
<1>4. q \in Panels /\ Len(q) = Len(p)
  <2>1. q \in [1..Len(p) -> CouncilOpinions \cup {NotAnOpinion}]
      BY <1>1, <1>2 DEF Reordered
  <2> HIDE DEF q
  <2> QED BY <1>1, <2>1, SeqDef, LenProperties DEF Panels
<1> HIDE DEF q
<1>5. ASSUME NEW j \in DOMAIN p PROVE q[j] # NotAnOpinion
  <2>1. f[j] \in DOMAIN p /\ q[j] = p[f[j]]
      BY <1>3
  <2> QED BY <1>1, <2>1
<1>6. Opinions(q) = Opinions(p)
  <2>1. Opinions(p) = {p[j] : j \in DOMAIN p} /\ Opinions(q) = {q[j] : j \in DOMAIN p}
      BY <1>1, <1>3, <1>5 DEF Opinions
  <2> QED BY <1>3, <2>1
<1>7. Spoilers(p) = {} <=> Spoilers(q) = {}
  <2>1. ASSUME NEW j \in Spoilers(p) PROVE g[j] \in Spoilers(q)
    <3>1. j \in DOMAIN p /\ ~Eligible(p[j])
        BY <1>1 DEF Spoilers
    <3>2. g[j] \in DOMAIN q /\ q[g[j]] = p[j]
        BY <1>3, <3>1
    <3> QED BY <3>1, <3>2 DEF Spoilers
  <2>2. ASSUME NEW j \in Spoilers(q) PROVE f[j] \in Spoilers(p)
    <3>1. j \in DOMAIN p /\ ~Eligible(q[j])
        BY <1>3, <1>5 DEF Spoilers
    <3>2. f[j] \in DOMAIN p /\ q[j] = p[f[j]]
        BY <1>3, <3>1
    <3> QED BY <3>1, <3>2 DEF Spoilers
  <2> QED BY <2>1, <2>2
<1>8. ASSUME NEW r
      PROVE  /\ Speakers(p, r) = {} <=> Speakers(q, r) = {}
             /\ (\E i, j \in Speakers(p, r) : i # j) <=> \E i, j \in Speakers(q, r) : i # j
  <2>1. /\ \A j : j \in Speakers(p, r) <=> j \in DOMAIN p /\ p[j].role = r
        /\ \A j : j \in Speakers(q, r) <=> j \in DOMAIN p /\ p[f[j]].role = r
      BY <1>1, <1>3 DEF Speakers
  <2>2. \A j \in Speakers(p, r) : g[j] \in Speakers(q, r) /\ f[g[j]] = j
      BY <2>1
  <2>3. \A j \in Speakers(q, r) : f[j] \in Speakers(p, r) /\ g[f[j]] = j
      BY <2>1
  <2> QED BY <2>2, <2>3
<1>9. (Missing(p) <=> Missing(q)) /\ (Duplicated(p) <=> Duplicated(q))
    BY <1>4, <1>8, DuplicatedMeans DEF Missing
<1>10. \A s \in {p, q} : Spoilers(s) # {} => s[Min(Spoilers(s))] # NotAnOpinion
  <2>2. ASSUME NEW s \in {p, q}, Spoilers(s) # {} PROVE Min(Spoilers(s)) \in DOMAIN p
    <3>1. Spoilers(s) \in SUBSET Nat /\ Spoilers(s) \subseteq DOMAIN p
        BY <1>1, <1>3 DEF Spoilers
    <3> QED BY <2>2, <3>1, MinOfScores
  <2> QED BY <1>1, <1>5, <2>2
<1>11. Selection(q) = Selection(p)
    BY <1>4, <1>7, <1>9, <1>10 DEF Selection
<1> QED BY <1>6, <1>11 DEF q

(* Reviewers answer in any order: whatever the order in which the same     *)
(* opinions are given to aggregate, its decision is the one shown.  (The   *)
(* exception is a member that is no opinion: see README.)                  *)
AnyOrder ==
    NotAnOpinion \notin Range(panel)
        => \A f \in Bijection(DOMAIN panel, DOMAIN panel) :
               Aggregate(baseline, Reordered(panel, f), environment) = decision

THEOREM AnyOrderWillDo == Spec => []AnyOrder
<1>1. ASSUME Inv, NotAnOpinion \notin Range(panel),
             NEW f \in Bijection(DOMAIN panel, DOMAIN panel)
      PROVE  Aggregate(baseline, Reordered(panel, f), environment) = decision
  <2>1. /\ f \in [DOMAIN panel -> DOMAIN panel]
        /\ \A i, j \in DOMAIN panel : f[i] = f[j] => i = j
        /\ \A j \in DOMAIN panel : \E i \in DOMAIN panel : f[i] = j
      BY DEF Bijection, Injection, Surjection, IsInjective
  <2> DEFINE g == [j \in DOMAIN panel |-> CHOOSE i \in DOMAIN panel : f[i] = j]
  <2>2. /\ g \in [DOMAIN panel -> DOMAIN panel]
        /\ \A j \in DOMAIN panel : f[g[j]] = j
      BY <2>1
  <2>3. \A j \in DOMAIN panel : g[f[j]] = j
      BY <2>1, <2>2
  <2>4. panel \in Panels /\ decision = Aggregate(baseline, panel, environment)
      BY <1>1 DEF Inv, TypeOK, Panels
  <2> HIDE DEF g
  <2> QED BY <1>1, <2>1, <2>2, <2>3, <2>4, ReorderingKeeps, SameDecision
<1>2. Inv => AnyOrder
    BY <1>1 DEF AnyOrder
<1> QED BY <1>2, Invariance, PTL

(* Exchanging two neighbours is putting the panel in another order.        *)
LEMMA ExchangeReorders ==
    ASSUME NEW p \in Panels, NEW k \in 1..(Len(p) - 1)
    PROVE  \E f \in Bijection(DOMAIN p, DOMAIN p) : Exchanged(p, k) = Reordered(p, f)
<1> DEFINE other == [j \in DOMAIN p |-> IF j = k THEN k + 1 ELSE IF j = k + 1 THEN k ELSE j]
<1>1. /\ Len(p) \in Nat /\ DOMAIN p = 1..Len(p) /\ k \in DOMAIN p /\ k + 1 \in DOMAIN p
      /\ k # k + 1
    BY PanelMembers
<1>2. /\ other \in [DOMAIN p -> DOMAIN p]
      /\ \A j \in DOMAIN p : other[other[j]] = j
    BY <1>1
<1>3. Exchanged(p, k) = Reordered(p, other)
    BY <1>1 DEF Exchanged, Reordered
<1> HIDE DEF other
<1>4. other \in Bijection(DOMAIN p, DOMAIN p)
    BY <1>2 DEF Bijection, Injection, Surjection, IsInjective
<1> QED BY <1>3, <1>4

(* The order in which reviewers answer does not matter.                    *)
THEOREM OrderDoesNotMatter == Spec => []OrderIrrelevant
<1>1. Inv /\ AnyOrder => OrderIrrelevant
  <2> SUFFICES ASSUME Inv, AnyOrder, NotAnOpinion \notin Range(panel),
                      NEW k \in 1..(Len(panel) - 1)
               PROVE  Aggregate(baseline, Exchanged(panel, k), environment) = decision
      BY DEF OrderIrrelevant
  <2>1. panel \in Panels
      BY DEF Inv, TypeOK, Panels
  <2> QED BY <2>1, ExchangeReorders DEF AnyOrder
<1> QED BY <1>1, AnyOrderWillDo, Invariance, PTL

-----------------------------------------------------------------------------
(* Opinions that may not be counted.                                       *)

(* An opinion of an ineligible model is heard all the same (see            *)
(* IneligibleNeverCounted), but only ever on the side of caution: the      *)
(* verdict is the one that any choice among the same opinions would get,   *)
(* that of the eligible ones included, or it is a human's to give; and     *)
(* no such choice would get a higher score.                                *)
IneligibleOnlyCautious ==
    NotAnOpinion \notin Range(panel) /\ (\E o \in Range(panel) : ~Eligible(o))
        => \A p \in Seq(Range(panel)) :
              LET chosen == Aggregate(baseline, p, environment)
              IN  /\ ~Admits(decision) /\ chosen # Raised
                  /\ decision.verdict \in {chosen.verdict, "HUMAN_REQUIRED"}
                  /\ decision.score >= chosen.score

THEOREM IneligibleIsCautious == Spec => []IneligibleOnlyCautious
<1>1. ASSUME Inv, NotAnOpinion \notin Range(panel), NEW o \in Range(panel), ~Eligible(o),
             NEW p \in Seq(Range(panel))
      PROVE  LET chosen == Aggregate(baseline, p, environment)
             IN  /\ ~Admits(decision) /\ chosen # Raised
                 /\ decision.verdict \in {chosen.verdict, "HUMAN_REQUIRED"}
                 /\ decision.score >= chosen.score
  <2> DEFINE chosen == Aggregate(baseline, p, environment)
  <2>1. /\ baseline \in RiskAssessments /\ environment \in Environments /\ panel \in Panels
        /\ decision = Aggregate(baseline, panel, environment)
      BY <1>1 DEF Inv, TypeOK, Panels
  <2>2. /\ Len(p) \in Nat /\ DOMAIN p = 1..Len(p)
        /\ \A k \in DOMAIN p : p[k] \in Range(panel)
        /\ p \in Panels
    <3>1. Range(panel) \subseteq CouncilOpinions \cup {NotAnOpinion}
        BY <2>1, PanelMembers DEF Range
    <3>2. p \in Panels
        BY <3>1, SeqDef DEF Panels
    <3> QED BY <3>2, PanelMembers, ElementOfSeq
  <2>3. /\ \A k \in DOMAIN panel : panel[k] # NotAnOpinion
        /\ \A k \in DOMAIN p : p[k] # NotAnOpinion /\ p[k] \in Opinions(panel)
      BY <1>1, <2>1, <2>2 DEF Range, Opinions
  <2>4. Opinions(p) \subseteq Opinions(panel)
      BY <2>3 DEF Opinions
  <2>5. Selection(panel) = "COUNCIL_INELIGIBLE_MODEL" /\ Selection(p) # "AGGREGATION_ERROR"
    <3>1. ASSUME NEW q \in {panel, p}, Spoilers(q) # {}
          PROVE  q[Min(Spoilers(q))] # NotAnOpinion
      <4>1. q \in Panels
          BY <2>1, <2>2
      <4>2. Spoilers(q) \in SUBSET Nat /\ Spoilers(q) \subseteq DOMAIN q
          BY <4>1, PanelMembers DEF Spoilers
      <4>3. Min(Spoilers(q)) \in DOMAIN q
          BY <3>1, <4>2, MinOfScores
      <4> QED BY <2>3, <4>3
    <3>2. Spoilers(panel) # {}
        BY <1>1 DEF Spoilers, Range
    <3> QED BY <3>1, <3>2 DEF Selection
  <2> HIDE DEF chosen
  <2>6. CASE IsHardStop(baseline)
    <3>1. decision = Stop(baseline) /\ chosen = Stop(baseline) /\ ~Admits(decision)
        BY <2>1, <2>2, <2>6, AggregateMeans, CouncilAssumption DEF chosen
    <3>2. Stop(baseline) \in CouncilDecisions
      <4>1. /\ baseline.reasons \in SUBSET ReasonCodes /\ "STOP_AND_HUMAN" \in Verdicts
            /\ {"HARD_STOP_ACTION", "SCORE_TEN"} \subseteq ReasonCodes
          BY <2>1 DEF RiskAssessments, Verdicts, ReasonCodes, ActionReasons, CouncilReasons
      <4>2. 100 \in Scores
          BY DEF Scores
      <4> QED BY <4>1, <4>2 DEF Stop, CouncilDecisions
    <3>3. decision = chosen /\ chosen # Raised
        BY <3>1, <3>2, CouncilAssumption
    <3>4. chosen.score \in Int
        BY <3>1 DEF Stop
    <3> QED BY <3>1, <3>3, <3>4 DEF chosen
  <2>7. CASE ~IsHardStop(baseline)
    <3>1. /\ decision # Raised /\ ~Admits(decision)
          /\ decision.verdict = "HUMAN_REQUIRED"
          /\ decision.score = Combined(baseline, panel)
        BY <2>1, <2>5, <2>7, AggregateMeans, CouncilAssumption DEF Usable
    <3>2. chosen # Raised /\ chosen.score = Combined(baseline, p)
        BY <2>1, <2>2, <2>5, <2>7, AggregateMeans, CouncilAssumption DEF chosen
    <3>3. Combined(baseline, panel) >= Combined(baseline, p)
        BY <2>1, <2>2, <2>4, CombinedMeans
    <3> QED BY <3>1, <3>2, <3>3 DEF chosen
  <2> QED BY <2>6, <2>7 DEF chosen
<1>2. Inv => IneligibleOnlyCautious
    BY <1>1 DEF IneligibleOnlyCautious
<1> QED BY <1>2, Invariance, PTL
=============================================================================
