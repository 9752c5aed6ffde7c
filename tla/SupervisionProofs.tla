-------------------------- MODULE SupervisionProofs -------------------------
(***************************************************************************)
(* Lemmas about the pure functions, for any finite set of roles and panels *)
(* of any length: which panels aggregate selects and what it makes of one, *)
(* what assess says of a request, how the Sentinel classifies two looks,   *)
(* and what supervise makes of them all.  What is proved of those who call *)
(* these functions rests on them.                                          *)
(***************************************************************************)
EXTENDS Supervision, SequenceTheorems, FiniteSetTheorems, WellFoundedInduction, TLAPS

Panels == Seq(CouncilOpinions \cup {NotAnOpinion})

-----------------------------------------------------------------------------
(* Extremes of scores.                                                     *)

(* A set of natural numbers that is not empty has a least element.         *)
LEMMA LeastNatural ==
    ASSUME NEW S \in SUBSET Nat, S # {}
    PROVE  \E x \in S : \A y \in S : x <= y
<1>1. PICK x \in S : \A y \in S : ~(<<y, x>> \in OpToRel(<, Nat))
    BY NatLessThanWellFounded, WFMin
<1>2. OpToRel(<, Nat) = {p \in Nat \X Nat : p[1] < p[2]}
    BY Zenon DEF OpToRel
<1>3. \A y \in S : ~(<<y, x>> \in {p \in Nat \X Nat : p[1] < p[2]})
    BY <1>1, <1>2, Zenon
<1>4. ASSUME NEW y \in S PROVE x <= y
  <2>1. <<y, x>> \in Nat \X Nat /\ <<y, x>>[1] = y /\ <<y, x>>[2] = x
      OBVIOUS
  <2>2. ~(y < x)
      BY <1>3, <2>1
  <2> QED BY <2>1, <2>2
<1> QED BY <1>4

LEMMA MinOfScores ==
    ASSUME NEW S \in SUBSET Nat, S # {}
    PROVE  Min(S) \in S /\ \A y \in S : Min(S) <= y
BY LeastNatural DEF Min

(* Scores are at most 100, so a set of them has a greatest element.        *)
LEMMA MaxOfScores ==
    ASSUME NEW S \in SUBSET Scores, S # {}
    PROVE  Max(S) \in S /\ \A y \in S : Max(S) >= y
<1> DEFINE below == {100 - s : s \in S}
<1>1. below \in SUBSET Nat /\ below # {}
    BY DEF Scores
<1>2. PICK m \in below : \A y \in below : m <= y
    BY <1>1, LeastNatural
<1>3. PICK x \in S : m = 100 - x
    BY <1>2
<1>4. \A y \in S : x >= y
    BY <1>2, <1>3 DEF Scores
<1> QED BY <1>4 DEF Max
-----------------------------------------------------------------------------
(* Panels.                                                                 *)

LEMMA PanelMembers ==
    ASSUME NEW p \in Panels
    PROVE  /\ Len(p) \in Nat /\ DOMAIN p = 1..Len(p)
           /\ \A k \in DOMAIN p : p[k] \in CouncilOpinions \cup {NotAnOpinion}
           /\ \A k \in DOMAIN p : p[k] # NotAnOpinion => p[k] \in Opinions(p)
           /\ Opinions(p) \subseteq CouncilOpinions
           /\ \A o \in Opinions(p) : o.score \in Scored(p)
           /\ Scored(p) \in SUBSET Scores
<1>1. Len(p) \in Nat /\ DOMAIN p = 1..Len(p)
      /\ \A k \in DOMAIN p : p[k] \in CouncilOpinions \cup {NotAnOpinion}
    BY LenProperties, ElementOfSeq DEF Panels
<1>2. Opinions(p) \subseteq CouncilOpinions
    BY <1>1 DEF Opinions
<1>3. Scored(p) \in SUBSET Scores
    BY <1>2 DEF Scored, CouncilOpinions
<1> QED BY <1>1, <1>2, <1>3 DEF Opinions, Scored

LEMMA SpeakersFinite ==
    ASSUME NEW p \in Panels, NEW r
    PROVE  IsFiniteSet(Speakers(p, r)) /\ Cardinality(Speakers(p, r)) \in Nat
<1>1. IsFiniteSet(DOMAIN p)
    BY PanelMembers, FS_Interval
<1>2. Speakers(p, r) \in SUBSET DOMAIN p
    BY DEF Speakers
<1> QED BY <1>1, <1>2, FS_Subset, FS_CardinalityType

(* A role is duplicated iff two members of the panel speak for it.         *)
LEMMA DuplicatedMeans ==
    ASSUME NEW p \in Panels
    PROVE  Duplicated(p) <=>
              \E r \in Roles : \E j, k \in Speakers(p, r) : j # k
<1>1. ASSUME NEW r \in Roles
      PROVE  Cardinality(Speakers(p, r)) > 1 <=> \E j, k \in Speakers(p, r) : j # k
  <2> DEFINE S == Speakers(p, r)
  <2>1. IsFiniteSet(S) /\ Cardinality(S) \in Nat
      BY SpeakersFinite
  <2> HIDE DEF S
  <2>2. Cardinality(S) = 0 <=> S = {}
      BY <2>1, FS_EmptySet
  <2>3. Cardinality(S) = 1 <=> \E x : S = {x}
      BY <2>1, FS_Singleton
  <2>4. (\E j, k \in S : j # k) <=> S # {} /\ ~\E x : S = {x}
      OBVIOUS
  <2>5. Cardinality(S) > 1 <=> Cardinality(S) # 0 /\ Cardinality(S) # 1
      BY <2>1
  <2> QED BY <2>2, <2>3, <2>4, <2>5 DEF S
<1> QED BY <1>1 DEF Duplicated

(* Every role speaks, each with one voice.                                 *)
OneVoicePerRole(p) ==
    \A r \in Roles : \E k \in DOMAIN p : \A j \in DOMAIN p : p[j].role = r <=> j = k

AllEligible(p) == \A k \in DOMAIN p : p[k] # NotAnOpinion /\ Eligible(p[k])

(* Then there are as many members as roles.                                *)
LEMMA AsManyAsRoles ==
    ASSUME NEW p \in Panels, AllEligible(p), OneVoicePerRole(p)
    PROVE  Len(p) = Cardinality(Roles)
<1> DEFINE f == [k \in 1..Len(p) |-> p[k].role]
<1>1. Len(p) \in Nat /\ DOMAIN p = 1..Len(p) /\ IsFiniteSet(1..Len(p))
      /\ Cardinality(1..Len(p)) = Len(p)
    BY PanelMembers, FS_Interval
<1>2. \A k \in 1..Len(p) : p[k].role \in Roles
    BY PanelMembers DEF AllEligible, CouncilOpinions
<1>3. f \in [1..Len(p) -> Roles]
    BY <1>2
<1>4. \A r \in Roles : \E k \in 1..Len(p) : f[k] = r
    BY <1>1 DEF OneVoicePerRole
<1>5. \A j, k \in 1..Len(p) : f[j] = f[k] => j = k
    BY <1>1, <1>2 DEF OneVoicePerRole
<1> HIDE DEF f
<1>6. f \in Surjection(1..Len(p), Roles) /\ f \in Injection(1..Len(p), Roles)
    BY <1>3, <1>4, <1>5 DEF Surjection, Injection, IsInjective
<1> QED BY <1>1, <1>6, FS_Surjection

(* The panels that are selected.                                           *)
LEMMA SelectedMeans ==
    ASSUME NEW p \in Panels
    PROVE  Selection(p) = "SELECTED" <=> AllEligible(p) /\ OneVoicePerRole(p)
<1>1. Spoilers(p) = {} <=> AllEligible(p)
    BY DEF Spoilers, AllEligible
<1>2. Selection(p) = "SELECTED" <=>
         /\ Spoilers(p) = {} /\ ~Duplicated(p) /\ ~Missing(p) /\ Len(p) = Cardinality(Roles)
    BY DEF Selection
<1>3. ASSUME AllEligible(p) PROVE OneVoicePerRole(p) <=> ~Duplicated(p) /\ ~Missing(p)
  <2>1. \A r \in Roles : Speakers(p, r) = {k \in DOMAIN p : p[k].role = r}
      BY <1>3 DEF Speakers, AllEligible
  <2>2. ~Duplicated(p) /\ ~Missing(p) <=>
            \A r \in Roles : \E k : Speakers(p, r) = {k}
    <3>1. \A S : S # {} /\ ~(\E j, k \in S : j # k) <=> \E k : S = {k}
        OBVIOUS
    <3>2. \A r \in Roles : (\E k : Speakers(p, r) = {k}) <=>
              Speakers(p, r) # {} /\ ~\E j, k \in Speakers(p, r) : j # k
        BY <3>1, Zenon
    <3> QED BY <3>2, DuplicatedMeans, Zenon DEF Missing
  <2>3. ASSUME NEW r \in Roles
        PROVE  (\E k : Speakers(p, r) = {k}) <=>
                   \E k \in DOMAIN p : \A j \in DOMAIN p : p[j].role = r <=> j = k
      BY <2>1
  <2> QED BY <2>2, <2>3 DEF OneVoicePerRole
<1> QED BY <1>1, <1>2, <1>3, AsManyAsRoles

-----------------------------------------------------------------------------
(* Aggregate.                                                              *)

LEMMA CombinedMeans ==
    ASSUME NEW b \in RiskAssessments, NEW p \in Panels
    PROVE  /\ Combined(b, p) \in Scores
           /\ Combined(b, p) = b.score \/ \E o \in Opinions(p) : Combined(b, p) = o.score
           /\ Combined(b, p) >= b.score
           /\ \A o \in Opinions(p) : Combined(b, p) >= o.score
<1>1. {b.score} \cup Scored(p) \in SUBSET Scores /\ {b.score} \cup Scored(p) # {}
    BY PanelMembers DEF RiskAssessments
<1>2. /\ Combined(b, p) \in {b.score} \cup Scored(p)
      /\ \A y \in {b.score} \cup Scored(p) : Combined(b, p) >= y
    BY <1>1, MaxOfScores DEF Combined
<1> QED BY <1>1, <1>2 DEF Scored

LEMMA DivergesMeans ==
    ASSUME NEW p \in Panels, Opinions(p) # {}
    PROVE  Diverges(p) <=> \E o, q \in Opinions(p) : o.score - q.score > 30
<1>1. Scored(p) \in SUBSET Scores /\ Scored(p) # {} /\ Scored(p) \in SUBSET Nat
  <2>1. Scores \in SUBSET Nat
      BY DEF Scores
  <2>2. PICK o : o \in Opinions(p)
      OBVIOUS
  <2> QED BY <2>1, <2>2, PanelMembers
<1>2. /\ Max(Scored(p)) \in Scored(p) /\ \A y \in Scored(p) : Max(Scored(p)) >= y
      /\ Min(Scored(p)) \in Scored(p) /\ \A y \in Scored(p) : Min(Scored(p)) <= y
    BY <1>1, MaxOfScores, MinOfScores
<1>3. (\E o, q \in Opinions(p) : o.score - q.score > 30) <=>
          \E x, y \in Scored(p) : x - y > 30
    BY DEF Scored
<1>4. (\E x, y \in Scored(p) : x - y > 30) <=> Max(Scored(p)) - Min(Scored(p)) > 30
    BY <1>1, <1>2
<1> QED BY <1>3, <1>4 DEF Diverges, DivergenceLimit

Stop(b) ==
    [verdict |-> "STOP_AND_HUMAN", score |-> 100, bypassed |-> TRUE,
     reasons |-> b.reasons \cup {IF b.bypass THEN "HARD_STOP_ACTION" ELSE "SCORE_TEN"}]

(* Panels that are judged by the score.                                    *)
Usable(p) == Selection(p) = "SELECTED" /\ ~Vetoed(p) /\ ~Diverges(p)

(* What aggregate makes of a baseline and a panel.                         *)
LEMMA AggregateMeans ==
    ASSUME NEW b \in RiskAssessments, NEW p \in Panels, NEW env \in Environments,
           Raised \notin CouncilDecisions
    PROVE  LET d == Aggregate(b, p, env) IN
           /\ d \in CouncilDecisions \cup {Raised}
           /\ IsHardStop(b) => d = Stop(b) /\ ~Admits(d)
           /\ ~IsHardStop(b) => (d = Raised <=> Selection(p) = "AGGREGATION_ERROR")
           /\ ~IsHardStop(b) /\ d # Raised =>
                 /\ d.score = Combined(b, p) /\ d.verdict # "STOP_AND_HUMAN"
                 /\ d.verdict = IF Usable(p) THEN Band(Combined(b, p), env).verdict
                                ELSE "HUMAN_REQUIRED"
                 /\ Selection(p) # "SELECTED" => Selection(p) \in d.reasons
                 /\ Admits(d) <=> /\ Selection(p) = "SELECTED"
                                 /\ ~Vetoed(p) /\ ~Diverges(p)
                                 /\ Combined(b, p) < 40 /\ env = "DISPOSABLE"
<1> DEFINE d == Aggregate(b, p, env)
           Made(v, s, by, r) ==
               [verdict |-> v, score |-> s, bypassed |-> by, reasons |-> b.reasons \cup {r}]
<1>1. b.reasons \in SUBSET ReasonCodes /\ b.score \in Scores /\ Combined(b, p) \in Scores
    BY CombinedMeans DEF RiskAssessments
<1>2. ASSUME NEW v \in Verdicts, NEW s \in Scores, NEW by \in BOOLEAN, NEW r \in ReasonCodes
      PROVE  /\ Made(v, s, by, r) \in CouncilDecisions /\ Made(v, s, by, r) # Raised
             /\ Made(v, s, by, r).score = s /\ Made(v, s, by, r).verdict = v
             /\ r \in Made(v, s, by, r).reasons
             /\ Admits(Made(v, s, by, r)) <=> v = "SHADOW_AUTOAPPROVE_CANDIDATE"
  <2>1. Made(v, s, by, r) \in CouncilDecisions
      BY <1>1, <1>2 DEF CouncilDecisions
  <2> QED BY <2>1 DEF Admits
<1>3. CASE IsHardStop(b)
  <2>1. d = Made("STOP_AND_HUMAN", 100, TRUE,
                 IF b.bypass THEN "HARD_STOP_ACTION" ELSE "SCORE_TEN")
      BY <1>3 DEF Aggregate
  <2>2. 100 \in Scores /\ "STOP_AND_HUMAN" \in Verdicts
        /\ (IF b.bypass THEN "HARD_STOP_ACTION" ELSE "SCORE_TEN") \in ReasonCodes
      BY DEF Scores, Verdicts, ReasonCodes, ActionReasons, CouncilReasons
  <2> DEFINE r == IF b.bypass THEN "HARD_STOP_ACTION" ELSE "SCORE_TEN"
  <2>3. /\ Made("STOP_AND_HUMAN", 100, TRUE, r) \in CouncilDecisions
        /\ ~Admits(Made("STOP_AND_HUMAN", 100, TRUE, r))
    <3>1. r \in ReasonCodes /\ TRUE \in BOOLEAN
          /\ "STOP_AND_HUMAN" # "SHADOW_AUTOAPPROVE_CANDIDATE"
        BY <2>2
    <3> HIDE DEF Made, r
    <3> QED BY <1>2, <2>2, <3>1, Zenon
  <2> QED BY <1>3, <2>1, <2>3 DEF Stop
<1>4. CASE ~IsHardStop(b) /\ Selection(p) = "AGGREGATION_ERROR"
  <2>1. d = Raised
      BY <1>4 DEF Aggregate
  <2> QED BY <1>4, <2>1
<1>5. CASE ~IsHardStop(b) /\ Selection(p) # "AGGREGATION_ERROR"
  <2>1. PICK v \in Verdicts, r \in ReasonCodes :
            /\ d = Made(v, Combined(b, p), FALSE, r)
            /\ Selection(p) # "SELECTED" => r = Selection(p)
            /\ v # "STOP_AND_HUMAN"
            /\ v = IF Usable(p) THEN Band(Combined(b, p), env).verdict ELSE "HUMAN_REQUIRED"
            /\ v = "SHADOW_AUTOAPPROVE_CANDIDATE" <=>
                  /\ Selection(p) = "SELECTED"
                  /\ ~Vetoed(p) /\ ~Diverges(p)
                  /\ Combined(b, p) < 40 /\ env = "DISPOSABLE"
    <3> USE DEF Verdicts, ReasonCodes, CouncilReasons, Usable
    <3>1. Selection(p) \in {"COUNCIL_INELIGIBLE_MODEL", "COUNCIL_DUPLICATE_ROLE",
                           "COUNCIL_INCOMPLETE", "SELECTED"}
        BY <1>5 DEF Selection
    <3>2. CASE Selection(p) # "SELECTED"
      <4>1. d = Made("HUMAN_REQUIRED", Combined(b, p), FALSE, Selection(p))
          BY <1>5, <3>2 DEF Aggregate
      <4> QED BY <3>1, <3>2, <4>1
    <3>3. CASE Selection(p) = "SELECTED" /\ Vetoed(p)
      <4>1. d = Made("HUMAN_REQUIRED", Combined(b, p), FALSE, "COUNCIL_VETO")
          BY <1>5, <3>3 DEF Aggregate
      <4> QED BY <3>3, <4>1
    <3>4. CASE Selection(p) = "SELECTED" /\ ~Vetoed(p) /\ Diverges(p)
      <4>1. d = Made("HUMAN_REQUIRED", Combined(b, p), FALSE, "COUNCIL_DIVERGENCE")
          BY <1>5, <3>4 DEF Aggregate
      <4> QED BY <3>4, <4>1
    <3>5. CASE Selection(p) = "SELECTED" /\ ~Vetoed(p) /\ ~Diverges(p)
      <4> DEFINE s == Combined(b, p)
                 band == Band(s, env)
      <4>1. d = Made(band.verdict, s, FALSE, band.reason)
          BY <1>5, <3>5 DEF Aggregate
      <4>2. band.verdict \in Verdicts /\ band.reason \in ReasonCodes
            /\ band.verdict # "STOP_AND_HUMAN"
            /\ (band.verdict = "SHADOW_AUTOAPPROVE_CANDIDATE" <=> s < 40 /\ env = "DISPOSABLE")
          BY <1>1 DEF Band, HumanRequiredFloor, MitigateFloor, Scores
      <4>3. Usable(p) /\ band.verdict = Band(Combined(b, p), env).verdict
          BY <3>5
      <4> HIDE DEF s, band, Usable
      <4> QED BY <3>5, <4>1, <4>2, <4>3 DEF s
    <3> QED BY <3>2, <3>3, <3>4, <3>5
  <2>2. /\ d \in CouncilDecisions /\ d # Raised
        /\ d.score = Combined(b, p) /\ d.verdict = v /\ r \in d.reasons
        /\ Admits(d) <=> v = "SHADOW_AUTOAPPROVE_CANDIDATE"
    <3> DEFINE s == Combined(b, p)
    <3>1. s \in Scores /\ FALSE \in BOOLEAN
        BY <1>1
    <3>2. d = Made(v, s, FALSE, r)
        BY <2>1
    <3> HIDE DEF Made, d, s
    <3>3. /\ Made(v, s, FALSE, r) \in CouncilDecisions /\ Made(v, s, FALSE, r) # Raised
          /\ Made(v, s, FALSE, r).score = s /\ Made(v, s, FALSE, r).verdict = v
          /\ r \in Made(v, s, FALSE, r).reasons
          /\ Admits(Made(v, s, FALSE, r)) <=> v = "SHADOW_AUTOAPPROVE_CANDIDATE"
        BY <1>2, <3>1, Zenon
    <3> QED BY <3>2, <3>3, Zenon DEF s
  <2>3. /\ d # Raised /\ d.verdict # "STOP_AND_HUMAN"
        /\ d.verdict = IF Usable(p) THEN Band(Combined(b, p), env).verdict
                       ELSE "HUMAN_REQUIRED"
        /\ Selection(p) # "SELECTED" => Selection(p) \in d.reasons
        /\ Admits(d) <=> /\ Selection(p) = "SELECTED"
                        /\ ~Vetoed(p) /\ ~Diverges(p)
                        /\ Combined(b, p) < 40 /\ env = "DISPOSABLE"
    <3> HIDE DEF Made, d
    <3> QED BY <2>1, <2>2
  <2> QED BY <1>5, <2>2, <2>3
<1> QED BY <1>3, <1>4, <1>5

-----------------------------------------------------------------------------
(* assess.                                                                 *)

(* The five dimensions, each from its own field.                           *)
FiveScores(a) ==
    {ReversibilityScore[a.reversibility], ScopeScore[a.scope],
     EnvironmentScore[a.environment], FlagScore(a.sensitive), FlagScore(a.external)}

LEMMA DimensionsMean ==
    ASSUME NEW a \in ActionRequests
    PROVE  /\ DimensionScores(a) \in [Dimensions -> Scores]
           /\ Range(DimensionScores(a)) = FiveScores(a)
           /\ \A s \in FiveScores(a) : s \in Scores /\ s <= 80
<1> USE DEF DimensionScores, Dimensions
<1>1. /\ a.type \in ActionTypes /\ a.environment \in Environments
      /\ a.reversibility \in Reversibilities /\ a.scope \in Scopes
      /\ a.sensitive \in BOOLEAN /\ a.external \in BOOLEAN
    BY DEF ActionRequests
<1>2. \A s \in FiveScores(a) : s \in Scores /\ s <= 80
  <2>1. ReversibilityScore[a.reversibility] \in {0, 50, 70, 80}
      BY <1>1 DEF ReversibilityScore, Reversibilities
  <2>2. ScopeScore[a.scope] \in {0, 40, 70, 80}
      BY <1>1 DEF ScopeScore, Scopes
  <2>3. EnvironmentScore[a.environment] \in {0, 20, 70, 80}
      BY <1>1 DEF EnvironmentScore, Environments
  <2>4. FlagScore(a.sensitive) \in {0, 80} /\ FlagScore(a.external) \in {0, 80}
      BY DEF FlagScore
  <2> QED BY <2>1, <2>2, <2>3, <2>4 DEF FiveScores, Scores
<1>3. DOMAIN DimensionScores(a) = Dimensions
    OBVIOUS
<1>4. /\ DimensionScores(a)["REVERSIBILITY"] = ReversibilityScore[a.reversibility]
      /\ DimensionScores(a)["SCOPE"] = ScopeScore[a.scope]
      /\ DimensionScores(a)["ENVIRONMENT"] = EnvironmentScore[a.environment]
      /\ DimensionScores(a)["SENSITIVE_DATA"] = FlagScore(a.sensitive)
      /\ DimensionScores(a)["EXTERNAL_EXPOSURE"] = FlagScore(a.external)
    OBVIOUS
<1> DEFINE f == DimensionScores(a)
<1>5. f = [d \in Dimensions |-> f[d]]
    OBVIOUS
<1> HIDE DEF f
<1>6. Range(f) = FiveScores(a)
    BY <1>3, <1>4 DEF Range, FiveScores, f
<1>7. \A d \in Dimensions : f[d] \in Scores
    BY <1>2, <1>4 DEF FiveScores, f
<1> QED BY <1>2, <1>5, <1>6, <1>7 DEF f

LEMMA RiskMeans ==
    ASSUME NEW a \in ActionRequests
    PROVE  /\ RiskScore(a) \in Scores
           /\ RiskScore(a) = BaselineMinScore[a.type] \/ RiskScore(a) \in FiveScores(a)
           /\ RiskScore(a) >= BaselineMinScore[a.type]
           /\ \A s \in FiveScores(a) : RiskScore(a) >= s
<1>1. BaselineMinScore[a.type] \in Scores
    BY DEF ActionRequests, ActionTypes, BaselineMinScore, Scores
<1>2. FiveScores(a) \in SUBSET Scores
    BY DimensionsMean
<1> DEFINE S == {BaselineMinScore[a.type]} \cup FiveScores(a)
<1>3. RiskScore(a) = Max(S)
    BY DimensionsMean DEF RiskScore
<1>4. S \in SUBSET Scores /\ S # {}
    BY <1>1, <1>2
<1>5. Max(S) \in S /\ \A y \in S : Max(S) >= y
    BY <1>4, MaxOfScores
<1> QED BY <1>1, <1>2, <1>3, <1>5

(* An assessment is well formed, and aggregate takes it for a hard stop    *)
(* exactly when the action's type is one: no other reaches 100.            *)
LEMMA AssessMeans ==
    ASSUME NEW a \in ActionRequests
    PROVE  /\ Assess(a) \in RiskAssessments
           /\ IsHardStop(Assess(a)) <=> a.type \in HARD_STOP_ACTIONS
           /\ Assess(a).score =
                  IF a.type \in HARD_STOP_ACTIONS THEN 100 ELSE RiskScore(a)
<1>1. CASE a.type \in HARD_STOP_ACTIONS
  <2>1. Assess(a) = [score |-> 100, dimensions |-> [d \in Dimensions |-> 100],
                     reasons |-> {"HARD_STOP_ACTION"}, bypass |-> TRUE]
      BY <1>1 DEF Assess
  <2>2. 100 \in Scores /\ {"HARD_STOP_ACTION"} \in SUBSET ReasonCodes
      BY DEF Scores, ReasonCodes, ActionReasons
  <2>3. [d \in Dimensions |-> 100] \in [Dimensions -> Scores]
      BY <2>2
  <2> QED BY <1>1, <2>1, <2>2, <2>3 DEF RiskAssessments, IsHardStop
<1>2. CASE a.type \notin HARD_STOP_ACTIONS
  <2> DEFINE reasons == DimensionReasons(a) \cup TypeReasons(a)
  <2>1. Assess(a) = [score |-> RiskScore(a), dimensions |-> DimensionScores(a),
                     reasons |-> reasons, bypass |-> FALSE]
      BY <1>2 DEF Assess
  <2>2. reasons \in SUBSET ReasonCodes
    <3>1. DimensionReasons(a) \in SUBSET ReasonCodes
        BY DEF DimensionReasons, ReasonCodes
    <3>2. TypeReasons(a) \in SUBSET ReasonCodes
        BY DEF TypeReasons, ReasonCodes, ActionReasons
    <3> QED BY <3>1, <3>2
  <2>3. RiskScore(a) < 100
    <3>1. BaselineMinScore[a.type] \in 0..90
        BY <1>2 DEF ActionRequests, ActionTypes, HARD_STOP_ACTIONS, BaselineMinScore
    <3>2. CASE RiskScore(a) \in FiveScores(a)
      <4>1. RiskScore(a) \in Scores /\ RiskScore(a) <= 80
          BY <3>2, DimensionsMean
      <4> QED BY <4>1 DEF Scores
    <3> QED BY <3>1, <3>2, RiskMeans
  <2>4. RiskScore(a) \in Scores /\ DimensionScores(a) \in [Dimensions -> Scores]
      BY DimensionsMean, RiskMeans
  <2> HIDE DEF reasons
  <2>5. Assess(a) \in RiskAssessments
      BY <2>1, <2>2, <2>4 DEF RiskAssessments
  <2>6. Assess(a).score = RiskScore(a) /\ Assess(a).bypass = FALSE
      BY <2>1
  <2>7. ~IsHardStop(Assess(a))
      BY <2>3, <2>4, <2>6 DEF IsHardStop, Scores
  <2> QED BY <1>2, <2>5, <2>6, <2>7
<1> QED BY <1>1, <1>2

-----------------------------------------------------------------------------
(* What compare_snapshots says of two snapshots, for each class that a     *)
(* property is about.                                                      *)

Compares(f, s, t) == t >= 0 /\ Comparable(f, s)

(* Real progress: a counter of progress has gone up, or the end was seen.  *)
LEMMA ProgressMeans ==
    ASSUME NEW f \in ExecutionSnapshots, NEW s \in ExecutionSnapshots
    PROVE  /\ Progress(f, s) \subseteq EvidenceCodes
           /\ Progress(f, s) # {} <=>
                 \/ s.progress > f.progress
                 \/ s.artifact > f.artifact
                 \/ s.terminal /\ ~f.terminal
<1>1. {"PROGRESS_COUNTER_INCREASED", "ARTIFACT_REVISION_INCREASED", "BECAME_TERMINAL"}
        \subseteq EvidenceCodes
    BY DEF EvidenceCodes
<1>2. Progress(f, s) \subseteq EvidenceCodes
    BY DEF Progress
<1>3. \A e : e \in Progress(f, s) <=>
        /\ e \in EvidenceCodes
        /\ \/ e = "PROGRESS_COUNTER_INCREASED" /\ s.progress > f.progress
           \/ e = "ARTIFACT_REVISION_INCREASED" /\ s.artifact > f.artifact
           \/ e = "BECAME_TERMINAL" /\ s.terminal /\ ~f.terminal
    BY DEF Progress
<1> QED BY <1>1, <1>2, <1>3

(* Comparable, without its quantifier.                                     *)
LEMMA ComparableMeans ==
    ASSUME NEW f \in ExecutionSnapshots, NEW s \in ExecutionSnapshots
    PROVE  Comparable(f, s) <=>
              /\ f.attempt = s.attempt /\ f.utc <= s.utc /\ f.offset <= s.offset
              /\ f.progress <= s.progress /\ f.activity <= s.activity
              /\ f.artifact <= s.artifact
<1>1. (\A c \in Counters : f[c] <= s[c]) <=>
         f["progress"] <= s["progress"] /\ f["activity"] <= s["activity"]
         /\ f["artifact"] <= s["artifact"]
    BY DEF Counters
<1>2. /\ f["progress"] = f.progress /\ s["progress"] = s.progress
      /\ f["activity"] = f.activity /\ s["activity"] = s.activity
      /\ f["artifact"] = f.artifact /\ s["artifact"] = s.artifact
    BY DEF ExecutionSnapshots
<1> QED BY <1>1, <1>2 DEF Comparable

(* Every result is a classification or an exception, and its class is what *)
(* the first of the code's checks that applies says.                       *)
LEMMA Classification ==
    ASSUME NEW f \in ExecutionSnapshots, NEW s \in ExecutionSnapshots, NEW t \in Int
    PROVE  LET r == CompareSnapshots(f, s, t) IN
           /\ ~Compares(f, s, t) => r = Raised
           /\ Compares(f, s, t) =>
                 /\ r \in SentinelResults
                 /\ r.class =
                       IF Progress(f, s) # {} THEN "REAL_PROGRESS"
                       ELSE IF s.blocked THEN "EXTERNAL_BLOCK"
                       ELSE IF s.credential \/ s.authorization THEN "LEGITIMATE_WAIT"
                       ELSE IF s.activity > f.activity THEN "ACTIVITY_WITHOUT_PROGRESS"
                       ELSE IF s.offset - f.offset >= t THEN "PROBABLE_INACTIVITY"
                       ELSE "INDETERMINATE"
<1> USE ProgressMeans DEF CompareSnapshots, Compares
<1>1. CASE ~Compares(f, s, t)
    BY <1>1
<1>2. CASE Compares(f, s, t) /\ Progress(f, s) # {}
    BY <1>2 DEF SentinelResults, SentinelClasses
<1>3. CASE Compares(f, s, t) /\ Progress(f, s) = {}
    BY <1>3 DEF SentinelResults, SentinelClasses, EvidenceCodes, Silence
<1> QED BY <1>1, <1>2, <1>3

-----------------------------------------------------------------------------
(* compare_snapshots and supervise.                                        *)

LEMMA SnapshotsMean ==
    ASSUME NEW x \in Extras, ~Refused(x)
    PROVE  SentinelResult(x) \in SentinelResults \cup {None}
<1>1. CASE x.snapshots = None
    BY <1>1 DEF SentinelResult
<1>2. CASE x.snapshots # None
  <2> DEFINE first == x.snapshots[1]
             second == x.snapshots[2]
             result == CompareSnapshots(first, second, x.threshold)
             Seen(c, e) == [class |-> c, evidence |-> e]
  <2>1. SentinelResult(x) = result /\ result # Raised
      BY <1>2 DEF SentinelResult, Refused
  <2>2. \E c \in SentinelClasses : \E e \in SUBSET EvidenceCodes : result = Seen(c, e)
    <3> HIDE DEF first, second
    <3>1. Progress(first, second) \in SUBSET EvidenceCodes
        BY DEF Progress
    <3> QED BY <2>1, <3>1 DEF CompareSnapshots, Silence, SentinelClasses, EvidenceCodes
  <2> QED BY <2>1, <2>2 DEF SentinelResults
<1> QED BY <1>1, <1>2

(* What supervise makes of its arguments, unless it raises.                *)
LEMMA SuperviseMeans ==
    ASSUME NEW a \in ActionRequests, NEW p \in Panels, NEW x \in Extras,
           Raised \notin CouncilDecisions \cup ShadowReports
    PROVE  LET b == Assess(a)
               d == Aggregate(b, p, a.environment)
               r == Supervise(a, p, x) IN
           /\ r = Raised <=> Refused(x) \/ d = Raised
           /\ r # Raised => /\ r \in ShadowReports
                            /\ r.risk = b /\ r.decision = d
                            /\ r.recommendation = Recommendation[d.verdict]
                            /\ r.counterfactual = Counterfactual[d.verdict]
<1> DEFINE b == Assess(a)
           d == Aggregate(b, p, a.environment)
           r == Report(a, d, SentinelResult(x))
<1>1. b \in RiskAssessments /\ a.environment \in Environments
    BY AssessMeans DEF ActionRequests
<1>2. d \in CouncilDecisions \cup {Raised}
    BY <1>1, AggregateMeans
<1>3. Supervise(a, p, x) = IF Refused(x) \/ d = Raised THEN Raised ELSE r
    BY DEF Supervise
<1>4. /\ r.risk = b /\ r.decision = d
      /\ r.recommendation = Recommendation[d.verdict]
      /\ r.counterfactual = Counterfactual[d.verdict]
    BY DEF Report
<1>5. ASSUME ~Refused(x), d # Raised
      PROVE  r \in ShadowReports
  <2>1. SentinelResult(x) \in SentinelResults \cup {None}
      BY <1>5, SnapshotsMean
  <2>2. d \in CouncilDecisions /\ d.verdict \in Verdicts
      BY <1>2, <1>5 DEF CouncilDecisions
  <2>3. Recommendation[d.verdict] \in Range(Recommendation)
      BY <2>2 DEF Recommendation, Range, Verdicts
  <2>4. Counterfactual[d.verdict] \in Range(Counterfactual)
      BY <2>2 DEF Counterfactual, Range, Verdicts
  <2>5. r = [risk |-> b, decision |-> d, recommendation |-> Recommendation[d.verdict],
             counterfactual |-> Counterfactual[d.verdict], sentinel |-> SentinelResult(x)]
      BY DEF Report
  <2> HIDE DEF r, d, b
  <2> QED BY <1>1, <2>1, <2>2, <2>3, <2>4, <2>5 DEF ShadowReports
<1>6. Raised \notin ShadowReports
    OBVIOUS
<1> HIDE DEF r, d, b
<1> QED BY <1>3, <1>4, <1>5, <1>6 DEF b, d
=============================================================================
