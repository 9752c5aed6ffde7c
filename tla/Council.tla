------------------------------ MODULE Council -------------------------------
(***************************************************************************)
(* moiras/council.py: aggregate turns a baseline assessment and a panel of *)
(* role opinions into a shadow verdict.  A pure function of its arguments; *)
(* the panel is a sequence, in whatever order the caller heard it.         *)
(***************************************************************************)
EXTENDS Contracts, Sequences, FiniteSetsExt

DivergenceLimit == 30
HumanRequiredFloor == 70
MitigateFloor == 40

-----------------------------------------------------------------------------
(* Selecting the panel.                                                    *)

IsHardStop(b) == b.bypass \/ b.score >= 100

Opinions(p) == {p[k] : k \in {j \in DOMAIN p : p[j] # NotAnOpinion}}

Scored(p) == {o.score : o \in Opinions(p)}

(* Mutant: a later opinion overwrites an earlier one's veto.               *)
VetoedLast(p) == p[Len(p)].veto

Vetoed(p) == \E o \in Opinions(p) : o.veto

(* The loop over the opinions stops at the first of these.                 *)
Spoilers(p) == {k \in DOMAIN p : p[k] = NotAnOpinion \/ ~Eligible(p[k])}

Speakers(p, r) == {k \in DOMAIN p : p[k] # NotAnOpinion /\ p[k].role = r}

Duplicated(p) == \E r \in Roles : Cardinality(Speakers(p, r)) > 1
Missing(p)    == \E r \in Roles : Speakers(p, r) = {}

(* Mutant: a panel is usable as soon as every role has spoken.             *)
SelectionOfFirst(p) ==
    IF Spoilers(p) # {}
    THEN IF p[Min(Spoilers(p))] = NotAnOpinion THEN "AGGREGATION_ERROR"
                                                ELSE "COUNCIL_INELIGIBLE_MODEL"
    ELSE IF ~Missing(p) THEN "SELECTED"
    ELSE IF Duplicated(p) THEN "COUNCIL_DUPLICATE_ROLE"
    ELSE "COUNCIL_INCOMPLETE"

(* Why the panel cannot be used, or "SELECTED".                            *)
Selection(p) ==
    IF Spoilers(p) # {}
    THEN IF p[Min(Spoilers(p))] = NotAnOpinion THEN "AGGREGATION_ERROR"
                                                ELSE "COUNCIL_INELIGIBLE_MODEL"
    ELSE IF Duplicated(p) THEN "COUNCIL_DUPLICATE_ROLE"
    ELSE IF Len(p) # Cardinality(Roles) \/ Missing(p) THEN "COUNCIL_INCOMPLETE"
    ELSE "SELECTED"

(* Mutant: the limit itself diverges.                                      *)
DivergesAtLimit(p) == Max(Scored(p)) - Min(Scored(p)) >= DivergenceLimit

Diverges(p) == Max(Scored(p)) - Min(Scored(p)) > DivergenceLimit

(* Mutants: the baseline is forgotten once the council has spoken; the     *)
(* last opinion's score replaces the worst; scores are added up.           *)
CombinedAdded(b, p) == b.score + Max({0} \cup Scored(p))
CombinedWithoutBaseline(b, p) == IF Scored(p) = {} THEN b.score ELSE Max(Scored(p))
CombinedWithLast(b, p) ==
    IF p = <<>> \/ p[Len(p)] = NotAnOpinion THEN b.score
    ELSE Max({b.score, p[Len(p)].score})

(* The score reported, whatever the verdict.                               *)
Combined(b, p) == Max({b.score} \cup Scored(p))

(* Mutant: the floor of the highest band belongs to the one below.         *)
BandAboveFloor(score, env) ==
    IF score > HumanRequiredFloor
    THEN [verdict |-> "HUMAN_REQUIRED", reason |-> "RISK_BAND_HUMAN"]
    ELSE IF score >= MitigateFloor
    THEN [verdict |-> "MITIGATE_AND_REASSESS", reason |-> "RISK_BAND_MITIGATE"]
    ELSE IF env = "DISPOSABLE"
    THEN [verdict |-> "SHADOW_AUTOAPPROVE_CANDIDATE", reason |-> "SHADOW_CANDIDATE_ONLY"]
    ELSE [verdict |-> "HUMAN_REQUIRED", reason |-> "NON_DISPOSABLE_ENVIRONMENT"]

Band(score, env) ==
    IF score >= HumanRequiredFloor
    THEN [verdict |-> "HUMAN_REQUIRED", reason |-> "RISK_BAND_HUMAN"]
    ELSE IF score >= MitigateFloor
    THEN [verdict |-> "MITIGATE_AND_REASSESS", reason |-> "RISK_BAND_MITIGATE"]
    ELSE IF env = "DISPOSABLE"
    THEN [verdict |-> "SHADOW_AUTOAPPROVE_CANDIDATE", reason |-> "SHADOW_CANDIDATE_ONLY"]
    ELSE [verdict |-> "HUMAN_REQUIRED", reason |-> "NON_DISPOSABLE_ENVIRONMENT"]

(* Mutant: the panel is checked before the hard stop is.                   *)
AggregateSelectionFirst(b, p, env) ==
    IF Selection(p) = "AGGREGATION_ERROR" THEN Raised
    ELSE [verdict |-> IF IsHardStop(b) THEN "STOP_AND_HUMAN" ELSE "HUMAN_REQUIRED",
          score |-> Combined(b, p), bypassed |-> IsHardStop(b), reasons |-> b.reasons]

Aggregate(b, p, env) ==
    LET Decide(v, s, by, r) ==
            [verdict |-> v, score |-> s, bypassed |-> by, reasons |-> b.reasons \cup {r}]
        Human(r) == Decide("HUMAN_REQUIRED", Combined(b, p), FALSE, r)
    IN  IF IsHardStop(b)
        THEN Decide("STOP_AND_HUMAN", 100, TRUE,
                    IF b.bypass THEN "HARD_STOP_ACTION" ELSE "SCORE_TEN")
        ELSE IF Selection(p) = "AGGREGATION_ERROR" THEN Raised
        ELSE IF Selection(p) # "SELECTED" THEN Human(Selection(p))
        ELSE IF Vetoed(p) THEN Human("COUNCIL_VETO")
        ELSE IF Diverges(p) THEN Human("COUNCIL_DIVERGENCE")
        ELSE Decide(Band(Combined(b, p), env).verdict, Combined(b, p), FALSE,
                    Band(Combined(b, p), env).reason)

Admits(d) == d # Raised /\ d.verdict = "SHADOW_AUTOAPPROVE_CANDIDATE"
=============================================================================
