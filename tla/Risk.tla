-------------------------------- MODULE Risk --------------------------------
(***************************************************************************)
(* moiras/risk.py: assess, the baseline assessment of one action.  A pure  *)
(* function of the ActionRequest; the final score is the worst of the      *)
(* action type's floor and of the five dimensions.                         *)
(***************************************************************************)
EXTENDS Contracts, FiniteSetsExt

HARD_STOP_ACTIONS == {"DELETE_BROAD_PATH", "DATABASE_DELETE", "DATABASE_DROP",
                      "REQUEST_SUDO", "REQUEST_CREDENTIAL", "CREATE_PRIVILEGED_USER"}

BaselineMinScore ==
    [PUBLIC_WEB_READ           |-> 10, CREATE_TEMP_FILE   |-> 0,
     EDIT_DOCUMENTATION        |-> 20, EDIT_CODE          |-> 30,
     CREATE_SENSITIVE_CONFIG   |-> 60, EDIT_AUTH          |-> 90,
     DELETE_REPRODUCIBLE_CACHE |-> 30, DELETE_UNIQUE_FILE |-> 80,
     EXTERNAL_SEND             |-> 80, AMBIGUOUS          |-> 90,
     DELETE_BROAD_PATH         |-> 100, DATABASE_DELETE    |-> 100,
     DATABASE_DROP             |-> 100, REQUEST_SUDO       |-> 100,
     REQUEST_CREDENTIAL        |-> 100, CREATE_PRIVILEGED_USER |-> 100]

CREATE_ACTIONS == {"CREATE_TEMP_FILE", "CREATE_SENSITIVE_CONFIG", "CREATE_PRIVILEGED_USER"}

(* Mutant: what is not known to be irreversible scores as reversible.      *)
ReversibilityOptimistic ==
    [REVERSIBLE |-> 0, PARTIAL |-> 50, IRREVERSIBLE |-> 80, UNKNOWN |-> 0]

ReversibilityScore == [REVERSIBLE |-> 0, PARTIAL |-> 50, IRREVERSIBLE |-> 80, UNKNOWN |-> 70]
ScopeScore         == [SINGLE |-> 0, LIMITED |-> 40, BROAD |-> 80, UNKNOWN |-> 70]

(* Mutant: production and unknown exchanged with development.              *)
EnvironmentSwapped == [DISPOSABLE |-> 0, DEVELOPMENT |-> 80, PRODUCTION |-> 20, UNKNOWN |-> 70]

EnvironmentScore   == [DISPOSABLE |-> 0, DEVELOPMENT |-> 20, PRODUCTION |-> 80, UNKNOWN |-> 70]

FlagScore(flag) == IF flag THEN 80 ELSE 0

DimensionScores(a) ==
    [REVERSIBILITY     |-> ReversibilityScore[a.reversibility],
     SCOPE             |-> ScopeScore[a.scope],
     ENVIRONMENT       |-> EnvironmentScore[a.environment],
     SENSITIVE_DATA    |-> FlagScore(a.sensitive),
     EXTERNAL_EXPOSURE |-> FlagScore(a.external)]

(* Mutant: the last dimension wins over the worst.                         *)
RiskScoreOfLast(a) == Max({BaselineMinScore[a.type], DimensionScores(a).EXTERNAL_EXPOSURE})

RiskScore(a) == Max({BaselineMinScore[a.type]} \cup Range(DimensionScores(a)))

DimensionReasons(a) ==
    {r \in ActionReasons :
        \/ r = "IRREVERSIBLE_OR_PARTIAL" /\ a.reversibility \in {"PARTIAL", "IRREVERSIBLE"}
        \/ r = "BROAD_OR_UNKNOWN_SCOPE" /\ a.scope \in {"BROAD", "UNKNOWN"}
        \/ r = "PRODUCTION_OR_UNKNOWN_ENVIRONMENT" /\ a.environment \in {"PRODUCTION", "UNKNOWN"}
        \/ r = "SENSITIVE_DATA_INVOLVED" /\ a.sensitive
        \/ r = "EXTERNAL_SIDE_EFFECT" /\ a.external}

TypeReasons(a) ==
    IF RiskScore(a) = 0 THEN {"ZERO_RISK_EXEMPTION"}
    ELSE IF a.type \in CREATE_ACTIONS \/ BaselineMinScore[a.type] >= 80
    THEN {"HIGH_SEVERITY_ACTION_TYPE"}
    ELSE {}

Assess(a) ==
    IF a.type \in HARD_STOP_ACTIONS
    THEN [score |-> 100, dimensions |-> [d \in Dimensions |-> 100],
          reasons |-> {"HARD_STOP_ACTION"}, bypass |-> TRUE]
    ELSE [score |-> RiskScore(a), dimensions |-> DimensionScores(a),
          reasons |-> DimensionReasons(a) \cup TypeReasons(a), bypass |-> FALSE]
=============================================================================
