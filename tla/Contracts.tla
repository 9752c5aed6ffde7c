----------------------------- MODULE Contracts ------------------------------
(***************************************************************************)
(* moiras/contracts.py: the values the parts of Moiras hand to each other. *)
(*                                                                         *)
(* The dataclasses validate their fields when they are built, so a value   *)
(* that exists is in these sets.  Scores are in tenths: the code's 10.0 is *)
(* 100 here, which tells every threshold and spread apart that it has.     *)
(* Ids, confidence, mitigation codes and opinions' own reason codes are    *)
(* left out: nothing in src/moiras decides on them.                        *)
(***************************************************************************)
EXTENDS Integers

CONSTANTS Roles,         \* CouncilRole: SECURITY, INTEGRITY, GOVERNANCE, OPERATIONS
          NotAnOpinion,  \* anything in a panel that is no CouncilOpinion
          None,          \* Python's None
          Raised         \* the outcome of a call that raises

(* One look at an execution.  attempt stands for execution_id, attempt_id  *)
(* and profile together; lifecycle_state is left out, nothing reads it.    *)
ExecutionSnapshots ==
    [attempt : Nat, utc : Nat, offset : Nat, progress : Nat, activity : Nat, artifact : Nat,
     authorization : BOOLEAN, credential : BOOLEAN, blocked : BOOLEAN, terminal : BOOLEAN]

ActionTypes == {"PUBLIC_WEB_READ", "CREATE_TEMP_FILE", "EDIT_DOCUMENTATION",
                "CREATE_SENSITIVE_CONFIG", "EDIT_CODE", "EDIT_AUTH",
                "DELETE_REPRODUCIBLE_CACHE", "DELETE_UNIQUE_FILE",
                "DELETE_BROAD_PATH", "DATABASE_DELETE", "DATABASE_DROP",
                "REQUEST_SUDO", "REQUEST_CREDENTIAL", "EXTERNAL_SEND",
                "CREATE_PRIVILEGED_USER", "AMBIGUOUS"}

Environments    == {"DISPOSABLE", "DEVELOPMENT", "PRODUCTION", "UNKNOWN"}
Reversibilities == {"REVERSIBLE", "PARTIAL", "IRREVERSIBLE", "UNKNOWN"}
Scopes          == {"SINGLE", "LIMITED", "BROAD", "UNKNOWN"}

ActionRequests ==
    [type : ActionTypes, environment : Environments, reversibility : Reversibilities,
     scope : Scopes, sensitive : BOOLEAN, external : BOOLEAN]

Dimensions == {"REVERSIBILITY", "SCOPE", "ENVIRONMENT", "SENSITIVE_DATA", "EXTERNAL_EXPOSURE"}

Scores == 0..100

ActionReasons ==
    {"HARD_STOP_ACTION", "HIGH_SEVERITY_ACTION_TYPE", "ZERO_RISK_EXEMPTION",
     "IRREVERSIBLE_OR_PARTIAL", "BROAD_OR_UNKNOWN_SCOPE",
     "PRODUCTION_OR_UNKNOWN_ENVIRONMENT", "SENSITIVE_DATA_INVOLVED", "EXTERNAL_SIDE_EFFECT"}

CouncilReasons ==
    {"SCORE_TEN", "COUNCIL_INCOMPLETE", "COUNCIL_DUPLICATE_ROLE", "COUNCIL_INELIGIBLE_MODEL",
     "COUNCIL_VETO", "COUNCIL_DIVERGENCE", "RISK_BAND_HUMAN", "RISK_BAND_MITIGATE",
     "NON_DISPOSABLE_ENVIRONMENT", "SHADOW_CANDIDATE_ONLY"}

ReasonCodes == ActionReasons \cup CouncilReasons

(* Reason codes are kept as a set: they have an order in the code, and no  *)
(* duplicates, and nothing decides on either.                              *)
RiskAssessments ==
    [score : Scores, dimensions : [Dimensions -> Scores],
     reasons : SUBSET ReasonCodes, bypass : BOOLEAN]

SentinelClasses ==
    {"REAL_PROGRESS", "ACTIVITY_WITHOUT_PROGRESS", "PROBABLE_INACTIVITY", "LEGITIMATE_WAIT",
     "EXTERNAL_BLOCK", "INDETERMINATE"}

EvidenceCodes ==
    {"PROGRESS_COUNTER_INCREASED", "ARTIFACT_REVISION_INCREASED", "BECAME_TERMINAL",
     "ACTIVITY_COUNTER_INCREASED", "NO_PROGRESS_NO_ACTIVITY", "IDLE_THRESHOLD_EXCEEDED",
     "IDLE_THRESHOLD_NOT_EXCEEDED", "WAITING_FOR_AUTHORIZATION", "WAITING_FOR_CREDENTIAL",
     "EXTERNAL_BLOCK_FLAG"}

SentinelResults == [class : SentinelClasses, evidence : SUBSET EvidenceCodes]

Classes == {"FRONTIER", "CAPABLE_GENERAL", "EDGE", "UNKNOWN"}

CouncilOpinions == [role : Roles, class : Classes, score : Scores, veto : BOOLEAN]

Eligible(o) == o.class \in {"FRONTIER", "CAPABLE_GENERAL"}

Verdicts == {"STOP_AND_HUMAN", "HUMAN_REQUIRED", "MITIGATE_AND_REASSESS",
             "SHADOW_AUTOAPPROVE_CANDIDATE"}

(* executed is always FALSE and mode always "shadow": the constructor      *)
(* refuses anything else.                                                  *)
CouncilDecisions ==
    [verdict : Verdicts, score : Scores, bypassed : BOOLEAN, reasons : SUBSET ReasonCodes]
=============================================================================
