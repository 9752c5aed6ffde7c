----------------------------- MODULE Supervisor -----------------------------
(***************************************************************************)
(* A caller of moiras/supervisor.py that supervises again whenever         *)
(* something changes: another opinion arrives, the action is declared anew *)
(* with one field changed, as after MITIGATE_AND_REASSESS, or snapshots    *)
(* are passed along.                                                       *)
(***************************************************************************)
EXTENDS Supervision

CONSTANTS Requests,     \* the actions the caller declares at first
          FirstPanels,  \* the opinions it may start with
          Menu,         \* what reviewers answer
          GivenExtras,  \* the other arguments it calls with
          MaxPanel      \* bound: opinions in a panel

VARIABLES action, panel, extras, report

vars == <<action, panel, extras, report>>

ASSUME SupervisorAssumption ==
    /\ Roles # {} /\ IsFiniteSet(Roles)
    /\ Requests \subseteq ActionRequests
    /\ Menu \subseteq CouncilOpinions \cup {NotAnOpinion}
    /\ FirstPanels \subseteq Seq(CouncilOpinions \cup {NotAnOpinion})
    /\ GivenExtras \subseteq Extras
    /\ MaxPanel \in Nat
    /\ NotAnOpinion \notin CouncilOpinions
    /\ Raised \notin CouncilDecisions \cup SentinelResults \cup ShadowReports
    /\ None \notin Seq(ExecutionSnapshots \cup {None}) \cup SentinelResults

-----------------------------------------------------------------------------
(* The caller.                                                             *)

Init ==
    /\ action \in Requests
    /\ panel \in FirstPanels
    /\ extras = Plain
    /\ report = Supervise(action, panel, extras)

Hear(o) ==
    /\ Len(panel) < MaxPanel
    /\ panel' = Append(panel, o)
    /\ report' = Supervise(action, panel', extras)
    /\ UNCHANGED <<action, extras>>

(* The same action, declared with one field changed.                       *)
Values == [environment |-> Environments, reversibility |-> Reversibilities,
           scope |-> Scopes, sensitive |-> BOOLEAN, external |-> BOOLEAN]

Revise(f, v) ==
    /\ action[f] # v
    /\ action' = [action EXCEPT ![f] = v]
    /\ report' = Supervise(action', panel, extras)
    /\ UNCHANGED <<panel, extras>>

(* The same supervision with other arguments.                              *)
Watch(x) ==
    /\ extras' = x
    /\ report' = Supervise(action, panel, x)
    /\ UNCHANGED <<action, panel>>

Next == \/ \E o \in Menu : Hear(o)
        \/ \E f \in DOMAIN Values : \E v \in Values[f] : Revise(f, v)
        \/ \E x \in GivenExtras : Watch(x)

Spec == Init /\ [][Next]_vars

-----------------------------------------------------------------------------
(* Properties.                                                             *)

TypeOK ==
    /\ action \in ActionRequests
    /\ panel \in Seq(CouncilOpinions \cup {NotAnOpinion})
    /\ extras \in Extras
    /\ report = Raised \/ report \in ShadowReports

Candidate(r) == r # Raised /\ Admits(r.decision)

(* The six hard stops stop for a human whatever the council says, and      *)
(* whatever else its panel holds; nothing else does.                       *)
HardStopAlwaysStops ==
    ~Refused(extras) =>
        (action.type \in {"DELETE_BROAD_PATH", "DATABASE_DELETE", "DATABASE_DROP",
                          "REQUEST_SUDO", "REQUEST_CREDENTIAL", "CREATE_PRIVILEGED_USER"}
         <=> report # Raised /\ report.decision.verdict = "STOP_AND_HUMAN"
                             /\ report.decision.score = 100)

(* Only an action declared harmless in every respect can end up as a       *)
(* candidate, whatever the council says.                                   *)
CandidateIsHarmless ==
    Candidate(report) =>
        /\ action.type \in {"PUBLIC_WEB_READ", "CREATE_TEMP_FILE", "EDIT_DOCUMENTATION",
                            "EDIT_CODE", "DELETE_REPRODUCIBLE_CACHE"}
        /\ action.environment = "DISPOSABLE" /\ action.reversibility = "REVERSIBLE"
        /\ action.scope = "SINGLE" /\ ~action.sensitive /\ ~action.external

(* A baseline of zero means exactly one combination of the six fields.     *)
ZeroRiskOnlyThere ==
    report # Raised =>
        (report.risk.score = 0 <=>
            action = [type |-> "CREATE_TEMP_FILE", environment |-> "DISPOSABLE",
                      reversibility |-> "REVERSIBLE", scope |-> "SINGLE",
                      sensitive |-> FALSE, external |-> FALSE])

(* b is declared at least as dangerous as a: field by field, where the     *)
(* order of two values is beyond dispute.                                  *)
Worse == {<<"REVERSIBLE", "PARTIAL">>, <<"REVERSIBLE", "IRREVERSIBLE">>,
          <<"REVERSIBLE", "UNKNOWN">>, <<"PARTIAL", "IRREVERSIBLE">>,
          <<"SINGLE", "LIMITED">>, <<"SINGLE", "BROAD">>, <<"SINGLE", "UNKNOWN">>,
          <<"LIMITED", "BROAD">>, <<"LIMITED", "UNKNOWN">>,
          <<"DISPOSABLE", "DEVELOPMENT">>, <<"DISPOSABLE", "PRODUCTION">>,
          <<"DISPOSABLE", "UNKNOWN">>, <<"DEVELOPMENT", "PRODUCTION">>,
          <<"DEVELOPMENT", "UNKNOWN">>}

Escalates(a, b) ==
    /\ a.type = b.type
    /\ \A f \in {"environment", "reversibility", "scope"} :
          a[f] = b[f] \/ <<a[f], b[f]>> \in Worse
    /\ a.sensitive => b.sensitive
    /\ a.external => b.external

(* Declaring the same action more dangerous never lowers its risk and      *)
(* never turns a refusal into a candidate.                                 *)
EscalationNeverAdmits ==
    [][panel' = panel /\ extras' = extras /\ Escalates(action, action')
          => /\ Candidate(report') => Candidate(report)
             /\ report # Raised /\ report' # Raised
                  => report'.risk.score >= report.risk.score]_vars

(* The Sentinel only describes: snapshots passed along change nothing of   *)
(* what is recommended, whatever they show.                                *)
SentinelOnlyDescribes ==
    [][action' = action /\ panel' = panel /\ report # Raised /\ report' # Raised
          => /\ report'.decision = report.decision
             /\ report'.recommendation = report.recommendation
             /\ report'.counterfactual = report.counterfactual]_vars
=============================================================================
