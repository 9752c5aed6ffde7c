---------------------------- MODULE Deliberation ----------------------------
(***************************************************************************)
(* A caller of moiras/council.py: reviewers answer one at a time, in any   *)
(* order, and the caller aggregates what it has heard so far.  The         *)
(* baseline is any assessment the contracts allow, not only those that     *)
(* assess produces: aggregate is a public function of its own.             *)
(***************************************************************************)
EXTENDS Council

CONSTANTS Baselines,   \* the assessments aggregate is given
          Settings,    \* the environments it is given
          Menu,        \* what reviewers answer: opinions, or no opinion at all
          MaxPanel     \* bound: opinions in a panel

ASSUME CouncilAssumption ==
    /\ Roles # {} /\ IsFiniteSet(Roles)
    /\ Baselines \subseteq RiskAssessments
    /\ Settings \subseteq Environments
    /\ Menu \subseteq CouncilOpinions \cup {NotAnOpinion}
    /\ MaxPanel \in Nat
    /\ NotAnOpinion \notin CouncilOpinions
    /\ Raised \notin CouncilDecisions

VARIABLES baseline, environment, panel, decision

vars == <<baseline, environment, panel, decision>>

-----------------------------------------------------------------------------
(* The caller.                                                             *)

Init ==
    /\ baseline \in Baselines
    /\ environment \in Settings
    /\ panel = <<>>
    /\ decision = Aggregate(baseline, <<>>, environment)

Hear(o) ==
    /\ Len(panel) < MaxPanel
    /\ panel' = Append(panel, o)
    /\ decision' = Aggregate(baseline, panel', environment)
    /\ UNCHANGED <<baseline, environment>>

(* The caller has asked everybody it is going to ask.                      *)
Closed == Len(panel) = MaxPanel /\ UNCHANGED vars

Next == Closed \/ \E o \in Menu : Hear(o)

Spec == Init /\ [][Next]_vars

-----------------------------------------------------------------------------
(* Properties.                                                             *)

TypeOK ==
    /\ baseline \in RiskAssessments
    /\ environment \in Environments
    /\ panel \in Seq(CouncilOpinions \cup {NotAnOpinion})
    /\ decision \in CouncilDecisions \cup {Raised}

(* What a panel without objections is, said without the algorithm: every   *)
(* member is an eligible, non-vetoing opinion with a score below some      *)
(* floor, no two differ by more than the limit, and the roles are spoken   *)
(* for once each.                                                          *)
CleanPanel(p, floor) ==
    /\ \A k \in DOMAIN p :
          /\ p[k] \in CouncilOpinions
          /\ p[k].class \in {"FRONTIER", "CAPABLE_GENERAL"} /\ ~p[k].veto
          /\ p[k].score < floor
    /\ \A j, k \in DOMAIN p : p[j].score - p[k].score <= 30
    /\ \A r \in Roles : \E k \in DOMAIN p : \A j \in DOMAIN p : p[j].role = r <=> j = k

(* A shadow candidate is exactly: no hard stop, a low baseline, a          *)
(* disposable environment and a panel that objects to nothing, with scores *)
(* as low.  Nothing else gets in, and nothing that qualifies is kept out.  *)
CandidateIffClean ==
    Admits(decision) <=>
        /\ ~baseline.bypass /\ baseline.score < 40
        /\ environment = "DISPOSABLE"
        /\ CleanPanel(panel, 40)

(* An action is sent back to be made safer exactly when no hard stop and   *)
(* no objection of the panel stands in the way and the worst score, the    *)
(* baseline's or an opinion's, is from 4 to below 7: at 7 a human decides. *)
MitigateIffMiddling ==
    decision # Raised /\ decision.verdict = "MITIGATE_AND_REASSESS" <=>
        /\ ~baseline.bypass /\ baseline.score < 70
        /\ CleanPanel(panel, 70)
        /\ baseline.score >= 40 \/ \E k \in DOMAIN panel : panel[k].score >= 40

(* Reviewers answer in any order: exchanging two neighbouring opinions     *)
(* changes neither verdict, nor score, nor reasons.  (A member that is no  *)
(* opinion is the exception: see README.)                                  *)
Exchanged(p, k) == [p EXCEPT ![k] = p[k + 1], ![k + 1] = p[k]]

OrderIrrelevant ==
    NotAnOpinion \notin Range(panel)
        => \A k \in 1..(Len(panel) - 1) :
               Aggregate(baseline, Exchanged(panel, k), environment) = decision

(* The score a decision shows is never below the baseline's nor below any  *)
(* opinion's, whatever the decision is.                                    *)
ScoreNeverUnderstated ==
    decision # Raised =>
        /\ decision.score >= baseline.score
        /\ \A o \in Opinions(panel) : decision.score >= o.score

(* Whatever was decided of a panel, one more opinion makes of it a human's *)
(* case or leaves it stopped, unless all that the panel lacked was another *)
(* opinion; and what aggregate would not even take it never takes again.   *)
RefusalIsFinal ==
    [][/\ decision = Raised => decision' = Raised
       /\ decision # Raised /\ decision' # Raised
             /\ "COUNCIL_INCOMPLETE" \notin decision.reasons
             => decision'.verdict \in {"HUMAN_REQUIRED", "STOP_AND_HUMAN"}]_vars

(* As opinions come in, the score shown only rises.                        *)
ScoreOnlyRises ==
    [][decision # Raised /\ decision' # Raised => decision'.score >= decision.score]_vars

-----------------------------------------------------------------------------
(* What the documentation says and the code does not do.                   *)

(* "EDGE and UNKNOWN models are always ineligible and never counted": a    *)
(* panel gets the verdict and the score it would get without them.         *)
IneligibleNeverCounted ==
    NotAnOpinion \notin Range(panel)
        => LET counted == Aggregate(baseline, SelectSeq(panel, Eligible), environment)
           IN  /\ decision.verdict = counted.verdict
               /\ decision.score = counted.score
=============================================================================
