------------------------------ MODULE Evidence ------------------------------
(***************************************************************************)
(* moiras/evidence.py: EvidenceRecord and EvidenceMetrics.compute.  The    *)
(* state machine is a reader that computes the metrics of all the records  *)
(* it has met so far, in whatever order they come: times are those written *)
(* in the records, and a record may come late, or twice, as after a call   *)
(* of record that raised and was repeated.                                 *)
(***************************************************************************)
EXTENDS Contracts, Sequences, SequencesExt

CONSTANTS Keys,         \* (execution_id, attempt_id), as [execution, attempt]
          Menu,         \* the records that may come, or things that are none
          NotARecord,
          MaxRecords    \* bound: records read

RecommendationCodes ==
    {"RECOMMEND_HALT_FOR_HUMAN", "RECOMMEND_HUMAN_REVIEW",
     "RECOMMEND_MITIGATE_THEN_REASSESS", "RECOMMEND_SHADOW_CANDIDATE_ONLY"}

HumanOutcomes == {"SAFE", "UNSAFE", "INDETERMINATE"}

(* Each level has the fields of its own and no others.  The action and the *)
(* risk of a recommendation are left out: the metrics do not read them.    *)
Observations    == [level : {"OBSERVATION"}, key : Keys, time : Nat, class : SentinelClasses]
Recommendations == [level : {"RECOMMENDATION"}, key : Keys, time : Nat, code : RecommendationCodes]
Outcomes        == [level : {"HUMAN_OUTCOME"}, key : Keys, time : Nat, label : HumanOutcomes]

EvidenceRecords == Observations \cup Recommendations \cup Outcomes

ASSUME EvidenceAssumption ==
    /\ Menu \subseteq EvidenceRecords \cup {NotARecord}
    /\ NotARecord \notin EvidenceRecords
    /\ MaxRecords \in Nat
    /\ None \notin Nat \X Nat

-----------------------------------------------------------------------------
(* EvidenceMetrics.compute, on a sequence of records.                      *)

(* Mutant: attempts of one execution are not told apart.                   *)
EventsOfExecution(s, level, key) ==
    {k \in DOMAIN s : s[k].level = level /\ s[k].key.execution = key.execution}

(* Where in s the records are that the list of a key is made of.           *)
Events(s, level, key) == {k \in DOMAIN s : s[k].level = level /\ s[k].key = key}

(* Mutant: the last recommendation to come is taken for the latest.        *)
LatestOfArrival(s, key) == s[Max(Events(s, "RECOMMENDATION", key))].time

LatestTime(s, key) == Max({s[k].time : k \in Events(s, "RECOMMENDATION", key)})

LatestCodes(s, key) ==
    {s[k].code : k \in {j \in Events(s, "RECOMMENDATION", key) :
                           s[j].time = LatestTime(s, key)}}

Candidates(s) ==
    {key \in Keys : /\ Events(s, "RECOMMENDATION", key) # {}
                    /\ LatestCodes(s, key) = {"RECOMMEND_SHADOW_CANDIDATE_ONLY"}}

(* Mutant: an outcome of the very time of the recommendation counts.       *)
LaterLabelsNotEarlier(s, key) ==
    {s[k].label : k \in {j \in Events(s, "HUMAN_OUTCOME", key) :
                            s[j].time >= LatestTime(s, key)}}

LaterLabels(s, key) ==
    {s[k].label : k \in {j \in Events(s, "HUMAN_OUTCOME", key) :
                            s[j].time > LatestTime(s, key)}}

(* Mutant: a decisive label settles what was indeterminate.                *)
AmbiguousUnlessDecisive(labels) ==
    labels # {} /\ Cardinality(labels \ {"INDETERMINATE"}) # 1

Ambiguous(labels) ==
    labels # {} /\ ("INDETERMINATE" \in labels \/ Cardinality(labels) # 1)

(* Mutant: what is ambiguous is not excluded.                              *)
LabeledAny(labels) == labels # {}

Labeled(labels) == labels # {} /\ ~Ambiguous(labels)

(* A rate is kept as its numerator and denominator.                        *)
Rate(part, whole) == IF whole = 0 THEN None ELSE <<part, whole>>

Metrics(candidates, labels) ==
    LET labeled == {key \in candidates : Labeled(labels[key])}
        ambiguous == {key \in candidates : Ambiguous(labels[key])}
        unsafe == {key \in labeled : "UNSAFE" \in labels[key]}
    IN  [candidate_count |-> Cardinality(candidates),
         labeled_candidates |-> Cardinality(labeled),
         ambiguous_candidates |-> Cardinality(ambiguous),
         unsafe_candidate_count |-> Cardinality(unsafe),
         coverage |-> Rate(Cardinality(labeled), Cardinality(candidates)),
         unsafe_candidate_rate |-> Rate(Cardinality(unsafe), Cardinality(labeled))]

Compute(s) ==
    IF NotARecord \in Range(s) THEN Raised
    ELSE Metrics(Candidates(s), [key \in Candidates(s) |-> LaterLabels(s, key)])

-----------------------------------------------------------------------------
(* The reader.                                                             *)

VARIABLES records, metrics

vars == <<records, metrics>>

Init == records = <<>> /\ metrics = Compute(<<>>)

Read(r) ==
    /\ Len(records) < MaxRecords
    /\ records' = Append(records, r)
    /\ metrics' = Compute(records')

Closed == Len(records) = MaxRecords /\ UNCHANGED vars

Next == Closed \/ \E r \in Menu : Read(r)

Spec == Init /\ [][Next]_vars

-----------------------------------------------------------------------------
(* Properties.                                                             *)

(* Nobody is counted twice: who is labeled is not ambiguous, who is unsafe *)
(* is labeled.                                                             *)
TypeOK ==
    /\ records \in Seq(EvidenceRecords \cup {NotARecord})
    /\ metrics # Raised =>
          /\ metrics.candidate_count \in 0..Len(records)
          /\ metrics.labeled_candidates + metrics.ambiguous_candidates <= metrics.candidate_count
          /\ metrics.unsafe_candidate_count <= metrics.labeled_candidates
          /\ metrics.coverage = None <=> metrics.candidate_count = 0
          /\ metrics.unsafe_candidate_rate = None <=> metrics.labeled_candidates = 0

(* "Input iteration order does not affect the result", and neither does a  *)
(* record that comes twice.                                                *)
Exchanged(k) == [records EXCEPT ![k] = records[k + 1], ![k + 1] = records[k]]

OnlyTheSetCounts ==
    /\ \A k \in 1..(Len(records) - 1) : Compute(Exchanged(k)) = metrics
    /\ \A k \in DOMAIN records : Compute(Append(records, records[k])) = metrics

(* What one execution's attempt is counted as depends on its own records   *)
(* only: however the attempts are split in two, every count is the sum of  *)
(* what it is for the records of either part.                              *)
Own(K) == Compute(SetToSeq({r \in Range(records) : r.key \in K}))

KeysAreIndependent ==
    metrics # Raised =>
        \A K \in SUBSET Keys :
            LET own == Own(K)
                others == Own(Keys \ K)
            IN  \A f \in {"candidate_count", "labeled_candidates", "ambiguous_candidates",
                          "unsafe_candidate_count"} : metrics[f] = own[f] + others[f]

(* News that is older than a recommendation already known changes nothing: *)
(* an older recommendation, or an outcome that is not later.               *)
StaleRecordsChangeNothing ==
    [][LET new == Last(records') IN
       /\ records' # records /\ new # NotARecord /\ metrics # Raised
       /\ \E k \in Events(records, "RECOMMENDATION", new.key) :
             \/ new.level = "RECOMMENDATION" /\ new.time < records[k].time
             \/ new.level = "HUMAN_OUTCOME" /\ new.time <= records[k].time
       => metrics' = metrics]_vars

(* One more outcome never makes or unmakes a candidate, and once a         *)
(* candidate is in doubt no further outcome takes it out of doubt.         *)
OutcomesOnlyAddDoubt ==
    [][LET new == Last(records') IN
       /\ records' # records /\ new # NotARecord /\ metrics # Raised
       /\ new.level = "HUMAN_OUTCOME"
       => /\ metrics'.candidate_count = metrics.candidate_count
          /\ metrics'.ambiguous_candidates >= metrics.ambiguous_candidates
          /\ metrics'.labeled_candidates + metrics'.ambiguous_candidates
                >= metrics.labeled_candidates + metrics.ambiguous_candidates]_vars
=============================================================================
