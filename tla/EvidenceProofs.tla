--------------------------- MODULE EvidenceProofs ---------------------------
(***************************************************************************)
(* What the metrics say, for any set of attempts, any records and any      *)
(* number of them: proofs of what the run metrics checks.  The argument is *)
(* that compute looks at nothing but the set of the records it is given    *)
(* (ComputeMeans); the properties are then facts about finite sets.        *)
(***************************************************************************)
EXTENDS Evidence, FiniteSetTheorems, SequenceTheorems, WellFoundedInduction, TLAPS

Inv ==
    /\ records \in Seq(EvidenceRecords \cup {NotARecord})
    /\ metrics = Compute(records)

-----------------------------------------------------------------------------
(* What compute sees of a set of records.                                  *)

RecommendationsOf(S, key) == {r \in S : r.level = "RECOMMENDATION" /\ r.key = key}
OutcomesOf(S, key)        == {r \in S : r.level = "HUMAN_OUTCOME" /\ r.key = key}

LatestOf(S, key) == Max({r.time : r \in RecommendationsOf(S, key)})

CodesOf(S, key) ==
    {r.code : r \in {e \in RecommendationsOf(S, key) : e.time = LatestOf(S, key)}}

CandidatesOf(S) ==
    {key \in Keys : /\ RecommendationsOf(S, key) # {}
                    /\ CodesOf(S, key) = {"RECOMMEND_SHADOW_CANDIDATE_ONLY"}}

LabelsOf(S, key) ==
    {r.label : r \in {e \in OutcomesOf(S, key) : e.time > LatestOf(S, key)}}

LabeledOf(S)   == {key \in CandidatesOf(S) : Labeled(LabelsOf(S, key))}
AmbiguousOf(S) == {key \in CandidatesOf(S) : Ambiguous(LabelsOf(S, key))}
UnsafeOf(S)    == {key \in LabeledOf(S) : "UNSAFE" \in LabelsOf(S, key)}

MetricsOf(S) ==
    [candidate_count |-> Cardinality(CandidatesOf(S)),
     labeled_candidates |-> Cardinality(LabeledOf(S)),
     ambiguous_candidates |-> Cardinality(AmbiguousOf(S)),
     unsafe_candidate_count |-> Cardinality(UnsafeOf(S)),
     coverage |-> Rate(Cardinality(LabeledOf(S)), Cardinality(CandidatesOf(S))),
     unsafe_candidate_rate |-> Rate(Cardinality(UnsafeOf(S)), Cardinality(LabeledOf(S)))]

(* Neither the order of the records nor how often one comes is in it.      *)
LEMMA ComputeMeans ==
    ASSUME NEW s
    PROVE  Compute(s) = IF NotARecord \in Range(s) THEN Raised ELSE MetricsOf(Range(s))
<1> DEFINE S == Range(s)
<1>1. \A key : /\ {s[k].time : k \in Events(s, "RECOMMENDATION", key)}
                     = {r.time : r \in RecommendationsOf(S, key)}
               /\ Events(s, "RECOMMENDATION", key) = {} <=> RecommendationsOf(S, key) = {}
    BY DEF Events, RecommendationsOf, Range
<1>2. \A key : LatestTime(s, key) = LatestOf(S, key)
    BY <1>1, Zenon DEF LatestTime, LatestOf
<1>3. \A key : LatestCodes(s, key) = CodesOf(S, key)
  <2> SUFFICES ASSUME NEW key PROVE LatestCodes(s, key) = CodesOf(S, key)
      OBVIOUS
  <2> DEFINE t == LatestOf(S, key)
  <2>1. LatestTime(s, key) = t
      BY <1>2
  <2> HIDE DEF t
  <2>2. {s[k].code : k \in {j \in Events(s, "RECOMMENDATION", key) : s[j].time = t}}
          = {r.code : r \in {e \in RecommendationsOf(S, key) : e.time = t}}
      BY DEF Events, RecommendationsOf, Range
  <2> QED BY <2>1, <2>2, Zenon DEF LatestCodes, CodesOf, t
<1>4. \A key : LaterLabels(s, key) = LabelsOf(S, key)
  <2> SUFFICES ASSUME NEW key PROVE LaterLabels(s, key) = LabelsOf(S, key)
      OBVIOUS
  <2> DEFINE t == LatestOf(S, key)
  <2>1. LatestTime(s, key) = t
      BY <1>2
  <2> HIDE DEF t
  <2>2. {s[k].label : k \in {j \in Events(s, "HUMAN_OUTCOME", key) : s[j].time > t}}
          = {r.label : r \in {e \in OutcomesOf(S, key) : e.time > t}}
      BY DEF Events, OutcomesOf, Range
  <2> QED BY <2>1, <2>2, Zenon DEF LaterLabels, LabelsOf, t
<1>5. Candidates(s) = CandidatesOf(S)
    BY <1>1, <1>3 DEF Candidates, CandidatesOf
<1> DEFINE C == CandidatesOf(S)
           labels == [key \in C |-> LabelsOf(S, key)]
<1>6. [key \in Candidates(s) |-> LaterLabels(s, key)] = labels
    BY <1>4, <1>5
<1>7. /\ {key \in C : Labeled(labels[key])} = LabeledOf(S)
      /\ {key \in C : Ambiguous(labels[key])} = AmbiguousOf(S)
      /\ {key \in LabeledOf(S) : "UNSAFE" \in labels[key]} = UnsafeOf(S)
    BY DEF LabeledOf, AmbiguousOf, UnsafeOf
<1>8. Metrics(C, labels) = MetricsOf(S)
  <2> HIDE DEF labels
  <2> QED BY <1>7, Zenon DEF Metrics, MetricsOf
<1> QED BY <1>5, <1>6, <1>8, Zenon DEF Compute

-----------------------------------------------------------------------------
(* Counting.                                                               *)

(* A sequence has finitely many members, at most its length.               *)
LEMMA RangeFinite ==
    ASSUME NEW R, NEW s \in Seq(R)
    PROVE  /\ Range(s) \subseteq R /\ IsFiniteSet(Range(s))
           /\ Cardinality(Range(s)) \in Nat /\ Cardinality(Range(s)) <= Len(s)
<1>1. Len(s) \in Nat /\ DOMAIN s = 1..Len(s) /\ s \in [1..Len(s) -> R]
    BY LenProperties
<1>2. s \in Surjection(1..Len(s), Range(s))
    BY <1>1 DEF Surjection, Range
<1>3. IsFiniteSet(1..Len(s)) /\ Cardinality(1..Len(s)) = Len(s)
    BY <1>1, FS_Interval
<1>4. IsFiniteSet(Range(s)) /\ Cardinality(Range(s)) <= Len(s)
    BY <1>2, <1>3, FS_Surjection
<1> QED BY <1>1, <1>4, FS_CardinalityType DEF Range

(* Every candidate has a recommendation of its own.                        *)
LEMMA CandidatesFinite ==
    ASSUME NEW S, IsFiniteSet(S)
    PROVE  /\ IsFiniteSet(CandidatesOf(S))
           /\ Cardinality(CandidatesOf(S)) \in Nat
           /\ Cardinality(CandidatesOf(S)) <= Cardinality(S)
<1> DEFINE C == CandidatesOf(S)
           D == {r \in S : r.level = "RECOMMENDATION" /\ r.key \in C}
           f == [r \in D |-> r.key]
<1>1. \A key \in C : \E r \in D : f[r] = key
    BY DEF CandidatesOf, RecommendationsOf
<1>2. f \in Surjection(D, C)
  <2> HIDE DEF C
  <2> QED BY <1>1 DEF Surjection
<1>3. IsFiniteSet(D) /\ Cardinality(D) <= Cardinality(S)
    BY FS_Subset
<1>4. IsFiniteSet(C) /\ Cardinality(C) <= Cardinality(D)
  <2> HIDE DEF f, C, D
  <2> QED BY <1>2, <1>3, FS_Surjection
<1>5. Cardinality(C) \in Nat /\ Cardinality(D) \in Nat /\ Cardinality(S) \in Nat
    BY <1>3, <1>4, FS_CardinalityType
<1> HIDE DEF C, D
<1> QED BY <1>3, <1>4, <1>5 DEF C

LEMMA DisjointUnion ==
    ASSUME NEW A, NEW B, IsFiniteSet(A), IsFiniteSet(B), A \cap B = {}
    PROVE  /\ IsFiniteSet(A \cup B)
           /\ Cardinality(A) \in Nat /\ Cardinality(B) \in Nat
           /\ Cardinality(A \cup B) = Cardinality(A) + Cardinality(B)
<1>1. Cardinality(A) \in Nat /\ Cardinality(B) \in Nat
    BY FS_CardinalityType
<1>2. Cardinality(A \cup B) = Cardinality(A) + Cardinality(B) - Cardinality({})
      /\ IsFiniteSet(A \cup B)
    BY FS_Union
<1> QED BY <1>1, <1>2, FS_EmptySet

(* Whose labels are unambiguous is labeled, and nobody is both.            *)
LEMMA CountsOf ==
    ASSUME NEW S, IsFiniteSet(S)
    PROVE  /\ IsFiniteSet(LabeledOf(S)) /\ IsFiniteSet(AmbiguousOf(S))
           /\ IsFiniteSet(UnsafeOf(S))
           /\ Cardinality(CandidatesOf(S)) \in Nat /\ Cardinality(LabeledOf(S)) \in Nat
           /\ Cardinality(AmbiguousOf(S)) \in Nat /\ Cardinality(UnsafeOf(S)) \in Nat
           /\ Cardinality(UnsafeOf(S)) <= Cardinality(LabeledOf(S))
           /\ LabeledOf(S) \cap AmbiguousOf(S) = {}
           /\ Cardinality(LabeledOf(S)) + Cardinality(AmbiguousOf(S))
                = Cardinality(LabeledOf(S) \cup AmbiguousOf(S))
           /\ Cardinality(LabeledOf(S)) + Cardinality(AmbiguousOf(S))
                <= Cardinality(CandidatesOf(S))
<1> DEFINE C == CandidatesOf(S)
           L == LabeledOf(S)
           A == AmbiguousOf(S)
           U == UnsafeOf(S)
<1>1. IsFiniteSet(C) /\ Cardinality(C) \in Nat
    BY CandidatesFinite
<1>2. L \in SUBSET C /\ A \in SUBSET C /\ U \in SUBSET L /\ L \cap A = {}
    BY DEF LabeledOf, AmbiguousOf, UnsafeOf, Labeled
<1> HIDE DEF C, L, A, U
<1>3. IsFiniteSet(L) /\ IsFiniteSet(A)
    BY <1>1, <1>2, FS_Subset
<1>4. IsFiniteSet(U) /\ Cardinality(U) <= Cardinality(L)
    BY <1>2, <1>3, FS_Subset
<1>5. /\ Cardinality(L) \in Nat /\ Cardinality(A) \in Nat
      /\ Cardinality(L \cup A) = Cardinality(L) + Cardinality(A)
    BY <1>2, <1>3, DisjointUnion
<1>6. L \cup A \in SUBSET C
    BY <1>2
<1>7. Cardinality(L \cup A) <= Cardinality(C)
    BY <1>1, <1>6, FS_Subset
<1>8. Cardinality(U) \in Nat
    BY <1>4, FS_CardinalityType
<1> QED BY <1>1, <1>2, <1>3, <1>4, <1>5, <1>7, <1>8 DEF C, L, A, U

-----------------------------------------------------------------------------
(* The reader.                                                             *)

(* The metrics are always those of the records read.                       *)
THEOREM Invariance == Spec => []Inv
<1>1. Init => Inv
    BY EmptySeq DEF Init, Inv
<1>2. Inv /\ [Next]_vars => Inv'
  <2> SUFFICES ASSUME Inv, [Next]_vars PROVE Inv'
      OBVIOUS
  <2>1. ASSUME NEW r \in Menu, Read(r) PROVE Inv'
    <3>1. r \in EvidenceRecords \cup {NotARecord}
        BY EvidenceAssumption
    <3>2. Append(records, r) \in Seq(EvidenceRecords \cup {NotARecord})
        BY <3>1, AppendProperties DEF Inv
    <3> QED BY <2>1, <3>2 DEF Inv, Read
  <2>2. CASE UNCHANGED vars
      BY <2>2 DEF Inv, vars
  <2> QED BY <2>1, <2>2 DEF Next, Closed
<1> QED BY <1>1, <1>2, PTL DEF Spec

(* What the metrics are while nothing was read that is no record.          *)
LEMMA MetricsMean ==
    ASSUME Inv, metrics # Raised
    PROVE  /\ NotARecord \notin Range(records)
           /\ IsFiniteSet(Range(records)) /\ Range(records) \subseteq EvidenceRecords
           /\ Cardinality(Range(records)) \in Nat /\ Len(records) \in Nat
           /\ Cardinality(Range(records)) <= Len(records)
           /\ metrics = MetricsOf(Range(records))
<1>1. NotARecord \notin Range(records) /\ metrics = MetricsOf(Range(records))
    BY ComputeMeans DEF Inv
<1> QED BY <1>1, RangeFinite, LenProperties DEF Inv

(* Nobody is counted twice, no more candidates than records, and a rate is *)
(* missing exactly when it would divide by zero.                           *)
THEOREM TypeCorrectness == Spec => []TypeOK
<1>1. ASSUME Inv, metrics # Raised
      PROVE  /\ metrics.candidate_count \in 0..Len(records)
             /\ metrics.labeled_candidates + metrics.ambiguous_candidates
                    <= metrics.candidate_count
             /\ metrics.unsafe_candidate_count <= metrics.labeled_candidates
             /\ metrics.coverage = None <=> metrics.candidate_count = 0
             /\ metrics.unsafe_candidate_rate = None <=> metrics.labeled_candidates = 0
  <2> DEFINE S == Range(records)
             c == Cardinality(CandidatesOf(S))
             l == Cardinality(LabeledOf(S))
             a == Cardinality(AmbiguousOf(S))
             u == Cardinality(UnsafeOf(S))
  <2>1. /\ IsFiniteSet(S) /\ Cardinality(S) \in Nat /\ Len(records) \in Nat
        /\ Cardinality(S) <= Len(records)
      BY <1>1, MetricsMean
  <2>2. /\ metrics.candidate_count = c /\ metrics.labeled_candidates = l
        /\ metrics.ambiguous_candidates = a /\ metrics.unsafe_candidate_count = u
        /\ metrics.coverage = Rate(l, c) /\ metrics.unsafe_candidate_rate = Rate(u, l)
      BY <1>1, MetricsMean DEF MetricsOf
  <2>3. /\ c \in Nat /\ l \in Nat /\ a \in Nat /\ u \in Nat
        /\ l + a <= c /\ u <= l
      BY <2>1, CountsOf
  <2>4. c <= Cardinality(S)
      BY <2>1, CandidatesFinite
  <2> HIDE DEF S, c, l, a, u
  <2>5. \A part, whole \in Nat : Rate(part, whole) = None <=> whole = 0
    <3>1. \A part, whole \in Nat : <<part, whole>> \in Nat \X Nat
        OBVIOUS
    <3> QED BY <3>1, EvidenceAssumption DEF Rate
  <2>6. c \in 0..Len(records)
      BY <2>1, <2>3, <2>4
  <2> QED BY <2>2, <2>3, <2>5, <2>6
<1>2. Inv => TypeOK
    BY <1>1 DEF Inv, TypeOK
<1> QED BY <1>2, Invariance, PTL

(* Input order does not matter, and neither does a record read twice: an   *)
(* exchange of neighbours, or one more copy, leaves the set as it is.      *)
THEOREM OnlySetsCount == Spec => []OnlyTheSetCounts
<1>1. ASSUME Inv PROVE OnlyTheSetCounts
  <2> DEFINE R == EvidenceRecords \cup {NotARecord}
  <2>1. records \in Seq(R) /\ Len(records) \in Nat /\ DOMAIN records = 1..Len(records)
        /\ \A k \in DOMAIN records : records[k] \in R
      BY <1>1, LenProperties, ElementOfSeq DEF Inv
  <2>2. ASSUME NEW s, Range(s) = Range(records) PROVE Compute(s) = metrics
      BY <1>1, <2>2, ComputeMeans, Zenon DEF Inv
  <2>3. ASSUME NEW k \in 1..(Len(records) - 1) PROVE Range(Exchanged(k)) = Range(records)
    <3> DEFINE s == Exchanged(k)
    <3>1. k \in DOMAIN records /\ k + 1 \in DOMAIN records /\ k # k + 1
        BY <2>1
    <3>2. /\ DOMAIN s = DOMAIN records
          /\ s[k] = records[k + 1] /\ s[k + 1] = records[k]
          /\ \A j \in DOMAIN records : j # k /\ j # k + 1 => s[j] = records[j]
        BY <3>1 DEF Exchanged
    <3> HIDE DEF s
    <3> QED BY <3>1, <3>2 DEF Range, s
  <2>4. ASSUME NEW k \in DOMAIN records
        PROVE  Range(Append(records, records[k])) = Range(records)
    <3> DEFINE s == Append(records, records[k])
    <3>1. records[k] \in R
        BY <2>1
    <3>2. /\ s \in Seq(R) /\ Len(s) = Len(records) + 1
          /\ \A j \in 1..Len(records) : s[j] = records[j]
          /\ s[Len(records) + 1] = records[k]
        BY <2>1, <3>1, AppendProperties
    <3>3. DOMAIN s = 1..(Len(records) + 1)
        BY <3>2, LenProperties
    <3> HIDE DEF s, R
    <3> QED BY <2>1, <3>2, <3>3 DEF Range, s
  <2> QED BY <2>2, <2>3, <2>4 DEF OnlyTheSetCounts
<1> QED BY <1>1, Invariance, PTL

-----------------------------------------------------------------------------
(* Attempts are looked at one by one.                                      *)

LEMMA SetToSeqMeans ==
    ASSUME NEW S, IsFiniteSet(S)
    PROVE  Range(SetToSeq(S)) = S
<1> DEFINE n == Cardinality(S)
           f == SetToSeq(S)
<1>1. n \in Nat /\ ExistsBijection(1..n, S)
    BY FS_CardinalityType
<1>2. \E g \in [1..n -> S] : IsInjective(g)
    BY <1>1 DEF ExistsBijection, Bijection, Injection
<1>3. f \in [1..n -> S] /\ IsInjective(f)
    BY <1>2 DEF SetToSeq
<1>4. f \in Injection(1..n, S)
    BY <1>3 DEF Injection
<1>5. Cardinality(1..n) = n
    BY <1>1, FS_Interval
<1>6. f \in Surjection(1..n, S)
  <2> HIDE DEF f
  <2> QED BY <1>4, <1>5, FS_Injection
<1> HIDE DEF f, n
<1> QED BY <1>6 DEF Surjection, Range, f

(* The records of the attempts K are all that is looked at for them.       *)
LEMMA OfTheirOwn ==
    ASSUME NEW S, NEW K \in SUBSET Keys
    PROVE  LET T == {r \in S : r.key \in K} IN
           /\ CandidatesOf(T) = CandidatesOf(S) \cap K
           /\ LabeledOf(T) = LabeledOf(S) \cap K
           /\ AmbiguousOf(T) = AmbiguousOf(S) \cap K
           /\ UnsafeOf(T) = UnsafeOf(S) \cap K
<1> DEFINE T == {r \in S : r.key \in K}
<1>1. \A key \in K : /\ RecommendationsOf(T, key) = RecommendationsOf(S, key)
                     /\ OutcomesOf(T, key) = OutcomesOf(S, key)
    BY DEF RecommendationsOf, OutcomesOf
<1>2. \A key : key \notin K => RecommendationsOf(T, key) = {}
    BY DEF RecommendationsOf
<1> HIDE DEF T
<1>3. \A key \in K : LatestOf(T, key) = LatestOf(S, key)
    BY <1>1 DEF LatestOf
<1>4. \A key \in K : /\ CodesOf(T, key) = CodesOf(S, key)
                     /\ LabelsOf(T, key) = LabelsOf(S, key)
    BY <1>1, <1>3 DEF CodesOf, LabelsOf
<1>5. CandidatesOf(T) = CandidatesOf(S) \cap K
    BY <1>1, <1>2, <1>4 DEF CandidatesOf
<1>6. LabeledOf(T) = LabeledOf(S) \cap K /\ AmbiguousOf(T) = AmbiguousOf(S) \cap K
    BY <1>4, <1>5 DEF LabeledOf, AmbiguousOf
<1>7. UnsafeOf(T) = UnsafeOf(S) \cap K
    BY <1>4, <1>6 DEF UnsafeOf
<1> QED BY <1>5, <1>6, <1>7 DEF T

LEMMA SplitCount ==
    ASSUME NEW A \in SUBSET Keys, IsFiniteSet(A), NEW K \in SUBSET Keys
    PROVE  Cardinality(A) = Cardinality(A \cap K) + Cardinality(A \cap (Keys \ K))
<1>1. IsFiniteSet(A \cap K) /\ IsFiniteSet(A \cap (Keys \ K))
    BY FS_Intersection
<1>2. (A \cap K) \cap (A \cap (Keys \ K)) = {} /\ (A \cap K) \cup (A \cap (Keys \ K)) = A
    OBVIOUS
<1> QED BY <1>1, <1>2, DisjointUnion

(* What one attempt is counted as depends on its own records only: for any *)
(* division of the attempts in two the counts add up.                      *)
THEOREM Independence == Spec => []KeysAreIndependent
<1>1. ASSUME Inv, metrics # Raised, NEW K \in SUBSET Keys
      PROVE  \A f \in {"candidate_count", "labeled_candidates", "ambiguous_candidates",
                       "unsafe_candidate_count"} :
                 metrics[f] = Own(K)[f] + Own(Keys \ K)[f]
  <2> DEFINE S == Range(records)
             T(J) == {r \in S : r.key \in J}
  <2>1. NotARecord \notin S /\ IsFiniteSet(S) /\ metrics = MetricsOf(S)
      BY <1>1, MetricsMean
  <2>2. ASSUME NEW J \in SUBSET Keys PROVE Own(J) = MetricsOf(T(J))
    <3>1. IsFiniteSet(T(J)) /\ NotARecord \notin T(J)
        BY <2>1, FS_Subset
    <3>2. Range(SetToSeq(T(J))) = T(J)
        BY <3>1, SetToSeqMeans
    <3>3. Own(J) = Compute(SetToSeq(T(J)))
        BY DEF Own
    <3> HIDE DEF T
    <3> QED BY <3>1, <3>2, <3>3, ComputeMeans
  <2>3. ASSUME NEW J \in SUBSET Keys
        PROVE  /\ Own(J).candidate_count = Cardinality(CandidatesOf(S) \cap J)
               /\ Own(J).labeled_candidates = Cardinality(LabeledOf(S) \cap J)
               /\ Own(J).ambiguous_candidates = Cardinality(AmbiguousOf(S) \cap J)
               /\ Own(J).unsafe_candidate_count = Cardinality(UnsafeOf(S) \cap J)
    <3>1. /\ CandidatesOf(T(J)) = CandidatesOf(S) \cap J
          /\ LabeledOf(T(J)) = LabeledOf(S) \cap J
          /\ AmbiguousOf(T(J)) = AmbiguousOf(S) \cap J
          /\ UnsafeOf(T(J)) = UnsafeOf(S) \cap J
        BY OfTheirOwn
    <3>2. Own(J) = MetricsOf(T(J))
        BY <2>2
    <3> HIDE DEF T, S
    <3> QED BY <3>1, <3>2 DEF MetricsOf
  <2>4. /\ metrics.candidate_count = Cardinality(CandidatesOf(S))
        /\ metrics.labeled_candidates = Cardinality(LabeledOf(S))
        /\ metrics.ambiguous_candidates = Cardinality(AmbiguousOf(S))
        /\ metrics.unsafe_candidate_count = Cardinality(UnsafeOf(S))
      BY <2>1 DEF MetricsOf
  <2>5. /\ CandidatesOf(S) \in SUBSET Keys /\ LabeledOf(S) \in SUBSET Keys
        /\ AmbiguousOf(S) \in SUBSET Keys /\ UnsafeOf(S) \in SUBSET Keys
      BY DEF CandidatesOf, LabeledOf, AmbiguousOf, UnsafeOf
  <2>6. /\ IsFiniteSet(CandidatesOf(S)) /\ IsFiniteSet(LabeledOf(S))
        /\ IsFiniteSet(AmbiguousOf(S)) /\ IsFiniteSet(UnsafeOf(S))
      BY <2>1, CountsOf, CandidatesFinite
  <2> HIDE DEF S
  <2>7. /\ metrics.candidate_count
              = Own(K).candidate_count + Own(Keys \ K).candidate_count
        /\ metrics.labeled_candidates
              = Own(K).labeled_candidates + Own(Keys \ K).labeled_candidates
        /\ metrics.ambiguous_candidates
              = Own(K).ambiguous_candidates + Own(Keys \ K).ambiguous_candidates
        /\ metrics.unsafe_candidate_count
              = Own(K).unsafe_candidate_count + Own(Keys \ K).unsafe_candidate_count
    <3>1. Keys \ K \in SUBSET Keys
        OBVIOUS
    <3>2. ASSUME NEW A \in SUBSET Keys, IsFiniteSet(A)
          PROVE  Cardinality(A) = Cardinality(A \cap K) + Cardinality(A \cap (Keys \ K))
        BY <3>2, SplitCount
    <3>3. /\ Cardinality(CandidatesOf(S)) = Cardinality(CandidatesOf(S) \cap K)
                                            + Cardinality(CandidatesOf(S) \cap (Keys \ K))
          /\ Cardinality(LabeledOf(S)) = Cardinality(LabeledOf(S) \cap K)
                                         + Cardinality(LabeledOf(S) \cap (Keys \ K))
        BY <2>5, <2>6, <3>2
    <3>4. /\ Cardinality(AmbiguousOf(S)) = Cardinality(AmbiguousOf(S) \cap K)
                                           + Cardinality(AmbiguousOf(S) \cap (Keys \ K))
          /\ Cardinality(UnsafeOf(S)) = Cardinality(UnsafeOf(S) \cap K)
                                        + Cardinality(UnsafeOf(S) \cap (Keys \ K))
        BY <2>5, <2>6, <3>2
    <3>5. /\ Own(K).candidate_count = Cardinality(CandidatesOf(S) \cap K)
          /\ Own(K).labeled_candidates = Cardinality(LabeledOf(S) \cap K)
          /\ Own(K).ambiguous_candidates = Cardinality(AmbiguousOf(S) \cap K)
          /\ Own(K).unsafe_candidate_count = Cardinality(UnsafeOf(S) \cap K)
        BY <2>3
    <3>6. /\ Own(Keys \ K).candidate_count = Cardinality(CandidatesOf(S) \cap (Keys \ K))
          /\ Own(Keys \ K).labeled_candidates = Cardinality(LabeledOf(S) \cap (Keys \ K))
          /\ Own(Keys \ K).ambiguous_candidates = Cardinality(AmbiguousOf(S) \cap (Keys \ K))
          /\ Own(Keys \ K).unsafe_candidate_count = Cardinality(UnsafeOf(S) \cap (Keys \ K))
        BY <2>3, <3>1
    <3> QED BY <2>4, <3>3, <3>4, <3>5, <3>6
  <2> QED BY <2>7
<1>2. Inv => KeysAreIndependent
    BY <1>1 DEF KeysAreIndependent
<1> QED BY <1>2, Invariance, PTL

-----------------------------------------------------------------------------
(* One more record.                                                        *)

(* A finite set of times has a latest.                                     *)
LEMMA LatestExists ==
    ASSUME NEW T \in SUBSET Nat, IsFiniteSet(T), T # {}
    PROVE  Max(T) \in T /\ \A t \in T : Max(T) >= t
<1> DEFINE n == Cardinality(T)
<1>1. n \in Nat
    BY FS_CardinalityType
<1>2. PICK f : f \in Surjection(1..n, T)
    BY FS_CardinalityType DEF ExistsBijection, Bijection
<1> DEFINE First(k) == {f[j] : j \in 1..k}
           Done(k) == k = 0 \/ \E x \in First(k) : \A y \in First(k) : x >= y
           Bad == {k \in Nat : k <= n /\ ~Done(k)}
<1> HIDE DEF n
<1>3. \A j \in 1..n : f[j] \in Nat
    BY <1>2 DEF Surjection
<1>4. Bad = {}
  <2> SUFFICES ASSUME Bad # {} PROVE FALSE
      OBVIOUS
  <2>1. PICK k \in Bad : \A j \in Bad : ~(<<j, k>> \in OpToRel(<, Nat))
      BY NatLessThanWellFounded, WFMin
  <2>2. OpToRel(<, Nat) = {p \in Nat \X Nat : p[1] < p[2]}
      BY Zenon DEF OpToRel
  <2>3. k \in Nat /\ k <= n /\ k # 0
      BY <2>1
  <2>4. k - 1 \notin Bad
    <3>1. k - 1 \in Nat /\ <<k - 1, k>> \in {p \in Nat \X Nat : p[1] < p[2]}
        BY <2>3
    <3> HIDE DEF Bad
    <3> QED BY <2>1, <2>2, <3>1
  <2>5. Done(k - 1)
      BY <1>1, <2>3, <2>4
  <2>6. First(k) = First(k - 1) \cup {f[k]}
      BY <2>3
  <2>7. f[k] \in Nat /\ First(k - 1) \subseteq Nat
      BY <1>1, <1>3, <2>3
  <2>8. CASE k = 1
    <3>1. First(k - 1) = {}
        BY <2>8
    <3> HIDE DEF First
    <3>2. First(k) = {f[k]} /\ f[k] >= f[k]
        BY <2>6, <2>7, <3>1
    <3>3. Done(k)
        BY <3>2
    <3> HIDE DEF Done
    <3> QED BY <2>1, <3>3
  <2>9. CASE k # 1
    <3> HIDE DEF First
    <3>1. PICK x \in First(k - 1) : \A y \in First(k - 1) : x >= y
        BY <2>3, <2>5, <2>9
    <3>2. CASE x >= f[k]
      <4>1. x \in First(k) /\ \A y \in First(k) : x >= y
          BY <2>6, <3>1, <3>2
      <4>2. Done(k)
          BY <4>1
      <4> HIDE DEF Done
      <4> QED BY <2>1, <4>2
    <3>3. CASE ~(x >= f[k])
      <4>1. f[k] \in First(k) /\ \A y \in First(k) : f[k] >= y
          BY <2>6, <2>7, <3>1, <3>3
      <4>2. Done(k)
          BY <4>1
      <4> HIDE DEF Done
      <4> QED BY <2>1, <4>2
    <3> QED BY <3>2, <3>3
  <2> QED BY <2>8, <2>9
<1>5. First(n) = T
    BY <1>2 DEF Surjection
<1>6. Done(n)
  <2> HIDE DEF Done
  <2> QED BY <1>1, <1>4
<1>7. n # 0
    BY <1>1, FS_EmptySet DEF n
<1> HIDE DEF First
<1> QED BY <1>5, <1>6, <1>7 DEF Max

LEMMA NextRecord ==
    ASSUME Inv, [Next]_vars, records' # records, metrics # Raised,
           Last(records') # NotARecord
    PROVE  \E r \in EvidenceRecords :
               /\ r = Last(records')
               /\ metrics' = MetricsOf(Range(records) \cup {r})
<1> DEFINE R == EvidenceRecords \cup {NotARecord}
<1>1. PICK r \in Menu : Read(r)
    BY DEF Next, Closed, vars
<1>2. r \in R /\ records \in Seq(R)
    BY EvidenceAssumption DEF Inv
<1>3. records' = Append(records, r) /\ metrics' = Compute(records')
    BY <1>1 DEF Read
<1> DEFINE s == Append(records, r)
<1>4. /\ s \in Seq(R) /\ Len(records) \in Nat /\ Len(s) = Len(records) + 1
      /\ \A j \in 1..Len(records) : s[j] = records[j]
      /\ s[Len(records) + 1] = r
      /\ DOMAIN records = 1..Len(records)
    BY <1>2, AppendProperties, LenProperties
<1>5. DOMAIN s = 1..(Len(records) + 1)
    BY <1>4, LenProperties
<1> HIDE DEF s, R
<1>6. Last(s) = r
    BY <1>4 DEF Last
<1>7. Range(s) = Range(records) \cup {r}
    BY <1>4, <1>5 DEF Range
<1>8. records' = s
    BY <1>3 DEF s
<1>9. r \in EvidenceRecords /\ r # NotARecord
    BY <1>2, <1>6, <1>8 DEF R
<1>10. NotARecord \notin Range(s)
    BY <1>7, <1>9, MetricsMean
<1> QED BY <1>3, <1>6, <1>7, <1>8, <1>9, <1>10, ComputeMeans

(* The latest recommendation of an attempt that has one.                   *)
LEMMA LatestMeans ==
    ASSUME NEW S \in SUBSET EvidenceRecords, IsFiniteSet(S), NEW key,
           RecommendationsOf(S, key) # {}
    PROVE  /\ LatestOf(S, key) \in Nat
           /\ \E e \in RecommendationsOf(S, key) : e.time = LatestOf(S, key)
           /\ \A e \in RecommendationsOf(S, key) : e.time \in Nat /\ LatestOf(S, key) >= e.time
<1> DEFINE D == RecommendationsOf(S, key)
           T == {r.time : r \in D}
           f == [r \in D |-> r.time]
<1>1. D \in SUBSET S /\ IsFiniteSet(D)
    BY FS_Subset DEF RecommendationsOf
<1>2. \A r \in D : r.time \in Nat
    BY <1>1 DEF EvidenceRecords, Observations, Recommendations, Outcomes
<1> HIDE DEF D
<1>3. f \in Surjection(D, T)
    BY DEF Surjection
<1>4. IsFiniteSet(T)
  <2> HIDE DEF f, T
  <2> QED BY <1>1, <1>3, FS_Surjection
<1>5. T \in SUBSET Nat /\ T # {}
    BY <1>2 DEF D
<1>6. Max(T) \in T /\ \A t \in T : Max(T) >= t
  <2> HIDE DEF T
  <2> QED BY <1>4, <1>5, LatestExists
<1>7. LatestOf(S, key) = Max(T)
    BY DEF LatestOf, D
<1> QED BY <1>2, <1>5, <1>6, <1>7 DEF D

(* What compute sees of each attempt determines the metrics.               *)
LEMMA SameMetrics ==
    ASSUME NEW S, NEW T,
           \A key \in Keys : /\ RecommendationsOf(T, key) = {} <=> RecommendationsOf(S, key) = {}
                             /\ RecommendationsOf(S, key) # {} =>
                                   /\ CodesOf(T, key) = CodesOf(S, key)
                                   /\ LabelsOf(T, key) = LabelsOf(S, key)
    PROVE  MetricsOf(T) = MetricsOf(S)
<1>1. CandidatesOf(T) = CandidatesOf(S)
    BY DEF CandidatesOf
<1>2. \A key \in CandidatesOf(S) : LabelsOf(T, key) = LabelsOf(S, key)
    BY DEF CandidatesOf
<1>3. LabeledOf(T) = LabeledOf(S) /\ AmbiguousOf(T) = AmbiguousOf(S)
    BY <1>1, <1>2 DEF LabeledOf, AmbiguousOf
<1>4. UnsafeOf(T) = UnsafeOf(S)
  <2>1. LabeledOf(S) \subseteq CandidatesOf(S)
      BY DEF LabeledOf
  <2> QED BY <1>2, <1>3, <2>1 DEF UnsafeOf
<1> QED BY <1>1, <1>3, <1>4 DEF MetricsOf

(* A recommendation that is not the latest, or an outcome that is not      *)
(* later than one, comes too late to change anything.                      *)
LEMMA StaleRecord ==
    ASSUME NEW S \in SUBSET EvidenceRecords, IsFiniteSet(S), NEW r \in EvidenceRecords,
           NEW e \in RecommendationsOf(S, r.key),
           \/ r.level = "RECOMMENDATION" /\ r.time < e.time
           \/ r.level = "HUMAN_OUTCOME" /\ r.time <= e.time
    PROVE  MetricsOf(S \cup {r}) = MetricsOf(S)
<1> DEFINE T == S \cup {r}
<1>1. r.time \in Nat
    BY DEF EvidenceRecords, Observations, Recommendations, Outcomes
<1>2. /\ LatestOf(S, r.key) \in Nat /\ LatestOf(S, r.key) >= e.time /\ e.time \in Nat
      /\ \E d \in RecommendationsOf(S, r.key) : d.time = LatestOf(S, r.key)
      /\ \A d \in RecommendationsOf(S, r.key) : d.time \in Nat /\ LatestOf(S, r.key) >= d.time
    BY LatestMeans
<1>3. \A key : key # r.key =>
            /\ RecommendationsOf(T, key) = RecommendationsOf(S, key)
            /\ OutcomesOf(T, key) = OutcomesOf(S, key)
    BY DEF RecommendationsOf, OutcomesOf
<1>4. ASSUME NEW key, /\ RecommendationsOf(T, key) = RecommendationsOf(S, key)
                      /\ OutcomesOf(T, key) = OutcomesOf(S, key)
      PROVE  CodesOf(T, key) = CodesOf(S, key) /\ LabelsOf(T, key) = LabelsOf(S, key)
    BY <1>4, Zenon DEF CodesOf, LabelsOf, LatestOf
<1>5. CASE r.level = "RECOMMENDATION" /\ r.time < e.time
  <2> DEFINE k == r.key
             m == LatestOf(S, k)
  <2>1. /\ RecommendationsOf(T, k) = RecommendationsOf(S, k) \cup {r}
        /\ OutcomesOf(T, k) = OutcomesOf(S, k)
      BY <1>5 DEF RecommendationsOf, OutcomesOf
  <2>2. LatestOf(T, k) = m
    <3> DEFINE old == {d.time : d \in RecommendationsOf(S, k)}
               new == {d.time : d \in RecommendationsOf(T, k)}
    <3> DEFINE late == r.time
    <3>1. new = old \cup {late}
        BY <2>1
    <3>2. m \in old /\ (\A t \in old : t \in Nat /\ m >= t) /\ m \in Nat
        BY <1>2
    <3>3. late < m /\ late \in Nat
      <4>1. \A x, y, z \in Nat : x < y /\ z >= y => x < z
          OBVIOUS
      <4> QED BY <1>1, <1>2, <1>5, <4>1
    <3> HIDE DEF old, m, new, late
    <3>4. m \in new /\ \A t \in new : t \in Nat /\ m >= t
        BY <3>1, <3>2, <3>3
    <3>5. \A x \in new : (\A y \in new : x >= y) => x = m
        BY <3>2, <3>4
    <3>6. Max(new) = m
        BY <3>4, <3>5 DEF Max
    <3> QED BY <3>6 DEF LatestOf, new
  <2>3. r.time # m
      BY <1>1, <1>2, <1>5
  <2> HIDE DEF m
  <2>4. CodesOf(T, k) = CodesOf(S, k)
      BY <2>1, <2>2, <2>3 DEF CodesOf, m
  <2>5. LabelsOf(T, k) = LabelsOf(S, k)
      BY <2>1, <2>2 DEF LabelsOf, m
  <2>6. RecommendationsOf(T, k) # {} /\ RecommendationsOf(S, k) # {}
      BY <2>1
  <2> HIDE DEF T
  <2> QED BY <1>3, <1>4, <2>4, <2>5, <2>6, SameMetrics DEF T
<1>6. CASE r.level = "HUMAN_OUTCOME" /\ r.time <= e.time
  <2> DEFINE k == r.key
             m == LatestOf(S, k)
  <2>1. /\ RecommendationsOf(T, k) = RecommendationsOf(S, k)
        /\ OutcomesOf(T, k) = OutcomesOf(S, k) \cup {r}
      BY <1>6 DEF RecommendationsOf, OutcomesOf
  <2>2. LatestOf(T, k) = m /\ ~(r.time > m)
    <3>1. LatestOf(T, k) = m
        BY <2>1, Zenon DEF LatestOf
    <3>2. \A x, y, z \in Nat : x <= y /\ z >= y => ~(x > z)
        OBVIOUS
    <3> QED BY <1>1, <1>2, <1>6, <3>1, <3>2
  <2> HIDE DEF m
  <2>3. CodesOf(T, k) = CodesOf(S, k)
      BY <2>1, <2>2 DEF CodesOf, m
  <2>4. LabelsOf(T, k) = LabelsOf(S, k)
      BY <2>1, <2>2 DEF LabelsOf, m
  <2> HIDE DEF T
  <2> QED BY <1>3, <1>4, <2>1, <2>3, <2>4, SameMetrics DEF T
<1> QED BY <1>5, <1>6

(* What comes in late, as after a record that is written again, leaves the *)
(* metrics as they were.                                                   *)
THEOREM StaleIsIgnored == Spec => StaleRecordsChangeNothing
<1>1. ASSUME Inv, [Next]_vars, records' # records, Last(records') # NotARecord,
             metrics # Raised,
             NEW k \in Events(records, "RECOMMENDATION", Last(records').key),
             \/ Last(records').level = "RECOMMENDATION" /\ Last(records').time < records[k].time
             \/ Last(records').level = "HUMAN_OUTCOME" /\ Last(records').time <= records[k].time
      PROVE  metrics' = metrics
  <2> DEFINE S == Range(records)
  <2>1. PICK r \in EvidenceRecords : r = Last(records') /\ metrics' = MetricsOf(S \cup {r})
      BY <1>1, NextRecord
  <2>2. /\ S \in SUBSET EvidenceRecords /\ IsFiniteSet(S) /\ metrics = MetricsOf(S)
      BY <1>1, MetricsMean
  <2>3. records[k] \in RecommendationsOf(S, r.key)
      BY <1>1, <2>1 DEF Events, RecommendationsOf, Range
  <2> HIDE DEF S
  <2> QED BY <1>1, <2>1, <2>2, <2>3, StaleRecord
<1>2. Inv /\ [Next]_vars =>
        [LET new == Last(records') IN
         /\ records' # records /\ new # NotARecord /\ metrics # Raised
         /\ \E k \in Events(records, "RECOMMENDATION", new.key) :
               \/ new.level = "RECOMMENDATION" /\ new.time < records[k].time
               \/ new.level = "HUMAN_OUTCOME" /\ new.time <= records[k].time
         => metrics' = metrics]_vars
    BY <1>1
<1> QED BY <1>2, Invariance, PTL DEF Spec, StaleRecordsChangeNothing

(* More labels never take an attempt out of doubt.                         *)
LEMMA DoubtGrows ==
    ASSUME NEW M \in SUBSET HumanOutcomes, NEW L \in SUBSET M, Ambiguous(L)
    PROVE  Ambiguous(M)
<1>1. IsFiniteSet(HumanOutcomes)
  <2>1. IsFiniteSet({}) /\ HumanOutcomes = (({} \cup {"SAFE"}) \cup {"UNSAFE"}) \cup {"INDETERMINATE"}
      BY FS_EmptySet DEF HumanOutcomes
  <2>2. IsFiniteSet({} \cup {"SAFE"})
      BY <2>1, FS_AddElement
  <2>3. IsFiniteSet(({} \cup {"SAFE"}) \cup {"UNSAFE"})
      BY <2>2, FS_AddElement
  <2> QED BY <2>1, <2>3, FS_AddElement
<1>2. IsFiniteSet(M)
    BY <1>1, FS_Subset
<1>3. IsFiniteSet(L)
    BY <1>2, FS_Subset
<1>4. /\ Cardinality(M) = 1 <=> \E x : M = {x}
      /\ Cardinality(L) = 1 <=> \E x : L = {x}
    BY <1>2, <1>3, FS_Singleton
<1>5. (\E x : M = {x}) /\ L # {} => \E x : L = {x}
    OBVIOUS
<1> QED BY <1>4, <1>5 DEF Ambiguous

(* One more human outcome: the candidates stay who they were, none that    *)
(* was ambiguous or labeled is left without a label, none that was         *)
(* ambiguous becomes labeled.                                              *)
LEMMA OneMoreOutcome ==
    ASSUME NEW S \in SUBSET EvidenceRecords, IsFiniteSet(S), NEW r \in EvidenceRecords,
           r.level = "HUMAN_OUTCOME"
    PROVE  LET T == S \cup {r} IN
           /\ CandidatesOf(T) = CandidatesOf(S)
           /\ AmbiguousOf(S) \subseteq AmbiguousOf(T)
           /\ LabeledOf(S) \cup AmbiguousOf(S) \subseteq LabeledOf(T) \cup AmbiguousOf(T)
<1> DEFINE T == S \cup {r}
<1>1. \A key : /\ RecommendationsOf(T, key) = RecommendationsOf(S, key)
               /\ OutcomesOf(S, key) \subseteq OutcomesOf(T, key)
    BY DEF RecommendationsOf, OutcomesOf
<1>2. \A key : \A d \in OutcomesOf(T, key) : d.label \in HumanOutcomes
    BY DEF OutcomesOf, EvidenceRecords, Observations, Recommendations, Outcomes
<1> HIDE DEF T
<1>3. \A key : LatestOf(T, key) = LatestOf(S, key)
    BY <1>1, Zenon DEF LatestOf
<1>4. CandidatesOf(T) = CandidatesOf(S)
  <2>1. \A key : CodesOf(T, key) = CodesOf(S, key)
    <3> SUFFICES ASSUME NEW key PROVE CodesOf(T, key) = CodesOf(S, key)
        OBVIOUS
    <3>1. RecommendationsOf(T, key) = RecommendationsOf(S, key) /\ LatestOf(T, key) = LatestOf(S, key)
        BY <1>1, <1>3
    <3> QED BY <3>1, Zenon DEF CodesOf
  <2> QED BY <1>1, <2>1 DEF CandidatesOf
<1>5. \A key : LabelsOf(S, key) \in SUBSET LabelsOf(T, key)
               /\ LabelsOf(T, key) \in SUBSET HumanOutcomes
    BY <1>1, <1>2, <1>3 DEF LabelsOf
<1>6. AmbiguousOf(S) \subseteq AmbiguousOf(T)
    BY <1>4, <1>5, DoubtGrows DEF AmbiguousOf
<1>7. \A U : LabeledOf(U) \cup AmbiguousOf(U) = {key \in CandidatesOf(U) : LabelsOf(U, key) # {}}
    BY DEF LabeledOf, AmbiguousOf, Labeled, Ambiguous
<1>8. LabeledOf(S) \cup AmbiguousOf(S) \subseteq LabeledOf(T) \cup AmbiguousOf(T)
    BY <1>4, <1>5, <1>7
<1> QED BY <1>4, <1>6, <1>8 DEF T

(* A human outcome never makes or unmakes a candidate, and never settles   *)
(* one that is in doubt.                                                   *)
THEOREM DoubtStays == Spec => OutcomesOnlyAddDoubt
<1>1. ASSUME Inv, [Next]_vars, records' # records, Last(records') # NotARecord,
             metrics # Raised, Last(records').level = "HUMAN_OUTCOME"
      PROVE  /\ metrics'.candidate_count = metrics.candidate_count
             /\ metrics'.ambiguous_candidates >= metrics.ambiguous_candidates
             /\ metrics'.labeled_candidates + metrics'.ambiguous_candidates
                   >= metrics.labeled_candidates + metrics.ambiguous_candidates
  <2> DEFINE S == Range(records)
  <2>1. PICK r \in EvidenceRecords : r = Last(records') /\ metrics' = MetricsOf(S \cup {r})
      BY <1>1, NextRecord
  <2> DEFINE T == S \cup {r}
  <2>2. /\ S \in SUBSET EvidenceRecords /\ IsFiniteSet(S) /\ metrics = MetricsOf(S)
      BY <1>1, MetricsMean
  <2>3. r.level = "HUMAN_OUTCOME"
      BY <1>1, <2>1
  <2>4. IsFiniteSet(T) /\ metrics' = MetricsOf(T)
      BY <2>1, <2>2, FS_AddElement
  <2>5. /\ CandidatesOf(T) = CandidatesOf(S)
        /\ AmbiguousOf(S) \in SUBSET AmbiguousOf(T)
        /\ LabeledOf(S) \cup AmbiguousOf(S) \in SUBSET (LabeledOf(T) \cup AmbiguousOf(T))
    <3> HIDE DEF S
    <3> QED BY <2>2, <2>3, OneMoreOutcome
  <2> HIDE DEF S, T
  <2>6. /\ IsFiniteSet(LabeledOf(S)) /\ IsFiniteSet(AmbiguousOf(S))
        /\ IsFiniteSet(LabeledOf(T)) /\ IsFiniteSet(AmbiguousOf(T))
        /\ Cardinality(AmbiguousOf(S)) \in Nat /\ Cardinality(AmbiguousOf(T)) \in Nat
        /\ Cardinality(LabeledOf(S)) + Cardinality(AmbiguousOf(S))
             = Cardinality(LabeledOf(S) \cup AmbiguousOf(S))
        /\ Cardinality(LabeledOf(T)) + Cardinality(AmbiguousOf(T))
             = Cardinality(LabeledOf(T) \cup AmbiguousOf(T))
      BY <2>2, <2>4, CountsOf
  <2>7. Cardinality(AmbiguousOf(S)) <= Cardinality(AmbiguousOf(T))
      BY <2>5, <2>6, FS_Subset
  <2>8. /\ IsFiniteSet(LabeledOf(S) \cup AmbiguousOf(S))
        /\ IsFiniteSet(LabeledOf(T) \cup AmbiguousOf(T))
      BY <2>6, FS_Union
  <2>9. /\ Cardinality(LabeledOf(S) \cup AmbiguousOf(S)) \in Nat
        /\ Cardinality(LabeledOf(T) \cup AmbiguousOf(T)) \in Nat
      BY <2>8, FS_CardinalityType
  <2>10. Cardinality(LabeledOf(S) \cup AmbiguousOf(S))
             <= Cardinality(LabeledOf(T) \cup AmbiguousOf(T))
      BY <2>5, <2>8, FS_Subset
  <2>11. /\ metrics.candidate_count = Cardinality(CandidatesOf(S))
         /\ metrics.labeled_candidates = Cardinality(LabeledOf(S))
         /\ metrics.ambiguous_candidates = Cardinality(AmbiguousOf(S))
         /\ metrics'.candidate_count = Cardinality(CandidatesOf(T))
         /\ metrics'.labeled_candidates = Cardinality(LabeledOf(T))
         /\ metrics'.ambiguous_candidates = Cardinality(AmbiguousOf(T))
      BY <2>2, <2>4 DEF MetricsOf
  <2> QED BY <2>5, <2>6, <2>7, <2>9, <2>10, <2>11
<1>2. Inv /\ [Next]_vars =>
        [LET new == Last(records') IN
         /\ records' # records /\ new # NotARecord /\ metrics # Raised
         /\ new.level = "HUMAN_OUTCOME"
         => /\ metrics'.candidate_count = metrics.candidate_count
            /\ metrics'.ambiguous_candidates >= metrics.ambiguous_candidates
            /\ metrics'.labeled_candidates + metrics'.ambiguous_candidates
                  >= metrics.labeled_candidates + metrics.ambiguous_candidates]_vars
    BY <1>1
<1> QED BY <1>2, Invariance, PTL DEF Spec, OutcomesOnlyAddDoubt
=============================================================================
