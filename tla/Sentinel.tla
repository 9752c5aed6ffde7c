------------------------------ MODULE Sentinel ------------------------------
(***************************************************************************)
(* moiras/sentinel.py: compare_snapshots classifies what an execution did  *)
(* between two looks at it.  A pure function; the evidence codes are kept  *)
(* as a set.                                                               *)
(***************************************************************************)
EXTENDS Contracts

Counters == {"progress", "activity", "artifact"}

(* Mutants: snapshots of two attempts compare; only the wall clock orders  *)
(* two snapshots.                                                          *)
ComparableAnyAttempt(first, second) ==
    /\ first.utc <= second.utc
    /\ first.offset <= second.offset
    /\ \A c \in Counters : first[c] <= second[c]

ComparableByWallClock(first, second) ==
    /\ first.attempt = second.attempt
    /\ first.utc <= second.utc
    /\ \A c \in Counters : first[c] <= second[c]

(* The same attempt, in order in both clocks, no counter goes back.        *)
Comparable(first, second) ==
    /\ first.attempt = second.attempt
    /\ first.utc <= second.utc
    /\ first.offset <= second.offset
    /\ \A c \in Counters : first[c] <= second[c]

(* Mutant: progress takes both counters.                                   *)
ProgressOfBoth(first, second) ==
    {e \in EvidenceCodes :
        \/ /\ e = "PROGRESS_COUNTER_INCREASED"
           /\ second.progress > first.progress /\ second.artifact > first.artifact
        \/ e = "BECAME_TERMINAL" /\ second.terminal /\ ~first.terminal}

(* The evidence of real progress.                                          *)
Progress(first, second) ==
    {e \in EvidenceCodes :
        \/ e = "PROGRESS_COUNTER_INCREASED" /\ second.progress > first.progress
        \/ e = "ARTIFACT_REVISION_INCREASED" /\ second.artifact > first.artifact
        \/ e = "BECAME_TERMINAL" /\ second.terminal /\ ~first.terminal}

Silence(first, second, threshold) ==
    IF second.offset - first.offset >= threshold
    THEN [class |-> "PROBABLE_INACTIVITY",
          evidence |-> {"NO_PROGRESS_NO_ACTIVITY", "IDLE_THRESHOLD_EXCEEDED"}]
    ELSE [class |-> "INDETERMINATE",
          evidence |-> {"NO_PROGRESS_NO_ACTIVITY", "IDLE_THRESHOLD_NOT_EXCEEDED"}]

(* Mutants: the function ends without a return when nothing happened; a    *)
(* wait is looked at after the silence.                                    *)
CompareSnapshotsNoReturn(first, second, threshold) ==
    IF threshold < 0 \/ ~({first, second} \subseteq ExecutionSnapshots) THEN Raised
    ELSE IF ~Comparable(first, second) THEN Raised
    ELSE IF Progress(first, second) # {}
         THEN [class |-> "REAL_PROGRESS", evidence |-> Progress(first, second)]
         ELSE None

CompareSnapshotsActivityLast(first, second, threshold) ==
    IF threshold < 0 \/ ~({first, second} \subseteq ExecutionSnapshots) THEN Raised
    ELSE IF ~Comparable(first, second) THEN Raised
    ELSE IF Progress(first, second) # {}
         THEN [class |-> "REAL_PROGRESS", evidence |-> Progress(first, second)]
         ELSE Silence(first, second, threshold)

CompareSnapshots(first, second, threshold) ==
    LET Because(class, code) == [class |-> class, evidence |-> {code}]
    IN  IF threshold < 0 \/ ~({first, second} \subseteq ExecutionSnapshots) THEN Raised
        ELSE IF ~Comparable(first, second) THEN Raised
        ELSE IF Progress(first, second) # {}
        THEN [class |-> "REAL_PROGRESS", evidence |-> Progress(first, second)]
        ELSE IF second.blocked THEN Because("EXTERNAL_BLOCK", "EXTERNAL_BLOCK_FLAG")
        ELSE IF second.credential THEN Because("LEGITIMATE_WAIT", "WAITING_FOR_CREDENTIAL")
        ELSE IF second.authorization
        THEN Because("LEGITIMATE_WAIT", "WAITING_FOR_AUTHORIZATION")
        ELSE IF second.activity > first.activity
        THEN Because("ACTIVITY_WITHOUT_PROGRESS", "ACTIVITY_COUNTER_INCREASED")
        ELSE Silence(first, second, threshold)

(* What a comparison says, without its evidence.                           *)
ClassOf(result) == IF result \in SentinelResults THEN result.class ELSE result
=============================================================================
