----------------------------- MODULE Execution ------------------------------
(***************************************************************************)
(* What moiras/sentinel.py is asked about: an execution that somebody      *)
(* takes snapshots of.  It advances, works without advancing, waits,       *)
(* finishes, and is started again as a new attempt, with new counters and  *)
(* a new monotonic clock; the wall clock may be set back at any time.  The *)
(* execution is outside src/moiras; what the snapshots are taken for is    *)
(* CompareSnapshots, on any two of them, in either order.                  *)
(***************************************************************************)
EXTENDS Sentinel, Sequences

CONSTANTS Thresholds,     \* the idle_threshold_s it is called with
          MaxHappenings,  \* bound: what happens, and is observed, at most
          MaxKept         \* bound: snapshots taken

ASSUME ExecutionAssumption ==
    /\ Thresholds \subseteq Int
    /\ MaxHappenings \in Nat /\ MaxKept \in Nat
    /\ {None, Raised} \cap (SentinelResults \cup SentinelClasses) = {}

VARIABLES live,   \* the snapshot one would take now
          truth,  \* all that has really happened: steps forward, work, time
          kept    \* the snapshots taken, each with the truth at that time

vars == <<live, truth, kept>>

-----------------------------------------------------------------------------

Fresh(attempt, utc) ==
    [attempt |-> attempt, utc |-> utc, offset |-> 0, progress |-> 0, activity |-> 0,
     artifact |-> 0, authorization |-> FALSE, credential |-> FALSE, blocked |-> FALSE,
     terminal |-> FALSE]

Init ==
    /\ live = Fresh(0, 1)
    /\ truth = [forward |-> 0, work |-> 0, age |-> 0, happenings |-> 0]
    /\ kept = <<>>

(* What happens, and which part of the truth it belongs to.                *)
Happens(part) ==
    LET One(p) == IF p = part THEN 1 ELSE 0
    IN  /\ truth.happenings < MaxHappenings
        /\ truth' = [forward |-> truth.forward + One("forward"),
                     work |-> truth.work + One("work"),
                     age |-> truth.age + One("age"),
                     happenings |-> truth.happenings + 1]
        /\ UNCHANGED kept

Advance(counter) ==
    /\ ~live.terminal
    /\ Happens("forward")
    /\ live' = [live EXCEPT ![counter] = @ + 1]

Work ==
    /\ ~live.terminal
    /\ Happens("work")
    /\ live' = [live EXCEPT !.activity = @ + 1]

Pause(flag) ==
    /\ ~live.terminal
    /\ Happens("nothing")
    /\ live' = [live EXCEPT ![flag] = ~@]

Finish ==
    /\ ~live.terminal
    /\ Happens("forward")
    /\ live' = [live EXCEPT !.terminal = TRUE]

Restart ==
    /\ Happens("nothing")
    /\ live' = Fresh(live.attempt + 1, live.utc)

Tick ==
    /\ Happens("age")
    /\ live' = [live EXCEPT !.utc = @ + 1, !.offset = @ + 1]

SetBack ==
    /\ live.utc > 0
    /\ Happens("nothing")
    /\ live' = [live EXCEPT !.utc = @ - 1]

Capture ==
    /\ Len(kept) < MaxKept
    /\ kept' = Append(kept, [shot |-> live, truth |-> truth])
    /\ UNCHANGED <<live, truth>>

(* Nobody looks at it any more.                                            *)
Closed == Len(kept) = MaxKept /\ UNCHANGED vars

Next == \/ \E c \in {"progress", "artifact"} : Advance(c)
        \/ \E f \in {"authorization", "credential", "blocked"} : Pause(f)
        \/ Work \/ Finish \/ Restart \/ Tick \/ SetBack \/ Capture \/ Closed

Spec == Init /\ [][Next]_vars

-----------------------------------------------------------------------------
(* Properties.  i and j number the snapshots in the order they were taken. *)

Compared(i, j, t) == CompareSnapshots(kept[i].shot, kept[j].shot, t)
Says(i, j, t)     == ClassOf(Compared(i, j, t))

Waits    == {"EXTERNAL_BLOCK", "LEGITIMATE_WAIT"}
Silences == {"INDETERMINATE", "PROBABLE_INACTIVITY"}

Before == {p \in (DOMAIN kept) \X (DOMAIN kept) : p[1] <= p[2]}

TypeOK ==
    /\ live \in ExecutionSnapshots
    /\ \A i \in DOMAIN kept : kept[i].shot \in ExecutionSnapshots
    /\ \A i, j \in DOMAIN kept, t \in Thresholds :
          Compared(i, j, t) \in SentinelResults \cup {Raised}

(* "Probable inactivity" is true: between the two looks the execution made *)
(* no step and did no work for at least the threshold, and at the second   *)
(* look it was neither waiting nor blocked; whatever the wall clock did    *)
(* and however often the execution was started again.                      *)
InactivityIsReal ==
    \A p \in Before, t \in Thresholds :
        Says(p[1], p[2], t) = "PROBABLE_INACTIVITY" =>
            LET was == kept[p[1]].truth
                is  == kept[p[2]].truth
                now == kept[p[2]].shot
            IN  /\ was.forward = is.forward /\ was.work = is.work
                /\ is.age - was.age >= t
                /\ ~now.authorization /\ ~now.credential /\ ~now.blocked

(* Two looks that compare report progress exactly when there was some, the *)
(* end of the execution included.                                          *)
ProgressIffReal ==
    \A p \in Before, t \in Thresholds :
        Compared(p[1], p[2], t) # Raised =>
            (Says(p[1], p[2], t) = "REAL_PROGRESS" <=>
                kept[p[1]].truth.forward # kept[p[2]].truth.forward)

(* Two looks given in the wrong order are refused, unless no time passed   *)
(* between them; and even then they never show progress or activity.       *)
SwappedPairTellsNothing ==
    \A p \in Before, t \in Thresholds :
        Compared(p[2], p[1], t) # Raised =>
            /\ kept[p[1]].truth.age = kept[p[2]].truth.age
            /\ Says(p[2], p[1], t) \notin {"REAL_PROGRESS", "ACTIVITY_WITHOUT_PROGRESS"}

(* How answers add up.  Of three looks whose near pairs compare the far     *)
(* pair compares too, and shows progress if and only if a near pair does.  *)
(* Without progress, it reports a wait or a block just as the last pair    *)
(* does; else it shows activity if a near pair does; and if both near      *)
(* pairs are silent, its silence is measured over the whole time, so that  *)
(* two looks that are INDETERMINATE can hide PROBABLE_INACTIVITY.          *)
ChainsAgree ==
    \A i, j, k \in DOMAIN kept, t \in Thresholds :
        i < j /\ j < k /\ Compared(i, j, t) # Raised /\ Compared(j, k, t) # Raised =>
            LET near == {Says(i, j, t), Says(j, k, t)}
                last == Says(j, k, t)
                far  == Says(i, k, t)
            IN  /\ Compared(i, k, t) # Raised
                /\ far = "REAL_PROGRESS" <=> "REAL_PROGRESS" \in near
                /\ "REAL_PROGRESS" \notin near =>
                      /\ far \in Waits \/ last \in Waits => far = last
                      /\ "ACTIVITY_WITHOUT_PROGRESS" \in near /\ last \notin Waits =>
                            far = "ACTIVITY_WITHOUT_PROGRESS"
                      /\ near \subseteq Silences =>
                            far = IF kept[k].truth.age - kept[i].truth.age >= t
                                  THEN "PROBABLE_INACTIVITY" ELSE "INDETERMINATE"
=============================================================================
