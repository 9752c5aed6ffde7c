---------------------------- MODULE MCSupervisor ----------------------------
(* Supervisor on every action, with a few panels.                          *)
EXTENDS Supervisor, TLC

CONSTANTS SECURITY, INTEGRITY, GOVERNANCE, OPERATIONS

FourRoles == {SECURITY, INTEGRITY, GOVERNANCE, OPERATIONS}

Opinion(r, score) == [role |-> r, class |-> "FRONTIER", score |-> score, veto |-> FALSE]

(* Three opinions a fourth can complete, and a panel that holds something  *)
(* that is no opinion.                                                     *)
ThreeSpoke == <<Opinion(SECURITY, 0), Opinion(INTEGRITY, 30), Opinion(GOVERNANCE, 0)>>
Broken     == <<Opinion(SECURITY, 0), NotAnOpinion, NotAnOpinion, Opinion(SECURITY, 0)>>

SmallPanels == {ThreeSpoke, Broken}

LastOpinions == {Opinion(OPERATIONS, 0), Opinion(OPERATIONS, 60)}

Shot(offset, progress) ==
    [attempt |-> 1, utc |-> 0, offset |-> offset, progress |-> progress, activity |-> 0,
     artifact |-> 0, authorization |-> FALSE, credential |-> FALSE, blocked |-> FALSE,
     terminal |-> FALSE]

(* A plain call, calls with snapshots that show progress and inactivity,   *)
(* and one call for each reason to refuse the arguments.                   *)
Watched == [Plain EXCEPT !.snapshots = <<Shot(0, 1), Shot(3, 1)>>, !.threshold = 3]

SomeExtras == {Plain, Watched,
               [Watched EXCEPT !.snapshots[2].progress = 2],
               [Plain EXCEPT !.sequence = FALSE],
               [Plain EXCEPT !.threshold = 3],
               [Watched EXCEPT !.threshold = None],
               [Watched EXCEPT !.threshold = -1],
               [Watched EXCEPT !.snapshots = <<Shot(0, 1)>>],
               [Watched EXCEPT !.snapshots[1] = None],
               [Watched EXCEPT !.snapshots[1].offset = 4]}
=============================================================================
